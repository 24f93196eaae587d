------------------------ MODULE FlowGenerator_proofs ------------------------
(***************************************************************************)
(* The generator with any number of slots, any trace, and any gaps, jitter *)
(* and durations: slots are kept and the trace is replayed.                *)
(***************************************************************************)
EXTENDS FlowGenerator, NatLemmas, FiniteSetTheorems

Entry == [when : Nat, src : Nat]

(* An entry that does something: the generator's at STOP only ends itself. *)
Active(e) == e.src # GEN \/ e.when # STOP

-----------------------------------------------------------------------------
(* The parts of the invariant that are about a list of events.             *)
NotBefore(events, t) == \A e \in ToSet(events) : t <= e.when

(* A flow has at most one event, the generator at most one arrival.        *)
OneEach(events) ==
  \A k, l \in 1 .. Len(events) :
    Active(events[k]) /\ Active(events[l]) /\ events[k].src = events[l].src => k = l

(* Events are those of live flows and of the generator.                    *)
OfLive(events, live) == \A e \in ToSet(events) : e.src \in live \cup {GEN}

(* An arrival is pending only while slots are to be opened, and at the     *)
(* time of the next flow of the trace.                                     *)
ArrivalDue(events, opened, rest) ==
  \A e \in ToSet(events) : e.src = GEN /\ e.when # STOP =>
    /\ replaceFlow => opened < MAX_FLOWS
    /\ useTrace => rest # <<>> /\ e.when = Head(rest)

(* The next flow of the trace that is due before STOP has its arrival.     *)
NextIsPending(events, rest) ==
  useTrace /\ ~replaceFlow /\ rest # <<>> /\ Head(rest) < STOP =>
    \E e \in ToSet(events) : e.src = GEN /\ e.when = Head(rest)

(* rest is what is left of the trace after the flows made so far.          *)
IsRest(made, rest) ==
  useTrace =>
    /\ rest \in Seq(Nat) /\ made \in Seq(Nat) /\ Len(made) + Len(rest) = Len(TRACE)
    /\ \A i \in 1 .. Len(made) : made[i] = TRACE[i]
    /\ \A i \in 1 .. Len(rest) : rest[i] = TRACE[Len(made) + i]

TypeInv ==
  /\ pendingsources \in Seq(Entry) /\ now \in Nat
  /\ useTrace \in BOOLEAN /\ replaceFlow \in BOOLEAN
  /\ flowsGenerated \in Nat /\ concurrentFlows \in Nat
  /\ liveFlows \subseteq 1 .. flowsGenerated

ListInv ==
  /\ InOrder(pendingsources) /\ NotBefore(pendingsources, now)
  /\ OneEach(pendingsources) /\ OfLive(pendingsources, liveFlows)
  /\ ArrivalDue(pendingsources, concurrentFlows, flowTrace)
  /\ NextIsPending(pendingsources, flowTrace)

(* The inductive invariant.                                                *)
IInv == TypeInv /\ ListInv /\ IsRest(arrivals, flowTrace) /\ SlotsKept

-----------------------------------------------------------------------------
(* The entries of a list.                                                  *)
LEMMA EntriesTyped ==
  ASSUME NEW events \in Seq(Entry)
  PROVE  /\ Len(events) \in Nat
         /\ \A i \in 1 .. Len(events) :
              events[i] \in Entry /\ events[i].when \in Nat /\ events[i].src \in Nat
<1>1. \A i \in 1 .. Len(events) : events[i] \in Entry
  OBVIOUS
<1>2. \A x \in Entry : x.when \in Nat /\ x.src \in Nat
  BY DEF Entry
<1> QED
  BY <1>1, <1>2

(* The times of entries are numbers.                                      *)
LEMMA TimesTyped == \A x \in Entry : x.when \in Nat
BY DEF Entry

(* What adding an event does to a list.                                    *)
LEMMA PendingFacts ==
  ASSUME NEW events \in Seq(Entry), InOrder(events), NEW src \in Nat, NEW when \in Nat
  PROVE  LET e == [when |-> when, src |-> src]
             out == sourceIsPending(events, src, when)
         IN  /\ out \in Seq(Entry) /\ InOrder(out)
             /\ ToSet(events) \subseteq ToSet(out) /\ ToSet(out) \subseteq ToSet(events) \cup {e}
             /\ END_TIME = 0 \/ when <= END_TIME => e \in ToSet(out)
             /\ OneEach(events) /\ (\A x \in ToSet(events) : Active(x) => x.src # src)
                  => OneEach(out)
<1> DEFINE e == [when |-> when, src |-> src]
           out == sourceIsPending(events, src, when)
           at == PlaceFor(events, when)
<1>1. CASE ~ (END_TIME = 0 \/ when <= END_TIME)
  BY <1>1 DEF sourceIsPending
<1>2. ASSUME END_TIME = 0 \/ when <= END_TIME
      PROVE  /\ out \in Seq(Entry) /\ InOrder(out)
             /\ ToSet(events) \subseteq ToSet(out) /\ ToSet(out) \subseteq ToSet(events) \cup {e}
             /\ e \in ToSet(out)
             /\ OneEach(events) /\ (\A x \in ToSet(events) : Active(x) => x.src # src)
                  => OneEach(out)
  <2>1. out = InsertAt(events, at, e)
    BY <1>2 DEF sourceIsPending, PlaceFor
  <2>2. \A i \in 1 .. Len(events) : events[i].when <= when <=> i < at
    BY TimesTyped, CountBefore
  <2>3. at \in 1 .. (Len(events) + 1)
    BY TimesTyped, CountBefore
  <2>4. e \in Entry /\ e.when = when /\ e.src = src
    BY DEF Entry
  <2>5. \A i \in 1 .. Len(events) : events[i].when \in Nat
    BY EntriesTyped
  <2> HIDE DEF out, at, e
  <2>6. /\ out \in Seq(Entry) /\ Len(out) = Len(events) + 1
        /\ \A j \in 1 .. (Len(events) + 1) :
             out[j] = IF j < at THEN events[j] ELSE IF j = at THEN e ELSE events[j - 1]
    <3>1. e \in Entry /\ events \in Seq(Entry)
      BY <2>4
    <3>2. /\ InsertAt(events, at, e) \in Seq(Entry) /\ Len(InsertAt(events, at, e)) = Len(events) + 1
          /\ \A j \in 1 .. (Len(events) + 1) :
               InsertAt(events, at, e)[j] =
                 IF j < at THEN events[j] ELSE IF j = at THEN e ELSE events[j - 1]
      BY ONLY <2>3, <3>1, InsertAtFacts, SMTT(60)
    <3> QED
      BY ONLY <2>1, <3>2, ZenonT(60)
  <2>7. Len(events) \in Nat /\ at \in Nat /\ at >= 1 /\ at <= Len(events) + 1
    BY <2>3
  <2>8. out[at] = e /\ at \in 1 .. Len(out)
    BY <2>6, <2>7
  <2>9. ASSUME NEW j \in 1 .. Len(out), j # at
        PROVE  \E k \in 1 .. Len(events) :
                 out[j] = events[k] /\ (j < at <=> k < at) /\ k = (IF j < at THEN j ELSE j - 1)
    <3>1. CASE j < at
      BY <2>6, <2>7, <3>1, SMTT(60)
    <3>2. CASE ~ (j < at)
      <4>1. j - 1 \in 1 .. Len(events) /\ ~ (j - 1 < at)
        BY <2>6, <2>7, <2>9, <3>2
      <4> QED
        BY <2>6, <2>9, <3>2, <4>1
    <3> QED
      BY <3>1, <3>2
  <2>10. \A k \in 1 .. Len(events) : \E j \in 1 .. Len(out) : out[j] = events[k]
    <3> SUFFICES ASSUME NEW k \in 1 .. Len(events)
                 PROVE  \E j \in 1 .. Len(out) : out[j] = events[k]
      OBVIOUS
    <3>1. CASE k < at
      BY <2>6, <2>7, <3>1
    <3>2. CASE ~ (k < at)
      <4>1. k + 1 \in 1 .. (Len(events) + 1) /\ ~ (k + 1 < at) /\ k + 1 # at /\ (k + 1) - 1 = k
        BY <2>7, <3>2
      <4> QED
        BY <2>6, <4>1
    <3> QED
      BY <3>1, <3>2
  <2>11. ToSet(out) = {out[j] : j \in 1 .. Len(out)} /\ ToSet(events) = {events[k] : k \in 1 .. Len(events)}
    BY <2>6, SMTT(60) DEF ToSet
  <2>12. InOrder(out)
    BY ONLY <2>1, <2>4, TimesTyped, InOrder(events), events \in Seq(Entry), InsertInOrder DEF at
  <2>13. ASSUME OneEach(events), \A x \in ToSet(events) : Active(x) => x.src # src
         PROVE  OneEach(out)
    <3> SUFFICES ASSUME NEW j \in 1 .. Len(out), NEW l \in 1 .. Len(out),
                        Active(out[j]), Active(out[l]), out[j].src = out[l].src, j # l
                 PROVE  FALSE
      BY DEF OneEach
    <3>1. \A i \in 1 .. Len(out) : i # at /\ Active(out[i]) => out[i].src # src
      BY <2>9, <2>11, <2>13
    <3>2. j # at /\ l # at
      BY <2>4, <2>8, <3>1
    <3>3. PICK k \in 1 .. Len(events) : out[j] = events[k] /\ k = (IF j < at THEN j ELSE j - 1)
      BY <2>9, <3>2
    <3>4. PICK m \in 1 .. Len(events) : out[l] = events[m] /\ m = (IF l < at THEN l ELSE l - 1)
      BY <2>9, <3>2
    <3>5. k # m
      BY <2>7, <3>2, <3>3, <3>4
    <3> QED
      BY <2>13, <3>3, <3>4, <3>5 DEF OneEach
  <2>14. ToSet(events) \subseteq ToSet(out)
    BY <2>10, <2>11
  <2>15. ToSet(out) \subseteq ToSet(events) \cup {e}
    <3> SUFFICES ASSUME NEW j \in 1 .. Len(out)
                 PROVE  out[j] \in ToSet(events) \cup {e}
      BY <2>11
    <3>1. CASE j = at
      BY <2>8, <3>1
    <3>2. CASE j # at
      BY <2>9, <2>11, <3>2
    <3> QED
      BY <3>1, <3>2
  <2>16. e \in ToSet(out)
    BY <2>8, <2>11
  <2>17. out \in Seq(Entry)
    BY <2>6
  <2> QED
    BY <2>12, <2>13, <2>14, <2>15, <2>16, <2>17
<1> QED
  BY <1>1, <1>2

(* What is left of a list when its first event fires.                      *)
LEMMA TailFacts ==
  ASSUME NEW events \in Seq(Entry), events # <<>>, InOrder(events), OneEach(events)
  PROVE  /\ Tail(events) \in Seq(Entry) /\ Head(events) \in Entry
         /\ InOrder(Tail(events)) /\ OneEach(Tail(events))
         /\ NotBefore(Tail(events), Head(events).when)
         /\ ToSet(events) = ToSet(Tail(events)) \cup {Head(events)}
         /\ Active(Head(events)) =>
              \A x \in ToSet(Tail(events)) : Active(x) => x.src # Head(events).src
<1> DEFINE t == Tail(events)
<1>1. /\ t \in Seq(Entry) /\ Len(t) = Len(events) - 1 /\ 1 \in 1 .. Len(events)
      /\ Head(events) = events[1] /\ Head(events) \in Entry
      /\ \A k \in 1 .. Len(events) : k # 1 => k - 1 \in 1 .. Len(t) /\ t[k - 1] = events[k]
  BY TailPlaces
<1>2. Len(events) \in Nat
  BY EntriesTyped
<1>3. \A j \in 1 .. Len(t) : j + 1 \in 1 .. Len(events) /\ t[j] = events[j + 1]
  <2> HIDE DEF t
  <2> SUFFICES ASSUME NEW j \in 1 .. Len(t)
               PROVE  j + 1 \in 1 .. Len(events) /\ t[j] = events[j + 1]
    OBVIOUS
  <2>1. j + 1 \in 1 .. Len(events) /\ j + 1 # 1 /\ (j + 1) - 1 = j
    BY <1>1, <1>2
  <2> QED
    BY <1>1, <2>1
<1> HIDE DEF t
<1>4. /\ ToSet(t) = {t[j] : j \in 1 .. Len(t)}
      /\ ToSet(events) = {events[k] : k \in 1 .. Len(events)}
  BY <1>1, SMTT(60) DEF ToSet
<1>5. ToSet(events) = ToSet(t) \cup {Head(events)}
  BY <1>1, <1>3, <1>4
<1>6. InOrder(t)
  <2> SUFFICES ASSUME NEW j \in 1 .. Len(t), NEW l \in 1 .. Len(t), j < l
               PROVE  t[j].when <= t[l].when
    BY DEF InOrder
  <2>1. j + 1 < l + 1
    OBVIOUS
  <2> QED
    BY <1>3, <2>1 DEF InOrder
<1>7. OneEach(t)
  <2> SUFFICES ASSUME NEW j \in 1 .. Len(t), NEW l \in 1 .. Len(t),
                      Active(t[j]), Active(t[l]), t[j].src = t[l].src
               PROVE  j = l
    BY DEF OneEach
  <2>1. j + 1 = l + 1
    BY <1>3 DEF OneEach
  <2> QED
    BY <2>1
<1>8. ASSUME NEW j \in 1 .. Len(t)
      PROVE  /\ Head(events).when <= t[j].when
             /\ Active(Head(events)) /\ Active(t[j]) => t[j].src # Head(events).src
  <2>1. 1 < j + 1 /\ 1 # j + 1
    OBVIOUS
  <2> QED
    BY <1>1, <1>3, <2>1 DEF InOrder, OneEach
<1>9. NotBefore(t, Head(events).when)
  BY <1>4, <1>8 DEF NotBefore
<1> QED
  BY <1>1, <1>4, <1>5, <1>6, <1>7, <1>8, <1>9 DEF t

-----------------------------------------------------------------------------
(* What a step that takes an event of src begins with.                     *)
LEMMA NextEvent ==
  ASSUME IInv, NEW src, NextEventOf(src)
  PROVE  LET rest == Tail(pendingsources)
         IN  /\ rest \in Seq(Entry) /\ InOrder(rest) /\ OneEach(rest)
             /\ now' \in Nat /\ src \in Nat /\ NotBefore(rest, now')
             /\ ToSet(pendingsources) = ToSet(rest) \cup {[when |-> now', src |-> src]}
             /\ src # GEN \/ now' # STOP => \A x \in ToSet(rest) : Active(x) => x.src # src
<1>1. /\ pendingsources \in Seq(Entry) /\ pendingsources # <<>>
      /\ InOrder(pendingsources) /\ OneEach(pendingsources)
      /\ Head(pendingsources).src = src /\ now' = Head(pendingsources).when
  BY DEF IInv, TypeInv, ListInv, NextEventOf
<1>2. Head(pendingsources) = [when |-> now', src |-> src] /\ now' \in Nat /\ src \in Nat
  <2>1. Head(pendingsources) \in Entry
    BY <1>1
  <2> QED
    BY <1>1, <2>1 DEF Entry
<1>3. Active(Head(pendingsources)) <=> src # GEN \/ now' # STOP
  BY <1>1 DEF Active
<1> QED
  BY <1>1, <1>2, <1>3, TailFacts

(* The start event of a new flow, which is the (n+1)-th.                   *)
LEMMA FlowAdded ==
  ASSUME NEW events \in Seq(Entry), InOrder(events), OneEach(events),
         NEW t \in Nat, NotBefore(events, t),
         NEW n \in Nat, NEW live \in SUBSET (1 .. n), OfLive(events, live),
         NEW when \in Nat, t <= when
  PROVE  LET out == sourceIsPending(events, n + 1, when)
         IN  /\ out \in Seq(Entry) /\ InOrder(out) /\ OneEach(out)
             /\ NotBefore(out, t) /\ OfLive(out, live \cup {n + 1})
             /\ \A x : x.src = GEN => (x \in ToSet(out) <=> x \in ToSet(events))
<1> DEFINE e == [when |-> when, src |-> n + 1]
           out == sourceIsPending(events, n + 1, when)
<1>1. n + 1 \in Nat /\ n + 1 # GEN /\ n + 1 \notin live
  BY DEF GEN
<1>2. \A x \in ToSet(events) : x.src # n + 1
  BY <1>1 DEF OfLive
<1>3. /\ out \in Seq(Entry) /\ InOrder(out)
      /\ ToSet(events) \subseteq ToSet(out) /\ ToSet(out) \subseteq ToSet(events) \cup {e}
      /\ OneEach(events) /\ (\A x \in ToSet(events) : Active(x) => x.src # n + 1) => OneEach(out)
  BY <1>1, PendingFacts
<1>4. e.when = when /\ e.src = n + 1
  OBVIOUS
<1> HIDE DEF e, out
<1>5. OneEach(out)
  BY <1>2, <1>3
<1>6. NotBefore(out, t)
  BY <1>3, <1>4 DEF NotBefore
<1>7. OfLive(out, live \cup {n + 1})
  BY <1>3, <1>4 DEF OfLive
<1>8. \A x : x.src = GEN => (x \in ToSet(out) <=> x \in ToSet(events))
  BY <1>1, <1>3, <1>4
<1> QED
  BY <1>3, <1>5, <1>6, <1>7, <1>8 DEF out

(* The first events.                                                       *)
LEMMA InitInv == Init => IInv
<1> SUFFICES ASSUME Init
             PROVE  IInv
  OBVIOUS
<1> DEFINE first == IF useTrace THEN Head(TRACE) ELSE START
           arrive == [when |-> first, src |-> GEN]
           stop == [when |-> STOP, src |-> GEN]
<1>1. TRACE \in Seq(Nat) /\ TRACE # <<>> /\ STOP \in Nat /\ START \in Nat /\ MAX_FLOWS \in Nat /\ MAX_FLOWS > 0
  BY GeneratorAssumption
<1>2. first \in Nat
  BY <1>1
<1>3. arrive \in Entry /\ stop \in Entry /\ ~ Active(stop)
  BY <1>1, <1>2 DEF Entry, Active, GEN
<1>4. pendingsources = IF first <= STOP THEN <<arrive, stop>> ELSE <<stop, arrive>>
  BY DEF Init, setTimeLimits
<1>5. arrive.when = first /\ arrive.src = GEN /\ stop.when = STOP /\ stop.src = GEN
  OBVIOUS
<1>6. now = 0 /\ liveFlows = {} /\ flowsGenerated = 0 /\ concurrentFlows = 0
  BY DEF Init
<1>7. useTrace \in BOOLEAN /\ replaceFlow \in BOOLEAN /\ flowTrace = TRACE /\ arrivals = <<>>
  BY DEF Init
<1>8. useTrace => first = Head(TRACE)
  OBVIOUS
<1> HIDE DEF first, arrive, stop
<1>9. /\ pendingsources \in Seq(Entry) /\ Len(pendingsources) = 2
      /\ pendingsources[1] = (IF first <= STOP THEN arrive ELSE stop)
      /\ pendingsources[2] = (IF first <= STOP THEN stop ELSE arrive)
  BY <1>3, <1>4
<1>10. ToSet(pendingsources) = {arrive, stop}
  BY <1>4, <1>9 DEF ToSet
<1>11. InOrder(pendingsources)
  BY <1>1, <1>2, <1>5, <1>9 DEF InOrder
<1>12. OneEach(pendingsources)
  BY <1>3, <1>9 DEF OneEach
<1>13. /\ NotBefore(pendingsources, 0) /\ OfLive(pendingsources, {})
       /\ ArrivalDue(pendingsources, 0, TRACE) /\ NextIsPending(pendingsources, TRACE)
  BY <1>1, <1>2, <1>5, <1>8, <1>10 DEF NotBefore, OfLive, ArrivalDue, NextIsPending
<1>14. IsRest(<<>>, TRACE)
  BY <1>1 DEF IsRest
<1>15. SlotsKept
  BY <1>1, <1>6, FS_EmptySet DEF SlotsKept
<1> QED
  BY <1>6, <1>7, <1>9, <1>11, <1>12, <1>13, <1>14, <1>15 DEF IInv, TypeInv, ListInv

(* The generator's event at the end.                                       *)
LEMMA EndTimeInv ==
  ASSUME IInv, EndTime
  PROVE  IInv'
<1>1. NextEventOf(GEN) /\ now' = STOP /\ pendingsources' = Tail(pendingsources)
  BY DEF EndTime
<1>2. UNCHANGED <<useTrace, replaceFlow, flowTrace, flowsGenerated, concurrentFlows, liveFlows, arrivals>>
  BY DEF EndTime, genVars
<1>3. PICK rest \in Seq(Entry) : /\ rest = Tail(pendingsources)
                                /\ InOrder(rest) /\ OneEach(rest) /\ NotBefore(rest, now')
                                /\ ToSet(pendingsources) = ToSet(rest) \cup {[when |-> now', src |-> GEN]}
  BY <1>1, NextEvent
<1>4. OfLive(rest, liveFlows) /\ ArrivalDue(rest, concurrentFlows, flowTrace)
  BY <1>3 DEF IInv, ListInv, OfLive, ArrivalDue
<1>5. NextIsPending(rest, flowTrace)
  <2> SUFFICES ASSUME useTrace, ~ replaceFlow, flowTrace # <<>>, Head(flowTrace) < STOP
               PROVE  \E e \in ToSet(rest) : e.src = GEN /\ e.when = Head(flowTrace)
    BY DEF NextIsPending
  <2>1. PICK e \in ToSet(pendingsources) : e.src = GEN /\ e.when = Head(flowTrace)
    BY DEF IInv, ListInv, NextIsPending
  <2>2. Head(flowTrace) # STOP
    <3>1. Head(flowTrace) \in Nat /\ STOP \in Nat
      BY GeneratorAssumption, SMTT(60) DEF IInv, IsRest
    <3> QED
      BY <3>1
  <2>3. e # [when |-> now', src |-> GEN]
    BY <1>1, <2>1, <2>2
  <2> QED
    BY <1>3, <2>1, <2>3
<1>6. now' \in Nat
  BY <1>1, GeneratorAssumption
<1>7. ListInv'
  BY <1>1, <1>2, <1>3, <1>4, <1>5 DEF ListInv, OfLive, ArrivalDue, NextIsPending
<1>8. TypeInv'
  BY <1>1, <1>2, <1>3, <1>6 DEF IInv, TypeInv
<1>9. IsRest(arrivals, flowTrace)' /\ SlotsKept'
  BY <1>2 DEF IInv, IsRest, SlotsKept
<1> QED
  BY <1>7, <1>8, <1>9 DEF IInv

(* What a step that takes an event of a flow begins with.                  *)
LEMMA FlowEvent ==
  ASSUME IInv, NEW f, f # GEN, NextEventOf(f)
  PROVE  LET rest == Tail(pendingsources)
         IN  /\ f \in liveFlows
             /\ rest \in Seq(Entry) /\ InOrder(rest) /\ OneEach(rest)
             /\ now' \in Nat /\ NotBefore(rest, now')
             /\ OfLive(rest, liveFlows \ {f})
             /\ ToSet(rest) \subseteq ToSet(pendingsources)
             /\ \A x : x.src = GEN => (x \in ToSet(rest) <=> x \in ToSet(pendingsources))
<1>1. PICK t \in Nat : t = now'
  BY NextEvent
<1>2. PICK rest \in Seq(Entry) : rest = Tail(pendingsources)
  BY NextEvent
<1>3. InOrder(rest) /\ OneEach(rest) /\ NotBefore(rest, t)
  BY <1>1, <1>2, NextEvent
<1>4. \A x : x \in ToSet(pendingsources) <=> x \in ToSet(rest) \/ x = [when |-> t, src |-> f]
  BY <1>1, <1>2, NextEvent
<1>5. \A x \in ToSet(rest) : Active(x) => x.src # f
  BY <1>2, NextEvent
<1>6. \A x \in ToSet(rest) : x.src # f
  BY <1>5 DEF Active
<1>7. OfLive(pendingsources, liveFlows)
  BY DEF IInv, ListInv
<1>8. f \in liveFlows
  <2>1. [when |-> t, src |-> f] \in ToSet(pendingsources) /\ [when |-> t, src |-> f].src = f
    BY <1>4
  <2> QED
    BY <1>7, <2>1 DEF OfLive
<1>9. OfLive(rest, liveFlows \ {f})
  BY <1>4, <1>6, <1>7 DEF OfLive
<1>10. \A x : x.src = GEN => (x \in ToSet(rest) <=> x \in ToSet(pendingsources))
  BY <1>4
<1> QED
  BY <1>1, <1>2, <1>3, <1>4, <1>8, <1>9, <1>10

(* The generator's own events are as they were.                            *)
LEMMA SameArrivals ==
  ASSUME NEW events, NEW out, NEW opened, NEW rest,
         \A x : x.src = GEN => (x \in ToSet(out) <=> x \in ToSet(events))
  PROVE  /\ ArrivalDue(events, opened, rest) => ArrivalDue(out, opened, rest)
         /\ NextIsPending(events, rest) => NextIsPending(out, rest)
BY DEF ArrivalDue, NextIsPending

(* A flow starts, with the event of its end.                               *)
LEMMA StartFlowInv ==
  ASSUME IInv, NEW f \in 1 .. flowsGenerated, NEW d \in Duration, StartFlow(f, d)
  PROVE  IInv'
<1>0. f \in Nat /\ f # GEN
  BY DEF IInv, TypeInv, GEN
<1>1. NextEventOf(f) /\ pendingsources' = sourceIsPending(Tail(pendingsources), f, now' + d)
  BY DEF StartFlow
<1>2. UNCHANGED <<useTrace, replaceFlow, flowTrace, flowsGenerated, concurrentFlows, liveFlows, arrivals>>
  BY DEF StartFlow, genVars
<1>3. PICK t \in Nat : t = now'
  BY <1>0, <1>1, FlowEvent
<1>4. PICK rest \in Seq(Entry) : /\ rest = Tail(pendingsources)
                                /\ InOrder(rest) /\ OneEach(rest) /\ NotBefore(rest, t)
                                /\ f \in liveFlows /\ OfLive(rest, liveFlows \ {f})
                                /\ \A x : x.src = GEN => (x \in ToSet(rest) <=> x \in ToSet(pendingsources))
  BY <1>0, <1>1, <1>3, FlowEvent
<1>5. PICK later \in Nat : later = t + d /\ t <= later
  BY GeneratorAssumption
<1>7. PICK new \in Seq(Entry) :
        /\ new = sourceIsPending(rest, f, later) /\ InOrder(new)
        /\ ToSet(rest) \subseteq ToSet(new)
        /\ ToSet(new) \subseteq ToSet(rest) \cup {[when |-> later, src |-> f]}
        /\ OneEach(rest) /\ (\A x \in ToSet(rest) : Active(x) => x.src # f) => OneEach(new)
  BY <1>0, <1>4, PendingFacts
<1>8. pendingsources' = new
  BY <1>1, <1>3, <1>4, <1>5, <1>7
<1>9. OneEach(new)
  BY <1>0, <1>4, <1>7 DEF OfLive
<1>10. NotBefore(new, t) /\ OfLive(new, liveFlows)
  BY <1>4, <1>5, <1>7 DEF NotBefore, OfLive
<1>11. \A x : x.src = GEN => (x \in ToSet(new) <=> x \in ToSet(pendingsources))
  BY <1>0, <1>4, <1>7
<1>12. ArrivalDue(new, concurrentFlows, flowTrace) /\ NextIsPending(new, flowTrace)
  BY <1>11, SameArrivals DEF IInv, ListInv
<1>13. ListInv'
  BY <1>2, <1>3, <1>7, <1>8, <1>9, <1>10, <1>12 DEF ListInv, OfLive, ArrivalDue, NextIsPending
<1>14. TypeInv'
  BY <1>2, <1>3, <1>8 DEF IInv, TypeInv
<1>15. IsRest(arrivals, flowTrace)' /\ SlotsKept'
  BY <1>2 DEF IInv, IsRest, SlotsKept
<1> QED
  BY <1>13, <1>14, <1>15 DEF IInv

(* A flow finishes, and another takes its slot if flows are replaced.      *)
LEMMA finishFlowInv ==
  ASSUME IInv, NEW f \in 1 .. flowsGenerated, NEW wait \in Wait, finishFlow(f, wait)
  PROVE  IInv'
<1>0. f # GEN
  BY DEF IInv, TypeInv, GEN
<1>1. NextEventOf(f)
  BY DEF finishFlow
<1>2. UNCHANGED <<useTrace, replaceFlow, flowTrace, concurrentFlows, arrivals>>
  BY DEF finishFlow
<1>3. PICK t \in Nat : t = now'
  BY <1>0, <1>1, FlowEvent
<1>4. PICK rest \in Seq(Entry) : /\ rest = Tail(pendingsources)
                                /\ InOrder(rest) /\ OneEach(rest) /\ NotBefore(rest, t)
                                /\ f \in liveFlows /\ OfLive(rest, liveFlows \ {f})
                                /\ \A x : x.src = GEN => (x \in ToSet(rest) <=> x \in ToSet(pendingsources))
  BY <1>0, <1>1, <1>3, FlowEvent
<1>5. ArrivalDue(rest, concurrentFlows, flowTrace) /\ NextIsPending(rest, flowTrace)
  BY <1>4, SameArrivals DEF IInv, ListInv
<1>6. /\ flowsGenerated \in Nat /\ liveFlows \subseteq 1 .. flowsGenerated
      /\ useTrace \in BOOLEAN /\ replaceFlow \in BOOLEAN /\ concurrentFlows \in Nat
  BY DEF IInv, TypeInv
<1>7. ASSUME ~ replaceFlow
      PROVE  ListInv' /\ TypeInv' /\ SlotsKept'
  <2>1. pendingsources' = rest /\ liveFlows' = liveFlows \ {f} /\ UNCHANGED flowsGenerated
    BY <1>4, <1>7 DEF finishFlow
  <2>2. ListInv'
    BY <1>2, <1>3, <1>4, <1>5, <2>1 DEF ListInv, OfLive, ArrivalDue, NextIsPending
  <2>3. TypeInv'
    BY <1>2, <1>3, <1>6, <2>1 DEF TypeInv
  <2>4. SlotsKept'
    BY <1>2, <1>7 DEF SlotsKept
  <2> QED
    BY <2>2, <2>3, <2>4
<1>8. ASSUME replaceFlow
      PROVE  ListInv' /\ TypeInv' /\ SlotsKept'
  <2>1. /\ pendingsources' = FlowScheduled(rest, wait)
        /\ liveFlows' = (liveFlows \ {f}) \cup {flowsGenerated + 1}
        /\ flowsGenerated' = flowsGenerated + 1
    BY <1>4, <1>8 DEF finishFlow
  <2>2. PICK later \in Nat : later = t + wait /\ t <= later
    BY GeneratorAssumption
  <2>3. PICK live \in SUBSET (1 .. flowsGenerated) : live = liveFlows \ {f}
    BY <1>6
  <2>4. PICK new \in Seq(Entry) :
          /\ new = sourceIsPending(rest, flowsGenerated + 1, later)
          /\ InOrder(new) /\ OneEach(new) /\ NotBefore(new, t)
          /\ OfLive(new, live \cup {flowsGenerated + 1})
          /\ \A x : x.src = GEN => (x \in ToSet(new) <=> x \in ToSet(rest))
    <3> DEFINE out == sourceIsPending(rest, flowsGenerated + 1, later)
    <3>1. InOrder(rest) /\ OneEach(rest) /\ NotBefore(rest, t) /\ OfLive(rest, live) /\ t <= later
      BY <1>4, <2>2, <2>3
    <3>2. flowsGenerated \in Nat
      BY <1>6
    <3>3. /\ out \in Seq(Entry) /\ InOrder(out) /\ OneEach(out)
          /\ NotBefore(out, t) /\ OfLive(out, live \cup {flowsGenerated + 1})
          /\ \A x : x.src = GEN => (x \in ToSet(out) <=> x \in ToSet(rest))
      BY <3>1, <3>2, FlowAdded, ZenonT(30)
    <3> HIDE DEF out
    <3>4. out = sourceIsPending(rest, flowsGenerated + 1, later)
      BY DEF out
    <3> QED
      BY <3>3, <3>4
  <2>5. pendingsources' = new
    BY <1>3, <2>1, <2>2, <2>4 DEF FlowScheduled
  <2>6. ArrivalDue(new, concurrentFlows, flowTrace) /\ NextIsPending(new, flowTrace)
    BY <1>5, <2>4, SameArrivals
  <2>7. ListInv'
    BY <1>2, <1>3, <2>1, <2>3, <2>4, <2>5, <2>6 DEF ListInv, OfLive, ArrivalDue, NextIsPending
  <2>8. TypeInv'
    BY <1>2, <1>3, <1>6, <2>1, <2>5 DEF TypeInv
  <2>9. Cardinality(liveFlows') = Cardinality(liveFlows)
    <3>1. IsFiniteSet(1 .. flowsGenerated)
      BY <1>6, FS_Interval
    <3>2. IsFiniteSet(liveFlows)
      BY <1>6, <3>1, FS_Subset
    <3>3. /\ IsFiniteSet(liveFlows \ {f})
          /\ Cardinality(liveFlows \ {f}) = Cardinality(liveFlows) - 1
      BY <1>4, <3>2, FS_RemoveElement
    <3>4. flowsGenerated + 1 \notin liveFlows \ {f}
      BY <1>6
    <3>5. Cardinality(liveFlows') = Cardinality(liveFlows \ {f}) + 1
      BY <2>1, <3>3, <3>4, FS_AddElement
    <3>6. Cardinality(liveFlows) \in Nat
      BY <3>2, FS_CardinalityType
    <3> QED
      BY <3>3, <3>5, <3>6
  <2>10. SlotsKept'
    BY <1>2, <2>9 DEF IInv, SlotsKept
  <2> QED
    BY <2>7, <2>8, <2>10
<1>9. IsRest(arrivals, flowTrace)'
  BY <1>2 DEF IInv, IsRest
<1> QED
  BY <1>6, <1>7, <1>8, <1>9 DEF IInv

(* The trace after one more flow, which came at its time t.                *)
LEMMA TraceStep ==
  ASSUME useTrace, IsRest(arrivals, flowTrace), flowTrace # <<>>, NEW t, t = Head(flowTrace),
         NEW rest, rest = Tail(flowTrace)
  PROVE  /\ IsRest(Append(arrivals, t), rest)
         /\ rest # <<>> => Head(rest) \in Nat /\ t <= Head(rest)
<1> DEFINE made == Append(arrivals, t)
<1>1. /\ flowTrace \in Seq(Nat) /\ arrivals \in Seq(Nat) /\ Len(arrivals) + Len(flowTrace) = Len(TRACE)
      /\ \A i \in 1 .. Len(arrivals) : arrivals[i] = TRACE[i]
      /\ \A i \in 1 .. Len(flowTrace) : flowTrace[i] = TRACE[Len(arrivals) + i]
  BY DEF IsRest
<1>2. /\ rest \in Seq(Nat) /\ Len(rest) = Len(flowTrace) - 1 /\ Len(flowTrace) \in Nat
      /\ Len(flowTrace) >= 1 /\ t \in Nat /\ t = flowTrace[1]
      /\ \A i \in 1 .. Len(rest) : rest[i] = flowTrace[i + 1]
  BY <1>1
<1>3. /\ made \in Seq(Nat) /\ Len(made) = Len(arrivals) + 1 /\ Len(arrivals) \in Nat
      /\ made[Len(arrivals) + 1] = t
      /\ \A i \in 1 .. Len(arrivals) : made[i] = arrivals[i]
  BY <1>1, <1>2
<1> HIDE DEF made
<1>4. Len(made) + Len(rest) = Len(TRACE)
  BY <1>1, <1>2, <1>3
<1>5. t = TRACE[Len(arrivals) + 1]
  BY <1>1, <1>2
<1>6. \A i \in 1 .. Len(made) : made[i] = TRACE[i]
  <2> SUFFICES ASSUME NEW i \in 1 .. Len(made)
               PROVE  made[i] = TRACE[i]
    OBVIOUS
  <2>1. CASE i = Len(arrivals) + 1
    BY <1>3, <1>5, <2>1
  <2>2. CASE i # Len(arrivals) + 1
    <3>1. i \in 1 .. Len(arrivals)
      BY <1>3, <2>2
    <3> QED
      BY <1>1, <1>3, <3>1
  <2> QED
    BY <2>1, <2>2
<1>7. \A i \in 1 .. Len(rest) : rest[i] = TRACE[Len(made) + i]
  <2> SUFFICES ASSUME NEW i \in 1 .. Len(rest)
               PROVE  rest[i] = TRACE[Len(made) + i]
    OBVIOUS
  <2>1. i + 1 \in 1 .. Len(flowTrace) /\ Len(arrivals) + (i + 1) = Len(made) + i
    BY <1>2, <1>3
  <2>2. flowTrace[i + 1] = TRACE[Len(arrivals) + (i + 1)]
    BY <1>1, <2>1
  <2> QED
    BY <1>2, <2>1, <2>2
<1>8. ASSUME rest # <<>>
      PROVE  Head(rest) \in Nat /\ t <= Head(rest)
  <2>1. /\ Head(rest) = rest[1] /\ Head(rest) \in Nat /\ 1 \in 1 .. Len(rest)
    BY <1>2, <1>8
  <2>2. rest[1] = TRACE[Len(arrivals) + 2]
    <3>1. Len(made) + 1 = Len(arrivals) + 2
      BY <1>3
    <3> QED
      BY <1>7, <2>1, <3>1
  <2>3. Len(arrivals) + 2 \in 2 .. Len(TRACE) /\ (Len(arrivals) + 2) - 1 = Len(arrivals) + 1
    BY <1>2, <1>3, <1>4, <2>1, SMTT(60)
  <2>4. TRACE[(Len(arrivals) + 2) - 1] <= TRACE[Len(arrivals) + 2]
    BY <2>3, GeneratorAssumption
  <2> QED
    BY <1>5, <2>1, <2>2, <2>3, <2>4
<1>9. IsRest(made, rest)
  BY <1>2, <1>3, <1>4, <1>6, <1>7 DEF IsRest
<1> QED
  BY <1>8, <1>9 DEF made

(* A flow arrives.                                                         *)
LEMMA GenerateInv ==
  ASSUME IInv, NEW gap \in Gap, NEW wait \in Wait, Generate(gap, wait)
  PROVE  IInv'
<1>1. /\ NextEventOf(GEN) /\ now' # STOP
      /\ flowTrace' = (IF useTrace THEN Tail(flowTrace) ELSE flowTrace)
      /\ flowsGenerated' = flowsGenerated + 1 /\ liveFlows' = liveFlows \cup {flowsGenerated + 1}
      /\ concurrentFlows' = concurrentFlows + 1 /\ arrivals' = Append(arrivals, now')
      /\ UNCHANGED <<useTrace, replaceFlow>>
  BY DEF Generate
<1>2. PICK t \in Nat : t = now' /\ t # STOP
  BY <1>1, NextEvent
<1>3. PICK rest \in Seq(Entry) : rest = Tail(pendingsources)
  BY <1>1, NextEvent
<1>4. InOrder(rest) /\ OneEach(rest) /\ NotBefore(rest, t)
  BY <1>1, <1>2, <1>3, NextEvent
<1>5. \A x : x \in ToSet(pendingsources) <=> x \in ToSet(rest) \/ x = [when |-> t, src |-> GEN]
  BY <1>1, <1>2, <1>3, NextEvent
<1>6. \A x \in ToSet(rest) : Active(x) => x.src # GEN
  BY <1>1, <1>2, <1>3, NextEvent
<1>7. /\ flowsGenerated \in Nat /\ liveFlows \in SUBSET (1 .. flowsGenerated)
      /\ useTrace \in BOOLEAN /\ replaceFlow \in BOOLEAN /\ concurrentFlows \in Nat
  BY DEF IInv, TypeInv
<1>8. OfLive(rest, liveFlows)
  BY <1>5 DEF IInv, ListInv, OfLive
<1>9. /\ replaceFlow => concurrentFlows < MAX_FLOWS
      /\ useTrace => flowTrace # <<>> /\ t = Head(flowTrace)
  <2>1. /\ [when |-> t, src |-> GEN] \in ToSet(pendingsources)
        /\ [when |-> t, src |-> GEN].src = GEN /\ [when |-> t, src |-> GEN].when = t
    BY <1>5
  <2> QED
    BY <1>2, <2>1 DEF IInv, ListInv, ArrivalDue
<1>10. /\ IsRest(arrivals', flowTrace')
       /\ useTrace /\ flowTrace' # <<>> => Head(flowTrace') \in Nat /\ t <= Head(flowTrace')
  <2>1. CASE useTrace
    <3>1. IsRest(arrivals, flowTrace)
      BY DEF IInv
    <3>2. flowTrace' = Tail(flowTrace) /\ arrivals' = Append(arrivals, t)
      BY <1>1, <1>2, <2>1
    <3> QED
      BY <1>9, <2>1, <3>1, <3>2, TraceStep
  <2>2. CASE ~ useTrace
    BY <2>2 DEF IsRest
  <2> QED
    BY <2>1, <2>2
<1>11. PICK begin \in Nat : begin = t + wait /\ t <= begin
  BY GeneratorAssumption
<1>12. PICK events \in Seq(Entry) :
         /\ events = sourceIsPending(rest, flowsGenerated + 1, begin)
         /\ InOrder(events) /\ OneEach(events) /\ NotBefore(events, t)
         /\ OfLive(events, liveFlows \cup {flowsGenerated + 1})
         /\ \A x : x.src = GEN => (x \in ToSet(events) <=> x \in ToSet(rest))
  <2> DEFINE out == sourceIsPending(rest, flowsGenerated + 1, begin)
  <2>1. /\ out \in Seq(Entry) /\ InOrder(out) /\ OneEach(out)
        /\ NotBefore(out, t) /\ OfLive(out, liveFlows \cup {flowsGenerated + 1})
        /\ \A x : x.src = GEN => (x \in ToSet(out) <=> x \in ToSet(rest))
    BY <1>4, <1>7, <1>8, <1>11, FlowAdded, ZenonT(30)
  <2> HIDE DEF out
  <2>2. out = sourceIsPending(rest, flowsGenerated + 1, begin)
    BY DEF out
  <2> QED
    BY <2>1, <2>2
<1>13. events = FlowScheduled(Tail(pendingsources), wait)
  BY <1>2, <1>3, <1>11, <1>12 DEF FlowScheduled
<1>14. \A x \in ToSet(events) : Active(x) => x.src # GEN
  BY <1>6, <1>12
<1>15. \A x \in ToSet(events) : x.src = GEN => x.when = STOP
  BY <1>14 DEF Active
<1>16. PICK new \in Seq(Entry) :
         /\ new = pendingsources' /\ InOrder(new) /\ OneEach(new) /\ NotBefore(new, t)
         /\ OfLive(new, liveFlows \cup {flowsGenerated + 1})
         /\ ArrivalDue(new, concurrentFlows', flowTrace') /\ NextIsPending(new, flowTrace')
  <2>1. CASE ~ (MoreArrivals(flowTrace') /\ ScheduleNext(concurrentFlows'))
    <3>1. pendingsources' = events
      BY <1>13, <2>1 DEF Generate
    <3>2. ArrivalDue(events, concurrentFlows', flowTrace')
      BY <1>15 DEF ArrivalDue
    <3>3. NextIsPending(events, flowTrace')
      BY <2>1 DEF NextIsPending, MoreArrivals, ScheduleNext
    <3> QED
      BY <1>12, <3>1, <3>2, <3>3
  <2>2. CASE MoreArrivals(flowTrace') /\ ScheduleNext(concurrentFlows')
    <3>1. PICK next \in Nat : next = NextArrival(gap, flowTrace') /\ t <= next
      <4>1. CASE useTrace
        BY <1>10, <2>2, <4>1 DEF NextArrival, MoreArrivals
      <4>2. CASE ~ useTrace
        <5>1. gap \in Nat /\ t + gap \in Nat /\ t <= t + gap
          BY GeneratorAssumption
        <5> QED
          BY <1>2, <4>2, <5>1 DEF NextArrival
      <4> QED
        BY <4>1, <4>2
    <3>2. GEN \in Nat
      BY DEF GEN
    <3>3. PICK added \in Seq(Entry) :
            /\ added = sourceIsPending(events, GEN, next)
            /\ InOrder(added) /\ ToSet(events) \subseteq ToSet(added)
            /\ ToSet(added) \subseteq ToSet(events) \cup {[when |-> next, src |-> GEN]}
            /\ END_TIME = 0 \/ next <= END_TIME => [when |-> next, src |-> GEN] \in ToSet(added)
            /\ OneEach(events) /\ (\A x \in ToSet(events) : Active(x) => x.src # GEN) => OneEach(added)
      BY <1>12, <3>2, PendingFacts
    <3>4. pendingsources' = added
      BY <1>13, <2>2, <3>1, <3>3 DEF Generate
    <3>5. OneEach(added)
      BY <1>12, <1>14, <3>3
    <3>6. \A x \in ToSet(added) : x \in ToSet(events) \/ (x.src = GEN /\ x.when = next)
      BY <3>3
    <3>7. NotBefore(added, t)
      BY <1>12, <3>1, <3>6 DEF NotBefore
    <3>8. OfLive(added, liveFlows \cup {flowsGenerated + 1})
      BY <1>12, <3>6 DEF OfLive
    <3>9. ArrivalDue(added, concurrentFlows', flowTrace')
      <4>1. replaceFlow => concurrentFlows' < MAX_FLOWS
        BY <2>2 DEF ScheduleNext
      <4>2. useTrace => flowTrace' # <<>> /\ next = Head(flowTrace')
        BY <2>2, <3>1 DEF MoreArrivals, NextArrival
      <4> QED
        BY <1>15, <3>6, <4>1, <4>2 DEF ArrivalDue
    <3>10. NextIsPending(added, flowTrace')
      <4> SUFFICES ASSUME useTrace, flowTrace' # <<>>, Head(flowTrace') < STOP
                   PROVE  \E e \in ToSet(added) : e.src = GEN /\ e.when = Head(flowTrace')
        BY DEF NextIsPending
      <4>1. next = Head(flowTrace')
        BY <3>1 DEF NextArrival
      <4>2. END_TIME = 0 \/ next <= END_TIME
        BY <4>1, GeneratorAssumption, EventListAssumption, SMTT(60)
      <4>3. /\ [when |-> next, src |-> GEN] \in ToSet(added)
            /\ [when |-> next, src |-> GEN].src = GEN /\ [when |-> next, src |-> GEN].when = next
        BY <3>3, <4>2
      <4> QED
        BY <4>1, <4>3
    <3> QED
      BY <3>3, <3>4, <3>5, <3>7, <3>8, <3>9, <3>10
  <2> QED
    BY <2>1, <2>2
<1>17. ListInv'
  BY <1>1, <1>2, <1>16 DEF ListInv, OfLive, ArrivalDue, NextIsPending
<1>18. TypeInv'
  BY <1>1, <1>2, <1>7, <1>16 DEF TypeInv
<1>19. SlotsKept'
  <2>1. IsFiniteSet(1 .. flowsGenerated)
    BY <1>7, FS_Interval
  <2>2. IsFiniteSet(liveFlows)
    BY <1>7, <2>1, FS_Subset
  <2>3. flowsGenerated + 1 \notin liveFlows
    BY <1>7
  <2>4. Cardinality(liveFlows') = Cardinality(liveFlows) + 1
    BY <1>1, <2>2, <2>3, FS_AddElement
  <2>5. replaceFlow => Cardinality(liveFlows) = concurrentFlows
    BY DEF IInv, SlotsKept
  <2>6. MAX_FLOWS \in Nat
    BY GeneratorAssumption
  <2>7. replaceFlow => concurrentFlows + 1 <= MAX_FLOWS
    BY <1>7, <1>9, <2>6
  <2> QED
    BY <1>1, <2>4, <2>5, <2>7 DEF SlotsKept
<1>20. IsRest(arrivals, flowTrace)'
  BY <1>1, <1>10 DEF IsRest
<1> QED
  BY <1>17, <1>18, <1>19, <1>20 DEF IInv

-----------------------------------------------------------------------------
(* The invariant, in every reachable state.                                *)
THEOREM InductiveInvariant == Spec => []IInv
<1>1. IInv /\ [Next]_vars => IInv'
  <2> SUFFICES ASSUME IInv, [Next]_vars
               PROVE  IInv'
    OBVIOUS
  <2>1. CASE EndTime
    BY <2>1, EndTimeInv
  <2>2. ASSUME NEW gap \in Gap, NEW wait \in Wait, Generate(gap, wait)
        PROVE  IInv'
    BY <2>2, GenerateInv
  <2>3. ASSUME NEW f \in 1 .. flowsGenerated, NEW d \in Duration, StartFlow(f, d)
        PROVE  IInv'
    BY <2>3, StartFlowInv
  <2>4. ASSUME NEW f \in 1 .. flowsGenerated, NEW wait \in Wait, finishFlow(f, wait)
        PROVE  IInv'
    BY <2>4, finishFlowInv
  <2>5. CASE UNCHANGED vars
    <3>1. UNCHANGED <<pendingsources, now, useTrace, replaceFlow, flowTrace, flowsGenerated,
                      concurrentFlows, liveFlows, arrivals>>
      BY <2>5 DEF vars, genVars
    <3>2. TypeInv' /\ SlotsKept'
      BY <3>1 DEF IInv, TypeInv, SlotsKept
    <3>3. ListInv' /\ IsRest(arrivals, flowTrace)'
      BY <3>1 DEF IInv, ListInv, OfLive, ArrivalDue, NextIsPending, IsRest
    <3> QED
      BY <3>2, <3>3 DEF IInv
  <2> QED
    BY <2>1, <2>2, <2>3, <2>4, <2>5 DEF Next
<1> QED
  BY InitInv, <1>1, PTL DEF Spec

(* Arrivals that are still being made and finished flows that are          *)
(* replaced never lose a slot and never open more than _maxFlows: the      *)
(* generator has no arrival pending once the last slot is open.            *)
THEOREM SlotsAlwaysKept == Spec => []SlotsKept
BY InductiveInvariant, PTL DEF IInv

(* The flows of a trace are made in order, each at its own time, and none  *)
(* that is due is skipped: equality of the time with _endTime takes no     *)
(* arrival but the one at STOP.                                            *)
THEOREM TraceIsReplayed == Spec => []TraceReplayed
<1>1. IInv => TraceReplayed
  <2> SUFFICES ASSUME IInv, useTrace, ~ replaceFlow
               PROVE  /\ IsPrefix(arrivals, TRACE)
                      /\ \A i \in 1 .. Len(TRACE) :
                           TRACE[i] < now /\ TRACE[i] < STOP => i <= Len(arrivals)
    BY DEF TraceReplayed
  <2>1. /\ flowTrace \in Seq(Nat) /\ arrivals \in Seq(Nat) /\ Len(arrivals) + Len(flowTrace) = Len(TRACE)
        /\ \A i \in 1 .. Len(arrivals) : arrivals[i] = TRACE[i]
        /\ \A i \in 1 .. Len(flowTrace) : flowTrace[i] = TRACE[Len(arrivals) + i]
    BY DEF IInv, IsRest
  <2>2. /\ TRACE \in Seq(Nat) /\ STOP \in Nat
        /\ \A i \in 2 .. Len(TRACE) : TRACE[i - 1] <= TRACE[i]
    BY GeneratorAssumption
  <2>3. Len(arrivals) \in Nat /\ Len(flowTrace) \in Nat /\ Len(arrivals) <= Len(TRACE)
    BY <2>1
  <2>4. IsPrefix(arrivals, TRACE)
    <3>1. SubSeq(arrivals, 1, Len(arrivals)) = SubSeq(TRACE, 1, Len(arrivals))
      BY <2>1, <2>2, <2>3
    <3> QED
      BY <2>3, <3>1 DEF IsPrefix
  <2>5. ASSUME NEW i \in 1 .. Len(TRACE), TRACE[i] < now, TRACE[i] < STOP, ~ (i <= Len(arrivals))
        PROVE  FALSE
    <3> DEFINE n == Len(arrivals) + 1
    <3>1. n \in 1 .. Len(TRACE) /\ n <= i
      BY <2>3, <2>5
    <3>2. TRACE[n] <= TRACE[i]
      BY <2>2, <3>1, WeaklyOrdered
    <3>3. flowTrace # <<>> /\ Head(flowTrace) = TRACE[n]
      <4>1. Len(flowTrace) >= 1
        BY <2>1, <2>3, <3>1
      <4>2. flowTrace # <<>> /\ Head(flowTrace) = flowTrace[1] /\ 1 \in 1 .. Len(flowTrace)
        BY <2>1, <4>1
      <4> QED
        BY <2>1, <4>2
    <3>4. TRACE[n] \in Nat /\ TRACE[i] \in Nat /\ now \in Nat
      <4>1. \A k \in 1 .. Len(TRACE) : TRACE[k] \in Nat
        BY <2>2
      <4> QED
        BY <3>1, <4>1 DEF IInv, TypeInv
    <3> HIDE DEF n
    <3>5. Head(flowTrace) < STOP /\ Head(flowTrace) < now
      BY <2>2, <2>5, <3>2, <3>3, <3>4, SMTT(60)
    <3>6. PICK e \in ToSet(pendingsources) : e.when = Head(flowTrace)
      BY <3>3, <3>5 DEF IInv, ListInv, NextIsPending
    <3>7. now <= e.when
      BY DEF IInv, ListInv, NotBefore
    <3> QED
      BY <3>3, <3>4, <3>5, <3>6, <3>7
  <2> QED
    BY <2>4, <2>5
<1> QED
  BY InductiveInvariant, <1>1, PTL
=============================================================================
