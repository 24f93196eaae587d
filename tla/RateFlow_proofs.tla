--------------------------- MODULE RateFlow_proofs ---------------------------
(***************************************************************************)
(* One TIMELY or packet-pair flow of any size, with any delays, timeouts   *)
(* and queue, and any number of losses: its types, its chain of events,    *)
(* its timer, that it implements ReliableFlow, and what a pair measures.   *)
(***************************************************************************)
EXTENDS RateFlow, NatLemmas

Entry == [when : Nat, src : SOURCE .. QUEUE]
Seg == [seqno : Nat, ts : Nat, first : BOOLEAN]
PlainAck == [ackno : Nat, ts : Nat]
PairAck == [ackno : Nat, ts : Nat, diff : Nat]
Slot == [when : Nat, pkt : Seg \cup PlainAck \cup PairAck]
Flights == [Pipes -> Seq(Slot)]

-----------------------------------------------------------------------------
(* The parts of the invariant that are about the event list.               *)
NotBefore(events, t) == \A k \in 1 .. Len(events) : t <= events[k].when

ListOK(events, t) == events \in Seq(Entry) /\ InOrder(events) /\ NotBefore(events, t)

AtMostOne(events, src) == \E a : EntriesOf(events, src) \subseteq {a}

(* The list has the one event of pipe i, if the pipe holds line.           *)
OneEvent(events, i, line) ==
  IF line # <<>> /\ InTime(Head(line).when)
  THEN \E k \in 1 .. Len(events) : EntriesOf(events, i) = {k} /\ events[k].when = Head(line).when
  ELSE EntriesOf(events, i) = {}

(* The list has at most one event of the queue, and none if it is empty.   *)
QueueEvent(events, line) ==
  /\ AtMostOne(events, QUEUE)
  /\ line = <<>> => EntriesOf(events, QUEUE) = {}

PathEvents(events, flight, line) ==
  /\ \A i \in Pipes : OneEvent(events, i, flight[i])
  /\ QueueEvent(events, line)

(* A TIMELY source has one event, or none if it is past the end.           *)
TimelyChain(events, st) ==
  /\ AtMostOne(events, SOURCE)
  /\ st = "DELETED" => EntriesOf(events, SOURCE) = {}
  /\ END_TIME = 0 /\ st # "DELETED" => EntriesOf(events, SOURCE) # {}

(* Of two events of a packet-pair source one at least is at first.         *)
PairChain(events, first) ==
  \E a, b : \A k \in EntriesOf(events, SOURCE) :
    k \in {a, b} /\ (k # a => events[k].when = first)

StartChain(events, st, first) ==
  /\ AtMostOne(events, SOURCE)
  /\ END_TIME = 0 => EntriesOf(events, SOURCE) # {}
  /\ st = "STARTUP" => \A k \in EntriesOf(events, SOURCE) : events[k].when = first

SourceChain(events, st, first) ==
  IF endhost = "TIMELY" THEN TimelyChain(events, st)
  ELSE /\ PairChain(events, first)
       /\ st \in {"IDLE", "STARTUP"} => StartChain(events, st, first)
       /\ st = "DELETED" => EntriesOf(events, SOURCE) = {}

-----------------------------------------------------------------------------
(* The parts about the path.                                               *)

(* What a pipe holds leaves in its order, at latest at a time.             *)
LineOK(line, latest) ==
  \A j \in 1 .. Len(line) :
    /\ line[j].when <= latest
    /\ \A k \in 1 .. Len(line) : j < k => line[j].when <= line[k].when

SegOK(p, t) == p \in Seg /\ p.ts <= t /\ p.seqno <= FLOWSIZE

AckOK(p, t, c) ==
  /\ p \in IF endhost = "TIMELY" THEN PlainAck ELSE PairAck
  /\ p.ts <= t /\ p.ackno <= c

(* The segments in the queue are from the past and of the flow.            *)
QueueOK(line, t) ==
  /\ line \in Seq(Seg) /\ Len(line) <= QUEUE_SIZE
  /\ \A j \in 1 .. Len(line) : SegOK(line[j], t)

(* What the pipes hold as well, and no ack is for what the sink does not   *)
(* have.                                                                   *)
FlightOK(flight, t, c) ==
  /\ flight \in Flights
  /\ \A i \in Pipes : LineOK(flight[i], t + Delay[i])
  /\ \A j \in 1 .. Len(flight[FORWARD]) : SegOK(flight[FORWARD][j].pkt, t)
  /\ \A j \in 1 .. Len(flight[BACK]) : AckOK(flight[BACK][j].pkt, t, c)

PathEmpty == enqueued = <<>> /\ inflight[FORWARD] = <<>> /\ inflight[BACK] = <<>>

-----------------------------------------------------------------------------
SourceType ==
  /\ state \in {"IDLE", "STARTUP", "NORMAL", "RECOVERY", "FINISH", "DELETED"}
  /\ recover_seq \in Nat /\ dupacks \in Nat /\ dupacks <= 65535
  /\ highest_sent \in Nat /\ last_acked \in Nat
  /\ packets_sent \in Nat /\ bdp \in Nat /\ gap \in Nat
  /\ rtt \in Nat /\ mdev \in Nat /\ rto \in Nat \ {0} /\ min_rtt \in Nat
  /\ rto_timeout \in Nat

EndHostType ==
  /\ last_rtt_bytes \in Nat /\ first_rto \in Nat /\ pktpair_ewma \in Nat
  /\ pktpairdiff \in Nat /\ first_pair_ts \in Nat /\ first_pair_ts <= now
  /\ first_pair_seqno \in Nat

TypeInv ==
  /\ endhost \in {"TIMELY", "PKTPAIR"}
  /\ now \in Nat /\ disturbances \in 0 .. MAX_DISTURBANCES
  /\ cumulative_ack \in Nat /\ received \in Seq(Nat)
  /\ SourceType /\ EndHostType

(* Unless everything sent is acknowledged the timeout is set.              *)
TimerSet == Active /\ highest_sent # last_acked => rto_timeout # 0

FlowInv ==
  /\ last_acked < FLOWSIZE
  /\ state \in {"FINISH", "DELETED"} => cumulative_ack >= FLOWSIZE
  /\ state \in {"IDLE", "DELETED"} => PathEmpty
  /\ endhost = "TIMELY" => gap > 0
  /\ TimerSet

(* The inductive invariant.                                                *)
IInv ==
  /\ TypeInv /\ FlowInv
  /\ QueueOK(enqueued, now)
  /\ FlightOK(inflight, now, cumulative_ack)
  /\ ListOK(pendingsources, now)
  /\ PathEvents(pendingsources, inflight, enqueued)
  /\ SourceChain(pendingsources, state, first_rto)

-----------------------------------------------------------------------------
(* Entries of two lists that are the same.                                 *)

(* The entries of events at the places of from are those of out at to.     *)
Onto(events, from, out, to) ==
  \E m \in [from -> to] :
    /\ \A k \in from : out[m[k]] = events[k]
    /\ \A j \in to : \E k \in from : m[k] = j

SameEvents(events, out, src) == Onto(events, EntriesOf(events, src), out, EntriesOf(out, src))

(* The list out is events with an event of src at time when.               *)
Added(events, out, src, when) ==
  \E at \in EntriesOf(out, src) :
    /\ out[at].when = when
    /\ Onto(events, EntriesOf(events, src), out, EntriesOf(out, src) \ {at})

(* What such entries have in common.                                       *)
LEMMA OntoFacts ==
  ASSUME NEW events, NEW from, NEW out, NEW to, Onto(events, from, out, to)
  PROVE  /\ from = {} <=> to = {}
         /\ \A a : from \subseteq {a} => \E b \in to \cup {a} : to \subseteq {b}
         /\ \A t : (\A k \in from : events[k].when = t) => (\A j \in to : out[j].when = t)
<1>1. PICK m \in [from -> to] : /\ \A k \in from : out[m[k]] = events[k]
                               /\ \A j \in to : \E k \in from : m[k] = j
  BY DEF Onto
<1>2. from = {} <=> to = {}
  BY <1>1
<1>3. ASSUME NEW a, from \subseteq {a}
      PROVE  \E b \in to \cup {a} : to \subseteq {b}
  <2>1. CASE to = {}
    BY <2>1
  <2>2. CASE to # {}
    <3>1. PICK j \in to : TRUE
      BY <2>2
    <3>2. \A i \in to : i = j
      BY <1>1, <1>3, <3>1
    <3> QED
      BY <3>1, <3>2
  <2> QED
    BY <2>1, <2>2
<1>4. ASSUME NEW t, \A k \in from : events[k].when = t, NEW j \in to
      PROVE  out[j].when = t
  <2>1. PICK k \in from : m[k] = j
    BY <1>1
  <2> QED
    BY <1>1, <1>4, <2>1
<1> QED
  BY <1>2, <1>3, <1>4

LEMMA SameReflexive ==
  ASSUME NEW events, NEW src
  PROVE  SameEvents(events, events, src)
<1> DEFINE E == EntriesOf(events, src)
           m == [k \in E |-> k]
<1>1. m \in [E -> E] /\ (\A k \in E : events[m[k]] = events[k]) /\ \A j \in E : m[j] = j
  OBVIOUS
<1> HIDE DEF m, E
<1>2. Onto(events, E, events, E)
  BY <1>1 DEF Onto
<1> QED
  BY <1>2 DEF SameEvents, E

LEMMA OntoTransitive ==
  ASSUME NEW e1, NEW e2, NEW e3, NEW A, NEW B, NEW C, Onto(e1, A, e2, B), Onto(e2, B, e3, C)
  PROVE  Onto(e1, A, e3, C)
<1>1. PICK f \in [A -> B] : (\A k \in A : e2[f[k]] = e1[k]) /\ \A j \in B : \E k \in A : f[k] = j
  BY DEF Onto
<1>2. PICK g \in [B -> C] : (\A k \in B : e3[g[k]] = e2[k]) /\ \A j \in C : \E k \in B : g[k] = j
  BY DEF Onto
<1> DEFINE m == [k \in A |-> g[f[k]]]
<1>3. m \in [A -> C] /\ \A k \in A : m[k] = g[f[k]] /\ f[k] \in B
  BY <1>1, <1>2
<1> HIDE DEF m
<1>4. \A k \in A : e3[m[k]] = e1[k]
  BY <1>1, <1>2, <1>3
<1>5. \A j \in C : \E k \in A : m[k] = j
  BY <1>1, <1>2, <1>3
<1> QED
  BY <1>3, <1>4, <1>5 DEF Onto

LEMMA SameTransitive ==
  ASSUME NEW e1, NEW e2, NEW e3, NEW src, SameEvents(e1, e2, src), SameEvents(e2, e3, src)
  PROVE  SameEvents(e1, e3, src)
BY OntoTransitive DEF SameEvents

(* What is true of the events of a source stays true.                      *)
LEMMA SameKeeps ==
  ASSUME NEW events, NEW out, NEW src, SameEvents(events, out, src)
  PROVE  /\ EntriesOf(events, src) = {} <=> EntriesOf(out, src) = {}
         /\ AtMostOne(events, src) => AtMostOne(out, src)
         /\ \A line : OneEvent(events, src, line) => OneEvent(out, src, line)
         /\ \A t : (\A k \in EntriesOf(events, src) : events[k].when = t)
                     => (\A j \in EntriesOf(out, src) : out[j].when = t)
<1>1. /\ EntriesOf(events, src) = {} <=> EntriesOf(out, src) = {}
      /\ \A a : EntriesOf(events, src) \subseteq {a} =>
           \E b \in EntriesOf(out, src) \cup {a} : EntriesOf(out, src) \subseteq {b}
      /\ \A t : (\A k \in EntriesOf(events, src) : events[k].when = t)
                  => (\A j \in EntriesOf(out, src) : out[j].when = t)
  BY OntoFacts, ZenonT(60) DEF SameEvents
<1>2. AtMostOne(events, src) => AtMostOne(out, src)
  BY <1>1 DEF AtMostOne
<1>3. ASSUME NEW line, OneEvent(events, src, line)
      PROVE  OneEvent(out, src, line)
  <2>1. CASE ~ (line # <<>> /\ InTime(Head(line).when))
    BY <1>1, <1>3, <2>1 DEF OneEvent
  <2>2. CASE line # <<>> /\ InTime(Head(line).when)
    <3>1. PICK k \in 1 .. Len(events) : EntriesOf(events, src) = {k} /\ events[k].when = Head(line).when
      BY <1>3, <2>2 DEF OneEvent
    <3>2. PICK b : EntriesOf(out, src) \subseteq {b}
      BY <1>1, <3>1
    <3>3. EntriesOf(out, src) = {b} /\ b \in EntriesOf(out, src)
      BY <1>1, <3>1, <3>2
    <3>4. out[b].when = Head(line).when
      BY <1>1, <3>1, <3>3
    <3>5. b \in 1 .. Len(out)
      BY <3>3 DEF EntriesOf
    <3> QED
      BY <2>2, <3>3, <3>4, <3>5 DEF OneEvent
  <2> QED
    BY <2>1, <2>2
<1> QED
  BY <1>1, <1>2, <1>3

-----------------------------------------------------------------------------
(* What the operators of the event list do to it.                          *)

LEMMA EntriesTyped ==
  ASSUME NEW events \in Seq(Entry)
  PROVE  /\ Len(events) \in Nat
         /\ \A k \in 1 .. Len(events) :
              events[k] \in Entry /\ events[k].when \in Nat /\ events[k].src \in SOURCE .. QUEUE
<1>1. \A k \in 1 .. Len(events) : events[k] \in Entry
  BY ElementType, ZenonT(60)
<1> QED
  BY <1>1 DEF Entry

LEMMA TimesTyped == \A x \in Entry : x.when \in Nat
BY DEF Entry

(* An event is added.                                                      *)
LEMMA PendingFacts ==
  ASSUME NEW t \in Nat, NEW events, ListOK(events, t),
         NEW src \in SOURCE .. QUEUE, NEW when \in Nat, t <= when
  PROVE  LET out == sourceIsPending(events, src, when)
         IN  /\ ListOK(out, t)
             /\ \A s : s # src => SameEvents(events, out, s)
             /\ IF InTime(when) THEN Added(events, out, src, when) ELSE out = events
<1> DEFINE out == sourceIsPending(events, src, when)
           e == [when |-> when, src |-> src]
           at == PlaceFor(events, when)
<1>1. out = IF InTime(when) THEN InsertAt(events, at, e) ELSE events
  BY DEF sourceIsPending, InTime, PlaceFor
<1>2. CASE ~ InTime(when)
  BY <1>1, <1>2, SameReflexive, ZenonT(60)
<1>3. ASSUME InTime(when)
      PROVE  /\ ListOK(out, t)
             /\ \A s : s # src => SameEvents(events, out, s)
             /\ Added(events, out, src, when)
  <2>1. events \in Seq(Entry) /\ InOrder(events) /\ NotBefore(events, t)
    BY DEF ListOK
  <2>2. e \in Entry /\ e.src = src /\ e.when = when
    BY DEF Entry
  <2>3. at \in 1 .. (Len(events) + 1)
    BY <2>1, TimesTyped, CountBefore
  <2>4. out = InsertAt(events, at, e)
    BY <1>1, <1>3
  <2>5. InOrder(InsertAt(events, PlaceFor(events, e.when), e))
    BY ONLY <2>1, <2>2, TimesTyped, InsertInOrder
  <2>6. InOrder(out)
    BY <2>2, <2>4, <2>5
  <2> HIDE DEF out, at, e
  <2>7. /\ out \in Seq(Entry) /\ Len(out) = Len(events) + 1 /\ out[at] = e
        /\ \A k \in 1 .. Len(events) : Moved(at, k) \in 1 .. Len(out) /\ out[Moved(at, k)] = events[k]
        /\ \A s : EntriesOf(out, s) = {Moved(at, k) : k \in EntriesOf(events, s)}
                                   \cup (IF e.src = s THEN {at} ELSE {})
    <3> DEFINE u == InsertAt(events, at, e)
    <3>1. /\ u \in Seq(Entry) /\ Len(u) = Len(events) + 1 /\ u[at] = e
          /\ \A k \in 1 .. Len(events) : Moved(at, k) \in 1 .. Len(u) /\ u[Moved(at, k)] = events[k]
          /\ \A s : EntriesOf(u, s) = {Moved(at, k) : k \in EntriesOf(events, s)}
                                   \cup (IF e.src = s THEN {at} ELSE {})
      BY ONLY <2>1, <2>2, <2>3, InsertPlaces
    <3> HIDE DEF u
    <3> QED
      BY ONLY <2>4, <3>1 DEF u
  <2>8. \A s, k : k \in EntriesOf(events, s) =>
          k \in 1 .. Len(events) /\ k \in Nat /\ Moved(at, k) # at
    <3> SUFFICES ASSUME NEW s, NEW k \in EntriesOf(events, s)
                 PROVE  k \in 1 .. Len(events) /\ k \in Nat /\ Moved(at, k) # at
      OBVIOUS
    <3>1. k \in 1 .. Len(events) /\ k \in Nat
      BY DEF EntriesOf
    <3>2. at \in Nat
      BY <2>1, <2>3
    <3> QED
      BY <3>1, <3>2 DEF Moved
  <2>9. \A s : Onto(events, EntriesOf(events, s), out, EntriesOf(out, s) \ (IF s = src THEN {at} ELSE {}))
    <3> SUFFICES ASSUME NEW s
                 PROVE  Onto(events, EntriesOf(events, s), out,
                             EntriesOf(out, s) \ (IF s = src THEN {at} ELSE {}))
      OBVIOUS
    <3> DEFINE A == EntriesOf(events, s)
               B == EntriesOf(out, s) \ (IF s = src THEN {at} ELSE {})
               m == [k \in A |-> Moved(at, k)]
    <3>1. \A j : j \in B <=> \E k \in A : Moved(at, k) = j
      BY <2>2, <2>7, <2>8
    <3>2. \A k \in A : out[Moved(at, k)] = events[k]
      BY <2>7, <2>8
    <3> HIDE DEF A, B
    <3>3. m \in [A -> B] /\ (\A k \in A : out[m[k]] = events[k]) /\ \A j \in B : \E k \in A : m[k] = j
      BY ONLY <3>1, <3>2
    <3> HIDE DEF m
    <3>4. Onto(events, A, out, B)
      BY <3>3 DEF Onto
    <3> QED
      BY <3>4 DEF A, B
  <2>10. ASSUME NEW s, s # src
         PROVE  SameEvents(events, out, s)
    <3>1. EntriesOf(out, s) \ (IF s = src THEN {at} ELSE {}) = EntriesOf(out, s)
      BY <2>10
    <3>2. Onto(events, EntriesOf(events, s), out, EntriesOf(out, s) \ (IF s = src THEN {at} ELSE {}))
      BY <2>9
    <3> QED
      BY <3>1, <3>2 DEF SameEvents
  <2>11. Added(events, out, src, when)
    <3>1. at \in EntriesOf(out, src) /\ out[at].when = when
      BY <2>2, <2>7
    <3>2. Onto(events, EntriesOf(events, src), out, EntriesOf(out, src) \ {at})
      BY <2>9, ZenonT(60)
    <3> QED
      BY <3>1, <3>2 DEF Added
  <2>12. NotBefore(out, t)
    <3> SUFFICES ASSUME NEW j \in 1 .. Len(out)
                 PROVE  t <= out[j].when
      BY DEF NotBefore
    <3> DEFINE s == out[j].src
    <3>1. j \in EntriesOf(out, s)
      BY DEF EntriesOf
    <3> HIDE DEF s
    <3>2. CASE j = at
      BY <2>2, <2>7, <3>2
    <3>3. CASE j # at
      <4>1. EntriesOf(out, s) \subseteq {Moved(at, k) : k \in EntriesOf(events, s)} \cup {at}
        BY <2>7
      <4>2. PICK k \in EntriesOf(events, s) : j = Moved(at, k)
        BY ONLY <3>1, <3>3, <4>1
      <4>3. k \in 1 .. Len(events) /\ out[j] = events[k]
        BY <2>7, <2>8, <4>2
      <4> QED
        BY <2>1, <4>3 DEF NotBefore
    <3> QED
      BY <3>2, <3>3
  <2> QED
    BY <2>6, <2>7, <2>10, <2>11, <2>12 DEF ListOK
<1> QED
  BY <1>2, <1>3

(* The first event fires.                                                  *)
LEMMA FiredFacts ==
  ASSUME NEW t \in Nat, NEW events, ListOK(events, t), events # <<>>
  PROVE  LET src == Head(events).src
             t1 == Head(events).when
             out == Tail(events)
         IN  /\ t1 \in Nat /\ t <= t1 /\ src \in SOURCE .. QUEUE
             /\ ListOK(out, t1)
             /\ \A s : s # src => SameEvents(events, out, s)
             /\ 1 \in EntriesOf(events, src) /\ events[1].when = t1
             /\ Onto(events, EntriesOf(events, src) \ {1}, out, EntriesOf(out, src))
<1> DEFINE src == Head(events).src
           t1 == Head(events).when
           out == Tail(events)
<1>1. events \in Seq(Entry) /\ InOrder(events) /\ NotBefore(events, t)
  BY DEF ListOK
<1>2. /\ out \in Seq(Entry) /\ Len(out) = Len(events) - 1 /\ 1 \in 1 .. Len(events)
      /\ Head(events) = events[1]
      /\ \A k \in 1 .. Len(events) : k # 1 => k - 1 \in 1 .. Len(out) /\ out[k - 1] = events[k]
      /\ \A s : EntriesOf(out, s) = {k - 1 : k \in EntriesOf(events, s) \ {1}}
  BY <1>1, TailPlaces
<1>3. /\ t1 \in Nat /\ t <= t1 /\ src \in SOURCE .. QUEUE /\ events[1].when = t1
      /\ 1 \in EntriesOf(events, src)
      /\ \A s : s # src => 1 \notin EntriesOf(events, s)
  BY <1>1, <1>2, EntriesTyped DEF NotBefore, EntriesOf
<1> HIDE DEF out
<1>4. \A s : Onto(events, EntriesOf(events, s) \ {1}, out, EntriesOf(out, s))
  <2> SUFFICES ASSUME NEW s
               PROVE  Onto(events, EntriesOf(events, s) \ {1}, out, EntriesOf(out, s))
    OBVIOUS
  <2> DEFINE A == EntriesOf(events, s) \ {1}
             B == EntriesOf(out, s)
             m == [k \in A |-> k - 1]
  <2>1. \A j : j \in B <=> \E k \in A : k - 1 = j
    BY <1>2
  <2>2. \A k \in A : out[k - 1] = events[k]
    BY <1>2 DEF EntriesOf
  <2> HIDE DEF A, B
  <2>3. m \in [A -> B] /\ (\A k \in A : out[m[k]] = events[k]) /\ \A j \in B : \E k \in A : m[k] = j
    BY ONLY <2>1, <2>2
  <2> HIDE DEF m
  <2>4. Onto(events, A, out, B)
    BY <2>3 DEF Onto
  <2> QED
    BY <2>4 DEF A, B
<1>5. ASSUME NEW s, s # src
      PROVE  SameEvents(events, out, s)
  <2>1. EntriesOf(events, s) \ {1} = EntriesOf(events, s)
    BY <1>3, <1>5
  <2>2. Onto(events, EntriesOf(events, s) \ {1}, out, EntriesOf(out, s))
    BY <1>4
  <2> QED
    BY <2>1, <2>2 DEF SameEvents
<1>6. InOrder(out) /\ NotBefore(out, t1)
  <2>1. Len(events) \in Nat /\ Len(events) >= 1
    BY <1>1, <1>2
  <2>2. \A j \in 1 .. Len(out) : j + 1 \in 1 .. Len(events) /\ out[j] = events[j + 1] /\ 1 < j + 1
    <3> SUFFICES ASSUME NEW j \in 1 .. Len(out)
                 PROVE  j + 1 \in 1 .. Len(events) /\ out[j] = events[j + 1] /\ 1 < j + 1
      OBVIOUS
    <3>1. j \in Nat /\ j + 1 \in 1 .. Len(events) /\ j + 1 # 1 /\ (j + 1) - 1 = j
      BY <1>2, <2>1
    <3> QED
      BY <1>2, <3>1
  <2>3. InOrder(out)
    <3> SUFFICES ASSUME NEW j \in 1 .. Len(out), NEW l \in 1 .. Len(out), j < l
                 PROVE  out[j].when <= out[l].when
      BY DEF InOrder
    <3>1. j + 1 < l + 1
      BY <1>2, <2>1
    <3> QED
      BY <1>1, <2>2, <3>1 DEF InOrder
  <2>4. NotBefore(out, t1)
    BY <1>1, <1>2, <1>3, <2>2 DEF InOrder, NotBefore
  <2> QED
    BY <2>3, <2>4
<1> QED
  BY <1>2, <1>3, <1>4, <1>5, <1>6 DEF ListOK, out

LEMMA FirstEvent ==
  ASSUME NEW events, NEW out, NEW src, NEW when,
         Added(events, out, src, when), EntriesOf(events, src) = {}
  PROVE  \E k \in 1 .. Len(out) : EntriesOf(out, src) = {k} /\ out[k].when = when
<1>1. PICK at \in EntriesOf(out, src) :
        /\ out[at].when = when
        /\ Onto(events, EntriesOf(events, src), out, EntriesOf(out, src) \ {at})
  BY DEF Added
<1>2. EntriesOf(out, src) \ {at} = {}
  BY <1>1, OntoFacts
<1>3. at \in 1 .. Len(out)
  BY DEF EntriesOf
<1> QED
  BY <1>1, <1>2, <1>3

-----------------------------------------------------------------------------
(* Pipes.                                                                  *)

LEMMA DelayType == \A i \in Pipes : Delay[i] \in Nat /\ i \in SOURCE .. QUEUE
BY PipeAssumption, TimedPathAssumption DEF Pipes, SOURCE, QUEUE

(* What a pipe holds may leave later than it has to.                       *)
LEMMA LineLater ==
  ASSUME NEW line \in Seq(Slot), NEW u \in Nat, NEW v \in Nat, LineOK(line, u), u <= v
  PROVE  LineOK(line, v)
<1>1. \A j \in 1 .. Len(line) : line[j].when \in Nat
  <2>1. \A j \in 1 .. Len(line) : line[j] \in Slot
    BY ElementType, ZenonT(60)
  <2> QED
    BY <2>1 DEF Slot
<1> QED
  BY <1>1 DEF LineOK

(* The first packet leaves.                                                *)
LEMMA LineTail ==
  ASSUME NEW line \in Seq(Slot), NEW u, LineOK(line, u), line # <<>>
  PROVE  /\ Tail(line) \in Seq(Slot) /\ Len(Tail(line)) = Len(line) - 1
         /\ Head(line) = line[1] /\ 1 \in 1 .. Len(line) /\ Head(line) \in Slot
         /\ \A j \in 1 .. Len(Tail(line)) : j + 1 \in 1 .. Len(line) /\ Tail(line)[j] = line[j + 1]
         /\ LineOK(Tail(line), u)
         /\ Tail(line) # <<>> => Head(line).when <= Head(Tail(line)).when
<1> DEFINE rest == Tail(line)
<1>1. /\ rest \in Seq(Slot) /\ Len(rest) = Len(line) - 1 /\ 1 \in 1 .. Len(line)
      /\ Head(line) = line[1] /\ Head(line) \in Slot /\ Len(line) \in Nat
  OBVIOUS
<1>2. \A j \in 1 .. Len(rest) : j + 1 \in 1 .. Len(line) /\ rest[j] = line[j + 1]
  BY <1>1
<1>3. rest # <<>> => Head(rest) = rest[1] /\ 1 \in 1 .. Len(rest)
  BY <1>1
<1> HIDE DEF rest
<1>4. LineOK(rest, u)
  <2> SUFFICES ASSUME NEW j \in 1 .. Len(rest)
               PROVE  /\ rest[j].when <= u
                      /\ \A k \in 1 .. Len(rest) : j < k => rest[j].when <= rest[k].when
    BY DEF LineOK
  <2>1. rest[j].when <= u
    BY <1>2 DEF LineOK
  <2>2. ASSUME NEW k \in 1 .. Len(rest), j < k
        PROVE  rest[j].when <= rest[k].when
    <3>1. j + 1 < k + 1
      BY <1>1, <2>2
    <3> QED
      BY <1>2, <3>1 DEF LineOK
  <2> QED
    BY <2>1, <2>2
<1>5. rest # <<>> => Head(line).when <= Head(rest).when
  <2> SUFFICES ASSUME rest # <<>>
               PROVE  line[1].when <= rest[1].when
    BY <1>1, <1>3
  <2>1. 2 \in 1 .. Len(line) /\ rest[1] = line[2] /\ 1 < 2
    BY <1>2, <1>3
  <2> QED
    BY <1>1, <2>1 DEF LineOK
<1> QED
  BY <1>1, <1>2, <1>4, <1>5 DEF rest

(* A packet enters behind the others.                                      *)
LEMMA LineAppend ==
  ASSUME NEW line \in Seq(Slot), NEW u \in Nat, LineOK(line, u), NEW e \in Slot, e.when = u
  PROVE  /\ Append(line, e) \in Seq(Slot) /\ Len(Append(line, e)) = Len(line) + 1
         /\ \A j \in 1 .. Len(line) : Append(line, e)[j] = line[j]
         /\ Append(line, e)[Len(line) + 1] = e
         /\ Append(line, e) # <<>>
         /\ Head(Append(line, e)) = IF line = <<>> THEN e ELSE Head(line)
         /\ LineOK(Append(line, e), u)
<1> DEFINE out == Append(line, e)
<1>1. /\ out \in Seq(Slot) /\ Len(out) = Len(line) + 1 /\ Len(line) \in Nat
      /\ \A j \in 1 .. Len(line) : out[j] = line[j]
      /\ out[Len(line) + 1] = e
  OBVIOUS
<1> HIDE DEF out
<1>2. out # <<>> /\ Head(out) = out[1] /\ (line # <<>> => Head(line) = line[1] /\ 1 \in 1 .. Len(line))
      /\ (line = <<>> => Len(line) = 0)
  <2>1. out # <<>>
    BY <1>1
  <2>2. Head(out) = out[1]
    BY ONLY <1>1, <2>1
  <2>3. (line # <<>> => Head(line) = line[1] /\ 1 \in 1 .. Len(line)) /\ (line = <<>> => Len(line) = 0)
    BY ONLY line \in Seq(Slot)
  <2> QED
    BY <2>1, <2>2, <2>3
<1>3. Head(out) = IF line = <<>> THEN e ELSE Head(line)
  BY <1>1, <1>2
<1>4. LineOK(out, u)
  <2> SUFFICES ASSUME NEW j \in 1 .. Len(out)
               PROVE  /\ out[j].when <= u
                      /\ \A k \in 1 .. Len(out) : j < k => out[j].when <= out[k].when
    BY DEF LineOK
  <2>1. j \in 1 .. Len(line) \/ j = Len(line) + 1
    BY <1>1
  <2>2. \A k \in 1 .. Len(out) : k \in 1 .. Len(line) \/ k = Len(line) + 1
    BY <1>1
  <2>3. CASE j = Len(line) + 1
    <3>1. out[j] = e /\ \A k \in 1 .. Len(out) : ~ (j < k)
      BY <1>1, <2>3
    <3> QED
      BY <3>1
  <2>4. CASE j \in 1 .. Len(line)
    <3>1. out[j] = line[j] /\ line[j].when <= u
      BY <1>1, <2>4 DEF LineOK
    <3>2. ASSUME NEW k \in 1 .. Len(out), j < k
          PROVE  out[j].when <= out[k].when
      <4>1. CASE k \in 1 .. Len(line)
        BY <1>1, <2>4, <3>2, <4>1 DEF LineOK
      <4>2. CASE k = Len(line) + 1
        BY <1>1, <3>1, <4>2
      <4> QED
        BY <2>2, <4>1, <4>2
    <3> QED
      BY <3>1, <3>2
  <2> QED
    BY <2>1, <2>3, <2>4
<1> QED
  BY <1>1, <1>2, <1>3, <1>4 DEF out

(* A packet enters a pipe, which has its event.                            *)
LEMMA ReceivedFacts ==
  ASSUME NEW t \in Nat, NEW events, ListOK(events, t), NEW flight \in Flights,
         NEW i \in Pipes, NEW pkt \in Seg \cup PlainAck \cup PairAck,
         LineOK(flight[i], t + Delay[i])
  PROVE  LET f == Received(i, pkt, flight, t)
             out == Notified(i, flight, events, t)
         IN  /\ f \in Flights /\ \A j \in Pipes : j # i => f[j] = flight[j]
             /\ Len(f[i]) = Len(flight[i]) + 1 /\ f[i][Len(flight[i]) + 1].pkt = pkt
             /\ \A j \in 1 .. Len(flight[i]) : f[i][j] = flight[i][j]
             /\ LineOK(f[i], t + Delay[i])
             /\ ListOK(out, t) /\ \A s : s # i => SameEvents(events, out, s)
             /\ OneEvent(events, i, flight[i]) => OneEvent(out, i, f[i])
<1> DEFINE e == [when |-> t + Delay[i], pkt |-> pkt]
           f == Received(i, pkt, flight, t)
           out == Notified(i, flight, events, t)
<1>1. PICK u \in Nat : u = t + Delay[i] /\ t <= u
  BY DelayType
<1>2. e \in Slot /\ e.when = u /\ e.pkt = pkt
  BY <1>1 DEF Slot
<1>3. flight[i] \in Seq(Slot)
  BY DEF Flights
<1>4. f = [flight EXCEPT ![i] = Append(@, e)]
  BY DEF Received
<1> HIDE DEF e
<1>5. /\ Append(flight[i], e) \in Seq(Slot) /\ Len(Append(flight[i], e)) = Len(flight[i]) + 1
      /\ \A j \in 1 .. Len(flight[i]) : Append(flight[i], e)[j] = flight[i][j]
      /\ Append(flight[i], e)[Len(flight[i]) + 1] = e
      /\ Append(flight[i], e) # <<>>
      /\ Head(Append(flight[i], e)) = IF flight[i] = <<>> THEN e ELSE Head(flight[i])
      /\ LineOK(Append(flight[i], e), u)
  BY ONLY <1>1, <1>2, <1>3, LineOK(flight[i], t + Delay[i]), LineAppend
<1>6. f \in Flights /\ f[i] = Append(flight[i], e) /\ \A j \in Pipes : j # i => f[j] = flight[j]
  BY <1>4, <1>5 DEF Flights
<1>7. i \in SOURCE .. QUEUE
  BY DelayType
<1>8. out = IF flight[i] = <<>> THEN sourceIsPending(events, i, u) ELSE events
  BY <1>1 DEF Notified
<1> HIDE DEF f, out
<1>9. /\ ListOK(out, t) /\ \A s : s # i => SameEvents(events, out, s)
      /\ flight[i] = <<>> => IF InTime(u) THEN Added(events, out, i, u) ELSE out = events
  <2>1. CASE flight[i] # <<>>
    BY <1>8, <2>1, SameReflexive, ZenonT(60)
  <2>2. CASE flight[i] = <<>>
    <3>1. out = sourceIsPending(events, i, u)
      BY <1>8, <2>2
    <3> QED
      BY ONLY <1>1, <1>7, <3>1, ListOK(events, t), t \in Nat, PendingFacts
  <2> QED
    BY <2>1, <2>2
<1>10. ASSUME OneEvent(events, i, flight[i])
       PROVE  OneEvent(out, i, f[i])
  <2>1. CASE flight[i] # <<>>
    <3>1. out = events /\ f[i] # <<>> /\ Head(f[i]) = Head(flight[i])
      BY <1>5, <1>6, <1>8, <2>1
    <3> QED
      BY <1>10, <2>1, <3>1 DEF OneEvent
  <2>2. CASE flight[i] = <<>>
    <3>1. f[i] # <<>> /\ Head(f[i]).when = u
      BY <1>2, <1>5, <1>6, <2>2
    <3>2. EntriesOf(events, i) = {}
      BY <1>10, <2>2 DEF OneEvent
    <3>3. CASE InTime(u)
      <4>1. \E k \in 1 .. Len(out) : EntriesOf(out, i) = {k} /\ out[k].when = u
        BY <1>9, <2>2, <3>2, <3>3, FirstEvent
      <4> QED
        BY <3>1, <3>3, <4>1 DEF OneEvent
    <3>4. CASE ~ InTime(u)
      BY <1>9, <2>2, <3>1, <3>2, <3>4 DEF OneEvent
    <3> QED
      BY <3>3, <3>4
  <2> QED
    BY <2>1, <2>2
<1>11. Len(f[i]) = Len(flight[i]) + 1 /\ f[i][Len(flight[i]) + 1].pkt = pkt
       /\ \A j \in 1 .. Len(flight[i]) : f[i][j] = flight[i][j]
  BY <1>2, <1>5, <1>6
<1>12. LineOK(f[i], t + Delay[i])
  BY <1>1, <1>5, <1>6
<1> QED
  BY <1>6, <1>9, <1>10, <1>11, <1>12 DEF f, out

(* A pipe whose event has fired has that of what it still holds.           *)
LEMMA RescheduledFacts ==
  ASSUME NEW t \in Nat, NEW events, ListOK(events, t), NEW flight \in Flights, NEW i \in Pipes,
         flight[i] # <<>> => t <= Head(flight[i]).when
  PROVE  LET out == Rescheduled(i, flight, events)
         IN  /\ ListOK(out, t) /\ \A s : s # i => SameEvents(events, out, s)
             /\ EntriesOf(events, i) = {} => OneEvent(out, i, flight[i])
<1> DEFINE out == Rescheduled(i, flight, events)
           u == Head(flight[i]).when
<1>1. flight[i] \in Seq(Slot) /\ i \in SOURCE .. QUEUE
  BY DelayType DEF Flights
<1>2. CASE flight[i] = <<>>
  <2>1. out = events
    BY <1>2 DEF Rescheduled
  <2>2. EntriesOf(events, i) = {} => OneEvent(events, i, flight[i])
    BY <1>2 DEF OneEvent
  <2> HIDE DEF out
  <2>3. \A s : SameEvents(events, events, s)
    BY SameReflexive
  <2>4. ListOK(out, t) /\ (\A s : s # i => SameEvents(events, out, s))
        /\ (EntriesOf(events, i) = {} => OneEvent(out, i, flight[i]))
    BY <2>1, <2>2, <2>3
  <2> QED
    BY <2>4 DEF out
<1>3. CASE flight[i] # <<>>
  <2>1. out = sourceIsPending(events, i, u)
    BY <1>3 DEF Rescheduled
  <2>2. u \in Nat /\ t <= u
    <3>1. Head(flight[i]) \in Slot
      BY <1>1, <1>3
    <3> QED
      BY <1>3, <3>1 DEF Slot
  <2> HIDE DEF out, u
  <2>3. /\ ListOK(out, t) /\ \A s : s # i => SameEvents(events, out, s)
        /\ IF InTime(u) THEN Added(events, out, i, u) ELSE out = events
    BY ONLY <1>1, <2>1, <2>2, ListOK(events, t), t \in Nat, PendingFacts
  <2>4. ASSUME EntriesOf(events, i) = {}
        PROVE  OneEvent(out, i, flight[i])
    <3>1. CASE InTime(u)
      <4>1. \E k \in 1 .. Len(out) : EntriesOf(out, i) = {k} /\ out[k].when = u
        BY <2>3, <2>4, <3>1, FirstEvent
      <4> QED
        BY <1>3, <3>1, <4>1 DEF OneEvent, u
    <3>2. CASE ~ InTime(u)
      BY <2>3, <2>4, <3>2 DEF OneEvent, u
    <3> QED
      BY <3>1, <3>2
  <2>5. ListOK(out, t) /\ (\A s : s # i => SameEvents(events, out, s))
        /\ (EntriesOf(events, i) = {} => OneEvent(out, i, flight[i]))
    BY <2>3, <2>4
  <2> QED
    BY <2>5 DEF out
<1> QED
  BY <1>2, <1>3

-----------------------------------------------------------------------------
(* The queue.                                                              *)

Elements(s) == {s[k] : k \in 1 .. Len(s)}

(* What is left of the packets a handler sends are some of them.           *)
LEMMA EnteringFacts ==
  ASSUME NEW S, NEW out \in Seq(S), NEW lost,
         enqueued \in Seq(Seg), Len(enqueued) <= QUEUE_SIZE
  PROVE  /\ Entering(out, lost) \in Seq(Elements(out))
         /\ Len(enqueued) + Len(Entering(out, lost)) <= QUEUE_SIZE
         /\ out = <<>> => Entering(out, lost) = <<>>
<1> DEFINE R == Elements(out)
           kept(i) == IF i \in (1 .. Len(out)) \ lost THEN <<out[i]>> ELSE <<>>
           all == Kept(out, lost)
<1>1. ASSUME NEW i
      PROVE  kept(i) \in Seq(R) /\ (out = <<>> => kept(i) = <<>>)
  <2>1. CASE i \in (1 .. Len(out)) \ lost
    <3>1. out[i] \in R /\ out # <<>>
      BY <2>1 DEF Elements
    <3>2. <<out[i]>> \in Seq(R)
      BY ONLY <3>1
    <3> QED
      BY <2>1, <3>1, <3>2
  <2>2. CASE i \notin (1 .. Len(out)) \ lost
    BY <2>2
  <2> QED
    BY <2>1, <2>2
<1>2. all = kept(1) \o kept(2) \o kept(3)
  BY DEF Kept
<1> HIDE DEF R, kept
<1>3. all \in Seq(R)
  <2>1. kept(1) \in Seq(R) /\ kept(2) \in Seq(R) /\ kept(3) \in Seq(R)
    BY <1>1
  <2> HIDE DEF all
  <2> QED
    BY ONLY <1>2, <2>1
<1>4. out = <<>> => all = <<>>
  <2> SUFFICES ASSUME out = <<>>
               PROVE  all = <<>>
    OBVIOUS
  <2>1. kept(1) = <<>> /\ kept(2) = <<>> /\ kept(3) = <<>>
    BY <1>1
  <2> HIDE DEF all
  <2> QED
    BY ONLY <1>2, <2>1
<1>5. PICK n \in Nat : n = Len(enqueued)
  OBVIOUS
<1>6. PICK q \in Nat : q = QUEUE_SIZE
  BY TimedPathAssumption
<1>7. n <= q
  BY <1>5, <1>6
<1>8. PICK l \in Nat : l = Len(all)
  <2> HIDE DEF all
  <2> QED
    BY <1>3
<1> DEFINE k == IF l < q - n THEN l ELSE q - n
<1>9. Entering(out, lost) = SubSeq(all, 1, k)
  BY <1>5, <1>6, <1>8 DEF Entering
<1>10. k \in 0 .. l /\ n + k <= q
  BY ONLY <1>5, <1>6, <1>7, <1>8
<1> HIDE DEF all, k
<1>11. SubSeq(all, 1, k) \in Seq(R) /\ Len(SubSeq(all, 1, k)) = k
  BY ONLY <1>3, <1>8, <1>10
<1>12. all = <<>> => SubSeq(all, 1, k) = <<>>
  <2> SUFFICES ASSUME all = <<>>
               PROVE  SubSeq(all, 1, k) = <<>>
    OBVIOUS
  <2>1. k = 0
    BY ONLY <1>8, <1>10, all = <<>>
  <2> QED
    BY ONLY <1>11, <2>1
<1> QED
  BY <1>4, <1>5, <1>6, <1>9, <1>10, <1>11, <1>12 DEF R

LEMMA DisturbanceType ==
  ASSUME NEW d \in Disturbance
  PROVE  /\ d.lost \subseteq 1 .. 3 /\ d.extra \in Nat
         /\ IsFiniteSet(d.lost) /\ Cardinality(d.lost) \in Nat
<1>1. d.lost \in SUBSET (1 .. 3) /\ d.extra \in {0} \cup Extra
  BY DEF Disturbance
<1>2. d.extra \in Nat
  BY <1>1, TimedPathAssumption
<1>3. IsFiniteSet(1 .. 3)
  <2>1. 1 \in Int /\ 3 \in Int
    OBVIOUS
  <2> QED
    BY ONLY <2>1, FS_Interval, ZenonT(60)
<1>4. IsFiniteSet(d.lost) /\ Cardinality(d.lost) \in Nat
  BY <1>1, <1>3, FS_Subset, FS_CardinalityType
<1> QED
  BY <1>1, <1>2, <1>4

LEMMA DisturbFacts ==
  ASSUME NEW d \in Disturbance, Disturb(d), disturbances \in 0 .. MAX_DISTURBANCES
  PROVE  disturbances' \in 0 .. MAX_DISTURBANCES
<1>1. PICK c \in Nat : c = Cardinality(d.lost)
  BY DisturbanceType
<1>2. MAX_DISTURBANCES \in Nat
  BY TimedPathAssumption
<1>3. /\ disturbances' = disturbances + c + (IF d.extra = 0 THEN 0 ELSE 1)
      /\ disturbances' <= MAX_DISTURBANCES
  BY <1>1 DEF Disturb
<1> QED
  BY <1>2, <1>3

(* Segments enter the queue, and it has its event.                         *)
LEMMA TransmitFacts ==
  ASSUME NEW t \in Nat, now' = t, now \in Nat, now <= t,
         QueueOK(enqueued, now), disturbances \in 0 .. MAX_DISTURBANCES,
         NEW out \in Seq(Seg), \A k \in 1 .. Len(out) : SegOK(out[k], t),
         NEW d \in Disturbance, Transmit(out, d),
         NEW events, ListOK(events, t), QueueEvent(events, enqueued)
  PROVE  /\ QueueOK(enqueued', t)
         /\ disturbances' \in 0 .. MAX_DISTURBANCES
         /\ Len(enqueued) <= Len(enqueued') /\ (out = <<>> => enqueued' = enqueued)
         /\ ListOK(Served(out, d, events), t)
         /\ \A s : s # QUEUE => SameEvents(events, Served(out, d, events), s)
         /\ QueueEvent(Served(out, d, events), enqueued')
<1> DEFINE in == Entering(out, d.lost)
           served == Served(out, d, events)
           u == t + SERVICE + d.extra
<1>0. /\ enqueued \in Seq(Seg) /\ Len(enqueued) <= QUEUE_SIZE
      /\ \A j \in 1 .. Len(enqueued) : SegOK(enqueued[j], now)
  BY DEF QueueOK
<1>1. /\ in \in Seq(Elements(out)) /\ Len(enqueued) + Len(in) <= QUEUE_SIZE
      /\ out = <<>> => in = <<>>
  BY <1>0, EnteringFacts
<1>2. \A e \in Elements(out) : e \in Seg /\ SegOK(e, t)
  BY DEF Elements, SegOK
<1>3. enqueued' = enqueued \o in /\ Disturb(d)
  BY DEF Transmit
<1>4. u \in Nat /\ t <= u /\ QUEUE \in SOURCE .. QUEUE
  <2>1. SERVICE \in Nat /\ d.extra \in Nat
    BY TimedPathAssumption, DisturbanceType
  <2> QED
    BY <2>1 DEF QUEUE, SOURCE
<1>5. served = IF enqueued = <<>> /\ in # <<>> THEN sourceIsPending(events, QUEUE, u) ELSE events
  BY DEF Served
<1> HIDE DEF in, served, u
<1>6. in \in Seq(Seg) /\ \A j \in 1 .. Len(in) : SegOK(in[j], t)
  <2>1. \A j \in 1 .. Len(in) : in[j] \in Elements(out)
    BY <1>1, ElementType, ZenonT(60)
  <2>2. in \in Seq(Seg)
    BY ONLY <1>1, <1>2
  <2> QED
    BY <1>2, <2>1, <2>2
<1>7. Len(enqueued) \in Nat /\ Len(in) \in Nat
  BY <1>0, <1>6
<1>8. /\ enqueued' \in Seq(Seg) /\ Len(enqueued') = Len(enqueued) + Len(in)
      /\ \A j \in 1 .. Len(enqueued') :
           enqueued'[j] = IF j <= Len(enqueued) THEN enqueued[j] ELSE in[j - Len(enqueued)]
  <2>1. /\ enqueued \o in \in Seq(Seg) /\ Len(enqueued \o in) = Len(enqueued) + Len(in)
        /\ \A j \in 1 .. (Len(enqueued) + Len(in)) :
             (enqueued \o in)[j] = IF j <= Len(enqueued) THEN enqueued[j] ELSE in[j - Len(enqueued)]
    BY ONLY <1>0, <1>6, ConcatProperties, ZenonT(60)
  <2> QED
    BY ONLY <1>3, <2>1, ZenonT(60)
<1>9. ASSUME NEW j \in 1 .. Len(enqueued')
      PROVE  SegOK(enqueued'[j], t)
  <2>1. CASE j <= Len(enqueued)
    <3>1. j \in 1 .. Len(enqueued) /\ enqueued'[j] = enqueued[j]
      BY <1>7, <1>8, <2>1
    <3>2. SegOK(enqueued[j], now)
      BY <1>0, <3>1
    <3>3. enqueued[j].ts \in Nat
      BY <3>2 DEF SegOK, Seg
    <3>4. SegOK(enqueued[j], t)
      BY <3>2, <3>3 DEF SegOK
    <3> QED
      BY <3>1, <3>4
  <2>2. CASE ~ (j <= Len(enqueued))
    <3>1. j - Len(enqueued) \in 1 .. Len(in) /\ enqueued'[j] = in[j - Len(enqueued)]
      BY <1>7, <1>8, <2>2
    <3> QED
      BY <1>6, <3>1
  <2> QED
    BY <2>1, <2>2
<1>10. enqueued' = <<>> => enqueued = <<>> /\ in = <<>>
  <2> SUFFICES ASSUME enqueued' = <<>>
               PROVE  enqueued = <<>> /\ in = <<>>
    OBVIOUS
  <2>1. Len(enqueued') = 0
    BY <1>8
  <2>2. Len(enqueued) = 0 /\ Len(in) = 0
    BY <1>7, <1>8, <2>1
  <2> QED
    BY <1>0, <1>6, <2>2
<1>11. out = <<>> => enqueued' = enqueued
  BY <1>0, <1>1, <1>3
<1>12. /\ ListOK(served, t) /\ \A s : s # QUEUE => SameEvents(events, served, s)
       /\ QueueEvent(served, enqueued')
  <2>1. CASE enqueued = <<>> /\ in # <<>>
    <3>1. served = sourceIsPending(events, QUEUE, u)
      BY <1>5, <2>1
    <3>2. /\ ListOK(served, t) /\ \A s : s # QUEUE => SameEvents(events, served, s)
          /\ IF InTime(u) THEN Added(events, served, QUEUE, u) ELSE served = events
      BY ONLY <1>4, <3>1, t \in Nat, ListOK(events, t), PendingFacts
    <3>3. EntriesOf(events, QUEUE) = {} /\ enqueued' # <<>>
      BY <1>10, <2>1 DEF QueueEvent
    <3>4. AtMostOne(served, QUEUE)
      <4>1. CASE InTime(u)
        <5>1. \E k \in 1 .. Len(served) : EntriesOf(served, QUEUE) = {k} /\ served[k].when = u
          BY <3>2, <3>3, <4>1, FirstEvent
        <5> QED
          BY <5>1 DEF AtMostOne
      <4>2. CASE ~ InTime(u)
        BY <3>2, <3>3, <4>2 DEF AtMostOne
      <4> QED
        BY <4>1, <4>2
    <3> QED
      BY <3>2, <3>3, <3>4 DEF QueueEvent
  <2>2. CASE ~ (enqueued = <<>> /\ in # <<>>)
    <3>1. served = events
      BY <1>5, <2>2
    <3>2. \A s : SameEvents(events, events, s)
      BY SameReflexive
    <3>3. QueueEvent(events, enqueued')
      BY <1>10 DEF QueueEvent
    <3> QED
      BY <3>1, <3>2, <3>3
  <2> QED
    BY <2>1, <2>2
<1>13. disturbances' \in 0 .. MAX_DISTURBANCES
  BY <1>3, DisturbFacts
<1>14. Len(enqueued') <= QUEUE_SIZE /\ Len(enqueued) <= Len(enqueued')
  BY <1>1, <1>7, <1>8
<1> QED
  BY <1>8, <1>9, <1>11, <1>12, <1>13, <1>14 DEF served, QueueOK

-----------------------------------------------------------------------------
(* The sink.                                                               *)

LEMMA InSequenceFacts ==
  ASSUME received \in Seq(Nat), NEW c
  PROVE  /\ InSequence(c) \in 0 .. Len(received)
         /\ \A i \in 1 .. InSequence(c) : received[i] = c + (i - 1) * MSS_BYTES + 1
<1> DEFINE P(n) == /\ \A i \in 1 .. n : received[i] = c + (i - 1) * MSS_BYTES + 1
                   /\ n < Len(received) => received[n + 1] # c + n * MSS_BYTES + 1
           T == {i \in 1 .. Len(received) : received[i] = c + (i - 1) * MSS_BYTES + 1}
<1>1. PICK l \in Nat : l = Len(received)
  OBVIOUS
<1>2. PICK n \in 0 .. l : (\A i \in 1 .. n : i \in T) /\ (n < l => n + 1 \notin T)
  <2> HIDE DEF T
  <2> QED
    BY LongestPrefix
<1>3. (n < l => n + 1 \in 1 .. l) /\ (n + 1) - 1 = n
  BY <1>1
<1>4. P(n)
  BY <1>1, <1>2, <1>3
<1> HIDE DEF P
<1>5. InSequence(c) = CHOOSE m \in 0 .. Len(received) : P(m)
  BY DEF InSequence, P
<1>6. InSequence(c) \in 0 .. Len(received) /\ P(InSequence(c))
  BY <1>1, <1>4, <1>5
<1> QED
  BY <1>6 DEF P

LEMMA BeforeRange ==
  ASSUME received \in Seq(Nat), NEW s \in Nat
  PROVE  Before(s) \in 0 .. Len(received)
<1> DEFINE P(n) == /\ \A i \in 1 .. n : received[i] < s
                   /\ n < Len(received) => received[n + 1] >= s
           T == {i \in 1 .. Len(received) : received[i] < s}
<1>1. PICK l \in Nat : l = Len(received)
  OBVIOUS
<1>2. PICK n \in 0 .. l : (\A i \in 1 .. n : i \in T) /\ (n < l => n + 1 \notin T)
  <2> HIDE DEF T
  <2> QED
    BY LongestPrefix
<1>3. n < l => n + 1 \in 1 .. l
  BY <1>1
<1>4. \A i \in 1 .. l : received[i] \in Nat
  BY <1>1, ElementType, ZenonT(60)
<1>5. P(n)
  <2>1. n < l => received[n + 1] >= s
    <3> SUFFICES ASSUME n < l
                 PROVE  received[n + 1] >= s
      OBVIOUS
    <3>1. received[n + 1] \in Nat /\ ~ (received[n + 1] < s)
      BY <1>1, <1>2, <1>3, <1>4
    <3> QED
      BY <3>1
  <2> QED
    BY <1>1, <1>2, <2>1
<1> HIDE DEF P
<1>6. Before(s) = CHOOSE m \in 0 .. Len(received) : P(m)
  BY DEF Before, P
<1> QED
  BY <1>1, <1>5, <1>6

(* The sink's sequence grows, and a segment it has changes nothing.        *)
LEMMA SinkFacts ==
  ASSUME cumulative_ack \in Nat, received \in Seq(Nat), NEW s \in Nat, processDataPacket(s)
  PROVE  /\ cumulative_ack' \in Nat /\ received' \in Seq(Nat)
         /\ cumulative_ack <= cumulative_ack'
         /\ s <= cumulative_ack => cumulative_ack' = cumulative_ack
<1> DEFINE c == cumulative_ack + MSS_BYTES
           n == InSequence(c)
           at == Before(s)
<1>1. PICK mss \in Nat \ {0} : mss = MSS_BYTES
  BY DataSinkAssumption
<1>2. n \in 0 .. Len(received) /\ n \in Nat /\ Len(received) \in Nat
  BY InSequenceFacts
<1>3. CASE s = cumulative_ack + 1 /\ cumulative_ack' = c + n * MSS_BYTES
           /\ received' = SubSeq(received, n + 1, Len(received))
  <2> HIDE DEF n
  <2>1. n * mss \in Nat
    BY <1>1, <1>2
  <2>2. PICK x \in Nat : x = n * mss
    BY <2>1
  <2>3. cumulative_ack' = cumulative_ack + mss + x
    BY <1>1, <1>3, <2>2
  <2>4. SubSeq(received, n + 1, Len(received)) \in Seq(Nat)
    BY <1>2
  <2> QED
    BY <1>1, <1>3, <2>3, <2>4
<1>4. CASE s <= cumulative_ack /\ UNCHANGED sinkVars
  BY <1>4 DEF sinkVars
<1>5. CASE s > cumulative_ack + 1 /\ received' = Inserted(s) /\ UNCHANGED cumulative_ack
  <2>1. at \in 0 .. Len(received)
    BY BeforeRange
  <2> HIDE DEF at
  <2>2. at + 1 \in 1 .. (Len(received) + 1)
    BY <1>2, <2>1
  <2>3. InsertAt(received, at + 1, s) \in Seq(Nat)
    BY <2>2, InsertAtFacts
  <2>4. Inserted(s) \in Seq(Nat)
    BY <2>3 DEF Inserted, at
  <2> QED
    BY <1>5, <2>4
<1> QED
  BY <1>3, <1>4, <1>5 DEF processDataPacket

-----------------------------------------------------------------------------
(* The events of a source.                                                 *)

(* Others happen.                                                          *)
LEMMA ChainKept ==
  ASSUME NEW events, NEW out, SameEvents(events, out, SOURCE), NEW st, NEW first,
         SourceChain(events, st, first)
  PROVE  SourceChain(out, st, first)
<1> DEFINE A == EntriesOf(events, SOURCE)
           B == EntriesOf(out, SOURCE)
<1>1. /\ A = {} <=> B = {}
      /\ AtMostOne(events, SOURCE) => AtMostOne(out, SOURCE)
      /\ \A t : (\A k \in A : events[k].when = t) => (\A j \in B : out[j].when = t)
  BY SameKeeps, ZenonT(60)
<1>2. ASSUME PairChain(events, first)
      PROVE  PairChain(out, first)
  <2>1. PICK m \in [A -> B] : (\A k \in A : out[m[k]] = events[k]) /\ \A j \in B : \E k \in A : m[k] = j
    BY DEF SameEvents, Onto
  <2>2. PICK a, b : \A k \in A : k \in {a, b} /\ (k # a => events[k].when = first)
    BY <1>2 DEF PairChain
  <2> HIDE DEF A, B
  <2>3. ASSUME NEW j \in B
        PROVE  j \in {m[a], m[b]} /\ (j # m[a] => out[j].when = first)
    <3>1. PICK k \in A : m[k] = j
      BY <2>1
    <3> QED
      BY <2>1, <2>2, <3>1
  <2> QED
    BY <2>3 DEF PairChain, B
<1>3. TimelyChain(events, st) => TimelyChain(out, st)
  BY <1>1 DEF TimelyChain
<1>4. StartChain(events, st, first) => StartChain(out, st, first)
  BY <1>1 DEF StartChain
<1> QED
  BY <1>1, <1>2, <1>3, <1>4 DEF SourceChain

(* What is left when the event of a source fires at time t.                *)
Left(events, out, src) == Onto(events, EntriesOf(events, src) \ {1}, out, EntriesOf(out, src))

LEMMA LeftOfOne ==
  ASSUME NEW events, NEW out, NEW src, Left(events, out, src),
         1 \in EntriesOf(events, src), AtMostOne(events, src)
  PROVE  EntriesOf(out, src) = {}
<1>1. EntriesOf(events, src) \ {1} = {}
  BY DEF AtMostOne
<1> QED
  BY <1>1, OntoFacts DEF Left

(* Of the events of a pair of chains, one is left, which is that at first  *)
(* unless this one was.                                                    *)
LEMMA LeftOfPair ==
  ASSUME NEW events, NEW out, Left(events, out, SOURCE), NEW first,
         1 \in EntriesOf(events, SOURCE), PairChain(events, first)
  PROVE  /\ AtMostOne(out, SOURCE)
         /\ events[1].when # first => \A k \in EntriesOf(out, SOURCE) : out[k].when = first
<1> DEFINE A == EntriesOf(events, SOURCE)
           B == EntriesOf(out, SOURCE)
           from == A \ {1}
<1>1. Onto(events, from, out, B) /\ 1 \in A
  BY DEF Left
<1>2. PICK a, b : \A k \in A : k \in {a, b} /\ (k # a => events[k].when = first)
  BY DEF PairChain
<1> HIDE DEF A, B
<1>3. \E c : from \subseteq {c}
  BY <1>1, <1>2
<1>4. events[1].when # first => \A k \in from : events[k].when = first
  BY <1>1, <1>2
<1> HIDE DEF from
<1>5. /\ \A c : from \subseteq {c} => \E e \in B \cup {c} : B \subseteq {e}
      /\ \A t : (\A k \in from : events[k].when = t) => (\A j \in B : out[j].when = t)
  BY ONLY <1>1, OntoFacts
<1>6. AtMostOne(out, SOURCE)
  BY <1>3, <1>5 DEF AtMostOne, B
<1>7. events[1].when # first => \A k \in B : out[k].when = first
  BY <1>4, <1>5
<1> QED
  BY <1>6, <1>7 DEF B

(* One event is an unambiguous chain.                                      *)
LEMMA OneIsPair ==
  ASSUME NEW events, NEW first, AtMostOne(events, SOURCE)
  PROVE  PairChain(events, first)
<1>1. PICK a : EntriesOf(events, SOURCE) \subseteq {a}
  BY DEF AtMostOne
<1>2. \A k \in EntriesOf(events, SOURCE) : k \in {a, a} /\ (k # a => events[k].when = first)
  BY <1>1
<1> QED
  BY <1>2 DEF PairChain

(* A second event is added to the one at first.                            *)
LEMMA SecondIsPair ==
  ASSUME NEW events, NEW out, NEW when, Added(events, out, SOURCE, when), NEW first,
         AtMostOne(events, SOURCE), \A k \in EntriesOf(events, SOURCE) : events[k].when = first
  PROVE  PairChain(out, first)
<1> DEFINE A == EntriesOf(events, SOURCE)
           B == EntriesOf(out, SOURCE)
<1>1. PICK at \in B : Onto(events, A, out, B \ {at})
  BY DEF Added
<1>2. PICK a : A \subseteq {a}
  BY DEF AtMostOne
<1>3. \A j \in B \ {at} : out[j].when = first
  BY <1>1, OntoFacts
<1>4. PICK b : B \ {at} \subseteq {b}
  BY <1>1, <1>2, OntoFacts
<1>5. \A k \in B : k \in {at, b} /\ (k # at => out[k].when = first)
  BY <1>3, <1>4
<1> QED
  BY <1>5 DEF PairChain

(* The handler of a source whose event was its only one schedules at most  *)
(* one.                                                                    *)
LEMMA FirstIsOne ==
  ASSUME NEW events, NEW out, NEW when, EntriesOf(events, SOURCE) = {},
         IF InTime(when) THEN Added(events, out, SOURCE, when) ELSE out = events
  PROVE  /\ AtMostOne(out, SOURCE) /\ \A k \in EntriesOf(out, SOURCE) : out[k].when = when
         /\ InTime(when) => EntriesOf(out, SOURCE) # {}
<1>1. CASE InTime(when)
  <2>1. PICK k \in 1 .. Len(out) : EntriesOf(out, SOURCE) = {k} /\ out[k].when = when
    BY <1>1, FirstEvent
  <2> QED
    BY <2>1 DEF AtMostOne
<1>2. CASE ~ InTime(when)
  BY <1>2 DEF AtMostOne
<1> QED
  BY <1>1, <1>2

-----------------------------------------------------------------------------
(* The path, when an event fires.                                          *)

Ids == SOURCE # FORWARD /\ SOURCE # BACK /\ SOURCE # QUEUE
       /\ FORWARD # BACK /\ FORWARD # QUEUE /\ BACK # QUEUE

LEMMA Sources ==
  /\ Pipes = {FORWARD, BACK} /\ Ids
  /\ {SOURCE, FORWARD, BACK, QUEUE} \subseteq SOURCE .. QUEUE
  /\ QUEUE \notin Pipes /\ SOURCE \notin Pipes
BY TimedPathAssumption DEF Pipes, SOURCE, FORWARD, BACK, QUEUE, Ids

LEMMA QueueKept ==
  ASSUME NEW events, NEW out, SameEvents(events, out, QUEUE), NEW line, QueueEvent(events, line)
  PROVE  QueueEvent(out, line)
<1>1. /\ EntriesOf(events, QUEUE) = {} <=> EntriesOf(out, QUEUE) = {}
      /\ AtMostOne(events, QUEUE) => AtMostOne(out, QUEUE)
  BY SameKeeps, ZenonT(60)
<1> QED
  BY <1>1 DEF QueueEvent

LEMMA OneKept ==
  ASSUME NEW events, NEW out, NEW i, SameEvents(events, out, i), NEW line, OneEvent(events, i, line)
  PROVE  OneEvent(out, i, line)
BY SameKeeps, ZenonT(60)

LEMMA PathEventsKept ==
  ASSUME NEW events, NEW out, \A s : s # SOURCE => SameEvents(events, out, s),
         NEW flight, NEW line, PathEvents(events, flight, line)
  PROVE  PathEvents(out, flight, line)
<1>1. \A i \in Pipes : i # SOURCE
  BY Sources DEF Ids
<1>2. \A i \in Pipes : OneEvent(out, i, flight[i])
  BY <1>1, OneKept DEF PathEvents
<1>3. QueueEvent(out, line)
  BY Sources, QueueKept DEF PathEvents, Ids
<1> QED
  BY <1>2, <1>3 DEF PathEvents

(* Time passes, and the sink gets more.                                    *)
LEMMA QueueLater ==
  ASSUME NEW line, NEW t \in Nat, QueueOK(line, t), NEW u \in Nat, t <= u
  PROVE  QueueOK(line, u)
<1>1. \A p : SegOK(p, t) => SegOK(p, u)
  BY DEF SegOK, Seg
<1> QED
  BY <1>1 DEF QueueOK

LEMMA FlightLater ==
  ASSUME NEW flight, NEW t \in Nat, NEW c \in Nat, FlightOK(flight, t, c),
         NEW u \in Nat, t <= u, NEW b \in Nat, c <= b
  PROVE  FlightOK(flight, u, b)
<1>1. \A p : SegOK(p, t) => SegOK(p, u)
  BY DEF SegOK, Seg
<1>2. \A p : AckOK(p, t, c) => AckOK(p, u, b)
  BY DEF AckOK, PlainAck, PairAck
<1>3. ASSUME NEW i \in Pipes
      PROVE  LineOK(flight[i], u + Delay[i])
  <2>1. Delay[i] \in Nat
    BY DelayType
  <2>2. t + Delay[i] \in Nat /\ u + Delay[i] \in Nat /\ t + Delay[i] <= u + Delay[i]
    BY <2>1
  <2>3. flight[i] \in Seq(Slot) /\ LineOK(flight[i], t + Delay[i])
    BY DEF FlightOK, Flights
  <2> QED
    BY <2>2, <2>3, LineLater
<1> QED
  BY <1>1, <1>2, <1>3 DEF FlightOK

(* What the handlers of a source have to deal with.                        *)
Moment == now' \in Nat /\ now <= now'

After(events) == ListOK(events, now') /\ PathEvents(events, inflight', enqueued')

PathNext ==
  /\ Moment /\ disturbances' \in 0 .. MAX_DISTURBANCES
  /\ QueueOK(enqueued', now')
  /\ FlightOK(inflight', now', cumulative_ack')

LEMMA Fires ==
  ASSUME IInv, NEW src, NextEventOf(src)
  PROVE  LET rest == Tail(pendingsources)
         IN  /\ Moment /\ ListOK(rest, now') /\ src \in SOURCE .. QUEUE
             /\ \A s : s # src => SameEvents(pendingsources, rest, s)
             /\ Left(pendingsources, rest, src)
             /\ 1 \in EntriesOf(pendingsources, src) /\ pendingsources[1].when = now'
<1>1. now \in Nat /\ ListOK(pendingsources, now)
  BY DEF IInv, TypeInv
<1>2. /\ pendingsources # <<>> /\ Head(pendingsources).src = src
      /\ now' = Head(pendingsources).when
  BY DEF NextEventOf
<1>3. LET src1 == Head(pendingsources).src
          t1 == Head(pendingsources).when
          out == Tail(pendingsources)
      IN  /\ t1 \in Nat /\ now <= t1 /\ src1 \in SOURCE .. QUEUE
          /\ ListOK(out, t1)
          /\ \A s : s # src1 => SameEvents(pendingsources, out, s)
          /\ 1 \in EntriesOf(pendingsources, src1) /\ pendingsources[1].when = t1
          /\ Onto(pendingsources, EntriesOf(pendingsources, src1) \ {1}, out, EntriesOf(out, src1))
  BY ONLY <1>1, <1>2, FiredFacts
<1> QED
  BY <1>2, <1>3 DEF Left, Moment

(* The event of a source fires, and its handler sends nothing.             *)
LEMMA SourceStays ==
  ASSUME IInv, NextEventOf(SOURCE), UNCHANGED <<pathVars, sinkVars>>
  PROVE  /\ PathNext /\ After(Tail(pendingsources))
         /\ Left(pendingsources, Tail(pendingsources), SOURCE)
         /\ 1 \in EntriesOf(pendingsources, SOURCE) /\ pendingsources[1].when = now'
<1> DEFINE rest == Tail(pendingsources)
<1>1. /\ Moment /\ ListOK(rest, now')
      /\ \A s : s # SOURCE => SameEvents(pendingsources, rest, s)
      /\ Left(pendingsources, rest, SOURCE)
      /\ 1 \in EntriesOf(pendingsources, SOURCE) /\ pendingsources[1].when = now'
  BY Fires
<1> HIDE DEF rest
<1>2. /\ UNCHANGED <<inflight, enqueued, disturbances, cumulative_ack>>
      /\ now \in Nat /\ cumulative_ack \in Nat /\ disturbances \in 0 .. MAX_DISTURBANCES
      /\ QueueOK(enqueued, now) /\ FlightOK(inflight, now, cumulative_ack)
      /\ PathEvents(pendingsources, inflight, enqueued)
  BY DEF IInv, TypeInv, pathVars, sinkVars
<1>3. PICK t \in Nat : t = now' /\ now <= t
  BY <1>1 DEF Moment
<1>4. QueueOK(enqueued, t) /\ FlightOK(inflight, t, cumulative_ack)
  <2>1. cumulative_ack <= cumulative_ack
    BY <1>2
  <2> QED
    BY <1>2, <1>3, <2>1, QueueLater, FlightLater
<1>5. PathEvents(rest, inflight, enqueued)
  BY ONLY <1>1, <1>2, PathEventsKept
<1> QED
  BY <1>1, <1>2, <1>3, <1>4, <1>5 DEF PathNext, After, rest

(* It sends the segments of out.                                           *)
LEMMA SourceSends ==
  ASSUME IInv, NextEventOf(SOURCE), UNCHANGED <<inflight, sinkVars>>,
         NEW out \in Seq(Seg), \A k \in 1 .. Len(out) : SegOK(out[k], now'),
         NEW d \in Disturbance, Transmit(out, d)
  PROVE  LET events == Served(out, d, Tail(pendingsources))
         IN  /\ PathNext /\ After(events)
             /\ Left(pendingsources, events, SOURCE)
             /\ 1 \in EntriesOf(pendingsources, SOURCE) /\ pendingsources[1].when = now'
<1> DEFINE rest == Tail(pendingsources)
           events == Served(out, d, rest)
<1>1. /\ Moment /\ ListOK(rest, now')
      /\ \A s : s # SOURCE => SameEvents(pendingsources, rest, s)
      /\ Left(pendingsources, rest, SOURCE)
      /\ 1 \in EntriesOf(pendingsources, SOURCE) /\ pendingsources[1].when = now'
  BY Fires
<1> HIDE DEF rest
<1>2. /\ UNCHANGED <<inflight, cumulative_ack>>
      /\ now \in Nat /\ cumulative_ack \in Nat /\ disturbances \in 0 .. MAX_DISTURBANCES
      /\ QueueOK(enqueued, now) /\ FlightOK(inflight, now, cumulative_ack)
      /\ PathEvents(pendingsources, inflight, enqueued)
  BY DEF IInv, TypeInv, sinkVars
<1>3. PICK t \in Nat : t = now' /\ now <= t
  BY <1>1 DEF Moment
<1>4. FlightOK(inflight, t, cumulative_ack)
  <2>1. cumulative_ack <= cumulative_ack
    BY <1>2
  <2> QED
    BY <1>2, <1>3, <2>1, FlightLater
<1>5. PathEvents(rest, inflight, enqueued)
  BY ONLY <1>1, <1>2, PathEventsKept
<1>6. /\ QueueOK(enqueued', t) /\ disturbances' \in 0 .. MAX_DISTURBANCES
      /\ ListOK(events, t)
      /\ \A s : s # QUEUE => SameEvents(rest, events, s)
      /\ QueueEvent(events, enqueued')
  <2>1. ListOK(rest, t) /\ QueueEvent(rest, enqueued) /\ \A k \in 1 .. Len(out) : SegOK(out[k], t)
    BY <1>1, <1>3, <1>5 DEF PathEvents
  <2> HIDE DEF events
  <2>2. /\ QueueOK(enqueued', t)
        /\ disturbances' \in 0 .. MAX_DISTURBANCES
        /\ Len(enqueued) <= Len(enqueued') /\ (out = <<>> => enqueued' = enqueued)
        /\ ListOK(Served(out, d, rest), t)
        /\ \A s : s # QUEUE => SameEvents(rest, Served(out, d, rest), s)
        /\ QueueEvent(Served(out, d, rest), enqueued')
    BY ONLY <1>2, <1>3, <2>1, out \in Seq(Seg), d \in Disturbance, Transmit(out, d), TransmitFacts
  <2> QED
    BY <2>2 DEF events
<1> HIDE DEF events
<1>7. PathEvents(events, inflight, enqueued')
  <2>1. \A i \in Pipes : OneEvent(events, i, inflight[i])
    <3>1. \A i \in Pipes : i # QUEUE
      BY Sources
    <3> QED
      BY <1>5, <1>6, <3>1, OneKept DEF PathEvents
  <2> QED
    BY <1>6, <2>1 DEF PathEvents
<1>8. Left(pendingsources, events, SOURCE)
  <2>1. SameEvents(rest, events, SOURCE)
    BY <1>6, Sources DEF Ids
  <2> QED
    BY <1>1, <2>1, OntoTransitive DEF Left, SameEvents
<1> QED
  BY <1>1, <1>2, <1>3, <1>4, <1>6, <1>7, <1>8 DEF PathNext, After, events, rest

(* An event of the source is scheduled.                                    *)
LEMMA SourceWakes ==
  ASSUME now' \in Nat, NEW events, After(events), NEW when \in Nat, now' <= when
  PROVE  LET out == sourceIsPending(events, SOURCE, when)
         IN  After(out) /\ IF InTime(when) THEN Added(events, out, SOURCE, when) ELSE out = events
<1> DEFINE out == sourceIsPending(events, SOURCE, when)
<1>1. PICK t \in Nat : t = now' /\ t <= when
  OBVIOUS
<1>2. ListOK(events, t) /\ PathEvents(events, inflight', enqueued')
  BY <1>1 DEF After
<1>3. /\ ListOK(out, t)
      /\ \A s : s # SOURCE => SameEvents(events, out, s)
      /\ IF InTime(when) THEN Added(events, out, SOURCE, when) ELSE out = events
  <2>1. SOURCE \in SOURCE .. QUEUE
    BY Sources
  <2> QED
    BY ONLY <1>1, <1>2, <2>1, when \in Nat, PendingFacts
<1> HIDE DEF out
<1>4. PathEvents(out, inflight', enqueued')
  BY ONLY <1>2, <1>3, PathEventsKept
<1> QED
  BY <1>1, <1>3, <1>4 DEF After, out

(* The event of pipe i fires: its first packet is due.                     *)
LEMMA PipeFires ==
  ASSUME IInv, NEW i \in Pipes, NextEventOf(i)
  PROVE  LET rest == Tail(pendingsources)
             left == [inflight EXCEPT ![i] = Tail(@)]
         IN  /\ Moment /\ ListOK(rest, now')
             /\ EntriesOf(rest, i) = {}
             /\ \A s : s # i => SameEvents(pendingsources, rest, s)
             /\ inflight[i] # <<>> /\ Head(inflight[i]) = inflight[i][1] /\ 1 \in 1 .. Len(inflight[i])
             /\ now' = Head(inflight[i]).when
             /\ left \in Flights /\ Len(left[i]) = Len(inflight[i]) - 1
             /\ \A j \in Pipes : j # i => left[j] = inflight[j]
             /\ FlightOK(left, now', cumulative_ack)
             /\ left[i] # <<>> => now' <= Head(left[i]).when
<1> DEFINE rest == Tail(pendingsources)
           left == [inflight EXCEPT ![i] = Tail(@)]
           line == inflight[i]
<1>1. /\ Moment /\ ListOK(rest, now')
      /\ \A s : s # i => SameEvents(pendingsources, rest, s)
      /\ Left(pendingsources, rest, i)
      /\ 1 \in EntriesOf(pendingsources, i) /\ pendingsources[1].when = now'
  BY Fires
<1> HIDE DEF rest
<1>2. /\ FlightOK(inflight, now, cumulative_ack) /\ now \in Nat /\ cumulative_ack \in Nat
      /\ OneEvent(pendingsources, i, line)
  BY DEF IInv, TypeInv, PathEvents
<1>3. /\ line # <<>> /\ now' = Head(line).when
      /\ AtMostOne(pendingsources, i)
  <2>1. CASE line # <<>> /\ InTime(Head(line).when)
    <3>1. PICK k \in 1 .. Len(pendingsources) :
            EntriesOf(pendingsources, i) = {k} /\ pendingsources[k].when = Head(line).when
      BY <1>2, <2>1 DEF OneEvent
    <3> QED
      BY <1>1, <2>1, <3>1 DEF AtMostOne
  <2>2. CASE ~ (line # <<>> /\ InTime(Head(line).when))
    BY <1>1, <1>2, <2>2 DEF OneEvent
  <2> QED
    BY <2>1, <2>2
<1>4. EntriesOf(rest, i) = {}
  BY ONLY <1>1, <1>3, LeftOfOne
<1>5. line \in Seq(Slot) /\ LineOK(line, now + Delay[i]) /\ inflight \in Flights
  BY <1>2 DEF FlightOK, Flights
<1>6. PICK u \in Nat : u = now + Delay[i]
  BY <1>2, DelayType
<1>7. /\ Tail(line) \in Seq(Slot) /\ Len(Tail(line)) = Len(line) - 1
      /\ Head(line) = line[1] /\ 1 \in 1 .. Len(line) /\ Head(line) \in Slot
      /\ \A j \in 1 .. Len(Tail(line)) : j + 1 \in 1 .. Len(line) /\ Tail(line)[j] = line[j + 1]
      /\ LineOK(Tail(line), u)
      /\ Tail(line) # <<>> => Head(line).when <= Head(Tail(line)).when
  <2> HIDE DEF line
  <2> QED
    BY ONLY <1>3, <1>5, <1>6, LineTail
<1>8. left \in Flights /\ left[i] = Tail(line) /\ \A j \in Pipes : j # i => left[j] = inflight[j]
  BY <1>5, <1>7 DEF Flights
<1> HIDE DEF left
<1>9. FlightOK(left, now, cumulative_ack)
  <2>1. \A j \in Pipes : LineOK(left[j], now + Delay[j])
    BY <1>2, <1>6, <1>7, <1>8 DEF FlightOK
  <2>2. FORWARD \in Pipes /\ BACK \in Pipes
    BY Sources
  <2>3. \A j \in Pipes : \A k \in 1 .. Len(left[j]) :
          \E l \in 1 .. Len(inflight[j]) : left[j][k] = inflight[j][l]
    <3> SUFFICES ASSUME NEW j \in Pipes, NEW k \in 1 .. Len(left[j])
                 PROVE  \E l \in 1 .. Len(inflight[j]) : left[j][k] = inflight[j][l]
      OBVIOUS
    <3>1. CASE j = i
      <4>1. k + 1 \in 1 .. Len(line) /\ left[i][k] = line[k + 1]
        BY <1>7, <1>8, <3>1
      <4> QED
        BY <3>1, <4>1
    <3>2. CASE j # i
      BY <1>8, <3>2
    <3> QED
      BY <3>1, <3>2
  <2>4. ASSUME NEW k \in 1 .. Len(left[FORWARD])
        PROVE  SegOK(left[FORWARD][k].pkt, now)
    <3>1. PICK l \in 1 .. Len(inflight[FORWARD]) : left[FORWARD][k] = inflight[FORWARD][l]
      BY <2>2, <2>3
    <3> QED
      BY <1>2, <3>1 DEF FlightOK
  <2>5. ASSUME NEW k \in 1 .. Len(left[BACK])
        PROVE  AckOK(left[BACK][k].pkt, now, cumulative_ack)
    <3>1. PICK l \in 1 .. Len(inflight[BACK]) : left[BACK][k] = inflight[BACK][l]
      BY <2>2, <2>3
    <3> QED
      BY <1>2, <3>1 DEF FlightOK
  <2> QED
    BY <1>8, <2>1, <2>4, <2>5 DEF FlightOK
<1>10. FlightOK(left, now', cumulative_ack)
  <2>1. PICK t \in Nat : t = now' /\ now <= t
    BY <1>1 DEF Moment
  <2>2. FlightOK(left, t, cumulative_ack)
    <3>1. cumulative_ack <= cumulative_ack
      BY <1>2
    <3> QED
      BY ONLY <1>2, <1>9, <2>1, <3>1, FlightLater
  <2> QED
    BY <2>1, <2>2
<1>11. left[i] # <<>> => now' <= Head(left[i]).when
  BY <1>3, <1>7, <1>8
<1> QED
  BY <1>1, <1>3, <1>4, <1>7, <1>8, <1>10, <1>11 DEF rest, left

(* An ack arrives, its handler sends the segments of out and schedules an  *)
(* event of the source at wake.                                            *)
LEMMA AckArrives ==
  ASSUME IInv, AckEvent,
         NEW out \in Seq(Seg), \A k \in 1 .. Len(out) : SegOK(out[k], now'),
         NEW wake \in Nat, wake = FOREVER \/ now' <= wake,
         NEW d \in Disturbance, Transmit(out, d), AckScheduled(out, wake, d)
  PROVE  /\ PathNext /\ After(pendingsources')
         /\ AckOK(theAck, now, cumulative_ack)
         /\ inflight[BACK] # <<>> /\ Len(inflight'[BACK]) = Len(inflight[BACK]) - 1
         /\ inflight'[FORWARD] = inflight[FORWARD]
         /\ out = <<>> => enqueued' = enqueued
         /\ \E e1, e2 :
              /\ SameEvents(pendingsources, e1, SOURCE)
              /\ IF wake # FOREVER /\ InTime(wake) THEN Added(e1, e2, SOURCE, wake) ELSE e2 = e1
              /\ SameEvents(e2, pendingsources', SOURCE)
<1> DEFINE rest == Tail(pendingsources)
           left == [inflight EXCEPT ![BACK] = Tail(@)]
           e1 == Served(out, d, rest)
           e2 == IF wake = FOREVER THEN e1 ELSE sourceIsPending(e1, SOURCE, wake)
           e3 == Rescheduled(BACK, left, e2)
<1>1. inflight' = left /\ cumulative_ack' = cumulative_ack /\ pendingsources' = e3
  BY DEF AckEvent, AckScheduled, sinkVars
<1>2. BACK \in Pipes /\ FORWARD \in Pipes /\ Pipes = {BACK, FORWARD} /\ Ids /\ SOURCE \in SOURCE .. QUEUE
  BY Sources
<1>3. NextEventOf(BACK)
  BY DEF AckEvent
<1>4. /\ Moment /\ ListOK(rest, now')
      /\ EntriesOf(rest, BACK) = {}
      /\ \A s : s # BACK => SameEvents(pendingsources, rest, s)
      /\ inflight[BACK] # <<>> /\ Head(inflight[BACK]) = inflight[BACK][1] /\ 1 \in 1 .. Len(inflight[BACK])
      /\ left \in Flights /\ Len(left[BACK]) = Len(inflight[BACK]) - 1
      /\ \A j \in Pipes : j # BACK => left[j] = inflight[j]
      /\ FlightOK(left, now', cumulative_ack)
      /\ left[BACK] # <<>> => now' <= Head(left[BACK]).when
  BY <1>2, <1>3, PipeFires
<1> HIDE DEF rest, left, e1, e2, e3
<1>5. /\ now \in Nat /\ disturbances \in 0 .. MAX_DISTURBANCES
      /\ QueueOK(enqueued, now) /\ FlightOK(inflight, now, cumulative_ack)
      /\ \A i \in Pipes : OneEvent(pendingsources, i, inflight[i])
      /\ QueueEvent(pendingsources, enqueued)
  BY DEF IInv, TypeInv, PathEvents
<1>6. AckOK(theAck, now, cumulative_ack)
  BY <1>4, <1>5 DEF FlightOK, theAck
<1>7. PICK t \in Nat : t = now' /\ now <= t
  BY <1>4 DEF Moment
<1>8. /\ QueueOK(enqueued', t) /\ disturbances' \in 0 .. MAX_DISTURBANCES
      /\ (out = <<>> => enqueued' = enqueued)
      /\ ListOK(e1, t)
      /\ \A s : s # QUEUE => SameEvents(rest, e1, s)
      /\ QueueEvent(e1, enqueued')
  <2>1. ListOK(rest, t) /\ \A k \in 1 .. Len(out) : SegOK(out[k], t)
    BY <1>4, <1>7
  <2>2. QueueEvent(rest, enqueued)
    BY <1>2, <1>4, <1>5, QueueKept DEF Ids
  <2>3. /\ QueueOK(enqueued', t)
        /\ disturbances' \in 0 .. MAX_DISTURBANCES
        /\ Len(enqueued) <= Len(enqueued') /\ (out = <<>> => enqueued' = enqueued)
        /\ ListOK(Served(out, d, rest), t)
        /\ \A s : s # QUEUE => SameEvents(rest, Served(out, d, rest), s)
        /\ QueueEvent(Served(out, d, rest), enqueued')
    BY ONLY <1>5, <1>7, <2>1, <2>2, out \in Seq(Seg), d \in Disturbance, Transmit(out, d), TransmitFacts
  <2> QED
    BY <2>3 DEF e1
<1>9. /\ ListOK(e2, t) /\ \A s : s # SOURCE => SameEvents(e1, e2, s)
      /\ IF wake # FOREVER /\ InTime(wake) THEN Added(e1, e2, SOURCE, wake) ELSE e2 = e1
  <2>1. CASE wake = FOREVER
    BY <1>8, <2>1, SameReflexive DEF e2
  <2>2. CASE wake # FOREVER
    <3>1. e2 = sourceIsPending(e1, SOURCE, wake) /\ t <= wake
      BY <1>7, <2>2 DEF e2
    <3>2. /\ ListOK(e2, t) /\ \A s : s # SOURCE => SameEvents(e1, e2, s)
          /\ IF InTime(wake) THEN Added(e1, e2, SOURCE, wake) ELSE e2 = e1
      BY ONLY <1>2, <1>7, <1>8, <3>1, wake \in Nat, PendingFacts
    <3> QED
      BY <2>2, <3>2
  <2> QED
    BY <2>1, <2>2
<1>10. /\ ListOK(e3, t) /\ \A s : s # BACK => SameEvents(e2, e3, s)
       /\ EntriesOf(e2, BACK) = {} => OneEvent(e3, BACK, left[BACK])
  <2>1. left[BACK] # <<>> => t <= Head(left[BACK]).when
    BY <1>4, <1>7
  <2>2. LET o == Rescheduled(BACK, left, e2)
        IN  /\ ListOK(o, t) /\ \A s : s # BACK => SameEvents(e2, o, s)
            /\ EntriesOf(e2, BACK) = {} => OneEvent(o, BACK, left[BACK])
    BY ONLY <1>2, <1>4, <1>7, <1>9, <2>1, RescheduledFacts
  <2> QED
    BY <2>2 DEF e3
<1>11. EntriesOf(e2, BACK) = {}
  <2>1. SameEvents(rest, e1, BACK) /\ SameEvents(e1, e2, BACK)
    BY <1>2, <1>8, <1>9 DEF Ids
  <2>2. EntriesOf(e1, BACK) = {}
    BY <1>4, <2>1, SameKeeps, ZenonT(60)
  <2> QED
    BY <2>1, <2>2, SameKeeps, ZenonT(60)
<1>12. OneEvent(e3, FORWARD, left[FORWARD])
  <2>1. /\ SameEvents(pendingsources, rest, FORWARD) /\ SameEvents(rest, e1, FORWARD)
        /\ SameEvents(e1, e2, FORWARD) /\ SameEvents(e2, e3, FORWARD)
    BY <1>2, <1>4, <1>8, <1>9, <1>10 DEF Ids
  <2>2. SameEvents(pendingsources, e3, FORWARD)
    BY <2>1, SameTransitive, ZenonT(60)
  <2>3. left[FORWARD] = inflight[FORWARD]
    BY <1>2, <1>4 DEF Ids
  <2> QED
    BY <1>2, <1>5, <2>2, <2>3, OneKept
<1>13. QueueEvent(e3, enqueued')
  <2>1. SameEvents(e1, e2, QUEUE) /\ SameEvents(e2, e3, QUEUE)
    BY <1>2, <1>9, <1>10 DEF Ids
  <2>2. SameEvents(e1, e3, QUEUE)
    BY <2>1, SameTransitive, ZenonT(60)
  <2> QED
    BY <1>8, <2>2, QueueKept
<1>14. SameEvents(pendingsources, e1, SOURCE) /\ SameEvents(e2, e3, SOURCE)
  <2>1. SameEvents(pendingsources, rest, SOURCE) /\ SameEvents(rest, e1, SOURCE)
    BY <1>2, <1>4, <1>8 DEF Ids
  <2> QED
    BY <1>2, <1>10, <2>1, SameTransitive DEF Ids
<1>15. PathNext
  BY <1>1, <1>4, <1>7, <1>8 DEF PathNext
<1>16. After(pendingsources')
  <2>1. \A i \in Pipes : OneEvent(e3, i, left[i])
    BY <1>2, <1>10, <1>11, <1>12
  <2> QED
    BY <1>1, <1>7, <1>10, <1>13, <2>1 DEF After, PathEvents
<1>17. \E x1, x2 :
         /\ SameEvents(pendingsources, x1, SOURCE)
         /\ IF wake # FOREVER /\ InTime(wake) THEN Added(x1, x2, SOURCE, wake) ELSE x2 = x1
         /\ SameEvents(x2, pendingsources', SOURCE)
  BY <1>1, <1>9, <1>14
<1> QED
  BY <1>1, <1>2, <1>4, <1>6, <1>8, <1>15, <1>16, <1>17 DEF Ids

(* A packet that enters a pipe is as it should be.                         *)
LEMMA Enters ==
  ASSUME NEW t \in Nat, NEW c \in Nat, NEW flight, FlightOK(flight, t, c),
         NEW i \in Pipes, NEW pkt,
         i = FORWARD => SegOK(pkt, t), i = BACK => AckOK(pkt, t, c),
         NEW events, ListOK(events, t)
  PROVE  LET f == Received(i, pkt, flight, t)
             out == Notified(i, flight, events, t)
         IN  /\ FlightOK(f, t, c) /\ \A j \in Pipes : j # i => f[j] = flight[j]
             /\ Len(f[i]) = Len(flight[i]) + 1
             /\ ListOK(out, t) /\ \A s : s # i => SameEvents(events, out, s)
             /\ OneEvent(events, i, flight[i]) => OneEvent(out, i, f[i])
<1> DEFINE f == Received(i, pkt, flight, t)
           out == Notified(i, flight, events, t)
<1>1. /\ flight \in Flights /\ LineOK(flight[i], t + Delay[i])
      /\ pkt \in Seg \cup PlainAck \cup PairAck
  BY Sources DEF FlightOK, SegOK, AckOK
<1>2. /\ f \in Flights /\ \A j \in Pipes : j # i => f[j] = flight[j]
      /\ Len(f[i]) = Len(flight[i]) + 1 /\ f[i][Len(flight[i]) + 1].pkt = pkt
      /\ \A j \in 1 .. Len(flight[i]) : f[i][j] = flight[i][j]
      /\ LineOK(f[i], t + Delay[i])
      /\ ListOK(out, t) /\ \A s : s # i => SameEvents(events, out, s)
      /\ OneEvent(events, i, flight[i]) => OneEvent(out, i, f[i])
  BY ONLY <1>1, i \in Pipes, t \in Nat, ListOK(events, t), ReceivedFacts
<1> HIDE DEF f, out
<1>3. Len(flight[i]) \in Nat
  <2>1. flight[i] \in Seq(Slot)
    BY <1>1 DEF Flights
  <2> QED
    BY <2>1
<1>4. \A j \in 1 .. Len(f[i]) : j \in 1 .. Len(flight[i]) \/ j = Len(flight[i]) + 1
  BY <1>2, <1>3
<1>5. \A j \in Pipes : LineOK(f[j], t + Delay[j])
  BY <1>2 DEF FlightOK
<1>6. ASSUME NEW j \in 1 .. Len(f[FORWARD])
      PROVE  SegOK(f[FORWARD][j].pkt, t)
  <2>1. CASE i = FORWARD
    BY <1>2, <1>4, <2>1 DEF FlightOK
  <2>2. CASE i # FORWARD
    BY <1>2, <2>2, Sources DEF FlightOK
  <2> QED
    BY <2>1, <2>2
<1>7. ASSUME NEW j \in 1 .. Len(f[BACK])
      PROVE  AckOK(f[BACK][j].pkt, t, c)
  <2>1. CASE i = BACK
    BY <1>2, <1>4, <2>1 DEF FlightOK
  <2>2. CASE i # BACK
    BY <1>2, <2>2, Sources DEF FlightOK
  <2> QED
    BY <2>1, <2>2
<1>8. FlightOK(f, t, c)
  BY <1>2, <1>5, <1>6, <1>7 DEF FlightOK
<1> QED
  BY <1>2, <1>8 DEF f, out

(* The queue has served a segment.                                         *)
LEMMA ServiceCompletes ==
  ASSUME IInv, NEW d \in Disturbance, completeService(d), UNCHANGED sinkVars
  PROVE  /\ PathNext /\ After(pendingsources') /\ SameEvents(pendingsources, pendingsources', SOURCE)
         /\ enqueued # <<>> /\ Len(enqueued') = Len(enqueued) - 1
         /\ Len(inflight'[FORWARD]) = Len(inflight[FORWARD]) + 1
         /\ inflight'[BACK] = inflight[BACK]
<1> DEFINE rest == Tail(pendingsources)
           sent == Notified(FORWARD, inflight, rest, now')
           out == pendingsources'
           when == now' + SERVICE + d.extra
<1>1. /\ NextEventOf(QUEUE) /\ Disturb(d)
      /\ inflight' = Received(FORWARD, Head(enqueued), inflight, now')
      /\ enqueued' = Tail(enqueued)
      /\ out = IF enqueued' = <<>> THEN sent ELSE sourceIsPending(sent, QUEUE, when)
      /\ cumulative_ack' = cumulative_ack
  BY DEF completeService, sinkVars
<1>2. /\ Moment /\ ListOK(rest, now')
      /\ \A s : s # QUEUE => SameEvents(pendingsources, rest, s)
      /\ Left(pendingsources, rest, QUEUE)
      /\ 1 \in EntriesOf(pendingsources, QUEUE)
  BY ONLY <1>1, IInv, Fires
<1>3. /\ now \in Nat /\ disturbances \in 0 .. MAX_DISTURBANCES /\ cumulative_ack \in Nat
      /\ QueueOK(enqueued, now) /\ FlightOK(inflight, now, cumulative_ack)
      /\ \A i \in Pipes : OneEvent(pendingsources, i, inflight[i])
      /\ QueueEvent(pendingsources, enqueued)
  BY DEF IInv, TypeInv, PathEvents
<1>4. enqueued # <<>> /\ EntriesOf(rest, QUEUE) = {}
  <2>1. enqueued # <<>> /\ AtMostOne(pendingsources, QUEUE)
    BY <1>2, <1>3 DEF QueueEvent
  <2> HIDE DEF rest
  <2> QED
    BY ONLY <1>2, <2>1, LeftOfOne
<1>5. PICK t \in Nat : t = now' /\ now <= t
  BY <1>2 DEF Moment
<1>6. when \in Nat /\ t <= when
  <2>1. SERVICE \in Nat /\ d.extra \in Nat
    BY TimedPathAssumption, DisturbanceType
  <2> QED
    BY <1>5, <2>1
<1>7. /\ QueueOK(Tail(enqueued), t) /\ SegOK(Head(enqueued), t)
      /\ Len(Tail(enqueued)) = Len(enqueued) - 1
  <2>1. QueueOK(enqueued, t)
    BY <1>3, <1>5, QueueLater
  <2>2. /\ enqueued \in Seq(Seg) /\ Len(enqueued) <= QUEUE_SIZE
        /\ \A j \in 1 .. Len(enqueued) : SegOK(enqueued[j], t)
    BY <2>1 DEF QueueOK
  <2>3. /\ Tail(enqueued) \in Seq(Seg) /\ Len(Tail(enqueued)) = Len(enqueued) - 1
        /\ Head(enqueued) = enqueued[1] /\ 1 \in 1 .. Len(enqueued) /\ Len(enqueued) \in Nat
    BY <1>4, <2>2
  <2>4. \A j \in 1 .. Len(Tail(enqueued)) :
          j + 1 \in 1 .. Len(enqueued) /\ Tail(enqueued)[j] = enqueued[j + 1]
    BY <1>4, <2>2
  <2>5. Len(Tail(enqueued)) <= QUEUE_SIZE
    BY <2>2, <2>3, TimedPathAssumption
  <2> QED
    BY <2>2, <2>3, <2>4, <2>5 DEF QueueOK
<1> HIDE DEF rest, sent, out, when
<1>8. FORWARD \in Pipes /\ BACK \in Pipes /\ Pipes = {FORWARD, BACK} /\ Ids /\ QUEUE \in SOURCE .. QUEUE
  BY Sources
<1>9. /\ FlightOK(inflight', t, cumulative_ack) /\ inflight'[BACK] = inflight[BACK]
      /\ Len(inflight'[FORWARD]) = Len(inflight[FORWARD]) + 1
      /\ ListOK(sent, t) /\ \A s : s # FORWARD => SameEvents(rest, sent, s)
      /\ OneEvent(rest, FORWARD, inflight[FORWARD]) => OneEvent(sent, FORWARD, inflight'[FORWARD])
  <2>1. FlightOK(inflight, t, cumulative_ack)
    <3>1. cumulative_ack <= cumulative_ack
      BY <1>3
    <3> QED
      BY ONLY <1>3, <1>5, <3>1, FlightLater
  <2> DEFINE p == Head(enqueued)
  <2>2. /\ FORWARD = FORWARD => SegOK(p, t)
        /\ FORWARD = BACK => AckOK(p, t, cumulative_ack)
        /\ ListOK(rest, t)
    BY <1>2, <1>5, <1>7, <1>8 DEF Ids
  <2> HIDE DEF p
  <2>3. LET f == Received(FORWARD, p, inflight, t)
            o == Notified(FORWARD, inflight, rest, t)
        IN  /\ FlightOK(f, t, cumulative_ack) /\ \A j \in Pipes : j # FORWARD => f[j] = inflight[j]
            /\ Len(f[FORWARD]) = Len(inflight[FORWARD]) + 1
            /\ ListOK(o, t) /\ \A s : s # FORWARD => SameEvents(rest, o, s)
            /\ OneEvent(rest, FORWARD, inflight[FORWARD]) => OneEvent(o, FORWARD, f[FORWARD])
    BY ONLY <1>3, <1>5, <1>8, <2>1, <2>2, Enters
  <2>4. inflight' = Received(FORWARD, p, inflight, t) /\ sent = Notified(FORWARD, inflight, rest, t)
    BY <1>1, <1>5 DEF p, sent
  <2>5. \A j \in Pipes : j # FORWARD => inflight'[j] = inflight[j]
    BY ONLY <2>3, <2>4
  <2> QED
    BY <1>8, <2>3, <2>4, <2>5 DEF Ids
<1>10. EntriesOf(sent, QUEUE) = {} /\ SameEvents(pendingsources, sent, SOURCE)
  <2>1. SameEvents(rest, sent, QUEUE)
    BY <1>8, <1>9 DEF Ids
  <2>2. SameEvents(pendingsources, rest, SOURCE) /\ SameEvents(rest, sent, SOURCE)
    BY <1>2, <1>8, <1>9 DEF Ids
  <2>3. EntriesOf(sent, QUEUE) = {}
    BY <1>4, <2>1, SameKeeps, ZenonT(60)
  <2> QED
    BY <2>2, <2>3, SameTransitive
<1>11. \A i \in Pipes : OneEvent(sent, i, inflight'[i])
  <2>1. /\ OneEvent(pendingsources, FORWARD, inflight[FORWARD])
        /\ OneEvent(pendingsources, BACK, inflight[BACK])
        /\ SameEvents(pendingsources, rest, FORWARD)
        /\ SameEvents(pendingsources, rest, BACK) /\ SameEvents(rest, sent, BACK)
    BY <1>2, <1>3, <1>8, <1>9 DEF Ids
  <2>2. OneEvent(rest, FORWARD, inflight[FORWARD])
    BY ONLY <2>1, OneKept
  <2>3. OneEvent(sent, BACK, inflight[BACK])
    BY ONLY <2>1, OneKept
  <2> QED
    BY <1>8, <1>9, <2>2, <2>3
<1>12. /\ ListOK(out, t) /\ \A s : s # QUEUE => SameEvents(sent, out, s)
       /\ QueueEvent(out, enqueued')
  <2>1. CASE enqueued' = <<>>
    <3>1. out = sent
      BY <1>1, <2>1
    <3>2. QueueEvent(sent, enqueued')
      BY <1>10 DEF QueueEvent, AtMostOne
    <3> QED
      BY <1>9, <3>1, <3>2, SameReflexive
  <2>2. CASE enqueued' # <<>>
    <3>1. out = sourceIsPending(sent, QUEUE, when)
      BY <1>1, <2>2
    <3>2. /\ ListOK(out, t) /\ \A s : s # QUEUE => SameEvents(sent, out, s)
          /\ IF InTime(when) THEN Added(sent, out, QUEUE, when) ELSE out = sent
      BY ONLY <1>5, <1>6, <1>8, <1>9, <3>1, PendingFacts
    <3>3. AtMostOne(out, QUEUE)
      <4>1. CASE InTime(when)
        <5>1. \E k \in 1 .. Len(out) : EntriesOf(out, QUEUE) = {k} /\ out[k].when = when
          BY <1>10, <3>2, <4>1, FirstEvent
        <5> QED
          BY <5>1 DEF AtMostOne
      <4>2. CASE ~ InTime(when)
        BY <1>10, <3>2, <4>2 DEF AtMostOne
      <4> QED
        BY <4>1, <4>2
    <3> QED
      BY <2>2, <3>2, <3>3 DEF QueueEvent
  <2> QED
    BY <2>1, <2>2
<1>13. \A i \in Pipes : OneEvent(out, i, inflight'[i])
  <2>1. \A i \in Pipes : i # QUEUE
    BY Sources
  <2> QED
    BY <1>11, <1>12, <2>1, OneKept
<1>14. SameEvents(pendingsources, out, SOURCE)
  BY <1>8, <1>10, <1>12, SameTransitive DEF Ids
<1>15. disturbances' \in 0 .. MAX_DISTURBANCES
  BY <1>1, <1>3, DisturbFacts
<1>16. PathNext
  BY <1>1, <1>2, <1>5, <1>7, <1>9, <1>15 DEF PathNext
<1>17. After(out)
  BY <1>5, <1>12, <1>13 DEF After, PathEvents
<1> QED
  BY <1>1, <1>4, <1>7, <1>9, <1>14, <1>16, <1>17 DEF out

(* A segment arrives at the sink, which answers with ack.                  *)
LEMMA SinkArrives ==
  ASSUME IInv, NextEventOf(FORWARD), NEW d \in Disturbance, NEW ack, SinkEvent(ack, d),
         cumulative_ack' \in Nat, cumulative_ack <= cumulative_ack',
         AckOK(ack, now', cumulative_ack')
  PROVE  /\ PathNext /\ After(pendingsources') /\ SameEvents(pendingsources, pendingsources', SOURCE)
         /\ SameEvents(pendingsources, pendingsources', QUEUE)
         /\ inflight[FORWARD] # <<>> /\ Len(inflight'[FORWARD]) = Len(inflight[FORWARD]) - 1
         /\ Len(inflight'[BACK]) \in {Len(inflight[BACK]), Len(inflight[BACK]) + 1}
         /\ enqueued' = enqueued
<1> DEFINE rest == Tail(pendingsources)
           left == [inflight EXCEPT ![FORWARD] = Tail(@)]
           sent == IF d.lost = {} THEN Notified(BACK, left, rest, now') ELSE rest
           out == Rescheduled(FORWARD, left, sent)
<1>1. /\ Disturb(d) /\ enqueued' = enqueued
      /\ inflight' = IF d.lost = {} THEN Received(BACK, ack, left, now') ELSE left
      /\ pendingsources' = out
  BY DEF SinkEvent
<1>2. FORWARD \in Pipes /\ BACK \in Pipes /\ Pipes = {FORWARD, BACK} /\ Ids
  BY Sources
<1>3. /\ Moment /\ ListOK(rest, now')
      /\ EntriesOf(rest, FORWARD) = {}
      /\ \A s : s # FORWARD => SameEvents(pendingsources, rest, s)
      /\ inflight[FORWARD] # <<>> /\ 1 \in 1 .. Len(inflight[FORWARD])
      /\ left \in Flights /\ Len(left[FORWARD]) = Len(inflight[FORWARD]) - 1
      /\ \A j \in Pipes : j # FORWARD => left[j] = inflight[j]
      /\ FlightOK(left, now', cumulative_ack)
      /\ left[FORWARD] # <<>> => now' <= Head(left[FORWARD]).when
  BY <1>2, PipeFires
<1>4. /\ now \in Nat /\ disturbances \in 0 .. MAX_DISTURBANCES /\ cumulative_ack \in Nat
      /\ QueueOK(enqueued, now)
      /\ \A i \in Pipes : OneEvent(pendingsources, i, inflight[i])
      /\ QueueEvent(pendingsources, enqueued)
  BY DEF IInv, TypeInv, PathEvents
<1>5. PICK t \in Nat : t = now' /\ now <= t
  BY <1>3 DEF Moment
<1>6. PICK c \in Nat : c = cumulative_ack' /\ cumulative_ack <= c
  OBVIOUS
<1> HIDE DEF rest, left
<1>7. FlightOK(left, t, c)
  <2>1. FlightOK(left, t, cumulative_ack) /\ t <= t
    BY <1>3, <1>5
  <2> QED
    BY <1>4, <1>5, <1>6, <2>1, FlightLater
<1>8. OneEvent(rest, BACK, left[BACK])
  <2>1. SameEvents(pendingsources, rest, BACK) /\ left[BACK] = inflight[BACK]
    BY <1>2, <1>3 DEF Ids
  <2> QED
    BY <1>2, <1>4, <2>1, OneKept
<1>9. /\ FlightOK(inflight', t, c) /\ inflight'[FORWARD] = left[FORWARD]
      /\ Len(inflight'[BACK]) \in {Len(left[BACK]), Len(left[BACK]) + 1}
      /\ ListOK(sent, t) /\ \A s : s # BACK => SameEvents(rest, sent, s)
      /\ OneEvent(sent, BACK, inflight'[BACK])
  <2>1. CASE d.lost # {}
    <3>1. inflight' = left /\ sent = rest
      BY <1>1, <2>1
    <3>2. \A s : SameEvents(rest, rest, s)
      BY SameReflexive
    <3> HIDE DEF sent
    <3> QED
      BY <1>3, <1>5, <1>7, <1>8, <3>1, <3>2
  <2>2. CASE d.lost = {}
    <3>1. inflight' = Received(BACK, ack, left, t) /\ sent = Notified(BACK, left, rest, t)
      BY <1>1, <1>5, <2>2
    <3>2. /\ BACK = FORWARD => SegOK(ack, t)
          /\ BACK = BACK => AckOK(ack, t, c)
          /\ ListOK(rest, t)
      BY <1>2, <1>3, <1>5, <1>6 DEF Ids
    <3> HIDE DEF sent
    <3>3. LET f == Received(BACK, ack, left, t)
              o == Notified(BACK, left, rest, t)
          IN  /\ FlightOK(f, t, c) /\ \A j \in Pipes : j # BACK => f[j] = left[j]
              /\ Len(f[BACK]) = Len(left[BACK]) + 1
              /\ ListOK(o, t) /\ \A s : s # BACK => SameEvents(rest, o, s)
              /\ OneEvent(rest, BACK, left[BACK]) => OneEvent(o, BACK, f[BACK])
      BY ONLY <1>2, <1>5, <1>6, <1>7, <3>2, Enters
    <3>4. \A j \in Pipes : j # BACK => inflight'[j] = left[j]
      BY ONLY <3>1, <3>3
    <3> QED
      BY <1>2, <1>8, <3>1, <3>3, <3>4 DEF Ids
  <2> QED
    BY <2>1, <2>2
<1> HIDE DEF sent, out
<1>10. EntriesOf(sent, FORWARD) = {}
  <2>1. SameEvents(rest, sent, FORWARD)
    BY <1>2, <1>9 DEF Ids
  <2> QED
    BY <1>3, <2>1, SameKeeps, ZenonT(60)
<1>11. /\ ListOK(out, t) /\ \A s : s # FORWARD => SameEvents(sent, out, s)
       /\ OneEvent(out, FORWARD, left[FORWARD])
  <2>1. left[FORWARD] # <<>> => t <= Head(left[FORWARD]).when
    BY <1>3, <1>5
  <2>2. LET o == Rescheduled(FORWARD, left, sent)
        IN  /\ ListOK(o, t) /\ \A s : s # FORWARD => SameEvents(sent, o, s)
            /\ EntriesOf(sent, FORWARD) = {} => OneEvent(o, FORWARD, left[FORWARD])
    BY ONLY <1>2, <1>3, <1>5, <1>9, <2>1, RescheduledFacts
  <2> QED
    BY <1>10, <2>2 DEF out
<1>12. OneEvent(out, BACK, inflight'[BACK])
  <2>1. SameEvents(sent, out, BACK)
    BY <1>2, <1>11 DEF Ids
  <2> QED
    BY <1>9, <2>1, OneKept
<1>13. /\ SameEvents(pendingsources, out, SOURCE) /\ SameEvents(pendingsources, out, QUEUE)
  <2>1. /\ SameEvents(pendingsources, rest, SOURCE) /\ SameEvents(rest, sent, SOURCE)
        /\ SameEvents(sent, out, SOURCE)
        /\ SameEvents(pendingsources, rest, QUEUE) /\ SameEvents(rest, sent, QUEUE)
        /\ SameEvents(sent, out, QUEUE)
    BY <1>2, <1>3, <1>9, <1>11 DEF Ids
  <2> QED
    BY ONLY <2>1, SameTransitive, ZenonT(60)
<1>14. QueueEvent(out, enqueued)
  BY <1>4, <1>13, QueueKept
<1>15. disturbances' \in 0 .. MAX_DISTURBANCES
  BY <1>1, <1>4, DisturbFacts
<1>16. QueueOK(enqueued, t)
  BY <1>4, <1>5, QueueLater
<1>17. PathNext
  BY <1>1, <1>3, <1>5, <1>6, <1>9, <1>15, <1>16 DEF PathNext
<1>18. After(out)
  <2>1. \A i \in Pipes : OneEvent(out, i, inflight'[i])
    BY <1>2, <1>9, <1>11, <1>12
  <2> QED
    BY <1>1, <1>5, <1>11, <1>14, <2>1 DEF After, PathEvents
<1>19. left[BACK] = inflight[BACK]
  BY <1>2, <1>3 DEF Ids
<1> QED
  BY <1>1, <1>3, <1>9, <1>13, <1>17, <1>18, <1>19

-----------------------------------------------------------------------------
(* The initial states, and what a step has to establish.                   *)

StepOK ==
  /\ UNCHANGED endhost
  /\ PathNext /\ After(pendingsources')
  /\ cumulative_ack' \in Nat /\ received' \in Seq(Nat)
  /\ SourceType' /\ EndHostType' /\ FlowInv'
  /\ SourceChain(pendingsources', state', first_rto')

LEMMA StepInv ==
  ASSUME IInv, StepOK
  PROVE  IInv'
<1>1. endhost' = endhost /\ endhost \in {"TIMELY", "PKTPAIR"}
  BY DEF StepOK, IInv, TypeInv
<1>2. TypeInv' /\ FlowInv'
  BY <1>1 DEF StepOK, PathNext, Moment, TypeInv
<1>3. QueueOK(enqueued, now)'
  BY DEF StepOK, PathNext, QueueOK, SegOK
<1>4. FlightOK(inflight, now, cumulative_ack)'
  BY <1>1 DEF StepOK, PathNext, FlightOK, SegOK, AckOK, LineOK
<1>5. ListOK(pendingsources, now)'
  BY DEF StepOK, After, ListOK, NotBefore, InOrder
<1>6. PathEvents(pendingsources, inflight, enqueued)'
  BY DEF StepOK, After, PathEvents, OneEvent, QueueEvent, AtMostOne, EntriesOf
<1>7. SourceChain(pendingsources, state, first_rto)'
  BY <1>1 DEF StepOK, SourceChain, PairChain, StartChain, TimelyChain, AtMostOne, EntriesOf
<1> QED
  BY <1>2, <1>3, <1>4, <1>5, <1>6, <1>7 DEF IInv

LEMMA InitInv == Init => IInv
<1> SUFFICES ASSUME Init
             PROVE  IInv
  OBVIOUS
<1>1. /\ endhost \in {"TIMELY", "PKTPAIR"} /\ now = 0 /\ first_rto = 0 /\ state = "IDLE"
      /\ pendingsources = sourceIsPending(<<>>, SOURCE, 0)
      /\ enqueued = <<>> /\ inflight = [i \in Pipes |-> <<>>] /\ disturbances = 0
  BY RateFlowAssumption DEF Init, PathInit, SourceInit
<1>2. Pipes = {FORWARD, BACK} /\ SOURCE \in SOURCE .. QUEUE /\ Ids
  BY Sources
<1>3. TypeInv
  <2>1. MIN_GAP \in Nat /\ INIT_RTO \in Nat \ {0} /\ FOREVER \in Nat /\ MAX_DISTURBANCES \in Nat
    BY TimelyAssumption, RateSourceAssumption, TimedPathAssumption
  <2>2. SourceType
    BY <2>1 DEF Init, SourceInit, SourceType
  <2>3. EndHostType
    BY DEF Init, EndHostType
  <2> QED
    BY <1>1, <2>1, <2>2, <2>3 DEF Init, SinkInit, TypeInv
<1>4. inflight[FORWARD] = <<>> /\ inflight[BACK] = <<>>
  BY <1>1, <1>2
<1>5. FlowInv
  <2>1. MIN_GAP > 0 /\ FLOWSIZE > 0
    BY TimelyAssumption, RateSourceAssumption
  <2>2. ~ Active
    BY <1>1 DEF Active
  <2> QED
    BY <1>1, <1>4, <2>1, <2>2 DEF Init, SourceInit, FlowInv, PathEmpty, TimerSet
<1>6. QueueOK(enqueued, now)
  BY <1>1, TimedPathAssumption DEF QueueOK
<1>7. FlightOK(inflight, now, cumulative_ack)
  <2>1. inflight \in Flights
    BY <1>1 DEF Flights
  <2>2. \A i \in Pipes : LineOK(inflight[i], now + Delay[i])
    BY <1>1 DEF LineOK
  <2> QED
    BY <1>4, <2>1, <2>2 DEF FlightOK
<1> DEFINE none == <<>>
<1>8. ListOK(none, 0) /\ \A s : EntriesOf(none, s) = {}
  BY DEF ListOK, InOrder, NotBefore, EntriesOf
<1> HIDE DEF none
<1>9. /\ ListOK(pendingsources, 0) /\ \A s : s # SOURCE => SameEvents(none, pendingsources, s)
      /\ IF InTime(0) THEN Added(none, pendingsources, SOURCE, 0) ELSE pendingsources = none
  <2>1. 0 \in Nat /\ 0 <= 0 /\ pendingsources = sourceIsPending(none, SOURCE, 0)
    BY <1>1 DEF none
  <2> QED
    BY ONLY <1>2, <1>8, <2>1, PendingFacts
<1>10. \A s : s # SOURCE => EntriesOf(pendingsources, s) = {}
  BY <1>8, <1>9, SameKeeps, ZenonT(60)
<1>11. PathEvents(pendingsources, inflight, enqueued)
  BY <1>1, <1>2, <1>10 DEF PathEvents, OneEvent, QueueEvent, AtMostOne, Ids
<1>12. /\ AtMostOne(pendingsources, SOURCE)
       /\ InTime(0) => EntriesOf(pendingsources, SOURCE) # {}
  BY <1>8, <1>9, FirstIsOne, ZenonT(60)
<1>13. SourceChain(pendingsources, state, first_rto)
  <2>1. PairChain(pendingsources, first_rto)
    BY <1>12, OneIsPair
  <2> QED
    BY <1>1, <1>12, <2>1 DEF SourceChain, TimelyChain, StartChain, InTime
<1> QED
  BY <1>1, <1>3, <1>5, <1>6, <1>7, <1>9, <1>11, <1>13 DEF IInv

-----------------------------------------------------------------------------
(* What the sources send.                                                  *)

OutOK(out) == out \in Seq(Seg) /\ \A k \in 1 .. Len(out) : SegOK(out[k], now')

LEMMA SegmentOK ==
  ASSUME now' \in Nat, NEW s \in Nat, s <= FLOWSIZE, NEW f \in BOOLEAN
  PROVE  SegOK(Segment(s, f), now')
BY DEF SegOK, Segment, Seg

LEMMA OutFacts ==
  /\ OutOK(<<>>)
  /\ \A p : SegOK(p, now') => OutOK(<<p>>)
  /\ \A p, q : SegOK(p, now') /\ SegOK(q, now') => OutOK(<<p, q>>)
<1>1. OutOK(<<>>)
  BY DEF OutOK
<1>2. \A p : SegOK(p, now') => p \in Seg
  BY DEF SegOK
<1>3. ASSUME NEW p, SegOK(p, now')
      PROVE  OutOK(<<p>>)
  <2>1. <<p>> \in Seq(Seg) /\ \A k \in 1 .. Len(<<p>>) : <<p>>[k] = p
    BY <1>2, <1>3
  <2> QED
    BY <1>3, <2>1 DEF OutOK
<1>4. ASSUME NEW p, NEW q, SegOK(p, now'), SegOK(q, now')
      PROVE  OutOK(<<p, q>>)
  <2>1. <<p, q>> \in Seq(Seg) /\ \A k \in 1 .. Len(<<p, q>>) : <<p, q>>[k] \in {p, q}
    BY <1>2, <1>4
  <2> QED
    BY <1>4, <2>1 DEF OutOK
<1> QED
  BY <1>1, <1>3, <1>4

LEMMA OutConcat ==
  ASSUME NEW a, NEW b, OutOK(a), OutOK(b)
  PROVE  OutOK(a \o b) /\ (a = <<>> => a \o b = b) /\ (b = <<>> => a \o b = a)
<1> DEFINE m == Len(a)
           n == Len(b)
           c == a \o b
<1>1. a \in Seq(Seg) /\ b \in Seq(Seg) /\ m \in Nat /\ n \in Nat
  BY DEF OutOK
<1>2. /\ c \in Seq(Seg) /\ Len(c) = m + n
      /\ \A j \in 1 .. (m + n) : c[j] = IF j <= m THEN a[j] ELSE b[j - m]
  BY ONLY <1>1, ConcatProperties, ZenonT(60)
<1> HIDE DEF c
<1>3. ASSUME NEW j \in 1 .. Len(c)
      PROVE  SegOK(c[j], now')
  <2>1. CASE j <= m
    <3>1. j \in 1 .. m /\ c[j] = a[j]
      BY <1>1, <1>2, <2>1
    <3> QED
      BY <3>1 DEF OutOK
  <2>2. CASE ~ (j <= m)
    <3>1. j - m \in 1 .. n /\ c[j] = b[j - m]
      BY <1>1, <1>2, <2>2
    <3> QED
      BY <3>1 DEF OutOK
  <2> QED
    BY <2>1, <2>2
<1>4. OutOK(c)
  BY <1>2, <1>3 DEF OutOK
<1>5. (a = <<>> => a \o b = b) /\ (b = <<>> => a \o b = a)
  BY <1>1
<1> QED
  BY <1>4, <1>5 DEF c

(* Sent bytes are counted.                                                 *)
LEMMA SentBytes ==
  ASSUME NEW n \in Nat, NEW out, OutOK(out)
  PROVE  /\ n + MSS_BYTES * Len(out) \in Nat
         /\ out = <<>> => n + MSS_BYTES * Len(out) = n
<1>1. PICK mss \in Nat : mss = MSS_BYTES
  BY DataSinkAssumption
<1>2. PICK l \in Nat : l = Len(out) /\ (out = <<>> => l = 0)
  BY DEF OutOK
<1>3. mss * l \in Nat /\ (l = 0 => mss * l = 0)
  BY <1>1, <1>2
<1>4. PICK x \in Nat : x = mss * l
  BY <1>3
<1>5. n + x \in Nat /\ (x = 0 => n + x = n)
  BY <1>4
<1> QED
  BY <1>1, <1>2, <1>3, <1>4, <1>5

(* The timeout is set when something is sent.                              *)
LEMMA ArmedFacts ==
  ASSUME now' \in Nat, rto' \in Nat \ {0}, NEW timer \in Nat
  PROVE  Armed(timer) \in Nat /\ Armed(timer) # 0
<1>1. PICK t \in Nat : t = now'
  OBVIOUS
<1>2. PICK r \in Nat \ {0} : r = rto'
  OBVIOUS
<1>3. Armed(timer) = IF timer = 0 THEN t + r ELSE timer
  BY <1>1, <1>2 DEF Armed
<1> QED
  BY <1>3

(* The new segments.                                                       *)
LEMMA NextSegmentOK ==
  ASSUME now' \in Nat, NEW high \in Nat, NEW window, NEW dups
  PROVE  OutOK(NextSegment(high, window, dups))
<1>1. CASE high >= FLOWSIZE \/ (window # 0 /\ InFlight(high) >= TimelyLimit(window, dups))
  BY <1>1, OutFacts DEF NextSegment
<1>2. CASE ~ (high >= FLOWSIZE \/ (window # 0 /\ InFlight(high) >= TimelyLimit(window, dups)))
  <2>1. high + 1 \in Nat /\ high + 1 <= FLOWSIZE
    BY <1>2, RateSourceAssumption
  <2>2. SegOK(Segment(high + 1, FALSE), now')
    BY <2>1, SegmentOK
  <2>3. NextSegment(high, window, dups) = <<Segment(high + 1, FALSE)>>
    BY <1>2 DEF NextSegment
  <2> QED
    BY <2>2, <2>3, OutFacts
<1> QED
  BY <1>1, <1>2

LEMMA PairOK ==
  ASSUME now' \in Nat, NEW high \in Nat, NEW window, NEW dups
  PROVE  OutOK(Pair(high, window, dups))
<1> DEFINE closed == \/ high >= FLOWSIZE
                     \/ window # 0 /\ InFlight(high) > window + window \div 2 + dups * MSS_BYTES
           pair == Pair(high, window, dups)
           p == Segment(high + 1, TRUE)
           q == Segment(high + MSS_BYTES + 1, FALSE)
<1>1. pair = IF closed THEN <<>> ELSE IF high + MSS_BYTES >= FLOWSIZE THEN <<p>> ELSE <<p, q>>
  BY DEF Pair
<1>2. ~ closed => high < FLOWSIZE
  BY RateSourceAssumption
<1> HIDE DEF closed, pair, p, q
<1>3. CASE closed
  BY <1>1, <1>3, OutFacts DEF pair
<1>4. CASE ~ closed
  <2>1. high + 1 \in Nat /\ high + 1 <= FLOWSIZE
    BY <1>2, <1>4, RateSourceAssumption
  <2>2. SegOK(p, now')
    BY <2>1, SegmentOK DEF p
  <2>3. CASE high + MSS_BYTES >= FLOWSIZE
    BY <1>1, <1>4, <2>2, <2>3, OutFacts DEF pair
  <2>4. CASE ~ (high + MSS_BYTES >= FLOWSIZE)
    <3>1. high + MSS_BYTES + 1 \in Nat /\ high + MSS_BYTES + 1 <= FLOWSIZE
      BY <2>4, RateSourceAssumption, DataSinkAssumption
    <3>2. SegOK(q, now')
      BY <3>1, SegmentOK DEF q
    <3> QED
      BY <1>1, <1>4, <2>2, <2>4, <3>2, OutFacts DEF pair
  <2> QED
    BY <2>3, <2>4
<1> QED
  BY <1>3, <1>4

LEMMA LaterTime ==
  ASSUME now' \in Nat, NEW g \in Nat
  PROVE  now' + g \in Nat /\ now' <= now' + g /\ (g # 0 => now' + g # 0)
<1>1. PICK t \in Nat : t = now'
  OBVIOUS
<1>2. t + g \in Nat /\ t <= t + g /\ (g # 0 => t + g # 0)
  OBVIOUS
<1> QED
  BY <1>1, <1>2

(* A handler of TIMELY has sent out, and schedules the next event.         *)
LEMMA TimelySends ==
  ASSUME IInv, endhost = "TIMELY", NextEventOf(SOURCE), NEW d \in Disturbance,
         NEW again, OutOK(again), NEW high \in Nat, NEW timer \in Nat,
         SendAndReschedule(again, high, timer, d), rto' \in Nat \ {0}
  PROVE  /\ PathNext /\ After(pendingsources')
         /\ AtMostOne(pendingsources', SOURCE)
         /\ END_TIME = 0 => EntriesOf(pendingsources', SOURCE) # {}
         /\ highest_sent' \in Nat /\ rto_timeout' \in Nat /\ packets_sent' \in Nat
         /\ rto_timeout' # 0 \/ (highest_sent' = high /\ rto_timeout' = timer)
         /\ UNCHANGED <<inflight, cumulative_ack, received>>
<1> DEFINE new == NextSegment(high, bdp', dupacks')
           out == again \o new
           events == Served(out, d, Tail(pendingsources))
           wake == now' + gap
<1>1. /\ highest_sent' = high + MSS_BYTES * Len(new)
      /\ rto_timeout' = IF new = <<>> THEN timer ELSE Armed(timer)
      /\ Transmit(out, d) /\ packets_sent' = packets_sent + MSS_BYTES * Len(out)
      /\ pendingsources' = sourceIsPending(events, SOURCE, wake)
      /\ UNCHANGED <<inflight, sinkVars>>
  BY DEF SendAndReschedule, SendOut
<1>2. now' \in Nat
  BY Fires DEF Moment
<1>3. OutOK(new) /\ OutOK(out)
  <2>1. OutOK(new)
    BY <1>2, NextSegmentOK
  <2> HIDE DEF new
  <2> QED
    BY <2>1, OutConcat
<1> HIDE DEF new, out
<1>4. /\ PathNext /\ After(events)
      /\ Left(pendingsources, events, SOURCE)
      /\ 1 \in EntriesOf(pendingsources, SOURCE)
  BY <1>1, <1>3, SourceSends DEF OutOK
<1>5. packets_sent \in Nat /\ gap \in Nat /\ TimelyChain(pendingsources, state)
  BY DEF IInv, TypeInv, SourceType, SourceChain
<1> HIDE DEF events
<1>6. EntriesOf(events, SOURCE) = {}
  BY <1>4, <1>5, LeftOfOne DEF TimelyChain
<1>7. wake \in Nat /\ now' <= wake
  BY <1>2, <1>5, LaterTime
<1> HIDE DEF wake
<1>8. /\ After(pendingsources')
      /\ IF InTime(wake) THEN Added(events, pendingsources', SOURCE, wake) ELSE pendingsources' = events
  <2> DEFINE o == sourceIsPending(events, SOURCE, wake)
  <2>1. After(o) /\ IF InTime(wake) THEN Added(events, o, SOURCE, wake) ELSE o = events
    BY ONLY <1>2, <1>4, <1>7, SourceWakes
  <2>2. pendingsources' = o
    BY <1>1
  <2> HIDE DEF o
  <2> QED
    BY <2>1, <2>2
<1>9. /\ AtMostOne(pendingsources', SOURCE)
      /\ InTime(wake) => EntriesOf(pendingsources', SOURCE) # {}
  BY ONLY <1>6, <1>8, FirstIsOne
<1>10. highest_sent' \in Nat /\ packets_sent' \in Nat /\ (new = <<>> => highest_sent' = high)
  BY <1>1, <1>3, <1>5, SentBytes
<1>11. rto_timeout' \in Nat /\ (new # <<>> => rto_timeout' # 0)
  BY <1>1, <1>2, ArmedFacts
<1> QED
  BY <1>1, <1>4, <1>8, <1>9, <1>10, <1>11 DEF InTime, sinkVars

(* The segment that a timeout sends again.                                 *)
LEMMA AgainOK ==
  ASSUME IInv, now' \in Nat
  PROVE  OutOK(<<Segment(last_acked + 1, FALSE)>>) /\ last_acked + MSS_BYTES \in Nat
<1>1. last_acked + 1 \in Nat /\ last_acked + 1 <= FLOWSIZE /\ last_acked + MSS_BYTES \in Nat
  BY RateSourceAssumption, DataSinkAssumption DEF IInv, TypeInv, SourceType, FlowInv
<1> QED
  BY <1>1, SegmentOK, OutFacts

(* The timeout.                                                            *)
LEMMA TimeoutFacts ==
  ASSUME IInv, Timeout, now' \in Nat
  PROVE  /\ Active /\ state' = "NORMAL"
         /\ recover_seq' \in Nat /\ dupacks' \in Nat /\ dupacks' <= 65535
         /\ UNCHANGED <<last_acked, rtt, mdev, min_rtt>>
         /\ rto' \in Nat \ {0} /\ now' + rto' \in Nat /\ now' + rto' # 0
         /\ rto_timeout' = now' + rto'
<1>1. PICK r \in Nat \ {0} : r = rto
  BY DEF IInv, TypeInv, SourceType
<1>2. rto' = 2 * r /\ highest_sent \in Nat
  BY <1>1 DEF Timeout, IInv, TypeInv, SourceType
<1>3. PICK q \in Nat \ {0} : q = rto'
  BY <1>2
<1>4. now' + q \in Nat /\ now' + q # 0
  BY LaterTime
<1> QED
  BY <1>2, <1>3, <1>4 DEF Timeout, TimeoutDue

-----------------------------------------------------------------------------
(* The events of a TIMELY source.                                          *)

OfTimely == endhost = "TIMELY" /\ UNCHANGED <<endhost, estimateVars, pairVars>>

LEMMA TimelyEnd ==
  ASSUME IInv, OfTimely, PathNext, last_rtt_bytes' \in Nat
  PROVE  EndHostType'
<1>1. /\ now \in Nat /\ EndHostType
      /\ UNCHANGED <<first_rto, pktpair_ewma, pktpairdiff, first_pair_ts, first_pair_seqno>>
  BY DEF IInv, TypeInv, OfTimely, estimateVars, pairVars
<1>2. PICK t \in Nat : t = now' /\ now <= t
  BY DEF PathNext, Moment
<1>3. PICK f \in Nat : f = first_pair_ts /\ f <= now
  BY <1>1 DEF EndHostType
<1>4. f <= t
  BY <1>1, <1>2, <1>3
<1> QED
  BY <1>1, <1>2, <1>3, <1>4 DEF EndHostType

(* What the invariant says of the source.                                  *)
SourceNow ==
  /\ state \in {"IDLE", "STARTUP", "NORMAL", "RECOVERY", "FINISH", "DELETED"}
  /\ recover_seq \in Nat /\ dupacks \in Nat /\ dupacks <= 65535
  /\ highest_sent \in Nat /\ last_acked \in Nat /\ last_acked < FLOWSIZE
  /\ packets_sent \in Nat /\ bdp \in Nat /\ gap \in Nat
  /\ rtt \in Nat /\ mdev \in Nat /\ rto \in Nat \ {0} /\ min_rtt \in Nat
  /\ rto_timeout \in Nat
  /\ last_rtt_bytes \in Nat /\ first_rto \in Nat /\ pktpair_ewma \in Nat
  /\ endhost = "TIMELY" => gap > 0
  /\ Active /\ highest_sent # last_acked => rto_timeout # 0
  /\ now \in Nat /\ cumulative_ack \in Nat /\ received \in Seq(Nat)
  /\ state \in {"FINISH", "DELETED"} => cumulative_ack >= FLOWSIZE

LEMMA SourceFacts == IInv => SourceNow
<1> SUFFICES ASSUME IInv
             PROVE  SourceNow
  OBVIOUS
<1>1. /\ SourceType /\ EndHostType /\ FlowInv
      /\ now \in Nat /\ cumulative_ack \in Nat /\ received \in Seq(Nat)
  BY DEF IInv, TypeInv
<1>2. /\ last_acked < FLOWSIZE
      /\ state \in {"FINISH", "DELETED"} => cumulative_ack >= FLOWSIZE
      /\ endhost = "TIMELY" => gap > 0
      /\ Active /\ highest_sent # last_acked => rto_timeout # 0
  BY ONLY <1>1 DEF FlowInv, TimerSet
<1>3. last_rtt_bytes \in Nat /\ first_rto \in Nat /\ pktpair_ewma \in Nat
  BY ONLY <1>1 DEF EndHostType
<1>4. /\ state \in {"IDLE", "STARTUP", "NORMAL", "RECOVERY", "FINISH", "DELETED"}
      /\ recover_seq \in Nat /\ dupacks \in Nat /\ dupacks <= 65535
      /\ highest_sent \in Nat /\ last_acked \in Nat
      /\ packets_sent \in Nat /\ bdp \in Nat /\ gap \in Nat
      /\ rtt \in Nat /\ mdev \in Nat /\ rto \in Nat \ {0} /\ min_rtt \in Nat
      /\ rto_timeout \in Nat
  BY ONLY <1>1 DEF SourceType
<1> QED
  BY ONLY <1>1, <1>2, <1>3, <1>4 DEF SourceNow

(* The source goes on, with these types.                                   *)
GoesOn ==
  /\ state' \in {"STARTUP", "NORMAL", "RECOVERY"}
  /\ recover_seq' \in Nat /\ dupacks' \in Nat /\ dupacks' <= 65535
  /\ last_acked' \in Nat /\ last_acked' < FLOWSIZE
  /\ bdp' \in Nat /\ gap' \in Nat
  /\ rtt' \in Nat /\ mdev' \in Nat /\ rto' \in Nat \ {0} /\ min_rtt' \in Nat

(* Then this is left to show.                                              *)
LEMMA GoesOnFacts ==
  ASSUME GoesOn, highest_sent' \in Nat, packets_sent' \in Nat, rto_timeout' \in Nat,
         highest_sent' # last_acked' => rto_timeout' # 0,
         endhost' = "TIMELY" => gap' > 0
  PROVE  SourceType' /\ FlowInv'
<1>1. SourceType'
  BY DEF GoesOn, SourceType
<1>2. TimerSet'
  BY DEF TimerSet
<1>3. /\ last_acked' < FLOWSIZE
      /\ state' \notin {"FINISH", "DELETED"} /\ state' \notin {"IDLE", "DELETED"}
  BY DEF GoesOn
<1> QED
  BY <1>1, <1>2, <1>3 DEF FlowInv

(* What is left to show of a handler that has sent, in an active state.    *)
LEMMA TimelySent ==
  ASSUME IInv, OfTimely, NextEventOf(SOURCE), NEW d \in Disturbance,
         NEW again, OutOK(again), NEW high \in Nat, NEW timer \in Nat,
         SendAndReschedule(again, high, timer, d),
         GoesOn, gap' = gap, last_rtt_bytes' \in Nat, high # last_acked' => timer # 0
  PROVE  StepOK
<1>1. endhost = "TIMELY" /\ endhost' = endhost
  BY DEF OfTimely
<1>2. rto' \in Nat \ {0} /\ state' # "DELETED"
  BY DEF GoesOn
<1>3. /\ PathNext /\ After(pendingsources')
      /\ AtMostOne(pendingsources', SOURCE)
      /\ END_TIME = 0 => EntriesOf(pendingsources', SOURCE) # {}
      /\ highest_sent' \in Nat /\ rto_timeout' \in Nat /\ packets_sent' \in Nat
      /\ rto_timeout' # 0 \/ (highest_sent' = high /\ rto_timeout' = timer)
      /\ UNCHANGED <<inflight, cumulative_ack, received>>
  BY ONLY <1>1, <1>2, IInv, NextEventOf(SOURCE), d \in Disturbance, OutOK(again), high \in Nat,
     timer \in Nat, SendAndReschedule(again, high, timer, d), TimelySends
<1>4. gap > 0 /\ cumulative_ack \in Nat /\ received \in Seq(Nat)
  BY <1>1, SourceFacts DEF SourceNow
<1>5. SourceType' /\ FlowInv'
  BY <1>3, <1>4, GoesOnFacts
<1>6. EndHostType'
  BY <1>3, TimelyEnd
<1>7. SourceChain(pendingsources', state', first_rto')
  BY <1>1, <1>2, <1>3 DEF SourceChain, TimelyChain
<1> QED
  BY <1>1, <1>3, <1>4, <1>5, <1>6, <1>7 DEF StepOK

LEMMA TimelyStartInv ==
  ASSUME IInv, OfTimely, NEW d \in Disturbance, TimelyStart(d)
  PROVE  StepOK
<1>1. /\ NextEventOf(SOURCE) /\ state' = "NORMAL" /\ bdp' = INIT_BDP /\ last_acked' = 0
      /\ recover_seq' = recover_seq /\ dupacks' = dupacks /\ gap' = gap
      /\ rtt' = rtt /\ mdev' = mdev /\ rto' = rto /\ min_rtt' = min_rtt
      /\ last_rtt_bytes' = last_rtt_bytes
      /\ SendAndReschedule(<<>>, 0, rto_timeout, d)
  BY DEF TimelyStart, rttVars
<1>2. INIT_BDP \in Nat /\ FLOWSIZE \in Nat /\ 0 < FLOWSIZE /\ 0 \in Nat
  BY TimelyAssumption, RateSourceAssumption
<1>3. GoesOn /\ last_rtt_bytes' \in Nat /\ rto_timeout \in Nat
  <2>1. SourceNow
    BY SourceFacts
  <2> QED
    BY ONLY <1>1, <1>2, <2>1 DEF GoesOn, SourceNow
<1>4. OutOK(<<>>) /\ (0 # last_acked' => rto_timeout # 0) /\ gap' = gap
  BY <1>1, OutFacts
<1> QED
  BY ONLY <1>1, <1>2, <1>3, <1>4, IInv, OfTimely, d \in Disturbance, TimelySent, ZenonT(60)

LEMMA TimelyTimeoutInv ==
  ASSUME IInv, OfTimely, NEW d \in Disturbance, TimelyTimeout(d)
  PROVE  StepOK
<1> DEFINE again == <<Segment(last_acked + 1, FALSE)>>
           high == last_acked + MSS_BYTES
           timer == now' + rto'
<1>1. /\ NextEventOf(SOURCE) /\ Timeout /\ UNCHANGED <<bdp, gap, last_rtt_bytes>>
      /\ SendAndReschedule(again, high, timer, d)
  BY DEF TimelyTimeout
<1>2. now' \in Nat
  BY <1>1, Fires DEF Moment
<1>3. OutOK(again) /\ high \in Nat
  BY <1>2, AgainOK
<1>4. /\ state' = "NORMAL" /\ recover_seq' \in Nat /\ dupacks' \in Nat /\ dupacks' <= 65535
      /\ last_acked' = last_acked /\ rtt' = rtt /\ mdev' = mdev /\ min_rtt' = min_rtt
      /\ rto' \in Nat \ {0} /\ timer \in Nat /\ timer # 0
  <2> HIDE DEF again, high
  <2>1. Timeout
    BY <1>1
  <2>2. /\ state' = "NORMAL"
        /\ recover_seq' \in Nat /\ dupacks' \in Nat /\ dupacks' <= 65535
        /\ UNCHANGED <<last_acked, rtt, mdev, min_rtt>>
        /\ rto' \in Nat \ {0} /\ now' + rto' \in Nat /\ now' + rto' # 0
    BY ONLY <1>2, <2>1, IInv, TimeoutFacts
  <2> QED
    BY ONLY <2>2
<1> HIDE DEF again, high, timer
<1>5. GoesOn /\ gap' = gap /\ last_rtt_bytes' \in Nat /\ (high # last_acked' => timer # 0)
  <2>1. SourceNow /\ bdp' = bdp /\ gap' = gap /\ last_rtt_bytes' = last_rtt_bytes
    BY <1>1, SourceFacts
  <2> QED
    BY ONLY <1>4, <2>1 DEF GoesOn, SourceNow
<1> QED
  BY ONLY <1>1, <1>3, <1>4, <1>5, IInv, OfTimely, d \in Disturbance, TimelySent

LEMMA TimelyPaceInv ==
  ASSUME IInv, OfTimely, NEW d \in Disturbance, TimelyPace(d)
  PROVE  StepOK
<1>1. /\ NextEventOf(SOURCE) /\ Active
      /\ state' = state /\ recover_seq' = recover_seq /\ dupacks' = dupacks
      /\ last_acked' = last_acked /\ bdp' = bdp /\ gap' = gap
      /\ rtt' = rtt /\ mdev' = mdev /\ rto' = rto /\ min_rtt' = min_rtt
      /\ last_rtt_bytes' = last_rtt_bytes
      /\ SendAndReschedule(<<>>, highest_sent, rto_timeout, d)
  BY DEF TimelyPace, rttVars
<1>2. /\ GoesOn /\ gap' = gap /\ last_rtt_bytes' \in Nat
      /\ highest_sent \in Nat /\ rto_timeout \in Nat
      /\ highest_sent # last_acked' => rto_timeout # 0
  <2>1. SourceNow
    BY SourceFacts
  <2> QED
    BY ONLY <1>1, <2>1 DEF GoesOn, SourceNow, Active
<1>3. OutOK(<<>>)
  BY OutFacts
<1> QED
  BY ONLY <1>1, <1>2, <1>3, IInv, OfTimely, d \in Disturbance, TimelySent, ZenonT(60)

(* Nothing of the flow is left.                                            *)
LEMMA NothingLeft ==
  ASSUME IInv, nPackets = 0
  PROVE  PathEmpty
<1>1. enqueued \in Seq(Seg) /\ inflight[FORWARD] \in Seq(Slot) /\ inflight[BACK] \in Seq(Slot)
  BY Sources DEF IInv, QueueOK, FlightOK, Flights
<1>2. Len(enqueued) + Len(inflight[FORWARD]) + Len(inflight[BACK]) = 0
  BY DEF nPackets
<1>3. Len(enqueued) = 0 /\ Len(inflight[FORWARD]) = 0 /\ Len(inflight[BACK]) = 0
  <2>1. Len(enqueued) \in Nat /\ Len(inflight[FORWARD]) \in Nat /\ Len(inflight[BACK]) \in Nat
    BY <1>1
  <2>2. PICK a \in Nat, b \in Nat, c \in Nat :
          a = Len(enqueued) /\ b = Len(inflight[FORWARD]) /\ c = Len(inflight[BACK])
    BY <2>1
  <2>3. a + b + c = 0
    BY <1>2, <2>2
  <2>4. a = 0 /\ b = 0 /\ c = 0
    BY ONLY <2>3, a \in Nat, b \in Nat, c \in Nat
  <2> QED
    BY <2>2, <2>4
<1> QED
  BY ONLY <1>1, <1>3 DEF PathEmpty

(* A finished source waits for its packets or is deleted.                  *)
LEMMA FinishFacts ==
  ASSUME IInv, state = "FINISH", state' \in {"FINISH", "DELETED"},
         UNCHANGED <<ackVars, packets_sent, bdp, gap, rttVars, rto_timeout>>,
         state' = "DELETED" => PathEmpty',
         cumulative_ack' = cumulative_ack, endhost' = endhost
  PROVE  SourceType' /\ FlowInv'
<1>1. /\ last_acked < FLOWSIZE /\ cumulative_ack >= FLOWSIZE /\ (endhost = "TIMELY" => gap > 0)
      /\ SourceNow
  BY SourceFacts DEF SourceNow
<1>2. /\ recover_seq' = recover_seq /\ dupacks' = dupacks
      /\ highest_sent' = highest_sent /\ last_acked' = last_acked
      /\ packets_sent' = packets_sent /\ bdp' = bdp /\ gap' = gap
      /\ rtt' = rtt /\ mdev' = mdev /\ rto' = rto /\ min_rtt' = min_rtt
      /\ rto_timeout' = rto_timeout
  BY DEF ackVars, rttVars
<1>3. SourceType'
  BY ONLY <1>1, <1>2, state' \in {"FINISH", "DELETED"} DEF SourceType, SourceNow
<1>4. TimerSet'
  BY DEF TimerSet, Active
<1> QED
  BY <1>1, <1>2, <1>3, <1>4 DEF FlowInv

LEMMA TimelyQuiet ==
  ASSUME IInv, OfTimely, NextEventOf(SOURCE), UNCHANGED <<pathVars, sinkVars, last_rtt_bytes>>,
         state = "FINISH",
         UNCHANGED <<ackVars, packets_sent, bdp, gap, rttVars, rto_timeout>>,
         \/ state' = "FINISH" /\ pendingsources' = sourceIsPending(Tail(pendingsources), SOURCE, now' + gap)
         \/ state' = "DELETED" /\ nPackets = 0 /\ pendingsources' = Tail(pendingsources)
  PROVE  StepOK
<1> DEFINE rest == Tail(pendingsources)
           wake == now' + gap
<1>1. endhost = "TIMELY" /\ endhost' = endhost
  BY DEF OfTimely
<1>2. /\ PathNext /\ After(rest) /\ Left(pendingsources, rest, SOURCE)
      /\ 1 \in EntriesOf(pendingsources, SOURCE)
  BY SourceStays
<1>3. EntriesOf(rest, SOURCE) = {}
  <2>1. AtMostOne(pendingsources, SOURCE)
    BY <1>1 DEF IInv, SourceChain, TimelyChain
  <2> HIDE DEF rest
  <2> QED
    BY ONLY <1>2, <2>1, LeftOfOne
<1>4. gap \in Nat /\ cumulative_ack \in Nat /\ received \in Seq(Nat) /\ last_rtt_bytes \in Nat
  BY SourceFacts DEF SourceNow
<1>5. now' \in Nat /\ wake \in Nat /\ now' <= wake
  BY <1>2, <1>4, LaterTime DEF PathNext, Moment
<1>6. /\ cumulative_ack' = cumulative_ack /\ received' = received /\ last_rtt_bytes' = last_rtt_bytes
      /\ (PathEmpty => PathEmpty')
  BY DEF pathVars, sinkVars, PathEmpty
<1>7. SourceType' /\ FlowInv'
  <2>1. state' \in {"FINISH", "DELETED"} /\ (state' = "DELETED" => PathEmpty')
    BY <1>6, NothingLeft
  <2> QED
    BY ONLY <1>1, <1>6, <2>1, IInv, state = "FINISH",
       UNCHANGED <<ackVars, packets_sent, bdp, gap, rttVars, rto_timeout>>, FinishFacts, ZenonT(60)
<1>8. EndHostType'
  BY <1>2, <1>4, <1>6, TimelyEnd
<1> HIDE DEF rest, wake
<1>9. After(pendingsources') /\ SourceChain(pendingsources', state', first_rto')
  <2>1. CASE state' = "DELETED" /\ pendingsources' = rest
    BY <1>1, <1>2, <1>3, <2>1 DEF SourceChain, TimelyChain, AtMostOne
  <2>2. CASE state' = "FINISH" /\ pendingsources' = sourceIsPending(rest, SOURCE, wake)
    <3> DEFINE o == sourceIsPending(rest, SOURCE, wake)
    <3>1. After(o) /\ IF InTime(wake) THEN Added(rest, o, SOURCE, wake) ELSE o = rest
      BY ONLY <1>2, <1>5, SourceWakes
    <3>2. pendingsources' = o
      BY <2>2
    <3> HIDE DEF o
    <3>3. AtMostOne(o, SOURCE) /\ (InTime(wake) => EntriesOf(o, SOURCE) # {})
      BY ONLY <1>3, <3>1, FirstIsOne
    <3> QED
      BY <1>1, <2>2, <3>1, <3>2, <3>3 DEF SourceChain, TimelyChain, InTime
  <2> QED
    BY <2>1, <2>2 DEF rest, wake
<1> QED
  BY <1>1, <1>2, <1>4, <1>6, <1>7, <1>8, <1>9 DEF StepOK

LEMMA TimelyCleanUpInv ==
  ASSUME IInv, OfTimely, TimelyCleanUp
  PROVE  StepOK
BY TimelyQuiet DEF TimelyCleanUp

LEMMA TimelyDrainInv ==
  ASSUME IInv, OfTimely, TimelyDrain
  PROVE  StepOK
BY TimelyQuiet DEF TimelyDrain, sourceVars

-----------------------------------------------------------------------------
(* The events of a packet-pair source.                                     *)

OfPair == endhost = "PKTPAIR" /\ endhost' = endhost /\ last_rtt_bytes' = last_rtt_bytes

LEMMA PairEnd ==
  ASSUME IInv, OfPair, PathNext, first_rto' \in Nat, pktpair_ewma' \in Nat, UNCHANGED pairVars
  PROVE  EndHostType'
<1>1. /\ now \in Nat /\ EndHostType /\ last_rtt_bytes' = last_rtt_bytes
      /\ pktpairdiff' = pktpairdiff /\ first_pair_ts' = first_pair_ts
      /\ first_pair_seqno' = first_pair_seqno
  BY DEF IInv, TypeInv, OfPair, pairVars
<1>2. PICK t \in Nat : t = now' /\ now <= t
  BY DEF PathNext, Moment
<1>3. PICK f \in Nat : f = first_pair_ts /\ f <= now
  BY <1>1 DEF EndHostType
<1>4. f <= t
  BY <1>1, <1>2, <1>3
<1> QED
  BY <1>1, <1>2, <1>3, <1>4 DEF EndHostType

(* What is left of its chain when an event fires.                          *)
LEMMA PairLeft ==
  ASSUME IInv, endhost = "PKTPAIR", NEW events, Left(pendingsources, events, SOURCE),
         1 \in EntriesOf(pendingsources, SOURCE), pendingsources[1].when = now'
  PROVE  /\ AtMostOne(events, SOURCE)
         /\ now' # first_rto => \A k \in EntriesOf(events, SOURCE) : events[k].when = first_rto
         /\ state \in {"IDLE", "STARTUP"} => EntriesOf(events, SOURCE) = {}
         /\ state = "STARTUP" => now' = first_rto
         /\ state # "DELETED"
<1>1. /\ PairChain(pendingsources, first_rto)
      /\ state \in {"IDLE", "STARTUP"} => StartChain(pendingsources, state, first_rto)
      /\ state # "DELETED"
  BY DEF IInv, SourceChain
<1>2. /\ AtMostOne(events, SOURCE)
      /\ pendingsources[1].when # first_rto =>
           \A k \in EntriesOf(events, SOURCE) : events[k].when = first_rto
  BY <1>1, LeftOfPair
<1>3. state \in {"IDLE", "STARTUP"} => EntriesOf(events, SOURCE) = {}
  BY <1>1, LeftOfOne DEF StartChain
<1> QED
  BY <1>1, <1>2, <1>3 DEF StartChain

(* The event that its handler adds makes it a chain again.                 *)
LEMMA PairAgain ==
  ASSUME NEW events, AtMostOne(events, SOURCE), NEW first,
         \A k \in EntriesOf(events, SOURCE) : events[k].when = first,
         NEW out, NEW wake,
         IF InTime(wake) THEN Added(events, out, SOURCE, wake) ELSE out = events
  PROVE  PairChain(out, first)
<1>1. CASE InTime(wake)
  BY <1>1, SecondIsPair
<1>2. CASE ~ InTime(wake)
  BY <1>2, OneIsPair
<1> QED
  BY <1>1, <1>2

LEMMA PairSends ==
  ASSUME IInv, NextEventOf(SOURCE), NEW d \in Disturbance,
         NEW again, OutOK(again), NEW pair, OutOK(pair),
         NEW high \in Nat, NEW timer \in Nat, NEW wake \in Nat, now' <= wake,
         SendPairAndReschedule(again, pair, high, timer, wake, d), rto' \in Nat \ {0}
  PROVE  /\ PathNext /\ After(pendingsources')
         /\ \E events :
              /\ Left(pendingsources, events, SOURCE)
              /\ IF InTime(wake) THEN Added(events, pendingsources', SOURCE, wake)
                 ELSE pendingsources' = events
         /\ 1 \in EntriesOf(pendingsources, SOURCE) /\ pendingsources[1].when = now'
         /\ highest_sent' \in Nat /\ rto_timeout' \in Nat /\ packets_sent' \in Nat
         /\ rto_timeout' # 0 \/ (highest_sent' = high /\ rto_timeout' = timer)
         /\ cumulative_ack' = cumulative_ack /\ received' = received /\ UNCHANGED pairVars
<1> DEFINE out == again \o pair
           events == Served(out, d, Tail(pendingsources))
<1>1. /\ highest_sent' = high + MSS_BYTES * Len(pair)
      /\ rto_timeout' = IF pair = <<>> THEN timer ELSE Armed(timer)
      /\ Transmit(out, d) /\ packets_sent' = packets_sent + MSS_BYTES * Len(out)
      /\ pendingsources' = sourceIsPending(events, SOURCE, wake)
      /\ UNCHANGED <<inflight, sinkVars>>
      /\ UNCHANGED pairVars
  BY DEF SendPairAndReschedule, SendOut
<1>2. now' \in Nat
  BY Fires DEF Moment
<1>3. OutOK(out)
  BY OutConcat
<1> HIDE DEF out
<1>4. /\ PathNext /\ After(events)
      /\ Left(pendingsources, events, SOURCE)
      /\ 1 \in EntriesOf(pendingsources, SOURCE) /\ pendingsources[1].when = now'
  BY <1>1, <1>3, SourceSends DEF OutOK
<1>5. packets_sent \in Nat
  BY SourceFacts DEF SourceNow
<1> HIDE DEF events
<1>6. /\ After(pendingsources')
      /\ IF InTime(wake) THEN Added(events, pendingsources', SOURCE, wake) ELSE pendingsources' = events
  <2> DEFINE o == sourceIsPending(events, SOURCE, wake)
  <2>1. After(o) /\ IF InTime(wake) THEN Added(events, o, SOURCE, wake) ELSE o = events
    BY ONLY <1>2, <1>4, wake \in Nat, now' <= wake, SourceWakes
  <2>2. pendingsources' = o
    BY <1>1
  <2> HIDE DEF o
  <2> QED
    BY <2>1, <2>2
<1>7. highest_sent' \in Nat /\ packets_sent' \in Nat /\ (pair = <<>> => highest_sent' = high)
  BY <1>1, <1>3, <1>5, SentBytes
<1>8. rto_timeout' \in Nat /\ (pair # <<>> => rto_timeout' # 0)
  BY <1>1, <1>2, ArmedFacts
<1>9. cumulative_ack' = cumulative_ack /\ received' = received
  BY <1>1 DEF sinkVars
<1> QED
  BY <1>1, <1>4, <1>6, <1>7, <1>8, <1>9

(* What is left to show of a handler that has sent.                        *)
LEMMA PairSent ==
  ASSUME IInv, OfPair, NextEventOf(SOURCE), NEW d \in Disturbance,
         NEW again, OutOK(again), NEW pair, OutOK(pair),
         NEW high \in Nat, NEW timer \in Nat, NEW wake \in Nat, now' <= wake,
         SendPairAndReschedule(again, pair, high, timer, wake, d),
         GoesOn, pktpair_ewma' = pktpair_ewma, high # last_acked' => timer # 0,
         \/ state \in {"IDLE", "STARTUP"} /\ first_rto' = wake
         \/ state' # "STARTUP" /\ first_rto' = first_rto /\ now' # first_rto
  PROVE  StepOK
<1>1. endhost = "PKTPAIR" /\ endhost' = endhost
  BY DEF OfPair
<1>2. rto' \in Nat \ {0} /\ state' \notin {"IDLE", "DELETED"}
  BY DEF GoesOn
<1>3. /\ PathNext /\ After(pendingsources')
      /\ \E events :
           /\ Left(pendingsources, events, SOURCE)
           /\ IF InTime(wake) THEN Added(events, pendingsources', SOURCE, wake)
              ELSE pendingsources' = events
      /\ 1 \in EntriesOf(pendingsources, SOURCE) /\ pendingsources[1].when = now'
      /\ highest_sent' \in Nat /\ rto_timeout' \in Nat /\ packets_sent' \in Nat
      /\ rto_timeout' # 0 \/ (highest_sent' = high /\ rto_timeout' = timer)
      /\ cumulative_ack' = cumulative_ack /\ received' = received /\ UNCHANGED pairVars
  BY ONLY <1>2, IInv, NextEventOf(SOURCE), d \in Disturbance, OutOK(again), OutOK(pair),
     high \in Nat, timer \in Nat, wake \in Nat, now' <= wake,
     SendPairAndReschedule(again, pair, high, timer, wake, d), PairSends
<1>4. /\ cumulative_ack \in Nat /\ received \in Seq(Nat)
      /\ first_rto \in Nat /\ pktpair_ewma \in Nat
  BY SourceFacts DEF SourceNow
<1>5. SourceType' /\ FlowInv'
  BY <1>1, <1>3, GoesOnFacts
<1>6. EndHostType'
  <2>1. first_rto' \in Nat /\ pktpair_ewma' \in Nat
    BY <1>4
  <2> QED
    BY <1>3, <2>1, PairEnd
<1>7. SourceChain(pendingsources', state', first_rto')
  <2>1. PICK events : /\ Left(pendingsources, events, SOURCE)
                      /\ IF InTime(wake) THEN Added(events, pendingsources', SOURCE, wake)
                         ELSE pendingsources' = events
    BY <1>3
  <2>2. /\ AtMostOne(events, SOURCE)
        /\ now' # first_rto => \A k \in EntriesOf(events, SOURCE) : events[k].when = first_rto
        /\ state \in {"IDLE", "STARTUP"} => EntriesOf(events, SOURCE) = {}
    BY ONLY <1>1, <1>3, <2>1, IInv, PairLeft
  <2>3. CASE state \in {"IDLE", "STARTUP"} /\ first_rto' = wake
    <3>1. /\ AtMostOne(pendingsources', SOURCE)
          /\ \A k \in EntriesOf(pendingsources', SOURCE) : pendingsources'[k].when = wake
      BY ONLY <2>1, <2>2, <2>3, FirstIsOne
    <3>2. PairChain(pendingsources', first_rto')
      BY ONLY <3>1, OneIsPair
    <3>3. ASSUME END_TIME = 0
          PROVE  EntriesOf(pendingsources', SOURCE) # {}
      <4>1. Added(events, pendingsources', SOURCE, wake)
        BY ONLY <2>1, <3>3 DEF InTime
      <4> QED
        BY ONLY <4>1 DEF Added
    <3> QED
      BY <1>1, <1>2, <2>3, <3>1, <3>2, <3>3 DEF SourceChain, StartChain
  <2>4. CASE state' # "STARTUP" /\ first_rto' = first_rto /\ now' # first_rto
    <3>1. PairChain(pendingsources', first_rto)
      BY ONLY <2>1, <2>2, <2>4, PairAgain
    <3> QED
      BY <1>1, <1>2, <2>4, <3>1 DEF SourceChain
  <2> QED
    BY <2>3, <2>4
<1> QED
  BY <1>1, <1>3, <1>4, <1>5, <1>6, <1>7 DEF StepOK

(* The first pair.                                                         *)
LEMMA FirstPairOK ==
  ASSUME now' \in Nat
  PROVE  OutOK(IF FLOWSIZE > MSS_BYTES THEN <<Segment(1, TRUE), Segment(MSS_BYTES + 1, FALSE)>>
               ELSE <<Segment(1, TRUE)>>)
<1>1. FLOWSIZE \in Nat /\ 1 \in Nat /\ 1 <= FLOWSIZE /\ MSS_BYTES \in Nat
  BY RateSourceAssumption, DataSinkAssumption
<1>2. SegOK(Segment(1, TRUE), now')
  BY <1>1, SegmentOK
<1>3. CASE FLOWSIZE > MSS_BYTES
  <2>1. MSS_BYTES + 1 \in Nat /\ MSS_BYTES + 1 <= FLOWSIZE
    BY <1>1, <1>3
  <2>2. SegOK(Segment(MSS_BYTES + 1, FALSE), now')
    BY <2>1, SegmentOK
  <2> QED
    BY <1>2, <1>3, <2>2, OutFacts
<1>4. CASE ~ (FLOWSIZE > MSS_BYTES)
  BY <1>2, <1>4, OutFacts
<1> QED
  BY <1>3, <1>4

LEMMA PacketPairStartInv ==
  ASSUME IInv, OfPair, NEW d \in Disturbance, PacketPairStart(d)
  PROVE  StepOK
<1> DEFINE none == <<>>
           pair == IF FLOWSIZE > MSS_BYTES THEN <<Segment(1, TRUE), Segment(MSS_BYTES + 1, FALSE)>>
                   ELSE <<Segment(1, TRUE)>>
           wake == now' + rto
<1>1. /\ NextEventOf(SOURCE) /\ state \in {"IDLE", "STARTUP"} /\ state' = "STARTUP"
      /\ last_acked' = 0 /\ bdp' = 2 * MSS_BYTES /\ first_rto' = wake
      /\ recover_seq' = recover_seq /\ dupacks' = dupacks /\ gap' = gap
      /\ rtt' = rtt /\ mdev' = mdev /\ rto' = rto /\ min_rtt' = min_rtt
      /\ pktpair_ewma' = pktpair_ewma
      /\ SendPairAndReschedule(none, pair, 0, rto_timeout, wake, d)
  BY DEF PacketPairStart, Restarts, rttVars
<1>2. now' \in Nat
  BY <1>1, Fires DEF Moment
<1>3. OutOK(none) /\ OutOK(pair)
  BY <1>2, OutFacts, FirstPairOK
<1>4. SourceNow
  BY SourceFacts
<1>5. wake \in Nat /\ now' <= wake
  <2>1. rto \in Nat
    BY <1>4 DEF SourceNow
  <2> QED
    BY <1>2, <2>1, LaterTime
<1> HIDE DEF none, pair, wake
<1>6. GoesOn
  <2>1. FLOWSIZE \in Nat /\ 0 < FLOWSIZE /\ 2 * MSS_BYTES \in Nat
    BY RateSourceAssumption, DataSinkAssumption
  <2> QED
    BY ONLY <1>1, <1>4, <2>1 DEF GoesOn, SourceNow
<1>7. 0 \in Nat /\ rto_timeout \in Nat /\ (0 # last_acked' => rto_timeout # 0)
  BY <1>1, <1>4 DEF SourceNow
<1> QED
  BY ONLY <1>1, <1>3, <1>5, <1>6, <1>7, IInv, OfPair, d \in Disturbance, PairSent

LEMMA PacketPairTimeoutInv ==
  ASSUME IInv, OfPair, NEW d \in Disturbance, PacketPairTimeout(d)
  PROVE  StepOK
<1> DEFINE again == <<Segment(last_acked + 1, FALSE)>>
           high == last_acked + MSS_BYTES
           pair == Pair(high, bdp, 0)
           timer == now' + rto'
           wake == now' + gap
<1>1. /\ NextEventOf(SOURCE) /\ Timeout /\ now' # first_rto
      /\ bdp' = bdp /\ gap' = gap /\ first_rto' = first_rto /\ pktpair_ewma' = pktpair_ewma
      /\ SendPairAndReschedule(again, pair, high, timer, wake, d)
  BY DEF PacketPairTimeout, estimateVars
<1>2. now' \in Nat
  BY <1>1, Fires DEF Moment
<1>3. OutOK(again) /\ high \in Nat
  BY <1>2, AgainOK
<1>4. OutOK(pair)
  <2> HIDE DEF high
  <2> QED
    BY <1>2, <1>3, PairOK
<1>5. SourceNow
  BY SourceFacts
<1>6. wake \in Nat /\ now' <= wake
  <2>1. gap \in Nat
    BY <1>5 DEF SourceNow
  <2> QED
    BY <1>2, <2>1, LaterTime
<1> HIDE DEF again, high, pair, wake
<1>7. /\ state' = "NORMAL" /\ recover_seq' \in Nat /\ dupacks' \in Nat /\ dupacks' <= 65535
      /\ last_acked' = last_acked /\ rtt' = rtt /\ mdev' = mdev /\ min_rtt' = min_rtt
      /\ rto' \in Nat \ {0} /\ timer \in Nat /\ timer # 0
  <2>1. Timeout
    BY <1>1
  <2>2. /\ state' = "NORMAL"
        /\ recover_seq' \in Nat /\ dupacks' \in Nat /\ dupacks' <= 65535
        /\ UNCHANGED <<last_acked, rtt, mdev, min_rtt>>
        /\ rto' \in Nat \ {0} /\ now' + rto' \in Nat /\ now' + rto' # 0
    BY ONLY <1>2, <2>1, IInv, TimeoutFacts
  <2> QED
    BY ONLY <2>2
<1> HIDE DEF timer
<1>8. GoesOn
  BY ONLY <1>1, <1>5, <1>7 DEF GoesOn, SourceNow
<1>9. (high # last_acked' => timer # 0) /\ state' # "STARTUP"
  BY <1>7
<1> QED
  BY ONLY <1>1, <1>3, <1>4, <1>6, <1>7, <1>8, <1>9, IInv, OfPair, d \in Disturbance, PairSent

LEMMA PacketPairPaceInv ==
  ASSUME IInv, OfPair, NEW d \in Disturbance, PacketPairPace(d)
  PROVE  StepOK
<1> DEFINE none == <<>>
           pair == Pair(highest_sent, bdp, dupacks)
           wake == now' + gap
<1>1. /\ NextEventOf(SOURCE) /\ Active /\ now' # first_rto
      /\ state' = state /\ recover_seq' = recover_seq /\ dupacks' = dupacks
      /\ last_acked' = last_acked /\ bdp' = bdp /\ gap' = gap
      /\ rtt' = rtt /\ mdev' = mdev /\ rto' = rto /\ min_rtt' = min_rtt
      /\ first_rto' = first_rto /\ pktpair_ewma' = pktpair_ewma
      /\ SendPairAndReschedule(none, pair, highest_sent, rto_timeout, wake, d)
  BY DEF PacketPairPace, rttVars, estimateVars
<1>2. now' \in Nat
  BY <1>1, Fires DEF Moment
<1>3. SourceNow
  BY SourceFacts
<1>4. OutOK(none) /\ OutOK(pair)
  <2>1. highest_sent \in Nat
    BY <1>3 DEF SourceNow
  <2> QED
    BY <1>2, <2>1, OutFacts, PairOK
<1>5. wake \in Nat /\ now' <= wake
  <2>1. gap \in Nat
    BY <1>3 DEF SourceNow
  <2> QED
    BY <1>2, <2>1, LaterTime
<1> HIDE DEF none, pair, wake
<1>6. /\ GoesOn /\ highest_sent \in Nat /\ rto_timeout \in Nat
      /\ highest_sent # last_acked' => rto_timeout # 0
  BY ONLY <1>1, <1>3 DEF GoesOn, SourceNow, Active
<1>7. state' # "STARTUP"
  <2>1. /\ Left(pendingsources, Tail(pendingsources), SOURCE)
        /\ 1 \in EntriesOf(pendingsources, SOURCE) /\ pendingsources[1].when = now'
    BY <1>1, Fires
  <2>2. endhost = "PKTPAIR"
    BY DEF OfPair
  <2>3. state = "STARTUP" => now' = first_rto
    BY ONLY <2>1, <2>2, IInv, PairLeft
  <2> QED
    BY <1>1, <2>3
<1> QED
  BY ONLY <1>1, <1>4, <1>5, <1>6, <1>7, IInv, OfPair, d \in Disturbance, PairSent

LEMMA FirstRtoTimeoutInv ==
  ASSUME IInv, OfPair, NEW d \in Disturbance, FirstRtoTimeout(d)
  PROVE  StepOK
<1> DEFINE again == <<Segment(last_acked + 1, FALSE)>>
           events == Served(again, d, Tail(pendingsources))
           timer == now' + rto'
<1>1. /\ NextEventOf(SOURCE) /\ Timeout
      /\ highest_sent' = last_acked + MSS_BYTES
      /\ Transmit(again, d) /\ packets_sent' = packets_sent + MSS_BYTES * Len(again)
      /\ pendingsources' = events
      /\ bdp' = bdp /\ gap' = gap /\ first_rto' = first_rto /\ pktpair_ewma' = pktpair_ewma
      /\ UNCHANGED <<inflight, sinkVars>> /\ UNCHANGED pairVars
      /\ cumulative_ack' = cumulative_ack /\ received' = received
  BY DEF FirstRtoTimeout, SendOut, estimateVars, sinkVars
<1>2. now' \in Nat
  BY <1>1, Fires DEF Moment
<1>3. OutOK(again) /\ last_acked + MSS_BYTES \in Nat
  BY <1>2, AgainOK
<1>4. SourceNow
  BY SourceFacts
<1> HIDE DEF again
<1>5. /\ PathNext /\ After(events) /\ Left(pendingsources, events, SOURCE)
      /\ 1 \in EntriesOf(pendingsources, SOURCE) /\ pendingsources[1].when = now'
  BY <1>1, <1>3, SourceSends DEF OutOK
<1> HIDE DEF events
<1>6. /\ state' = "NORMAL" /\ recover_seq' \in Nat /\ dupacks' \in Nat /\ dupacks' <= 65535
      /\ last_acked' = last_acked /\ rtt' = rtt /\ mdev' = mdev /\ min_rtt' = min_rtt
      /\ rto' \in Nat \ {0} /\ timer \in Nat /\ timer # 0 /\ rto_timeout' = timer
  <2>1. Timeout
    BY <1>1
  <2>2. /\ state' = "NORMAL"
        /\ recover_seq' \in Nat /\ dupacks' \in Nat /\ dupacks' <= 65535
        /\ UNCHANGED <<last_acked, rtt, mdev, min_rtt>>
        /\ rto' \in Nat \ {0} /\ now' + rto' \in Nat /\ now' + rto' # 0
        /\ rto_timeout' = now' + rto'
    BY ONLY <1>2, <2>1, IInv, TimeoutFacts
  <2> QED
    BY ONLY <2>2
<1> HIDE DEF timer
<1>7. GoesOn
  BY ONLY <1>1, <1>4, <1>6 DEF GoesOn, SourceNow
<1>8. endhost = "PKTPAIR" /\ endhost' = endhost
  BY DEF OfPair
<1>9. SourceType' /\ FlowInv'
  <2>1. highest_sent' \in Nat
    BY <1>1, <1>3
  <2>2. packets_sent \in Nat
    BY <1>4 DEF SourceNow
  <2>3. packets_sent' \in Nat
    BY <1>1, <1>3, <2>2, SentBytes
  <2> QED
    BY <1>6, <1>7, <1>8, <2>1, <2>3, GoesOnFacts
<1>10. /\ first_rto' \in Nat /\ pktpair_ewma' \in Nat
       /\ cumulative_ack' \in Nat /\ received' \in Seq(Nat)
  BY <1>1, <1>4 DEF SourceNow
<1>11. EndHostType'
  BY <1>1, <1>5, <1>10, PairEnd
<1>12. SourceChain(pendingsources', state', first_rto')
  <2>1. AtMostOne(events, SOURCE)
    BY ONLY <1>5, <1>8, IInv, PairLeft
  <2>2. PairChain(events, first_rto)
    BY <2>1, OneIsPair
  <2> QED
    BY <1>1, <1>6, <1>8, <2>2 DEF SourceChain
<1> QED
  BY <1>1, <1>5, <1>8, <1>9, <1>10, <1>11, <1>12 DEF StepOK

(* The handlers that send nothing.                                         *)
LEMMA PairQuiet ==
  ASSUME IInv, OfPair, NextEventOf(SOURCE), UNCHANGED <<pathVars, sinkVars>>,
         UNCHANGED estimateVars, UNCHANGED pairVars,
         UNCHANGED <<ackVars, packets_sent, bdp, gap, rttVars, rto_timeout>>,
         SourceType' /\ FlowInv', After(pendingsources'),
         SourceChain(pendingsources', state', first_rto)
  PROVE  StepOK
<1>1. /\ endhost' = endhost /\ first_rto' = first_rto /\ pktpair_ewma' = pktpair_ewma
      /\ cumulative_ack' = cumulative_ack /\ received' = received
  BY DEF OfPair, estimateVars, sinkVars
<1>2. PathNext
  BY SourceStays
<1>3. /\ cumulative_ack' \in Nat /\ received' \in Seq(Nat)
      /\ first_rto' \in Nat /\ pktpair_ewma' \in Nat
  BY <1>1, SourceFacts DEF SourceNow
<1>4. EndHostType'
  BY <1>2, <1>3, PairEnd
<1> QED
  BY <1>1, <1>2, <1>3, <1>4 DEF StepOK

LEMMA FirstRtoPassedInv ==
  ASSUME IInv, OfPair, FirstRtoPassed
  PROVE  StepOK
<1> DEFINE rest == Tail(pendingsources)
<1>1. /\ NextEventOf(SOURCE) /\ UNCHANGED <<pathVars, sinkVars>>
      /\ UNCHANGED estimateVars /\ UNCHANGED pairVars
      /\ UNCHANGED <<ackVars, packets_sent, bdp, gap, rttVars, rto_timeout>>
      /\ state' = state /\ now' = first_rto /\ ~ Restarts
      /\ pendingsources' = rest
  BY DEF FirstRtoPassed, sourceVars
<1>2. /\ After(rest) /\ Left(pendingsources, rest, SOURCE)
      /\ 1 \in EntriesOf(pendingsources, SOURCE) /\ pendingsources[1].when = now'
  BY <1>1, SourceStays
<1> HIDE DEF rest
<1>3. endhost = "PKTPAIR" /\ endhost' = endhost
  BY DEF OfPair
<1>4. AtMostOne(rest, SOURCE) /\ state # "DELETED"
  BY ONLY <1>2, <1>3, IInv, PairLeft
<1>5. state \notin {"IDLE", "STARTUP", "DELETED"}
  BY <1>1, <1>4 DEF Restarts
<1>6. SourceNow
  BY SourceFacts
<1>7. SourceType' /\ FlowInv'
  <2>1. /\ recover_seq' = recover_seq /\ dupacks' = dupacks
        /\ highest_sent' = highest_sent /\ last_acked' = last_acked
        /\ packets_sent' = packets_sent /\ bdp' = bdp /\ gap' = gap
        /\ rtt' = rtt /\ mdev' = mdev /\ rto' = rto /\ min_rtt' = min_rtt
        /\ rto_timeout' = rto_timeout /\ cumulative_ack' = cumulative_ack
    BY <1>1 DEF ackVars, rttVars, sinkVars
  <2>2. SourceType'
    BY ONLY <1>1, <1>6, <2>1 DEF SourceType, SourceNow
  <2>3. /\ last_acked' < FLOWSIZE
        /\ state' \in {"FINISH", "DELETED"} => cumulative_ack' >= FLOWSIZE
        /\ state' \notin {"IDLE", "DELETED"} /\ endhost' # "TIMELY"
    BY <1>1, <1>3, <1>5, <1>6, <2>1 DEF SourceNow
  <2>4. TimerSet'
    BY <1>1, <1>6, <2>1 DEF SourceNow, TimerSet, Active
  <2> QED
    BY <2>2, <2>3, <2>4 DEF FlowInv
<1>8. PairChain(rest, first_rto)
  BY <1>4, OneIsPair
<1>9. After(pendingsources') /\ SourceChain(pendingsources', state', first_rto)
  BY <1>1, <1>2, <1>3, <1>5, <1>8 DEF SourceChain
<1> QED
  BY <1>1, <1>7, <1>9, PairQuiet

LEMMA PacketPairCleanUpInv ==
  ASSUME IInv, OfPair, PacketPairCleanUp
  PROVE  StepOK
<1> DEFINE rest == Tail(pendingsources)
<1>1. /\ NextEventOf(SOURCE) /\ UNCHANGED <<pathVars, sinkVars>>
      /\ UNCHANGED estimateVars /\ UNCHANGED pairVars
      /\ UNCHANGED <<ackVars, packets_sent, bdp, gap, rttVars, rto_timeout>>
      /\ state = "FINISH" /\ state' = "DELETED" /\ now' > first_rto /\ nPackets = 0
      /\ pendingsources' = rest
  BY DEF PacketPairCleanUp
<1>2. /\ PathNext /\ After(rest) /\ Left(pendingsources, rest, SOURCE)
      /\ 1 \in EntriesOf(pendingsources, SOURCE) /\ pendingsources[1].when = now'
  BY <1>1, SourceStays
<1> HIDE DEF rest
<1>3. endhost = "PKTPAIR" /\ endhost' = endhost
  BY DEF OfPair
<1>4. now' # first_rto => \A k \in EntriesOf(rest, SOURCE) : rest[k].when = first_rto
  BY ONLY <1>2, <1>3, IInv, PairLeft
<1>5. first_rto \in Nat /\ now' \in Nat
  BY <1>2, SourceFacts DEF SourceNow, PathNext, Moment
<1>6. EntriesOf(rest, SOURCE) = {}
  <2>1. PICK t \in Nat : t = now'
    BY <1>5
  <2>2. t > first_rto
    BY <1>1, <2>1
  <2>3. \A k \in EntriesOf(rest, SOURCE) : rest[k].when = first_rto
    BY <1>4, <1>5, <2>1, <2>2
  <2>4. \A k \in EntriesOf(rest, SOURCE) : t <= rest[k].when
    BY <1>2, <2>1 DEF After, ListOK, NotBefore, EntriesOf
  <2> QED
    BY <1>5, <2>2, <2>3, <2>4
<1>7. SourceType' /\ FlowInv'
  <2>1. /\ cumulative_ack' = cumulative_ack /\ (PathEmpty => PathEmpty')
    BY <1>1 DEF pathVars, sinkVars, PathEmpty
  <2>2. state' \in {"FINISH", "DELETED"} /\ (state' = "DELETED" => PathEmpty')
    BY <1>1, <2>1, NothingLeft
  <2> QED
    BY ONLY <1>1, <1>3, <2>1, <2>2, IInv, FinishFacts, ZenonT(60)
<1>8. PairChain(rest, first_rto)
  BY <1>6 DEF PairChain
<1>9. After(pendingsources') /\ SourceChain(pendingsources', state', first_rto)
  BY <1>1, <1>2, <1>3, <1>6, <1>8 DEF SourceChain
<1> QED
  BY <1>1, <1>7, <1>9, PairQuiet

LEMMA PacketPairDrainInv ==
  ASSUME IInv, OfPair, PacketPairDrain
  PROVE  StepOK
<1> DEFINE rest == Tail(pendingsources)
           wake == now' + rtt
<1>1. /\ NextEventOf(SOURCE) /\ UNCHANGED <<pathVars, sinkVars>>
      /\ UNCHANGED estimateVars /\ UNCHANGED pairVars
      /\ UNCHANGED <<ackVars, packets_sent, bdp, gap, rttVars, rto_timeout>>
      /\ state = "FINISH" /\ state' = state /\ now' # first_rto
      /\ pendingsources' = sourceIsPending(rest, SOURCE, wake)
  BY DEF PacketPairDrain, sourceVars
<1>2. /\ PathNext /\ After(rest) /\ Left(pendingsources, rest, SOURCE)
      /\ 1 \in EntriesOf(pendingsources, SOURCE) /\ pendingsources[1].when = now'
  BY <1>1, SourceStays
<1> HIDE DEF rest
<1>3. endhost = "PKTPAIR" /\ endhost' = endhost
  BY DEF OfPair
<1>4. /\ AtMostOne(rest, SOURCE)
      /\ now' # first_rto => \A k \in EntriesOf(rest, SOURCE) : rest[k].when = first_rto
  BY ONLY <1>2, <1>3, IInv, PairLeft
<1>5. now' \in Nat /\ wake \in Nat /\ now' <= wake
  <2>1. rtt \in Nat /\ now' \in Nat
    BY <1>2, SourceFacts DEF SourceNow, PathNext, Moment
  <2> QED
    BY <2>1, LaterTime
<1> HIDE DEF wake
<1>6. /\ After(pendingsources')
      /\ IF InTime(wake) THEN Added(rest, pendingsources', SOURCE, wake) ELSE pendingsources' = rest
  <2> DEFINE o == sourceIsPending(rest, SOURCE, wake)
  <2>1. After(o) /\ IF InTime(wake) THEN Added(rest, o, SOURCE, wake) ELSE o = rest
    BY ONLY <1>2, <1>5, SourceWakes
  <2>2. pendingsources' = o
    BY <1>1
  <2> HIDE DEF o
  <2> QED
    BY <2>1, <2>2
<1>7. SourceType' /\ FlowInv'
  <2>1. cumulative_ack' = cumulative_ack
    BY <1>1 DEF sinkVars
  <2>2. state' \in {"FINISH", "DELETED"} /\ (state' = "DELETED" => PathEmpty')
    BY <1>1
  <2> QED
    BY ONLY <1>1, <1>3, <2>1, <2>2, IInv, FinishFacts, ZenonT(60)
<1>8. PairChain(pendingsources', first_rto)
  BY ONLY <1>1, <1>4, <1>6, PairAgain
<1>9. SourceChain(pendingsources', state', first_rto)
  BY <1>1, <1>3, <1>8 DEF SourceChain
<1> QED
  BY <1>1, <1>6, <1>7, <1>9, PairQuiet

-----------------------------------------------------------------------------
(* The acks of both.                                                       *)

(* An ack is for what the sink has, and its time stamp is of the past.     *)
LEMMA AckSeen ==
  ASSUME IInv, AckEvent
  PROVE  /\ Moment /\ AckOK(theAck, now, cumulative_ack) /\ inflight[BACK] # <<>>
         /\ theAck.ackno \in Nat /\ theAck.ackno <= cumulative_ack
         /\ theAck.ts \in Nat /\ theAck.ts <= now
         /\ endhost = "PKTPAIR" => theAck.diff \in Nat
<1>1. BACK \in Pipes /\ NextEventOf(BACK)
  BY Sources DEF AckEvent
<1>2. /\ Moment /\ inflight[BACK] # <<>>
      /\ Head(inflight[BACK]) = inflight[BACK][1] /\ 1 \in 1 .. Len(inflight[BACK])
  BY <1>1, PipeFires
<1>3. AckOK(theAck, now, cumulative_ack)
  BY <1>2 DEF IInv, FlightOK, theAck
<1>4. /\ theAck \in IF endhost = "TIMELY" THEN PlainAck ELSE PairAck
      /\ theAck.ts <= now /\ theAck.ackno <= cumulative_ack
  BY ONLY <1>3 DEF AckOK
<1> HIDE DEF theAck
<1>5. /\ theAck.ackno \in Nat /\ theAck.ts \in Nat
      /\ endhost = "PKTPAIR" => theAck.diff \in Nat
  BY ONLY <1>4 DEF PlainAck, PairAck
<1> QED
  BY <1>2, <1>3, <1>4, <1>5

LEMMA SampleType ==
  ASSUME IInv, AckEvent
  PROVE  Sample \in Nat
<1>1. /\ Moment /\ theAck.ts \in Nat /\ theAck.ts <= now
  BY AckSeen
<1>2. now \in Nat
  BY SourceFacts DEF SourceNow
<1>3. PICK t \in Nat : t = now' /\ now <= t
  BY <1>1 DEF Moment
<1>4. t - theAck.ts \in Nat
  BY <1>1, <1>2, <1>3
<1> QED
  BY <1>3, <1>4 DEF Sample

(* The estimates of the round-trip time have the types they had.           *)
LEMMA RttFacts ==
  ASSUME IInv, AckEvent, UpdateRtt
  PROVE  rtt' \in Nat /\ mdev' \in Nat /\ rto' \in Nat \ {0} /\ min_rtt' \in Nat
<1>1. PICK s \in Nat : s = Sample
  BY SampleType
<1>2. PICK r \in Nat, m \in Nat, least \in Nat : r = rtt /\ m = mdev /\ least = min_rtt
  BY SourceFacts, SMTT(60) DEF SourceNow
<1>3. /\ min_rtt' = Smaller(least, s)
      /\ rtt' = IF r = 0 THEN s ELSE (7 * r) \div 8 + s \div 8
      /\ mdev' = IF r = 0 THEN s \div 2 ELSE (3 * m) \div 4 + Bigger(s - r, r - s) \div 4
      /\ rto' = Bigger(rtt' + 4 * mdev', MIN_RTO)
  BY <1>1, <1>2 DEF UpdateRtt
<1>4. min_rtt' \in Nat
  BY <1>3 DEF Smaller
<1>5. rtt' \in Nat
  <2>1. 7 * r \in Nat /\ 8 \in Nat \ {0}
    OBVIOUS
  <2>2. (7 * r) \div 8 \in Nat /\ s \div 8 \in Nat
    BY <2>1, DivNat
  <2> QED
    BY <1>3, <2>2
<1>6. mdev' \in Nat
  <2>1. PICK diff \in Nat : diff = Bigger(s - r, r - s)
    <3>1. Bigger(s - r, r - s) \in Nat
      BY DEF Bigger
    <3> QED
      BY <3>1
  <2>2. 3 * m \in Nat /\ 4 \in Nat \ {0} /\ 2 \in Nat \ {0}
    OBVIOUS
  <2>3. (3 * m) \div 4 \in Nat /\ diff \div 4 \in Nat /\ s \div 2 \in Nat
    BY <2>2, DivNat
  <2> QED
    BY <1>3, <2>1, <2>3
<1>7. rto' \in Nat \ {0}
  <2>1. PICK a \in Nat, b \in Nat : a = rtt' /\ b = mdev'
    BY <1>5, <1>6
  <2>2. rto' = Bigger(a + 4 * b, MIN_RTO) /\ MIN_RTO \in Nat \ {0}
    BY <1>3, <2>1, RateSourceAssumption
  <2> QED
    BY <2>2 DEF Bigger
<1> QED
  BY <1>4, <1>5, <1>6, <1>7

(* A segment is sent again, and the timeout is set anew.                   *)
LEMMA AgainFacts ==
  ASSUME now' \in Nat, NEW ack \in Nat, ack < FLOWSIZE, NEW out, OutOK(out), NEW high \in Nat
  PROVE  /\ OutOK(out \o <<Segment(ack + 1, FALSE)>>)
         /\ AfterRetransmit(ack, high) \in Nat
<1> DEFINE again == <<Segment(ack + 1, FALSE)>>
<1>1. ack + 1 \in Nat /\ ack + 1 <= FLOWSIZE
  BY RateSourceAssumption
<1>2. OutOK(again)
  BY <1>1, SegmentOK, OutFacts
<1> HIDE DEF again
<1>3. OutOK(out \o again)
  BY <1>2, OutConcat
<1>4. AfterRetransmit(ack, high) \in Nat
  BY DataSinkAssumption DEF AfterRetransmit
<1> QED
  BY <1>3, <1>4 DEF again

(* What a handler of an ack sends and sets.                                *)
Processed(h, d) ==
  \E out : /\ OutOK(out) /\ SendOut(out, d) /\ AckScheduled(out, h.wake, d)
           /\ state' \in {h.st, "NORMAL", "RECOVERY"}
           /\ recover_seq' \in Nat /\ dupacks' \in Nat /\ dupacks' <= 65535
           /\ last_acked' \in Nat /\ last_acked' < FLOWSIZE
           /\ highest_sent' \in Nat /\ rto_timeout' \in Nat
           /\ highest_sent' # last_acked' => rto_timeout' # 0

LEMMA ProcessFacts ==
  ASSUME IInv, AckTaken, NEW h, NEW d,
         h.st \in {"STARTUP", "NORMAL", "RECOVERY"}, h.high \in Nat, h.timer \in Nat,
         OutOK(h.out), h.high # last_acked => h.timer # 0,
         rto' \in Nat \ {0}, ProcessAck(h, theAck.ackno, d)
  PROVE  Processed(h, d)
<1> DEFINE ack == theAck.ackno
           again == h.out \o <<Segment(ack + 1, FALSE)>>
           late == now' + rto'
<1>1. AckEvent /\ last_acked <= ack /\ ack < FLOWSIZE
  BY DEF AckTaken
<1>2. now' \in Nat /\ ack \in Nat
  BY <1>1, AckSeen DEF Moment
<1>3. /\ last_acked \in Nat /\ last_acked < FLOWSIZE /\ recover_seq \in Nat
      /\ dupacks \in Nat /\ dupacks <= 65535
  BY SourceFacts DEF SourceNow
<1>4. late \in Nat /\ late # 0
  <2>1. PICK r \in Nat : r = rto' /\ r # 0
    OBVIOUS
  <2>2. now' + r \in Nat /\ now' + r # 0
    BY <1>2, <2>1, LaterTime
  <2> QED
    BY <2>1, <2>2
<1>5. OutOK(again) /\ AfterRetransmit(ack, h.high) \in Nat
  BY <1>1, <1>2, AgainFacts
<1>6. Armed(h.timer) \in Nat /\ Armed(h.timer) # 0
  BY <1>2, ArmedFacts
<1>7. \/ NewAck(h, ack, d) \/ DupAck(h, ack, d) \/ FastRetransmit(h, ack, d)
      \/ PartialAck(h, ack, d) \/ RecoveredAck(h, ack, d)
  BY DEF ProcessAck, ProcessOpenAck
<1> HIDE DEF ack, late
<1>8. CASE NewAck(h, ack, d)
  <2>1. /\ state' = h.st /\ last_acked' = ack /\ dupacks' = 0 /\ highest_sent' = h.high
        /\ rto_timeout' = IF ack = h.high THEN 0 ELSE late
        /\ SendOut(h.out, d) /\ AckScheduled(h.out, h.wake, d) /\ recover_seq' = recover_seq
    BY <1>8 DEF NewAck, late
  <2>2. /\ recover_seq' \in Nat /\ dupacks' \in Nat /\ dupacks' <= 65535
        /\ last_acked' \in Nat /\ last_acked' < FLOWSIZE
        /\ highest_sent' \in Nat /\ rto_timeout' \in Nat
        /\ highest_sent' # last_acked' => rto_timeout' # 0
    BY <1>1, <1>2, <1>3, <1>4, <2>1
  <2> QED
    BY <2>1, <2>2 DEF Processed
<1>9. CASE RecoveredAck(h, ack, d)
  <2>1. /\ state' = "NORMAL" /\ last_acked' = ack /\ dupacks' = 0 /\ highest_sent' = h.high
        /\ rto_timeout' = IF ack = h.high THEN 0 ELSE late
        /\ SendOut(h.out, d) /\ AckScheduled(h.out, h.wake, d) /\ recover_seq' = recover_seq
    BY <1>9 DEF RecoveredAck, late
  <2>2. /\ recover_seq' \in Nat /\ dupacks' \in Nat /\ dupacks' <= 65535
        /\ last_acked' \in Nat /\ last_acked' < FLOWSIZE
        /\ highest_sent' \in Nat /\ rto_timeout' \in Nat
        /\ highest_sent' # last_acked' => rto_timeout' # 0
    BY <1>1, <1>2, <1>3, <1>4, <2>1
  <2> QED
    BY <2>1, <2>2 DEF Processed
<1>10. CASE PartialAck(h, ack, d)
  <2>1. /\ state' = h.st /\ last_acked' = ack
        /\ dupacks' = (dupacks - (ack - last_acked) \div MSS_BYTES + 1) % 65536
        /\ highest_sent' = AfterRetransmit(ack, h.high) /\ rto_timeout' = late
        /\ SendOut(again, d) /\ AckScheduled(again, h.wake, d) /\ recover_seq' = recover_seq
    BY <1>10 DEF PartialAck, late
  <2>2. dupacks' \in Nat /\ dupacks' <= 65535
    <3>1. ack - last_acked \in Nat /\ MSS_BYTES \in Nat \ {0}
      BY <1>1, <1>2, <1>3, DataSinkAssumption
    <3>2. PICK q \in Nat : q = (ack - last_acked) \div MSS_BYTES
      BY <3>1, DivNat
    <3>3. PICK x \in Int : x = dupacks - q + 1
      BY <1>3
    <3>4. dupacks' = x % 65536
      BY <2>1, <3>2, <3>3
    <3> QED
      BY <3>4
  <2>3. /\ recover_seq' \in Nat /\ last_acked' \in Nat /\ last_acked' < FLOWSIZE
        /\ highest_sent' \in Nat /\ rto_timeout' \in Nat /\ rto_timeout' # 0
    BY <1>1, <1>2, <1>3, <1>4, <1>5, <2>1
  <2> QED
    BY <1>5, <2>1, <2>2, <2>3 DEF Processed
<1>11. CASE DupAck(h, ack, d)
  <2>1. /\ state' = h.st /\ last_acked' = last_acked /\ dupacks' = (dupacks + 1) % 65536
        /\ highest_sent' = h.high /\ rto_timeout' = h.timer
        /\ SendOut(h.out, d) /\ AckScheduled(h.out, h.wake, d) /\ recover_seq' = recover_seq
    BY <1>11 DEF DupAck
  <2>2. dupacks' \in Nat /\ dupacks' <= 65535
    BY <1>3, <2>1
  <2>3. /\ recover_seq' \in Nat /\ last_acked' \in Nat /\ last_acked' < FLOWSIZE
        /\ highest_sent' \in Nat /\ rto_timeout' \in Nat
        /\ highest_sent' # last_acked' => rto_timeout' # 0
    BY <1>3, <2>1
  <2> QED
    BY <2>1, <2>2, <2>3 DEF Processed
<1>12. CASE FastRetransmit(h, ack, d)
  <2>1. /\ state' = "RECOVERY" /\ last_acked' = last_acked /\ dupacks' = 3
        /\ recover_seq' = h.high
        /\ highest_sent' = AfterRetransmit(ack, h.high) /\ rto_timeout' = Armed(h.timer)
        /\ SendOut(again, d) /\ AckScheduled(again, h.wake, d)
    BY <1>12 DEF FastRetransmit
  <2>2. /\ recover_seq' \in Nat /\ dupacks' \in Nat /\ dupacks' <= 65535
        /\ last_acked' \in Nat /\ last_acked' < FLOWSIZE
        /\ highest_sent' \in Nat /\ rto_timeout' \in Nat /\ rto_timeout' # 0
    BY <1>3, <1>5, <1>6, <2>1
  <2> QED
    BY <1>5, <2>1, <2>2 DEF Processed
<1> QED
  BY <1>7, <1>8, <1>9, <1>10, <1>11, <1>12

(* A source in another state, with the same events.                        *)
LEMMA ChainGoesOn ==
  ASSUME NEW events, NEW st, NEW first, SourceChain(events, st, first), st # "DELETED",
         NEW next, next \in {st, "NORMAL", "RECOVERY", "FINISH"}
  PROVE  SourceChain(events, next, first)
BY DEF SourceChain, TimelyChain

(* An ack arrives, and its handler has sent out and scheduled an event.    *)
LEMMA AckStep ==
  ASSUME IInv, AckEvent, NEW d \in Disturbance, NEW out, OutOK(out),
         NEW wake \in Nat, wake = FOREVER \/ now' <= wake,
         Transmit(out, d), AckScheduled(out, wake, d)
  PROVE  /\ PathNext /\ After(pendingsources')
         /\ cumulative_ack' \in Nat /\ received' \in Seq(Nat)
         /\ cumulative_ack' = cumulative_ack /\ ~ PathEmpty
         /\ wake = FOREVER => SourceChain(pendingsources', state, first_rto)
         /\ endhost = "PKTPAIR" /\ state = "STARTUP" => PairChain(pendingsources', first_rto)
<1>1. out \in Seq(Seg) /\ \A k \in 1 .. Len(out) : SegOK(out[k], now')
  BY DEF OutOK
<1>2. /\ PathNext /\ After(pendingsources') /\ inflight[BACK] # <<>>
      /\ \E e1, e2 :
           /\ SameEvents(pendingsources, e1, SOURCE)
           /\ IF wake # FOREVER /\ InTime(wake) THEN Added(e1, e2, SOURCE, wake) ELSE e2 = e1
           /\ SameEvents(e2, pendingsources', SOURCE)
  BY ONLY <1>1, IInv, AckEvent, wake \in Nat, wake = FOREVER \/ now' <= wake, d \in Disturbance,
     Transmit(out, d), AckScheduled(out, wake, d), AckArrives
<1>3. PICK e1, e2 :
        /\ SameEvents(pendingsources, e1, SOURCE)
        /\ IF wake # FOREVER /\ InTime(wake) THEN Added(e1, e2, SOURCE, wake) ELSE e2 = e1
        /\ SameEvents(e2, pendingsources', SOURCE)
  BY ONLY <1>2
<1>4. SourceChain(pendingsources, state, first_rto)
  BY DEF IInv
<1>5. SourceChain(e1, state, first_rto)
  BY ONLY <1>3, <1>4, ChainKept
<1>6. ASSUME wake = FOREVER
      PROVE  SourceChain(pendingsources', state, first_rto)
  <2>1. SourceChain(e2, state, first_rto)
    BY <1>3, <1>5, <1>6
  <2> QED
    BY ONLY <1>3, <2>1, ChainKept
<1>7. ASSUME endhost = "PKTPAIR", state = "STARTUP"
      PROVE  PairChain(pendingsources', first_rto)
  <2>1. StartChain(e1, state, first_rto)
    BY <1>5, <1>7 DEF SourceChain
  <2>2. /\ AtMostOne(e1, SOURCE)
        /\ \A k \in EntriesOf(e1, SOURCE) : e1[k].when = first_rto
    BY <1>7, <2>1 DEF StartChain
  <2>3. PairChain(e2, first_rto)
    <3>1. CASE wake # FOREVER /\ InTime(wake)
      BY <1>3, <2>2, <3>1, SecondIsPair
    <3>2. CASE ~ (wake # FOREVER /\ InTime(wake))
      BY <1>3, <2>2, <3>2, OneIsPair
    <3> QED
      BY <3>1, <3>2
  <2>4. SourceChain(e2, "NORMAL", first_rto)
    BY <1>7, <2>3 DEF SourceChain
  <2>5. SourceChain(pendingsources', "NORMAL", first_rto)
    BY ONLY <1>3, <2>4, ChainKept
  <2> QED
    BY <1>7, <2>5 DEF SourceChain
<1>8. cumulative_ack' = cumulative_ack /\ received' = received
  BY DEF AckEvent, sinkVars
<1>9. cumulative_ack \in Nat /\ received \in Seq(Nat)
  BY SourceFacts DEF SourceNow
<1> QED
  BY <1>2, <1>6, <1>7, <1>8, <1>9 DEF PathEmpty

(* The handler of an ack that is processed.                                *)
LEMMA AckProcessed ==
  ASSUME IInv, AckTaken, endhost' = endhost, NEW d \in Disturbance, NEW h,
         h.st \in {"STARTUP", "NORMAL", "RECOVERY"}, h.high \in Nat, h.timer \in Nat,
         OutOK(h.out), h.high # last_acked => h.timer # 0,
         h.wake \in Nat, h.wake = FOREVER \/ now' <= h.wake,
         ProcessAck(h, theAck.ackno, d),
         bdp' \in Nat, gap' \in Nat, endhost = "TIMELY" => gap' > 0,
         rtt' \in Nat, mdev' \in Nat, rto' \in Nat \ {0}, min_rtt' \in Nat
  PROVE  /\ PathNext /\ After(pendingsources') /\ SourceType' /\ FlowInv'
         /\ cumulative_ack' \in Nat /\ received' \in Seq(Nat)
         /\ state' \in {h.st, "NORMAL", "RECOVERY"}
         /\ h.wake = FOREVER => SourceChain(pendingsources', state, first_rto)
         /\ endhost = "PKTPAIR" /\ state = "STARTUP" => PairChain(pendingsources', first_rto)
<1>1. Processed(h, d)
  BY ProcessFacts
<1>2. PICK out : /\ OutOK(out) /\ SendOut(out, d) /\ AckScheduled(out, h.wake, d)
                 /\ state' \in {h.st, "NORMAL", "RECOVERY"}
                 /\ recover_seq' \in Nat /\ dupacks' \in Nat /\ dupacks' <= 65535
                 /\ last_acked' \in Nat /\ last_acked' < FLOWSIZE
                 /\ highest_sent' \in Nat /\ rto_timeout' \in Nat
                 /\ highest_sent' # last_acked' => rto_timeout' # 0
  BY ONLY <1>1 DEF Processed
<1>3. Transmit(out, d) /\ packets_sent' = packets_sent + MSS_BYTES * Len(out)
  BY <1>2 DEF SendOut
<1>4. AckEvent
  BY DEF AckTaken
<1>5. /\ PathNext /\ After(pendingsources')
      /\ cumulative_ack' \in Nat /\ received' \in Seq(Nat)
      /\ h.wake = FOREVER => SourceChain(pendingsources', state, first_rto)
      /\ endhost = "PKTPAIR" /\ state = "STARTUP" => PairChain(pendingsources', first_rto)
  <2> DEFINE wake == h.wake
  <2>1. wake \in Nat /\ (wake = FOREVER \/ now' <= wake) /\ AckScheduled(out, wake, d) /\ OutOK(out)
    BY <1>2
  <2> HIDE DEF wake
  <2>2. /\ PathNext /\ After(pendingsources')
        /\ cumulative_ack' \in Nat /\ received' \in Seq(Nat)
        /\ wake = FOREVER => SourceChain(pendingsources', state, first_rto)
        /\ endhost = "PKTPAIR" /\ state = "STARTUP" => PairChain(pendingsources', first_rto)
    BY ONLY <1>3, <1>4, <2>1, IInv, d \in Disturbance, AckStep
  <2> QED
    BY <2>2 DEF wake
<1>6. packets_sent' \in Nat
  <2>1. packets_sent \in Nat /\ OutOK(out)
    BY <1>2, SourceFacts DEF SourceNow
  <2>2. packets_sent + MSS_BYTES * Len(out) \in Nat
    BY ONLY <2>1, SentBytes
  <2> QED
    BY ONLY <1>3, <2>2
<1>7. GoesOn
  BY <1>2 DEF GoesOn
<1>8. SourceType' /\ FlowInv'
  BY <1>2, <1>6, <1>7, GoesOnFacts
<1> QED
  BY <1>2, <1>5, <1>8

(* The window of a rate.                                                   *)
LEMMA RateWindowType ==
  ASSUME min_rtt' \in Nat, NEW g \in Nat \ {0}
  PROVE  RateWindow(g) \in Nat
<1>1. PICK mss \in Nat, m \in Nat : mss = MSS_BYTES /\ m = min_rtt'
  BY DataSinkAssumption
<1>2. PICK p \in Nat : p = 2 * mss * m
  <2>1. 2 * mss * m \in Nat
    OBVIOUS
  <2> QED
    BY <2>1
<1>3. p + g \in Nat /\ 2 * g \in Nat \ {0}
  OBVIOUS
<1>4. (p + g) \div (2 * g) \in Nat
  BY <1>3, DivNat
<1> QED
  BY <1>1, <1>2, <1>4 DEF RateWindow

LEMMA ChangeRateFacts ==
  ASSUME IInv, endhost = "TIMELY", min_rtt' \in Nat, ChangeRate
  PROVE  gap' \in Nat /\ gap' > 0 /\ bdp' \in Nat /\ last_rtt_bytes' \in Nat
<1>1. /\ gap \in Nat /\ gap > 0 /\ bdp \in Nat /\ last_rtt_bytes \in Nat /\ last_acked \in Nat
  BY SourceFacts DEF SourceNow
<1>2. ChangedGaps \subseteq Nat \ {0}
  <2>1. Gaps \subseteq Nat \ {0} /\ gap \in Nat \ {0} /\ 5 * gap \in Nat \ {0}
    BY <1>1, TimelyAssumption
  <2> QED
    BY <2>1 DEF ChangedGaps
<1>3. CASE UNCHANGED <<gap, bdp, last_rtt_bytes>>
  BY <1>1, <1>3
<1>4. ASSUME NEW g \in ChangedGaps, gap' = g, bdp' = RateWindow(g), last_rtt_bytes' = last_acked
      PROVE  gap' \in Nat /\ gap' > 0 /\ bdp' \in Nat /\ last_rtt_bytes' \in Nat
  <2>1. g \in Nat \ {0}
    BY <1>2
  <2>2. RateWindow(g) \in Nat
    BY <2>1, RateWindowType
  <2> QED
    BY <1>1, <1>4, <2>1, <2>2
<1> QED
  BY <1>3, <1>4 DEF ChangeRate

(* A handler that has done nothing yet.                                    *)
LEMMA UntouchedFacts ==
  ASSUME IInv, AckTaken
  PROVE  /\ Untouched.st = state /\ Untouched.st \in {"STARTUP", "NORMAL", "RECOVERY"}
         /\ Untouched.high \in Nat /\ Untouched.timer \in Nat /\ OutOK(Untouched.out)
         /\ Untouched.high # last_acked => Untouched.timer # 0
         /\ Untouched.wake \in Nat /\ Untouched.wake = FOREVER
<1>1. /\ Untouched.st = state /\ Untouched.high = highest_sent /\ Untouched.timer = rto_timeout
      /\ Untouched.out = <<>> /\ Untouched.wake = FOREVER
  BY DEF Untouched
<1>2. /\ Active /\ highest_sent \in Nat /\ rto_timeout \in Nat
      /\ highest_sent # last_acked => rto_timeout # 0
  BY SourceFacts DEF SourceNow, AckTaken
<1>3. FOREVER \in Nat
  BY RateSourceAssumption
<1> QED
  BY <1>1, <1>2, <1>3, OutFacts DEF Active

LEMMA UntouchedStep ==
  ASSUME IInv, AckTaken, endhost' = endhost, NEW d \in Disturbance,
         ProcessAck(Untouched, theAck.ackno, d),
         bdp' \in Nat, gap' \in Nat, endhost = "TIMELY" => gap' > 0,
         rtt' \in Nat, mdev' \in Nat, rto' \in Nat \ {0}, min_rtt' \in Nat
  PROVE  /\ PathNext /\ After(pendingsources') /\ SourceType' /\ FlowInv'
         /\ cumulative_ack' \in Nat /\ received' \in Seq(Nat)
         /\ SourceChain(pendingsources', state', first_rto)
<1> DEFINE h == Untouched
<1>1. /\ h.st = state /\ h.st \in {"STARTUP", "NORMAL", "RECOVERY"}
      /\ h.high \in Nat /\ h.timer \in Nat /\ OutOK(h.out)
      /\ h.high # last_acked => h.timer # 0
      /\ h.wake \in Nat /\ h.wake = FOREVER /\ (h.wake = FOREVER \/ now' <= h.wake)
  BY UntouchedFacts
<1>2. ProcessAck(h, theAck.ackno, d)
  OBVIOUS
<1> HIDE DEF h
<1>3. /\ PathNext /\ After(pendingsources') /\ SourceType' /\ FlowInv'
      /\ cumulative_ack' \in Nat /\ received' \in Seq(Nat)
      /\ state' \in {h.st, "NORMAL", "RECOVERY"}
      /\ h.wake = FOREVER => SourceChain(pendingsources', state, first_rto)
  BY <1>1, <1>2, AckProcessed
<1>4. /\ SourceChain(pendingsources', state, first_rto) /\ state # "DELETED"
      /\ state' \in {state, "NORMAL", "RECOVERY", "FINISH"}
  BY ONLY <1>1, <1>3
<1>5. SourceChain(pendingsources', state', first_rto)
  BY ONLY <1>4, ChainGoesOn
<1> QED
  BY <1>3, <1>5

LEMMA TimelyAckInv ==
  ASSUME IInv, OfTimely, NEW d \in Disturbance, TimelyAck(d)
  PROVE  StepOK
<1>1. /\ AckTaken /\ UpdateRtt /\ ChangeRate /\ ProcessAck(Untouched, theAck.ackno, d)
      /\ AckEvent
  BY DEF TimelyAck, AckTaken
<1>2. endhost = "TIMELY" /\ endhost' = endhost /\ first_rto' = first_rto
  BY DEF OfTimely, estimateVars
<1>3. rtt' \in Nat /\ mdev' \in Nat /\ rto' \in Nat \ {0} /\ min_rtt' \in Nat
  BY ONLY <1>1, IInv, RttFacts
<1>4. gap' \in Nat /\ gap' > 0 /\ bdp' \in Nat /\ last_rtt_bytes' \in Nat
  BY ONLY <1>1, <1>2, <1>3, IInv, ChangeRateFacts
<1>5. endhost = "TIMELY" => gap' > 0
  BY <1>4
<1>6. /\ PathNext /\ After(pendingsources') /\ SourceType' /\ FlowInv'
      /\ cumulative_ack' \in Nat /\ received' \in Seq(Nat)
      /\ SourceChain(pendingsources', state', first_rto)
  BY ONLY <1>1, <1>2, <1>3, <1>4, <1>5, IInv, d \in Disturbance, UntouchedStep
<1>7. EndHostType'
  BY <1>4, <1>6, TimelyEnd
<1> QED
  BY <1>2, <1>6, <1>7 DEF StepOK

LEMMA PairWindowType ==
  ASSUME min_rtt' \in Nat, NEW e \in Nat \ {0}
  PROVE  PairWindow(e) \in Nat
<1>1. PICK mss \in Nat, m \in Nat : mss = MSS_BYTES /\ m = min_rtt'
  BY DataSinkAssumption
<1>2. PICK p \in Nat : p = mss * m
  <2>1. mss * m \in Nat
    OBVIOUS
  <2> QED
    BY <2>1
<1>3. PICK q \in Nat : q = p \div e
  BY DivNat
<1>4. PairWindow(e) = Bigger(q, 2 * mss)
  BY <1>1, <1>2, <1>3 DEF PairWindow
<1> QED
  BY <1>4 DEF Bigger

LEMMA AckNoPairInv ==
  ASSUME IInv, OfPair, NEW d \in Disturbance, AckNoPair(d)
  PROVE  StepOK
<1>1. /\ AckTaken /\ UpdateRtt /\ ProcessAck(Untouched, theAck.ackno, d) /\ AckEvent
      /\ bdp' = bdp /\ gap' = gap /\ first_rto' = first_rto /\ pktpair_ewma' = pktpair_ewma
      /\ UNCHANGED pairVars
  BY DEF AckNoPair, AckTaken, estimateVars
<1>2. endhost = "PKTPAIR" /\ endhost' = endhost
  BY DEF OfPair
<1>3. rtt' \in Nat /\ mdev' \in Nat /\ rto' \in Nat \ {0} /\ min_rtt' \in Nat
  BY ONLY <1>1, IInv, RttFacts
<1>4. /\ gap' \in Nat /\ bdp' \in Nat /\ first_rto' \in Nat /\ pktpair_ewma' \in Nat
      /\ (endhost = "TIMELY" => gap' > 0)
  BY <1>1, <1>2, SourceFacts DEF SourceNow
<1>5. /\ PathNext /\ After(pendingsources') /\ SourceType' /\ FlowInv'
      /\ cumulative_ack' \in Nat /\ received' \in Seq(Nat)
      /\ SourceChain(pendingsources', state', first_rto)
  BY ONLY <1>1, <1>2, <1>3, <1>4, IInv, d \in Disturbance, UntouchedStep
<1>6. EndHostType'
  BY <1>1, <1>4, <1>5, PairEnd
<1> QED
  BY <1>1, <1>2, <1>5, <1>6 DEF StepOK

LEMMA AckPairInv ==
  ASSUME IInv, OfPair, NEW d \in Disturbance, AckPair(d)
  PROVE  StepOK
<1>1. /\ AckTaken /\ UpdateRtt /\ ProcessAck(Untouched, theAck.ackno, d) /\ AckEvent
      /\ theAck.diff # 0
      /\ pktpair_ewma' = (pktpair_ewma + theAck.diff + 1) \div 2
      /\ bdp' = PairWindow(pktpair_ewma')
      /\ \E k \in Slow : gap' = (2 * pktpair_ewma' * k) \div 4
      /\ first_rto' = first_rto /\ UNCHANGED pairVars
  BY DEF AckPair, AckTaken
<1>2. endhost = "PKTPAIR" /\ endhost' = endhost
  BY DEF OfPair
<1>3. rtt' \in Nat /\ mdev' \in Nat /\ rto' \in Nat \ {0} /\ min_rtt' \in Nat
  BY ONLY <1>1, IInv, RttFacts
<1>4. PICK e \in Nat \ {0} : e = pktpair_ewma'
  <2>1. theAck.diff \in Nat
    BY <1>1, <1>2, AckSeen
  <2>2. PICK a \in Nat \ {0} : a = theAck.diff
    BY <1>1, <2>1
  <2>3. PICK w \in Nat : w = pktpair_ewma
    BY SourceFacts DEF SourceNow
  <2>4. (w + a + 1) \div 2 \in Nat \ {0}
    OBVIOUS
  <2> QED
    BY <1>1, <2>2, <2>3, <2>4
<1>5. /\ gap' \in Nat /\ bdp' \in Nat /\ first_rto' \in Nat /\ pktpair_ewma' \in Nat
      /\ (endhost = "TIMELY" => gap' > 0)
  <2>1. bdp' \in Nat
    BY <1>1, <1>3, <1>4, PairWindowType
  <2>2. gap' \in Nat
    <3>1. PICK k \in Slow : gap' = (2 * e * k) \div 4
      BY <1>1, <1>4
    <3>2. k \in Nat
      BY PacketPairAssumption
    <3>3. PICK p \in Nat : p = 2 * e * k
      <4>1. 2 * e * k \in Nat
        BY ONLY <3>2, e \in Nat \ {0}
      <4> QED
        BY <4>1
    <3>4. p \div 4 \in Nat
      BY DivNat
    <3> QED
      BY <3>1, <3>3, <3>4
  <2>3. first_rto' \in Nat
    BY <1>1, SourceFacts DEF SourceNow
  <2> QED
    BY <1>2, <1>4, <2>1, <2>2, <2>3
<1>6. /\ PathNext /\ After(pendingsources') /\ SourceType' /\ FlowInv'
      /\ cumulative_ack' \in Nat /\ received' \in Seq(Nat)
      /\ SourceChain(pendingsources', state', first_rto)
  BY ONLY <1>1, <1>2, <1>3, <1>5, IInv, d \in Disturbance, UntouchedStep
<1>7. EndHostType'
  BY <1>1, <1>5, <1>6, PairEnd
<1> QED
  BY <1>1, <1>2, <1>6, <1>7 DEF StepOK

(* The first measurement: the event that it schedules is the second one,   *)
(* besides that at first_rto.                                              *)
LEMMA AckFirstPairInv ==
  ASSUME IInv, OfPair, NEW d \in Disturbance, AckFirstPair(d)
  PROVE  StepOK
<1> DEFINE pair == Pair(highest_sent, bdp', dupacks)
           high == highest_sent + MSS_BYTES * Len(pair)
           timer == IF pair = <<>> THEN rto_timeout ELSE Armed(rto_timeout)
           wake == now' + gap'
           h == [st |-> "NORMAL", high |-> high, timer |-> timer, out |-> pair, wake |-> wake]
<1>1. /\ AckTaken /\ UpdateRtt /\ AckEvent
      /\ theAck.diff # 0 /\ state = "STARTUP"
      /\ pktpair_ewma' = theAck.diff /\ bdp' = PairWindow(theAck.diff) /\ gap' = 2 * theAck.diff
      /\ first_rto' = first_rto /\ UNCHANGED pairVars
      /\ ProcessOpenAck(h, theAck.ackno, d)
  BY DEF AckFirstPair, AckTaken
<1>2. endhost = "PKTPAIR" /\ endhost' = endhost
  BY DEF OfPair
<1>3. rtt' \in Nat /\ mdev' \in Nat /\ rto' \in Nat \ {0} /\ min_rtt' \in Nat
  BY ONLY <1>1, IInv, RttFacts
<1>4. PICK e \in Nat \ {0} : e = theAck.diff
  BY <1>1, <1>2, AckSeen
<1>5. PICK t \in Nat : t = now'
  BY <1>1, AckSeen DEF Moment
<1>6. /\ gap' \in Nat /\ bdp' \in Nat /\ first_rto' \in Nat /\ pktpair_ewma' \in Nat
      /\ (endhost = "TIMELY" => gap' > 0)
  <2>1. pktpair_ewma' = e /\ bdp' = PairWindow(e) /\ gap' = 2 * e /\ first_rto' = first_rto
    BY ONLY <1>1, <1>4
  <2>2. bdp' \in Nat
    BY ONLY <1>3, <2>1, e \in Nat \ {0}, PairWindowType
  <2>3. first_rto \in Nat
    BY SourceFacts DEF SourceNow
  <2> QED
    BY ONLY <1>2, <2>1, <2>2, <2>3, e \in Nat \ {0}
<1>7. wake \in Nat /\ now' <= wake
  BY <1>5, <1>6, LaterTime
<1>8. SourceNow
  BY SourceFacts
<1>9. OutOK(pair)
  BY <1>5, <1>8, PairOK DEF SourceNow
<1> HIDE DEF pair, wake
<1>10. high \in Nat /\ (pair = <<>> => high = highest_sent)
  <2>1. highest_sent \in Nat
    BY ONLY <1>8 DEF SourceNow
  <2> QED
    BY ONLY <1>9, <2>1, SentBytes DEF high
<1>11. timer \in Nat /\ (high # last_acked => timer # 0)
  <2>1. Armed(rto_timeout) \in Nat /\ Armed(rto_timeout) # 0
    <3>1. rto_timeout \in Nat /\ now' \in Nat
      BY <1>5, <1>8 DEF SourceNow
    <3> QED
      BY ONLY <1>3, <3>1, ArmedFacts
  <2>2. /\ rto_timeout \in Nat
        /\ highest_sent # last_acked => rto_timeout # 0
    BY <1>1, <1>8 DEF SourceNow, Active
  <2> HIDE DEF high
  <2> QED
    BY <1>10, <2>1, <2>2
<1> HIDE DEF high, timer
<1>12. /\ h.st = "NORMAL" /\ h.st \in {"STARTUP", "NORMAL", "RECOVERY"}
       /\ h.high \in Nat /\ h.timer \in Nat /\ OutOK(h.out)
       /\ h.high # last_acked => h.timer # 0
       /\ h.wake \in Nat /\ (h.wake = FOREVER \/ now' <= h.wake)
  BY <1>7, <1>9, <1>10, <1>11
<1> HIDE DEF h
<1>13. ProcessAck(h, theAck.ackno, d)
  BY <1>1 DEF ProcessAck
<1>14. /\ PathNext /\ After(pendingsources') /\ SourceType' /\ FlowInv'
       /\ cumulative_ack' \in Nat /\ received' \in Seq(Nat)
       /\ state' \in {h.st, "NORMAL", "RECOVERY"}
       /\ endhost = "PKTPAIR" /\ state = "STARTUP" => PairChain(pendingsources', first_rto)
  BY ONLY <1>1, <1>2, <1>3, <1>6, <1>12, <1>13, IInv, d \in Disturbance, AckProcessed
<1>15. EndHostType'
  BY <1>1, <1>6, <1>14, PairEnd
<1>16. SourceChain(pendingsources', state', first_rto')
  BY <1>1, <1>2, <1>12, <1>14 DEF SourceChain
<1> QED
  BY <1>2, <1>14, <1>15, <1>16 DEF StepOK

-----------------------------------------------------------------------------
(* The events that both end hosts have.                                    *)

(* Whichever end host the flow has, that one stays as it is.               *)
Elsewhere == UNCHANGED <<endhost, last_rtt_bytes, estimateVars, pairVars>>

LEMMA ElsewhereEnd ==
  ASSUME IInv, Elsewhere, PathNext
  PROVE  EndHostType' /\ endhost' = endhost /\ first_rto' = first_rto
<1>1. endhost \in {"TIMELY", "PKTPAIR"} /\ SourceNow
  BY SourceFacts DEF IInv, TypeInv
<1>2. /\ endhost' = endhost /\ last_rtt_bytes' = last_rtt_bytes /\ first_rto' = first_rto
      /\ pktpair_ewma' = pktpair_ewma /\ UNCHANGED pairVars
  BY DEF Elsewhere, estimateVars
<1>3. CASE endhost = "TIMELY"
  <2>1. OfTimely /\ last_rtt_bytes' \in Nat
    BY <1>1, <1>2, <1>3 DEF OfTimely, Elsewhere, SourceNow
  <2> QED
    BY <1>2, <2>1, TimelyEnd
<1>4. CASE endhost = "PKTPAIR"
  <2>1. OfPair /\ first_rto' \in Nat /\ pktpair_ewma' \in Nat
    BY <1>1, <1>2, <1>4 DEF OfPair, SourceNow
  <2> QED
    BY <1>2, <2>1, PairEnd
<1> QED
  BY <1>1, <1>3, <1>4

(* A source whose packets are about does nothing.                          *)
LEMMA SourceStill ==
  ASSUME IInv, UNCHANGED sourceVars, endhost' = endhost, ~ PathEmpty,
         cumulative_ack' \in Nat, cumulative_ack <= cumulative_ack'
  PROVE  SourceType' /\ FlowInv' /\ state' = state
<1>1. /\ state' = state /\ recover_seq' = recover_seq /\ dupacks' = dupacks
      /\ highest_sent' = highest_sent /\ last_acked' = last_acked
      /\ packets_sent' = packets_sent /\ bdp' = bdp /\ gap' = gap
      /\ rtt' = rtt /\ mdev' = mdev /\ rto' = rto /\ min_rtt' = min_rtt
      /\ rto_timeout' = rto_timeout
  BY DEF sourceVars, ackVars, rttVars
<1>2. SourceNow
  BY SourceFacts
<1>3. state \notin {"IDLE", "DELETED"}
  BY DEF IInv, FlowInv
<1>4. SourceType'
  BY ONLY <1>1, <1>2 DEF SourceType, SourceNow
<1>5. TimerSet'
  BY ONLY <1>1, <1>2 DEF SourceNow, TimerSet, Active
<1>6. PICK c \in Nat : c = cumulative_ack' /\ cumulative_ack <= c
  OBVIOUS
<1>7. /\ last_acked' < FLOWSIZE
      /\ state' \in {"FINISH", "DELETED"} => cumulative_ack' >= FLOWSIZE
      /\ endhost' = "TIMELY" => gap' > 0
  <2>1. /\ last_acked < FLOWSIZE /\ (endhost = "TIMELY" => gap > 0) /\ cumulative_ack \in Nat
        /\ state \in {"FINISH", "DELETED"} => cumulative_ack >= FLOWSIZE
    BY ONLY <1>2 DEF SourceNow
  <2>2. state \in {"FINISH", "DELETED"} => c >= FLOWSIZE
    BY ONLY <1>6, <2>1, RateSourceAssumption, c \in Nat
  <2> QED
    BY ONLY <1>1, <1>6, <2>1, <2>2, endhost' = endhost
<1> QED
  BY <1>1, <1>3, <1>4, <1>5, <1>7 DEF FlowInv

LEMMA AckIgnoredInv ==
  ASSUME IInv, Elsewhere, NEW d \in Disturbance, AckIgnored(d)
  PROVE  StepOK
<1> DEFINE none == <<>>
<1>1. /\ AckEvent /\ Transmit(none, d) /\ AckScheduled(none, FOREVER, d) /\ UNCHANGED sourceVars
  BY DEF AckIgnored
<1>2. OutOK(none) /\ FOREVER \in Nat /\ (FOREVER = FOREVER \/ now' <= FOREVER)
  BY OutFacts, RateSourceAssumption
<1> HIDE DEF none
<1>3. /\ PathNext /\ After(pendingsources')
      /\ cumulative_ack' \in Nat /\ received' \in Seq(Nat)
      /\ cumulative_ack' = cumulative_ack /\ ~ PathEmpty
      /\ FOREVER = FOREVER => SourceChain(pendingsources', state, first_rto)
  BY ONLY <1>1, <1>2, IInv, d \in Disturbance, AckStep
<1>4. EndHostType' /\ endhost' = endhost /\ first_rto' = first_rto
  BY <1>3, ElsewhereEnd
<1>5. SourceType' /\ FlowInv' /\ state' = state
  BY ONLY <1>1, <1>3, <1>4, IInv, cumulative_ack <= cumulative_ack', SourceStill
<1> QED
  BY <1>3, <1>4, <1>5 DEF StepOK

(* The ack of the whole flow: the sink has it.                             *)
LEMMA AckFinishInv ==
  ASSUME IInv, Elsewhere, NEW d \in Disturbance, AckFinish(d)
  PROVE  StepOK
<1> DEFINE none == <<>>
<1>1. /\ AckEvent /\ Active /\ theAck.ackno >= FLOWSIZE /\ state' = "FINISH"
      /\ Transmit(none, d) /\ AckScheduled(none, FOREVER, d)
      /\ recover_seq' = recover_seq /\ dupacks' = dupacks
      /\ highest_sent' = highest_sent /\ last_acked' = last_acked
      /\ packets_sent' = packets_sent /\ bdp' = bdp /\ gap' = gap
      /\ rtt' = rtt /\ mdev' = mdev /\ rto' = rto /\ min_rtt' = min_rtt
      /\ rto_timeout' = rto_timeout
  BY DEF AckFinish, ackVars, rttVars
<1>2. OutOK(none) /\ FOREVER \in Nat /\ (FOREVER = FOREVER \/ now' <= FOREVER)
  BY OutFacts, RateSourceAssumption
<1> HIDE DEF none
<1>3. /\ PathNext /\ After(pendingsources')
      /\ cumulative_ack' \in Nat /\ received' \in Seq(Nat)
      /\ cumulative_ack' = cumulative_ack
      /\ FOREVER = FOREVER => SourceChain(pendingsources', state, first_rto)
  BY ONLY <1>1, <1>2, IInv, d \in Disturbance, AckStep
<1>4. EndHostType' /\ endhost' = endhost /\ first_rto' = first_rto
  BY <1>3, ElsewhereEnd
<1>5. SourceNow
  BY SourceFacts
<1>6. SourceType'
  BY ONLY <1>1, <1>5 DEF SourceType, SourceNow
<1>7. cumulative_ack >= FLOWSIZE
  <2>1. theAck.ackno \in Nat /\ theAck.ackno <= cumulative_ack
    BY <1>1, AckSeen
  <2>2. cumulative_ack \in Nat
    BY <1>5 DEF SourceNow
  <2> QED
    BY ONLY <1>1, <2>1, <2>2, RateSourceAssumption
<1>8. FlowInv'
  <2>1. TimerSet'
    BY <1>1 DEF TimerSet, Active
  <2>2. /\ last_acked' < FLOWSIZE /\ cumulative_ack' >= FLOWSIZE
        /\ endhost' = "TIMELY" => gap' > 0
    BY ONLY <1>1, <1>3, <1>4, <1>5, <1>7 DEF SourceNow
  <2> QED
    BY <1>1, <2>1, <2>2 DEF FlowInv
<1>9. SourceChain(pendingsources', state', first_rto')
  <2>1. /\ SourceChain(pendingsources', state, first_rto) /\ state # "DELETED"
        /\ state' \in {state, "NORMAL", "RECOVERY", "FINISH"}
    BY <1>1, <1>3 DEF Active
  <2>2. SourceChain(pendingsources', state', first_rto)
    BY ONLY <2>1, ChainGoesOn
  <2> QED
    BY <1>4, <2>2
<1> QED
  BY <1>3, <1>4, <1>6, <1>8, <1>9 DEF StepOK

LEMMA ServiceInv ==
  ASSUME IInv, Elsewhere, NEW d \in Disturbance, completeService(d),
         UNCHANGED <<sourceVars, sinkVars>>
  PROVE  StepOK
<1>1. UNCHANGED sourceVars /\ UNCHANGED sinkVars
  OBVIOUS
<1>2. /\ PathNext /\ After(pendingsources') /\ SameEvents(pendingsources, pendingsources', SOURCE)
      /\ enqueued # <<>>
  BY <1>1, ServiceCompletes
<1>3. EndHostType' /\ endhost' = endhost /\ first_rto' = first_rto
  BY <1>2, ElsewhereEnd
<1>4. /\ cumulative_ack' = cumulative_ack /\ received' = received
      /\ cumulative_ack \in Nat /\ received \in Seq(Nat)
  BY <1>1, SourceFacts DEF SourceNow, sinkVars
<1>5. ~ PathEmpty /\ cumulative_ack' \in Nat /\ cumulative_ack <= cumulative_ack'
  BY <1>2, <1>4 DEF PathEmpty
<1>6. SourceType' /\ FlowInv' /\ state' = state
  BY ONLY <1>1, <1>3, <1>5, IInv, SourceStill
<1>7. SourceChain(pendingsources', state, first_rto)
  <2>1. SourceChain(pendingsources, state, first_rto)
    BY DEF IInv
  <2> QED
    BY ONLY <1>2, <2>1, ChainKept
<1> QED
  BY <1>2, <1>3, <1>4, <1>6, <1>7 DEF StepOK

(* A segment arrives at the sink.                                          *)
LEMMA SegmentSeen ==
  ASSUME IInv, NextEventOf(FORWARD)
  PROVE  LET p == Head(inflight[FORWARD]).pkt
         IN  /\ Moment /\ inflight[FORWARD] # <<>>
             /\ p.seqno \in Nat /\ p.seqno <= FLOWSIZE /\ p.ts \in Nat /\ p.ts <= now
             /\ p.first \in BOOLEAN
<1> DEFINE p == Head(inflight[FORWARD]).pkt
<1>1. FORWARD \in Pipes
  BY Sources
<1>2. /\ Moment /\ inflight[FORWARD] # <<>>
      /\ Head(inflight[FORWARD]) = inflight[FORWARD][1] /\ 1 \in 1 .. Len(inflight[FORWARD])
  BY <1>1, PipeFires
<1>3. SegOK(p, now)
  BY <1>2 DEF IInv, FlightOK
<1> HIDE DEF p
<1>4. p.seqno \in Nat /\ p.seqno <= FLOWSIZE /\ p.ts \in Nat /\ p.ts <= now /\ p.first \in BOOLEAN
  BY ONLY <1>3 DEF SegOK, Seg
<1> QED
  BY <1>2, <1>4 DEF p

(* It is answered by at most one ack, and after the last byte none adds to *)
(* what the sink has.                                                      *)
Answered ==
  /\ Len(inflight'[FORWARD]) = Len(inflight[FORWARD]) - 1 /\ inflight[FORWARD] # <<>>
  /\ Len(inflight'[BACK]) \in {Len(inflight[BACK]), Len(inflight[BACK]) + 1}
  /\ enqueued' = enqueued /\ SameEvents(pendingsources, pendingsources', QUEUE)
  /\ cumulative_ack <= cumulative_ack'
  /\ cumulative_ack >= FLOWSIZE => cumulative_ack' = cumulative_ack

(* The sink takes it, and acks what it has.                                *)
LEMMA SinkStep ==
  ASSUME IInv, NextEventOf(FORWARD), NEW d \in Disturbance,
         UNCHANGED sourceVars, endhost' = endhost,
         processDataPacket(Head(inflight[FORWARD]).pkt.seqno),
         NEW ack, SinkEvent(ack, d),
         ack.ackno = cumulative_ack', ack.ts = Head(inflight[FORWARD]).pkt.ts,
         cumulative_ack' \in Nat =>
           ack \in IF endhost = "TIMELY" THEN PlainAck ELSE PairAck
  PROVE  /\ PathNext /\ After(pendingsources') /\ SourceType' /\ FlowInv'
         /\ cumulative_ack' \in Nat /\ received' \in Seq(Nat)
         /\ SourceChain(pendingsources', state', first_rto)
         /\ Answered
<1> DEFINE s == Head(inflight[FORWARD]).pkt.seqno
           ts == Head(inflight[FORWARD]).pkt.ts
<1>1. /\ Moment /\ inflight[FORWARD] # <<>>
      /\ s \in Nat /\ s <= FLOWSIZE /\ ts \in Nat /\ ts <= now
  BY SegmentSeen
<1>2. processDataPacket(s) /\ ack.ts = ts
  OBVIOUS
<1> HIDE DEF s, ts
<1>3. cumulative_ack \in Nat /\ received \in Seq(Nat) /\ now \in Nat
  BY SourceFacts DEF SourceNow
<1>4. /\ cumulative_ack' \in Nat /\ received' \in Seq(Nat) /\ cumulative_ack <= cumulative_ack'
      /\ s <= cumulative_ack => cumulative_ack' = cumulative_ack
  BY ONLY <1>1, <1>2, <1>3, SinkFacts
<1>5. AckOK(ack, now', cumulative_ack')
  <2>1. PICK t \in Nat : t = now' /\ now <= t
    BY <1>1 DEF Moment
  <2>2. ts <= t
    BY ONLY <1>1, <1>3, <2>1, t \in Nat
  <2>3. ack \in IF endhost = "TIMELY" THEN PlainAck ELSE PairAck
    BY <1>4
  <2>4. PICK c \in Nat : c = cumulative_ack'
    BY <1>4
  <2>5. ack.ackno <= c
    BY <2>4
  <2> QED
    BY <1>2, <2>1, <2>2, <2>3, <2>4, <2>5 DEF AckOK
<1>6. /\ PathNext /\ After(pendingsources') /\ SameEvents(pendingsources, pendingsources', SOURCE)
      /\ SameEvents(pendingsources, pendingsources', QUEUE)
      /\ Len(inflight'[FORWARD]) = Len(inflight[FORWARD]) - 1 /\ inflight[FORWARD] # <<>>
      /\ Len(inflight'[BACK]) \in {Len(inflight[BACK]), Len(inflight[BACK]) + 1}
      /\ enqueued' = enqueued
  BY <1>4, <1>5, SinkArrives
<1>7. ~ PathEmpty
  BY <1>1 DEF PathEmpty
<1>8. SourceType' /\ FlowInv' /\ state' = state
  BY ONLY <1>4, <1>7, IInv, UNCHANGED sourceVars, endhost' = endhost, SourceStill
<1>9. SourceChain(pendingsources', state, first_rto)
  <2>1. SourceChain(pendingsources, state, first_rto)
    BY DEF IInv
  <2> QED
    BY ONLY <1>6, <2>1, ChainKept
<1>10. Answered
  <2>1. cumulative_ack >= FLOWSIZE => s <= cumulative_ack
    BY ONLY <1>1, <1>3, RateSourceAssumption
  <2> QED
    BY ONLY <1>4, <1>6, <2>1 DEF Answered
<1> QED
  BY <1>4, <1>6, <1>8, <1>9, <1>10

LEMMA TimelySinkReceiveInv ==
  ASSUME IInv, OfTimely, NEW d \in Disturbance, TimelySinkReceive(d)
  PROVE  StepOK /\ Answered
<1> DEFINE p == Head(inflight[FORWARD]).pkt
           ack == [ackno |-> cumulative_ack', ts |-> p.ts]
<1>1. /\ NextEventOf(FORWARD) /\ processDataPacket(p.seqno) /\ SinkEvent(ack, d)
      /\ UNCHANGED sourceVars /\ last_rtt_bytes' = last_rtt_bytes
  BY DEF TimelySinkReceive
<1>2. endhost = "TIMELY" /\ endhost' = endhost /\ first_rto' = first_rto
  BY DEF OfTimely, estimateVars
<1>3. p.ts \in Nat
  BY <1>1, SegmentSeen
<1>4. /\ ack.ackno = cumulative_ack' /\ ack.ts = p.ts
      /\ cumulative_ack' \in Nat => ack \in IF endhost = "TIMELY" THEN PlainAck ELSE PairAck
  BY <1>2, <1>3 DEF PlainAck
<1> HIDE DEF ack
<1>5. /\ PathNext /\ After(pendingsources') /\ SourceType' /\ FlowInv'
      /\ cumulative_ack' \in Nat /\ received' \in Seq(Nat)
      /\ SourceChain(pendingsources', state', first_rto) /\ Answered
  BY ONLY <1>1, <1>2, <1>4, IInv, d \in Disturbance, SinkStep
<1>6. EndHostType'
  <2>1. last_rtt_bytes' \in Nat
    BY <1>1, SourceFacts DEF SourceNow
  <2> QED
    BY <1>5, <2>1, TimelyEnd
<1> QED
  BY <1>2, <1>5, <1>6 DEF StepOK

LEMMA PacketPairSinkReceiveInv ==
  ASSUME IInv, OfPair, NEW d \in Disturbance, PacketPairSinkReceive(d)
  PROVE  StepOK /\ Answered
<1> DEFINE p == Head(inflight[FORWARD]).pkt
           ack == [ackno |-> cumulative_ack', ts |-> p.ts, diff |-> pktpairdiff']
<1>1. /\ NextEventOf(FORWARD) /\ processDataPacket(p.seqno) /\ SinkEvent(ack, d)
      /\ pktpairdiff' = Measured(p)
      /\ first_pair_ts' = IF p.first THEN now' ELSE 0
      /\ first_pair_seqno' = IF p.first THEN p.seqno ELSE 0
      /\ UNCHANGED sourceVars /\ first_rto' = first_rto /\ pktpair_ewma' = pktpair_ewma
  BY DEF PacketPairSinkReceive, estimateVars
<1>2. endhost = "PKTPAIR" /\ endhost' = endhost /\ last_rtt_bytes' = last_rtt_bytes
  BY DEF OfPair
<1>3. p.ts \in Nat /\ p.seqno \in Nat /\ Moment
  BY <1>1, SegmentSeen
<1>4. /\ now \in Nat /\ first_pair_ts \in Nat /\ first_pair_ts <= now
      /\ last_rtt_bytes \in Nat /\ first_rto \in Nat /\ pktpair_ewma \in Nat
  BY DEF IInv, TypeInv, EndHostType
<1>5. PICK t \in Nat : t = now' /\ now <= t
  BY <1>3 DEF Moment
<1>6. pktpairdiff' \in Nat
  <2>1. t - first_pair_ts \in Nat
    <3>1. PICK f \in Nat, n \in Nat : f = first_pair_ts /\ n = now /\ f <= n
      BY ONLY <1>4
    <3>2. n <= t
      BY ONLY <1>5, <3>1
    <3>3. t - f \in Nat
      BY ONLY <3>1, <3>2, t \in Nat, n \in Nat, f \in Nat
    <3> QED
      BY ONLY <3>1, <3>3
  <2>2. pktpairdiff' \in {t - first_pair_ts, 0}
    BY <1>1, <1>5 DEF Measured
  <2> QED
    BY <2>1, <2>2
<1>7. /\ ack.ackno = cumulative_ack' /\ ack.ts = p.ts
      /\ cumulative_ack' \in Nat => ack \in IF endhost = "TIMELY" THEN PlainAck ELSE PairAck
  BY <1>2, <1>3, <1>6 DEF PairAck
<1> HIDE DEF ack
<1>8. /\ PathNext /\ After(pendingsources') /\ SourceType' /\ FlowInv'
      /\ cumulative_ack' \in Nat /\ received' \in Seq(Nat)
      /\ SourceChain(pendingsources', state', first_rto) /\ Answered
  BY ONLY <1>1, <1>2, <1>7, IInv, d \in Disturbance, SinkStep
<1>9. EndHostType'
  <2>1. /\ first_pair_ts' \in {t, 0} /\ first_pair_seqno' \in {p.seqno, 0}
    BY <1>1, <1>5
  <2> HIDE DEF p
  <2>2. PICK f \in Nat : f = first_pair_ts' /\ f <= t
    BY <2>1
  <2>3. first_pair_seqno' \in Nat
    BY <1>3, <2>1
  <2> QED
    BY ONLY <1>1, <1>2, <1>4, <1>5, <1>6, <2>2, <2>3 DEF EndHostType
<1> QED
  BY <1>1, <1>2, <1>8, <1>9 DEF StepOK

-----------------------------------------------------------------------------
(* Every step.                                                             *)

LEMMA TimelyStep ==
  ASSUME IInv, OfTimely, TimelyNext
  PROVE  StepOK
<1>1. CASE TimelyCleanUp
  BY <1>1, TimelyCleanUpInv
<1>2. CASE TimelyDrain
  BY <1>2, TimelyDrainInv
<1>3. ASSUME NEW d \in Disturbance, TimelyStart(d)
      PROVE  StepOK
  BY <1>3, TimelyStartInv
<1>4. ASSUME NEW d \in Disturbance, TimelyTimeout(d)
      PROVE  StepOK
  BY <1>4, TimelyTimeoutInv
<1>5. ASSUME NEW d \in Disturbance, TimelyPace(d)
      PROVE  StepOK
  BY <1>5, TimelyPaceInv
<1>6. ASSUME NEW d \in Disturbance, TimelyAck(d)
      PROVE  StepOK
  BY <1>6, TimelyAckInv
<1>7. ASSUME NEW d \in Disturbance, TimelySinkReceive(d)
      PROVE  StepOK
  BY <1>7, TimelySinkReceiveInv
<1>8. ASSUME NEW d \in Disturbance, last_rtt_bytes' = last_rtt_bytes,
             \/ AckIgnored(d) \/ AckFinish(d)
             \/ completeService(d) /\ UNCHANGED <<sourceVars, sinkVars>>
      PROVE  StepOK
  <2>1. Elsewhere
    BY <1>8 DEF Elsewhere, OfTimely
  <2>2. CASE AckIgnored(d)
    BY <2>1, <2>2, AckIgnoredInv
  <2>3. CASE AckFinish(d)
    BY <2>1, <2>3, AckFinishInv
  <2>4. CASE completeService(d) /\ UNCHANGED <<sourceVars, sinkVars>>
    BY <2>1, <2>4, ServiceInv
  <2> QED
    BY <1>8, <2>2, <2>3, <2>4
<1> QED
  BY <1>1, <1>2, <1>3, <1>4, <1>5, <1>6, <1>7, <1>8 DEF TimelyNext

LEMMA PacketPairStep ==
  ASSUME IInv, OfPair, PacketPairNext
  PROVE  StepOK
<1>1. CASE FirstRtoPassed
  BY <1>1, FirstRtoPassedInv
<1>2. CASE PacketPairCleanUp
  BY <1>2, PacketPairCleanUpInv
<1>3. CASE PacketPairDrain
  BY <1>3, PacketPairDrainInv
<1>4. ASSUME NEW d \in Disturbance, PacketPairStart(d)
      PROVE  StepOK
  BY <1>4, PacketPairStartInv
<1>5. ASSUME NEW d \in Disturbance, PacketPairTimeout(d)
      PROVE  StepOK
  BY <1>5, PacketPairTimeoutInv
<1>6. ASSUME NEW d \in Disturbance, PacketPairPace(d)
      PROVE  StepOK
  BY <1>6, PacketPairPaceInv
<1>7. ASSUME NEW d \in Disturbance, FirstRtoTimeout(d)
      PROVE  StepOK
  BY <1>7, FirstRtoTimeoutInv
<1>8. ASSUME NEW d \in Disturbance, AckNoPair(d)
      PROVE  StepOK
  BY <1>8, AckNoPairInv
<1>9. ASSUME NEW d \in Disturbance, AckPair(d)
      PROVE  StepOK
  BY <1>9, AckPairInv
<1>10. ASSUME NEW d \in Disturbance, AckFirstPair(d)
       PROVE  StepOK
  BY <1>10, AckFirstPairInv
<1>11. ASSUME NEW d \in Disturbance, PacketPairSinkReceive(d)
       PROVE  StepOK
  BY <1>11, PacketPairSinkReceiveInv
<1>12. ASSUME NEW d \in Disturbance, UNCHANGED <<estimateVars, pairVars>>,
              \/ AckIgnored(d) \/ AckFinish(d)
              \/ completeService(d) /\ UNCHANGED <<sourceVars, sinkVars>>
       PROVE  StepOK
  <2>1. Elsewhere
    BY <1>12 DEF Elsewhere, OfPair
  <2>2. CASE AckIgnored(d)
    BY <2>1, <2>2, AckIgnoredInv
  <2>3. CASE AckFinish(d)
    BY <2>1, <2>3, AckFinishInv
  <2>4. CASE completeService(d) /\ UNCHANGED <<sourceVars, sinkVars>>
    BY <2>1, <2>4, ServiceInv
  <2> QED
    BY <1>12, <2>2, <2>3, <2>4
<1> QED
  BY <1>1, <1>2, <1>3, <1>4, <1>5, <1>6, <1>7, <1>8, <1>9, <1>10, <1>11, <1>12 DEF PacketPairNext

LEMMA NextStep ==
  ASSUME IInv, Next
  PROVE  StepOK
<1>1. CASE endhost = "TIMELY" /\ TimelyNext /\ UNCHANGED <<endhost, estimateVars, pairVars>>
  BY <1>1, TimelyStep DEF OfTimely
<1>2. CASE endhost = "PKTPAIR" /\ PacketPairNext /\ UNCHANGED <<endhost, last_rtt_bytes>>
  BY <1>2, PacketPairStep DEF OfPair
<1> QED
  BY <1>1, <1>2 DEF Next

LEMMA StutterInv ==
  ASSUME IInv, UNCHANGED vars
  PROVE  IInv'
<1>1. /\ endhost' = endhost /\ pendingsources' = pendingsources /\ now' = now
      /\ inflight' = inflight /\ enqueued' = enqueued /\ disturbances' = disturbances
      /\ cumulative_ack' = cumulative_ack /\ received' = received
      /\ state' = state /\ recover_seq' = recover_seq /\ dupacks' = dupacks
      /\ highest_sent' = highest_sent /\ last_acked' = last_acked
      /\ packets_sent' = packets_sent /\ bdp' = bdp /\ gap' = gap
      /\ rtt' = rtt /\ mdev' = mdev /\ rto' = rto /\ min_rtt' = min_rtt
      /\ rto_timeout' = rto_timeout
      /\ last_rtt_bytes' = last_rtt_bytes /\ first_rto' = first_rto
      /\ pktpair_ewma' = pktpair_ewma /\ pktpairdiff' = pktpairdiff
      /\ first_pair_ts' = first_pair_ts /\ first_pair_seqno' = first_pair_seqno
  BY DEF vars, pathVars, sinkVars, sourceVars, ackVars, rttVars, estimateVars, pairVars
<1>2. SourceType'
  BY ONLY <1>1, IInv DEF IInv, TypeInv, SourceType
<1>3. EndHostType'
  BY ONLY <1>1, IInv DEF IInv, TypeInv, EndHostType
<1>4. TypeInv'
  BY ONLY <1>1, <1>2, <1>3, IInv DEF IInv, TypeInv
<1>5. FlowInv'
  BY ONLY <1>1, IInv DEF IInv, FlowInv, TimerSet, Active, PathEmpty
<1>6. QueueOK(enqueued, now)' /\ ListOK(pendingsources, now)'
  BY ONLY <1>1, IInv DEF IInv, QueueOK, SegOK, ListOK, NotBefore, InOrder
<1>7. FlightOK(inflight, now, cumulative_ack)'
  BY ONLY <1>1, IInv DEF IInv, FlightOK, SegOK, AckOK, LineOK
<1>8. PathEvents(pendingsources, inflight, enqueued)'
  <2>1. PathEvents(pendingsources', inflight', enqueued')
    BY ONLY <1>1, IInv DEF IInv
  <2> QED
    BY ONLY <2>1 DEF PathEvents, OneEvent, QueueEvent, AtMostOne, EntriesOf
<1>9. SourceChain(pendingsources, state, first_rto)'
  BY ONLY <1>1, IInv DEF IInv, SourceChain, PairChain, StartChain, TimelyChain, AtMostOne, EntriesOf
<1> QED
  BY <1>4, <1>5, <1>6, <1>7, <1>8, <1>9 DEF IInv

LEMMA NextInv == IInv /\ [Next]_vars => IInv'
<1>1. ASSUME IInv, Next
      PROVE  IInv'
  BY <1>1, NextStep, StepInv
<1>2. ASSUME IInv, UNCHANGED vars
      PROVE  IInv'
  BY <1>2, StutterInv
<1> QED
  BY <1>1, <1>2

-----------------------------------------------------------------------------
(* What the inductive invariant implies.                                   *)

LEMMA TypesFollow == IInv => TypeOK
<1> SUFFICES ASSUME IInv
             PROVE  TypeOK
  OBVIOUS
<1>1. SourceNow
  BY SourceFacts
<1>2. {recover_seq, dupacks, highest_sent, last_acked, packets_sent, bdp, gap, rtt, mdev,
       rto, min_rtt, rto_timeout, first_rto, pktpair_ewma, now, cumulative_ack} \subseteq Nat
  BY ONLY <1>1 DEF SourceNow
<1>3. dupacks <= 65535
  BY ONLY <1>1 DEF SourceNow
<1>4. Len(enqueued) <= QUEUE_SIZE /\ disturbances \in 0 .. MAX_DISTURBANCES
  BY DEF IInv, QueueOK, TypeInv
<1>5. state \in {"IDLE", "STARTUP", "NORMAL", "RECOVERY", "FINISH", "DELETED"}
  BY ONLY <1>1 DEF SourceNow
<1> QED
  BY ONLY <1>2, <1>3, <1>4, <1>5 DEF TypeOK

LEMMA OneOrNone ==
  ASSUME NEW S, NEW a, S \subseteq {a}
  PROVE  /\ IsFiniteSet(S) /\ Cardinality(S) <= 1
         /\ S # {} => Cardinality(S) = 1
<1>1. CASE S = {}
  BY <1>1, FS_EmptySet
<1>2. CASE S = {a}
  <2>1. IsFiniteSet({a}) /\ Cardinality({a}) = 1
    BY FS_Singleton
  <2> QED
    BY <1>2, <2>1
<1> QED
  BY <1>1, <1>2

LEMMA AtMostTwo ==
  ASSUME NEW S, NEW a, NEW b, S \subseteq {a, b}
  PROVE  Cardinality(S) <= 2
<1>1. IsFiniteSet({a}) /\ Cardinality({a}) = 1
  BY FS_Singleton
<1>2. /\ IsFiniteSet({a} \cup {b})
      /\ Cardinality({a} \cup {b}) \in {Cardinality({a}), Cardinality({a}) + 1}
  BY <1>1, FS_AddElement
<1>3. {a} \cup {b} = {a, b}
  OBVIOUS
<1>4. /\ IsFiniteSet({a, b}) /\ Cardinality({a, b}) \in {1, 2}
  BY <1>1, <1>2, <1>3
<1>5. Cardinality(S) <= Cardinality({a, b}) /\ Cardinality(S) \in Nat
  BY <1>4, FS_Subset, FS_CardinalityType
<1> QED
  BY <1>4, <1>5

LEMMA ChainFollows ==
  ASSUME IInv, END_TIME = 0 \/ endhost = "PKTPAIR"
  PROVE  OneChain
<1> DEFINE S == SourceEvents
           others == {k \in SourceEvents : pendingsources[k].when # first_rto}
<1>1. /\ endhost \in {"TIMELY", "PKTPAIR"}
      /\ SourceChain(pendingsources, state, first_rto)
      /\ S = EntriesOf(pendingsources, SOURCE)
  BY DEF IInv, TypeInv, SourceEvents, EventsOf, EntriesOf
<1>2. CASE endhost = "TIMELY"
  <2>1. /\ \E a : S \subseteq {a}
        /\ state = "DELETED" => S = {}
        /\ state # "DELETED" => S # {}
    BY <1>1, <1>2 DEF SourceChain, TimelyChain, AtMostOne
  <2>2. Cardinality(S) = IF state = "DELETED" THEN 0 ELSE 1
    <3> HIDE DEF S
    <3> QED
      BY <2>1, OneOrNone, FS_EmptySet
  <2> QED
    BY <1>2, <2>2 DEF OneChain
<1>3. CASE endhost = "PKTPAIR"
  <2>1. PairChain(pendingsources, first_rto) /\ (state = "DELETED" => S = {})
    BY <1>1, <1>3 DEF SourceChain
  <2>2. PICK a, b : \A k \in S : k \in {a, b} /\ (k # a => pendingsources[k].when = first_rto)
    BY <1>1, <2>1 DEF PairChain
  <2>3. S \subseteq {a, b} /\ others \subseteq {a}
    BY <2>2
  <2>4. Cardinality(S) <= 2
    BY ONLY <2>3, AtMostTwo
  <2>5. Cardinality(others) <= 1
    BY ONLY <2>3, OneOrNone
  <2> QED
    BY <1>3, <2>1, <2>4, <2>5 DEF OneChain
<1> QED
  BY <1>1, <1>2, <1>3

(* The inductive invariant holds: source, path, sink and event list agree  *)
(* with each other whatever is lost and whatever other flows add.          *)
THEOREM InductiveInvariant == Spec => []IInv
BY InitInv, NextInv, PTL DEF Spec

(* Type correctness: the queue has no more than it has room for, no time   *)
(* runs below zero, and the uint16_t of duplicate acks stays one.          *)
THEOREM TypeCorrect == Spec => []TypeOK
BY TypesFollow, InductiveInvariant, PTL

(* A source that is not acknowledged everything has its timeout set.  While*)
(* the list takes every event, a TIMELY source has besides its event, and  *)
(* a packet-pair source in STARTUP the one that sends the first pair again.*)
THEOREM TimerAlwaysRunning ==
  Spec => []((Active /\ highest_sent # last_acked => rto_timeout # 0)
             /\ (END_TIME = 0 => TimerRunning))
<1>1. IInv => TimerSet
  BY DEF IInv, FlowInv
<1>2. IInv /\ END_TIME = 0 => TimerRunning
  <2> SUFFICES ASSUME IInv, END_TIME = 0, Active, highest_sent # last_acked
               PROVE  TimerRunning
    BY DEF TimerRunning
  <2>1. /\ endhost \in {"TIMELY", "PKTPAIR"}
        /\ SourceChain(pendingsources, state, first_rto)
        /\ SourceEvents = EntriesOf(pendingsources, SOURCE)
    BY DEF IInv, TypeInv, SourceEvents, EventsOf, EntriesOf
  <2>2. rto_timeout # 0
    BY <1>1 DEF TimerSet
  <2>3. ASSUME endhost = "TIMELY"
        PROVE  SourceEvents # {}
    BY <2>1, <2>3 DEF SourceChain, TimelyChain, Active
  <2>4. ASSUME endhost = "PKTPAIR", state = "STARTUP"
        PROVE  \E k \in SourceEvents : pendingsources[k].when = first_rto
    BY <2>1, <2>4 DEF SourceChain, StartChain
  <2> QED
    BY <2>1, <2>2, <2>3, <2>4 DEF TimerRunning
<1> QED
  BY <1>1, <1>2, InductiveInvariant, PTL DEF TimerSet

(* There is one chain of events of a source, and with packet pair the one  *)
(* event that would send the first pair again.  With a TIMELY source that  *)
(* is so while the list takes every event: past the end it has none.       *)
THEOREM OneSourceChain == Spec => [](END_TIME = 0 \/ endhost = "PKTPAIR" => OneChain)
<1>1. IInv => (END_TIME = 0 \/ endhost = "PKTPAIR" => OneChain)
  BY ChainFollows
<1> QED
  BY <1>1, InductiveInvariant, PTL

-----------------------------------------------------------------------------
(* The flow as ReliableFlow sees it.                                       *)

LEMMA PhaseFacts ==
  /\ state = "IDLE" => phase = "idle"
  /\ Active => phase = "running"
  /\ state = "FINISH" => phase = "finished"
  /\ state = "DELETED" => phase = "deleted"
BY DEF phase, Active

LEMMA PhaseFactsNext ==
  /\ state' = "IDLE" => phase' = "idle"
  /\ Active' => phase' = "running"
  /\ state' = "FINISH" => phase' = "finished"
  /\ state' = "DELETED" => phase' = "deleted"
BY DEF phase, Active

(* The packets are those in the queue and in the two pipes.                *)
LEMMA LengthTypes ==
  ASSUME NEW t, NEW c, NEW line, QueueOK(line, t), NEW flight, FlightOK(flight, t, c)
  PROVE  Len(line) \in Nat /\ Len(flight[FORWARD]) \in Nat /\ Len(flight[BACK]) \in Nat
<1>1. line \in Seq(Seg) /\ flight \in Flights
  BY DEF QueueOK, FlightOK
<1>2. flight[FORWARD] \in Seq(Slot) /\ flight[BACK] \in Seq(Slot)
  BY <1>1, Sources DEF Flights
<1> QED
  BY <1>1, <1>2

LEMMA CountsNow ==
  ASSUME IInv
  PROVE  /\ Len(enqueued) \in Nat /\ Len(inflight[FORWARD]) \in Nat /\ Len(inflight[BACK]) \in Nat
         /\ nPackets \in Nat
<1>1. Len(enqueued) \in Nat /\ Len(inflight[FORWARD]) \in Nat /\ Len(inflight[BACK]) \in Nat
  BY LengthTypes DEF IInv
<1>2. PICK q \in Nat, f \in Nat, b \in Nat :
        q = Len(enqueued) /\ f = Len(inflight[FORWARD]) /\ b = Len(inflight[BACK])
  BY <1>1
<1>3. nPackets = q + f + b
  BY <1>2 DEF nPackets
<1>4. nPackets \in Nat
  BY ONLY <1>3, q \in Nat, f \in Nat, b \in Nat
<1> QED
  BY <1>1, <1>4

LEMMA CountsThen ==
  ASSUME StepOK
  PROVE  /\ Len(enqueued') \in Nat /\ Len(inflight'[FORWARD]) \in Nat
         /\ Len(inflight'[BACK]) \in Nat /\ nPackets' \in Nat
<1>1. /\ Len(enqueued') \in Nat /\ Len(inflight'[FORWARD]) \in Nat
      /\ Len(inflight'[BACK]) \in Nat
  <2>1. QueueOK(enqueued', now') /\ FlightOK(inflight', now', cumulative_ack')
    BY DEF StepOK, PathNext
  <2> QED
    BY ONLY <2>1, LengthTypes
<1>2. PICK q \in Nat, f \in Nat, b \in Nat :
        q = Len(enqueued') /\ f = Len(inflight'[FORWARD]) /\ b = Len(inflight'[BACK])
  BY <1>1
<1>3. nPackets' = q + f + b
  BY <1>2 DEF nPackets
<1>4. nPackets' \in Nat
  BY ONLY <1>3, q \in Nat, f \in Nat, b \in Nat
<1> QED
  BY <1>1, <1>4

(* A source that has neither begun nor been deleted runs or has finished.  *)
LEMMA Phases ==
  ASSUME IInv
  PROVE  /\ state \in {"IDLE", "DELETED"} \/ Active \/ state = "FINISH"
         /\ state \in {"IDLE", "DELETED"} => PathEmpty
<1>1. SourceNow
  BY SourceFacts
<1> QED
  BY <1>1 DEF SourceNow, Active, IInv, FlowInv

LEMMA StartStep ==
  ASSUME StepOK, state = "IDLE", Active', UNCHANGED sinkVars
  PROVE  Reliable!Start
<1>1. phase = "idle" /\ phase' = "running" /\ nPackets' \in Nat
  BY PhaseFacts, PhaseFactsNext, CountsThen
<1> QED
  BY <1>1 DEF Reliable!Start, sinkVars

LEMMA RunningStep ==
  ASSUME StepOK, Active, Active', UNCHANGED sinkVars
  PROVE  Reliable!Send
<1>1. phase = "running" /\ phase' = "running" /\ nPackets' \in Nat
  BY PhaseFacts, PhaseFactsNext, CountsThen
<1> QED
  BY <1>1 DEF Reliable!Send, sinkVars

(* A finished source leaves everything as it is.                           *)
LEMMA QuietStep ==
  ASSUME IInv, state = "FINISH", state' = state, UNCHANGED <<pathVars, sinkVars>>
  PROVE  Reliable!Drain
<1>1. phase = "finished" /\ phase' = "finished"
  BY PhaseFacts, PhaseFactsNext
<1>2. nPackets \in Nat /\ nPackets' = nPackets /\ cumulative_ack' = cumulative_ack
  BY CountsNow DEF nPackets, pathVars, sinkVars
<1> QED
  BY <1>1, <1>2 DEF Reliable!Drain

LEMMA DeleteStep ==
  ASSUME state = "FINISH", state' = "DELETED", nPackets = 0, UNCHANGED <<pathVars, sinkVars>>
  PROVE  Reliable!Delete
<1>1. phase = "finished" /\ phase' = "deleted"
  BY PhaseFacts, PhaseFactsNext
<1>2. nPackets' = nPackets /\ cumulative_ack' = cumulative_ack
  BY DEF nPackets, pathVars, sinkVars
<1> QED
  BY <1>1, <1>2 DEF Reliable!Delete

(* An ack that sends nothing has left.                                     *)
LEMMA AckLeaves ==
  ASSUME IInv, AckEvent, NEW d \in Disturbance,
         Transmit(<<>>, d), AckScheduled(<<>>, FOREVER, d), StepOK
  PROVE  nPackets' < nPackets
<1> DEFINE none == <<>>
<1>1. OutOK(none) /\ none = <<>> /\ FOREVER \in Nat /\ (FOREVER = FOREVER \/ now' <= FOREVER)
  BY OutFacts, RateSourceAssumption
<1>2. Transmit(none, d) /\ AckScheduled(none, FOREVER, d)
  OBVIOUS
<1> HIDE DEF none
<1>3. none \in Seq(Seg) /\ \A k \in 1 .. Len(none) : SegOK(none[k], now')
  BY <1>1 DEF OutOK
<1>4. /\ Len(inflight'[BACK]) = Len(inflight[BACK]) - 1
      /\ inflight'[FORWARD] = inflight[FORWARD] /\ enqueued' = enqueued
  BY ONLY <1>1, <1>2, <1>3, IInv, AckEvent, d \in Disturbance, AckArrives
<1>5. PICK q \in Nat, f \in Nat, b \in Nat :
        q = Len(enqueued) /\ f = Len(inflight[FORWARD]) /\ b = Len(inflight[BACK])
  BY CountsNow
<1>6. nPackets = q + f + b
  BY <1>5 DEF nPackets
<1>7. nPackets' = q + f + (b - 1)
  BY <1>4, <1>5 DEF nPackets
<1> QED
  BY ONLY <1>6, <1>7, q \in Nat, f \in Nat, b \in Nat

LEMMA AckIgnoredStep ==
  ASSUME IInv, NEW d \in Disturbance, AckIgnored(d), StepOK
  PROVE  Reliable!Send \/ Reliable!Drain
<1>1. /\ AckEvent /\ Transmit(<<>>, d) /\ AckScheduled(<<>>, FOREVER, d)
      /\ state' = state /\ UNCHANGED sinkVars
  BY DEF AckIgnored, AckEvent, sourceVars
<1>2. nPackets' < nPackets
  BY <1>1, AckLeaves
<1>3. ~ PathEmpty
  BY <1>1, AckSeen DEF PathEmpty
<1>4. CASE Active
  <2>1. Active'
    BY <1>1, <1>4 DEF Active
  <2> QED
    BY <1>1, <1>4, <2>1, RunningStep
<1>5. CASE state = "FINISH"
  <2>1. phase = "finished" /\ phase' = "finished" /\ cumulative_ack' = cumulative_ack
    BY <1>1, <1>5, PhaseFacts, PhaseFactsNext DEF sinkVars
  <2>2. nPackets \in Nat /\ nPackets' \in Nat
    BY CountsNow, CountsThen
  <2>3. nPackets' <= nPackets
    BY ONLY <1>2, <2>2
  <2> QED
    BY <2>1, <2>2, <2>3 DEF Reliable!Drain
<1> QED
  BY <1>3, <1>4, <1>5, Phases

LEMMA AckFinishStep ==
  ASSUME IInv, NEW d \in Disturbance, AckFinish(d), StepOK
  PROVE  Reliable!Finish
<1>1. /\ AckEvent /\ Transmit(<<>>, d) /\ AckScheduled(<<>>, FOREVER, d)
      /\ Active /\ theAck.ackno >= FLOWSIZE
      /\ state' = "FINISH" /\ UNCHANGED sinkVars
  BY DEF AckFinish, AckEvent
<1>2. nPackets' < nPackets
  BY <1>1, AckLeaves
<1>3. cumulative_ack >= FLOWSIZE
  <2>1. theAck.ackno \in Nat /\ theAck.ackno <= cumulative_ack
    BY <1>1, AckSeen
  <2>2. cumulative_ack \in Nat
    BY SourceFacts DEF SourceNow
  <2> QED
    BY ONLY <1>1, <2>1, <2>2, RateSourceAssumption
<1>4. phase = "running" /\ phase' = "finished" /\ cumulative_ack' = cumulative_ack
  BY <1>1, PhaseFacts, PhaseFactsNext DEF sinkVars
<1> QED
  BY <1>2, <1>3, <1>4 DEF Reliable!Finish

(* A segment that is served goes from the queue into the pipe.             *)
LEMMA ServiceStep ==
  ASSUME IInv, NEW d \in Disturbance, completeService(d),
         UNCHANGED sourceVars, UNCHANGED sinkVars, StepOK
  PROVE  Reliable!Send \/ Reliable!Drain
<1>1. /\ enqueued # <<>> /\ Len(enqueued') = Len(enqueued) - 1
      /\ Len(inflight'[FORWARD]) = Len(inflight[FORWARD]) + 1
      /\ inflight'[BACK] = inflight[BACK]
  BY ServiceCompletes
<1>2. PICK q \in Nat, f \in Nat, b \in Nat :
        q = Len(enqueued) /\ f = Len(inflight[FORWARD]) /\ b = Len(inflight[BACK])
  BY CountsNow
<1>3. nPackets' = nPackets
  <2>1. nPackets = q + f + b
    BY <1>2 DEF nPackets
  <2>2. nPackets' = (q - 1) + (f + 1) + b
    BY <1>1, <1>2 DEF nPackets
  <2> QED
    BY ONLY <2>1, <2>2, q \in Nat, f \in Nat, b \in Nat
<1>4. state' = state /\ ~ PathEmpty
  BY <1>1 DEF PathEmpty, sourceVars
<1>5. CASE Active
  <2>1. Active'
    BY <1>4, <1>5 DEF Active
  <2> QED
    BY <1>5, <2>1, RunningStep
<1>6. CASE state = "FINISH"
  <2>1. phase = "finished" /\ phase' = "finished" /\ cumulative_ack' = cumulative_ack
    BY <1>4, <1>6, PhaseFacts, PhaseFactsNext DEF sinkVars
  <2>2. nPackets \in Nat
    BY CountsNow
  <2> QED
    BY <1>3, <2>1, <2>2 DEF Reliable!Drain
<1> QED
  BY <1>4, <1>5, <1>6, Phases

(* A segment that arrives is answered by at most one ack.                  *)
LEMMA AnswerStep ==
  ASSUME IInv, Answered, UNCHANGED sourceVars, StepOK
  PROVE  Reliable!Send \/ Reliable!Deliver \/ Reliable!Drain
<1>1. PICK q \in Nat, f \in Nat, b \in Nat :
        q = Len(enqueued) /\ f = Len(inflight[FORWARD]) /\ b = Len(inflight[BACK])
  BY CountsNow
<1>2. /\ inflight[FORWARD] # <<>> /\ Len(inflight'[FORWARD]) = f - 1
      /\ Len(inflight'[BACK]) \in {b, b + 1} /\ enqueued' = enqueued
      /\ cumulative_ack <= cumulative_ack'
      /\ cumulative_ack >= FLOWSIZE => cumulative_ack' = cumulative_ack
  BY <1>1 DEF Answered
<1>3. f > 0
  <2>1. inflight \in Flights
    BY DEF IInv, FlightOK
  <2>2. inflight[FORWARD] \in Seq(Slot)
    BY <2>1, Sources DEF Flights
  <2> QED
    BY <1>1, <1>2, <2>2
<1>4. nPackets > 0 /\ nPackets' \in {nPackets - 1, nPackets}
  <2>1. nPackets = q + f + b
    BY <1>1 DEF nPackets
  <2>2. nPackets' = q + (f - 1) + b \/ nPackets' = q + (f - 1) + (b + 1)
    BY <1>1, <1>2 DEF nPackets
  <2>3. PICK n \in Nat : n = nPackets'
    BY CountsThen
  <2>4. n \in {q + f + b - 1, q + f + b} /\ q + f + b > 0
    BY ONLY <1>3, <2>2, <2>3, q \in Nat, f \in Nat, b \in Nat, n \in Nat
  <2> QED
    BY ONLY <2>1, <2>3, <2>4
<1>5. /\ cumulative_ack \in Nat /\ cumulative_ack' \in Nat
      /\ state = "FINISH" => cumulative_ack >= FLOWSIZE
  BY SourceFacts DEF SourceNow, StepOK
<1>6. state' = state /\ ~ PathEmpty /\ nPackets \in Nat /\ nPackets' \in Nat
  BY <1>2, CountsNow, CountsThen DEF PathEmpty, sourceVars
<1>7. CASE Active
  <2>1. phase = "running" /\ phase' = "running"
    BY <1>6, <1>7, PhaseFacts, PhaseFactsNext DEF Active
  <2>2. CASE cumulative_ack' = cumulative_ack
    BY <1>6, <2>1, <2>2 DEF Reliable!Send
  <2>3. CASE cumulative_ack' # cumulative_ack
    <3>1. cumulative_ack' > cumulative_ack
      <4>1. PICK c \in Nat : c = cumulative_ack'
        BY <1>5
      <4> QED
        BY ONLY <1>2, <1>5, <2>3, <4>1, c \in Nat
    <3> QED
      BY <1>4, <2>1, <3>1 DEF Reliable!Deliver
  <2> QED
    BY <2>2, <2>3
<1>8. CASE state = "FINISH"
  <2>1. phase = "finished" /\ phase' = "finished" /\ cumulative_ack' = cumulative_ack
    BY <1>2, <1>5, <1>6, <1>8, PhaseFacts, PhaseFactsNext
  <2>2. nPackets' <= nPackets
    <3>1. PICK n \in Nat, m \in Nat : n = nPackets /\ m = nPackets'
      BY <1>6
    <3>2. m \in {n - 1, n}
      BY ONLY <1>4, <3>1
    <3>3. m <= n
      BY ONLY <3>2, n \in Nat
    <3> QED
      BY ONLY <3>1, <3>3
  <2> QED
    BY <1>6, <2>1, <2>2 DEF Reliable!Drain
<1> QED
  BY <1>6, <1>7, <1>8, Phases

(* An ack that is taken leaves the source running.                         *)
LEMMA ProcessStep ==
  ASSUME StepOK, AckTaken, NEW h, h.st \in {"STARTUP", "NORMAL", "RECOVERY"},
         NEW ack, NEW d, ProcessAck(h, ack, d)
  PROVE  Reliable!Send
<1>1. state' \in {h.st, "NORMAL", "RECOVERY"}
  BY DEF ProcessAck, ProcessOpenAck, NewAck, PartialAck, RecoveredAck, DupAck, FastRetransmit
<1>2. Active' /\ Active /\ UNCHANGED sinkVars
  BY <1>1 DEF Active, AckTaken, AckEvent
<1> QED
  BY <1>2, RunningStep

LEMMA TimelyReliable ==
  ASSUME IInv, OfTimely, TimelyNext, StepOK
  PROVE  Reliable!Next
<1>1. ASSUME TimelyCleanUp
      PROVE  Reliable!Delete
  BY <1>1, DeleteStep DEF TimelyCleanUp
<1>2. ASSUME TimelyDrain
      PROVE  Reliable!Drain
  BY <1>2, QuietStep DEF TimelyDrain, sourceVars
<1>3. ASSUME NEW d \in Disturbance, TimelyStart(d)
      PROVE  Reliable!Start
  <2>1. state = "IDLE" /\ Active' /\ UNCHANGED sinkVars
    BY <1>3 DEF TimelyStart, SendAndReschedule, Active
  <2> QED
    BY <2>1, StartStep
<1>4. ASSUME NEW d \in Disturbance, TimelyTimeout(d)
      PROVE  Reliable!Send
  <2>1. Active /\ Active' /\ UNCHANGED sinkVars
    BY <1>4 DEF TimelyTimeout, Timeout, TimeoutDue, SendAndReschedule, Active
  <2> QED
    BY <2>1, RunningStep
<1>5. ASSUME NEW d \in Disturbance, TimelyPace(d)
      PROVE  Reliable!Send
  <2>1. Active /\ Active' /\ UNCHANGED sinkVars
    BY <1>5 DEF TimelyPace, SendAndReschedule, Active
  <2> QED
    BY <2>1, RunningStep
<1>6. ASSUME NEW d \in Disturbance, TimelyAck(d)
      PROVE  Reliable!Send
  <2>1. AckTaken /\ ProcessAck(Untouched, theAck.ackno, d)
    BY <1>6 DEF TimelyAck
  <2>2. Untouched.st \in {"STARTUP", "NORMAL", "RECOVERY"}
    BY <2>1 DEF AckTaken, Active, Untouched
  <2> QED
    BY <2>1, <2>2, ProcessStep
<1>7. ASSUME NEW d \in Disturbance, TimelySinkReceive(d)
      PROVE  Reliable!Send \/ Reliable!Deliver \/ Reliable!Drain
  <2>1. Answered /\ UNCHANGED sourceVars
    BY <1>7, TimelySinkReceiveInv DEF TimelySinkReceive
  <2> QED
    BY <2>1, AnswerStep
<1>8. ASSUME NEW d \in Disturbance,
             \/ AckIgnored(d) \/ AckFinish(d)
             \/ completeService(d) /\ UNCHANGED <<sourceVars, sinkVars>>
      PROVE  Reliable!Send \/ Reliable!Drain \/ Reliable!Finish
  BY <1>8, AckIgnoredStep, AckFinishStep, ServiceStep
<1> QED
  BY <1>1, <1>2, <1>3, <1>4, <1>5, <1>6, <1>7, <1>8 DEF TimelyNext, Reliable!Next

LEMMA PacketPairReliable ==
  ASSUME IInv, OfPair, PacketPairNext, StepOK
  PROVE  Reliable!Next
<1>1. ASSUME FirstRtoPassed
      PROVE  Reliable!Send \/ Reliable!Drain
  <2>1. /\ state # "DELETED" /\ ~ Restarts /\ state' = state /\ UNCHANGED pathVars
        /\ UNCHANGED sinkVars
    BY <1>1 DEF FirstRtoPassed, sourceVars
  <2>2. Active \/ state = "FINISH"
    BY <2>1, Phases DEF Restarts
  <2>3. Active => Active'
    BY <2>1 DEF Active
  <2> QED
    BY <2>1, <2>2, <2>3, RunningStep, QuietStep
<1>2. ASSUME PacketPairCleanUp
      PROVE  Reliable!Delete
  BY <1>2, DeleteStep DEF PacketPairCleanUp
<1>3. ASSUME PacketPairDrain
      PROVE  Reliable!Drain
  BY <1>3, QuietStep DEF PacketPairDrain, sourceVars
<1>4. ASSUME NEW d \in Disturbance, PacketPairStart(d)
      PROVE  Reliable!Start \/ Reliable!Send
  <2>1. /\ state = "IDLE" \/ Active
        /\ Active' /\ UNCHANGED sinkVars
    BY <1>4 DEF PacketPairStart, Restarts, SendPairAndReschedule, Active
  <2> QED
    BY <2>1, StartStep, RunningStep
<1>5. ASSUME NEW d \in Disturbance, PacketPairTimeout(d)
      PROVE  Reliable!Send
  <2>1. Active /\ Active' /\ UNCHANGED sinkVars
    BY <1>5 DEF PacketPairTimeout, Timeout, TimeoutDue, SendPairAndReschedule, Active
  <2> QED
    BY <2>1, RunningStep
<1>6. ASSUME NEW d \in Disturbance, PacketPairPace(d)
      PROVE  Reliable!Send
  <2>1. Active /\ Active' /\ UNCHANGED sinkVars
    BY <1>6 DEF PacketPairPace, SendPairAndReschedule, Active
  <2> QED
    BY <2>1, RunningStep
<1>7. ASSUME NEW d \in Disturbance, FirstRtoTimeout(d)
      PROVE  Reliable!Send
  <2>1. Active /\ Active' /\ UNCHANGED sinkVars
    BY <1>7 DEF FirstRtoTimeout, Timeout, TimeoutDue, Active
  <2> QED
    BY <2>1, RunningStep
<1>8. ASSUME NEW d \in Disturbance, AckNoPair(d) \/ AckPair(d)
      PROVE  Reliable!Send
  <2>1. AckTaken /\ ProcessAck(Untouched, theAck.ackno, d)
    BY <1>8 DEF AckNoPair, AckPair
  <2>2. Untouched.st \in {"STARTUP", "NORMAL", "RECOVERY"}
    BY <2>1 DEF AckTaken, Active, Untouched
  <2> QED
    BY <2>1, <2>2, ProcessStep
<1>9. ASSUME NEW d \in Disturbance, AckFirstPair(d)
      PROVE  Reliable!Send
  <2> DEFINE pair == Pair(highest_sent, bdp', dupacks)
             h == [st |-> "NORMAL",
                   high |-> highest_sent + MSS_BYTES * Len(pair),
                   timer |-> IF pair = <<>> THEN rto_timeout ELSE Armed(rto_timeout),
                   out |-> pair,
                   wake |-> now' + gap']
  <2>1. AckTaken /\ ProcessOpenAck(h, theAck.ackno, d)
    BY <1>9 DEF AckFirstPair
  <2>2. h.st \in {"STARTUP", "NORMAL", "RECOVERY"}
    OBVIOUS
  <2> HIDE DEF h
  <2>3. ProcessAck(h, theAck.ackno, d)
    BY <2>1 DEF ProcessAck
  <2> QED
    BY <2>1, <2>2, <2>3, ProcessStep
<1>10. ASSUME NEW d \in Disturbance, PacketPairSinkReceive(d)
       PROVE  Reliable!Send \/ Reliable!Deliver \/ Reliable!Drain
  <2>1. Answered /\ UNCHANGED sourceVars
    BY <1>10, PacketPairSinkReceiveInv DEF PacketPairSinkReceive
  <2> QED
    BY <2>1, AnswerStep
<1>11. ASSUME NEW d \in Disturbance,
              \/ AckIgnored(d) \/ AckFinish(d)
              \/ completeService(d) /\ UNCHANGED <<sourceVars, sinkVars>>
       PROVE  Reliable!Send \/ Reliable!Drain \/ Reliable!Finish
  BY <1>11, AckIgnoredStep, AckFinishStep, ServiceStep
<1> QED
  BY <1>1, <1>2, <1>3, <1>4, <1>5, <1>6, <1>7, <1>8, <1>9, <1>10, <1>11
  DEF PacketPairNext, Reliable!Next

LEMMA ReliableStep ==
  ASSUME IInv, [Next]_vars
  PROVE  [Reliable!Next]_(Reliable!vars)
<1>1. CASE UNCHANGED vars
  BY <1>1 DEF vars, pathVars, sinkVars, sourceVars, nPackets, phase, Active, Reliable!vars
<1>2. CASE Next
  <2>1. StepOK
    BY <1>2, NextStep
  <2>2. CASE endhost = "TIMELY" /\ TimelyNext /\ UNCHANGED <<endhost, estimateVars, pairVars>>
    BY <2>1, <2>2, TimelyReliable DEF OfTimely
  <2>3. CASE endhost = "PKTPAIR" /\ PacketPairNext /\ UNCHANGED <<endhost, last_rtt_bytes>>
    BY <2>1, <2>3, PacketPairReliable DEF OfPair
  <2> QED
    BY <1>2, <2>2, <2>3 DEF Next
<1> QED
  BY <1>1, <1>2

(* Both paced end hosts implement ReliableFlow: no ack is for what the     *)
(* sink does not have, a finished source sends nothing, not even when a    *)
(* timeout is due, and it is deleted when no packet is left.               *)
THEOREM Refinement == Spec => ImplementsReliableFlow
<1>1. Init => Reliable!Init
  <2> SUFFICES ASSUME Init
               PROVE  Reliable!Init
    OBVIOUS
  <2>1. /\ state = "IDLE" /\ cumulative_ack = 0
        /\ enqueued = <<>> /\ inflight = [i \in Pipes |-> <<>>]
    BY DEF Init, SourceInit, SinkInit, PathInit
  <2>2. inflight[FORWARD] = <<>> /\ inflight[BACK] = <<>>
    BY <2>1, Sources
  <2>3. nPackets = 0
    <3>1. Len(enqueued) = 0 /\ Len(inflight[FORWARD]) = 0 /\ Len(inflight[BACK]) = 0
      BY <2>1, <2>2
    <3> QED
      BY ONLY <3>1 DEF nPackets
  <2> QED
    BY <2>1, <2>3, PhaseFacts DEF Reliable!Init
<1>2. IInv /\ [Next]_vars => [Reliable!Next]_(Reliable!vars)
  BY ReliableStep
<1> QED
  BY <1>1, <1>2, InductiveInvariant, PTL DEF Spec, ImplementsReliableFlow, Reliable!Spec

-----------------------------------------------------------------------------
(* What a pair measures.  Nothing was sent again as long as highest_sent   *)
(* is packets_sent, and once they differ they always do, since packets_sent *)
(* then is beyond everything that was ever sent.                           *)

(* What the second segment of a pair takes at the bottleneck.              *)
Spacing == {SERVICE} \cup {SERVICE + x : x \in Extra}

(* The bytes of the flow that can have been sent at most.                  *)
Cap(high, total) == IF high = total THEN total ELSE total - 1

EndsBy(s, bytes) == s + MSS_BYTES <= bytes + 1

SentOK(bytes, acked, c, list, fwd, line) ==
  /\ acked <= bytes /\ c <= bytes
  /\ \A j \in 1 .. Len(list) : EndsBy(list[j], bytes)
  /\ \A j \in 1 .. Len(fwd) : EndsBy(fwd[j].pkt.seqno, bytes)
  /\ \A j \in 1 .. Len(line) : EndsBy(line[j].seqno, bytes)

(* The second segment of the pair that begins with s was sent with s, or   *)
(* there is none because the flow ends.                                    *)
Known(s, high) == s + MSS_BYTES <= high \/ FLOWSIZE <= high

(* A segment that leaves the queue next is at the sink in time after t.    *)
NextTimed(events, t) ==
  \A k \in EntriesOf(events, QUEUE) : (events[k].when + Delay[FORWARD]) - t \in Spacing

(* The segment s comes to the sink at t.  Where the segment behind it is,  *)
(* in the pipe after place n or in the queue, it comes in time after it.   *)
Lead(s, t, n, fwd, line, events) ==
  /\ \A k \in 1 .. Len(fwd) :
       n < k /\ fwd[k].pkt.seqno = s + MSS_BYTES => fwd[k].when - t \in Spacing
  /\ \A k \in 1 .. Len(line) :
       line[k].seqno = s + MSS_BYTES => k = 1 /\ NextTimed(events, t)

(* The same of all first segments of a pair: s, which came to the sink at  *)
(* t, those in the pipe and those in the queue.                            *)
InPipe(high, fwd, line, events, j) ==
  IF fwd[j].pkt.first
  THEN /\ Known(fwd[j].pkt.seqno, high)
       /\ Lead(fwd[j].pkt.seqno, fwd[j].when, j, fwd, line, events)
  ELSE MSS_BYTES < fwd[j].pkt.seqno

InQueue(high, line, j) ==
  IF line[j].first
  THEN /\ Known(line[j].seqno, high)
       /\ \A k \in 1 .. Len(line) : line[k].seqno = line[j].seqno + MSS_BYTES => k = j + 1
  ELSE MSS_BYTES < line[j].seqno

PairsOK(high, s, t, fwd, line, events) ==
  /\ s # 0 => Known(s, high) /\ Lead(s, t, 0, fwd, line, events)
  /\ \A j \in 1 .. Len(fwd) : InPipe(high, fwd, line, events, j)
  /\ \A j \in 1 .. Len(line) : InQueue(high, line, j)

PairInv ==
  /\ endhost = "TIMELY" => pktpairdiff = 0
  /\ endhost = "PKTPAIR" =>
       /\ IF state = "IDLE" THEN packets_sent = 0 ELSE MSS_BYTES <= packets_sent
       /\ highest_sent <= packets_sent
       /\ SentOK(Cap(highest_sent, packets_sent), last_acked, cumulative_ack, received,
                 inflight[FORWARD], enqueued)
       /\ highest_sent = packets_sent =>
            PairsOK(highest_sent, first_pair_seqno, first_pair_ts, inflight[FORWARD],
                    enqueued, pendingsources)
       /\ PairIsService

LEMMA TimedSame ==
  ASSUME NEW events, NEW out, SameEvents(events, out, QUEUE), NEW t, NextTimed(events, t)
  PROVE  NextTimed(out, t)
<1>1. PICK m : /\ \A k \in EntriesOf(events, QUEUE) : out[m[k]] = events[k]
               /\ \A j \in EntriesOf(out, QUEUE) : \E k \in EntriesOf(events, QUEUE) : m[k] = j
  BY DEF SameEvents, Onto
<1>2. ASSUME NEW j \in EntriesOf(out, QUEUE)
      PROVE  (out[j].when + Delay[FORWARD]) - t \in Spacing
  <2>1. PICK k \in EntriesOf(events, QUEUE) : m[k] = j
    BY <1>1
  <2>2. out[j] = events[k]
    BY <1>1, <2>1
  <2>3. (events[k].when + Delay[FORWARD]) - t \in Spacing
    BY DEF NextTimed
  <2> QED
    BY <2>2, <2>3
<1> QED
  BY <1>2 DEF NextTimed

(* Segments join the queue behind those that are in it.                    *)
Joined(line, in, both) ==
  /\ both \in Seq(Seg) /\ Len(both) = Len(line) + Len(in)
  /\ \A k \in 1 .. Len(line) : both[k] = line[k]
  /\ \A k \in 1 .. Len(both) :
       k \in 1 .. Len(line) \/ (k - Len(line) \in 1 .. Len(in) /\ both[k] = in[k - Len(line)])

LEMMA JoinedFacts ==
  ASSUME NEW line \in Seq(Seg), NEW in \in Seq(Seg)
  PROVE  Joined(line, in, line \o in)
<1> DEFINE both == line \o in
<1>1. PICK m \in Nat : m = Len(line)
  OBVIOUS
<1>2. PICK n \in Nat : n = Len(in)
  OBVIOUS
<1>3. /\ both \in Seq(Seg) /\ Len(both) = m + n
      /\ \A j \in 1 .. (m + n) : both[j] = IF j <= m THEN line[j] ELSE in[j - m]
  BY ONLY <1>1, <1>2, line \in Seq(Seg), in \in Seq(Seg), ConcatProperties, ZenonT(60)
<1> HIDE DEF both
<1>4. \A k \in 1 .. m : both[k] = line[k]
  BY ONLY <1>3, m \in Nat, n \in Nat
<1>5. \A k \in 1 .. (m + n) : k \in 1 .. m \/ (k - m \in 1 .. n /\ both[k] = in[k - m])
  BY ONLY <1>3, m \in Nat, n \in Nat
<1>6. Joined(line, in, both)
  BY ONLY <1>1, <1>2, <1>3, <1>4, <1>5 DEF Joined
<1> QED
  BY <1>6 DEF both

(* New segments are none that a first segment waits for.                   *)
LEMMA LeadKept ==
  ASSUME NEW s \in Nat, NEW t, NEW n, NEW fwd, NEW line \in Seq(Seg), NEW in \in Seq(Seg),
         NEW events, NEW out, NEW both, Joined(line, in, both),
         NEW high \in Nat, NEW high2 \in Nat, high <= high2, Known(s, high),
         Lead(s, t, n, fwd, line, events),
         \A k \in 1 .. Len(in) : high < FLOWSIZE /\ high < in[k].seqno,
         line # <<>> => SameEvents(events, out, QUEUE)
  PROVE  Known(s, high2) /\ Lead(s, t, n, fwd, both, out)
<1>1. PICK mss \in Nat : mss = MSS_BYTES
  BY DataSinkAssumption
<1>2. PICK size \in Nat : size = FLOWSIZE
  BY RateSourceAssumption
<1>3. Known(s, high2)
  <2>1. s + mss <= high \/ size <= high
    BY <1>1, <1>2 DEF Known
  <2>2. s + mss <= high2 \/ size <= high2
    BY ONLY <2>1, high <= high2, high \in Nat, high2 \in Nat, s \in Nat, mss \in Nat, size \in Nat
  <2> QED
    BY <1>1, <1>2, <2>2 DEF Known
<1>4. ASSUME NEW k \in 1 .. Len(both), both[k].seqno = s + MSS_BYTES
      PROVE  k = 1 /\ NextTimed(out, t)
  <2>1. CASE k \in 1 .. Len(line)
    <3>1. both[k] = line[k] /\ line # <<>>
      BY <2>1 DEF Joined
    <3>2. k = 1 /\ NextTimed(events, t)
      BY <1>4, <2>1, <3>1 DEF Lead
    <3> QED
      BY <3>1, <3>2, TimedSame
  <2>2. CASE k \notin 1 .. Len(line)
    <3>1. k - Len(line) \in 1 .. Len(in) /\ both[k] = in[k - Len(line)]
      BY <2>2 DEF Joined
    <3>2. high < size /\ high < s + mss
      BY <1>1, <1>2, <1>4, <3>1
    <3>3. s + mss <= high \/ size <= high
      BY <1>1, <1>2 DEF Known
    <3>4. FALSE
      BY ONLY <3>2, <3>3, high \in Nat, s \in Nat, mss \in Nat, size \in Nat
    <3> QED
      BY <3>4
  <2> QED
    BY <2>1, <2>2
<1> QED
  BY <1>3, <1>4 DEF Lead

LEMMA MoreSegments ==
  ASSUME NEW s \in Nat, NEW t, NEW fwd, \A j \in 1 .. Len(fwd) : fwd[j].pkt.seqno \in Nat,
         NEW line \in Seq(Seg), NEW in \in Seq(Seg), NEW events, NEW out,
         NEW high \in Nat, NEW high2 \in Nat, high <= high2,
         PairsOK(high, s, t, fwd, line, events),
         \A k \in 1 .. Len(line) : EndsBy(line[k].seqno, high),
         \A k \in 1 .. Len(in) : /\ high < FLOWSIZE /\ high < in[k].seqno
                                /\ InQueue(high2, in, k),
         line # <<>> => SameEvents(events, out, QUEUE)
  PROVE  PairsOK(high2, s, t, fwd, line \o in, out)
<1> DEFINE both == line \o in
<1>1. Joined(line, in, both)
  BY JoinedFacts
<1> HIDE DEF both
<1>2. PICK mss \in Nat \ {0} : mss = MSS_BYTES
  BY DataSinkAssumption
<1>3. \A k \in 1 .. Len(in) : high < FLOWSIZE /\ high < in[k].seqno
  OBVIOUS
<1>4. ASSUME s # 0
      PROVE  Known(s, high2) /\ Lead(s, t, 0, fwd, both, out)
  <2>1. Known(s, high) /\ Lead(s, t, 0, fwd, line, events)
    BY <1>4 DEF PairsOK
  <2> QED
    BY ONLY <1>1, <1>3, <2>1, LeadKept, s \in Nat, line \in Seq(Seg), in \in Seq(Seg),
            high \in Nat, high2 \in Nat, high <= high2,
            line # <<>> => SameEvents(events, out, QUEUE)
<1>5. ASSUME NEW j \in 1 .. Len(fwd)
      PROVE  InPipe(high2, fwd, both, out, j)
  <2>1. CASE fwd[j].pkt.first
    <3>1. PICK p \in Nat : p = fwd[j].pkt.seqno
      OBVIOUS
    <3>2. Known(p, high) /\ Lead(p, fwd[j].when, j, fwd, line, events)
      BY <2>1, <3>1 DEF PairsOK, InPipe
    <3>3. Known(p, high2) /\ Lead(p, fwd[j].when, j, fwd, both, out)
      BY ONLY <1>1, <1>3, <3>2, LeadKept, p \in Nat, line \in Seq(Seg), in \in Seq(Seg),
              high \in Nat, high2 \in Nat, high <= high2,
              line # <<>> => SameEvents(events, out, QUEUE)
    <3> QED
      BY <2>1, <3>1, <3>3 DEF InPipe
  <2>2. CASE ~ fwd[j].pkt.first
    BY <2>2 DEF PairsOK, InPipe
  <2> QED
    BY <2>1, <2>2
<1>6. PICK m \in Nat : m = Len(line)
  OBVIOUS
<1>7. \A k \in 1 .. Len(line) : line[k].seqno \in Nat
  <2>1. \A k \in 1 .. Len(line) : line[k] \in Seg
    BY ElementType, ZenonT(60)
  <2> QED
    BY <2>1 DEF Seg
<1>8. ASSUME NEW j \in 1 .. Len(both)
      PROVE  InQueue(high2, both, j)
  <2>1. ASSUME j \in 1 .. Len(line)
        PROVE  InQueue(high2, both, j)
    <3>1. both[j] = line[j] /\ InQueue(high, line, j)
      BY <1>1, <2>1 DEF Joined, PairsOK
    <3>2. CASE ~ line[j].first
      BY <3>1, <3>2 DEF InQueue
    <3>3. CASE line[j].first
      <4>1. PICK p \in Nat : p = line[j].seqno
        BY <1>7, <2>1
      <4>2. Known(p, high) /\ \A k \in 1 .. Len(line) : line[k].seqno = p + MSS_BYTES => k = j + 1
        BY <3>1, <3>3, <4>1 DEF InQueue
      <4>3. Known(p, high2)
        <5>1. PICK size \in Nat : size = FLOWSIZE
          BY RateSourceAssumption
        <5>2. p + mss <= high \/ size <= high
          BY <1>2, <4>2, <5>1 DEF Known
        <5>3. p + mss <= high2 \/ size <= high2
          BY ONLY <5>2, high <= high2, high \in Nat, high2 \in Nat, p \in Nat, mss \in Nat, size \in Nat
        <5> QED
          BY <1>2, <5>1, <5>3 DEF Known
      <4>4. ASSUME NEW k \in 1 .. Len(both), both[k].seqno = p + MSS_BYTES
            PROVE  k = j + 1
        <5>1. CASE k \in 1 .. Len(line)
          <6>1. both[k] = line[k]
            BY <1>1, <5>1 DEF Joined
          <6> QED
            BY <4>2, <4>4, <5>1, <6>1
        <5>2. CASE k \notin 1 .. Len(line)
          <6>1. k - Len(line) \in 1 .. Len(in) /\ both[k] = in[k - Len(line)]
            BY <1>1, <5>2 DEF Joined
          <6>2. high < FLOWSIZE /\ high < p + mss
            BY <1>2, <1>3, <4>4, <6>1
          <6>3. PICK size \in Nat : size = FLOWSIZE
            BY RateSourceAssumption
          <6>4. p + mss <= high \/ size <= high
            BY <1>2, <4>2, <6>3 DEF Known
          <6>5. FALSE
            BY ONLY <6>2, <6>3, <6>4, high \in Nat, p \in Nat, mss \in Nat \ {0}, size \in Nat
          <6> QED
            BY <6>5
        <5> QED
          BY <5>1, <5>2
      <4> QED
        BY <3>1, <3>3, <4>1, <4>3, <4>4 DEF InQueue
    <3> QED
      BY <3>2, <3>3
  <2>2. ASSUME j \notin 1 .. Len(line)
        PROVE  InQueue(high2, both, j)
    <3>1. j - Len(line) \in 1 .. Len(in) /\ both[j] = in[j - Len(line)]
      BY <1>1, <2>2 DEF Joined
    <3>2. PICK i \in 1 .. Len(in) : i = j - m
      BY <1>6, <3>1
    <3>3. both[j] = in[i] /\ high < in[i].seqno /\ InQueue(high2, in, i)
      BY <1>6, <3>1, <3>2
    <3>4. CASE ~ in[i].first
      BY <3>3, <3>4 DEF InQueue
    <3>5. CASE in[i].first
      <4>1. in[i] \in Seg
        BY ElementType, ZenonT(60)
      <4>2. PICK p \in Nat : p = in[i].seqno
        BY <4>1 DEF Seg
      <4>3. Known(p, high2) /\ \A k \in 1 .. Len(in) : in[k].seqno = p + MSS_BYTES => k = i + 1
        BY <3>3, <3>5, <4>2 DEF InQueue
      <4>4. ASSUME NEW k \in 1 .. Len(both), both[k].seqno = p + MSS_BYTES
            PROVE  k = j + 1
        <5>1. CASE k \in 1 .. Len(line)
          <6>1. both[k] = line[k]
            BY <1>1, <5>1 DEF Joined
          <6>2. PICK x \in Nat : x = line[k].seqno
            BY <1>7, <5>1
          <6>3. x = p + mss /\ high < p /\ x + mss <= high + 1
            BY <1>2, <3>3, <4>2, <4>4, <5>1, <6>1, <6>2 DEF EndsBy
          <6>4. FALSE
            BY ONLY <6>3, high \in Nat, p \in Nat, mss \in Nat \ {0}, x \in Nat
          <6> QED
            BY <6>4
        <5>2. CASE k \notin 1 .. Len(line)
          <6>1. k - Len(line) \in 1 .. Len(in) /\ both[k] = in[k - Len(line)]
            BY <1>1, <5>2 DEF Joined
          <6>2. k - Len(line) = i + 1
            BY <4>3, <4>4, <6>1
          <6>3. k \in Nat /\ j \in Nat
            BY <1>1 DEF Joined
          <6> QED
            BY ONLY <1>6, <3>2, <6>2, <6>3, m \in Nat, i \in 1 .. Len(in)
        <5> QED
          BY <5>1, <5>2
      <4> QED
        BY <3>3, <3>5, <4>2, <4>3, <4>4 DEF InQueue
    <3> QED
      BY <3>4, <3>5
  <2> QED
    BY <2>1, <2>2
<1> QED
  BY <1>4, <1>5, <1>8 DEF PairsOK, both

-----------------------------------------------------------------------------
(* Segments one behind the other from byte b.                              *)
Place(i) == IF i = 1 THEN 1 ELSE IF i = 2 THEN MSS_BYTES + 1 ELSE MSS_BYTES + MSS_BYTES + 1

Row(out, b) == Len(out) <= 3 /\ \A i \in 1 .. Len(out) : out[i].seqno = b + Place(i)

(* What follows a segment of the list at once stands behind it.            *)
Adjacent(line) ==
  \A j, k \in 1 .. Len(line) : line[k].seqno = line[j].seqno + MSS_BYTES => k = j + 1

(* The packets of a row that are left: none follows on from one before the *)
(* next.                                                                   *)
LEMMA KeptRow ==
  ASSUME NEW out \in Seq(Seg), NEW b \in Nat, Row(out, b), NEW lost
  PROVE  LET all == Kept(out, lost)
         IN  /\ all \in Seq(Seg)
             /\ \A k \in 1 .. Len(all) : \E i \in 1 .. Len(out) : all[k] = out[i]
             /\ Adjacent(all)
<1> DEFINE n == Len(out)
           kept(i) == IF i \in (1 .. n) \ lost THEN <<out[i]>> ELSE <<>>
           all == Kept(out, lost)
<1>1. n \in Nat /\ n <= 3
  BY DEF Row
<1>2. all = kept(1) \o kept(2) \o kept(3)
  BY DEF Kept
<1> HIDE DEF all
<1>3. PICK mss \in Nat \ {0} : mss = MSS_BYTES
  BY DataSinkAssumption
<1>4. \A i \in 1 .. n : out[i] \in Seg
  BY ElementType, ZenonT(60)
<1>5. ASSUME NEW i \in 1 .. 3
      PROVE  /\ kept(i) \in Seq(Seg) /\ Len(kept(i)) \in {0, 1}
             /\ Len(kept(i)) = 1 => i <= n /\ kept(i)[1] = out[i]
  <2>1. CASE i \in (1 .. n) \ lost
    <3>1. kept(i) = <<out[i]>> /\ out[i] \in Seg /\ i <= n
      BY <1>1, <1>4, <2>1
    <3> HIDE DEF kept
    <3> QED
      BY ONLY <3>1
  <2>2. CASE i \notin (1 .. n) \ lost
    <3>1. kept(i) = <<>>
      BY <2>2
    <3> HIDE DEF kept
    <3> QED
      BY ONLY <3>1
  <2> QED
    BY <2>1, <2>2
<1> HIDE DEF kept
<1>6. PICK x, y, z \in Seq(Seg) : x = kept(1) /\ y = kept(2) /\ z = kept(3)
  BY <1>5
<1>7. /\ Len(x) \in {0, 1} /\ (Len(x) = 1 => 1 <= n /\ x[1] = out[1])
      /\ Len(y) \in {0, 1} /\ (Len(y) = 1 => 2 <= n /\ y[1] = out[2])
      /\ Len(z) \in {0, 1} /\ (Len(z) = 1 => 3 <= n /\ z[1] = out[3])
  BY <1>5, <1>6
<1>8. /\ x \o y \in Seq(Seg) /\ Len(x \o y) = Len(x) + Len(y)
      /\ \A j \in 1 .. (Len(x) + Len(y)) : (x \o y)[j] = IF j <= Len(x) THEN x[j] ELSE y[j - Len(x)]
  BY ONLY x \in Seq(Seg), y \in Seq(Seg), ConcatProperties, ZenonT(60)
<1>9. PICK w \in Seq(Seg) : w = x \o y
  BY <1>8
<1>10. /\ w \o z \in Seq(Seg) /\ Len(w \o z) = Len(w) + Len(z)
       /\ \A j \in 1 .. (Len(w) + Len(z)) : (w \o z)[j] = IF j <= Len(w) THEN w[j] ELSE z[j - Len(w)]
  BY ONLY w \in Seq(Seg), z \in Seq(Seg), ConcatProperties, ZenonT(60)
<1>11. all = w \o z
  BY ONLY <1>2, <1>6, <1>9
<1>12. PICK lx \in {0, 1}, ly \in {0, 1}, lz \in {0, 1} :
         lx = Len(x) /\ ly = Len(y) /\ lz = Len(z)
  BY <1>7
<1>13. /\ Len(all) = lx + ly + lz
       /\ \A k \in 1 .. Len(all) :
            \/ k = 1 /\ lx = 1 /\ 1 <= n /\ all[k] = out[1]
            \/ k = lx + 1 /\ ly = 1 /\ 2 <= n /\ all[k] = out[2]
            \/ k = lx + ly + 1 /\ lz = 1 /\ 3 <= n /\ all[k] = out[3]
  <2>1. Len(w) = lx + ly /\ \A j \in 1 .. (lx + ly) : w[j] = IF j <= lx THEN x[j] ELSE y[j - lx]
    BY ONLY <1>8, <1>9, <1>12
  <2>2. /\ Len(all) = lx + ly + lz
        /\ \A j \in 1 .. (lx + ly + lz) : all[j] = IF j <= lx + ly THEN w[j] ELSE z[j - (lx + ly)]
    BY ONLY <1>10, <1>11, <1>12, <2>1
  <2>3. /\ lx = 1 => 1 <= n /\ x[1] = out[1]
        /\ ly = 1 => 2 <= n /\ y[1] = out[2]
        /\ lz = 1 => 3 <= n /\ z[1] = out[3]
    BY ONLY <1>7, <1>12
  <2>4. ASSUME NEW k \in 1 .. (lx + ly + lz)
        PROVE  \/ k = 1 /\ lx = 1 /\ 1 <= n /\ all[k] = out[1]
               \/ k = lx + 1 /\ ly = 1 /\ 2 <= n /\ all[k] = out[2]
               \/ k = lx + ly + 1 /\ lz = 1 /\ 3 <= n /\ all[k] = out[3]
    <3>1. CASE k <= lx
      <4>1. k = 1 /\ lx = 1 /\ k <= lx + ly
        BY ONLY <3>1, k \in 1 .. (lx + ly + lz), lx \in {0, 1}, ly \in {0, 1}, lz \in {0, 1}
      <4>2. all[1] = w[1] /\ w[1] = x[1]
        BY ONLY <2>1, <2>2, <4>1, lx \in {0, 1}, ly \in {0, 1}, lz \in {0, 1}
      <4> QED
        BY ONLY <2>3, <4>1, <4>2
    <3>2. CASE k > lx /\ k <= lx + ly
      <4>1. k = lx + 1 /\ ly = 1
        BY ONLY <3>2, k \in 1 .. (lx + ly + lz), lx \in {0, 1}, ly \in {0, 1}, lz \in {0, 1}
      <4>2. all[k] = w[k] /\ w[k] = y[k - lx] /\ k - lx = 1
        BY ONLY <2>1, <2>2, <3>2, <4>1, k \in 1 .. (lx + ly + lz),
                lx \in {0, 1}, ly \in {0, 1}, lz \in {0, 1}
      <4> QED
        BY ONLY <2>3, <4>1, <4>2
    <3>3. CASE k > lx + ly
      <4>1. k = lx + ly + 1 /\ lz = 1
        BY ONLY <3>3, k \in 1 .. (lx + ly + lz), lx \in {0, 1}, ly \in {0, 1}, lz \in {0, 1}
      <4>2. all[k] = z[k - (lx + ly)] /\ k - (lx + ly) = 1
        BY ONLY <2>2, <3>3, <4>1, k \in 1 .. (lx + ly + lz),
                lx \in {0, 1}, ly \in {0, 1}, lz \in {0, 1}
      <4> QED
        BY ONLY <2>3, <4>1, <4>2
    <3> QED
      BY ONLY <3>1, <3>2, <3>3, k \in 1 .. (lx + ly + lz),
              lx \in {0, 1}, ly \in {0, 1}, lz \in {0, 1}
  <2> QED
    BY ONLY <2>2, <2>4
<1>14. /\ 1 <= n => out[1].seqno = b + 1
       /\ 2 <= n => out[2].seqno = b + (mss + 1)
       /\ 3 <= n => out[3].seqno = b + (mss + mss + 1)
  <2>1. /\ 1 <= n => out[1].seqno = b + Place(1)
        /\ 2 <= n => out[2].seqno = b + Place(2)
        /\ 3 <= n => out[3].seqno = b + Place(3)
    BY <1>1 DEF Row
  <2>2. Place(1) = 1 /\ Place(2) = mss + 1 /\ Place(3) = mss + mss + 1
    BY <1>3 DEF Place
  <2> QED
    BY ONLY <2>1, <2>2
<1>15. ASSUME NEW j \in 1 .. Len(all), NEW k \in 1 .. Len(all),
              all[k].seqno = all[j].seqno + mss
       PROVE  k = j + 1
  <2>1. \/ k = 1 /\ lx = 1 /\ all[k].seqno = b + 1
        \/ k = lx + 1 /\ ly = 1 /\ all[k].seqno = b + (mss + 1)
        \/ k = lx + ly + 1 /\ lz = 1 /\ all[k].seqno = b + (mss + mss + 1)
    BY ONLY <1>13, <1>14, <1>12, k \in 1 .. Len(all)
  <2>2. \/ j = 1 /\ lx = 1 /\ all[j].seqno = b + 1
        \/ j = lx + 1 /\ ly = 1 /\ all[j].seqno = b + (mss + 1)
        \/ j = lx + ly + 1 /\ lz = 1 /\ all[j].seqno = b + (mss + mss + 1)
    BY ONLY <1>13, <1>14, <1>12, j \in 1 .. Len(all)
  <2>3. PICK s, t : s = all[j].seqno /\ t = all[k].seqno
    OBVIOUS
  <2>4. t = s + mss
    BY <1>15, <2>3
  <2> QED
    BY ONLY <2>1, <2>2, <2>3, <2>4, b \in Nat, mss \in Nat \ {0},
            lx \in {0, 1}, ly \in {0, 1}, lz \in {0, 1}
<1>16. Adjacent(all)
  BY ONLY <1>3, <1>15 DEF Adjacent
<1>17. \A k \in 1 .. Len(all) : \E i \in 1 .. n : all[k] = out[i]
  BY ONLY <1>1, <1>13
<1>18. all \in Seq(Seg)
  BY ONLY <1>10, <1>11
<1> QED
  BY <1>16, <1>17, <1>18 DEF all, n

LEMMA EnteringRow ==
  ASSUME enqueued \in Seq(Seg), Len(enqueued) <= QUEUE_SIZE,
         NEW out \in Seq(Seg), NEW b \in Nat, Row(out, b), NEW lost
  PROVE  LET in == Entering(out, lost)
         IN  /\ in \in Seq(Seg)
             /\ \A k \in 1 .. Len(in) : \E i \in 1 .. Len(out) : in[k] = out[i]
             /\ Adjacent(in)
<1> DEFINE all == Kept(out, lost)
           in == Entering(out, lost)
<1>1. /\ all \in Seq(Seg)
      /\ \A k \in 1 .. Len(all) : \E i \in 1 .. Len(out) : all[k] = out[i]
      /\ Adjacent(all)
  BY KeptRow
<1>2. PICK n \in Nat : n = Len(enqueued)
  OBVIOUS
<1>3. PICK q \in Nat : q = QUEUE_SIZE
  BY TimedPathAssumption
<1>4. PICK l \in Nat : l = Len(all)
  <2> HIDE DEF all
  <2> QED
    BY <1>1
<1> DEFINE m == IF l < q - n THEN l ELSE q - n
<1>5. in = SubSeq(all, 1, m)
  BY <1>2, <1>3, <1>4 DEF Entering
<1>6. m \in 0 .. l
  BY <1>2, <1>3
<1> HIDE DEF all, in, m
<1>7. in \in Seq(Seg) /\ Len(in) = m /\ \A k \in 1 .. m : in[k] = all[k]
  BY ONLY <1>1, <1>4, <1>5, <1>6
<1>8. \A k \in 1 .. Len(in) : k \in 1 .. Len(all) /\ in[k] = all[k]
  BY ONLY <1>4, <1>6, <1>7
<1>9. Adjacent(in)
  BY ONLY <1>1, <1>8 DEF Adjacent
<1>10. \A k \in 1 .. Len(in) : \E i \in 1 .. Len(out) : in[k] = out[i]
  BY ONLY <1>1, <1>8
<1> QED
  BY <1>7, <1>9, <1>10 DEF in
-----------------------------------------------------------------------------
(* Steps that send, or do not.                                             *)

(* What the packets a handler sends have to be.                            *)
SendsOK(out) ==
  /\ OutOK(out)
  /\ highest_sent' <= packets_sent' /\ MSS_BYTES <= packets_sent'
  /\ Cap(highest_sent, packets_sent) <= Cap(highest_sent', packets_sent')
  /\ \A i \in 1 .. Len(out) : EndsBy(out[i].seqno, Cap(highest_sent', packets_sent'))
  /\ highest_sent' = packets_sent' =>
       /\ highest_sent = packets_sent /\ highest_sent <= highest_sent'
       /\ Row(out, highest_sent)
       /\ \A i \in 1 .. Len(out) :
            IF out[i].first THEN Known(out[i].seqno, highest_sent')
            ELSE MSS_BYTES < out[i].seqno

LEMMA SegmentsNow ==
  ASSUME IInv
  PROVE  /\ enqueued \in Seq(Seg) /\ Len(enqueued) <= QUEUE_SIZE
         /\ \A j \in 1 .. Len(enqueued) : enqueued[j] \in Seg /\ enqueued[j].seqno \in Nat
         /\ inflight[FORWARD] \in Seq(Slot)
         /\ \A j \in 1 .. Len(inflight[FORWARD]) :
              /\ inflight[FORWARD][j] \in Slot /\ inflight[FORWARD][j].pkt \in Seg
              /\ inflight[FORWARD][j].pkt.seqno \in Nat /\ inflight[FORWARD][j].when \in Nat
         /\ highest_sent \in Nat /\ packets_sent \in Nat /\ last_acked \in Nat
         /\ cumulative_ack \in Nat /\ received \in Seq(Nat)
         /\ first_pair_seqno \in Nat /\ first_pair_ts \in Nat /\ pktpairdiff \in Nat
         /\ \A j \in 1 .. Len(received) : received[j] \in Nat
<1>1. QueueOK(enqueued, now) /\ FlightOK(inflight, now, cumulative_ack) /\ TypeInv
  BY DEF IInv
<1>2. /\ enqueued \in Seq(Seg) /\ Len(enqueued) <= QUEUE_SIZE
      /\ \A j \in 1 .. Len(enqueued) : SegOK(enqueued[j], now)
  BY <1>1 DEF QueueOK
<1>3. \A j \in 1 .. Len(enqueued) : enqueued[j] \in Seg /\ enqueued[j].seqno \in Nat
  BY <1>2 DEF SegOK, Seg
<1>4. /\ inflight \in [Pipes -> Seq(Slot)]
      /\ \A j \in 1 .. Len(inflight[FORWARD]) : SegOK(inflight[FORWARD][j].pkt, now)
  BY <1>1 DEF FlightOK, Flights
<1>5. inflight[FORWARD] \in Seq(Slot)
  BY <1>4, Sources
<1>6. PICK line \in Seq(Slot) : line = inflight[FORWARD]
  BY <1>5
<1>7. \A j \in 1 .. Len(line) : line[j] \in Slot
  BY ElementType, ZenonT(60)
<1>8. \A j \in 1 .. Len(line) : line[j].pkt \in Seg /\ line[j].pkt.seqno \in Nat /\ line[j].when \in Nat
  <2>1. \A x \in Slot : x.when \in Nat
    BY DEF Slot
  <2>2. \A j \in 1 .. Len(line) : line[j].pkt \in Seg
    BY <1>4, <1>6 DEF SegOK
  <2>3. \A x \in Seg : x.seqno \in Nat
    BY DEF Seg
  <2> QED
    BY <1>7, <2>1, <2>2, <2>3
<1>9. PICK list \in Seq(Nat) : list = received
  BY <1>1 DEF TypeInv
<1>10. \A j \in 1 .. Len(list) : list[j] \in Nat
  BY ElementType, ZenonT(60)
<1>11. now \in Nat /\ first_pair_ts \in Nat
  BY <1>1 DEF TypeInv, EndHostType
<1> QED
  BY <1>1, <1>2, <1>3, <1>5, <1>6, <1>7, <1>8, <1>9, <1>10, <1>11 DEF TypeInv, SourceType, EndHostType

LEMMA CapFacts ==
  ASSUME NEW high \in Nat, NEW total \in Nat, high <= total
  PROVE  Cap(high, total) \in Nat /\ high <= Cap(high, total) /\ Cap(high, total) <= total
BY DEF Cap

LEMMA EndsLater ==
  ASSUME NEW s \in Nat, NEW a \in Nat, NEW b \in Nat, a <= b, EndsBy(s, a)
  PROVE  EndsBy(s, b)
<1>1. PICK mss \in Nat : mss = MSS_BYTES
  BY DataSinkAssumption
<1>2. s + mss <= a + 1
  BY <1>1 DEF EndsBy
<1>3. s + mss <= b + 1
  BY ONLY <1>2, a <= b, a \in Nat, b \in Nat, s \in Nat, mss \in Nat
<1> QED
  BY <1>1, <1>3 DEF EndsBy

LEMMA PacketsSent ==
  ASSUME IInv, IInv', PairInv, endhost = "PKTPAIR", endhost' = endhost,
         UNCHANGED <<sinkVars, pairVars>>, inflight'[FORWARD] = inflight[FORWARD],
         state' # "IDLE", NEW out, SendsOK(out), NEW d, Transmit(out, d),
         enqueued # <<>> => SameEvents(pendingsources, pendingsources', QUEUE),
         last_acked' <= Cap(highest_sent, packets_sent)
  PROVE  PairInv'
<1> DEFINE in == Entering(out, d.lost)
           fwd == inflight[FORWARD]
           cap == Cap(highest_sent, packets_sent)
           cap2 == Cap(highest_sent', packets_sent')
<1>1. /\ enqueued \in Seq(Seg) /\ Len(enqueued) <= QUEUE_SIZE
      /\ \A j \in 1 .. Len(enqueued) : enqueued[j].seqno \in Nat
      /\ \A j \in 1 .. Len(fwd) : fwd[j].pkt.seqno \in Nat
      /\ highest_sent \in Nat /\ packets_sent \in Nat /\ last_acked \in Nat
      /\ cumulative_ack \in Nat /\ first_pair_seqno \in Nat
      /\ \A j \in 1 .. Len(received) : received[j] \in Nat
  BY SegmentsNow
<1>2. highest_sent' \in Nat /\ packets_sent' \in Nat /\ last_acked' \in Nat
  BY DEF IInv, TypeInv, SourceType
<1>3. /\ highest_sent <= packets_sent
      /\ SentOK(cap, last_acked, cumulative_ack, received, fwd, enqueued)
      /\ highest_sent = packets_sent =>
           /\ PairsOK(highest_sent, first_pair_seqno, first_pair_ts, fwd, enqueued, pendingsources)
           /\ pktpairdiff \in {0} \cup Spacing
  BY DEF PairInv, PairIsService, Spacing
<1>4. enqueued' = enqueued \o in
  BY DEF Transmit
<1>5. out \in Seq(Seg) /\ in \in Seq(Elements(out))
  BY <1>1, EnteringFacts DEF SendsOK, OutOK
<1>6. \A k \in 1 .. Len(in) : \E i \in 1 .. Len(out) : in[k] = out[i]
  <2>1. \A k \in 1 .. Len(in) : in[k] \in Elements(out)
    <3> HIDE DEF in
    <3> QED
      BY ONLY <1>5, ElementType, ZenonT(60)
  <2> QED
    BY <2>1 DEF Elements
<1>7. \A i \in 1 .. Len(out) : out[i] \in Seg
  BY ONLY <1>5, ElementType, ZenonT(60)
<1>8. in \in Seq(Seg)
  <2>1. Elements(out) \subseteq Seg
    BY <1>7 DEF Elements
  <2> HIDE DEF in
  <2> QED
    BY ONLY <1>5, <2>1
<1>9. Joined(enqueued, in, enqueued')
  BY <1>1, <1>4, <1>8, JoinedFacts
<1> HIDE DEF in, fwd
<1>10. cap \in Nat /\ cap2 \in Nat /\ highest_sent <= cap /\ cap <= cap2 /\ last_acked' <= cap2
  BY <1>1, <1>2, <1>3, CapFacts, SMTT(60) DEF SendsOK
<1>11. \A i \in 1 .. Len(out) : EndsBy(out[i].seqno, cap2)
  BY DEF SendsOK
<1> HIDE DEF cap, cap2
<1>12. SentOK(cap2, last_acked', cumulative_ack, received, fwd, enqueued')
  <2>1. /\ cumulative_ack <= cap
        /\ \A j \in 1 .. Len(received) : EndsBy(received[j], cap)
        /\ \A j \in 1 .. Len(fwd) : EndsBy(fwd[j].pkt.seqno, cap)
        /\ \A j \in 1 .. Len(enqueued) : EndsBy(enqueued[j].seqno, cap)
    BY <1>3 DEF SentOK
  <2>2. cumulative_ack <= cap2
    BY ONLY <1>1, <1>10, <2>1
  <2>3. /\ \A j \in 1 .. Len(received) : EndsBy(received[j], cap2)
        /\ \A j \in 1 .. Len(fwd) : EndsBy(fwd[j].pkt.seqno, cap2)
        /\ \A j \in 1 .. Len(enqueued) : EndsBy(enqueued[j].seqno, cap2)
    BY <1>1, <1>10, <2>1, EndsLater
  <2>4. ASSUME NEW j \in 1 .. Len(enqueued')
        PROVE  EndsBy(enqueued'[j].seqno, cap2)
    <3>1. CASE j \in 1 .. Len(enqueued)
      BY <1>9, <2>3, <3>1 DEF Joined
    <3>2. CASE j \notin 1 .. Len(enqueued)
      <4>1. j - Len(enqueued) \in 1 .. Len(in) /\ enqueued'[j] = in[j - Len(enqueued)]
        BY <1>9, <3>2 DEF Joined
      <4>2. PICK i \in 1 .. Len(out) : enqueued'[j] = out[i]
        BY <1>6, <4>1
      <4> QED
        BY <1>11, <4>2
    <3> QED
      BY <3>1, <3>2
  <2> QED
    BY <1>10, <2>2, <2>3, <2>4 DEF SentOK
<1>13. ASSUME highest_sent' = packets_sent'
       PROVE  /\ PairsOK(highest_sent', first_pair_seqno, first_pair_ts, fwd, enqueued', pendingsources')
              /\ pktpairdiff \in {0} \cup Spacing
  <2>1. /\ highest_sent = packets_sent /\ highest_sent <= highest_sent' /\ Row(out, highest_sent)
        /\ \A i \in 1 .. Len(out) :
             IF out[i].first THEN Known(out[i].seqno, highest_sent') ELSE MSS_BYTES < out[i].seqno
    BY <1>13 DEF SendsOK
  <2>2. Adjacent(in)
    BY ONLY <1>1, <1>5, <2>1, EnteringRow DEF in
  <2>3. \A k \in 1 .. Len(enqueued) : EndsBy(enqueued[k].seqno, highest_sent)
    BY <1>3, <2>1 DEF SentOK, cap, Cap
  <2>4. ASSUME NEW i \in 1 .. Len(out)
        PROVE  highest_sent < FLOWSIZE /\ highest_sent < out[i].seqno
    <3>1. out[i].seqno \in Nat /\ out[i].seqno <= FLOWSIZE
      BY <1>7 DEF SendsOK, OutOK, SegOK, Seg
    <3>2. PICK p \in Nat : p = out[i].seqno
      BY <3>1
    <3>3. PICK size \in Nat : size = FLOWSIZE
      BY RateSourceAssumption
    <3>4. Place(i) \in Nat \ {0} /\ p = highest_sent + Place(i)
      BY <2>1, <3>2, DataSinkAssumption DEF Row, Place
    <3>5. PICK x \in Nat \ {0} : x = Place(i)
      BY <3>4
    <3>6. highest_sent < size /\ highest_sent < p
      <4>1. p = highest_sent + x /\ p <= size
        BY <3>1, <3>2, <3>3, <3>4, <3>5
      <4> QED
        BY ONLY <1>1, <4>1, size \in Nat, x \in Nat \ {0}
    <3> QED
      BY <3>2, <3>3, <3>6
  <2>5. ASSUME NEW k \in 1 .. Len(in)
        PROVE  /\ highest_sent < FLOWSIZE /\ highest_sent < in[k].seqno
               /\ InQueue(highest_sent', in, k)
    <3>1. PICK i \in 1 .. Len(out) : in[k] = out[i]
      BY <1>6
    <3>2. IF in[k].first THEN Known(in[k].seqno, highest_sent') ELSE MSS_BYTES < in[k].seqno
      BY <2>1, <3>1
    <3>3. InQueue(highest_sent', in, k)
      BY <2>2, <3>2 DEF InQueue, Adjacent
    <3> QED
      BY <2>4, <3>1, <3>3
  <2>6. PairsOK(highest_sent, first_pair_seqno, first_pair_ts, fwd, enqueued, pendingsources)
        /\ pktpairdiff \in {0} \cup Spacing
    BY <1>3, <2>1
  <2>7. \A j \in 1 .. Len(fwd) : fwd[j].pkt.seqno \in Nat
    BY <1>1 DEF fwd
  <2>8. PairsOK(highest_sent', first_pair_seqno, first_pair_ts, fwd, enqueued \o in, pendingsources')
    BY ONLY <1>1, <1>2, <1>8, <2>1, <2>3, <2>5, <2>6, <2>7, MoreSegments,
            enqueued # <<>> => SameEvents(pendingsources, pendingsources', QUEUE)
  <2> QED
    BY <1>4, <2>6, <2>8 DEF in
<1>14. MSS_BYTES <= packets_sent' /\ highest_sent' <= packets_sent'
  BY DEF SendsOK
<1> QED
  BY <1>12, <1>13, <1>14 DEF PairInv, PairIsService, Spacing, sinkVars, pairVars, cap2, fwd

LEMMA PlaceFacts ==
  ASSUME NEW n \in Nat, n <= 3
  PROVE  /\ MSS_BYTES * n \in Nat /\ (n = 0 => MSS_BYTES * n = 0)
         /\ n # 0 => MSS_BYTES <= MSS_BYTES * n
         /\ \A i \in 1 .. n :
              /\ Place(i) \in Nat \ {0} /\ Place(i) + MSS_BYTES <= MSS_BYTES * n + 1
              /\ i < n => Place(i) + MSS_BYTES <= MSS_BYTES * n
              /\ 1 < i => MSS_BYTES < Place(i)
<1>1. PICK mss \in Nat \ {0} : mss = MSS_BYTES
  BY DataSinkAssumption
<1>2. mss * 0 = 0 /\ mss * 1 = mss /\ mss * 2 = mss + mss /\ mss * 3 = mss + mss + mss
  OBVIOUS
<1>3. n \in {0, 1, 2, 3}
  OBVIOUS
<1>4. PICK l \in Nat : l = mss * n
  OBVIOUS
<1>5. /\ n = 0 => l = 0
      /\ n = 1 => l = mss
      /\ n = 2 => l = mss + mss
      /\ n = 3 => l = mss + mss + mss
  BY ONLY <1>2, <1>4
<1>6. ASSUME NEW i \in 1 .. n
      PROVE  /\ Place(i) \in Nat \ {0} /\ Place(i) + mss <= l + 1
             /\ i < n => Place(i) + mss <= l
             /\ 1 < i => mss < Place(i)
  <2>1. PICK x \in Nat \ {0} : x = Place(i)
    BY DataSinkAssumption DEF Place
  <2>2. x = IF i = 1 THEN 1 ELSE IF i = 2 THEN mss + 1 ELSE mss + mss + 1
    BY <1>1, <2>1 DEF Place
  <2>3. /\ x + mss <= l + 1
        /\ i < n => x + mss <= l
        /\ 1 < i => mss < x
    BY ONLY <1>3, <1>5, <2>2, i \in 1 .. n, mss \in Nat \ {0}, l \in Nat, x \in Nat \ {0}
  <2> QED
    BY <2>1, <2>3
<1>7. n # 0 => mss <= l
  BY ONLY <1>3, <1>5, mss \in Nat \ {0}
<1> QED
  BY <1>1, <1>4, <1>5, <1>6, <1>7

(* Packets one behind the other, from a byte that may have been sent up to *)
(* highest_sent.                                                           *)
LEMMA RowSends ==
  ASSUME IInv, PairInv, endhost = "PKTPAIR", NEW out, OutOK(out), NEW b \in Nat, Row(out, b),
         b <= Cap(highest_sent, packets_sent),
         highest_sent' = b + MSS_BYTES * Len(out),
         packets_sent' = packets_sent + MSS_BYTES * Len(out),
         out = <<>> => b = highest_sent /\ state # "IDLE",
         \A i \in 1 .. Len(out) :
           IF out[i].first THEN i < Len(out) \/ FLOWSIZE <= highest_sent'
           ELSE state # "IDLE" \/ 1 < i
  PROVE  SendsOK(out)
<1>1. /\ highest_sent \in Nat /\ packets_sent \in Nat /\ highest_sent <= packets_sent
      /\ state # "IDLE" => MSS_BYTES <= packets_sent
  BY SegmentsNow DEF PairInv
<1>2. PICK n \in Nat : n = Len(out) /\ n <= 3 /\ (n = 0 => out = <<>>)
  BY DEF OutOK, Row
<1>3. PICK l \in Nat : l = MSS_BYTES * n
  BY <1>2, PlaceFacts
<1>4. PICK mss \in Nat \ {0} : mss = MSS_BYTES
  BY DataSinkAssumption
<1>5. /\ n = 0 => l = 0 /\ b = highest_sent /\ mss <= packets_sent
      /\ n # 0 => mss <= l
  BY <1>1, <1>2, <1>3, <1>4, PlaceFacts
<1>6. highest_sent' = b + l /\ packets_sent' = packets_sent + l
  BY <1>2, <1>3
<1>7. PICK high \in Nat, total \in Nat, h2 \in Nat, t2 \in Nat :
        high = highest_sent /\ total = packets_sent /\ h2 = highest_sent' /\ t2 = packets_sent'
  <2>1. highest_sent' \in Nat /\ packets_sent' \in Nat
    BY ONLY <1>1, <1>6, b \in Nat, l \in Nat
  <2> QED
    BY ONLY <1>1, <2>1
<1>8. h2 = b + l /\ t2 = total + l /\ high <= total
  BY <1>1, <1>6, <1>7
<1>9. PICK cap \in Nat, cap2 \in Nat :
        /\ cap = Cap(highest_sent, packets_sent) /\ cap2 = Cap(highest_sent', packets_sent')
        /\ cap = (IF high = total THEN total ELSE total - 1)
        /\ cap2 = (IF h2 = t2 THEN t2 ELSE t2 - 1)
        /\ b <= cap
  <2>1. /\ Cap(high, total) = IF high = total THEN total ELSE total - 1
        /\ Cap(h2, t2) = IF h2 = t2 THEN t2 ELSE t2 - 1
    BY DEF Cap
  <2>2. b <= IF high = total THEN total ELSE total - 1
    BY <1>7, <2>1
  <2>3. h2 <= t2
    BY ONLY <1>8, <2>2, b \in Nat, l \in Nat, high \in Nat, total \in Nat, h2 \in Nat, t2 \in Nat
  <2>4. Cap(high, total) \in Nat /\ Cap(h2, t2) \in Nat
    BY <1>8, <2>3, CapFacts
  <2> QED
    BY <1>7, <2>1, <2>2, <2>4
<1>10. /\ h2 <= t2 /\ mss <= t2 /\ cap <= cap2 /\ h2 <= cap2
       /\ h2 = t2 => high = total /\ b = high /\ high <= h2
  BY ONLY <1>5, <1>7, <1>8, <1>9, b \in Nat, l \in Nat, n \in Nat, mss \in Nat \ {0}
<1>11. ASSUME NEW i \in 1 .. n
       PROVE  /\ out[i].seqno = b + Place(i) /\ Place(i) \in Nat \ {0}
              /\ Place(i) + mss <= l + 1 /\ (i < n => Place(i) + mss <= l)
              /\ 1 < i => mss < Place(i)
  <2>1. out[i].seqno = b + Place(i)
    BY <1>2 DEF Row
  <2> QED
    BY <1>2, <1>3, <1>4, <2>1, PlaceFacts
<1>12. ASSUME NEW i \in 1 .. n
       PROVE  EndsBy(out[i].seqno, cap2)
  <2>1. PICK x \in Nat \ {0} : x = Place(i)
    BY <1>11
  <2>2. out[i].seqno = b + x /\ x + mss <= l + 1
    BY <1>11, <2>1
  <2>3. b + x + mss <= cap2 + 1
    BY ONLY <1>8, <1>10, <2>2, b \in Nat, l \in Nat, mss \in Nat \ {0}, x \in Nat \ {0},
            cap2 \in Nat, h2 \in Nat
  <2> QED
    BY <1>4, <2>2, <2>3 DEF EndsBy
<1>13. ASSUME h2 = t2, NEW i \in 1 .. n
       PROVE  IF out[i].first THEN Known(out[i].seqno, h2) ELSE MSS_BYTES < out[i].seqno
  <2>1. PICK x \in Nat \ {0} : x = Place(i)
    BY <1>11
  <2>2. out[i].seqno = b + x /\ (i < n => x + mss <= l) /\ (1 < i => mss < x)
    BY <1>11, <2>1
  <2>3. CASE out[i].first
    <3>1. i < n \/ FLOWSIZE <= h2
      BY <1>2, <1>7, <2>3
    <3>2. i < n => b + x + mss <= h2
      BY ONLY <1>8, <2>2, b \in Nat, l \in Nat, mss \in Nat \ {0}, x \in Nat \ {0}, h2 \in Nat
    <3> QED
      BY <1>4, <2>2, <2>3, <3>1, <3>2 DEF Known
  <2>4. CASE ~ out[i].first
    <3>1. state # "IDLE" \/ 1 < i
      BY <1>2, <2>4
    <3>2. b + x > mss
      <4>1. CASE state # "IDLE"
        <5>1. mss <= b
          BY <1>1, <1>4, <1>7, <1>10, <1>13, <4>1
        <5> QED
          BY ONLY <5>1, b \in Nat, mss \in Nat \ {0}, x \in Nat \ {0}
      <4>2. CASE 1 < i
        BY ONLY <2>2, <4>2, b \in Nat, mss \in Nat \ {0}, x \in Nat \ {0}
      <4> QED
        BY <3>1, <4>1, <4>2
    <3> QED
      BY <1>4, <2>2, <2>4, <3>2
  <2> QED
    BY <2>3, <2>4
<1>14. highest_sent' = packets_sent' =>
         /\ highest_sent = packets_sent /\ highest_sent <= highest_sent'
         /\ Row(out, highest_sent)
         /\ \A i \in 1 .. Len(out) :
              IF out[i].first THEN Known(out[i].seqno, highest_sent')
              ELSE MSS_BYTES < out[i].seqno
  BY <1>2, <1>7, <1>10, <1>13
<1> QED
  BY <1>2, <1>4, <1>7, <1>9, <1>10, <1>12, <1>14 DEF SendsOK

(* The same and a segment that is sent again after acked bytes.            *)
LEMMA RetransmitSends ==
  ASSUME IInv, PairInv, endhost = "PKTPAIR", state # "IDLE",
         NEW out, OutOK(out), Row(out, highest_sent), Len(out) <= 2,
         NEW high, high = highest_sent + MSS_BYTES * Len(out),
         NEW acked \in Nat, acked <= Cap(highest_sent, packets_sent),
         NEW all, all = out \o <<Segment(acked + 1, FALSE)>>, OutOK(all),
         now' \in Nat, acked < FLOWSIZE,
         highest_sent' = AfterRetransmit(acked, high),
         packets_sent' = packets_sent + MSS_BYTES * Len(all),
         \A i \in 1 .. Len(out) : out[i].first => i < Len(out) \/ FLOWSIZE <= high
  PROVE  SendsOK(all)
<1>1. /\ highest_sent \in Nat /\ packets_sent \in Nat /\ highest_sent <= packets_sent
      /\ MSS_BYTES <= packets_sent
  BY SegmentsNow DEF PairInv
<1>2. PICK n \in Nat : n = Len(out) /\ n <= 2
  BY DEF OutOK
<1>3. PICK l \in Nat : l = MSS_BYTES * n
  BY <1>2, PlaceFacts
<1>4. PICK mss \in Nat \ {0} : mss = MSS_BYTES
  BY DataSinkAssumption
<1>5. PICK p : p = Segment(acked + 1, FALSE) /\ p.seqno = acked + 1 /\ p.first = FALSE
  BY DEF Segment
<1>6. /\ Len(all) = n + 1 /\ all[n + 1] = p
      /\ \A i \in 1 .. n : all[i] = out[i]
  <2>1. out \in Seq(Seg) /\ p \in Seg
    <3>1. acked + 1 \in Nat /\ acked + 1 <= FLOWSIZE
      BY RateSourceAssumption
    <3> QED
      BY <1>5, <3>1, SegmentOK DEF OutOK, SegOK
  <2>2. <<p>> \in Seq(Seg) /\ Len(<<p>>) = 1 /\ <<p>>[1] = p
    BY ONLY <2>1
  <2>3. PICK q \in Seq(Seg) : q = <<p>>
    BY <2>2
  <2>4. /\ Len(out \o q) = Len(out) + Len(q)
        /\ \A j \in 1 .. (Len(out) + Len(q)) : (out \o q)[j] = IF j <= Len(out) THEN out[j] ELSE q[j - Len(out)]
    BY ONLY <2>1, q \in Seq(Seg), ConcatProperties, ZenonT(60)
  <2>5. all = out \o q
    BY <1>5, <2>3
  <2>6. Len(all) = n + 1 /\ \A j \in 1 .. (n + 1) : all[j] = IF j <= n THEN out[j] ELSE q[j - n]
    BY ONLY <1>2, <2>2, <2>3, <2>4, <2>5
  <2>7. q[(n + 1) - n] = p
    BY ONLY <2>2, <2>3, n \in Nat
  <2> QED
    BY ONLY <2>6, <2>7, n \in Nat
<1>7. MSS_BYTES * Len(all) = l + mss
  <2>1. mss * (n + 1) = mss * n + mss
    OBVIOUS
  <2> QED
    BY <1>3, <1>4, <1>6, <2>1
<1>8. PICK h \in Nat, total \in Nat : h = highest_sent /\ total = packets_sent
  BY <1>1
<1>9. high = h + l
  BY <1>2, <1>3, <1>8
<1>10. /\ l = 0 \/ mss <= l
       /\ n = 0 => l = 0
  BY <1>2, <1>3, <1>4, PlaceFacts
<1>11. ASSUME acked = high
       PROVE  SendsOK(all)
  <2>1. highest_sent' = highest_sent + MSS_BYTES * Len(all)
    <3>1. highest_sent' = high + mss
      BY <1>4, <1>11 DEF AfterRetransmit
    <3> QED
      BY ONLY <1>7, <1>8, <1>9, <3>1, h \in Nat, l \in Nat, mss \in Nat \ {0}
  <2>2. Row(all, highest_sent)
    <3>1. \A i \in 1 .. n : all[i].seqno = h + Place(i)
      BY <1>2, <1>6, <1>8 DEF Row
    <3>2. all[n + 1].seqno = h + Place(n + 1)
      <4>1. Place(n + 1) = l + 1
        <5>1. n \in {0, 1, 2}
          BY <1>2
        <5>2. mss * 0 = 0 /\ mss * 1 = mss /\ mss * 2 = mss + mss
          OBVIOUS
        <5> QED
          BY <1>3, <1>4, <5>1, <5>2 DEF Place
      <4>2. all[n + 1].seqno = h + l + 1
        BY <1>5, <1>6, <1>9, <1>11
      <4> QED
        BY ONLY <4>1, <4>2, h \in Nat, l \in Nat
    <3>3. \A i \in 1 .. (n + 1) : i \in 1 .. n \/ i = n + 1
      OBVIOUS
    <3>4. Len(all) <= 3
      BY <1>2, <1>6
    <3> QED
      BY ONLY <1>6, <1>8, <3>1, <3>2, <3>3, <3>4 DEF Row
  <2>3. highest_sent <= Cap(highest_sent, packets_sent)
    BY <1>1, CapFacts
  <2>4. ASSUME NEW i \in 1 .. Len(all)
        PROVE  IF all[i].first THEN i < Len(all) \/ FLOWSIZE <= highest_sent' ELSE state # "IDLE" \/ 1 < i
    <3>1. all[i].first => i # n + 1
      BY <1>5, <1>6
    <3>2. i # n + 1 => i < n + 1
      BY <1>6
    <3> QED
      BY <1>6, <3>1, <3>2
  <2>5. all # <<>>
    BY <1>6
  <2> QED
    BY <1>1, <2>1, <2>2, <2>3, <2>4, <2>5, RowSends
<1>12. ASSUME acked # high
       PROVE  SendsOK(all)
  <2>1. highest_sent' = h + l
    BY <1>9, <1>12 DEF AfterRetransmit
  <2>2. packets_sent' = total + l + mss
    BY ONLY <1>7, <1>8, packets_sent' = packets_sent + MSS_BYTES * Len(all),
            total \in Nat, l \in Nat, mss \in Nat \ {0}
  <2>3. PICK h2 \in Nat, t2 \in Nat : h2 = highest_sent' /\ t2 = packets_sent'
    <3>1. h + l \in Nat /\ total + l + mss \in Nat
      OBVIOUS
    <3> QED
      BY ONLY <2>1, <2>2, <3>1
  <2>4. h2 = h + l /\ t2 = total + l + mss /\ h <= total
    BY <1>1, <1>8, <2>1, <2>2, <2>3
  <2>5. /\ h2 < t2 /\ h2 \in Nat /\ t2 - 1 \in Nat /\ mss <= t2
    BY ONLY <2>4, h2 \in Nat, t2 \in Nat, h \in Nat, l \in Nat, total \in Nat, mss \in Nat \ {0}
  <2>6. Cap(highest_sent', packets_sent') = t2 - 1
    BY <2>3, <2>5 DEF Cap
  <2>7. Cap(highest_sent, packets_sent) = IF h = total THEN total ELSE total - 1
    BY <1>8 DEF Cap
  <2>8. acked <= IF h = total THEN total ELSE total - 1
    BY <2>7
  <2>9. (IF h = total THEN total ELSE total - 1) <= t2 - 1
    BY ONLY <2>4, h2 \in Nat, t2 \in Nat, h \in Nat, l \in Nat, total \in Nat, mss \in Nat \ {0}
  <2>10. acked + 1 + mss <= t2 - 1 + 1
    <3>1. acked # h + l
      BY <1>9, <1>12
    <3>2. CASE l = 0
      BY ONLY <2>4, <2>8, <3>1, <3>2, acked \in Nat, h2 \in Nat, t2 \in Nat, h \in Nat, l \in Nat,
              total \in Nat, mss \in Nat \ {0}
    <3>3. CASE mss <= l
      BY ONLY <2>4, <2>8, <3>3, acked \in Nat, h2 \in Nat, t2 \in Nat, h \in Nat, l \in Nat,
              total \in Nat, mss \in Nat \ {0}
    <3> QED
      BY <1>10, <3>2, <3>3
  <2>11. ASSUME NEW i \in 1 .. n
         PROVE  out[i].seqno + mss <= t2 - 1 + 1
    <3>1. PICK x \in Nat : x = Place(i)
      BY DataSinkAssumption DEF Place
    <3>2. out[i].seqno = h + x
      BY <1>2, <1>8, <3>1 DEF Row
    <3>3. x + mss <= l + 1
      <4>1. n <= 3
        BY ONLY <1>2, n \in Nat
      <4>2. Place(i) + MSS_BYTES <= MSS_BYTES * n + 1
        BY ONLY <4>1, n \in Nat, i \in 1 .. n, PlaceFacts
      <4> QED
        BY ONLY <1>3, <1>4, <3>1, <4>2
    <3>4. h + x + mss <= t2 - 1 + 1
      BY ONLY <2>4, <3>3, h \in Nat, l \in Nat, total \in Nat, t2 \in Nat, x \in Nat, mss \in Nat \ {0}
    <3> QED
      BY <3>2, <3>4
  <2>12. ASSUME NEW i \in 1 .. Len(all)
         PROVE  EndsBy(all[i].seqno, t2 - 1)
    <3>1. i \in 1 .. n \/ i = n + 1
      BY <1>6
    <3>2. all[i].seqno + mss <= t2 - 1 + 1
      <4>1. CASE i \in 1 .. n
        BY <1>6, <2>11, <4>1
      <4>2. CASE i = n + 1
        BY <1>5, <1>6, <2>10, <4>2
      <4> QED
        BY <3>1, <4>1, <4>2
    <3> QED
      BY <1>4, <3>2 DEF EndsBy
  <2>13. highest_sent' # packets_sent' /\ highest_sent' <= packets_sent' /\ MSS_BYTES <= packets_sent'
    BY <1>4, <2>3, <2>5, SMTT(60)
  <2> QED
    BY <2>6, <2>7, <2>9, <2>12, <2>13 DEF SendsOK
<1> QED
  BY <1>11, <1>12
-----------------------------------------------------------------------------
(* The events of the source.                                               *)

(* The flags of the packets of a row that ends with byte high.             *)
Flags(out, high) ==
  \A i \in 1 .. Len(out) : IF out[i].first THEN i < Len(out) \/ FLOWSIZE <= high ELSE 1 < i

LEMMA PairRow ==
  ASSUME NEW high \in Nat, NEW window, NEW dups
  PROVE  LET pair == Pair(high, window, dups)
         IN  /\ Row(pair, high) /\ Len(pair) <= 2
             /\ Flags(pair, high + MSS_BYTES * Len(pair))
<1> DEFINE closed == \/ high >= FLOWSIZE
                     \/ window # 0 /\ InFlight(high) > window + window \div 2 + dups * MSS_BYTES
           p == Segment(high + 1, TRUE)
           q == Segment(high + MSS_BYTES + 1, FALSE)
<1>1. PICK pair : pair = Pair(high, window, dups)
  OBVIOUS
<1>2. pair = IF closed THEN <<>> ELSE IF high + MSS_BYTES >= FLOWSIZE THEN <<p>> ELSE <<p, q>>
  BY <1>1 DEF Pair
<1>3. PICK mss \in Nat \ {0} : mss = MSS_BYTES
  BY DataSinkAssumption
<1>4. p.seqno = high + 1 /\ p.first = TRUE /\ q.seqno = high + (mss + 1) /\ q.first = FALSE
  BY <1>3 DEF Segment
<1>5. Place(1) = 1 /\ Place(2) = mss + 1
  BY <1>3 DEF Place
<1> HIDE DEF closed, p, q
<1>6. CASE pair = <<>>
  BY <1>1, <1>6 DEF Row, Flags
<1>7. CASE pair = <<p>> /\ high + mss >= FLOWSIZE
  <2>1. Len(pair) = 1 /\ pair[1] = p /\ mss * 1 = mss
    BY <1>7
  <2>2. \A i \in 1 .. 1 : i = 1
    OBVIOUS
  <2>3. Row(pair, high)
    BY ONLY <1>4, <1>5, <2>1, <2>2 DEF Row
  <2>4. FLOWSIZE <= high + MSS_BYTES * Len(pair)
    BY <1>3, <1>7, <2>1, RateSourceAssumption
  <2>5. Flags(pair, high + MSS_BYTES * Len(pair))
    BY ONLY <1>4, <2>1, <2>2, <2>4 DEF Flags
  <2> QED
    BY <1>1, <2>1, <2>3, <2>5
<1>8. CASE pair = <<p, q>>
  <2>1. Len(pair) = 2 /\ pair[1] = p /\ pair[2] = q
    BY <1>8
  <2>2. \A i \in 1 .. 2 : i = 1 \/ i = 2
    OBVIOUS
  <2>3. Row(pair, high)
    BY ONLY <1>4, <1>5, <2>1, <2>2 DEF Row
  <2>4. Flags(pair, high + MSS_BYTES * Len(pair))
    BY ONLY <1>4, <2>1, <2>2 DEF Flags
  <2> QED
    BY <1>1, <2>1, <2>3, <2>4
<1> QED
  BY <1>2, <1>3, <1>6, <1>7, <1>8

(* A segment and what follows on.                                          *)
LEMMA RowAfter ==
  ASSUME now' \in Nat, NEW b \in Nat, b < FLOWSIZE, NEW pair, OutOK(pair),
         Row(pair, b + MSS_BYTES), Len(pair) <= 2, NEW high, Flags(pair, high)
  PROVE  LET out == <<Segment(b + 1, FALSE)>> \o pair
         IN  /\ OutOK(out) /\ Row(out, b) /\ Len(out) = Len(pair) + 1
             /\ out[1].first = FALSE
             /\ \A i \in 1 .. Len(out) : out[i].first => i < Len(out) \/ FLOWSIZE <= high
<1>1. PICK p : p = Segment(b + 1, FALSE) /\ p.seqno = b + 1 /\ p.first = FALSE
  <2>1. Segment(b + 1, FALSE).seqno = b + 1 /\ Segment(b + 1, FALSE).first = FALSE
    BY ONLY DEF Segment
  <2> QED
    BY ONLY <2>1
<1>2. OutOK(<<p>>) /\ p \in Seg
  <2>1. b + 1 \in Nat /\ b + 1 <= FLOWSIZE
    BY RateSourceAssumption
  <2>2. SegOK(p, now')
    BY <1>1, <2>1, SegmentOK
  <2> QED
    BY <2>2, OutFacts DEF SegOK
<1>3. OutOK(<<p>> \o pair)
  BY <1>2, OutConcat
<1>4. PICK n \in Nat : n = Len(pair) /\ n <= 2
  BY DEF OutOK
<1>5. PICK q \in Seq(Seg) : q = <<p>> /\ Len(q) = 1 /\ q[1] = p
  <2>1. <<p>> \in Seq(Seg) /\ Len(<<p>>) = 1 /\ <<p>>[1] = p
    BY ONLY <1>2
  <2> QED
    BY <2>1
<1>6. PICK out : out = q \o pair
  OBVIOUS
<1>7. Len(out) = n + 1 /\ \A j \in 1 .. (n + 1) : out[j] = IF j <= 1 THEN q[j] ELSE pair[j - 1]
  <2>1. pair \in Seq(Seg)
    BY DEF OutOK
  <2>2. /\ Len(q \o pair) = Len(q) + Len(pair)
        /\ \A j \in 1 .. (Len(q) + Len(pair)) : (q \o pair)[j] = IF j <= Len(q) THEN q[j] ELSE pair[j - Len(q)]
    BY ONLY <2>1, q \in Seq(Seg), ConcatProperties, ZenonT(60)
  <2>3. 1 + n = n + 1
    OBVIOUS
  <2> QED
    BY ONLY <1>4, <1>5, <1>6, <2>2, <2>3
<1>8. out[1] = p
  BY ONLY <1>5, <1>7, n \in Nat
<1>9. ASSUME NEW i \in 1 .. (n + 1), i # 1
      PROVE  i - 1 \in 1 .. n /\ out[i] = pair[i - 1]
  BY ONLY <1>7, <1>9, n \in Nat
<1>10. PICK mss \in Nat \ {0} : mss = MSS_BYTES
  BY DataSinkAssumption
<1>11. ASSUME NEW i \in 1 .. (n + 1)
       PROVE  out[i].seqno = b + Place(i)
  <2>1. CASE i = 1
    BY <1>1, <1>8, <2>1 DEF Place
  <2>2. CASE i # 1
    <3>1. pair[i - 1].seqno = b + mss + Place(i - 1)
      BY <1>4, <1>9, <1>10, <2>2 DEF Row
    <3>2. Place(i) = mss + Place(i - 1) /\ Place(i - 1) \in Nat
      <4>1. i = 2 \/ i = 3
        BY <1>4, <2>2
      <4> QED
        BY <1>10, <4>1 DEF Place
    <3>3. PICK x \in Nat : x = Place(i - 1)
      BY <3>2
    <3>4. b + mss + x = b + (mss + x)
      OBVIOUS
    <3> QED
      BY ONLY <1>9, <2>2, <3>1, <3>2, <3>3, <3>4, i \in 1 .. (n + 1)
  <2> QED
    BY <2>1, <2>2
<1>12. Row(out, b)
  <2>1. Len(out) <= 3
    BY <1>4, <1>7
  <2> QED
    BY ONLY <1>7, <1>11, <2>1 DEF Row
<1>13. ASSUME NEW i \in 1 .. (n + 1), out[i].first
       PROVE  i < n + 1 \/ FLOWSIZE <= high
  <2>1. i # 1
    BY <1>1, <1>8, <1>13
  <2>2. pair[i - 1].first /\ i - 1 \in 1 .. n
    BY <1>9, <1>13, <2>1
  <2>3. i - 1 < n \/ FLOWSIZE <= high
    BY <1>4, <2>2 DEF Flags
  <2>4. i - 1 < n => i < n + 1
    BY ONLY n \in Nat, i \in 1 .. (n + 1)
  <2> QED
    BY <2>3, <2>4
<1> QED
  BY <1>1, <1>3, <1>4, <1>5, <1>6, <1>7, <1>8, <1>12, <1>13

(* Segments that are in the queue have their event still.                  *)
LEMMA QueueStays ==
  ASSUME IInv, NextEventOf(SOURCE), enqueued # <<>>, NEW out, NEW d
  PROVE  SameEvents(pendingsources, Served(out, d, Tail(pendingsources)), QUEUE)
<1>1. SameEvents(pendingsources, Tail(pendingsources), QUEUE)
  <2>1. \A s : s # SOURCE => SameEvents(pendingsources, Tail(pendingsources), s)
    BY Fires
  <2> QED
    BY <2>1, Sources DEF Ids
<1> QED
  BY <1>1 DEF Served

LEMMA SourceEventSends ==
  ASSUME IInv, IInv', PairInv, OfPair, NextEventOf(SOURCE), state' # "IDLE",
         UNCHANGED <<inflight, sinkVars, pairVars>>,
         NEW out, SendsOK(out), NEW d \in Disturbance, Transmit(out, d),
         last_acked' <= Cap(highest_sent, packets_sent),
         \/ pendingsources' = Served(out, d, Tail(pendingsources))
         \/ \E wake \in Nat :
              /\ now' <= wake
              /\ pendingsources' = sourceIsPending(Served(out, d, Tail(pendingsources)), SOURCE, wake)
  PROVE  PairInv'
<1> DEFINE events == Served(out, d, Tail(pendingsources))
<1>1. now' \in Nat
  BY Fires DEF Moment
<1>2. ListOK(events, now')
  <2>1. OutOK(out) /\ UNCHANGED <<inflight, sinkVars>>
    BY DEF SendsOK
  <2> QED
    BY <2>1, SourceSends DEF OutOK, After
<1>3. enqueued # <<>> => SameEvents(pendingsources, events, QUEUE)
  BY QueueStays
<1> HIDE DEF events
<1>4. ASSUME enqueued # <<>>
      PROVE  SameEvents(pendingsources, pendingsources', QUEUE)
  <2>1. CASE pendingsources' = events
    BY <1>3, <1>4, <2>1
  <2>2. CASE \E wake \in Nat : now' <= wake /\ pendingsources' = sourceIsPending(events, SOURCE, wake)
    <3>1. PICK wake \in Nat : now' <= wake /\ pendingsources' = sourceIsPending(events, SOURCE, wake)
      BY <2>2
    <3>2. PICK o : o = sourceIsPending(events, SOURCE, wake)
      OBVIOUS
    <3>3. \A s : s # SOURCE => SameEvents(events, o, s)
      BY <1>1, <1>2, <3>1, <3>2, Sources, PendingFacts
    <3>4. SameEvents(events, o, QUEUE)
      BY <3>3, Sources DEF Ids
    <3>5. SameEvents(pendingsources, o, QUEUE)
      BY <1>3, <1>4, <3>4, SameTransitive
    <3> QED
      BY <3>1, <3>2, <3>5
  <2> QED
    BY <2>1, <2>2 DEF events
<1>5. endhost = "PKTPAIR" /\ endhost' = endhost /\ inflight'[FORWARD] = inflight[FORWARD]
      /\ UNCHANGED <<sinkVars, pairVars>>
  BY DEF OfPair
<1> QED
  BY <1>4, <1>5, PacketsSent

LEMMA PairStill ==
  ASSUME IInv, PairInv, endhost = "PKTPAIR"
  PROVE  /\ last_acked <= Cap(highest_sent, packets_sent)
         /\ cumulative_ack <= Cap(highest_sent, packets_sent)
         /\ highest_sent <= Cap(highest_sent, packets_sent)
         /\ 0 <= Cap(highest_sent, packets_sent)
<1>1. highest_sent \in Nat /\ packets_sent \in Nat
  BY SegmentsNow
<1> QED
  BY <1>1, CapFacts DEF PairInv, SentOK

LEMMA PacketPairStartPair ==
  ASSUME IInv, IInv', PairInv, OfPair, NEW d \in Disturbance, PacketPairStart(d)
  PROVE  PairInv'
<1> DEFINE pair == IF FLOWSIZE > MSS_BYTES THEN <<Segment(1, TRUE), Segment(MSS_BYTES + 1, FALSE)>>
                   ELSE <<Segment(1, TRUE)>>
           wake == now' + rto
<1>1. /\ NextEventOf(SOURCE) /\ state' = "STARTUP" /\ last_acked' = 0 /\ rto' = rto
      /\ SendPairAndReschedule(<<>>, pair, 0, rto_timeout, wake, d)
  BY DEF PacketPairStart, rttVars
<1>2. now' \in Nat
  BY <1>1, Fires DEF Moment
<1>3. OutOK(pair) /\ Row(pair, 0) /\ pair # <<>>
      /\ \A i \in 1 .. Len(pair) :
           IF pair[i].first THEN i < Len(pair) \/ FLOWSIZE <= 0 + MSS_BYTES * Len(pair) ELSE 1 < i
  <2>1. OutOK(pair)
    BY <1>2, FirstPairOK
  <2>2. PICK mss \in Nat \ {0}, size \in Nat : mss = MSS_BYTES /\ size = FLOWSIZE
    BY DataSinkAssumption, RateSourceAssumption
  <2>3. PICK p : p = Segment(1, TRUE) /\ p.seqno = 0 + 1 /\ p.first = TRUE
    <3>1. Segment(1, TRUE).seqno = 0 + 1 /\ Segment(1, TRUE).first = TRUE
      BY ONLY DEF Segment
    <3> QED
      BY ONLY <3>1
  <2>4. PICK q : q = Segment(MSS_BYTES + 1, FALSE) /\ q.seqno = 0 + (MSS_BYTES + 1) /\ q.first = FALSE
    <3>1. Segment(MSS_BYTES + 1, FALSE).seqno = MSS_BYTES + 1 /\ Segment(MSS_BYTES + 1, FALSE).first = FALSE
      BY ONLY DEF Segment
    <3>2. MSS_BYTES + 1 = 0 + (MSS_BYTES + 1)
      BY DataSinkAssumption
    <3> QED
      BY ONLY <3>1, <3>2
  <2>5. PICK s : s = pair
    OBVIOUS
  <2>6. s = IF size > mss THEN <<p, q>> ELSE <<p>>
    BY <2>2, <2>3, <2>4, <2>5
  <2>7. Place(1) = 1 /\ Place(2) = MSS_BYTES + 1
    BY DEF Place
  <2>8. CASE size > mss
    <3>1. Len(s) = 2 /\ s[1] = p /\ s[2] = q /\ s # <<>>
      BY ONLY <2>6, <2>8
    <3>2. ASSUME NEW i \in 1 .. Len(s)
          PROVE  /\ s[i].seqno = 0 + Place(i)
                 /\ IF s[i].first THEN i < Len(s) \/ FLOWSIZE <= 0 + MSS_BYTES * Len(s) ELSE 1 < i
      <4>1. i = 1 \/ i = 2
        BY ONLY <3>1, i \in 1 .. Len(s)
      <4>2. CASE i = 1
        <5>1. s[i] = p /\ Place(i) = 1 /\ i < Len(s)
          BY ONLY <2>7, <3>1, <4>2
        <5> QED
          BY ONLY <2>3, <5>1
      <4>3. CASE i = 2
        <5>1. s[i] = q /\ Place(i) = MSS_BYTES + 1 /\ 1 < i
          BY ONLY <2>7, <3>1, <4>3
        <5> QED
          BY ONLY <2>4, <5>1
      <4> QED
        BY <4>1, <4>2, <4>3
    <3>3. Row(s, 0)
      <4>1. Len(s) <= 3
        BY ONLY <3>1
      <4> QED
        BY ONLY <3>2, <4>1 DEF Row
    <3>4. \A i \in 1 .. Len(s) :
            IF s[i].first THEN i < Len(s) \/ FLOWSIZE <= 0 + MSS_BYTES * Len(s) ELSE 1 < i
      BY ONLY <3>2
    <3> QED
      BY <2>1, <2>5, <3>1, <3>3, <3>4
  <2>9. CASE ~ (size > mss)
    <3>1. Len(s) = 1 /\ s[1] = p /\ s # <<>>
      BY ONLY <2>6, <2>9
    <3>2. \A i \in 1 .. 1 : i = 1
      OBVIOUS
    <3>3. Row(s, 0)
      <4>1. ASSUME NEW i \in 1 .. Len(s)
            PROVE  s[i].seqno = 0 + Place(i)
        <5>1. i = 1
          BY ONLY <3>1, i \in 1 .. Len(s)
        <5> QED
          BY ONLY <2>3, <2>7, <3>1, <5>1
      <4>2. Len(s) <= 3
        BY ONLY <3>1
      <4> QED
        BY ONLY <4>1, <4>2 DEF Row
    <3>4. FLOWSIZE <= 0 + MSS_BYTES * Len(s)
      BY <2>2, <2>9, <3>1
    <3>5. \A i \in 1 .. Len(s) :
            IF s[i].first THEN i < Len(s) \/ FLOWSIZE <= 0 + MSS_BYTES * Len(s) ELSE 1 < i
      BY ONLY <2>3, <3>1, <3>2, <3>4
    <3> QED
      BY <2>1, <2>5, <3>1, <3>3, <3>5
  <2> QED
    BY <2>8, <2>9
<1>4. wake \in Nat /\ now' <= wake
  <2>1. rto \in Nat
    BY SourceFacts DEF SourceNow
  <2> QED
    BY <1>2, <2>1, LaterTime
<1> HIDE DEF pair, wake
<1>5. <<>> \o pair = pair
  BY <1>3, OutFacts, OutConcat
<1>6. /\ highest_sent' = 0 + MSS_BYTES * Len(pair)
      /\ Transmit(pair, d) /\ packets_sent' = packets_sent + MSS_BYTES * Len(pair)
      /\ pendingsources' = sourceIsPending(Served(pair, d, Tail(pendingsources)), SOURCE, wake)
      /\ UNCHANGED <<inflight, sinkVars, pairVars>>
  BY <1>1, <1>5 DEF SendPairAndReschedule, SendOut
<1>7. endhost = "PKTPAIR" /\ 0 <= Cap(highest_sent, packets_sent)
  BY PairStill DEF OfPair
<1>8. SendsOK(pair)
  <2>1. \A i \in 1 .. Len(pair) :
          IF pair[i].first THEN i < Len(pair) \/ FLOWSIZE <= highest_sent' ELSE state # "IDLE" \/ 1 < i
    BY <1>3, <1>6
  <2>2. 0 \in Nat
    OBVIOUS
  <2> QED
    BY ONLY <1>3, <1>6, <1>7, <2>1, <2>2, IInv, PairInv, RowSends
<1>9. last_acked' <= Cap(highest_sent, packets_sent) /\ state' # "IDLE"
  BY <1>1, <1>7
<1> QED
  BY ONLY <1>1, <1>4, <1>6, <1>8, <1>9, IInv, IInv', PairInv, OfPair, d \in Disturbance, SourceEventSends

LEMMA PacketPairTimeoutPair ==
  ASSUME IInv, IInv', PairInv, OfPair, NEW d \in Disturbance, PacketPairTimeout(d)
  PROVE  PairInv'
<1> DEFINE again == <<Segment(last_acked + 1, FALSE)>>
           high == last_acked + MSS_BYTES
           pair == Pair(high, bdp, 0)
           out == again \o pair
           wake == now' + gap
<1>1. /\ NextEventOf(SOURCE) /\ Timeout
      /\ SendPairAndReschedule(again, pair, high, now' + rto', wake, d)
  BY DEF PacketPairTimeout
<1>2. now' \in Nat
  BY <1>1, Fires DEF Moment
<1>3. high \in Nat /\ last_acked \in Nat /\ last_acked < FLOWSIZE
  <2>1. last_acked \in Nat /\ last_acked < FLOWSIZE
    BY SourceFacts DEF SourceNow
  <2> QED
    BY <2>1, DataSinkAssumption
<1>4. /\ OutOK(pair) /\ Row(pair, high) /\ Len(pair) <= 2
      /\ Flags(pair, high + MSS_BYTES * Len(pair))
  <2> HIDE DEF high
  <2> QED
    BY <1>2, <1>3, PairOK, PairRow
<1>5. wake \in Nat /\ now' <= wake
  <2>1. gap \in Nat
    BY SourceFacts DEF SourceNow
  <2> QED
    BY <1>2, <2>1, LaterTime
<1>6. PICK end : end = high + MSS_BYTES * Len(pair)
  OBVIOUS
<1> HIDE DEF pair, wake
<1>7. /\ OutOK(out) /\ Row(out, last_acked) /\ Len(out) = Len(pair) + 1
      /\ out[1].first = FALSE
      /\ \A i \in 1 .. Len(out) : out[i].first => i < Len(out) \/ FLOWSIZE <= end
  BY <1>2, <1>3, <1>4, <1>6, RowAfter
<1> HIDE DEF out, again
<1>8. /\ highest_sent' = end
      /\ Transmit(out, d) /\ packets_sent' = packets_sent + MSS_BYTES * Len(out)
      /\ pendingsources' = sourceIsPending(Served(out, d, Tail(pendingsources)), SOURCE, wake)
      /\ UNCHANGED <<inflight, sinkVars, pairVars>>
  BY <1>1, <1>6 DEF SendPairAndReschedule, SendOut, out
<1>9. end = last_acked + MSS_BYTES * Len(out)
  <2>1. PICK mss \in Nat, n \in Nat : mss = MSS_BYTES /\ n = Len(pair)
    BY <1>4, DataSinkAssumption DEF OutOK
  <2>2. mss * (n + 1) = mss + mss * n
    OBVIOUS
  <2>3. PICK l \in Nat : l = mss * n
    OBVIOUS
  <2>4. end = last_acked + mss + l /\ MSS_BYTES * Len(out) = mss + l
    BY ONLY <1>6, <1>7, <2>1, <2>2, <2>3 DEF high
  <2> QED
    BY ONLY <1>3, <2>4, l \in Nat, mss \in Nat
<1>10. /\ state # "IDLE" /\ state' # "IDLE" /\ last_acked' = last_acked
       /\ endhost = "PKTPAIR" /\ last_acked <= Cap(highest_sent, packets_sent)
  BY <1>1, PairStill DEF Timeout, TimeoutDue, Active, OfPair
<1>11. out # <<>>
  <2>1. Len(out) # 0
    BY <1>4, <1>7 DEF OutOK
  <2> QED
    BY <2>1
<1>12. SendsOK(out)
  <2>1. \A i \in 1 .. Len(out) :
          IF out[i].first THEN i < Len(out) \/ FLOWSIZE <= highest_sent' ELSE state # "IDLE" \/ 1 < i
    BY <1>7, <1>8, <1>10
  <2>2. highest_sent' = last_acked + MSS_BYTES * Len(out)
    BY <1>8, <1>9
  <2> QED
    BY ONLY <1>3, <1>7, <1>8, <1>10, <1>11, <2>1, <2>2, IInv, PairInv, RowSends
<1>13. last_acked' <= Cap(highest_sent, packets_sent)
  BY <1>10
<1> QED
  BY ONLY <1>1, <1>5, <1>8, <1>10, <1>12, <1>13, IInv, IInv', PairInv, OfPair, d \in Disturbance,
          SourceEventSends

LEMMA PacketPairPacePair ==
  ASSUME IInv, IInv', PairInv, OfPair, NEW d \in Disturbance, PacketPairPace(d)
  PROVE  PairInv'
<1> DEFINE pair == Pair(highest_sent, bdp, dupacks)
           wake == now' + gap
<1>1. /\ NextEventOf(SOURCE) /\ Active /\ state' = state /\ last_acked' = last_acked
      /\ SendPairAndReschedule(<<>>, pair, highest_sent, rto_timeout, wake, d)
  BY DEF PacketPairPace
<1>2. now' \in Nat
  BY <1>1, Fires DEF Moment
<1>3. highest_sent \in Nat
  BY SegmentsNow
<1>4. /\ OutOK(pair) /\ Row(pair, highest_sent)
      /\ Flags(pair, highest_sent + MSS_BYTES * Len(pair))
  BY <1>2, <1>3, PairOK, PairRow
<1>5. wake \in Nat /\ now' <= wake
  <2>1. gap \in Nat
    BY SourceFacts DEF SourceNow
  <2> QED
    BY <1>2, <2>1, LaterTime
<1> HIDE DEF pair, wake
<1>6. <<>> \o pair = pair
  BY <1>4, OutFacts, OutConcat
<1>7. /\ highest_sent' = highest_sent + MSS_BYTES * Len(pair)
      /\ Transmit(pair, d) /\ packets_sent' = packets_sent + MSS_BYTES * Len(pair)
      /\ pendingsources' = sourceIsPending(Served(pair, d, Tail(pendingsources)), SOURCE, wake)
      /\ UNCHANGED <<inflight, sinkVars, pairVars>>
  BY <1>1, <1>6 DEF SendPairAndReschedule, SendOut
<1>8. /\ state # "IDLE" /\ state' # "IDLE" /\ endhost = "PKTPAIR"
      /\ last_acked' <= Cap(highest_sent, packets_sent)
      /\ highest_sent <= Cap(highest_sent, packets_sent)
  BY <1>1, PairStill DEF Active, OfPair
<1>9. SendsOK(pair)
  <2>1. \A i \in 1 .. Len(pair) :
          IF pair[i].first THEN i < Len(pair) \/ FLOWSIZE <= highest_sent' ELSE state # "IDLE" \/ 1 < i
    BY <1>4, <1>7 DEF Flags
  <2> QED
    BY ONLY <1>3, <1>4, <1>7, <1>8, <2>1, IInv, PairInv, RowSends
<1> QED
  BY ONLY <1>1, <1>5, <1>7, <1>8, <1>9, IInv, IInv', PairInv, OfPair, d \in Disturbance,
          SourceEventSends

LEMMA FirstRtoTimeoutPair ==
  ASSUME IInv, IInv', PairInv, OfPair, NEW d \in Disturbance, FirstRtoTimeout(d)
  PROVE  PairInv'
<1> DEFINE out == <<Segment(last_acked + 1, FALSE)>>
<1>1. /\ NextEventOf(SOURCE) /\ Timeout
      /\ highest_sent' = last_acked + MSS_BYTES
      /\ Transmit(out, d) /\ packets_sent' = packets_sent + MSS_BYTES * Len(out)
      /\ pendingsources' = Served(out, d, Tail(pendingsources))
      /\ UNCHANGED <<inflight, sinkVars, pairVars>>
  BY DEF FirstRtoTimeout, SendOut
<1>2. now' \in Nat
  BY <1>1, Fires DEF Moment
<1>3. last_acked \in Nat
  BY SegmentsNow
<1>4. PICK p : p = Segment(last_acked + 1, FALSE) /\ p.seqno = last_acked + 1 /\ p.first = FALSE
  <2>1. Segment(last_acked + 1, FALSE).seqno = last_acked + 1 /\ Segment(last_acked + 1, FALSE).first = FALSE
    BY ONLY DEF Segment
  <2> QED
    BY ONLY <2>1
<1>5. /\ OutOK(out) /\ Len(out) = 1 /\ out # <<>> /\ out[1] = p
  BY <1>2, <1>4, AgainOK
<1> HIDE DEF out
<1>6. \A i \in 1 .. 1 : i = 1
  OBVIOUS
<1>7. Row(out, last_acked)
  <2>1. Place(1) = 1
    BY DEF Place
  <2>2. ASSUME NEW i \in 1 .. Len(out)
        PROVE  out[i].seqno = last_acked + Place(i)
    <3>1. i = 1
      BY ONLY <1>5, <1>6, i \in 1 .. Len(out)
    <3> QED
      BY ONLY <1>4, <1>5, <2>1, <3>1
  <2>3. Len(out) <= 3
    BY ONLY <1>5
  <2> QED
    BY ONLY <2>2, <2>3 DEF Row
<1>8. /\ state # "IDLE" /\ state' # "IDLE" /\ last_acked' = last_acked
      /\ endhost = "PKTPAIR" /\ last_acked <= Cap(highest_sent, packets_sent)
  BY <1>1, PairStill DEF Timeout, TimeoutDue, Active, OfPair
<1>9. SendsOK(out)
  <2>1. \A i \in 1 .. Len(out) :
          IF out[i].first THEN i < Len(out) \/ FLOWSIZE <= highest_sent' ELSE state # "IDLE" \/ 1 < i
    BY ONLY <1>4, <1>5, <1>6, <1>8
  <2>2. highest_sent' = last_acked + MSS_BYTES * Len(out)
    BY <1>1, <1>5, DataSinkAssumption
  <2> QED
    BY ONLY <1>1, <1>3, <1>5, <1>7, <1>8, <2>1, <2>2, IInv, PairInv, RowSends
<1>10. last_acked' <= Cap(highest_sent, packets_sent)
  BY <1>8
<1> QED
  BY ONLY <1>1, <1>8, <1>9, <1>10, IInv, IInv', PairInv, OfPair, d \in Disturbance,
          SourceEventSends

(* Nothing is sent and nothing arrives.                                    *)
LEMMA NothingMoves ==
  ASSUME IInv, PairInv, endhost = "PKTPAIR", endhost' = endhost,
         UNCHANGED <<sinkVars, pairVars, highest_sent, packets_sent, last_acked, enqueued>>,
         inflight'[FORWARD] = inflight[FORWARD],
         state # "IDLE", state' # "IDLE",
         enqueued # <<>> => SameEvents(pendingsources, pendingsources', QUEUE)
  PROVE  PairInv'
<1> DEFINE fwd == inflight[FORWARD]
<1>1. /\ enqueued \in Seq(Seg)
      /\ \A j \in 1 .. Len(fwd) : fwd[j].pkt.seqno \in Nat
      /\ highest_sent \in Nat /\ first_pair_seqno \in Nat
  BY SegmentsNow
<1> HIDE DEF fwd
<1>2. ASSUME highest_sent = packets_sent
      PROVE  PairsOK(highest_sent, first_pair_seqno, first_pair_ts, fwd, enqueued, pendingsources')
  <2>1. PairsOK(highest_sent, first_pair_seqno, first_pair_ts, fwd, enqueued, pendingsources)
    BY <1>2 DEF PairInv, fwd
  <2>2. \A k \in 1 .. Len(enqueued) : EndsBy(enqueued[k].seqno, highest_sent)
    BY <1>2 DEF PairInv, SentOK, Cap
  <2>3. PICK none : none = <<>>
    OBVIOUS
  <2>4. none \in Seq(Seg) /\ enqueued \o none = enqueued
    BY <1>1, <2>3
  <2>5. \A k \in 1 .. Len(none) : /\ highest_sent < FLOWSIZE /\ highest_sent < none[k].seqno
                                  /\ InQueue(highest_sent, none, k)
    BY <2>3
  <2>6. highest_sent <= highest_sent
    BY <1>1
  <2>7. PairsOK(highest_sent, first_pair_seqno, first_pair_ts, fwd, enqueued \o none, pendingsources')
    BY ONLY <1>1, <2>1, <2>2, <2>4, <2>5, <2>6, MoreSegments,
            enqueued # <<>> => SameEvents(pendingsources, pendingsources', QUEUE)
  <2> QED
    BY <2>4, <2>7
<1> QED
  BY <1>2 DEF PairInv, PairIsService, sinkVars, pairVars, fwd

LEMMA FirstRtoPassedPair ==
  ASSUME IInv, PairInv, OfPair, FirstRtoPassed
  PROVE  PairInv'
<1>1. /\ NextEventOf(SOURCE) /\ pendingsources' = Tail(pendingsources)
      /\ state' = state /\ state # "IDLE"
      /\ UNCHANGED <<sinkVars, pairVars, highest_sent, packets_sent, last_acked, enqueued>>
      /\ inflight' = inflight
  BY DEF FirstRtoPassed, Restarts, sourceVars, ackVars, pathVars
<1>2. enqueued # <<>> => SameEvents(pendingsources, pendingsources', QUEUE)
  <2>1. \A s : s # SOURCE => SameEvents(pendingsources, Tail(pendingsources), s)
    BY <1>1, Fires
  <2> QED
    BY <1>1, <2>1, Sources DEF Ids
<1>3. endhost = "PKTPAIR" /\ endhost' = endhost
  BY DEF OfPair
<1> QED
  BY <1>1, <1>2, <1>3, NothingMoves

LEMMA PacketPairCleanUpPair ==
  ASSUME IInv, PairInv, OfPair, PacketPairCleanUp
  PROVE  PairInv'
<1>1. /\ NextEventOf(SOURCE) /\ pendingsources' = Tail(pendingsources)
      /\ state' # "IDLE" /\ state # "IDLE"
      /\ UNCHANGED <<sinkVars, pairVars, highest_sent, packets_sent, last_acked, enqueued>>
      /\ inflight' = inflight
  BY DEF PacketPairCleanUp, ackVars, pathVars
<1>2. enqueued # <<>> => SameEvents(pendingsources, pendingsources', QUEUE)
  <2>1. \A s : s # SOURCE => SameEvents(pendingsources, Tail(pendingsources), s)
    BY <1>1, Fires
  <2> QED
    BY <1>1, <2>1, Sources DEF Ids
<1>3. endhost = "PKTPAIR" /\ endhost' = endhost
  BY DEF OfPair
<1> QED
  BY <1>1, <1>2, <1>3, NothingMoves

LEMMA PacketPairDrainPair ==
  ASSUME IInv, PairInv, OfPair, PacketPairDrain
  PROVE  PairInv'
<1>1. /\ NextEventOf(SOURCE)
      /\ pendingsources' = sourceIsPending(Tail(pendingsources), SOURCE, now' + rtt)
      /\ state' = state /\ state # "IDLE"
      /\ UNCHANGED <<sinkVars, pairVars, highest_sent, packets_sent, last_acked, enqueued>>
      /\ inflight' = inflight
  BY DEF PacketPairDrain, sourceVars, ackVars, pathVars
<1>2. /\ now' \in Nat /\ ListOK(Tail(pendingsources), now')
      /\ \A s : s # SOURCE => SameEvents(pendingsources, Tail(pendingsources), s)
  BY <1>1, Fires DEF Moment
<1>3. PICK wake \in Nat : wake = now' + rtt /\ now' <= wake
  <2>1. rtt \in Nat
    BY SourceFacts DEF SourceNow
  <2> QED
    BY <1>2, <2>1, LaterTime
<1>4. PICK rest : rest = Tail(pendingsources)
  OBVIOUS
<1>5. PICK o : o = sourceIsPending(rest, SOURCE, wake)
  OBVIOUS
<1>6. \A s : s # SOURCE => SameEvents(rest, o, s)
  BY <1>2, <1>3, <1>4, <1>5, Sources, PendingFacts
<1>7. SameEvents(pendingsources, o, QUEUE)
  BY <1>2, <1>4, <1>6, Sources, SameTransitive DEF Ids
<1>8. endhost = "PKTPAIR" /\ endhost' = endhost /\ pendingsources' = o
  BY <1>1, <1>3, <1>4, <1>5 DEF OfPair
<1> QED
  BY <1>1, <1>7, <1>8, NothingMoves

-----------------------------------------------------------------------------
(* The acks.                                                               *)

LEMMA AckQueueStays ==
  ASSUME IInv, AckEvent, enqueued # <<>>, NEW out, NEW d,
         NEW wake \in Nat, wake = FOREVER \/ now' <= wake, AckScheduled(out, wake, d)
  PROVE  SameEvents(pendingsources, pendingsources', QUEUE)
<1> DEFINE rest == Tail(pendingsources)
<1>1. /\ NextEventOf(BACK) /\ inflight' = [inflight EXCEPT ![BACK] = Tail(@)]
  BY DEF AckEvent
<1>2. /\ now' \in Nat /\ ListOK(rest, now')
      /\ \A s : s # BACK => SameEvents(pendingsources, rest, s)
      /\ inflight' \in Flights
      /\ inflight'[BACK] # <<>> => now' <= Head(inflight'[BACK]).when
  BY <1>1, Sources, PipeFires DEF Moment
<1>3. Served(out, d, rest) = rest
  BY DEF Served
<1> HIDE DEF rest
<1>4. PICK woken : woken = IF wake = FOREVER THEN rest ELSE sourceIsPending(rest, SOURCE, wake)
  OBVIOUS
<1>5. ListOK(woken, now') /\ SameEvents(rest, woken, QUEUE)
  <2>1. CASE wake = FOREVER
    BY <1>2, <1>4, <2>1, SameReflexive
  <2>2. CASE wake # FOREVER
    <3>1. PICK o : o = sourceIsPending(rest, SOURCE, wake)
      OBVIOUS
    <3>2. ListOK(o, now') /\ \A s : s # SOURCE => SameEvents(rest, o, s)
      BY <1>2, <2>2, <3>1, Sources, PendingFacts
    <3> QED
      BY <1>4, <2>2, <3>1, <3>2, Sources DEF Ids
  <2> QED
    BY <2>1, <2>2
<1>6. pendingsources' = Rescheduled(BACK, inflight', woken)
  BY <1>3, <1>4 DEF AckScheduled, rest
<1>7. SameEvents(woken, pendingsources', QUEUE)
  <2>1. PICK o : o = Rescheduled(BACK, inflight', woken)
    OBVIOUS
  <2>2. \A s : s # BACK => SameEvents(woken, o, s)
    BY <1>2, <1>5, <2>1, Sources, RescheduledFacts
  <2> QED
    BY <1>6, <2>1, <2>2, Sources DEF Ids
<1>8. SameEvents(pendingsources, rest, QUEUE)
  BY <1>2, Sources DEF Ids
<1> QED
  BY <1>5, <1>7, <1>8, SameTransitive

LEMMA AckLeavesForward ==
  ASSUME IInv, AckEvent
  PROVE  inflight'[FORWARD] = inflight[FORWARD]
<1>1. /\ NextEventOf(BACK) /\ inflight' = [inflight EXCEPT ![BACK] = Tail(@)]
  BY DEF AckEvent
<1>2. \A j \in Pipes : j # BACK => inflight'[j] = inflight[j]
  BY <1>1, Sources, PipeFires
<1> QED
  BY <1>2, Sources DEF Ids

(* A handler has sent the packets h.out up to h.high.                      *)
Sender(h) ==
  /\ h.high \in Nat /\ OutOK(h.out)
  /\ h.wake \in Nat /\ (h.wake = FOREVER \/ now' <= h.wake)
  /\ h.st # "IDLE"
  /\ Row(h.out, highest_sent) /\ Len(h.out) <= 2
  /\ h.high = highest_sent + MSS_BYTES * Len(h.out)
  /\ Flags(h.out, h.high)

LEMMA AckProcessedPair ==
  ASSUME IInv, IInv', PairInv, OfPair, AckTaken, NEW d \in Disturbance, NEW h, Sender(h),
         UNCHANGED pairVars, ProcessAck(h, theAck.ackno, d)
  PROVE  PairInv'
<1>1. AckEvent /\ Active /\ theAck.ackno < FLOWSIZE
  BY DEF AckTaken
<1>2. /\ now' \in Nat /\ theAck.ackno \in Nat /\ theAck.ackno <= cumulative_ack
      /\ UNCHANGED sinkVars
  BY <1>1, AckSeen DEF Moment, AckEvent
<1>3. PICK ack \in Nat : ack = theAck.ackno
  BY <1>2
<1>4. /\ endhost = "PKTPAIR" /\ endhost' = endhost /\ state # "IDLE"
      /\ last_acked <= Cap(highest_sent, packets_sent)
      /\ cumulative_ack <= Cap(highest_sent, packets_sent)
      /\ highest_sent <= Cap(highest_sent, packets_sent)
  BY <1>1, PairStill DEF OfPair, Active
<1>5. ack <= Cap(highest_sent, packets_sent)
  <2>1. highest_sent \in Nat /\ packets_sent \in Nat /\ highest_sent <= packets_sent /\ cumulative_ack \in Nat
    BY <1>4, SegmentsNow DEF PairInv
  <2>2. PICK cap \in Nat : cap = Cap(highest_sent, packets_sent)
    BY <2>1, CapFacts
  <2> QED
    BY ONLY <1>2, <1>3, <1>4, <2>1, <2>2
<1>6. highest_sent \in Nat /\ last_acked \in Nat
  BY SegmentsNow
<1>7. ASSUME NEW out, SendsOK(out), SendOut(out, d), AckScheduled(out, h.wake, d),
             state' # "IDLE", last_acked' \in {ack, last_acked}
      PROVE  PairInv'
  <2>1. enqueued # <<>> => SameEvents(pendingsources, pendingsources', QUEUE)
    BY <1>1, <1>7, AckQueueStays DEF Sender
  <2>2. inflight'[FORWARD] = inflight[FORWARD]
    BY <1>1, AckLeavesForward
  <2>3. last_acked' <= Cap(highest_sent, packets_sent)
    BY <1>4, <1>5, <1>7
  <2>4. Transmit(out, d)
    BY <1>7 DEF SendOut
  <2> QED
    BY ONLY <1>2, <1>4, <1>7, <2>1, <2>2, <2>3, <2>4, IInv, IInv', PairInv, PacketsSent,
            UNCHANGED pairVars
<1>8. ASSUME highest_sent' = h.high, SendOut(h.out, d)
      PROVE  SendsOK(h.out)
  <2>1. \A i \in 1 .. Len(h.out) :
          IF h.out[i].first THEN i < Len(h.out) \/ FLOWSIZE <= highest_sent' ELSE state # "IDLE" \/ 1 < i
    BY <1>8 DEF Sender, Flags
  <2>2. /\ OutOK(h.out) /\ Row(h.out, highest_sent)
        /\ highest_sent' = highest_sent + MSS_BYTES * Len(h.out)
        /\ packets_sent' = packets_sent + MSS_BYTES * Len(h.out)
    BY <1>8 DEF Sender, SendOut
  <2> QED
    BY ONLY <1>4, <1>6, <2>1, <2>2, IInv, PairInv, RowSends
<1>9. ASSUME highest_sent' = AfterRetransmit(ack, h.high),
             SendOut(h.out \o <<Segment(ack + 1, FALSE)>>, d)
      PROVE  SendsOK(h.out \o <<Segment(ack + 1, FALSE)>>)
  <2>1. PICK all : all = h.out \o <<Segment(ack + 1, FALSE)>>
    OBVIOUS
  <2>2. OutOK(all) /\ ack < FLOWSIZE
    <3>1. ack < FLOWSIZE
      BY <1>1, <1>3
    <3> QED
      BY <1>2, <2>1, <3>1, AgainFacts DEF Sender
  <2>3. packets_sent' = packets_sent + MSS_BYTES * Len(all)
    BY <1>9, <2>1 DEF SendOut
  <2>4. PICK o, high : o = h.out /\ high = h.high
    OBVIOUS
  <2>5. /\ OutOK(o) /\ Row(o, highest_sent) /\ Len(o) <= 2
        /\ high = highest_sent + MSS_BYTES * Len(o)
        /\ \A i \in 1 .. Len(o) : o[i].first => i < Len(o) \/ FLOWSIZE <= high
    BY <2>4 DEF Sender, Flags
  <2>6. all = o \o <<Segment(ack + 1, FALSE)>> /\ highest_sent' = AfterRetransmit(ack, high)
    BY <1>9, <2>1, <2>4
  <2>7. SendsOK(all)
    BY ONLY <1>2, <1>4, <1>5, <2>2, <2>3, <2>5, <2>6, ack \in Nat, IInv, PairInv, RetransmitSends
  <2> QED
    BY <2>1, <2>7
<1>10. CASE NewAck(h, theAck.ackno, d)
  <2>1. /\ state' # "IDLE" /\ last_acked' = ack /\ highest_sent' = h.high
        /\ SendOut(h.out, d) /\ AckScheduled(h.out, h.wake, d)
    BY <1>3, <1>10 DEF NewAck, Sender
  <2> QED
    BY <1>7, <1>8, <2>1
<1>11. CASE DupAck(h, theAck.ackno, d)
  <2>1. /\ state' # "IDLE" /\ last_acked' = last_acked /\ highest_sent' = h.high
        /\ SendOut(h.out, d) /\ AckScheduled(h.out, h.wake, d)
    BY <1>3, <1>11 DEF DupAck, Sender
  <2> QED
    BY <1>7, <1>8, <2>1
<1>12. CASE FastRetransmit(h, theAck.ackno, d)
  <2> DEFINE all == h.out \o <<Segment(ack + 1, FALSE)>>
  <2>1. /\ state' # "IDLE" /\ last_acked' = last_acked
        /\ highest_sent' = AfterRetransmit(ack, h.high)
        /\ SendOut(all, d) /\ AckScheduled(all, h.wake, d)
    BY <1>3, <1>12 DEF FastRetransmit
  <2>2. SendsOK(all)
    BY <1>9, <2>1
  <2> HIDE DEF all
  <2> QED
    BY <1>7, <2>1, <2>2
<1>13. CASE PartialAck(h, theAck.ackno, d)
  <2> DEFINE all == h.out \o <<Segment(ack + 1, FALSE)>>
  <2>1. /\ state' # "IDLE" /\ last_acked' = ack
        /\ highest_sent' = AfterRetransmit(ack, h.high)
        /\ SendOut(all, d) /\ AckScheduled(all, h.wake, d)
    BY <1>3, <1>13 DEF PartialAck, Sender
  <2>2. SendsOK(all)
    BY <1>9, <2>1
  <2> HIDE DEF all
  <2> QED
    BY <1>7, <2>1, <2>2
<1>14. CASE RecoveredAck(h, theAck.ackno, d)
  <2>1. /\ state' # "IDLE" /\ last_acked' = ack /\ highest_sent' = h.high
        /\ SendOut(h.out, d) /\ AckScheduled(h.out, h.wake, d)
    BY <1>3, <1>14 DEF RecoveredAck
  <2> QED
    BY <1>7, <1>8, <2>1
<1> QED
  BY <1>10, <1>11, <1>12, <1>13, <1>14 DEF ProcessAck, ProcessOpenAck

LEMMA UntouchedSender ==
  ASSUME IInv, AckTaken, now' \in Nat
  PROVE  Sender(Untouched)
<1>1. /\ Untouched.st # "IDLE" /\ Untouched.high = highest_sent /\ Untouched.out = <<>>
      /\ Untouched.wake = FOREVER
  BY DEF Untouched, AckTaken, Active
<1>2. FOREVER \in Nat /\ OutOK(<<>>) /\ highest_sent \in Nat
  BY OutFacts, RateSourceAssumption, SegmentsNow
<1>3. PICK o : o = Untouched.out /\ o = <<>>
  BY <1>1
<1>4. /\ Len(o) = 0 /\ Row(o, highest_sent) /\ Flags(o, highest_sent)
      /\ highest_sent = highest_sent + MSS_BYTES * Len(o)
  <2>1. Len(o) = 0
    BY <1>3
  <2>2. \A i \in 1 .. 0 : FALSE
    OBVIOUS
  <2>3. MSS_BYTES * 0 = 0
    BY DataSinkAssumption
  <2> QED
    BY <1>2, <2>1, <2>2, <2>3 DEF Row, Flags
<1> QED
  BY <1>1, <1>2, <1>3, <1>4 DEF Sender

LEMMA AckNoPairPair ==
  ASSUME IInv, IInv', PairInv, OfPair, NEW d \in Disturbance, AckNoPair(d)
  PROVE  PairInv'
<1>1. AckTaken /\ ProcessAck(Untouched, theAck.ackno, d) /\ UNCHANGED pairVars /\ AckEvent
  BY DEF AckNoPair, AckTaken
<1>2. Sender(Untouched)
  BY <1>1, AckSeen, UntouchedSender DEF Moment
<1> QED
  BY ONLY <1>1, <1>2, IInv, IInv', PairInv, OfPair, d \in Disturbance, AckProcessedPair

LEMMA AckPairPair ==
  ASSUME IInv, IInv', PairInv, OfPair, NEW d \in Disturbance, AckPair(d)
  PROVE  PairInv'
<1>1. AckTaken /\ ProcessAck(Untouched, theAck.ackno, d) /\ UNCHANGED pairVars /\ AckEvent
  BY DEF AckPair, AckTaken
<1>2. Sender(Untouched)
  BY <1>1, AckSeen, UntouchedSender DEF Moment
<1> QED
  BY ONLY <1>1, <1>2, IInv, IInv', PairInv, OfPair, d \in Disturbance, AckProcessedPair

LEMMA AckFirstPairPair ==
  ASSUME IInv, IInv', PairInv, OfPair, NEW d \in Disturbance, AckFirstPair(d)
  PROVE  PairInv'
<1> DEFINE pair == Pair(highest_sent, bdp', dupacks)
           high == highest_sent + MSS_BYTES * Len(pair)
           timer == IF pair = <<>> THEN rto_timeout ELSE Armed(rto_timeout)
           wake == now' + gap'
           h == [st |-> "NORMAL", high |-> high, timer |-> timer, out |-> pair, wake |-> wake]
<1>1. /\ AckTaken /\ AckEvent /\ UNCHANGED pairVars
      /\ ProcessOpenAck(h, theAck.ackno, d)
  BY DEF AckFirstPair, AckTaken
<1>2. now' \in Nat
  BY <1>1, AckSeen DEF Moment
<1>3. highest_sent \in Nat
  BY SegmentsNow
<1>4. /\ OutOK(pair) /\ Row(pair, highest_sent) /\ Len(pair) <= 2
      /\ Flags(pair, highest_sent + MSS_BYTES * Len(pair))
  BY <1>2, <1>3, PairOK, PairRow
<1>5. wake \in Nat /\ now' <= wake
  <2>1. gap' \in Nat
    BY DEF IInv, TypeInv, SourceType
  <2> QED
    BY <1>2, <2>1, LaterTime
<1> HIDE DEF pair, wake
<1>6. high \in Nat
  BY <1>3, <1>4, SentBytes
<1>7. PICK end : end = high
  OBVIOUS
<1>8. end \in Nat /\ end = highest_sent + MSS_BYTES * Len(pair) /\ Flags(pair, end)
  BY <1>4, <1>6, <1>7
<1> HIDE DEF high, timer
<1>9. h.st = "NORMAL" /\ h.high = end /\ h.out = pair /\ h.wake = wake
  BY <1>7
<1> HIDE DEF h
<1>10. Sender(h)
  BY ONLY <1>4, <1>5, <1>8, <1>9 DEF Sender
<1>11. ProcessAck(h, theAck.ackno, d)
  BY <1>1 DEF ProcessAck
<1> QED
  BY ONLY <1>1, <1>10, <1>11, IInv, IInv', PairInv, OfPair, d \in Disturbance, AckProcessedPair

LEMMA AckElsewherePair ==
  ASSUME IInv, PairInv, endhost = "PKTPAIR", Elsewhere, NEW d \in Disturbance,
         AckIgnored(d) \/ AckFinish(d)
  PROVE  PairInv'
<1> DEFINE none == <<>>
<1>1. /\ AckEvent /\ Transmit(none, d) /\ AckScheduled(none, FOREVER, d)
      /\ UNCHANGED <<highest_sent, packets_sent, last_acked>>
      /\ state' = "FINISH" \/ state' = state
      /\ UNCHANGED <<sinkVars, pairVars>> /\ endhost' = endhost
  BY DEF AckIgnored, AckFinish, sourceVars, ackVars, AckEvent, Elsewhere
<1>2. OutOK(none) /\ FOREVER \in Nat /\ (FOREVER = FOREVER \/ now' <= FOREVER)
  BY OutFacts, RateSourceAssumption
<1>3. none = <<>>
  OBVIOUS
<1> HIDE DEF none
<1>4. ~ PathEmpty
  BY ONLY <1>1, <1>2, IInv, d \in Disturbance, AckStep
<1>5. state # "IDLE" /\ state' # "IDLE"
  BY <1>1, <1>4 DEF IInv, FlowInv
<1>6. enqueued' = enqueued
  BY <1>1, <1>2, <1>3, AckArrives DEF OutOK
<1>7. inflight'[FORWARD] = inflight[FORWARD]
  BY <1>1, AckLeavesForward
<1>8. enqueued # <<>> => SameEvents(pendingsources, pendingsources', QUEUE)
  BY <1>1, <1>2, AckQueueStays
<1> QED
  BY <1>1, <1>5, <1>6, <1>7, <1>8, NothingMoves
-----------------------------------------------------------------------------
(* A service ends: the segment it was for is at the sink Delay[FORWARD]    *)
(* later, and the next one at least SERVICE after it.                      *)

(* What completeService does to the queue and the pipe.                    *)
Passed(fwd, line, fwd2, line2, w) ==
  /\ line # <<>> /\ Len(line2) = Len(line) - 1 /\ Len(fwd2) = Len(fwd) + 1
  /\ fwd2[Len(fwd) + 1].pkt = line[1] /\ fwd2[Len(fwd) + 1].when = w
  /\ \A j \in 1 .. Len(fwd) : fwd2[j] = fwd[j]
  /\ \A j \in 1 .. Len(line2) : line2[j] = line[j + 1]

LEMMA ServiceMoves ==
  ASSUME IInv, NEW d \in Disturbance, completeService(d), UNCHANGED sinkVars
  PROVE  /\ now' \in Nat
         /\ Passed(inflight[FORWARD], enqueued, inflight'[FORWARD], enqueued', now' + Delay[FORWARD])
         /\ \A t : NextTimed(pendingsources, t) => (now' + Delay[FORWARD]) - t \in Spacing
         /\ enqueued' # <<>> => NextTimed(pendingsources', now' + Delay[FORWARD])
<1> DEFINE rest == Tail(pendingsources)
           sent == Notified(FORWARD, inflight, rest, now')
           when == now' + SERVICE + d.extra
<1>1. /\ NextEventOf(QUEUE)
      /\ inflight' = Received(FORWARD, Head(enqueued), inflight, now')
      /\ enqueued' = Tail(enqueued)
      /\ pendingsources' = IF enqueued' = <<>> THEN sent ELSE sourceIsPending(sent, QUEUE, when)
  BY DEF completeService
<1>2. /\ Moment /\ ListOK(rest, now')
      /\ Left(pendingsources, rest, QUEUE)
      /\ 1 \in EntriesOf(pendingsources, QUEUE) /\ pendingsources[1].when = now'
  BY ONLY <1>1, IInv, Fires
<1>3. enqueued # <<>>
  BY ServiceCompletes
<1>4. /\ enqueued \in Seq(Seg) /\ inflight[FORWARD] \in Seq(Slot)
  BY SegmentsNow
<1>5. /\ enqueued'= Tail(enqueued) /\ Len(enqueued') = Len(enqueued) - 1
      /\ \A j \in 1 .. Len(enqueued') : enqueued'[j] = enqueued[j + 1]
      /\ Head(enqueued) = enqueued[1] /\ enqueued[1] \in Seg
  BY ONLY <1>1, <1>3, <1>4
<1>6. FORWARD \in Pipes /\ inflight \in Flights
  BY Sources DEF IInv, FlightOK
<1>7. inflight'[FORWARD] = Append(inflight[FORWARD], [when |-> now' + Delay[FORWARD], pkt |-> enqueued[1]])
  BY <1>1, <1>5, <1>6 DEF Received, Flights
<1>8. PICK slot : slot = [when |-> now' + Delay[FORWARD], pkt |-> enqueued[1]]
                  /\ slot.when = now' + Delay[FORWARD] /\ slot.pkt = enqueued[1]
  <2> DEFINE slot == [when |-> now' + Delay[FORWARD], pkt |-> enqueued[1]]
  <2>1. slot.when = now' + Delay[FORWARD] /\ slot.pkt = enqueued[1]
    BY ONLY DEF slot
  <2> QED
    BY ONLY <2>1
<1>9. Passed(inflight[FORWARD], enqueued, inflight'[FORWARD], enqueued', now' + Delay[FORWARD])
  <2>1. PICK line \in Seq(Slot) : line = inflight[FORWARD]
    BY <1>4
  <2>2. slot \in Slot
    <3>1. now' + Delay[FORWARD] \in Nat
      BY <1>2, <1>6, DelayType DEF Moment
    <3> QED
      BY <1>5, <1>8, <3>1 DEF Slot
  <2>3. PICK line2 : line2 = Append(line, slot)
    OBVIOUS
  <2>4. /\ Len(line2) = Len(line) + 1 /\ line2[Len(line) + 1] = slot
        /\ \A j \in 1 .. Len(line) : line2[j] = line[j]
    BY ONLY <2>1, <2>2, <2>3, line \in Seq(Slot)
  <2>5. inflight'[FORWARD] = line2
    BY <1>7, <1>8, <2>1, <2>3
  <2> QED
    BY ONLY <1>3, <1>5, <1>8, <2>1, <2>4, <2>5 DEF Passed
<1>10. ASSUME NEW t, NextTimed(pendingsources, t)
       PROVE  (now' + Delay[FORWARD]) - t \in Spacing
  <2>1. (pendingsources[1].when + Delay[FORWARD]) - t \in Spacing
    BY <1>2, <1>10 DEF NextTimed
  <2> QED
    BY <1>2, <2>1
<1>11. EntriesOf(rest, QUEUE) = {}
  <2>1. AtMostOne(pendingsources, QUEUE)
    BY DEF IInv, PathEvents, QueueEvent
  <2> HIDE DEF rest
  <2> QED
    BY ONLY <1>2, <2>1, LeftOfOne
<1>12. /\ ListOK(sent, now') /\ EntriesOf(sent, QUEUE) = {}
  <2>1. FlightOK(inflight, now', cumulative_ack)
    <3>1. cumulative_ack <= cumulative_ack /\ cumulative_ack \in Nat /\ now \in Nat
      BY DEF IInv, TypeInv
    <3>2. FlightOK(inflight, now, cumulative_ack)
      BY DEF IInv
    <3> QED
      BY ONLY <1>2, <3>1, <3>2, FlightLater DEF Moment
  <2>2. LineOK(inflight[FORWARD], now' + Delay[FORWARD])
    BY <1>6, <2>1 DEF FlightOK
  <2>3. PICK p \in Seg \cup PlainAck \cup PairAck : p = enqueued[1]
    BY <1>5
  <2>4. now' \in Nat
    BY <1>2 DEF Moment
  <2> HIDE DEF rest
  <2>5. LET o == Notified(FORWARD, inflight, rest, now')
        IN  ListOK(o, now') /\ \A s : s # FORWARD => SameEvents(rest, o, s)
    BY ONLY <1>2, <1>6, <2>2, <2>4, p \in Seg \cup PlainAck \cup PairAck, ReceivedFacts
  <2>6. ListOK(sent, now') /\ SameEvents(rest, sent, QUEUE)
    BY <2>5, Sources DEF Ids
  <2> HIDE DEF sent
  <2>7. EntriesOf(sent, QUEUE) = {}
    BY ONLY <1>11, <2>6, SameKeeps, ZenonT(60)
  <2> QED
    BY <2>6, <2>7
<1>13. ASSUME enqueued' # <<>>
       PROVE  NextTimed(pendingsources', now' + Delay[FORWARD])
  <2>1. PICK t \in Nat : t = now'
    BY <1>2 DEF Moment
  <2>2. PICK x \in Nat, service \in Nat : x = d.extra /\ service = SERVICE
    BY TimedPathAssumption, DisturbanceType
  <2>3. when = t + service + x /\ when \in Nat /\ t <= when
    BY <2>1, <2>2
  <2> HIDE DEF when, sent, rest
  <2>4. PICK out : out = sourceIsPending(sent, QUEUE, when)
    OBVIOUS
  <2>5. IF InTime(when) THEN Added(sent, out, QUEUE, when) ELSE out = sent
    BY ONLY <1>12, <2>1, <2>3, <2>4, Sources, PendingFacts, t \in Nat
  <2>6. \A k \in EntriesOf(out, QUEUE) : out[k].when = when
    <3>1. CASE InTime(when)
      <4>1. \E k \in 1 .. Len(out) : EntriesOf(out, QUEUE) = {k} /\ out[k].when = when
        BY <1>12, <2>5, <3>1, FirstEvent
      <4> QED
        BY <4>1
    <3>2. CASE ~ InTime(when)
      BY <1>12, <2>5, <3>2
    <3> QED
      BY <3>1, <3>2
  <2>7. pendingsources' = out
    BY <1>1, <1>13, <2>4
  <2>8. PICK del \in Nat : del = Delay[FORWARD]
    BY <1>6, DelayType
  <2>9. (when + del) - (t + del) = service + x
    BY ONLY <2>3, <2>8, t \in Nat, service \in Nat, x \in Nat, del \in Nat
  <2>10. service + x \in Spacing
    <3>1. x \in {0} \cup Extra
      BY <2>2 DEF Disturbance
    <3>2. CASE x = 0
      BY <2>2, <3>2 DEF Spacing
    <3>3. CASE x \in Extra
      BY <2>2, <3>3 DEF Spacing
    <3> QED
      BY <3>1, <3>2, <3>3
  <2> QED
    BY <2>1, <2>6, <2>7, <2>8, <2>9, <2>10 DEF NextTimed
<1> QED
  BY <1>2, <1>9, <1>10, <1>13 DEF Moment

(* The segment in service is the first that anybody waits for, and the     *)
(* next one is behind it by a service.                                     *)
LEMMA LeadMoved ==
  ASSUME NEW fwd, NEW line, NEW fwd2, NEW line2, NEW w, Passed(fwd, line, fwd2, line2, w),
         Len(fwd) \in Nat, Len(line) \in Nat \ {0},
         NEW s, NEW t, NEW n, NEW events, NEW out, Lead(s, t, n, fwd, line, events),
         NextTimed(events, t) => w - t \in Spacing
  PROVE  Lead(s, t, n, fwd2, line2, out)
<1>1. PICK m \in Nat, l \in Nat \ {0} : m = Len(fwd) /\ l = Len(line)
  OBVIOUS
<1>2. /\ Len(line2) = l - 1 /\ Len(fwd2) = m + 1
      /\ fwd2[m + 1].pkt = line[1] /\ fwd2[m + 1].when = w
      /\ \A j \in 1 .. m : fwd2[j] = fwd[j]
      /\ \A j \in 1 .. (l - 1) : line2[j] = line[j + 1]
  BY ONLY <1>1, Passed(fwd, line, fwd2, line2, w) DEF Passed
<1>3. PICK q : q = s + MSS_BYTES
  OBVIOUS
<1>4. /\ \A k \in 1 .. m : n < k /\ fwd[k].pkt.seqno = q => fwd[k].when - t \in Spacing
      /\ \A k \in 1 .. l : line[k].seqno = q => k = 1 /\ NextTimed(events, t)
  BY ONLY <1>1, <1>3, Lead(s, t, n, fwd, line, events) DEF Lead
<1>5. ASSUME NEW k \in 1 .. (l - 1)
      PROVE  k + 1 \in 1 .. l /\ k + 1 # 1
  BY ONLY l \in Nat \ {0}, k \in 1 .. (l - 1)
<1>6. ASSUME NEW k \in 1 .. (l - 1), line2[k].seqno = q
      PROVE  FALSE
  BY <1>2, <1>4, <1>5, <1>6
<1>7. ASSUME NEW k \in 1 .. (m + 1), n < k, fwd2[k].pkt.seqno = q
      PROVE  fwd2[k].when - t \in Spacing
  <2>1. CASE k \in 1 .. m
    BY <1>2, <1>4, <1>7, <2>1
  <2>2. CASE k \notin 1 .. m
    <3>1. k = m + 1
      BY ONLY <2>2, m \in Nat, k \in 1 .. (m + 1)
    <3>2. fwd2[k].when = w /\ line[1].seqno = q
      BY ONLY <1>2, <1>7, <3>1
    <3>3. 1 \in 1 .. l
      BY ONLY l \in Nat \ {0}
    <3> QED
      BY <1>4, <3>2, <3>3
  <2> QED
    BY <2>1, <2>2
<1> QED
  BY ONLY <1>2, <1>3, <1>6, <1>7 DEF Lead

LEMMA PairsMoved ==
  ASSUME NEW fwd, NEW line, NEW fwd2, NEW line2, NEW w, Passed(fwd, line, fwd2, line2, w),
         Len(fwd) \in Nat, Len(line) \in Nat \ {0},
         NEW high, NEW s, NEW t, NEW events, NEW out,
         PairsOK(high, s, t, fwd, line, events),
         \A x : NextTimed(events, x) => w - x \in Spacing,
         line2 # <<>> => NextTimed(out, w)
  PROVE  PairsOK(high, s, t, fwd2, line2, out)
<1>1. PICK m \in Nat, l \in Nat \ {0} : m = Len(fwd) /\ l = Len(line)
  OBVIOUS
<1>2. /\ Len(line2) = l - 1 /\ Len(fwd2) = m + 1
      /\ fwd2[m + 1].pkt = line[1] /\ fwd2[m + 1].when = w
      /\ \A j \in 1 .. m : fwd2[j] = fwd[j]
      /\ \A j \in 1 .. (l - 1) : line2[j] = line[j + 1]
  BY ONLY <1>1, Passed(fwd, line, fwd2, line2, w) DEF Passed
<1>3. /\ s # 0 => Known(s, high) /\ Lead(s, t, 0, fwd, line, events)
      /\ \A j \in 1 .. m : InPipe(high, fwd, line, events, j)
      /\ \A j \in 1 .. l : InQueue(high, line, j)
  BY ONLY <1>1, PairsOK(high, s, t, fwd, line, events) DEF PairsOK
<1>4. s # 0 => Known(s, high) /\ Lead(s, t, 0, fwd2, line2, out)
  BY <1>3, LeadMoved
<1>5. ASSUME NEW j \in 1 .. m
      PROVE  InPipe(high, fwd2, line2, out, j)
  <2>1. fwd2[j] = fwd[j]
    BY <1>2
  <2>2. CASE ~ fwd[j].pkt.first
    BY <1>3, <2>1, <2>2 DEF InPipe
  <2>3. CASE fwd[j].pkt.first
    <3>1. PICK p, u : p = fwd[j].pkt.seqno /\ u = fwd[j].when
      OBVIOUS
    <3>2. Known(p, high) /\ Lead(p, u, j, fwd, line, events)
      BY <1>3, <2>3, <3>1 DEF InPipe
    <3>3. Lead(p, u, j, fwd2, line2, out)
      BY <3>2, LeadMoved
    <3> QED
      BY ONLY <2>1, <2>3, <3>1, <3>2, <3>3 DEF InPipe
  <2> QED
    BY <2>2, <2>3
<1>6. ASSUME NEW k \in 1 .. (l - 1)
      PROVE  k + 1 \in 1 .. l
  BY ONLY l \in Nat \ {0}, k \in 1 .. (l - 1)
<1>7. InPipe(high, fwd2, line2, out, m + 1)
  <2>1. 1 \in 1 .. l
    OBVIOUS
  <2>2. InQueue(high, line, 1)
    BY <1>3, <2>1
  <2>3. CASE ~ line[1].first
    BY ONLY <1>2, <2>2, <2>3 DEF InPipe, InQueue
  <2>4. CASE line[1].first
    <3>1. PICK p : p = line[1].seqno
      OBVIOUS
    <3>2. Known(p, high) /\ \A k \in 1 .. l : line[k].seqno = p + MSS_BYTES => k = 1 + 1
      BY ONLY <1>1, <2>2, <2>4, <3>1 DEF InQueue
    <3>3. ASSUME NEW k \in 1 .. (l - 1), line2[k].seqno = p + MSS_BYTES
          PROVE  k = 1 /\ NextTimed(out, w)
      <4>1. k + 1 = 1 + 1
        BY <1>2, <1>6, <3>2, <3>3
      <4>2. k = 1
        BY ONLY <4>1, l \in Nat \ {0}, k \in 1 .. (l - 1)
      <4>3. line2 # <<>>
        BY ONLY <1>2, l \in Nat \ {0}, k \in 1 .. (l - 1)
      <4> QED
        BY <4>2, <4>3
    <3>4. ~ \E k \in 1 .. (m + 1) : m + 1 < k
      BY ONLY m \in Nat
    <3>5. Lead(p, w, m + 1, fwd2, line2, out)
      BY ONLY <1>2, <3>3, <3>4 DEF Lead
    <3> QED
      BY ONLY <1>2, <2>4, <3>1, <3>2, <3>5 DEF InPipe
  <2> QED
    BY <2>3, <2>4
<1>8. ASSUME NEW j \in 1 .. (m + 1)
      PROVE  InPipe(high, fwd2, line2, out, j)
  <2>1. j \in 1 .. m \/ j = m + 1
    BY ONLY m \in Nat, j \in 1 .. (m + 1)
  <2> QED
    BY <1>5, <1>7, <2>1
<1>9. ASSUME NEW j \in 1 .. (l - 1)
      PROVE  InQueue(high, line2, j)
  <2>1. line2[j] = line[j + 1] /\ InQueue(high, line, j + 1)
    BY <1>2, <1>3, <1>6
  <2>2. CASE ~ line2[j].first
    BY ONLY <2>1, <2>2 DEF InQueue
  <2>3. CASE line2[j].first
    <3>1. PICK p : p = line2[j].seqno
      OBVIOUS
    <3>2. Known(p, high) /\ \A k \in 1 .. l : line[k].seqno = p + MSS_BYTES => k = j + 1 + 1
      BY ONLY <1>1, <2>1, <2>3, <3>1 DEF InQueue
    <3>3. ASSUME NEW k \in 1 .. (l - 1), line2[k].seqno = p + MSS_BYTES
          PROVE  k = j + 1
      <4>1. k + 1 = j + 1 + 1
        BY <1>2, <1>6, <3>2, <3>3
      <4> QED
        BY ONLY <4>1, l \in Nat \ {0}, k \in 1 .. (l - 1), j \in 1 .. (l - 1)
    <3> QED
      BY ONLY <1>2, <2>3, <3>1, <3>2, <3>3 DEF InQueue
  <2> QED
    BY <2>2, <2>3
<1> QED
  BY ONLY <1>2, <1>4, <1>8, <1>9 DEF PairsOK

LEMMA ServicePair ==
  ASSUME IInv, PairInv, endhost = "PKTPAIR", Elsewhere, NEW d \in Disturbance,
         completeService(d), UNCHANGED <<sourceVars, sinkVars>>
  PROVE  PairInv'
<1> DEFINE fwd == inflight[FORWARD]
           fwd2 == inflight'[FORWARD]
           w == now' + Delay[FORWARD]
           cap == Cap(highest_sent, packets_sent)
<1>1. /\ Passed(fwd, enqueued, fwd2, enqueued', w)
      /\ \A t : NextTimed(pendingsources, t) => w - t \in Spacing
      /\ enqueued' # <<>> => NextTimed(pendingsources', w)
  <2>1. UNCHANGED sinkVars
    OBVIOUS
  <2>2. /\ Passed(inflight[FORWARD], enqueued, inflight'[FORWARD], enqueued', now' + Delay[FORWARD])
        /\ \A t : NextTimed(pendingsources, t) => (now' + Delay[FORWARD]) - t \in Spacing
        /\ enqueued' # <<>> => NextTimed(pendingsources', now' + Delay[FORWARD])
    <3> HIDE DEF fwd, fwd2, w, cap
    <3> QED
      BY ONLY <2>1, ServiceMoves, IInv, d \in Disturbance, completeService(d)
  <2> QED
    BY ONLY <2>2
<1>2. /\ enqueued \in Seq(Seg) /\ fwd \in Seq(Slot)
  BY SegmentsNow
<1> HIDE DEF fwd, fwd2, w, cap
<1>3. Len(fwd) \in Nat /\ Len(enqueued) \in Nat \ {0}
  BY <1>1, <1>2 DEF Passed
<1>4. /\ state' = state /\ highest_sent' = highest_sent /\ packets_sent' = packets_sent
      /\ last_acked' = last_acked /\ cumulative_ack' = cumulative_ack /\ received' = received
      /\ endhost' = endhost /\ UNCHANGED pairVars
  BY DEF sourceVars, ackVars, sinkVars, Elsewhere
<1>5. state # "IDLE"
  <2>1. ~ PathEmpty
    BY <1>3 DEF PathEmpty
  <2> QED
    BY <2>1 DEF IInv, FlowInv
<1>6. SentOK(cap, last_acked, cumulative_ack, received, fwd2, enqueued')
  <2>1. SentOK(cap, last_acked, cumulative_ack, received, fwd, enqueued)
    BY DEF PairInv, cap, fwd
  <2>2. PICK m \in Nat, l \in Nat \ {0} : m = Len(fwd) /\ l = Len(enqueued)
    BY <1>3
  <2>3. /\ Len(enqueued') = l - 1 /\ Len(fwd2) = m + 1
        /\ fwd2[m + 1].pkt = enqueued[1]
        /\ \A j \in 1 .. m : fwd2[j] = fwd[j]
        /\ \A j \in 1 .. (l - 1) : enqueued'[j] = enqueued[j + 1]
    BY ONLY <1>1, <2>2 DEF Passed
  <2>4. /\ \A j \in 1 .. m : EndsBy(fwd[j].pkt.seqno, cap)
        /\ \A j \in 1 .. l : EndsBy(enqueued[j].seqno, cap)
    BY ONLY <2>1, <2>2 DEF SentOK
  <2>5. ASSUME NEW j \in 1 .. (m + 1)
        PROVE  EndsBy(fwd2[j].pkt.seqno, cap)
    <3>1. j \in 1 .. m \/ j = m + 1
      BY ONLY m \in Nat, j \in 1 .. (m + 1)
    <3>2. 1 \in 1 .. l
      BY ONLY l \in Nat \ {0}
    <3> QED
      BY <2>3, <2>4, <3>1, <3>2
  <2>6. ASSUME NEW j \in 1 .. (l - 1)
        PROVE  EndsBy(enqueued'[j].seqno, cap)
    <3>1. j + 1 \in 1 .. l
      BY ONLY l \in Nat \ {0}, j \in 1 .. (l - 1)
    <3> QED
      BY <2>3, <2>4, <3>1
  <2> QED
    BY ONLY <2>1, <2>3, <2>5, <2>6 DEF SentOK
<1>7. ASSUME highest_sent = packets_sent
      PROVE  PairsOK(highest_sent, first_pair_seqno, first_pair_ts, fwd2, enqueued', pendingsources')
  <2>1. PairsOK(highest_sent, first_pair_seqno, first_pair_ts, fwd, enqueued, pendingsources)
    BY <1>7 DEF PairInv, fwd
  <2> QED
    BY ONLY <1>1, <1>3, <2>1, PairsMoved
<1> QED
  BY <1>4, <1>5, <1>6, <1>7 DEF PairInv, PairIsService, pairVars, fwd2, cap

-----------------------------------------------------------------------------
(* A segment arrives at the sink.                                          *)

(* What the sink has ends where the segments it was sent end.              *)
LEMMA SinkBound ==
  ASSUME cumulative_ack \in Nat, received \in Seq(Nat), NEW s \in Nat, NEW m \in Nat,
         cumulative_ack <= m, \A j \in 1 .. Len(received) : EndsBy(received[j], m),
         EndsBy(s, m), processDataPacket(s)
  PROVE  cumulative_ack' <= m /\ \A j \in 1 .. Len(received') : EndsBy(received'[j], m)
<1>1. PICK mss \in Nat \ {0} : mss = MSS_BYTES
  BY DataSinkAssumption
<1>2. PICK c \in Nat : c = cumulative_ack + MSS_BYTES
  BY <1>1
<1>3. PICK l \in Nat : l = Len(received)
  OBVIOUS
<1>4. PICK n \in 0 .. l : /\ n = InSequence(c)
                          /\ \A i \in 1 .. n : received[i] = c + (i - 1) * MSS_BYTES + 1
  BY <1>3, InSequenceFacts
<1>5. \A j \in 1 .. l : received[j] \in Nat /\ received[j] + mss <= m + 1
  <2>1. \A j \in 1 .. l : received[j] \in Nat
    BY <1>3, ElementType, ZenonT(60)
  <2> QED
    BY <1>1, <1>3, <2>1 DEF EndsBy
<1>6. CASE /\ s = cumulative_ack + 1 /\ cumulative_ack' = c + n * MSS_BYTES
           /\ received' = SubSeq(received, n + 1, l)
  <2>1. c + n * mss <= m
    <3>1. CASE n = 0
      <4>1. n * mss = 0
        BY <3>1
      <4>2. cumulative_ack + 1 + mss <= m + 1
        BY <1>1, <1>6 DEF EndsBy
      <4>3. c + 0 <= m
        BY ONLY <1>1, <1>2, <4>2, cumulative_ack \in Nat, mss \in Nat \ {0}, m \in Nat, c \in Nat
      <4> QED
        BY <4>1, <4>3
    <3>2. CASE n # 0
      <4>1. n \in 1 .. n /\ n \in 1 .. l /\ n - 1 \in Nat
        BY ONLY <3>2, l \in Nat, n \in 0 .. l
      <4>2. PICK x : x = (n - 1) * mss
        OBVIOUS
      <4>3. n * mss = x + mss /\ x \in Nat
        BY ONLY <4>1, <4>2, mss \in Nat \ {0}, n \in 0 .. l, l \in Nat
      <4>4. received[n] = c + x + 1 /\ received[n] + mss <= m + 1
        BY <1>1, <1>4, <1>5, <4>1, <4>2
      <4>5. c + (x + mss) <= m
        BY ONLY <4>3, <4>4, c \in Nat, mss \in Nat \ {0}, m \in Nat
      <4> QED
        BY ONLY <4>3, <4>5
    <3> QED
      BY <3>1, <3>2
  <2>2. ASSUME NEW j \in 1 .. Len(received')
        PROVE  EndsBy(received'[j], m)
    <3>1. PICK out : out = SubSeq(received, n + 1, l)
      OBVIOUS
    <3>2. Len(out) = l - n /\ \A k \in 1 .. (l - n) : n + k \in 1 .. l /\ out[k] = received[n + k]
      BY ONLY <1>3, <3>1, received \in Seq(Nat), l \in Nat, n \in 0 .. l
    <3>3. n + j \in 1 .. l /\ received'[j] = received[n + j]
      BY <1>6, <3>1, <3>2
    <3> QED
      BY <1>3, <3>3
  <2> QED
    BY <1>1, <1>6, <2>1, <2>2
<1>7. CASE s <= cumulative_ack /\ UNCHANGED sinkVars
  BY <1>7 DEF sinkVars
<1>8. CASE s > cumulative_ack + 1 /\ received' = Inserted(s) /\ UNCHANGED cumulative_ack
  <2>1. PICK at : at = Before(s) /\ at \in 0 .. l
    BY <1>3, BeforeRange
  <2>2. CASE received' = received
    BY <1>8, <2>2
  <2>3. CASE received' = InsertAt(received, at + 1, s)
    <3>1. PICK i \in 1 .. (l + 1) : i = at + 1
      BY <2>1
    <3>2. PICK out : out = InsertAt(received, i, s)
      OBVIOUS
    <3>3. /\ Len(out) = l + 1
          /\ \A j \in 1 .. (l + 1) :
               out[j] = IF j < i THEN received[j] ELSE IF j = i THEN s ELSE received[j - 1]
      <4>1. PICK S, list : S = Nat /\ list = received
        OBVIOUS
      <4>2. list \in Seq(S) /\ i \in 1 .. (Len(list) + 1) /\ s \in S
        BY <1>3, <4>1
      <4>3. /\ Len(InsertAt(list, i, s)) = Len(list) + 1
            /\ \A j \in 1 .. (Len(list) + 1) :
                 InsertAt(list, i, s)[j] =
                   IF j < i THEN list[j] ELSE IF j = i THEN s ELSE list[j - 1]
        BY ONLY <4>2, InsertAtFacts
      <4> QED
        BY ONLY <1>3, <3>2, <4>1, <4>3
    <3>4. ASSUME NEW j \in 1 .. (l + 1)
          PROVE  EndsBy(out[j], m)
      <4>1. CASE j < i
        <5>1. j \in 1 .. l
          BY ONLY <4>1, j \in 1 .. (l + 1), i \in 1 .. (l + 1), l \in Nat
        <5> QED
          BY <1>3, <3>3, <4>1, <5>1
      <4>2. CASE j = i
        BY <3>3, <4>2
      <4>3. CASE i < j
        <5>1. j - 1 \in 1 .. l /\ ~ (j < i) /\ j # i
          BY ONLY <4>3, j \in 1 .. (l + 1), i \in 1 .. (l + 1), l \in Nat
        <5> QED
          BY <1>3, <3>3, <5>1
      <4> QED
        BY <4>1, <4>2, <4>3
    <3> QED
      BY <1>8, <2>3, <3>1, <3>2, <3>3, <3>4
  <2> QED
    BY <1>8, <2>1, <2>2, <2>3 DEF Inserted
<1> QED
  BY <1>2, <1>3, <1>4, <1>6, <1>7, <1>8 DEF processDataPacket

(* The first segment leaves the pipe.                                      *)
LEMMA LeadShifts ==
  ASSUME NEW m \in Nat \ {0}, NEW fwd, NEW fwd2, Len(fwd) = m, Len(fwd2) = m - 1,
         \A j \in 1 .. (m - 1) : fwd2[j] = fwd[j + 1],
         NEW line, NEW s, NEW t, NEW n \in Nat, NEW i \in Nat, n <= i + 1,
         NEW events, NEW out, SameEvents(events, out, QUEUE),
         Lead(s, t, n, fwd, line, events)
  PROVE  Lead(s, t, i, fwd2, line, out)
<1>1. PICK q : q = s + MSS_BYTES
  OBVIOUS
<1>2. /\ \A k \in 1 .. m : n < k /\ fwd[k].pkt.seqno = q => fwd[k].when - t \in Spacing
      /\ \A k \in 1 .. Len(line) : line[k].seqno = q => k = 1 /\ NextTimed(events, t)
  BY ONLY <1>1, Len(fwd) = m, Lead(s, t, n, fwd, line, events) DEF Lead
<1>3. ASSUME NEW k \in 1 .. (m - 1), i < k, fwd2[k].pkt.seqno = q
      PROVE  fwd2[k].when - t \in Spacing
  <2>1. k + 1 \in 1 .. m /\ n < k + 1
    BY ONLY <1>3, m \in Nat \ {0}, n \in Nat, i \in Nat, n <= i + 1, k \in 1 .. (m - 1)
  <2> QED
    BY <1>2, <1>3, <2>1
<1>4. ASSUME NEW k \in 1 .. Len(line), line[k].seqno = q
      PROVE  k = 1 /\ NextTimed(out, t)
  BY <1>2, <1>4, TimedSame
<1> QED
  BY ONLY <1>1, <1>3, <1>4, Len(fwd2) = m - 1 DEF Lead

LEMMA PairsArrive ==
  ASSUME NEW m \in Nat \ {0}, NEW fwd, NEW fwd2, Len(fwd) = m, Len(fwd2) = m - 1,
         \A j \in 1 .. (m - 1) : fwd2[j] = fwd[j + 1],
         NEW line, NEW high, NEW s, NEW t, NEW events, NEW out,
         SameEvents(events, out, QUEUE), PairsOK(high, s, t, fwd, line, events),
         fwd[1].pkt.seqno \in Nat
  PROVE  LET p == fwd[1].pkt
             s2 == IF p.first THEN p.seqno ELSE 0
             t2 == IF p.first THEN fwd[1].when ELSE 0
         IN  /\ PairsOK(high, s2, t2, fwd2, line, out)
             /\ ~ p.first /\ s \in Nat /\ s = p.seqno - MSS_BYTES => fwd[1].when - t \in Spacing
<1> DEFINE p == fwd[1].pkt
           s2 == IF p.first THEN p.seqno ELSE 0
           t2 == IF p.first THEN fwd[1].when ELSE 0
<1>1. /\ s # 0 => Known(s, high) /\ Lead(s, t, 0, fwd, line, events)
      /\ \A j \in 1 .. m : InPipe(high, fwd, line, events, j)
      /\ \A j \in 1 .. Len(line) : InQueue(high, line, j)
  BY ONLY Len(fwd) = m, PairsOK(high, s, t, fwd, line, events) DEF PairsOK
<1>2. 1 \in 1 .. m
  BY ONLY m \in Nat \ {0}
<1>3. InPipe(high, fwd, line, events, 1)
  BY <1>1, <1>2
<1>4. ASSUME s2 # 0
      PROVE  Known(s2, high) /\ Lead(s2, t2, 0, fwd2, line, out)
  <2>1. fwd[1].pkt.first
    BY <1>4
  <2>2. PICK q, u : q = fwd[1].pkt.seqno /\ u = fwd[1].when
    OBVIOUS
  <2>3. Known(q, high) /\ Lead(q, u, 1, fwd, line, events)
    BY ONLY <1>3, <2>1, <2>2 DEF InPipe
  <2>4. 1 \in Nat /\ 0 \in Nat /\ 1 <= 0 + 1
    OBVIOUS
  <2>5. Lead(q, u, 0, fwd2, line, out)
    BY <2>3, <2>4, LeadShifts
  <2>6. s2 = q /\ t2 = u
    BY <2>1, <2>2
  <2> QED
    BY ONLY <2>3, <2>5, <2>6
<1>5. ASSUME NEW j \in 1 .. (m - 1)
      PROVE  InPipe(high, fwd2, line, out, j)
  <2>1. j + 1 \in 1 .. m /\ j \in Nat /\ j + 1 \in Nat /\ j + 1 <= j + 1
    BY ONLY m \in Nat \ {0}, j \in 1 .. (m - 1)
  <2>2. fwd2[j] = fwd[j + 1] /\ InPipe(high, fwd, line, events, j + 1)
    BY <1>1, <2>1
  <2>3. CASE ~ fwd2[j].pkt.first
    BY ONLY <2>2, <2>3 DEF InPipe
  <2>4. CASE fwd2[j].pkt.first
    <3>1. PICK q, u : q = fwd2[j].pkt.seqno /\ u = fwd2[j].when
      OBVIOUS
    <3>2. Known(q, high) /\ Lead(q, u, j + 1, fwd, line, events)
      BY ONLY <2>2, <2>4, <3>1 DEF InPipe
    <3>3. Lead(q, u, j, fwd2, line, out)
      BY <2>1, <3>2, LeadShifts
    <3> QED
      BY ONLY <2>4, <3>1, <3>2, <3>3 DEF InPipe
  <2> QED
    BY <2>3, <2>4
<1>6. ASSUME ~ p.first, s \in Nat, s = p.seqno - MSS_BYTES
      PROVE  fwd[1].when - t \in Spacing
  <2>1. PICK mss \in Nat \ {0}, q \in Nat : mss = MSS_BYTES /\ q = fwd[1].pkt.seqno
    BY DataSinkAssumption
  <2>2. mss < q
    BY ONLY <1>3, <1>6, <2>1 DEF InPipe
  <2>3. s = q - mss
    BY <1>6, <2>1
  <2>4. s # 0 /\ s + mss = q
    BY ONLY <2>2, <2>3, mss \in Nat \ {0}, q \in Nat
  <2>5. Lead(s, t, 0, fwd, line, events) /\ 0 < 1
    BY <1>1, <2>4
  <2> QED
    BY ONLY <1>2, <2>1, <2>4, <2>5, Len(fwd) = m DEF Lead
<1>7. PairsOK(high, s2, t2, fwd2, line, out)
  <2> HIDE DEF s2, t2
  <2> QED
    BY ONLY <1>1, <1>4, <1>5, Len(fwd2) = m - 1 DEF PairsOK
<1> QED
  BY <1>6, <1>7

LEMMA PacketPairSinkReceivePair ==
  ASSUME IInv, PairInv, OfPair, NEW d \in Disturbance, PacketPairSinkReceive(d)
  PROVE  PairInv'
<1> DEFINE fwd == inflight[FORWARD]
           fwd2 == inflight'[FORWARD]
           p == Head(inflight[FORWARD]).pkt
           ack == [ackno |-> cumulative_ack', ts |-> p.ts, diff |-> pktpairdiff']
           left == [inflight EXCEPT ![FORWARD] = Tail(@)]
           cap == Cap(highest_sent, packets_sent)
<1>1. /\ NextEventOf(FORWARD) /\ processDataPacket(p.seqno) /\ SinkEvent(ack, d)
      /\ pktpairdiff' = Measured(p)
      /\ first_pair_ts' = IF p.first THEN now' ELSE 0
      /\ first_pair_seqno' = IF p.first THEN p.seqno ELSE 0
      /\ UNCHANGED sourceVars
  BY DEF PacketPairSinkReceive
<1>2. endhost = "PKTPAIR" /\ endhost' = endhost
  BY DEF OfPair
<1>3. enqueued' = enqueued /\ SameEvents(pendingsources, pendingsources', QUEUE)
  BY PacketPairSinkReceiveInv DEF Answered
<1>4. /\ state' = state /\ highest_sent' = highest_sent /\ packets_sent' = packets_sent
      /\ last_acked' = last_acked
  BY <1>1 DEF sourceVars, ackVars
<1>5. FORWARD \in Pipes /\ BACK \in Pipes /\ FORWARD # BACK
  BY Sources DEF Ids
<1>6. /\ fwd # <<>> /\ Head(fwd) = fwd[1] /\ 1 \in 1 .. Len(fwd)
      /\ now' = Head(fwd).when /\ left \in Flights
  BY <1>1, <1>5, PipeFires
<1>7. /\ enqueued \in Seq(Seg) /\ fwd \in Seq(Slot)
      /\ \A j \in 1 .. Len(fwd) : fwd[j].pkt.seqno \in Nat
      /\ highest_sent \in Nat /\ packets_sent \in Nat /\ last_acked \in Nat
      /\ cumulative_ack \in Nat /\ received \in Seq(Nat)
      /\ first_pair_seqno \in Nat
  BY SegmentsNow
<1>8. fwd2 = Tail(fwd)
  <2>1. inflight' = IF d.lost = {} THEN Received(BACK, ack, left, now') ELSE left
    BY <1>1 DEF SinkEvent
  <2>2. left[FORWARD] = Tail(inflight[FORWARD])
    <3>1. inflight \in Flights
      BY DEF IInv, FlightOK
    <3> QED
      BY <1>5, <3>1 DEF Flights
  <2> HIDE DEF left, ack
  <2>3. Received(BACK, ack, left, now')[FORWARD] = left[FORWARD]
    BY ONLY <1>5, <1>6 DEF Received, Flights
  <2>4. inflight'[FORWARD] = left[FORWARD]
    BY ONLY <2>1, <2>3
  <2> QED
    BY ONLY <2>2, <2>4
<1> HIDE DEF left, ack
<1>9. PICK m \in Nat \ {0} : m = Len(fwd)
  <2> HIDE DEF fwd
  <2> QED
    BY ONLY <1>6, <1>7
<1>10. /\ Len(fwd2) = m - 1 /\ \A j \in 1 .. (m - 1) : fwd2[j] = fwd[j + 1]
  <2> HIDE DEF fwd, fwd2
  <2> QED
    BY ONLY <1>6, <1>7, <1>8, <1>9
<1>11. p = fwd[1].pkt /\ now' = fwd[1].when /\ p.seqno \in Nat
  BY <1>6, <1>7
<1> HIDE DEF p, fwd, fwd2
<1>12. cap \in Nat
  BY <1>2, <1>7, CapFacts DEF PairInv
<1>13. SentOK(cap, last_acked, cumulative_ack, received, fwd, enqueued)
  BY <1>2 DEF PairInv, fwd
<1> HIDE DEF cap
<1>14. SentOK(cap, last_acked, cumulative_ack', received', fwd2, enqueued)
  <2>1. /\ cumulative_ack <= cap /\ \A j \in 1 .. Len(received) : EndsBy(received[j], cap)
        /\ \A j \in 1 .. m : EndsBy(fwd[j].pkt.seqno, cap)
    BY ONLY <1>9, <1>13 DEF SentOK
  <2>2. EndsBy(p.seqno, cap)
    <3>1. 1 \in 1 .. m
      BY ONLY m \in Nat \ {0}
    <3> QED
      BY <1>11, <2>1, <3>1
  <2>3. cumulative_ack' <= cap /\ \A j \in 1 .. Len(received') : EndsBy(received'[j], cap)
    BY ONLY <1>1, <1>7, <1>11, <1>12, <2>1, <2>2, SinkBound
  <2>4. ASSUME NEW j \in 1 .. (m - 1)
        PROVE  EndsBy(fwd2[j].pkt.seqno, cap)
    <3>1. j + 1 \in 1 .. m
      BY ONLY m \in Nat \ {0}, j \in 1 .. (m - 1)
    <3> QED
      BY <1>10, <2>1, <3>1
  <2> QED
    BY ONLY <1>10, <1>13, <2>3, <2>4 DEF SentOK
<1>15. ASSUME highest_sent = packets_sent
       PROVE  /\ PairsOK(highest_sent, first_pair_seqno', first_pair_ts', fwd2, enqueued, pendingsources')
              /\ pktpairdiff' \in {0} \cup Spacing
  <2>1. PairsOK(highest_sent, first_pair_seqno, first_pair_ts, fwd, enqueued, pendingsources)
    BY <1>2, <1>15 DEF PairInv, fwd
  <2>2. fwd[1].pkt.seqno \in Nat /\ Len(fwd) = m
    BY <1>9, <1>11
  <2>3. LET q == fwd[1].pkt
            s2 == IF q.first THEN q.seqno ELSE 0
            t2 == IF q.first THEN fwd[1].when ELSE 0
        IN  /\ PairsOK(highest_sent, s2, t2, fwd2, enqueued, pendingsources')
            /\ ~ q.first /\ first_pair_seqno \in Nat /\ first_pair_seqno = q.seqno - MSS_BYTES =>
                 fwd[1].when - first_pair_ts \in Spacing
    BY ONLY <1>3, <1>10, <2>1, <2>2, m \in Nat \ {0}, PairsArrive
  <2>4. PairsOK(highest_sent, first_pair_seqno', first_pair_ts', fwd2, enqueued, pendingsources')
    BY ONLY <1>1, <1>11, <2>3
  <2>5. ASSUME ~ p.first /\ first_pair_seqno = p.seqno - MSS_BYTES
        PROVE  pktpairdiff' \in {0} \cup Spacing
    BY <1>1, <1>7, <1>11, <2>3, <2>5 DEF Measured
  <2>6. ASSUME ~ (~ p.first /\ first_pair_seqno = p.seqno - MSS_BYTES)
        PROVE  pktpairdiff' \in {0} \cup Spacing
    BY <1>1, <2>6 DEF Measured
  <2> QED
    BY <2>4, <2>5, <2>6
<1>16. state # "IDLE"
  <2>1. ~ PathEmpty
    BY <1>6 DEF PathEmpty, fwd
  <2> QED
    BY <2>1 DEF IInv, FlowInv
<1> QED
  BY <1>2, <1>3, <1>4, <1>14, <1>15, <1>16 DEF PairInv, PairIsService, Spacing, cap, fwd2

-----------------------------------------------------------------------------
(* Every step, and what follows.                                           *)

LEMMA InitPair == Init => PairInv
<1> SUFFICES ASSUME Init
             PROVE  PairInv
  OBVIOUS
<1>1. /\ enqueued = <<>> /\ received = <<>> /\ inflight[FORWARD] = <<>>
      /\ highest_sent = 0 /\ packets_sent = 0 /\ last_acked = 0 /\ cumulative_ack = 0
      /\ first_pair_seqno = 0 /\ pktpairdiff = 0 /\ state = "IDLE"
  <2>1. FORWARD \in Pipes
    BY Sources
  <2> QED
    BY <2>1 DEF Init, PathInit, SinkInit, SourceInit
<1>2. Cap(0, 0) = 0
  BY DEF Cap
<1>3. \A s : Len(<<>>) = 0 /\ (s \in 1 .. 0 => FALSE)
  OBVIOUS
<1>4. SentOK(Cap(highest_sent, packets_sent), last_acked, cumulative_ack, received,
             inflight[FORWARD], enqueued)
  BY <1>1, <1>2, <1>3 DEF SentOK
<1>5. PairsOK(highest_sent, first_pair_seqno, first_pair_ts, inflight[FORWARD],
              enqueued, pendingsources)
  BY <1>1, <1>3 DEF PairsOK
<1> QED
  BY <1>1, <1>4, <1>5 DEF PairInv, PairIsService

LEMMA NextPairStep ==
  ASSUME IInv, IInv', PairInv, OfPair, PacketPairNext
  PROVE  PairInv'
<1>1. CASE FirstRtoPassed
  BY <1>1, FirstRtoPassedPair
<1>2. CASE PacketPairCleanUp
  BY <1>2, PacketPairCleanUpPair
<1>3. CASE PacketPairDrain
  BY <1>3, PacketPairDrainPair
<1>4. ASSUME NEW d \in Disturbance, PacketPairStart(d)
      PROVE  PairInv'
  BY <1>4, PacketPairStartPair
<1>5. ASSUME NEW d \in Disturbance, PacketPairTimeout(d)
      PROVE  PairInv'
  BY <1>5, PacketPairTimeoutPair
<1>6. ASSUME NEW d \in Disturbance, PacketPairPace(d)
      PROVE  PairInv'
  BY <1>6, PacketPairPacePair
<1>7. ASSUME NEW d \in Disturbance, FirstRtoTimeout(d)
      PROVE  PairInv'
  BY <1>7, FirstRtoTimeoutPair
<1>8. ASSUME NEW d \in Disturbance, AckNoPair(d)
      PROVE  PairInv'
  BY <1>8, AckNoPairPair
<1>9. ASSUME NEW d \in Disturbance, AckPair(d)
      PROVE  PairInv'
  BY <1>9, AckPairPair
<1>10. ASSUME NEW d \in Disturbance, AckFirstPair(d)
       PROVE  PairInv'
  BY <1>10, AckFirstPairPair
<1>11. ASSUME NEW d \in Disturbance, PacketPairSinkReceive(d)
       PROVE  PairInv'
  BY <1>11, PacketPairSinkReceivePair
<1>12. ASSUME NEW d \in Disturbance, UNCHANGED <<estimateVars, pairVars>>,
              \/ AckIgnored(d) \/ AckFinish(d)
              \/ completeService(d) /\ UNCHANGED <<sourceVars, sinkVars>>
       PROVE  PairInv'
  <2>1. Elsewhere /\ endhost = "PKTPAIR"
    BY <1>12 DEF Elsewhere, OfPair
  <2>2. CASE AckIgnored(d) \/ AckFinish(d)
    BY <2>1, <2>2, AckElsewherePair
  <2>3. CASE completeService(d) /\ UNCHANGED <<sourceVars, sinkVars>>
    BY <2>1, <2>3, ServicePair
  <2> QED
    BY <1>12, <2>2, <2>3
<1> QED
  BY <1>1, <1>2, <1>3, <1>4, <1>5, <1>6, <1>7, <1>8, <1>9, <1>10, <1>11, <1>12 DEF PacketPairNext

LEMMA NextPair == IInv /\ IInv' /\ PairInv /\ [Next]_vars => PairInv'
<1>1. ASSUME IInv, IInv', PairInv,
             endhost = "TIMELY" /\ TimelyNext /\ UNCHANGED <<endhost, estimateVars, pairVars>>
      PROVE  PairInv'
  <2>1. endhost = "TIMELY" /\ endhost' = endhost /\ pktpairdiff' = pktpairdiff
    BY <1>1 DEF pairVars
  <2> QED
    BY <1>1, <2>1 DEF PairInv
<1>2. ASSUME IInv, IInv', PairInv,
             endhost = "PKTPAIR" /\ PacketPairNext /\ UNCHANGED <<endhost, last_rtt_bytes>>
      PROVE  PairInv'
  BY <1>2, NextPairStep DEF OfPair
<1>3. ASSUME PairInv, UNCHANGED vars
      PROVE  PairInv'
  <2>1. /\ endhost' = endhost /\ pendingsources' = pendingsources /\ inflight' = inflight
        /\ enqueued' = enqueued /\ cumulative_ack' = cumulative_ack /\ received' = received
        /\ state' = state /\ highest_sent' = highest_sent /\ last_acked' = last_acked
        /\ packets_sent' = packets_sent /\ pktpairdiff' = pktpairdiff
        /\ first_pair_ts' = first_pair_ts /\ first_pair_seqno' = first_pair_seqno
    BY <1>3 DEF vars, pathVars, sinkVars, sourceVars, ackVars, rttVars, pairVars
  <2> QED
    BY ONLY <1>3, <2>1 DEF PairInv, PairIsService
<1> QED
  BY <1>1, <1>2, <1>3 DEF Next

LEMMA PairFollows == IInv /\ PairInv => PairIsService
<1> SUFFICES ASSUME IInv, PairInv
             PROVE  PairIsService
  OBVIOUS
<1>1. endhost \in {"TIMELY", "PKTPAIR"}
  BY DEF IInv, TypeInv
<1> QED
  BY <1>1 DEF PairInv, PairIsService

(* While nothing was sent again, a pair measures what its second segment   *)
(* took at the bottleneck, whatever else was lost or delayed: the sink     *)
(* takes no other two segments for a pair.                                 *)
THEOREM PairMeasuresService == Spec => []PairIsService
<1>1. Init => IInv /\ PairInv
  BY InitInv, InitPair
<1>2. (IInv /\ PairInv) /\ [Next]_vars => (IInv /\ PairInv)'
  BY NextInv, NextPair
<1> QED
  BY <1>1, <1>2, PairFollows, PTL DEF Spec
=============================================================================
