--------------------------- MODULE PipeLine_proofs ---------------------------
(***************************************************************************)
(* Pipes in series, any number of them with any delays: a pipe with        *)
(* packets always has its one event in the event list, and a packet takes  *)
(* the sum of the delays.                                                  *)
(***************************************************************************)
EXTENDS PipeLine, NatLemmas, FiniteSetTheorems

(* The entries of the event list, and those of a pipe.                     *)
Entry == [when : Nat, src : 0 .. N_PIPES]
Slot == [when : Nat, pkt : Nat]
Flights == [Pipes -> Seq(Slot)]

(* The list has the one event of pipe i, if the pipe holds line.           *)
OneEvent(events, i, line) ==
  IF line # <<>> /\ InTime(Head(line).when)
  THEN \E k \in 1 .. Len(events) : EntriesOf(events, i) = {k} /\ events[k].when = Head(line).when
  ELSE EntriesOf(events, i) = {}

TypeInv ==
  /\ pendingsources \in Seq(Entry) /\ now \in Nat
  /\ inflight \in [Pipes -> Seq(Slot)]

(* The inductive invariant.                                                *)
IInv == TypeInv /\ OneEventPerPipe

-----------------------------------------------------------------------------
(* The property in terms of one pipe.                                      *)
LEMMA InTermsOfOne == OneEventPerPipe <=> \A i \in Pipes : OneEvent(pendingsources, i, inflight[i])
BY DEF OneEventPerPipe, OneEvent, EventsOf, EntriesOf

(* The same of the next state.                                             *)
LEMMA InTermsOfOnePrimed ==
  OneEventPerPipe' <=> \A i \in Pipes : OneEvent(pendingsources', i, inflight'[i])
BY DEF OneEventPerPipe, OneEvent, EventsOf, EntriesOf

(* An event that is added leaves those of the other sources alone.         *)
LEMMA PendingKeeps ==
  ASSUME NEW events \in Seq(Entry), NEW src \in 0 .. N_PIPES, NEW when \in Nat
  PROVE  LET out == sourceIsPending(events, src, when)
         IN  /\ out \in Seq(Entry)
             /\ \A j, line : j # src /\ OneEvent(events, j, line) => OneEvent(out, j, line)
             /\ EntriesOf(events, src) = {} =>
                  IF InTime(when)
                  THEN \E k \in 1 .. Len(out) : EntriesOf(out, src) = {k} /\ out[k].when = when
                  ELSE EntriesOf(out, src) = {}
<1> DEFINE out == sourceIsPending(events, src, when)
           e == [when |-> when, src |-> src]
           before == {i \in 1 .. Len(events) : events[i].when <= when}
           at == Cardinality(before) + 1
<1>1. out = IF InTime(when) THEN InsertAt(events, at, e) ELSE events
  BY DEF sourceIsPending, InTime
<1>2. CASE ~ InTime(when)
  BY <1>1, <1>2
<1>3. ASSUME InTime(when)
      PROVE  /\ out \in Seq(Entry)
             /\ \A j, line : j # src /\ OneEvent(events, j, line) => OneEvent(out, j, line)
             /\ EntriesOf(events, src) = {} =>
                  \E k \in 1 .. Len(out) : EntriesOf(out, src) = {k} /\ out[k].when = when
  <2>1. at \in 1 .. (Len(events) + 1)
    <3>1. IsFiniteSet(1 .. Len(events)) /\ Cardinality(1 .. Len(events)) = Len(events)
      BY FS_Interval
    <3>2. IsFiniteSet(before) /\ Cardinality(before) <= Len(events)
      BY <3>1, FS_Subset
    <3>3. Cardinality(before) \in Nat
      BY <3>2, FS_CardinalityType
    <3> HIDE DEF before
    <3> QED
      BY <3>2, <3>3
  <2>2. e \in Entry
    BY DEF Entry
  <2>3. out = InsertAt(events, at, e) /\ e.src = src /\ e.when = when
    BY <1>1, <1>3
  <2> HIDE DEF out, at, e
  <2>4. /\ out \in Seq(Entry) /\ Len(out) = Len(events) + 1 /\ out[at] = e
        /\ \A k \in 1 .. Len(events) : Moved(at, k) \in 1 .. Len(out) /\ out[Moved(at, k)] = events[k]
        /\ \A j : EntriesOf(out, j) = {Moved(at, k) : k \in EntriesOf(events, j)}
                                   \cup (IF e.src = j THEN {at} ELSE {})
    <3> DEFINE t == InsertAt(events, at, e)
    <3>1. /\ t \in Seq(Entry) /\ Len(t) = Len(events) + 1 /\ t[at] = e
          /\ \A k \in 1 .. Len(events) : Moved(at, k) \in 1 .. Len(t) /\ t[Moved(at, k)] = events[k]
          /\ \A j : EntriesOf(t, j) = {Moved(at, k) : k \in EntriesOf(events, j)}
                                   \cup (IF e.src = j THEN {at} ELSE {})
      BY ONLY <2>1, <2>2, events \in Seq(Entry), InsertPlaces
    <3> HIDE DEF t
    <3> QED
      BY ONLY <2>3, <3>1 DEF t
  <2>5. ASSUME NEW j, NEW line, j # src, OneEvent(events, j, line)
        PROVE  OneEvent(out, j, line)
    <3>1. EntriesOf(out, j) = {Moved(at, k) : k \in EntriesOf(events, j)}
      BY <2>3, <2>4, <2>5
    <3>2. CASE line # <<>> /\ InTime(Head(line).when)
      <4>1. PICK k \in 1 .. Len(events) : EntriesOf(events, j) = {k} /\ events[k].when = Head(line).when
        BY <2>5, <3>2 DEF OneEvent
      <4>2. EntriesOf(out, j) = {Moved(at, k)} /\ Moved(at, k) \in 1 .. Len(out) /\ out[Moved(at, k)] = events[k]
        BY <2>4, <3>1, <4>1
      <4> QED
        BY <3>2, <4>1, <4>2 DEF OneEvent
    <3>3. CASE ~ (line # <<>> /\ InTime(Head(line).when))
      <4>1. EntriesOf(events, j) = {}
        BY <2>5, <3>3 DEF OneEvent
      <4> QED
        BY <3>1, <3>3, <4>1 DEF OneEvent
    <3> QED
      BY <3>2, <3>3
  <2>6. ASSUME EntriesOf(events, src) = {}
        PROVE  \E k \in 1 .. Len(out) : EntriesOf(out, src) = {k} /\ out[k].when = when
    <3>1. EntriesOf(out, src) = {at}
      BY <2>3, <2>4, <2>6
    <3>2. at \in 1 .. Len(out) /\ out[at].when = when
      BY <2>1, <2>3, <2>4
    <3> QED
      BY <3>1, <3>2
  <2> QED
    BY <2>4, <2>5, <2>6
<1> QED
  BY <1>2, <1>3

(* The list without its first event.                                       *)
LEMMA TailKeeps ==
  ASSUME NEW events \in Seq(Entry), events # <<>>, NEW s, Head(events).src = s
  PROVE  /\ Tail(events) \in Seq(Entry)
         /\ \A j, line : j # s /\ OneEvent(events, j, line) => OneEvent(Tail(events), j, line)
         /\ \A line : OneEvent(events, s, line) =>
              /\ EntriesOf(Tail(events), s) = {}
              /\ line # <<>> /\ Head(events).when = Head(line).when
<1> DEFINE t == Tail(events)
<1>1. /\ t \in Seq(Entry) /\ Len(t) = Len(events) - 1 /\ 1 \in 1 .. Len(events)
      /\ Head(events) = events[1]
      /\ \A k \in 1 .. Len(events) : k # 1 => k - 1 \in 1 .. Len(t) /\ t[k - 1] = events[k]
      /\ \A j : EntriesOf(t, j) = {k - 1 : k \in EntriesOf(events, j) \ {1}}
  BY TailPlaces
<1> HIDE DEF t
<1>2. \A j : 1 \in EntriesOf(events, j) <=> j = s
  BY <1>1 DEF EntriesOf
<1>3. ASSUME NEW j, NEW line, j # s, OneEvent(events, j, line)
      PROVE  OneEvent(t, j, line)
  <2>1. EntriesOf(t, j) = {k - 1 : k \in EntriesOf(events, j)}
    BY <1>1, <1>2, <1>3
  <2>2. CASE line # <<>> /\ InTime(Head(line).when)
    <3>1. PICK k \in 1 .. Len(events) : EntriesOf(events, j) = {k} /\ events[k].when = Head(line).when
      BY <1>3, <2>2 DEF OneEvent
    <3>2. k # 1
      BY <1>2, <1>3, <3>1
    <3>3. EntriesOf(t, j) = {k - 1} /\ k - 1 \in 1 .. Len(t) /\ t[k - 1] = events[k]
      BY <1>1, <2>1, <3>1, <3>2
    <3> QED
      BY <2>2, <3>1, <3>3 DEF OneEvent
  <2>3. CASE ~ (line # <<>> /\ InTime(Head(line).when))
    <3>1. EntriesOf(events, j) = {}
      BY <1>3, <2>3 DEF OneEvent
    <3> QED
      BY <2>1, <2>3, <3>1 DEF OneEvent
  <2> QED
    BY <2>2, <2>3
<1>4. ASSUME NEW line, OneEvent(events, s, line)
      PROVE  /\ EntriesOf(t, s) = {}
             /\ line # <<>> /\ Head(events).when = Head(line).when
  <2>1. 1 \in EntriesOf(events, s)
    BY <1>2
  <2>2. line # <<>> /\ InTime(Head(line).when)
    BY <1>4, <2>1 DEF OneEvent
  <2>3. PICK k \in 1 .. Len(events) : EntriesOf(events, s) = {k} /\ events[k].when = Head(line).when
    BY <1>4, <2>2 DEF OneEvent
  <2>4. k = 1
    BY <2>1, <2>3
  <2> QED
    BY <1>1, <2>2, <2>3, <2>4
<1> QED
  BY <1>1, <1>3, <1>4 DEF t

(* A packet that a pipe receives.                                          *)
LEMMA ReceivedElsewhere ==
  ASSUME NEW flight \in Flights, NEW i, NEW pkt, NEW t
  PROVE  \A j \in Pipes : j # i => Received(i, pkt, flight, t)[j] = flight[j]
BY DEF Received, Flights

(* The same, and its event.                                                *)
LEMMA ReceivedKeeps ==
  ASSUME NEW events \in Seq(Entry), NEW flight \in Flights,
         NEW i \in Pipes, NEW pkt \in Nat, NEW t \in Nat
  PROVE  LET f == Received(i, pkt, flight, t)
             out == Notified(i, flight, events, t)
         IN  /\ f \in Flights /\ out \in Seq(Entry)
             /\ OneEvent(events, i, flight[i]) => OneEvent(out, i, f[i])
             /\ \A j, line : j # i /\ OneEvent(events, j, line) => OneEvent(out, j, line)
<1> DEFINE e == [when |-> t + Delay[i], pkt |-> pkt]
           f == Received(i, pkt, flight, t)
           out == Notified(i, flight, events, t)
<1>1. t + Delay[i] \in Nat /\ i \in 0 .. N_PIPES
  BY PipeAssumption DEF Pipes
<1>2. e \in Slot /\ e.when = t + Delay[i]
  BY <1>1 DEF Slot
<1>3. flight[i] \in Seq(Slot)
  BY DEF Flights
<1>4. f = [flight EXCEPT ![i] = Append(@, e)]
  BY DEF Received
<1> HIDE DEF e
<1>5. Append(flight[i], e) \in Seq(Slot)
  BY <1>2, <1>3
<1>6. f \in Flights /\ f[i] = Append(flight[i], e)
  BY <1>4, <1>5 DEF Flights
<1>7. /\ out \in Seq(Entry)
      /\ \A j, line : j # i /\ OneEvent(events, j, line) => OneEvent(out, j, line)
  BY <1>1, PendingKeeps DEF Notified
<1>8. ASSUME OneEvent(events, i, flight[i])
      PROVE  OneEvent(out, i, f[i])
  <2>1. CASE flight[i] = <<>>
    <3>1. f[i] # <<>> /\ Head(f[i]) = e
      BY <1>2, <1>3, <1>6, <2>1
    <3>2. EntriesOf(events, i) = {}
      BY <1>8, <2>1 DEF OneEvent
    <3>3. out = sourceIsPending(events, i, t + Delay[i])
      BY <2>1 DEF Notified
    <3> HIDE DEF f, out
    <3>4. IF InTime(t + Delay[i])
          THEN \E k \in 1 .. Len(out) : EntriesOf(out, i) = {k} /\ out[k].when = t + Delay[i]
          ELSE EntriesOf(out, i) = {}
      BY <1>1, <3>2, <3>3, PendingKeeps
    <3> QED
      BY <1>2, <3>1, <3>4 DEF OneEvent
  <2>2. CASE flight[i] # <<>>
    <3>1. f[i] # <<>> /\ Head(f[i]) = Head(flight[i])
      <4> HIDE DEF f
      <4> QED
        BY <1>2, <1>3, <1>6, <2>2, SMTT(60)
    <3>2. out = events
      BY <2>2 DEF Notified
    <3> HIDE DEF f, out
    <3> QED
      BY <1>8, <2>2, <3>1, <3>2 DEF OneEvent
  <2> QED
    BY <2>1, <2>2
<1> QED
  BY <1>6, <1>7, <1>8

(* A pipe whose event has fired, and that schedules the next one.          *)
LEMMA RescheduledKeeps ==
  ASSUME NEW events \in Seq(Entry), NEW flight \in [Pipes -> Seq(Slot)], NEW i \in Pipes
  PROVE  LET out == Rescheduled(i, flight, events)
         IN  /\ out \in Seq(Entry)
             /\ EntriesOf(events, i) = {} => OneEvent(out, i, flight[i])
             /\ \A j, line : j # i /\ OneEvent(events, j, line) => OneEvent(out, j, line)
<1> DEFINE out == Rescheduled(i, flight, events)
           w == Head(flight[i]).when
<1>1. CASE flight[i] = <<>>
  BY <1>1 DEF Rescheduled, OneEvent
<1>2. CASE flight[i] # <<>>
  <2>1. out = sourceIsPending(events, i, w)
    BY <1>2 DEF Rescheduled
  <2>2. w \in Nat /\ i \in 0 .. N_PIPES
    <3>1. flight[i] \in Seq(Slot)
      OBVIOUS
    <3>2. Head(flight[i]) \in Slot
      BY <1>2, <3>1
    <3> QED
      BY <3>2, PipeAssumption DEF Slot, Pipes
  <2>3. /\ out \in Seq(Entry)
        /\ \A j, line : j # i /\ OneEvent(events, j, line) => OneEvent(out, j, line)
        /\ EntriesOf(events, i) = {} =>
             IF InTime(w)
             THEN \E k \in 1 .. Len(out) : EntriesOf(out, i) = {k} /\ out[k].when = w
             ELSE EntriesOf(out, i) = {}
    <3> HIDE DEF w, out
    <3> QED
      BY ONLY <2>1, <2>2, PendingKeeps, ZenonT(60)
  <2>4. ASSUME EntriesOf(events, i) = {}
        PROVE  OneEvent(out, i, flight[i])
    <3> HIDE DEF out
    <3> QED
      BY <1>2, <2>3, <2>4 DEF OneEvent
  <2> QED
    BY <2>3, <2>4
<1> QED
  BY <1>1, <1>2

-----------------------------------------------------------------------------
(* The first event of the generator is the only one.                       *)
LEMMA InitInv == Init => IInv
<1> SUFFICES ASSUME Init
             PROVE  IInv
  OBVIOUS
<1>1. now = 0 /\ inflight = [i \in Pipes |-> <<>>] /\ pendingsources = sourceIsPending(<<>>, 0, 0)
  BY DEF Init
<1>2. <<>> \in Seq(Entry) /\ \A i \in Pipes : OneEvent(<<>>, i, <<>>)
  BY DEF OneEvent, EntriesOf
<1>3. 0 \in 0 .. N_PIPES /\ \A i \in Pipes : i # 0
  BY PipeAssumption DEF Pipes
<1>4. pendingsources \in Seq(Entry) /\ \A i \in Pipes : OneEvent(pendingsources, i, <<>>)
  BY <1>1, <1>2, <1>3, PendingKeeps
<1> QED
  BY <1>1, <1>4, InTermsOfOne DEF IInv, TypeInv

(* What a step of source s begins with.                                    *)
LEMMA NextEvent ==
  ASSUME IInv, NEW s, NextEventOf(s)
  PROVE  /\ now' \in Nat /\ Tail(pendingsources) \in Seq(Entry)
         /\ \A i \in Pipes : i # s => OneEvent(Tail(pendingsources), i, inflight[i])
         /\ s \in Pipes => /\ EntriesOf(Tail(pendingsources), s) = {}
                          /\ inflight[s] # <<>> /\ now' = Head(inflight[s]).when
<1>1. /\ pendingsources \in Seq(Entry) /\ pendingsources # <<>>
      /\ Head(pendingsources).src = s /\ now' = Head(pendingsources).when
  BY DEF IInv, TypeInv, NextEventOf
<1>2. \A i \in Pipes : OneEvent(pendingsources, i, inflight[i])
  BY InTermsOfOne DEF IInv
<1>3. Head(pendingsources) \in Entry
  BY <1>1
<1>4. now' \in Nat
  BY <1>1, <1>3 DEF Entry
<1> QED
  BY ONLY <1>1, <1>2, <1>4, TailKeeps, ZenonT(60)

(* The generator sends.                                                    *)
LEMMA SendPacketInv ==
  ASSUME IInv, NEW gap \in Gap, SendPacket(gap)
  PROVE  IInv'
<1>1. NextEventOf(0) /\ 1 \in Pipes /\ 0 \notin Pipes /\ 0 \in 0 .. N_PIPES
  BY PipeAssumption, PipeLineAssumption DEF SendPacket, Pipes
<1>2. PICK t \in Nat : t = now'
  BY <1>1, NextEvent
<1>3. PICK later \in Nat : later = t + gap
  BY PipeLineAssumption
<1>4. PICK rest \in Seq(Entry) : rest = Tail(pendingsources)
  BY <1>1, NextEvent
<1>5. \A i \in Pipes : OneEvent(rest, i, inflight[i])
  BY <1>1, <1>4, NextEvent
<1>6. PICK again \in Seq(Entry) : /\ again = sourceIsPending(rest, 0, later)
                                 /\ \A i \in Pipes : OneEvent(again, i, inflight[i])
  <2> DEFINE out == sourceIsPending(rest, 0, later)
  <2>1. /\ out \in Seq(Entry)
        /\ \A j, line : j # 0 /\ OneEvent(rest, j, line) => OneEvent(out, j, line)
    BY <1>1, PendingKeeps, Zenon
  <2>2. out = sourceIsPending(rest, 0, later)
    OBVIOUS
  <2> HIDE DEF out
  <2> QED
    BY <1>1, <1>5, <2>1, <2>2
<1>7. /\ inflight' = Received(1, t, inflight, t)
      /\ pendingsources' = Notified(1, inflight, again, t)
  BY <1>2, <1>3, <1>4, <1>6 DEF SendPacket
<1>8. PICK flight \in Flights : flight = inflight
  BY DEF IInv, TypeInv, Flights
<1>9. /\ inflight' \in [Pipes -> Seq(Slot)] /\ pendingsources' \in Seq(Entry)
      /\ OneEvent(again, 1, inflight[1]) => OneEvent(pendingsources', 1, inflight'[1])
      /\ \A j \in Pipes : j # 1 => inflight'[j] = inflight[j]
      /\ \A j, line : j # 1 /\ OneEvent(again, j, line) => OneEvent(pendingsources', j, line)
  <2> DEFINE f == Received(1, t, flight, t)
             out == Notified(1, flight, again, t)
  <2>1. /\ f \in Flights /\ out \in Seq(Entry)
        /\ OneEvent(again, 1, flight[1]) => OneEvent(out, 1, f[1])
        /\ \A j, line : j # 1 /\ OneEvent(again, j, line) => OneEvent(out, j, line)
    BY <1>1, ReceivedKeeps, Zenon
  <2>3. \A j \in Pipes : j # 1 => f[j] = flight[j]
    BY ReceivedElsewhere
  <2>2. inflight' = f /\ pendingsources' = out
    BY <1>7, <1>8
  <2> HIDE DEF f, out
  <2> QED
    BY <1>8, <2>1, <2>2, <2>3 DEF Flights
<1>10. \A i \in Pipes : OneEvent(pendingsources', i, inflight'[i])
  BY <1>6, <1>9
<1>11. OneEventPerPipe'
  BY <1>10, InTermsOfOnePrimed
<1> QED
  BY <1>2, <1>9, <1>11 DEF IInv, TypeInv

(* The generator has sent all.                                             *)
LEMMA SendNothingInv ==
  ASSUME IInv, SendNothing
  PROVE  IInv'
<1>1. pendingsources' = Tail(pendingsources) /\ UNCHANGED inflight /\ NextEventOf(0)
  BY DEF SendNothing
<1>2. 0 \notin Pipes
  BY DEF Pipes
<1>3. /\ now' \in Nat /\ pendingsources' \in Seq(Entry)
      /\ \A i \in Pipes : OneEvent(pendingsources', i, inflight'[i])
  BY <1>1, <1>2, NextEvent
<1>4. OneEventPerPipe'
  BY <1>3, InTermsOfOnePrimed
<1> QED
  BY <1>1, <1>3, <1>4 DEF IInv, TypeInv

(* A packet leaves pipe i, and enters the next one if there is one.        *)
LEMMA doNextEventInv ==
  ASSUME IInv, NEW i \in Pipes, doNextEvent(i)
  PROVE  IInv'
<1> DEFINE p == Head(inflight[i])
           left == [inflight EXCEPT ![i] = Tail(@)]
           rest == Tail(pendingsources)
<1>1. NextEventOf(i) /\ inflight[i] # <<>>
  BY DEF doNextEvent
<1>2. /\ now' \in Nat /\ rest \in Seq(Entry) /\ EntriesOf(rest, i) = {}
      /\ \A j \in Pipes : j # i => OneEvent(rest, j, inflight[j])
  BY <1>1, NextEvent
<1>3. inflight \in [Pipes -> Seq(Slot)] /\ inflight[i] \in Seq(Slot)
  BY DEF IInv, TypeInv
<1>4. p \in Slot /\ Tail(inflight[i]) \in Seq(Slot)
  BY <1>1, <1>3
<1>5. /\ left \in [Pipes -> Seq(Slot)]
      /\ \A j \in Pipes : j # i => left[j] = inflight[j]
  BY <1>3, <1>4
<1>6. p.pkt \in Nat
  BY <1>4 DEF Slot
<1>7. /\ i < N_PIPES => /\ inflight' = Received(i + 1, p.pkt, left, now')
                       /\ pendingsources' = Rescheduled(i, left, Notified(i + 1, left, rest, now'))
      /\ ~ (i < N_PIPES) => inflight' = left /\ pendingsources' = Rescheduled(i, left, rest)
  BY DEF doNextEvent
<1> HIDE DEF left, rest, p
<1>8. \A j \in Pipes : j # i => OneEvent(rest, j, left[j])
  BY <1>2, <1>5
<1>9. ASSUME i < N_PIPES
      PROVE  /\ inflight' \in [Pipes -> Seq(Slot)] /\ pendingsources' \in Seq(Entry)
             /\ \A j \in Pipes : OneEvent(pendingsources', j, inflight'[j])
  <2> DEFINE events == Notified(i + 1, left, rest, now')
  <2>1. i + 1 \in Pipes /\ i + 1 # i
    BY <1>9, PipeAssumption DEF Pipes
  <2>2. /\ inflight' \in [Pipes -> Seq(Slot)] /\ events \in Seq(Entry)
        /\ OneEvent(rest, i + 1, left[i + 1]) => OneEvent(events, i + 1, inflight'[i + 1])
        /\ \A j \in Pipes : j # i + 1 => inflight'[j] = left[j]
        /\ \A j, line : j # i + 1 /\ OneEvent(rest, j, line) => OneEvent(events, j, line)
    <3>0. PICK n \in Pipes, pkt \in Nat, t \in Nat, flight \in Flights, ev \in Seq(Entry) :
            n = i + 1 /\ pkt = p.pkt /\ t = now' /\ flight = left /\ ev = rest
      BY <1>2, <1>5, <1>6, <2>1 DEF Flights
    <3> DEFINE f == Received(n, pkt, flight, t)
               out == Notified(n, flight, ev, t)
    <3>1. /\ f \in Flights /\ out \in Seq(Entry)
          /\ OneEvent(ev, n, flight[n]) => OneEvent(out, n, f[n])
          /\ \A j, line : j # n /\ OneEvent(ev, j, line) => OneEvent(out, j, line)
      BY ReceivedKeeps, Zenon
    <3>3. \A j \in Pipes : j # n => f[j] = flight[j]
      BY ReceivedElsewhere
    <3>2. inflight' = f /\ out = events
      BY <1>7, <1>9, <3>0
    <3> HIDE DEF f, out, events
    <3> QED
      BY <3>0, <3>1, <3>2, <3>3 DEF Flights
  <2>3. pendingsources' = Rescheduled(i, left, events)
    BY <1>7, <1>9
  <2> HIDE DEF events
  <2>4. \A j \in Pipes : j # i => OneEvent(events, j, inflight'[j])
    BY <1>8, <2>1, <2>2, <2>3 DEF Flights
  <2>5. EntriesOf(events, i) = {}
    <3>1. OneEvent(rest, i, <<>>)
      BY <1>2 DEF OneEvent
    <3>2. OneEvent(events, i, <<>>)
      BY <2>1, <2>2, <3>1
    <3> QED
      BY <3>2 DEF OneEvent
  <2>6. /\ pendingsources' \in Seq(Entry)
        /\ OneEvent(pendingsources', i, left[i])
        /\ \A j, line : j # i /\ OneEvent(events, j, line) => OneEvent(pendingsources', j, line)
    BY <1>5, <2>2, <2>3, <2>5, RescheduledKeeps
  <2> QED
    BY <2>1, <2>2, <2>4, <2>6
<1>10. ASSUME ~ (i < N_PIPES)
       PROVE  /\ inflight' \in [Pipes -> Seq(Slot)] /\ pendingsources' \in Seq(Entry)
              /\ \A j \in Pipes : OneEvent(pendingsources', j, inflight'[j])
  <2>1. /\ pendingsources' \in Seq(Entry)
        /\ OneEvent(pendingsources', i, left[i])
        /\ \A j, line : j # i /\ OneEvent(rest, j, line) => OneEvent(pendingsources', j, line)
    BY <1>2, <1>5, <1>7, <1>10, RescheduledKeeps
  <2> QED
    BY <1>5, <1>7, <1>8, <1>10, <2>1
<1>11. /\ inflight' \in [Pipes -> Seq(Slot)] /\ pendingsources' \in Seq(Entry)
       /\ \A j \in Pipes : OneEvent(pendingsources', j, inflight'[j])
  BY <1>9, <1>10
<1>12. OneEventPerPipe'
  BY <1>11, InTermsOfOnePrimed
<1> QED
  BY <1>2, <1>11, <1>12 DEF IInv, TypeInv

-----------------------------------------------------------------------------
(* The invariant, in every reachable state.                                *)
THEOREM InductiveInvariant == Spec => []IInv
<1>1. IInv /\ [Next]_vars => IInv'
  <2> SUFFICES ASSUME IInv, [Next]_vars
               PROVE  IInv'
    OBVIOUS
  <2>1. ASSUME NEW gap \in Gap, SendPacket(gap)
        PROVE  IInv'
    BY <2>1, SendPacketInv
  <2>2. CASE SendNothing
    BY <2>2, SendNothingInv
  <2>3. ASSUME NEW i \in Pipes, doNextEvent(i)
        PROVE  IInv'
    BY <2>3, doNextEventInv
  <2>4. CASE UNCHANGED vars
    <3>1. UNCHANGED <<pendingsources, now, inflight>>
      BY <2>4 DEF vars
    <3>2. OneEventPerPipe'
      BY <3>1, InTermsOfOne, InTermsOfOnePrimed DEF IInv
    <3> QED
      BY <3>1, <3>2 DEF IInv, TypeInv
  <2> QED
    BY <2>1, <2>2, <2>3, <2>4 DEF Next
<1> QED
  BY InitInv, <1>1, PTL DEF Spec

(* Whatever order packets come in and however pipes hand them on, a pipe   *)
(* with packets that are due in time has exactly one event, at the time of *)
(* its first packet, and a pipe without packets has none: receivePacket    *)
(* and doNextEvent never start a second chain, and never let the one end.  *)
THEOREM EventOfEveryPipe == Spec => []OneEventPerPipe
BY InductiveInvariant, PTL DEF IInv

-----------------------------------------------------------------------------
(* Times.                                                                  *)

(* Reach is the function that its definition describes.                    *)
LEMMA ReachFacts ==
  /\ Reach \in [0 .. N_PIPES -> Nat] /\ Reach[0] = 0
  /\ \A i \in Pipes : Reach[i] = Reach[i - 1] + Delay[i]
<1> DEFINE Upto(r, n) == /\ r \in [0 .. n -> Nat] /\ r[0] = 0
                         /\ \A i \in 1 .. n : r[i] = r[i - 1] + Delay[i]
           T == {n \in 0 .. N_PIPES : ~ \E r : Upto(r, n)}
           P(f) == f = [i \in 0 .. N_PIPES |-> IF i = 0 THEN 0 ELSE f[i - 1] + Delay[i]]
<1>1. N_PIPES \in Nat /\ \A i \in 1 .. N_PIPES : Delay[i] \in Nat
  BY PipeAssumption DEF Pipes
<1>2. ASSUME T # {}
      PROVE  FALSE
  <2>1. T \in SUBSET Nat
    OBVIOUS
  <2> HIDE DEF T
  <2>2. PICK n \in T : \A m \in T : n <= m
    BY <1>2, <2>1, LeastNumber
  <2> USE DEF T
  <2>3. n \in 0 .. N_PIPES /\ ~ \E r : Upto(r, n)
    OBVIOUS
  <2>4. CASE n = 0
    <3> DEFINE r == [i \in 0 .. 0 |-> 0]
    <3>1. Upto(r, 0)
      OBVIOUS
    <3> HIDE DEF Upto, r
    <3> QED
      BY <2>3, <2>4, <3>1
  <2>5. CASE n # 0
    <3>1. n - 1 \in 0 .. N_PIPES /\ ~ (n <= n - 1) /\ n \in 1 .. N_PIPES
      BY ONLY <1>1, <2>3, <2>5
    <3>2. PICK r : Upto(r, n - 1)
      BY <2>2, <3>1
    <3> DEFINE q == [i \in 0 .. n |-> IF i = n THEN r[n - 1] + Delay[n] ELSE r[i]]
    <3>3. n - 1 \in 0 .. (n - 1) /\ r[n - 1] + Delay[n] \in Nat
      <4>1. n - 1 \in 0 .. (n - 1)
        BY <3>1
      <4>2. r[n - 1] \in Nat /\ Delay[n] \in Nat
        BY <1>1, <3>1, <3>2, <4>1
      <4> QED
        BY <4>1, <4>2
    <3>4. \A i \in 0 .. n : i # n => i \in 0 .. (n - 1) /\ r[i] \in Nat
      BY <3>1, <3>2
    <3>5. q \in [0 .. n -> Nat] /\ q[0] = 0
      BY <3>1, <3>2, <3>3, <3>4
    <3>6. ASSUME NEW i \in 1 .. n
          PROVE  q[i] = q[i - 1] + Delay[i]
      <4>1. /\ i \in 0 .. n /\ i - 1 \in 0 .. n /\ i - 1 # n
            /\ i # n => i \in 1 .. (n - 1)
        BY ONLY <1>1, <3>1, i \in 1 .. n
      <4>2. q[i - 1] = r[i - 1]
        BY <4>1
      <4>3. CASE i = n
        BY <4>1, <4>2, <4>3, SMTT(60)
      <4>4. CASE i # n
        BY <3>2, <4>1, <4>2, <4>4, SMTT(60)
      <4> QED
        BY <4>3, <4>4
    <3>7. Upto(q, n)
      BY <3>5, <3>6
    <3> HIDE DEF Upto, q
    <3> QED
      BY <2>3, <3>7
  <2> QED
    BY <2>4, <2>5, SMTT(60)
<1>3. PICK r : Upto(r, N_PIPES)
  <2>1. N_PIPES \notin T /\ N_PIPES \in 0 .. N_PIPES
    BY <1>1, <1>2
  <2> QED
    BY <2>1
<1>4. P(r)
  BY <1>1, <1>3
<1>5. P(Reach)
  <2>1. Reach = CHOOSE f : P(f)
    BY DEF Reach
  <2> HIDE DEF P
  <2> QED
    BY <1>4, <2>1, Zenon
<1>6. \A n \in Nat : n \in 0 .. N_PIPES => Reach[n] = r[n]
  <2> DEFINE D == {n \in 0 .. N_PIPES : Reach[n] # r[n]}
  <2>1. ASSUME D # {}
        PROVE  FALSE
    <3>1. D \in SUBSET Nat
      OBVIOUS
    <3> HIDE DEF D
    <3>2. PICK n \in D : \A m \in D : n <= m
      BY <2>1, <3>1, LeastNumber
    <3> USE DEF D
    <3>3. n \in 0 .. N_PIPES /\ Reach[n] # r[n]
      OBVIOUS
    <3>4. n # 0 /\ n \in 1 .. N_PIPES /\ n - 1 \in 0 .. N_PIPES /\ ~ (n <= n - 1)
      BY <1>1, <1>3, <1>5, <3>3
    <3>5. Reach[n - 1] = r[n - 1]
      BY <3>2, <3>4
    <3> QED
      BY <1>3, <1>5, <3>3, <3>4, <3>5
  <2> QED
    BY <2>1
<1>7. Reach = r
  BY <1>1, <1>3, <1>5, <1>6
<1> QED
  BY <1>3, <1>7 DEF Pipes

Arrival == [sent : Nat, at : Nat]

NotBefore(events, t) == \A k \in 1 .. Len(events) : t <= events[k].when

(* Pipe i holds packets in the order in which they leave, each of them as  *)
(* long after it was sent as it takes to the end of the pipe.              *)
LineTimed(i, line, latest) ==
  \A j \in 1 .. Len(line) :
    /\ line[j].when = line[j].pkt + Reach[i]
    /\ line[j].when <= latest
    /\ \A k \in 1 .. Len(line) : j < k => line[j].when <= line[k].when

ArrivedOK(arrivals, t) ==
  /\ arrivals \in Seq(Arrival)
  /\ \A k \in 1 .. Len(arrivals) :
       arrivals[k].at = arrivals[k].sent + RouteDelay /\ arrivals[k].at <= t
  /\ \A j, k \in 1 .. Len(arrivals) : j < k => arrivals[j].sent <= arrivals[k].sent

Times ==
  /\ InOrder(pendingsources) /\ NotBefore(pendingsources, now)
  /\ \A i \in Pipes : LineTimed(i, inflight[i], now + Delay[i])
  /\ ArrivedOK(delivered, now)

(* An event that is not before now keeps the list in order.                *)
LEMMA PendingInTime ==
  ASSUME NEW t \in Nat, NEW events \in Seq(Entry), InOrder(events), NotBefore(events, t),
         NEW src \in 0 .. N_PIPES, NEW when \in Nat, t <= when
  PROVE  LET out == sourceIsPending(events, src, when)
         IN  out \in Seq(Entry) /\ InOrder(out) /\ NotBefore(out, t)
<1> DEFINE out == sourceIsPending(events, src, when)
           e == [when |-> when, src |-> src]
           at == PlaceFor(events, when)
<1>1. out = IF InTime(when) THEN InsertAt(events, at, e) ELSE events
  BY DEF sourceIsPending, InTime, PlaceFor
<1>2. e \in Entry /\ e.when = when /\ \A x \in Entry : x.when \in Nat
  BY DEF Entry
<1>3. at \in 1 .. (Len(events) + 1)
  BY <1>2, CountBefore
<1>4. InOrder(InsertAt(events, PlaceFor(events, e.when), e))
  BY ONLY <1>2, events \in Seq(Entry), InOrder(events), InsertInOrder
<1>5. InOrder(InsertAt(events, at, e))
  BY <1>2, <1>4
<1> DEFINE u == InsertAt(events, at, e)
<1> HIDE DEF at, e
<1>6. /\ u \in Seq(Entry) /\ Len(u) = Len(events) + 1
      /\ \A j \in 1 .. (Len(events) + 1) :
           u[j] = IF j < at THEN events[j] ELSE IF j = at THEN e ELSE events[j - 1]
  <2>1. e \in Entry /\ events \in Seq(Entry)
    BY <1>2
  <2> QED
    BY ONLY <1>3, <2>1, InsertAtFacts, SMTT(60)
<1> HIDE DEF u
<1>7. NotBefore(u, t)
  <2> SUFFICES ASSUME NEW j \in 1 .. Len(u)
               PROVE  t <= u[j].when
    BY DEF NotBefore
  <2>1. Len(events) \in Nat /\ at \in Nat /\ j \in Nat /\ j \in 1 .. (Len(events) + 1)
    BY <1>3, <1>6
  <2>2. CASE j < at
    <3>1. u[j] = events[j] /\ j \in 1 .. Len(events)
      BY <1>3, <1>6, <2>1, <2>2
    <3> QED
      BY <3>1 DEF NotBefore
  <2>3. CASE j = at
    BY <1>2, <1>6, <2>1, <2>3
  <2>4. CASE j > at
    <3>1. u[j] = events[j - 1] /\ j - 1 \in 1 .. Len(events)
      BY <1>3, <1>6, <2>1, <2>4
    <3> QED
      BY <3>1 DEF NotBefore
  <2> QED
    BY <2>1, <2>2, <2>3, <2>4
<1>8. out = u \/ out = events
  BY <1>1 DEF u
<1> HIDE DEF out
<1> QED
  BY <1>5, <1>6, <1>7, <1>8 DEF u, out

(* The next event is not before now, and the others not before it.         *)
LEMMA TailInTime ==
  ASSUME NEW t \in Nat, NEW events \in Seq(Entry), events # <<>>,
         InOrder(events), NotBefore(events, t)
  PROVE  /\ Head(events).when \in Nat /\ t <= Head(events).when
         /\ InOrder(Tail(events)) /\ NotBefore(Tail(events), Head(events).when)
<1> DEFINE rest == Tail(events)
           h == Head(events)
<1>1. /\ rest \in Seq(Entry) /\ Len(rest) = Len(events) - 1 /\ Len(events) \in Nat
      /\ \A k \in 1 .. Len(rest) : rest[k] = events[k + 1] /\ k + 1 \in 1 .. Len(events)
      /\ h = events[1] /\ 1 \in 1 .. Len(events) /\ h \in Entry
  OBVIOUS
<1> HIDE DEF rest, h
<1>2. h.when \in Nat /\ t <= h.when
  BY <1>1 DEF Entry, NotBefore
<1>3. NotBefore(rest, h.when)
  <2> SUFFICES ASSUME NEW k \in 1 .. Len(rest)
               PROVE  h.when <= rest[k].when
    BY DEF NotBefore
  <2>1. 1 < k + 1
    BY <1>1
  <2> QED
    BY <1>1, <2>1 DEF InOrder
<1>4. InOrder(rest)
  <2> SUFFICES ASSUME NEW j \in 1 .. Len(rest), NEW k \in 1 .. Len(rest), j < k
               PROVE  rest[j].when <= rest[k].when
    BY DEF InOrder
  <2>1. j + 1 < k + 1
    BY <1>1
  <2> QED
    BY <1>1, <2>1 DEF InOrder
<1> QED
  BY <1>2, <1>3, <1>4 DEF rest, h

(* What a pipe holds.                                                      *)
LEMMA SlotTyped ==
  ASSUME NEW line \in Seq(Slot)
  PROVE  /\ Len(line) \in Nat
         /\ \A j \in 1 .. Len(line) : line[j] \in Slot /\ line[j].when \in Nat /\ line[j].pkt \in Nat
<1>1. \A j \in 1 .. Len(line) : line[j] \in Slot
  BY ElementType, ZenonT(60)
<1> QED
  BY <1>1 DEF Slot

LEMMA LineLater ==
  ASSUME NEW i, NEW line \in Seq(Slot), NEW a \in Nat, NEW b \in Nat, a <= b,
         LineTimed(i, line, a)
  PROVE  LineTimed(i, line, b)
<1> SUFFICES ASSUME NEW j \in 1 .. Len(line)
             PROVE  line[j].when <= b
  BY DEF LineTimed
<1>1. line[j].when \in Nat /\ line[j].when <= a
  BY SlotTyped DEF LineTimed
<1> QED
  BY <1>1

LEMMA LineLonger ==
  ASSUME NEW i, NEW line \in Seq(Slot), NEW pkt \in Nat, NEW w \in Nat,
         LineTimed(i, line, w), w = pkt + Reach[i]
  PROVE  LineTimed(i, Append(line, [when |-> w, pkt |-> pkt]), w)
<1> DEFINE e == [when |-> w, pkt |-> pkt]
           out == Append(line, e)
           n == Len(line)
<1>1. n \in Nat /\ e.when = w /\ e.pkt = pkt /\ e \in Slot
  BY SlotTyped DEF Slot
<1> HIDE DEF e
<1>2. /\ Len(out) = n + 1 /\ out[n + 1] = e
      /\ \A j \in 1 .. n : out[j] = line[j]
  BY <1>1
<1> HIDE DEF out
<1> SUFFICES ASSUME NEW j \in 1 .. Len(out)
             PROVE  /\ out[j].when = out[j].pkt + Reach[i]
                    /\ out[j].when <= w
                    /\ \A k \in 1 .. Len(out) : j < k => out[j].when <= out[k].when
  BY DEF LineTimed, out, e
<1>3. CASE j = n + 1
  BY <1>1, <1>2, <1>3
<1>4. CASE j # n + 1
  <2>1. j \in 1 .. n /\ out[j] = line[j]
    BY <1>1, <1>2, <1>4
  <2>2. \A k \in 1 .. Len(out) : k # n + 1 => k \in 1 .. n /\ out[k] = line[k]
    BY <1>1, <1>2
  <2>3. ASSUME NEW k \in 1 .. Len(out), j < k
        PROVE  out[j].when <= out[k].when
    BY <1>1, <1>2, <2>1, <2>2, <2>3 DEF LineTimed
  <2> QED
    BY <2>1, <2>3 DEF LineTimed
<1> QED
  BY <1>3, <1>4

LEMMA LineShorter ==
  ASSUME NEW i, NEW line \in Seq(Slot), line # <<>>, NEW w, LineTimed(i, line, w)
  PROVE  /\ Tail(line) \in Seq(Slot) /\ LineTimed(i, Tail(line), w)
         /\ Head(line).when = Head(line).pkt + Reach[i]
         /\ Head(line).when \in Nat /\ Head(line).pkt \in Nat
         /\ Tail(line) # <<>> => Head(line).when <= Head(Tail(line)).when
<1> DEFINE rest == Tail(line)
<1>1. /\ rest \in Seq(Slot) /\ Len(rest) = Len(line) - 1 /\ Len(line) \in Nat
      /\ \A k \in 1 .. Len(rest) : rest[k] = line[k + 1] /\ k + 1 \in 1 .. Len(line)
      /\ Head(line) = line[1] /\ 1 \in 1 .. Len(line)
      /\ rest # <<>> => 1 \in 1 .. Len(rest) /\ Head(rest) = rest[1]
  OBVIOUS
<1> HIDE DEF rest
<1>2. LineTimed(i, rest, w)
  <2> SUFFICES ASSUME NEW j \in 1 .. Len(rest)
               PROVE  /\ rest[j].when = rest[j].pkt + Reach[i]
                      /\ rest[j].when <= w
                      /\ \A k \in 1 .. Len(rest) : j < k => rest[j].when <= rest[k].when
    BY DEF LineTimed
  <2>1. \A k \in 1 .. Len(rest) : j < k => j + 1 < k + 1
    BY <1>1
  <2> QED
    BY <1>1, <2>1 DEF LineTimed
<1>3. line[1].when = line[1].pkt + Reach[i] /\ line[1].when \in Nat /\ line[1].pkt \in Nat
  BY <1>1, SlotTyped DEF LineTimed
<1>4. ASSUME rest # <<>>
      PROVE  line[1].when <= Head(rest).when
  <2>1. Head(rest) = line[1 + 1] /\ 1 + 1 \in 1 .. Len(line) /\ 1 < 1 + 1
    BY <1>1, <1>4
  <2> QED
    BY <1>1, <2>1 DEF LineTimed
<1> QED
  BY <1>1, <1>2, <1>3, <1>4 DEF rest

LinesTimed(flight, t) == \A j \in Pipes : LineTimed(j, flight[j], t + Delay[j])

(* A packet that arrives at pipe i.                                        *)
LEMMA ReceivedInTime ==
  ASSUME NEW t \in Nat, NEW flight \in Flights, LinesTimed(flight, t),
         NEW events \in Seq(Entry), InOrder(events), NotBefore(events, t),
         NEW i \in Pipes, NEW pkt \in Nat, t + Delay[i] = pkt + Reach[i]
  PROVE  LET f == Received(i, pkt, flight, t)
             out == Notified(i, flight, events, t)
         IN  /\ LinesTimed(f, t)
             /\ out \in Seq(Entry) /\ InOrder(out) /\ NotBefore(out, t)
<1> DEFINE w == t + Delay[i]
           f == Received(i, pkt, flight, t)
           out == Notified(i, flight, events, t)
<1>1. w \in Nat /\ t <= w /\ i \in 0 .. N_PIPES
  BY PipeAssumption DEF Pipes
<1>2. flight[i] \in Seq(Slot) /\ LineTimed(i, flight[i], w) /\ w = pkt + Reach[i]
  BY DEF Flights, LinesTimed
<1>3. /\ f[i] = Append(flight[i], [when |-> w, pkt |-> pkt])
      /\ \A j \in Pipes : j # i => f[j] = flight[j]
  BY DEF Received, Flights
<1>4. out = sourceIsPending(events, i, w) \/ out = events
  BY DEF Notified
<1> HIDE DEF f, out
<1>5. LineTimed(i, f[i], t + Delay[i])
  <2> HIDE DEF w
  <2>1. LineTimed(i, Append(flight[i], [when |-> w, pkt |-> pkt]), w)
    BY ONLY <1>1, <1>2, pkt \in Nat, LineLonger
  <2> QED
    BY <1>3, <2>1 DEF w
<1>6. LinesTimed(f, t)
  BY <1>3, <1>5 DEF LinesTimed
<1>7. out \in Seq(Entry) /\ InOrder(out) /\ NotBefore(out, t)
  <2> HIDE DEF w
  <2>1. LET o == sourceIsPending(events, i, w)
        IN  o \in Seq(Entry) /\ InOrder(o) /\ NotBefore(o, t)
    BY <1>1, PendingInTime
  <2> QED
    BY <1>4, <2>1
<1> QED
  BY <1>6, <1>7 DEF f, out

LEMMA RescheduledInTime ==
  ASSUME NEW t \in Nat, NEW flight \in Flights, NEW i \in Pipes,
         flight[i] # <<>> => t <= Head(flight[i]).when,
         NEW events \in Seq(Entry), InOrder(events), NotBefore(events, t)
  PROVE  LET out == Rescheduled(i, flight, events)
         IN  InOrder(out) /\ NotBefore(out, t)
<1>1. CASE flight[i] = <<>>
  BY <1>1 DEF Rescheduled
<1>2. CASE flight[i] # <<>>
  <2> DEFINE w == Head(flight[i]).when
  <2>1. flight[i] \in Seq(Slot)
    BY DEF Flights
  <2>2. Head(flight[i]) \in Slot
    BY <1>2, <2>1
  <2>3. w \in Nat /\ t <= w /\ i \in 0 .. N_PIPES
    BY <1>2, <2>2 DEF Slot, Pipes
  <2>4. Rescheduled(i, flight, events) = sourceIsPending(events, i, w)
    BY <1>2 DEF Rescheduled
  <2> HIDE DEF w
  <2>5. LET o == sourceIsPending(events, i, w)
        IN  o \in Seq(Entry) /\ InOrder(o) /\ NotBefore(o, t)
    BY <2>3, PendingInTime
  <2> QED
    BY <2>4, <2>5
<1> QED
  BY <1>1, <1>2

(* What a step of a source begins with.                                    *)
LEMMA NextInTime ==
  ASSUME IInv, Times, NEW s, NextEventOf(s)
  PROVE  /\ now \in Nat /\ now' \in Nat /\ now <= now'
         /\ Tail(pendingsources) \in Seq(Entry) /\ InOrder(Tail(pendingsources))
         /\ NotBefore(Tail(pendingsources), now')
         /\ inflight \in Flights /\ LinesTimed(inflight, now')
<1>1. /\ pendingsources \in Seq(Entry) /\ pendingsources # <<>> /\ now \in Nat
      /\ inflight \in Flights /\ now' = Head(pendingsources).when
      /\ InOrder(pendingsources) /\ NotBefore(pendingsources, now)
      /\ LinesTimed(inflight, now)
  BY DEF IInv, TypeInv, NextEventOf, Times, Flights, LinesTimed
<1>2. /\ Head(pendingsources).when \in Nat /\ now <= Head(pendingsources).when
      /\ InOrder(Tail(pendingsources))
      /\ NotBefore(Tail(pendingsources), Head(pendingsources).when)
  BY ONLY <1>1, TailInTime
<1>3. PICK t \in Nat : t = now' /\ now <= t
  BY <1>1, <1>2
<1>4. LinesTimed(inflight, t)
  <2> SUFFICES ASSUME NEW j \in Pipes
               PROVE  LineTimed(j, inflight[j], t + Delay[j])
    BY DEF LinesTimed
  <2>1. PICK a \in Nat, b \in Nat : a = now + Delay[j] /\ b = t + Delay[j] /\ a <= b
    <3>1. Delay[j] \in Nat
      BY PipeAssumption
    <3> QED
      BY <1>1, <1>3, <3>1
  <2>2. inflight[j] \in Seq(Slot) /\ LineTimed(j, inflight[j], a)
    BY <1>1, <2>1 DEF Flights, LinesTimed
  <2>3. LineTimed(j, inflight[j], b)
    BY ONLY <2>1, <2>2, a \in Nat, b \in Nat, LineLater
  <2> QED
    BY <2>1, <2>3
<1> QED
  BY <1>1, <1>2, <1>3, <1>4

LEMMA ArrivedLater ==
  ASSUME NEW s \in Nat, NEW t \in Nat, s <= t, NEW arrivals, ArrivedOK(arrivals, s)
  PROVE  ArrivedOK(arrivals, t)
<1> SUFFICES ASSUME NEW k \in 1 .. Len(arrivals)
             PROVE  arrivals[k].at <= t
  BY DEF ArrivedOK
<1>1. arrivals \in Seq(Arrival) /\ arrivals[k].at <= s
  BY DEF ArrivedOK
<1>2. arrivals[k] \in Arrival
  BY <1>1, ElementType, ZenonT(60)
<1>3. arrivals[k].at \in Nat
  BY <1>2 DEF Arrival
<1> QED
  BY <1>1, <1>3

(* A packet arrives at the sink now: no other one was sent after it.       *)
LEMMA ArrivedNow ==
  ASSUME NEW t \in Nat, NEW arrivals, ArrivedOK(arrivals, t),
         NEW pkt \in Nat, t = pkt + RouteDelay
  PROVE  ArrivedOK(Append(arrivals, [sent |-> pkt, at |-> t]), t)
<1> DEFINE e == [sent |-> pkt, at |-> t]
           out == Append(arrivals, e)
           n == Len(arrivals)
<1>1. /\ arrivals \in Seq(Arrival) /\ n \in Nat
      /\ e \in Arrival /\ e.sent = pkt /\ e.at = t
      /\ RouteDelay \in Nat
  BY ReachFacts, PipeAssumption DEF ArrivedOK, Arrival, RouteDelay
<1> HIDE DEF e
<1>2. /\ out \in Seq(Arrival) /\ Len(out) = n + 1 /\ out[n + 1] = e
      /\ \A j \in 1 .. n : out[j] = arrivals[j]
  BY <1>1
<1> HIDE DEF out
<1>3. ASSUME NEW k \in 1 .. n
      PROVE  arrivals[k].sent <= pkt /\ arrivals[k].at = arrivals[k].sent + RouteDelay
  <2>1. arrivals[k] \in Arrival
    BY <1>1, ElementType, ZenonT(60)
  <2>2. PICK s \in Nat, a \in Nat : s = arrivals[k].sent /\ a = arrivals[k].at
    BY <2>1 DEF Arrival
  <2>3. a = s + RouteDelay /\ a <= t
    BY <2>2 DEF ArrivedOK
  <2> QED
    BY <1>1, <2>2, <2>3
<1>4. ASSUME NEW k \in 1 .. Len(out)
      PROVE  out[k].at = out[k].sent + RouteDelay /\ out[k].at <= t
  <2>1. CASE k = n + 1
    BY <1>1, <1>2, <2>1
  <2>2. CASE k # n + 1
    <3>1. k \in 1 .. n /\ out[k] = arrivals[k]
      BY <1>1, <1>2, <2>2
    <3> QED
      BY <3>1 DEF ArrivedOK
  <2> QED
    BY <2>1, <2>2
<1>5. ASSUME NEW j \in 1 .. Len(out), NEW k \in 1 .. Len(out), j < k
      PROVE  out[j].sent <= out[k].sent
  <2>1. j \in 1 .. n /\ out[j] = arrivals[j]
    BY <1>1, <1>2, <1>5
  <2>2. CASE k = n + 1
    BY <1>1, <1>2, <1>3, <2>1, <2>2
  <2>3. CASE k # n + 1
    <3>1. k \in 1 .. n /\ out[k] = arrivals[k]
      BY <1>1, <1>2, <2>3
    <3> QED
      BY <1>5, <2>1, <3>1 DEF ArrivedOK
  <2> QED
    BY <2>2, <2>3
<1> QED
  BY <1>2, <1>4, <1>5 DEF ArrivedOK, out, e

LEMMA SendPacketTimes ==
  ASSUME IInv, Times, NEW gap \in Gap, SendPacket(gap)
  PROVE  Times'
<1>1. NextEventOf(0) /\ 1 \in Pipes /\ 0 \in 0 .. N_PIPES /\ delivered' = delivered
  BY PipeAssumption DEF SendPacket, Pipes
<1>2. PICK t \in Nat : t = now' /\ now <= t /\ now \in Nat
  BY <1>1, NextInTime
<1>3. PICK rest \in Seq(Entry) :
        rest = Tail(pendingsources) /\ InOrder(rest) /\ NotBefore(rest, t)
  BY <1>1, <1>2, NextInTime
<1>4. inflight \in Flights /\ LinesTimed(inflight, t)
  BY <1>1, <1>2, NextInTime
<1>5. PICK later \in Nat : later = t + gap /\ t <= later
  BY PipeLineAssumption
<1>6. PICK again \in Seq(Entry) : /\ again = sourceIsPending(rest, 0, later)
                                 /\ InOrder(again) /\ NotBefore(again, t)
  BY <1>1, <1>3, <1>5, PendingInTime
<1>7. t + Delay[1] = t + Reach[1]
  <2>1. Reach[0] = 0 /\ Reach[1] = Reach[1 - 1] + Delay[1] /\ Delay[1] \in Nat
    BY <1>1, ReachFacts, PipeAssumption
  <2> QED
    BY <2>1
<1>8. /\ inflight' = Received(1, t, inflight, t)
      /\ pendingsources' = Notified(1, inflight, again, t)
  BY <1>2, <1>3, <1>5, <1>6 DEF SendPacket
<1>9. LET f == Received(1, t, inflight, t)
          out == Notified(1, inflight, again, t)
      IN  /\ LinesTimed(f, t)
          /\ out \in Seq(Entry) /\ InOrder(out) /\ NotBefore(out, t)
  BY ONLY <1>1, <1>4, <1>6, <1>7, t \in Nat, again \in Seq(Entry), ReceivedInTime
<1>10. LinesTimed(inflight', t) /\ InOrder(pendingsources') /\ NotBefore(pendingsources', t)
  BY <1>8, <1>9
<1>11. ArrivedOK(delivered', t)
  BY <1>1, <1>2, ArrivedLater DEF Times
<1> QED
  BY <1>2, <1>10, <1>11 DEF Times, LinesTimed, InOrder, NotBefore

LEMMA SendNothingTimes ==
  ASSUME IInv, Times, SendNothing
  PROVE  Times'
<1>1. /\ NextEventOf(0) /\ pendingsources' = Tail(pendingsources)
      /\ inflight' = inflight /\ delivered' = delivered
  BY DEF SendNothing
<1>2. PICK t \in Nat : /\ t = now' /\ now <= t /\ now \in Nat
                      /\ InOrder(Tail(pendingsources)) /\ NotBefore(Tail(pendingsources), t)
                      /\ LinesTimed(inflight, t)
  BY <1>1, NextInTime
<1>3. ArrivedOK(delivered', t)
  BY <1>1, <1>2, ArrivedLater DEF Times
<1> QED
  BY <1>1, <1>2, <1>3 DEF Times, LinesTimed, InOrder, NotBefore

LEMMA doNextEventTimes ==
  ASSUME IInv, Times, NEW i \in Pipes, doNextEvent(i)
  PROVE  Times'
<1> DEFINE p == Head(inflight[i])
           left == [inflight EXCEPT ![i] = Tail(@)]
           rest == Tail(pendingsources)
<1>1. NextEventOf(i) /\ inflight[i] # <<>>
  BY DEF doNextEvent
<1>2. PICK t \in Nat : t = now' /\ now <= t /\ now \in Nat
  BY <1>1, NextInTime
<1>3. /\ rest \in Seq(Entry) /\ InOrder(rest) /\ NotBefore(rest, t)
      /\ inflight \in Flights /\ LinesTimed(inflight, t)
  BY <1>1, <1>2, NextInTime
<1>4. t = p.when
  BY <1>1, <1>2, NextEvent
<1>5. /\ Tail(inflight[i]) \in Seq(Slot) /\ LineTimed(i, Tail(inflight[i]), t + Delay[i])
      /\ p.pkt \in Nat /\ t = p.pkt + Reach[i]
      /\ Tail(inflight[i]) # <<>> => t <= Head(Tail(inflight[i])).when
  <2>1. inflight[i] \in Seq(Slot) /\ LineTimed(i, inflight[i], t + Delay[i])
    BY <1>3 DEF Flights, LinesTimed
  <2>2. /\ Tail(inflight[i]) \in Seq(Slot) /\ LineTimed(i, Tail(inflight[i]), t + Delay[i])
        /\ Head(inflight[i]).when = Head(inflight[i]).pkt + Reach[i]
        /\ Head(inflight[i]).pkt \in Nat
        /\ Tail(inflight[i]) # <<>> => Head(inflight[i]).when <= Head(Tail(inflight[i])).when
    BY ONLY <1>1, <2>1, LineShorter
  <2> QED
    BY <1>4, <2>2
<1>6. /\ left \in Flights /\ left[i] = Tail(inflight[i])
      /\ \A j \in Pipes : j # i => left[j] = inflight[j]
  BY <1>3, <1>5 DEF Flights
<1>7. LinesTimed(left, t)
  BY <1>3, <1>5, <1>6 DEF LinesTimed
<1>8. left[i] # <<>> => t <= Head(left[i]).when
  BY <1>5, <1>6
<1>9. /\ i < N_PIPES => /\ inflight' = Received(i + 1, p.pkt, left, t)
                       /\ pendingsources' = Rescheduled(i, left, Notified(i + 1, left, rest, t))
                       /\ delivered' = delivered
      /\ ~ (i < N_PIPES) => /\ inflight' = left /\ pendingsources' = Rescheduled(i, left, rest)
                           /\ delivered' = Append(delivered, [sent |-> p.pkt, at |-> t])
  BY <1>2 DEF doNextEvent
<1> HIDE DEF p, left, rest
<1>10. ArrivedOK(delivered, t)
  BY <1>2, ArrivedLater DEF Times
<1>11. CASE i < N_PIPES
  <2> DEFINE events == Notified(i + 1, left, rest, t)
  <2>1. i + 1 \in Pipes
    BY <1>11, PipeAssumption DEF Pipes
  <2>2. t + Delay[i + 1] = p.pkt + Reach[i + 1]
    <3>1. Reach[i + 1] = Reach[(i + 1) - 1] + Delay[i + 1] /\ (i + 1) - 1 = i
      BY <2>1, ReachFacts DEF Pipes
    <3>2. PICK r \in Nat, d \in Nat : r = Reach[i] /\ d = Delay[i + 1]
      <4>1. Reach \in [0 .. N_PIPES -> Nat] /\ i \in 0 .. N_PIPES
        BY ReachFacts, PipeAssumption DEF Pipes
      <4>2. Delay \in [Pipes -> Nat]
        BY PipeAssumption
      <4>3. Reach[i] \in Nat /\ Delay[i + 1] \in Nat
        BY ONLY <2>1, <4>1, <4>2
      <4> QED
        BY ONLY <4>3
    <3>3. PICK k \in Nat : k = p.pkt
      BY <1>5
    <3>4. t = k + r
      BY ONLY <1>5, <3>2, <3>3
    <3>5. Reach[i + 1] = r + d
      BY ONLY <3>1, <3>2
    <3>6. t + d = k + (r + d)
      BY ONLY <3>4, t \in Nat, k \in Nat, r \in Nat, d \in Nat
    <3> QED
      BY ONLY <3>2, <3>3, <3>5, <3>6
  <2>3. PICK n \in Pipes, pkt \in Nat : n = i + 1 /\ pkt = p.pkt
    BY <1>5, <2>1
  <2>4. t + Delay[n] = pkt + Reach[n]
    BY <2>2, <2>3
  <2>5. LET f == Received(n, pkt, left, t)
            out == Notified(n, left, rest, t)
        IN  /\ LinesTimed(f, t)
            /\ out \in Seq(Entry) /\ InOrder(out) /\ NotBefore(out, t)
    BY ONLY <1>3, <1>6, <1>7, <2>4, t \in Nat, n \in Pipes, pkt \in Nat, ReceivedInTime
  <2>6. LinesTimed(inflight', t)
    BY <1>9, <1>11, <2>3, <2>5
  <2>7. events \in Seq(Entry) /\ InOrder(events) /\ NotBefore(events, t)
    BY <2>3, <2>5
  <2>8. pendingsources' = Rescheduled(i, left, events) /\ delivered' = delivered
    BY <1>9, <1>11
  <2> HIDE DEF events
  <2>9. InOrder(pendingsources') /\ NotBefore(pendingsources', t)
    BY <1>6, <1>8, <2>7, <2>8, RescheduledInTime
  <2> QED
    BY <1>2, <1>10, <2>6, <2>8, <2>9 DEF Times, LinesTimed, InOrder, NotBefore
<1>12. CASE ~ (i < N_PIPES)
  <2>1. InOrder(pendingsources') /\ NotBefore(pendingsources', t)
    BY <1>3, <1>6, <1>8, <1>9, <1>12, RescheduledInTime
  <2>2. i = N_PIPES
    BY <1>12, PipeAssumption DEF Pipes
  <2>3. ArrivedOK(delivered', t)
    <3>1. t = p.pkt + RouteDelay /\ p.pkt \in Nat
      BY <1>5, <2>2 DEF RouteDelay
    <3>2. PICK pkt \in Nat : pkt = p.pkt
      BY <3>1
    <3>3. ArrivedOK(Append(delivered, [sent |-> pkt, at |-> t]), t)
      BY <1>10, <3>1, <3>2, ArrivedNow
    <3> QED
      BY <1>9, <1>12, <3>2, <3>3
  <2> QED
    BY <1>2, <1>7, <1>9, <1>12, <2>1, <2>3 DEF Times, LinesTimed, InOrder, NotBefore
<1> QED
  BY <1>11, <1>12

LEMMA InitTimes == Init => Times
<1> SUFFICES ASSUME Init
             PROVE  Times
  OBVIOUS
<1> DEFINE none == <<>>
<1>1. /\ now = 0 /\ inflight = [i \in Pipes |-> <<>>] /\ delivered = <<>>
      /\ pendingsources = sourceIsPending(none, 0, 0)
  BY DEF Init
<1>2. none \in Seq(Entry) /\ InOrder(none) /\ NotBefore(none, 0)
  BY DEF InOrder, NotBefore
<1> HIDE DEF none
<1>3. 0 \in 0 .. N_PIPES /\ 0 \in Nat /\ 0 <= 0
  BY PipeAssumption
<1>4. LET out == sourceIsPending(none, 0, 0)
      IN  out \in Seq(Entry) /\ InOrder(out) /\ NotBefore(out, 0)
  BY ONLY <1>2, <1>3, PendingInTime
<1>5. \A i \in Pipes : LineTimed(i, inflight[i], now + Delay[i])
  BY <1>1 DEF LineTimed
<1>6. ArrivedOK(delivered, now)
  BY <1>1 DEF ArrivedOK
<1> QED
  BY <1>1, <1>4, <1>5, <1>6 DEF Times

LEMMA NextTimes == IInv /\ Times /\ [Next]_vars => Times'
<1>1. ASSUME IInv, Times, NEW gap \in Gap, SendPacket(gap)
      PROVE  Times'
  BY <1>1, SendPacketTimes
<1>2. ASSUME IInv, Times, SendNothing
      PROVE  Times'
  BY <1>2, SendNothingTimes
<1>3. ASSUME IInv, Times, NEW i \in Pipes, doNextEvent(i)
      PROVE  Times'
  BY <1>3, doNextEventTimes
<1>4. ASSUME Times, UNCHANGED vars
      PROVE  Times'
  <2>1. /\ pendingsources' = pendingsources /\ now' = now /\ inflight' = inflight
        /\ delivered' = delivered
    BY <1>4 DEF vars
  <2> QED
    BY ONLY <1>4, <2>1 DEF Times, InOrder, NotBefore, LineTimed, ArrivedOK
<1> QED
  BY <1>1, <1>2, <1>3, <1>4 DEF Next

(* A packet takes the sum of the delays on its way, to the tick, packets   *)
(* arrive in the order in which they were sent, and time never runs back:  *)
(* the asserts of sourceIsPending and doNextEvent cannot fail.             *)
THEOREM DelayIsExact == Spec => []ExactDelay
<1>1. Times => ExactDelay
  <2> SUFFICES ASSUME Times, NEW k \in 1 .. Len(delivered)
               PROVE  /\ delivered[k].at = delivered[k].sent + RouteDelay
                      /\ delivered[k].at <= now
                      /\ k > 1 => delivered[k].sent >= delivered[k - 1].sent
    BY DEF ExactDelay
  <2>1. /\ delivered[k].at = delivered[k].sent + RouteDelay
        /\ delivered[k].at <= now
    BY DEF Times, ArrivedOK
  <2>2. ASSUME k > 1
        PROVE  delivered[k].sent >= delivered[k - 1].sent
    <3>1. delivered \in Seq(Arrival) /\ Len(delivered) \in Nat
      BY DEF Times, ArrivedOK
    <3>2. k - 1 \in 1 .. Len(delivered) /\ k - 1 < k
      BY <2>2, <3>1
    <3>3. delivered[k - 1].sent <= delivered[k].sent
      BY <3>2 DEF Times, ArrivedOK
    <3> QED
      BY <3>3
  <2> QED
    BY <2>1, <2>2
<1> QED
  BY <1>1, InitTimes, NextTimes, InductiveInvariant, PTL DEF Spec
=============================================================================
