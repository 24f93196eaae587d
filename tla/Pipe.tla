-------------------------------- MODULE Pipe --------------------------------
(***************************************************************************)
(* Pipes of pipe.cpp, driven by the event list.  A pipe has one event in   *)
(* the list for all its packets.  The handlers of an event take and return *)
(* the packets in the pipes and the list.                                  *)
(***************************************************************************)
EXTENDS EventList

CONSTANTS
  N_PIPES,  \* pipes
  Delay     \* delay of each pipe

Pipes == 1 .. N_PIPES

ASSUME PipeAssumption == N_PIPES \in Nat \ {0} /\ Delay \in [Pipes -> Nat]

VARIABLE inflight  \* per pipe, entries [when, pkt], the first to leave first

(* Mutant of Notified: an event for every packet.                          *)
NotifiedAlways(i, flight, events, t) == sourceIsPending(events, i, t + Delay[i])

(* receivePacket of pipe i at time t: the pipe has the packet, and the     *)
(* event list an event of the pipe if it had no packet before.             *)
Received(i, pkt, flight, t) ==
  [flight EXCEPT ![i] = Append(@, [when |-> t + Delay[i], pkt |-> pkt])]

Notified(i, flight, events, t) ==
  IF flight[i] = <<>> THEN sourceIsPending(events, i, t + Delay[i]) ELSE events

(* Mutant of Rescheduled: only an arrival schedules an event.              *)
RescheduledNever(i, flight, events) == events

(* The event list with the event of what pipe i still has.                 *)
Rescheduled(i, flight, events) ==
  IF flight[i] = <<>> THEN events
  ELSE sourceIsPending(events, i, Head(flight[i]).when)

(* The list accepts an event at t.                                         *)
InTime(t) == END_TIME = 0 \/ t <= END_TIME

(* A pipe with packets has exactly one event, at the time its first packet *)
(* is due, or none if that is past the end; a pipe without packets has     *)
(* none.  So no packet is stuck and doNextEvent always finds its packet.   *)
OneEventPerPipe ==
  \A i \in Pipes :
    LET first == Head(inflight[i]).when
    IN  IF inflight[i] # <<>> /\ InTime(first)
        THEN \E k \in 1 .. Len(pendingsources) : EventsOf(i) = {k} /\ pendingsources[k].when = first
        ELSE EventsOf(i) = {}
=============================================================================
