----------------------------- MODULE TimedPath -----------------------------
(***************************************************************************)
(* The path of one flow in simulated time: a bottleneck queue and a pipe   *)
(* towards the sink, and a pipe back.  The packets of other flows are      *)
(* disturbances, each of them possible a bounded number of times: a packet *)
(* is lost, because the queue or one behind it is full, or its service     *)
(* takes longer because others are served before it.  Acks wait in no      *)
(* queue.  The handlers of an event run at its time, now'.                 *)
(***************************************************************************)
EXTENDS Pipe

CONSTANTS
  SERVICE,          \* drainTime of a segment
  QUEUE_SIZE,       \* segments that fit into the queue
  Extra,            \* what other flows can add to the service of a segment
  MAX_DISTURBANCES  \* bound of the model: losses and additions

(* The sources of events.                                                  *)
SOURCE == 0
FORWARD == 1
BACK == 2
QUEUE == 3

ASSUME TimedPathAssumption ==
  /\ N_PIPES = 2
  /\ SERVICE \in Nat \ {0} /\ QUEUE_SIZE \in Nat \ {0}
  /\ Extra \subseteq Nat \ {0} /\ MAX_DISTURBANCES \in Nat

VARIABLES
  enqueued,     \* segments in the queue, the one in service first
  disturbances  \* how many there have been

pathVars == <<inflight, enqueued, disturbances>>

PathInit ==
  /\ inflight = [i \in Pipes |-> <<>>]
  /\ enqueued = <<>>
  /\ disturbances = 0

(* Packets of the flow that are allocated (_flow._nPackets).               *)
nPackets == Len(enqueued) + Len(inflight[FORWARD]) + Len(inflight[BACK])

(* Of the packets a handler sends, at most three, the lost ones, and the   *)
(* addition to the service that begins.                                    *)
Disturbance == [lost : SUBSET (1 .. 3), extra : {0} \cup Extra]

Disturb(d) ==
  /\ disturbances' = disturbances + Cardinality(d.lost) + (IF d.extra = 0 THEN 0 ELSE 1)
  /\ disturbances' <= MAX_DISTURBANCES

(* The packets of out, at most three, that are not lost.                   *)
Kept(out, lost) ==
  LET kept(i) == IF i \in (1 .. Len(out)) \ lost THEN <<out[i]>> ELSE <<>>
  IN  kept(1) \o kept(2) \o kept(3)

(* Mutant of Entering: the queue takes a segment too many.                 *)
EnteringOneMore(out, lost) ==
  LET room == QUEUE_SIZE + 1 - Len(enqueued)
      kept == Kept(out, lost)
  IN  SubSeq(kept, 1, IF Len(kept) < room THEN Len(kept) ELSE room)

(* Those that fit into the queue: the rest is dropped at its tail.         *)
Entering(out, lost) ==
  LET room == QUEUE_SIZE - Len(enqueued)
      kept == Kept(out, lost)
  IN  SubSeq(kept, 1, IF Len(kept) < room THEN Len(kept) ELSE room)

(* Packets out are sent into the queue.                                    *)
Transmit(out, d) ==
  /\ d.lost \subseteq 1 .. Len(out)
  /\ d.extra # 0 => enqueued = <<>> /\ Entering(out, d.lost) # <<>>
  /\ Disturb(d)
  /\ enqueued' = enqueued \o Entering(out, d.lost)

(* The event list after that: the first segment of an empty queue begins   *)
(* its service.                                                            *)
Served(out, d, events) ==
  IF enqueued = <<>> /\ Entering(out, d.lost) # <<>>
  THEN sourceIsPending(events, QUEUE, now' + SERVICE + d.extra)
  ELSE events

(* The segment in service enters the pipe and the next one begins.         *)
completeService(d) ==
  LET sent == Notified(FORWARD, inflight, Tail(pendingsources), now')
  IN  /\ NextEventOf(QUEUE)
      /\ d.lost = {}
      /\ inflight' = Received(FORWARD, Head(enqueued), inflight, now')
      /\ enqueued' = Tail(enqueued)
      /\ d.extra # 0 => enqueued' # <<>>
      /\ Disturb(d)
      /\ pendingsources' = IF enqueued' = <<>> THEN sent
                           ELSE sourceIsPending(sent, QUEUE, now' + SERVICE + d.extra)

(* A segment arrives at the sink, which sends an ack into the pipe back.   *)
SinkEvent(ack, d) ==
  LET left == [inflight EXCEPT ![FORWARD] = Tail(@)]
      rest == Tail(pendingsources)
      sent == IF d.lost = {} THEN Notified(BACK, left, rest, now') ELSE rest
  IN  /\ d.lost \subseteq {1} /\ d.extra = 0
      /\ Disturb(d)
      /\ inflight' = IF d.lost = {} THEN Received(BACK, ack, left, now') ELSE left
      /\ pendingsources' = Rescheduled(FORWARD, left, sent)
      /\ UNCHANGED enqueued
=============================================================================
