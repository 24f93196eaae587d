----------------------------- MODULE FifoQueue -----------------------------
(***************************************************************************)
(* The drop-tail FIFO of queue.cpp and, with DROP_TH < MAXSIZE or LOSSY,   *)
(* the random early drop of randomqueue.cpp on top of it.  The head of     *)
(* enqueued is the packet in service (the back of the code's list).  An    *)
(* event of the queue in the event list may fire at any later time.        *)
(***************************************************************************)
EXTENDS QueuePackets

CONSTANTS
  DROP_TH,  \* bytes above which RandomQueue may drop; MAXSIZE for Queue
  LOSSY     \* whether RandomQueue has a packet loss rate

FifoAssumption == DROP_TH \in 0 .. MAXSIZE /\ LOSSY \in BOOLEAN

VARIABLES
  enqueued,   \* packets, the first to leave first
  queuesize,  \* bytes
  pending,    \* events of this queue in the event list
  arrived,    \* packets that have arrived
  marked      \* whether the last packet to leave got a congestion mark

vars == <<enqueued, queuesize, pending, arrived, marked>>

Init ==
  /\ enqueued = <<>> /\ queuesize = 0 /\ pending = 0
  /\ arrived = 0 /\ marked = FALSE

(* Schedules the departure of the first packet of line.                    *)
beginService(line, events) ==
  /\ line # <<>>
  /\ pending' = events + 1

MayDrop(p) == LOSSY \/ queuesize + p.size > DROP_TH

receivePacketDrop(p) ==
  /\ MayDrop(p)
  /\ p \in Arriving(arrived)
  /\ arrived' = arrived + 1
  /\ UNCHANGED <<enqueued, queuesize, pending, marked>>

Fits(p) == queuesize + p.size <= MAXSIZE

receivePacket(p) ==
  /\ Fits(p)
  /\ p \in Arriving(arrived)
  /\ arrived' = arrived + 1
  /\ enqueued' = Append(enqueued, p)
  /\ queuesize' = queuesize + p.size
  /\ IF enqueued = <<>> THEN beginService(enqueued', pending)
                        ELSE pending' = pending
  /\ UNCHANGED marked

(* doNextEvent.                                                            *)
completeService ==
  /\ pending > 0
  /\ enqueued' = Tail(enqueued)
  /\ queuesize' = queuesize - Head(enqueued).size
  /\ marked' = (queuesize' > ECN_TH)
  /\ IF enqueued' # <<>> THEN beginService(enqueued', pending - 1)
                         ELSE pending' = pending - 1
  /\ UNCHANGED arrived

Next ==
  \/ \E p \in Arriving(arrived) : receivePacket(p)
  \/ \E p \in Arriving(arrived) : receivePacketDrop(p)
  \/ completeService

Spec == Init /\ [][Next]_vars /\ WF_vars(completeService)

-----------------------------------------------------------------------------
Held == ToSet(enqueued)

(* The type invariant, with a departure scheduled exactly when there is a  *)
(* packet and never two, so that Head and Tail are of a packet (the code's *)
(* asserts), and the bytes counted are the bytes of the packets.           *)
CountersExact ==
  /\ enqueued \in Seq(Packet) /\ arrived \in 0 .. MAX_ARRIVALS
  /\ marked \in BOOLEAN
  /\ pending = IF enqueued = <<>> THEN 0 ELSE 1
  /\ queuesize = Bytes(Held)
=============================================================================
