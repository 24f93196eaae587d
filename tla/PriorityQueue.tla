--------------------------- MODULE PriorityQueue ---------------------------
(***************************************************************************)
(* The priority queue of priorityqueue.cpp: packets leave by priority (the *)
(* key of the packet, smaller is more urgent), then by arrival, and are    *)
(* dropped from the other end when the queue is over its limit.  The       *)
(* packet in service is no longer in the multiset.  As in the fair queue,  *)
(* _currentPkt is not initialised.                                         *)
(***************************************************************************)
EXTENDS QueuePackets

CONSTANTS
  NULL, GARBAGE,  \* a null pointer and a pointer to no packet
  UNINITIALISED   \* whether the memory of a new queue may be non-zero

VARIABLES
  packets,     \* the multiset as the sequence of its packets
  currentPkt,  \* the packet in service
  queuesize,   \* bytes, the packet in service included
  pending,     \* events of this queue in the event list
  arrived,     \* packets that have arrived
  marked       \* whether the last packet to leave got a congestion mark

vars == <<packets, currentPkt, queuesize, pending, arrived, marked>>

Init ==
  /\ packets = <<>>
  /\ currentPkt \in IF UNINITIALISED THEN {NULL, GARBAGE} ELSE {NULL}
  /\ queuesize = 0 /\ pending = 0 /\ arrived = 0 /\ marked = FALSE

-----------------------------------------------------------------------------
(* Takes the first packet of line into service; events is how many events  *)
(* of the queue are in the event list.                                     *)
beginService(line, events) ==
  IF line = <<>>
  THEN currentPkt' = NULL /\ packets' = line /\ pending' = events
  ELSE currentPkt' = Head(line) /\ packets' = Tail(line) /\ pending' = events + 1

(* doNextEvent.                                                            *)
completeService ==
  /\ pending > 0
  /\ marked' = (queuesize > ECN_TH)
  /\ queuesize' = queuesize - currentPkt.size
  /\ beginService(packets, pending - 1)
  /\ UNCHANGED arrived

(* A packet goes behind those that are not less urgent.                    *)
Inserted(line, p) ==
  InsertAt(line, Cardinality({i \in 1 .. Len(line) : line[i].key <= p.key}) + 1, p)

(* Mutant of AfterDrops: packets are dropped from the head of the line.    *)
AfterHeadDrops(line, drops) == SubSeq(line, drops + 1, Len(line))

AfterDrops(line, drops) == SubSeq(line, 1, Len(line) - drops)

receivePacket(p) ==
  LET line == Inserted(packets, p)
      kept == AfterDrops(line, TailDrops(line, queuesize + p.size))
  IN  /\ p \in Arriving(arrived)
      /\ arrived' = arrived + 1
      /\ queuesize' = queuesize + p.size - Bytes(ToSet(line) \ ToSet(kept))
      /\ IF currentPkt = NULL /\ packets = <<>>
         THEN beginService(kept, pending)
         ELSE packets' = kept /\ UNCHANGED <<currentPkt, pending>>
      /\ UNCHANGED marked

Next ==
  \/ \E p \in Arriving(arrived) : receivePacket(p)
  \/ completeService

Spec == Init /\ [][Next]_vars /\ WF_vars(completeService)

-----------------------------------------------------------------------------
Serving == IF currentPkt \in {NULL, GARBAGE} THEN {} ELSE {currentPkt}
Held == Serving \cup ToSet(packets)

(* The bytes counted are those of the packets held after any mix of        *)
(* arrivals, drops and departures, a departure is pending exactly when a   *)
(* packet is in service, and no packet waits for an idle link.             *)
CountersExact ==
  /\ queuesize = Bytes(Held)
  /\ pending = Cardinality(Serving)
  /\ Serving = {} => packets = <<>>

(* A packet that is dropped is not more urgent than any that stays or has  *)
(* just arrived, the one in service excepted; and the packet taken into    *)
(* service is not less urgent than any that waits.                         *)
UrgentStep ==
  /\ \A p \in Held \ (Held' \cup Serving), q \in ToSet(packets') : q.key <= p.key
  /\ Serving' # Serving =>
       \A p \in Serving', q \in ToSet(packets') : p.key <= q.key

=============================================================================
