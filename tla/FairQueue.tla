----------------------------- MODULE FairQueue -----------------------------
(***************************************************************************)
(* The fair queue of fairqueue.cpp, in the LAZY mode that its constructor  *)
(* sets (nothing selects PRECISE, so updateRoundNumber is never called).   *)
(* Every packet gets the round in which a bytewise round robin would       *)
(* finish it; packets leave by round, then by id (the key of the packet),  *)
(* then by arrival, and are dropped from the other end.                    *)
(*                                                                         *)
(* _currentPkt is not initialised by the constructor.  With UNINITIALISED  *)
(* it may hold any pointer at first, else the memory happens to be zero.   *)
(***************************************************************************)
EXTENDS QueuePackets

CONSTANTS
  NULL, GARBAGE,  \* a null pointer and a pointer to no packet
  UNINITIALISED   \* whether the memory of a new queue may be non-zero

VARIABLES
  packets,       \* the multiset as the sequence of its [round, pkt] pairs
  flowRound,     \* finish round of each flow that has packets
  nPackets,      \* packets of each flow that has packets
  nActiveFlows,
  roundNumber,   \* round of the packet in service
  currentPkt,    \* the packet in service
  queuesize,     \* bytes, the packet in service included
  pending,       \* events of this queue in the event list
  arrived,       \* packets that have arrived
  marked         \* whether the last packet to leave got a congestion mark

vars == <<packets, flowRound, nPackets, nActiveFlows, roundNumber, currentPkt,
          queuesize, pending, arrived, marked>>

Init ==
  /\ packets = <<>> /\ flowRound = <<>> /\ nPackets = <<>>
  /\ nActiveFlows = 0 /\ roundNumber = 0
  /\ currentPkt \in IF UNINITIALISED THEN {NULL, GARBAGE} ELSE {NULL}
  /\ queuesize = 0 /\ pending = 0 /\ arrived = 0 /\ marked = FALSE

-----------------------------------------------------------------------------
(* Takes the first pair of line into service; events is how many events of *)
(* the queue are in the event list.                                        *)
beginService(line, events) ==
  IF line = <<>>
  THEN /\ pending' = events /\ packets' = line
       /\ UNCHANGED <<roundNumber>>
       /\ currentPkt' = NULL
  ELSE /\ roundNumber' = Head(line).round
       /\ currentPkt' = Head(line).pkt
       /\ packets' = Tail(line)
       /\ pending' = events + 1

(* The function f without flow.                                            *)
Without(f, flow) == [g \in DOMAIN f \ {flow} |-> f[g]]

(* doNextEvent: the packet in service leaves, the next one is taken.       *)
completeService ==
  LET f == currentPkt.flow
  IN  /\ pending > 0
      /\ IF nPackets[f] = 1
         THEN nPackets' = Without(nPackets, f) /\ flowRound' = Without(flowRound, f)
         ELSE nPackets' = [nPackets EXCEPT ![f] = @ - 1] /\ UNCHANGED flowRound
      /\ marked' = (queuesize > ECN_TH)
      /\ queuesize' = queuesize - currentPkt.size
      /\ beginService(packets, pending - 1)
      /\ UNCHANGED <<nActiveFlows, arrived>>

(* Mutant of finishRound: a flow starts again at the present round.        *)
finishRoundForgets(p) == roundNumber + p.size

(* The round in which packet p finishes: its flow goes on where it is, or  *)
(* starts at the present round if it is not ahead of it.                   *)
finishRound(p) ==
  IF p.flow \in DOMAIN flowRound /\ flowRound[p.flow] > roundNumber
  THEN flowRound[p.flow] + p.size
  ELSE roundNumber + p.size

(* Where a pair goes: behind the pairs that do not compare greater.        *)
Before(a, b) ==
  \/ a.round < b.round
  \/ a.round = b.round /\ a.pkt.key <= b.pkt.key

Inserted(line, e) ==
  InsertAt(line, Cardinality({i \in 1 .. Len(line) : Before(line[i], e)}) + 1, e)

Pkts(line) == [i \in 1 .. Len(line) |-> line[i].pkt]

(* Mutant of RoundsAfterDrop: a flow that loses packets keeps its round.   *)
RoundsKept(rounds, counts, gone) == [f \in DOMAIN counts |-> rounds[f]]

(* Finish rounds when the packets gone are dropped; counts has the flows   *)
(* that still have packets.                                                *)
RoundsAfterDrop(rounds, counts, gone) ==
  [f \in DOMAIN counts |-> rounds[f] - Bytes({q \in gone : q.flow = f})]

(* Mutant of CountsAfterDrop: packets that are dropped stay counted.       *)
CountsKept(counts, gone) == counts

(* Packets per flow when the packets gone are dropped.                     *)
CountsAfterDrop(counts, gone) ==
  LET left == [f \in DOMAIN counts |->
                 counts[f] - Cardinality({q \in gone : q.flow = f})]
  IN  [f \in {g \in DOMAIN left : left[g] > 0} |-> left[f]]

Count(p) == IF p.flow \in DOMAIN nPackets THEN nPackets[p.flow] ELSE 0

receivePacket(p) ==
  LET f      == p.flow
      line   == Inserted(packets, [round |-> finishRound(p), pkt |-> p])
      drops  == TailDrops(Pkts(line), queuesize + p.size)
      kept   == SubSeq(line, 1, Len(line) - drops)
      gone   == ToSet(Pkts(SubSeq(line, Len(line) - drops + 1, Len(line))))
      counts == (f :> Count(p) + 1) @@ nPackets
      rounds == (f :> finishRound(p)) @@ flowRound
      left   == CountsAfterDrop(counts, gone)
  IN  /\ p \in Arriving(arrived)
      /\ arrived' = arrived + 1
      /\ nPackets' = left
      /\ flowRound' = RoundsAfterDrop(rounds, left, gone)
      /\ nActiveFlows' = nActiveFlows + Cardinality({f} \ DOMAIN flowRound)
                           - Cardinality(DOMAIN counts \ DOMAIN left)
      /\ queuesize' = queuesize + p.size - Bytes(gone)
      /\ IF currentPkt = NULL /\ packets = <<>>
         THEN beginService(kept, pending)
         ELSE packets' = kept /\ UNCHANGED <<roundNumber, currentPkt, pending>>
      /\ UNCHANGED marked

Next ==
  \/ \E p \in Arriving(arrived) : receivePacket(p)
  \/ completeService

Spec == Init /\ [][Next]_vars /\ WF_vars(completeService)

-----------------------------------------------------------------------------
Serving == IF currentPkt \in {NULL, GARBAGE} THEN {} ELSE {currentPkt}
Held == Serving \cup ToSet(Pkts(packets))
Backlog(f) == {p \in Held : p.flow = f}
Waiting(f) == {i \in 1 .. Len(packets) : packets[i].pkt.flow = f}

(* The counters agree with the packets after any mix of arrivals, tail     *)
(* drops and departures: bytes, packets per flow, and a departure pending  *)
(* exactly when a packet is in service.                                    *)
CountersExact ==
  /\ queuesize = Bytes(Held)
  /\ DOMAIN nPackets = {p.flow : p \in Held}
  /\ \A f \in DOMAIN nPackets : nPackets[f] = Cardinality(Backlog(f))
  /\ pending = Cardinality(Serving)
  /\ Serving = {} => packets = <<>>

(* Fairness: no waiting packet is scheduled behind the present round by    *)
(* more than what its own flow has queued up to it, whatever the other     *)
(* flows do, nor is it ever overtaken by the round.  So drops give back    *)
(* the rounds they took.                                                   *)
OwnBacklogOnly ==
  \A i \in 1 .. Len(packets) :
    LET p == packets[i].pkt
    IN  /\ packets[i].round >= roundNumber
        /\ packets[i].round <=
             roundNumber + Bytes({q \in Backlog(p.flow) : q.n <= p.n})

=============================================================================
