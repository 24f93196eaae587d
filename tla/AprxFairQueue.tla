--------------------------- MODULE AprxFairQueue ---------------------------
(***************************************************************************)
(* The approximate fair queue of aprx-fairqueue.cpp: N_QUEUE FIFOs, one    *)
(* for each of the next rounds, served in turn.  A count-min sketch holds  *)
(* an estimate of the bytes that each flow has sent; the estimate, divided *)
(* by BYTES_PER_ROUND, is the round of the flow's next packet.             *)
(***************************************************************************)
EXTENDS QueuePackets

CONSTANTS
  N_HASH,           \* rows of the sketch
  N_BUCKET,         \* columns of the sketch
  N_QUEUE,          \* number of FIFOs
  BYTES_PER_ROUND,  \* bytes of a flow in a round
  ECN_MARK_ROUND    \* rounds ahead from which packets are marked

AfqAssumption ==
  /\ N_HASH \in 1 .. 4 /\ N_BUCKET \in Nat \ {0} /\ N_QUEUE \in Nat \ {0, 1}
  /\ BYTES_PER_ROUND \in Nat \ {0} /\ ECN_MARK_ROUND \in Nat
  /\ Flow \subseteq Nat

VARIABLES
  packets,    \* per FIFO, its packets, the first to leave first
  sketch,     \* per row and column, bytes
  Qsize,      \* per FIFO, bytes
  currQ,      \* the FIFO in service
  nRounds,    \* rounds elapsed
  nPackets,   \* packets in all FIFOs
  queuesize,  \* bytes in all FIFOs
  pending,    \* events of this queue in the event list
  arrived,    \* packets that have arrived
  marked      \* whether the last packet to leave got a congestion mark

vars == <<packets, sketch, Qsize, currQ, nRounds, nPackets, queuesize,
          pending, arrived, marked>>

Queue == 0 .. N_QUEUE - 1
Row == 0 .. N_HASH - 1

Init ==
  /\ packets = [q \in Queue |-> <<>>]
  /\ sketch = [i \in Row |-> [b \in 0 .. N_BUCKET - 1 |-> 0]]
  /\ Qsize = [q \in Queue |-> 0]
  /\ currQ = 0 /\ nRounds = 0 /\ nPackets = 0 /\ queuesize = 0
  /\ pending = 0 /\ arrived = 0 /\ marked = FALSE

-----------------------------------------------------------------------------
hashFlow(i, f) == <<7643, 7723, 7829, 7919>>[i + 1] * f

Column(i, f) == hashFlow(i, f) % N_BUCKET

(* Bytes of a flow according to the sketch.                                *)
Estimate(f) == Min({sketch[i][Column(i, f)] : i \in Row})

(* How many FIFOs in a row are empty, from the current one.                *)
EmptyFifos(fifos) ==
  Min({k \in 0 .. N_QUEUE : fifos[(currQ + k) % N_QUEUE] # <<>>})

(* Moves to a FIFO that has packets, a round for every FIFO passed.        *)
beginService(fifos, n, events) ==
  IF n > 0
  THEN LET k == EmptyFifos(fifos)
       IN  /\ currQ' = (currQ + k) % N_QUEUE
           /\ nRounds' = nRounds + k
           /\ pending' = events + 1
  ELSE pending' = events /\ UNCHANGED <<currQ, nRounds>>

(* Whether a packet of flow f that leaves now is marked for its rounds.    *)
(* The difference is of unsigned numbers: below zero it is very large.     *)
RoundsAhead(f) ==
  LET ahead == Estimate(f) \div BYTES_PER_ROUND - nRounds
  IN  ahead < 0 \/ ahead >= ECN_MARK_ROUND

(* doNextEvent.                                                            *)
completeService ==
  LET p == Head(packets[currQ])
  IN  /\ pending > 0
      /\ packets' = [packets EXCEPT ![currQ] = Tail(@)]
      /\ Qsize' = [Qsize EXCEPT ![currQ] = @ - p.size]
      /\ queuesize' = queuesize - p.size
      /\ nPackets' = nPackets - 1
      /\ marked' = (RoundsAhead(p.flow) \/ queuesize' > ECN_TH)
      /\ beginService(packets', nPackets', pending - 1)
      /\ UNCHANGED <<sketch, arrived>>

(* Mutant of FlowBytes: a flow that was silent keeps its old bytes.        *)
FlowBytesOld(f) == Estimate(f)

(* The bytes from which the flow goes on: at least those of the rounds     *)
(* that have elapsed.                                                      *)
FlowBytes(f) ==
  IF Estimate(f) \div BYTES_PER_ROUND <= nRounds
  THEN Max({nRounds * BYTES_PER_ROUND, Estimate(f)})
  ELSE Estimate(f)

(* Mutant of TooFar: packets may be a whole turn ahead.                    *)
TooFarByOne(p) == Estimate(p.flow) \div BYTES_PER_ROUND > nRounds + N_QUEUE

(* Whether the flow is sending too fast: no FIFO for its round.            *)
TooFar(p) == Estimate(p.flow) \div BYTES_PER_ROUND >= nRounds + N_QUEUE

Fits(p) == queuesize + p.size <= MAXSIZE

receivePacketDrop(p) ==
  /\ ~Fits(p) \/ TooFar(p)
  /\ p \in Arriving(arrived)
  /\ arrived' = arrived + 1
  /\ UNCHANGED <<packets, sketch, Qsize, currQ, nRounds, nPackets, queuesize,
                 pending, marked>>

(* Mutant of SketchAfter: the bytes of the packet are not added.           *)
SketchAfterRound(p) ==
  [i \in Row |-> [sketch[i] EXCEPT ![Column(i, p.flow)] = Max({@, FlowBytes(p.flow)})]]

(* The sketch with the bytes of p, in every row.                           *)
SketchAfter(p) ==
  [i \in Row |-> [sketch[i] EXCEPT
                    ![Column(i, p.flow)] = Max({@, FlowBytes(p.flow) + p.size})]]

(* The FIFO of the round of packet p.                                      *)
OutQ(p) ==
  (currQ + FlowBytes(p.flow) \div BYTES_PER_ROUND - nRounds) % N_QUEUE

receivePacket(p) ==
  /\ Fits(p) /\ ~TooFar(p)
  /\ p \in Arriving(arrived)
  /\ arrived' = arrived + 1
  /\ packets' = [packets EXCEPT ![OutQ(p)] = Append(@, p)]
  /\ Qsize' = [Qsize EXCEPT ![OutQ(p)] = @ + p.size]
  /\ queuesize' = queuesize + p.size
  /\ nPackets' = nPackets + 1
  /\ sketch' = SketchAfter(p)
  /\ IF nPackets = 0 THEN beginService(packets', nPackets', pending)
                     ELSE UNCHANGED <<currQ, nRounds, pending>>
  /\ UNCHANGED marked

Next ==
  \/ \E p \in Arriving(arrived) : receivePacket(p)
  \/ \E p \in Arriving(arrived) : receivePacketDrop(p)
  \/ completeService

Spec == Init /\ [][Next]_vars /\ WF_vars(completeService)

-----------------------------------------------------------------------------
Held == UNION {ToSet(packets[q]) : q \in Queue}

(* The round that FIFO q stands for.                                       *)
RoundOf(q) == nRounds + ((q - currQ) % N_QUEUE)

(* The counters agree with the packets, a departure is scheduled exactly   *)
(* when there are packets, and then the FIFO in service has one (the       *)
(* search for it ends, and doNextEvent finds a packet to take).            *)
CountersExact ==
  /\ queuesize = Bytes(Held) /\ nPackets = Cardinality(Held)
  /\ \A q \in Queue : Qsize[q] = Bytes(ToSet(packets[q]))
  /\ pending = IF Held = {} THEN 0 ELSE 1
  /\ Held # {} => packets[currQ] # <<>>
  /\ currQ = nRounds % N_QUEUE

(* The estimate of a flow covers the round of each of its packets, so the  *)
(* unsigned difference on departure never wraps to mark a packet wrongly.  *)
EstimateCoversRound ==
  \A q \in Queue : \A p \in ToSet(packets[q]) :
    Estimate(p.flow) >= RoundOf(q) * BYTES_PER_ROUND + p.size

(* Fairness: a FIFO never has more of one flow than BYTES_PER_ROUND and    *)
(* the end of the packet that goes over it, however flows share columns.   *)
RoundShare ==
  \A q \in Queue, f \in Flow :
    LET S == {p \in ToSet(packets[q]) : p.flow = f}
    IN  S # {} => Bytes(S \ {CHOOSE p \in S : \A r \in S : p.n >= r.n})
                    < BYTES_PER_ROUND

(* No flow is locked out: once the queue is empty, a packet of any flow is *)
(* accepted, however far ahead the flow was (for packets of not more than  *)
(* N_QUEUE - 1 rounds).                                                    *)
IdleAccepts == nPackets = 0 => \A p \in Packet : ~TooFar(p) /\ Fits(p)
=============================================================================
