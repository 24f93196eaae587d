--------------------------- MODULE StocFairQueue ---------------------------
(***************************************************************************)
(* The stochastic fair queue of stoc-fairqueue.cpp: flows are hashed to    *)
(* N_QUEUE FIFOs, and the FIFOs that have packets are served by deficit    *)
(* round robin.  A FIFO whose credit does not cover its first packet gets  *)
(* QUANTUM more and goes to the back of the list.                          *)
(***************************************************************************)
EXTENDS QueuePackets

CONSTANTS
  N_QUEUE,  \* number of FIFOs
  QUANTUM   \* bytes of credit per round

StocAssumption ==
  N_QUEUE \in Nat \ {0} /\ QUANTUM \in Nat \ {0} /\ Flow \subseteq Nat

VARIABLES
  packets,    \* per FIFO, its packets, the first to leave first
  credits,    \* per FIFO, bytes it may send
  Qsize,      \* per FIFO, bytes
  isActive,   \* per FIFO, whether it is in activeQ
  activeQ,    \* the FIFOs to serve, in turn
  nPackets,   \* packets in all FIFOs
  queuesize,  \* bytes in all FIFOs
  pending,    \* events of this queue in the event list
  arrived,    \* packets that have arrived
  marked      \* whether the last packet to leave got a congestion mark

vars == <<packets, credits, Qsize, isActive, activeQ, nPackets, queuesize,
          pending, arrived, marked>>

Queue == 0 .. N_QUEUE - 1

Init ==
  /\ packets = [q \in Queue |-> <<>>]
  /\ credits = [q \in Queue |-> 0] /\ Qsize = [q \in Queue |-> 0]
  /\ isActive = [q \in Queue |-> FALSE] /\ activeQ = <<>>
  /\ nPackets = 0 /\ queuesize = 0
  /\ pending = 0 /\ arrived = 0 /\ marked = FALSE

-----------------------------------------------------------------------------
hashFlow(f) == 7643 * f
FifoOf(f) == hashFlow(f) % N_QUEUE

(* beginService moves the first FIFO of the list to the back until the     *)
(* first one can pay.  After k moves the FIFO that was at position         *)
(* k % Len(active) is first and has had k \div Len(active) quanta.         *)
CanPay(k, active, credit, fifos) ==
  LET q == active[(k % Len(active)) + 1]
  IN  credit[q] + (k \div Len(active)) * QUANTUM >= Head(fifos[q]).size

Moves(active, credit, fifos) ==
  Min({k \in 0 .. Len(active) * MAXSIZE : CanPay(k, active, credit, fifos)})

Rotated(active, k) ==
  [i \in 1 .. Len(active) |-> active[((i - 1 + k) % Len(active)) + 1]]

(* Quanta that the FIFO at position i gets in k moves.                     *)
Quanta(i, active, k) == (k + Len(active) - i) \div Len(active)

(* Mutant of Credited: a FIFO that cannot pay goes back without credit.    *)
CreditedNot(credit, active, k) == credit

Credited(credit, active, k) ==
  [q \in Queue |->
     credit[q] + MapThenSumSet(LAMBDA i : Quanta(i, active, k) * QUANTUM,
                               {i \in 1 .. Len(active) : active[i] = q})]

(* For the lists, credits, FIFOs and events that a handler has left.       *)
beginService(active, credit, fifos, n, events) ==
  IF n > 0
  THEN LET k == Moves(active, credit, fifos)
       IN  /\ activeQ' = Rotated(active, k)
           /\ credits' = Credited(credit, active, k)
           /\ pending' = events + 1
  ELSE activeQ' = active /\ credits' = credit /\ pending' = events

(* Credit of FIFO q after it has sent p and has fifo left.                 *)
CreditLeft(q, p, fifo) == IF fifo = <<>> THEN 0 ELSE credits[q] - p.size

(* doNextEvent.                                                            *)
completeService ==
  LET q == Head(activeQ)
      p == Head(packets[q])
      empty == Tail(packets[q]) = <<>>
  IN  /\ pending > 0
      /\ packets' = [packets EXCEPT ![q] = Tail(@)]
      /\ Qsize' = [Qsize EXCEPT ![q] = @ - p.size]
      /\ queuesize' = queuesize - p.size
      /\ nPackets' = nPackets - 1
      /\ isActive' = [isActive EXCEPT ![q] = ~empty]
      /\ marked' = (queuesize' > ECN_TH)
      /\ beginService(IF empty THEN Tail(activeQ) ELSE activeQ,
                      [credits EXCEPT ![q] = CreditLeft(q, p, packets'[q])],
                      packets', nPackets', pending - 1)
      /\ UNCHANGED arrived

Fits(p) == queuesize + p.size <= MAXSIZE

receivePacketDrop(p) ==
  /\ ~Fits(p)
  /\ p \in Arriving(arrived)
  /\ arrived' = arrived + 1
  /\ UNCHANGED <<packets, credits, Qsize, isActive, activeQ, nPackets,
                 queuesize, pending, marked>>

receivePacket(p) ==
  LET q == FifoOf(p.flow)
      active == IF isActive[q] THEN activeQ ELSE Append(activeQ, q)
      credit == IF isActive[q] THEN credits ELSE [credits EXCEPT ![q] = QUANTUM]
  IN  /\ Fits(p)
      /\ p \in Arriving(arrived)
      /\ arrived' = arrived + 1
      /\ packets' = [packets EXCEPT ![q] = Append(@, p)]
      /\ Qsize' = [Qsize EXCEPT ![q] = @ + p.size]
      /\ queuesize' = queuesize + p.size
      /\ nPackets' = nPackets + 1
      /\ isActive' = [isActive EXCEPT ![q] = TRUE]
      /\ IF nPackets = 0
         THEN beginService(active, credit, packets', nPackets', pending)
         ELSE activeQ' = active /\ credits' = credit /\ UNCHANGED pending
      /\ UNCHANGED marked

Next ==
  \/ \E p \in Arriving(arrived) : receivePacket(p)
  \/ \E p \in Arriving(arrived) : receivePacketDrop(p)
  \/ completeService

Spec == Init /\ [][Next]_vars /\ WF_vars(completeService)

-----------------------------------------------------------------------------
Held == UNION {ToSet(packets[q]) : q \in Queue}

(* The counters agree with the packets, and the list has exactly the FIFOs *)
(* that have packets, each once: none is forgotten and none is served      *)
(* twice in a round.                                                       *)
CountersExact ==
  /\ queuesize = Bytes(Held) /\ nPackets = Cardinality(Held)
  /\ pending = IF Held = {} THEN 0 ELSE 1
  /\ \A q \in Queue :
       /\ Qsize[q] = Bytes(ToSet(packets[q]))
       /\ isActive[q] = (packets[q] # <<>>)
       /\ isActive[q] = (q \in ToSet(activeQ))
  /\ Cardinality(ToSet(activeQ)) = Len(activeQ)

(* Whatever arrives between the scheduling of a departure and the          *)
(* departure, the first FIFO can pay for its packet, so that the unsigned  *)
(* credit never goes below zero; and no FIFO hoards credit: it has less    *)
(* than one quantum and the largest packet, and nothing while it is empty. *)
CreditsInBounds ==
  /\ pending > 0 => credits[Head(activeQ)] >= Head(packets[Head(activeQ)]).size
  /\ \A q \in Queue :
       /\ credits[q] < QUANTUM + Max(Size)
       /\ packets[q] = <<>> => credits[q] = 0
=============================================================================
