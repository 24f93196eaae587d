---------------------------- MODULE OutputQueue ----------------------------
(***************************************************************************)
(* The queue in front of a link of the fat tree.  createQueue makes it of  *)
(* the type that the command line names: "fq" FairQueue, "afq"             *)
(* AprxFairQueue, "pq" PriorityQueue, "sfq" StocFairQueue, anything else   *)
(* (here "droptail") Queue.  "random" is RandomQueue, which offers the     *)
(* same interface and which no driver creates at present.  The types       *)
(* override receivePacket, beginService and completeService of Queue and   *)
(* all promise what LinkQueue says.                                        *)
(*                                                                         *)
(* A variable that a type does not have is NULL in a queue of that type.   *)
(***************************************************************************)
EXTENDS QueuePackets

CONSTANTS
  Traffic,        \* bound of the model: the packets that arrive, by type
  NULL, GARBAGE, UNINITIALISED,         \* of FairQueue and PriorityQueue
  N_HASH, N_BUCKET, AFQ_QUEUES, BYTES_PER_ROUND, ECN_MARK_ROUND,  \* AFQcfg
  SFQ_QUEUES, QUANTUM,                  \* of StocFairQueue
  RANDOM_DROP_TH                        \* of RandomQueue

VARIABLES
  qType,
  queuesize, pending, arrived, marked,  \* of every type
  enqueued,                             \* of Queue and RandomQueue
  packets, nPackets, currentPkt, Qsize, \* of several types
  flowRound, nActiveFlows, roundNumber, \* of FairQueue
  sketch, currQ, nRounds,               \* of AprxFairQueue
  credits, isActive, activeQ            \* of StocFairQueue

fifoVars == <<enqueued>>
lineVars == <<packets, nPackets, currentPkt, Qsize>>
fairVars == <<flowRound, nActiveFlows, roundNumber>>
afqVars == <<sketch, currQ, nRounds>>
sfqVars == <<credits, isActive, activeQ>>
vars == <<qType, queuesize, pending, arrived, marked, fifoVars, lineVars,
          fairVars, afqVars, sfqVars>>

-----------------------------------------------------------------------------
Droptail == INSTANCE FifoQueue WITH
  Flow <- Traffic["droptail"].flow, Key <- Traffic["droptail"].key,
  MAX_ARRIVALS <- Traffic["droptail"].arrivals, DROP_TH <- MAXSIZE, LOSSY <- FALSE

Random == INSTANCE FifoQueue WITH
  Flow <- Traffic["random"].flow, Key <- Traffic["random"].key,
  MAX_ARRIVALS <- Traffic["random"].arrivals, DROP_TH <- RANDOM_DROP_TH, LOSSY <- TRUE

Fq == INSTANCE FairQueue WITH
  Flow <- Traffic["fq"].flow, Key <- Traffic["fq"].key,
  MAX_ARRIVALS <- Traffic["fq"].arrivals

Pq == INSTANCE PriorityQueue WITH
  Flow <- Traffic["pq"].flow, Key <- Traffic["pq"].key,
  MAX_ARRIVALS <- Traffic["pq"].arrivals

Afq == INSTANCE AprxFairQueue WITH
  Flow <- Traffic["afq"].flow, Key <- Traffic["afq"].key,
  MAX_ARRIVALS <- Traffic["afq"].arrivals, N_QUEUE <- AFQ_QUEUES

Sfq == INSTANCE StocFairQueue WITH
  Flow <- Traffic["sfq"].flow, Key <- Traffic["sfq"].key,
  MAX_ARRIVALS <- Traffic["sfq"].arrivals, N_QUEUE <- SFQ_QUEUES

ASSUME OutputQueueAssumption ==
  /\ \A t \in DOMAIN Traffic :
       /\ Traffic[t].flow \subseteq Flow /\ Traffic[t].key \subseteq Key
       /\ Traffic[t].arrivals \in 0 .. MAX_ARRIVALS
  /\ Droptail!FifoAssumption /\ Random!FifoAssumption
  /\ Afq!AfqAssumption /\ Sfq!StocAssumption

-----------------------------------------------------------------------------
NotFair == flowRound = NULL /\ nActiveFlows = NULL /\ roundNumber = NULL
NotAfq == sketch = NULL /\ currQ = NULL /\ nRounds = NULL
NotSfq == credits = NULL /\ isActive = NULL /\ activeQ = NULL
NoLine == packets = NULL /\ nPackets = NULL /\ currentPkt = NULL /\ Qsize = NULL

(* The new queue.                                                          *)
createQueue ==
  \/ /\ qType = "fq" /\ Fq!Init
     /\ enqueued = NULL /\ Qsize = NULL /\ NotAfq /\ NotSfq
  \/ /\ qType = "afq" /\ Afq!Init
     /\ enqueued = NULL /\ currentPkt = NULL /\ NotFair /\ NotSfq
  \/ /\ qType = "pq" /\ Pq!Init
     /\ enqueued = NULL /\ nPackets = NULL /\ Qsize = NULL
     /\ NotFair /\ NotAfq /\ NotSfq
  \/ /\ qType = "sfq" /\ Sfq!Init
     /\ enqueued = NULL /\ currentPkt = NULL /\ NotFair /\ NotAfq
  \/ /\ qType = "droptail" /\ Droptail!Init
     /\ NoLine /\ NotFair /\ NotAfq /\ NotSfq
  \/ /\ qType = "random" /\ Random!Init
     /\ NoLine /\ NotFair /\ NotAfq /\ NotSfq

(* The handlers of the type of the queue, and the variables it lacks.      *)
Lacks(t) ==
  /\ qType = t /\ UNCHANGED qType
  /\ t \notin {"droptail", "random"} => UNCHANGED enqueued
  /\ t \in {"droptail", "random"} => UNCHANGED lineVars
  /\ t = "pq" => UNCHANGED nPackets
  /\ t \notin {"fq", "pq"} => UNCHANGED currentPkt
  /\ t \notin {"afq", "sfq"} => UNCHANGED Qsize
  /\ t # "fq" => UNCHANGED fairVars
  /\ t # "afq" => UNCHANGED afqVars
  /\ t # "sfq" => UNCHANGED sfqVars

receivePacket ==
  \/ Lacks("fq") /\ \E p \in Fq!Arriving(arrived) : Fq!receivePacket(p)
  \/ Lacks("afq") /\ \E p \in Afq!Arriving(arrived) : Afq!receivePacket(p)
  \/ Lacks("afq") /\ \E p \in Afq!Arriving(arrived) : Afq!receivePacketDrop(p)
  \/ Lacks("pq") /\ \E p \in Pq!Arriving(arrived) : Pq!receivePacket(p)
  \/ Lacks("sfq") /\ \E p \in Sfq!Arriving(arrived) : Sfq!receivePacket(p)
  \/ Lacks("sfq") /\ \E p \in Sfq!Arriving(arrived) : Sfq!receivePacketDrop(p)
  \/ Lacks("droptail") /\ \E p \in Droptail!Arriving(arrived) : Droptail!receivePacket(p)
  \/ Lacks("droptail") /\ \E p \in Droptail!Arriving(arrived) : Droptail!receivePacketDrop(p)
  \/ Lacks("random") /\ \E p \in Random!Arriving(arrived) : Random!receivePacket(p)
  \/ Lacks("random") /\ \E p \in Random!Arriving(arrived) : Random!receivePacketDrop(p)

completeService ==
  \/ Lacks("fq") /\ Fq!completeService
  \/ Lacks("afq") /\ Afq!completeService
  \/ Lacks("pq") /\ Pq!completeService
  \/ Lacks("sfq") /\ Sfq!completeService
  \/ Lacks("droptail") /\ Droptail!completeService
  \/ Lacks("random") /\ Random!completeService

Next == receivePacket \/ completeService

Spec == createQueue /\ [][Next]_vars /\ WF_vars(completeService)

-----------------------------------------------------------------------------
Held ==
  CASE qType = "fq" -> Fq!Held
    [] qType = "afq" -> Afq!Held
    [] qType = "pq" -> Pq!Held
    [] qType = "sfq" -> Sfq!Held
    [] OTHER -> Droptail!Held

(* The packets among which a queue of type t keeps the order.              *)
Class(t, p) ==
  CASE t \in {"fq", "afq"} -> p.flow
    [] t = "pq" -> p.key
    [] t = "sfq" -> Sfq!FifoOf(p.flow)
    [] OTHER -> 0

Link == INSTANCE LinkQueue WITH held <- Held, EarlyDrop <- {"afq", "random"}

(* A queue of any type keeps the promise of a link queue: bounded, in      *)
(* order of arrival within a flow, a priority, a FIFO or as a whole, drops *)
(* from the end of a class, only when full unless the type is meant to     *)
(* drop early, and always served.                                          *)
ImplementsLinkQueue == Link!LinkSpec

(* The counters that the handlers keep by hand agree with the packets held *)
(* after any mix of arrivals, drops and departures, and a departure is     *)
(* pending exactly when the queue has a packet, never two.                 *)
CountersExact ==
  CASE qType = "fq" -> Fq!CountersExact
    [] qType = "afq" -> Afq!CountersExact
    [] qType = "pq" -> Pq!CountersExact
    [] qType = "sfq" -> Sfq!CountersExact
    [] qType = "droptail" -> Droptail!CountersExact
    [] qType = "random" -> Random!CountersExact

(* Fairness of a FairQueue: a packet waits for the backlog of its own flow *)
(* and not for that of the others, counted in rounds.                      *)
OwnBacklogOnly == qType = "fq" => Fq!OwnBacklogOnly

(* A PriorityQueue drops the least urgent packets and serves the most      *)
(* urgent one, whatever arrives while the link is busy.                    *)
UrgentFirst == [][qType = "pq" => Pq!UrgentStep]_vars

(* The sketch of an AprxFairQueue is never behind a packet that is held,   *)
(* so that the unsigned difference on departure does not wrap.             *)
EstimateCoversRound == qType = "afq" => Afq!EstimateCoversRound

(* Fairness of an AprxFairQueue: the share of a flow in one round is       *)
(* bounded, however flows collide in the sketch.                           *)
RoundShare == qType = "afq" => Afq!RoundShare

(* An AprxFairQueue that has drained accepts every flow again.             *)
IdleAccepts == qType = "afq" => Afq!IdleAccepts

(* Fairness of a StocFairQueue: a FIFO can pay for the packet in service,  *)
(* and none hoards credit.                                                 *)
CreditsInBounds == qType = "sfq" => Sfq!CreditsInBounds

(* Said of _currentPkt of FairQueue and PriorityQueue: it is the packet    *)
(* being serviced, so that packets that wait behind it wait for a          *)
(* departure that is scheduled.                                            *)
CurrentIsServiced ==
  qType \in {"fq", "pq"} /\ packets # <<>> => pending > 0
=============================================================================
