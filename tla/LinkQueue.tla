----------------------------- MODULE LinkQueue -----------------------------
(***************************************************************************)
(* What a queue in front of a link promises, whatever its type: it never   *)
(* holds more than MAXSIZE bytes; packets of one class leave in the order  *)
(* in which they arrived; when packets must go, the last ones of their     *)
(* class go; and as long as packets are held, packets depart.              *)
(***************************************************************************)
EXTENDS QueuePackets

CONSTANTS
  Class(_, _),  \* the class of a packet in a queue of a type
  EarlyDrop     \* the types that may drop packets though there is room

VARIABLES
  qType,   \* the type of the queue
  held,    \* packets in the queue, the one in service included
  arrived  \* how many packets have arrived

LinkVars == <<qType, held, arrived>>

LinkInit == held = {} /\ arrived = 0

SameClass(p, q) == Class(qType, p) = Class(qType, q)

(* The packets out are the last of their classes in S.                     *)
LastOfClass(out, S) ==
  \A p \in out, q \in S : SameClass(p, q) /\ q.n > p.n => q \in out

(* A packet arrives and the packets out, itself perhaps, are dropped.      *)
Arrive(p) ==
  LET S == held \cup {p}
  IN  /\ arrived' = arrived + 1
      /\ \E out \in SUBSET S :
           /\ out # {} => qType \in EarlyDrop \/ Bytes(S) > MAXSIZE
           /\ LastOfClass(out, S)
           /\ Bytes(S \ out) <= MAXSIZE
           /\ held' = S \ out
      /\ UNCHANGED qType

Depart(p) ==
  /\ \A q \in held : SameClass(p, q) => p.n <= q.n
  /\ held' = held \ {p}
  /\ UNCHANGED <<qType, arrived>>

Departure == \E p \in held : Depart(p)

LinkNext == Departure \/ \E p \in Arriving(arrived) : Arrive(p)

LinkSpec == LinkInit /\ [][LinkNext]_LinkVars /\ WF_LinkVars(Departure)
=============================================================================
