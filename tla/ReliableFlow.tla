---------------------------- MODULE ReliableFlow ----------------------------
(***************************************************************************)
(* What every end host of the simulator promises of a flow, whatever its   *)
(* congestion control: the source is told that the flow is finished only   *)
(* after the sink has all of it, sends nothing from then on, and deletes   *)
(* the flow's objects once, when no packet points to them any more.        *)
(***************************************************************************)
EXTENDS Naturals

CONSTANT FLOWSIZE  \* bytes to transfer

VARIABLES
  phase,      \* of the source
  delivered,  \* bytes the sink has in sequence
  packets     \* packets of the flow that are allocated

vars == <<phase, delivered, packets>>

Init == phase = "idle" /\ delivered = 0 /\ packets = 0

Start ==
  /\ phase = "idle" /\ phase' = "running"
  /\ packets' \in Nat
  /\ UNCHANGED delivered

(* Packets are sent, forwarded and lost.                                   *)
Send ==
  /\ phase = "running"
  /\ packets' \in Nat
  /\ UNCHANGED <<phase, delivered>>

(* A segment that closes the gap arrives and is acked, or the ack is lost. *)
Deliver ==
  /\ phase = "running"
  /\ packets > 0 /\ packets' \in {packets - 1, packets}
  /\ delivered' > delivered
  /\ UNCHANGED phase

(* An ack arrives that says so.                                            *)
Finish ==
  /\ phase = "running" /\ phase' = "finished"
  /\ delivered >= FLOWSIZE
  /\ packets' < packets
  /\ UNCHANGED delivered

Drain ==
  /\ phase = "finished"
  /\ packets' \in Nat /\ packets' <= packets
  /\ UNCHANGED <<phase, delivered>>

Delete ==
  /\ phase = "finished" /\ phase' = "deleted"
  /\ packets = 0
  /\ UNCHANGED <<delivered, packets>>

Next == Start \/ Send \/ Deliver \/ Finish \/ Drain \/ Delete

Spec == Init /\ [][Next]_vars
=============================================================================
