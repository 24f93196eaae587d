----------------------------- MODULE MCTcpFlow -----------------------------
(***************************************************************************)
(* Instances of TcpFlow for TLC; the other constants are in the .cfg       *)
(* files.                                                                  *)
(***************************************************************************)
EXTENDS TcpFlow

(* DCTCP behind queues that keep the order, New Reno over several cores.   *)
MCModes == {[dctcp |-> TRUE, reorder |-> FALSE], [dctcp |-> FALSE, reorder |-> TRUE]}
MCNewReno == {[dctcp |-> FALSE, reorder |-> FALSE]}
=============================================================================
