------------------------------ MODULE MCConga ------------------------------
(***************************************************************************)
(* Instance of Conga for TLC: one flow between two leaves, its data and    *)
(* its acks.                                                               *)
(***************************************************************************)
EXTENDS Conga, TLC

CONSTANTS leaf1, leaf2, fwd, rev

OneFlowSrc == (fwd :> leaf1) @@ (rev :> leaf2)
OneFlowDst == (fwd :> leaf2) @@ (rev :> leaf1)
=============================================================================
