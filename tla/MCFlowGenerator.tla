-------------------------- MODULE MCFlowGenerator --------------------------
(***************************************************************************)
(* Instances of FlowGenerator for TLC.  The trace has two flows at one     *)
(* time, one at the end and one after it.                                  *)
(***************************************************************************)
EXTENDS FlowGenerator

MCTrace == <<1, 1, 2, 4, 5, 6>>
=============================================================================
