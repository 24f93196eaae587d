------------------------------- MODULE MCPipeLine ---------------------------
(***************************************************************************)
(* Instances of PipeLine for TLC: three pipes, one of them without delay.  *)
(***************************************************************************)
EXTENDS PipeLine

MCDelay == <<3, 0, 2>>
=============================================================================
