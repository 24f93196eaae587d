----------------------------- MODULE MCRateFlow -----------------------------
(***************************************************************************)
(* Instances of RateFlow for TLC.  A tick is a tenth of a microsecond and  *)
(* SERVICE that of 1500 bytes at 10 Gbit/s; the timeouts are scaled down.  *)
(***************************************************************************)
EXTENDS RateFlow

MCDelay == <<10, 10>>
=============================================================================
