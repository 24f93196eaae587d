-------------------------- MODULE MCSlidingWindow --------------------------
(***************************************************************************)
(* Instances of SlidingWindow for TLC; the constants are in the .cfg       *)
(* files.                                                                  *)
(***************************************************************************)
EXTENDS SlidingWindow
=============================================================================
