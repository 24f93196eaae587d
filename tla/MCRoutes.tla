------------------------------ MODULE MCRoutes ------------------------------
(***************************************************************************)
(* Instances of Routes for TLC; the constants are in the .cfg file.        *)
(***************************************************************************)
EXTENDS Routes
=============================================================================
