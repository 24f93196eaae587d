--------------------------- MODULE MCOutputQueue ---------------------------
(***************************************************************************)
(* OutputQueue for TLC.  Packets have several flows or keys only where the *)
(* type of the queue reads them.  Flows 1 and 3 share a column of the      *)
(* sketch and a FIFO of the stochastic fair queue.                         *)
(***************************************************************************)
EXTENDS OutputQueue

MCTraffic ==
  [droptail |-> [flow |-> {1}, key |-> {0}, arrivals |-> 6],
   random   |-> [flow |-> {1}, key |-> {0}, arrivals |-> 6],
   fq       |-> [flow |-> {1, 2}, key |-> {1, 2}, arrivals |-> 5],
   pq       |-> [flow |-> {1}, key |-> {1, 2, 3}, arrivals |-> 5],
   afq      |-> [flow |-> {1, 2, 3}, key |-> {0}, arrivals |-> 6],
   sfq      |-> [flow |-> {1, 2, 3}, key |-> {0}, arrivals |-> 6]]
=============================================================================
