------------------------------ MODULE SniperMC ------------------------------
(***************************************************************************)
(* One order of two shares for SNIPER, on one venue or on two, or one of   *)
(* three shares for one of the others; two overlapping ticks of each       *)
(* process and one sweep.                                                  *)
(***************************************************************************)
EXTENDS SniperExecution, TLC

CONSTANTS a, b, t1, t2, p1, p2

MCQty == a :> 2
MCPacedQty == b :> 3
TickSymmetry == Permutations({t1, t2}) \cup Permutations({p1, p2})
=============================================================================
