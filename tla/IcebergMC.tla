------------------------------ MODULE IcebergMC -----------------------------
(***************************************************************************)
(* Two parent orders: a of two shares, shown all at once or one by one as  *)
(* the depth cap has it, and b of one.                                     *)
(***************************************************************************)
EXTENDS IcebergExecution, TLC

CONSTANTS a, b

MCQty        == a :> 2 @@ b :> 1
MCVisibleQty == a :> 2 @@ b :> 1
=============================================================================
