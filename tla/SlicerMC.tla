------------------------------ MODULE SlicerMC ------------------------------
(***************************************************************************)
(* One order a for VWAP and one order b for TWAP, or both for LIMIT.       *)
(***************************************************************************)
EXTENDS SlicerExecution, TLC

CONSTANTS a, b

MCQty == a :> 2
MCTwapQty == b :> 2
MCLimitQty == a :> 1 @@ b :> 1
MCNobody == <<>>
=============================================================================
