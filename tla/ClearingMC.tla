------------------------------ MODULE ClearingMC ------------------------------
(***************************************************************************)
(* A bond order with two dealers and a POST, or two fills of the venues    *)
(* for the same user, and a sell-side request with two handlers.           *)
(***************************************************************************)
EXTENDS Clearing, TLC

CONSTANTS b, e, f, d1, d2, u, p1, q1, q2, s1, h1, h2

MCRank == d1 :> 1 @@ d2 :> 2
MCUserOf == b :> u @@ e :> u @@ f :> u
MCMargin == b :> 1 @@ e :> 1 @@ f :> 2
MCSigned == b :> 1 @@ e :> 1 @@ f :> -2
MCDueDay == b :> 1 @@ e :> 0 @@ f :> 1
=============================================================================
