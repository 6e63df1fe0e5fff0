------------------------------- MODULE OmsMC --------------------------------
(***************************************************************************)
(* A trader t with a limit order and a market order, whose limit an admin  *)
(* may lower, and a guest g whose order reuses the client id of t's first. *)
(***************************************************************************)
EXTENDS Oms, TLC

CONSTANTS o1, o2, o3, t, g, c1, c2

MCOwner    == o1 :> t @@ o2 :> t @@ o3 :> g
MCClientId == o1 :> c1 @@ o2 :> c2 @@ o3 :> c1
MCNotional == o1 :> 1 @@ o2 :> 0 @@ o3 :> 1
MCLimits   == t :> {1, 2} @@ g :> {1}

Kill(by, role, target, scope, reach) ==
  [issuedBy |-> by, issuedByRole |-> role, targetUserId |-> target,
   scope |-> scope, reach |-> reach]

MCCommands == {Kill(t, "trader", NoId, "all", Orders),
               Kill(t, "trader", g, "user", {}),
               Kill("breaker", "admin", t, "user", {})}
=============================================================================
