---------------------------- MODULE OmsDarkPoolMC ---------------------------
(***************************************************************************)
(* The two services that hold orders before an algorithm or the market     *)
(* sees them.  They are two processes and share no state: an order the OMS *)
(* routes to DARK1 is an input of the dark pool like any other, and what   *)
(* the pool says of it is not read by the OMS.                             *)
(***************************************************************************)
EXTENDS OmsMC, DarkPoolMC

BothInit == Init /\ PoolInit

(* Bound: a behaviour exercises one of the two services, so that one run   *)
(* checks each of them whole; and so the pool does not start over for      *)
(* every state an unused OMS may be in.                                    *)
PoolUnused == admitted = {}
OmsUnused == /\ \A m \in Orders : phase[m] = "new"
             /\ \A u \in Users : \A l \in Limits[u] : l <= userLimit[u]
             /\ today = 1 /\ cancelled = {}

BothNext == \/ PoolUnused /\ Next /\ UNCHANGED poolVars
            \/ OmsUnused /\ PoolNext /\ UNCHANGED vars

BothSpec == BothInit /\ [][BothNext]_<<vars, poolVars>>
=============================================================================
