-------------------------------- MODULE Ems ---------------------------------
(***************************************************************************)
(* The execution management system (ems/ems-server.ts): it answers every   *)
(* child order at once with at most one fill, and keeps nothing of the     *)
(* quantity it could not fill.  It has no state of its own; executed is    *)
(* what it has told the rest of the platform it executed.                  *)
(*                                                                         *)
(* How much of the child the venue books give is left open here.           *)
(***************************************************************************)
EXTENDS Naturals, OrderBus

VARIABLE executed

Fill(c, q) == [topic |-> "orders.filled", order |-> c.order, slice |-> c.slice,
               qty |-> q, by |-> c.by]

(* Mutants: the fill reports requestedQty; the remainder of a partly       *)
(* filled child stays at the venue.                                        *)
HandleChildOrderRequested(c) ==
  /\ c \in bus
  /\ c.topic = "orders.child"
  /\ \E q \in 0..c.qty :
       /\ bus' = (bus \ {c}) \cup {Fill(c, c.qty)}
       /\ executed' = [executed EXCEPT ![c.order] = @ + q]
  /\ UNCHANGED sending
HandleChildOrderResting(c) ==
  /\ c \in bus
  /\ c.topic = "orders.child"
  /\ \E q \in 1..c.qty :
       /\ bus' = (bus \ {c}) \cup {Fill(c, q)} \cup
                   IF q < c.qty THEN {[c EXCEPT !.qty = @ - q]} ELSE {}
       /\ executed' = [executed EXCEPT ![c.order] = @ + q]
  /\ UNCHANGED sending

(* No fill is published when the asset has no price, when nothing crosses  *)
(* the child's limit (filledQty = 0), or when the send of the fill fails,  *)
(* which the handler swallows.                                             *)
HandleChildOrder(c) ==
  /\ c \in bus
  /\ c.topic = "orders.child"
  /\ \/ \E q \in 1..c.qty :
          /\ bus' = (bus \ {c}) \cup {Fill(c, q)}
          /\ executed' = [executed EXCEPT ![c.order] = @ + q]
     \/ /\ bus' = bus \ {c}
        /\ UNCHANGED executed
  /\ UNCHANGED sending
=============================================================================
