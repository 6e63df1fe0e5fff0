------------------------------- MODULE SellSide -----------------------------
(***************************************************************************)
(* The sell-side workflow of the RFQ service (rfq/rfq-service.ts and       *)
(* rfq/sellside-transitions.ts): a client asks, sales routes the request   *)
(* to dealers and marks the price up, the client confirms, and either side *)
(* may reject on the way.  PUT handlers overlap: each looks the record up, *)
(* awaits its body, then checks and changes the record in one stretch.     *)
(*                                                                         *)
(* Left out: prices, and the updates for the screen, which only take time. *)
(***************************************************************************)
EXTENDS Naturals

CONSTANTS SellSideRfqs, \* requests clients may submit
          Puts,         \* PUT requests being handled at once
          Nobody

ASSUME SellSideAssumption == Nobody \notin SellSideRfqs

SellSideActions == {"route", "markup", "confirm", "reject"}

VARIABLES
  sellSide,  \* per request its state, or "none"
  puts,      \* the PUT handlers
  newOrders  \* history: how often an orders.new was sent for a request

sellSideVars == <<sellSide, puts, newOrders>>

NoPut == [rfq |-> Nobody, action |-> "none"]

SellSideInit ==
  /\ sellSide = [s \in SellSideRfqs |-> "none"]
  /\ puts = [h \in Puts |-> NoPut]
  /\ newOrders = [s \in SellSideRfqs |-> 0]

SubmitSellSide(s) ==
  /\ sellSide[s] = "none"
  /\ sellSide' = [sellSide EXCEPT ![s] = "CLIENT_REQUEST"]
  /\ UNCHANGED <<puts, newOrders>>

(* A PUT finds the record and awaits its body.                             *)
ReceivePut(h, s, action) ==
  /\ puts[h] = NoPut
  /\ sellSide[s] # "none"
  /\ puts' = [puts EXCEPT ![h] = [rfq |-> s, action |-> action]]
  /\ UNCHANGED <<sellSide, newOrders>>

(* Mutant: anything may still be rejected.                                 *)
CheckSellSideTransitionLax(action, state) ==
  \/ action = "route" /\ state = "CLIENT_REQUEST"
  \/ action = "markup" /\ state = "SALES_MARKUP"
  \/ action = "confirm" /\ state = "CLIENT_CONFIRMATION"
  \/ action = "reject"

CheckSellSideTransition(action, state) ==
  \/ action = "route" /\ state = "CLIENT_REQUEST"
  \/ action = "markup" /\ state = "SALES_MARKUP"
  \/ action = "confirm" /\ state = "CLIENT_CONFIRMATION"
  \/ action = "reject" /\ state \notin {"CONFIRMED", "REJECTED"}

StateAfter == [route |-> "SALES_MARKUP", markup |-> "CLIENT_CONFIRMATION",
               confirm |-> "CONFIRMED", reject |-> "REJECTED"]

(* The body is there.  It is refused when it does not fit the state, or    *)
(* comes from somebody else (`allowed').  A confirmation goes on with the  *)
(* order after the update of the screen.                                   *)
ApplyPut(h) ==
  LET s == puts[h].rfq
      action == puts[h].action
  IN /\ action \in SellSideActions
     /\ \E allowed \in (IF action = "reject" THEN {TRUE} ELSE BOOLEAN) :
          IF allowed /\ CheckSellSideTransition(action, sellSide[s])
          THEN /\ sellSide' = [sellSide EXCEPT ![s] = StateAfter[action]]
               /\ puts' = [puts EXCEPT ![h] =
                             IF action = "confirm" THEN [@ EXCEPT !.action = "ordering"]
                             ELSE NoPut]
          ELSE puts' = [puts EXCEPT ![h] = NoPut] /\ UNCHANGED sellSide
     /\ UNCHANGED newOrders

(* The confirmed request becomes a client order.                           *)
SendNewOrder(h) ==
  /\ puts[h].action = "ordering"
  /\ newOrders' = [newOrders EXCEPT ![puts[h].rfq] = @ + 1]
  /\ puts' = [puts EXCEPT ![h] = NoPut]
  /\ UNCHANGED sellSide

SellSideStep ==
  \/ \E h \in Puts, s \in SellSideRfqs, action \in SellSideActions : ReceivePut(h, s, action)
  \/ \E h \in Puts : ApplyPut(h) \/ SendNewOrder(h)
=============================================================================
