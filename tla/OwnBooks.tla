------------------------------- MODULE OwnBooks -----------------------------
(***************************************************************************)
(* What SNIPER, IS, ARRIVAL_PRICE and MOMENTUM share: they keep the books  *)
(* of their orders themselves, out of orders.filled, and drop the orders   *)
(* whose time is over in the tick loop and in startExpirySweep             *)
(* (algo/common-http.ts).                                                  *)
(***************************************************************************)
EXTENDS Naturals, Sequences, SequencesExt, OrderBus

CONSTANTS Lifetime,   \* expiresAt of a routed order, from its arrival
          MaxClock,   \* bound of the clock
          None        \* no order

ASSUME ClockAssumption == Lifetime \in Nat \ {0} /\ MaxClock \in Nat

VARIABLE clock        \* Date.now()

Smaller(a, b) == IF a <= b THEN a ELSE b
Larger(a, b) == IF a >= b THEN a ELSE b

(* Math.max(0, a - b)                                                      *)
Less(a, b) == IF a >= b THEN a - b ELSE 0

Child(o, n, q, h) ==
  [topic |-> "orders.child", order |-> o, slice |-> n, qty |-> q, by |-> h]
Report(topic, o, h) == [topic |-> topic, order |-> o, slice |-> 0, qty |-> 0, by |-> h]

Advance ==
  /\ clock < MaxClock
  /\ clock' = clock + 1
  /\ UNCHANGED <<sending, bus>>
=============================================================================
