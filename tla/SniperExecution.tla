--------------------------- MODULE SniperExecution --------------------------
(***************************************************************************)
(* The algorithms that keep their own books: SNIPER, and one of IS,        *)
(* ARRIVAL_PRICE and MOMENTUM, with the EMS and the bus between them.      *)
(***************************************************************************)
EXTENDS Sniper, Paced, Ems

(* An algorithm takes the orders of its own strategy.                      *)
ASSUME OneStrategy == Orders \cap PacedOrders = {} /\ Callbacks \cap PacedCallbacks = {}

vars == <<clock, sniperVars, pacedVars, sending, bus, executed>>

AllOrders == Orders \cup PacedOrders

Init == /\ clock = 0
        /\ SniperInit
        /\ PacedInit
        /\ BusInit
        /\ executed = [o \in AllOrders |-> 0]

(* Bound: the orders of a behaviour all go to SNIPER or all to the other.  *)
(* The two processes share nothing but the bus.                            *)
Sniping ==
  \/ (\A p \in PacedOrders : book[p] = NoBook) /\ \E o \in Orders : RoutedOrder(o)
  \/ \E h \in Ticks : OnTick(h)
  \/ \E h \in Sweeps : ExpirySweep(h)
  \/ \E h \in Callbacks : Resume(h)
  \/ \E m \in bus : FillEvent(m)
  \/ Settle

Pacing ==
  \/ routed = {} /\ \E o \in PacedOrders : PacedRouted(o)
  \/ \E h \in PacedTicks : PacedTick(h)
  \/ PacedSweeps
  \/ \E h \in PacedCallbacks : PacedResume(h)
  \/ \E m \in bus : PacedFill(m)
  \/ PacedSettle

Next == \/ Sniping /\ UNCHANGED <<pacedVars, executed>>
        \/ Pacing /\ UNCHANGED <<sniperVars, executed>>
        \/ \E m \in bus : HandleChildOrder(m) /\ UNCHANGED <<clock, sniperVars, pacedVars>>
        \/ Advance /\ UNCHANGED <<sniperVars, pacedVars, executed>>

Spec == Init /\ [][Next]_vars

-----------------------------------------------------------------------------
(* The child orders and fills of o under way, in a producer or on a topic. *)
UnderWay(o) == {m \in sending \cup bus :
                  m.order = o /\ m.topic \in {"orders.child", "orders.filled"}}

QtyOf(m) == m.qty
Quantity(messages) == MapThenSumSet(QtyOf, messages)

Awaited(o, topic) == Quantity({m \in UnderWay(o) : m.topic = topic})

Message == [topic : {"orders.child", "orders.filled", "orders.expired", "algo.heartbeat"},
            order : AllOrders, slice : Nat, qty : Nat, by : Callbacks \cup PacedCallbacks]

SniperRun == [now : Nat, todo : Seq(Orders), priced : SUBSET Orders, triggered : SUBSET Orders,
        order : Orders \cup {None}, venues : 0 .. 3, available : Nat, share : Nat,
        dispatched : Nat, qty : Nat, failed : BOOLEAN]

PacedRun == [now : Nat, todo : Seq(PacedOrders),
             view : UNION {[D -> {"unpriced", "adverse", "level", "favourable", "swept"}] :
                             D \in SUBSET PacedOrders},
             order : PacedOrders \cup {None}, next : {"orders", "slice", "heartbeat"}]

TypeOK ==
  /\ clock \in 0 .. MaxClock
  /\ routed \subseteq Orders
  /\ activeOrders \in Seq(Orders)
  /\ totalRemaining \in [Orders -> Nat]
  /\ inFlightQty \in [Orders -> Nat]
  /\ filledQty \in [Orders -> Nat]
  /\ sliceCount \in [Orders -> Nat]
  /\ cooldownUntil \in [Orders -> Nat]
  /\ expiresAt \in [Orders -> Nat]
  /\ maxVenues \in [Orders -> 1..3]
  /\ loop \in [Callbacks -> SniperRun]
  /\ overlapped \subseteq Orders
  /\ unbooked \in [Orders -> Nat]
  /\ sending \subseteq Message
  /\ bus \subseteq Message
  /\ executed \in [AllOrders -> Nat]
  /\ strategy \in Strategies
  /\ queue \in Seq(PacedOrders)
  /\ book \in [PacedOrders ->
               [remaining : Nat, filled : Nat, slices : Nat, lastSliceAt : Nat,
                expiresAt : Nat, paused : BOOLEAN, ticksSeen : 0 .. LongPeriod,
                cooldown : 0 .. CooldownTicks]]
  /\ paceLoop \in [PacedCallbacks -> PacedRun]
  /\ unanswered \subseteq PacedOrders

(* Every share of a working order that is on its way to the EMS or back is *)
(* still reserved in inFlightQty, whichever invocation sent it and however *)
(* its acknowledgement, its fill and the rejections of other sends are     *)
(* ordered.  What is missing is never more than the children whose send    *)
(* was rejected after the broker had them: the release of their            *)
(* reservation (sniper-strategy.ts:264), and their fill, which releases    *)
(* the same shares again, cost no other child its own.                     *)
InFlightCovers ==
  \A o \in Working : Quantity(UnderWay(o)) <= inFlightQty[o] + unbooked[o]

(* What the books of a working order say was filled is what the EMS has    *)
(* executed, less the fills still on their way.                            *)
BooksMatchEms ==
  /\ \A o \in Working : filledQty[o] + Awaited(o, "orders.filled") = executed[o]
  /\ \A o \in Queued : book[o].filled + Awaited(o, "orders.filled") = executed[o]

(* sniper-math.ts:1 calls the available quantity "not already committed to *)
(* child orders and therefore safe to route": what the children of a       *)
(* working order can come to is no more than the order.                    *)
SafeToRoute ==
  \A o \in Working : executed[o] + Awaited(o, "orders.child") <= Qty[o]

(* It is, but for two causes: two invocations in a round of the same order *)
(* at the same time, and a send that is rejected although the broker has   *)
(* the child.  Without the first, an order exceeds its quantity by no more *)
(* than the children of the second: no lost send, no fill between two      *)
(* venues or before the answer to its child, and no order that expires in  *)
(* the middle of a round makes SNIPER route any other share twice.         *)
OvercommitBounded ==
  \A o \in Working : o \notin overlapped =>
    /\ inFlightQty[o] <= totalRemaining[o] + unbooked[o]
    /\ executed[o] + Awaited(o, "orders.child") <= Qty[o] + unbooked[o]

(* IS never sends more than the order's quantity, whatever its ticks and   *)
(* answers overlap: the schedule is "normalised to sum to totalQty"        *)
(* (is-strategy.ts:9) and no slice of it is sent twice.  ARRIVAL_PRICE and *)
(* MOMENTUM size a child by what remains, and send too much only by a      *)
(* child sent while another was unanswered, or by a tick that still holds  *)
(* an order that was dropped.                                              *)
OverfillNeedsOverlap ==
  \A o \in PacedOrders :
    strategy = "IS" \/ o \notin unanswered
      => executed[o] + Awaited(o, "orders.child") <= PacedQty[o]
=============================================================================
