------------------------------- MODULE Iceberg -------------------------------
(***************************************************************************)
(* The ICEBERG algorithm (algo/iceberg-strategy.ts with the expiry sweep   *)
(* of algo/common-http.ts): one visible slice of a parent order at a time. *)
(*                                                                         *)
(* One action is one uninterrupted stretch of JavaScript.  A market tick   *)
(* starts an invocation of the onTick callback; the market client does not *)
(* wait for it, so several invocations can be suspended at once.  Each     *)
(* walks a snapshot of activeOrders taken when it started, with the tick's *)
(* prices and the `now' of that moment, and suspends at every `await       *)
(* producer.send'.  The 5 second expiry sweep has the same shape.          *)
(*                                                                         *)
(* Left out: costBasis and prices (a tick says only which orders are       *)
(* triggered), algo.heartbeat telemetry, orders refused for want of a      *)
(* limit price (they change nothing).                                      *)
(***************************************************************************)
EXTENDS Naturals, OrderBus

CONSTANTS Orders,      \* parent orders the OMS may route to ICEBERG
          Qty,         \* order.quantity
          VisibleQty,  \* algoParams.visibleQty, at least 1
          Ticks,       \* onTick invocations that can be suspended at once
          Sweeps,      \* expiry sweep invocations that can
          DepthCaps    \* values depthSliceCap takes

ASSUME OrdersAssumption ==
  /\ Qty \in [Orders -> Nat \ {0}]
  /\ VisibleQty \in [Orders -> Nat \ {0}]
ASSUME DepthAssumption == DepthCaps \subseteq Nat \ {0}
ASSUME CallbacksAssumption == Ticks \cap Sweeps = {}

Callbacks == Ticks \cup Sweeps

VARIABLES
  routed,           \* orders whose orders.routed message was handled
  ahead,            \* per order, those the map iterates over before it
  activeOrders,     \* the map of working orders
  totalRemaining,   \* the fields of ActiveIceberg, per order; an order that
  currentSliceQty,  \*   left the map keeps them, for the callbacks that
  sliceInFlight,    \*   still hold the object
  filledQty,
  sliceCount,
  elapsed,          \* orders with now >= expiresAt
  loop              \* per callback, what is left of the loop it is in

algoVars == <<routed, ahead, activeOrders, totalRemaining, currentSliceQty,
              sliceInFlight, filledQty, sliceCount, elapsed, loop>>
orderVars == <<totalRemaining, currentSliceQty, filledQty>>

Lesser(a, b) == IF a <= b THEN a ELSE b

(* Messages carry what the receivers use.  slice numbers the child order   *)
(* (childId); by names the handler invocation that awaits the send.        *)
Child(o, n, q, h) ==
  [topic |-> "orders.child", order |-> o, slice |-> n, qty |-> q, by |-> h]
Expired(o, h) ==
  [topic |-> "orders.expired", order |-> o, slice |-> 0,
   qty |-> filledQty[o], by |-> h]

Idle == [todo |-> {}, due |-> {}, triggered |-> {}]

AlgoInit ==
  /\ routed = {}
  /\ ahead = [o \in Orders |-> {}]
  /\ activeOrders = {}
  /\ totalRemaining = [o \in Orders |-> 0]
  /\ currentSliceQty = [o \in Orders |-> 0]
  /\ sliceInFlight = [o \in Orders |-> FALSE]
  /\ filledQty = [o \in Orders |-> 0]
  /\ sliceCount = [o \in Orders |-> 0]
  /\ elapsed = {}
  /\ loop = [h \in Callbacks |-> Idle]

-----------------------------------------------------------------------------
(* The orders.routed consumer queues the order.  A JavaScript Map iterates *)
(* in the order of insertion.                                              *)
RoutedOrder(o) ==
  /\ o \notin routed
  /\ routed' = routed \cup {o}
  /\ ahead' = [ahead EXCEPT ![o] = routed]
  /\ activeOrders' = activeOrders \cup {o}
  /\ totalRemaining' = [totalRemaining EXCEPT ![o] = Qty[o]]
  /\ currentSliceQty' = [currentSliceQty EXCEPT ![o] = Lesser(VisibleQty[o], Qty[o])]
  /\ UNCHANGED <<sliceInFlight, filledQty, sliceCount, elapsed, loop, sending, bus>>

(* Mutants: the next slice keeps the size of the last one; the remaining   *)
(* quantity is not clamped and the completed order stays in the map.       *)
BookFillOldSlice(o, qty) ==
  LET left == IF qty >= totalRemaining[o] THEN 0 ELSE totalRemaining[o] - qty
  IN /\ filledQty' = [filledQty EXCEPT ![o] = @ + qty]
     /\ totalRemaining' = [totalRemaining EXCEPT ![o] = left]
     /\ sliceInFlight' = [sliceInFlight EXCEPT ![o] = FALSE]
     /\ activeOrders' = IF left = 0 THEN activeOrders \ {o} ELSE activeOrders
     /\ UNCHANGED currentSliceQty
BookFillUnclamped(o, qty) ==
  /\ filledQty' = [filledQty EXCEPT ![o] = @ + qty]
  /\ totalRemaining' = [totalRemaining EXCEPT ![o] = @ - qty]
  /\ sliceInFlight' = [sliceInFlight EXCEPT ![o] = FALSE]
  /\ UNCHANGED <<activeOrders, currentSliceQty>>

(* A fill of qty shares is taken off the books of order o, which leaves    *)
(* the map when nothing remains.                                           *)
BookFill(o, qty) ==
  LET left == IF qty >= totalRemaining[o] THEN 0 ELSE totalRemaining[o] - qty
  IN /\ filledQty' = [filledQty EXCEPT ![o] = @ + qty]
     /\ totalRemaining' = [totalRemaining EXCEPT ![o] = left]
     /\ sliceInFlight' = [sliceInFlight EXCEPT ![o] = FALSE]
     /\ IF left = 0
        THEN /\ activeOrders' = activeOrders \ {o}
             /\ UNCHANGED currentSliceQty
        ELSE /\ currentSliceQty' =
                  [currentSliceQty EXCEPT ![o] = Lesser(VisibleQty[o], left)]
             /\ UNCHANGED activeOrders

(* The orders.filled consumer.  A fill for an order no longer in the map   *)
(* is ignored.                                                             *)
FillEvent(m) ==
  /\ m \in bus
  /\ m.topic = "orders.filled"
  /\ bus' = bus \ {m}
  /\ IF m.order \in activeOrders
     THEN BookFill(m.order, m.qty)
     ELSE UNCHANGED <<activeOrders, orderVars, sliceInFlight>>
  /\ UNCHANGED <<routed, ahead, sliceCount, elapsed, loop, sending>>

-----------------------------------------------------------------------------
(* The body of the two loops.  A callback runs without a break up to its   *)
(* next await: it passes over the orders there is nothing to do for, and   *)
(* stops at the first one it sends something for, or leaves the loop.      *)

CanSlice(run, o) == /\ o \in run.triggered
                    /\ ~sliceInFlight[o]
                    /\ currentSliceQty[o] > 0

Passes(run, o) == o \notin run.due /\ ~CanSlice(run, o)

Expire(h, run, o) ==
  /\ o \in run.due
  /\ activeOrders' = activeOrders \ {o}
  /\ Send(Expired(o, h))
  /\ UNCHANGED <<sliceInFlight, sliceCount>>

(* Mutant: the slice is not marked in flight before the send.              *)
SendSliceUnmarked(h, run, o) ==
  /\ o \notin run.due
  /\ CanSlice(run, o)
  /\ sliceCount' = [sliceCount EXCEPT ![o] = @ + 1]
  /\ \E cap \in DepthCaps :
       Send(Child(o, sliceCount[o] + 1, Lesser(currentSliceQty[o], cap), h))
  /\ UNCHANGED <<activeOrders, sliceInFlight>>

SendSlice(h, run, o) ==
  /\ o \notin run.due
  /\ CanSlice(run, o)
  /\ sliceInFlight' = [sliceInFlight EXCEPT ![o] = TRUE]
  /\ sliceCount' = [sliceCount EXCEPT ![o] = @ + 1]
  /\ \E cap \in DepthCaps :
       Send(Child(o, sliceCount[o] + 1, Lesser(currentSliceQty[o], cap), h))
  /\ UNCHANGED activeOrders

LeaveLoop(h, run) ==
  /\ \A o \in run.todo : Passes(run, o)
  /\ loop' = [loop EXCEPT ![h] = Idle]
  /\ UNCHANGED <<activeOrders, sliceInFlight, sliceCount, sending>>

Rest(run, todo) == [todo      |-> todo,
                    due       |-> run.due \cap todo,
                    triggered |-> run.triggered \cap todo]

RunLoop(h, run) ==
  /\ \/ LeaveLoop(h, run)
     \/ \E o \in run.todo :
          /\ \A p \in run.todo \cap ahead[o] : Passes(run, p)
          /\ Expire(h, run, o) \/ SendSlice(h, run, o)
          /\ loop' = [loop EXCEPT ![h] =
                        Rest(run, run.todo \ (ahead[o] \cup {o}))]
  /\ UNCHANGED <<routed, ahead, orderVars, elapsed, bus>>

Free(h) == loop[h].todo = {} /\ Settled(h)

(* A market tick arrives.  Orders whose asset it has no price for are      *)
(* skipped, before their expiry is even looked at.                         *)
OnTick(h) ==
  /\ Free(h)
  /\ \E priced \in SUBSET activeOrders :
       \E triggered \in SUBSET (priced \ elapsed) :
         RunLoop(h, [todo      |-> activeOrders,
                     due       |-> priced \cap elapsed,
                     triggered |-> triggered])

(* Mutant: the sweep leaves alone the orders whose slice is in flight.     *)
ExpirySweepSettled(h) ==
  /\ Free(h)
  /\ RunLoop(h, [todo      |-> activeOrders,
                 due       |-> {o \in activeOrders \cap elapsed : ~sliceInFlight[o]},
                 triggered |-> {}])

(* setInterval fires the sweep of startExpirySweep.                        *)
ExpirySweep(h) ==
  /\ Free(h)
  /\ RunLoop(h, [todo      |-> activeOrders,
                 due       |-> activeOrders \cap elapsed,
                 triggered |-> {}])

(* A callback goes on after the send it awaited was settled.               *)
Resume(h) ==
  /\ loop[h].todo # {}
  /\ Settled(h)
  /\ RunLoop(h, loop[h])

-----------------------------------------------------------------------------
(* Date.now() reaches the expiresAt of an order.                           *)
Elapse(o) ==
  /\ o \in routed \ elapsed
  /\ elapsed' = elapsed \cup {o}
  /\ UNCHANGED <<routed, ahead, activeOrders, orderVars, sliceInFlight, sliceCount,
                 loop, sending, bus>>

(* The process dies and supervisord starts it again: the map and the       *)
(* suspended callbacks are gone.  A send that was pending may or may not   *)
(* have reached the broker, which Written and Lost decide afterwards.      *)
Restart ==
  /\ activeOrders' = {}
  /\ loop' = [h \in Callbacks |-> Idle]
  /\ UNCHANGED <<routed, ahead, orderVars, sliceInFlight, sliceCount, elapsed,
                 sending, bus>>
=============================================================================
