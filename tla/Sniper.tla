-------------------------------- MODULE Sniper ------------------------------
(***************************************************************************)
(* The SNIPER algorithm (algo/sniper-strategy.ts, algo/sniper-math.ts and  *)
(* the expiry sweep of algo/common-http.ts): when the market crosses the   *)
(* limit it routes a share of what is available to several venues at once, *)
(* then cools down.                                                        *)
(*                                                                         *)
(* One action is one uninterrupted stretch of JavaScript.  The market      *)
(* client does not wait for an onTick callback, so several invocations can *)
(* be suspended at once, each in its own round of an order, with the `now' *)
(* and the available quantity it read before its first send.               *)
(*                                                                         *)
(* Left out: prices and venue names (a tick says which orders it has a     *)
(* price for and which are triggered), costBasis, and orders refused for   *)
(* want of a limit price.  A restart of the process, which forgets its     *)
(* orders for good, is left out as well: nothing is said of them then.     *)
(***************************************************************************)
EXTENDS OwnBooks

CONSTANTS Orders,      \* parent orders the OMS may route to SNIPER
          Qty,         \* order.quantity
          Aggression,  \* aggressionPct, 1..100
          VenueLimits, \* values order.maxVenues takes, 1..3
          HalfDepths,  \* values Math.floor(l1Size * 0.5) takes
          Ticks,       \* onTick invocations that can be suspended at once
          Sweeps,      \* expiry sweep invocations that can
          Cooldown,    \* COOLDOWN_MS, in units of the clock
  MaxChildren, \* bound: a tick triggers an order with fewer children
  MaxUnbooked  \* bound: a send is rejected although it was written while fewer
               \*   shares of its order were in such sends

ASSUME OrdersAssumption ==
  /\ Qty \in [Orders -> Nat \ {0}]
  /\ Aggression \in 1..100
  /\ VenueLimits \subseteq 1..3
  /\ HalfDepths \subseteq Nat
  /\ None \notin Orders
ASSUME CallbacksAssumption == Cooldown \in Nat /\ Ticks \cap Sweeps = {}
ASSUME SniperBounds == MaxChildren \in Nat /\ MaxUnbooked \in Nat

Callbacks == Ticks \cup Sweeps

VARIABLES
  routed,          \* orders whose orders.routed message was handled
  activeOrders,    \* the map, in its order of insertion
  totalRemaining,  \* the fields of ActiveSniper, per order; an order that
  inFlightQty,     \*   left the map keeps them, for the callbacks that
  filledQty,       \*   still hold the object
  sliceCount,
  cooldownUntil,
  expiresAt,
  maxVenues,
  loop,            \* per callback, where in the loop it is suspended
  overlapped,      \* history: orders two invocations routed at the same time
  unbooked         \* history: per order, shares of children that are on the
                   \*   topic although their send was rejected

orderVars == <<totalRemaining, filledQty, cooldownUntil>>
sniperVars == <<routed, activeOrders, orderVars, inFlightQty, sliceCount, expiresAt,
                maxVenues, loop, overlapped, unbooked>>

Working == {activeOrders[i] : i \in DOMAIN activeOrders}

Delete(o) == activeOrders' = RemoveFirst(activeOrders, o)

(* A suspended invocation: the orders of its snapshot it has not come to,  *)
(* what its tick says of them, and, in the middle of a round, the order,   *)
(* the venues left, availableQty, routeQty / selected.length, dispatched,  *)
(* the quantity it is sending and whether that send failed.                *)
Idle == [now |-> 0, todo |-> <<>>, priced |-> {}, triggered |-> {}, order |-> None,
         venues |-> 0, available |-> 0, share |-> 0, dispatched |-> 0,
         qty |-> 0, failed |-> FALSE]

SniperInit ==
  /\ routed = {}
  /\ activeOrders = <<>>
  /\ totalRemaining = [o \in Orders |-> 0]
  /\ inFlightQty = [o \in Orders |-> 0]
  /\ filledQty = [o \in Orders |-> 0]
  /\ sliceCount = [o \in Orders |-> 0]
  /\ cooldownUntil = [o \in Orders |-> 0]
  /\ expiresAt = [o \in Orders |-> 0]
  /\ maxVenues = [o \in Orders |-> 1]
  /\ loop = [h \in Callbacks |-> Idle]
  /\ overlapped = {}
  /\ unbooked = [o \in Orders |-> 0]

-----------------------------------------------------------------------------
(* The orders.routed consumer queues the order.                            *)
RoutedOrder(o) ==
  /\ o \notin routed
  /\ clock + Lifetime <= MaxClock
  /\ routed' = routed \cup {o}
  /\ activeOrders' = Append(activeOrders, o)
  /\ totalRemaining' = [totalRemaining EXCEPT ![o] = Qty[o]]
  /\ expiresAt' = [expiresAt EXCEPT ![o] = clock + Lifetime]
  /\ \E n \in VenueLimits : maxVenues' = [maxVenues EXCEPT ![o] = n]
  /\ UNCHANGED <<clock, inFlightQty, filledQty, sliceCount, cooldownUntil, loop,
                 overlapped, unbooked, sending, bus>>

(* Mutant: the remaining quantity is not clamped and the completed order   *)
(* stays in the map.                                                       *)
BookFillUnclamped(o, qty) ==
  /\ inFlightQty' = [inFlightQty EXCEPT ![o] = Less(@, qty)]
  /\ filledQty' = [filledQty EXCEPT ![o] = @ + qty]
  /\ totalRemaining' = [totalRemaining EXCEPT ![o] = @ - qty]
  /\ UNCHANGED activeOrders

(* A fill of qty shares is taken off the books of order o, which leaves    *)
(* the map when nothing remains.                                           *)
BookFill(o, qty) ==
  /\ inFlightQty' = [inFlightQty EXCEPT ![o] = Less(@, qty)]
  /\ filledQty' = [filledQty EXCEPT ![o] = @ + qty]
  /\ totalRemaining' = [totalRemaining EXCEPT ![o] = Less(@, qty)]
  /\ IF totalRemaining[o] <= qty THEN Delete(o) ELSE UNCHANGED activeOrders

(* The orders.filled consumer.  A fill for an order no longer in the map   *)
(* is ignored.                                                             *)
FillEvent(m) ==
  /\ m \in bus
  /\ m.topic = "orders.filled" /\ m.order \in Orders
  /\ bus' = bus \ {m}
  /\ IF m.order \in Working
     THEN BookFill(m.order, m.qty)
     ELSE UNCHANGED <<activeOrders, inFlightQty, filledQty, totalRemaining>>
  /\ UNCHANGED <<clock, routed, sliceCount, cooldownUntil, expiresAt, maxVenues, loop,
                 overlapped, unbooked, sending>>

-----------------------------------------------------------------------------
(* Mutant: what is in flight is forgotten.                                 *)
AvailableUnreserved(o) == totalRemaining[o]

(* availableSniperQty                                                      *)
Available(o) == Less(totalRemaining[o], inFlightQty[o])

(* Math.max(1, Math.round(available * aggressionPct / 100))                *)
RouteQty(available) == Larger(1, (2 * available * Aggression + 100) \div 200)

(* The last send of the round was rejected: its reservation is undone.     *)
Held(run, o) ==
  IF run.failed THEN Less(inFlightQty[o], run.qty) ELSE inFlightQty[o]

(* Mutant: the share of a venue is not limited to what is left.            *)
LegQtyUnlimited(run, half) == Smaller(Larger(1, run.share), half)

LegQty(run, half) ==
  Smaller(Smaller(Larger(1, run.share), half), Less(run.available, run.dispatched))

(* Mutant: the quantity is reserved only after the acknowledgement.        *)
SendLegUnreserved(h, run, o, qty) ==
  /\ inFlightQty' = [inFlightQty EXCEPT ![o] = Held(run, o)]
  /\ sliceCount' = [sliceCount EXCEPT ![o] = @ + 1]
  /\ Send(Child(o, sliceCount[o] + 1, qty, h))
  /\ loop' = [loop EXCEPT ![h] = [run EXCEPT !.venues = @ - 1, !.qty = qty, !.failed = FALSE]]
  /\ overlapped' = IF \E k \in Callbacks \ {h} : loop[k].order = o
                   THEN overlapped \cup {o} ELSE overlapped
  /\ UNCHANGED cooldownUntil

(* One venue's child is reserved, numbered and sent.                       *)
SendLeg(h, run, o, qty) ==
  /\ inFlightQty' = [inFlightQty EXCEPT ![o] = Held(run, o) + qty]
  /\ sliceCount' = [sliceCount EXCEPT ![o] = @ + 1]
  /\ Send(Child(o, sliceCount[o] + 1, qty, h))
  /\ loop' = [loop EXCEPT ![h] = [run EXCEPT !.venues = @ - 1, !.qty = qty, !.failed = FALSE]]
  /\ overlapped' = IF \E k \in Callbacks \ {h} : loop[k].order = o
                   THEN overlapped \cup {o} ELSE overlapped
  /\ UNCHANGED cooldownUntil

(* The invocation awaits the last send of an order.                        *)
Between(run) ==
  LET ahead == {run.todo[i] : i \in DOMAIN run.todo}
  IN IF ahead = {} THEN Idle
     ELSE [Idle EXCEPT !.now = run.now, !.todo = run.todo,
                       !.priced = run.priced \cap ahead,
                       !.triggered = run.triggered \cap ahead]

(* The round ends: cooldown, and the heartbeat that is awaited.            *)
EndRound(h, run, o) ==
  /\ inFlightQty' = [inFlightQty EXCEPT ![o] = Held(run, o)]
  /\ cooldownUntil' = [cooldownUntil EXCEPT ![o] = run.now + Cooldown]
  /\ Send(Report("algo.heartbeat", o, h))
  /\ loop' = [loop EXCEPT ![h] = Between(run)]
  /\ UNCHANGED <<sliceCount, overlapped>>

(* The venues that are left, up to the next send.                          *)
Route(h, run, o) ==
  /\ \/ run.venues = 0 /\ EndRound(h, run, o)
     \/ /\ run.venues > 0
        /\ \E half \in HalfDepths :
             LET qty == LegQty(run, half)
             IN IF qty = 0 THEN EndRound(h, run, o) ELSE SendLeg(h, run, o, qty)
  /\ UNCHANGED activeOrders

Due(run, o) == o \in run.priced /\ run.now >= expiresAt[o]

Routable(run, o) == /\ o \in run.triggered
                    /\ run.now >= cooldownUntil[o]
                    /\ Available(o) > 0

Passes(run, o) == ~Due(run, o) /\ ~Routable(run, o)

Expire(h, run, o) ==
  /\ Due(run, o)
  /\ Delete(o)
  /\ Send(Report("orders.expired", o, h))
  /\ loop' = [loop EXCEPT ![h] = Between(run)]
  /\ UNCHANGED <<inFlightQty, sliceCount, cooldownUntil, overlapped>>

StartRound(h, run, o) ==
  /\ ~Due(run, o)
  /\ Routable(run, o)
  /\ Route(h, [Between(run) EXCEPT !.now = run.now, !.order = o,
                                   !.venues = maxVenues[o], !.available = Available(o),
                                   !.share = RouteQty(Available(o)) \div maxVenues[o]], o)

LeaveLoop(h, run) ==
  /\ \A i \in DOMAIN run.todo : Passes(run, run.todo[i])
  /\ loop' = [loop EXCEPT ![h] = Idle]
  /\ UNCHANGED <<activeOrders, inFlightQty, sliceCount, cooldownUntil, overlapped, sending>>

(* The for loop, up to the first order that needs a send.                  *)
RunLoop(h, run) ==
  \/ LeaveLoop(h, run)
  \/ \E i \in DOMAIN run.todo :
       LET rest == [run EXCEPT !.todo = SubSeq(@, i + 1, Len(@))]
       IN /\ \A j \in 1 .. i - 1 : Passes(run, run.todo[j])
          /\ Expire(h, rest, run.todo[i]) \/ StartRound(h, rest, run.todo[i])

Free(h) == loop[h] = Idle /\ Settled(h)

(* A market tick arrives.                                                  *)
OnTick(h) ==
  /\ Free(h)
  /\ \E priced \in SUBSET Working :
       \E triggered \in SUBSET {o \in priced : sliceCount[o] < MaxChildren} :
       RunLoop(h, [Idle EXCEPT !.now = clock, !.todo = activeOrders,
                               !.priced = priced, !.triggered = triggered])
  /\ UNCHANGED <<clock, routed, totalRemaining, filledQty, expiresAt, maxVenues, unbooked, bus>>

(* setInterval fires the sweep of startExpirySweep.                        *)
ExpirySweep(h) ==
  /\ Free(h)
  /\ RunLoop(h, [Idle EXCEPT !.now = clock, !.todo = activeOrders, !.priced = Working])
  /\ UNCHANGED <<clock, routed, totalRemaining, filledQty, expiresAt, maxVenues, unbooked, bus>>

(* A callback goes on after the send it awaited was settled.               *)
Resume(h) ==
  /\ Settled(h)
  /\ LET run == loop[h]
     IN \/ /\ run.order # None
           /\ Route(h, IF run.failed THEN run ELSE [run EXCEPT !.dispatched = @ + run.qty],
                    run.order)
        \/ /\ run.order = None
           /\ run # Idle
           /\ RunLoop(h, run)
  /\ UNCHANGED <<clock, routed, totalRemaining, filledQty, expiresAt, maxVenues, unbooked, bus>>

-----------------------------------------------------------------------------
(* The catch of a routed child: its reservation is undone when the round   *)
(* goes on, whether the broker has the child or not.                       *)
Rejected(m) ==
  /\ loop' = [loop EXCEPT ![m.by].failed = TRUE]
  /\ \/ Lost(m) /\ UNCHANGED unbooked
     \/ /\ unbooked[m.order] < MaxUnbooked
        /\ Written(m)
        /\ unbooked' = [unbooked EXCEPT ![m.order] = @ + m.qty]

(* A pending send settles.  Who reads expiries and heartbeats is not part  *)
(* of this model: for it one that was written and one that was not are the *)
(* same, and their rejections are swallowed.                               *)
Settle ==
  /\ \E m \in {c \in sending : c.by \in Callbacks} :
       \/ m.topic = "orders.child" /\ Written(m) /\ UNCHANGED <<loop, unbooked>>
       \/ m.topic = "orders.child" /\ Rejected(m)
       \/ m.topic # "orders.child" /\ Lost(m) /\ UNCHANGED <<loop, unbooked>>
  /\ UNCHANGED <<clock, routed, activeOrders, orderVars, inFlightQty, sliceCount,
                 expiresAt, maxVenues, overlapped>>
=============================================================================
