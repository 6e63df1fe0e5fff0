-------------------------------- MODULE Oms ---------------------------------
(***************************************************************************)
(* The order management system (oms/oms-server.ts, oms/daily-notional.ts): *)
(* admission of orders.new, the daily notional ledger and the kill switch. *)
(*                                                                         *)
(* One action is one uninterrupted stretch of a handler, from one await to *)
(* the next.  Handlers of orders.new overlap: the consumer gives up        *)
(* waiting for one after 5 s (messaging.ts:362-384) while the handler goes *)
(* on, and its lookups alone may take longer.  orders.kill has a consumer  *)
(* of its own.                                                             *)
(*                                                                         *)
(* Data: a check of fields the properties do not tell apart (schema, role, *)
(* desk, bondSpec, strategy, quantity) may pass or fail; orders.fi.rfq is  *)
(* one with orders.routed; an order is known by its orders.new message.    *)
(* Of what is published only orders.cancelled is kept, and the outcome of  *)
(* orders.routed as the last phase of the order.                           *)
(* Left out: the relay of orders.resume and the expiry of orphans, which   *)
(* change no state of the OMS.                                             *)
(***************************************************************************)
EXTENDS Naturals, FiniteSets, FiniteSetsExt

CONSTANTS
  Orders,            \* orders.new messages
  Users,
  Owner,             \* order.userId
  ClientIds, NoId,
  ClientId,          \* order.clientOrderId, NoId when it has none
  Notional,          \* quantity * limitPrice, 0 for a market order
  MarketNotionals,   \* quantity * market price, for a market order
  Limits,            \* values of max_daily_notional an admin gives a user
  LastDay,           \* bound: trading days are 1..LastDay
  Commands,          \* orders.kill commands; reach is the set of orders whose
                     \*   strategy or asset scope and scopeValue name
  Kills              \* kill handler invocations that may be suspended

ASSUME OrdersAssumption ==
  /\ Owner \in [Orders -> Users]
  /\ NoId \notin ClientIds
  /\ ClientId \in [Orders -> ClientIds \cup {NoId}]
  /\ Notional \in [Orders -> Nat]
ASSUME MoneyAssumption ==
  /\ MarketNotionals \subseteq Nat \ {0}
  /\ Limits \in [Users -> SUBSET Nat]
  /\ LastDay \in Nat \ {0}

VARIABLES
  phase,         \* per order, what its handler awaits or how it ended
  limits,        \* per order, the max_daily_notional its handler holds
  charged,       \* per order, the day and notional reserved for it
  userLimit,     \* the user service's max_daily_notional, per user
  limitsCache,   \* the OMS's copy of it, {} when there is none
  totals,        \* the ledger: day and total per user; day 0 is no entry
  today,         \* tradingDayKey(Date.now())
  activeOrders,  \* the orders in the map, which is keyed by client id
  toCancel,      \* per kill handler: the orders left to cancel
  cancelled      \* orders an orders.cancelled was sent for

money == <<limits, charged, userLimit, limitsCache, totals, today>>
vars == <<phase, money, activeOrders, toCancel, cancelled>>

NoCharge == [day |-> 0, notional |-> 0]
NoEntry == [day |-> 0, total |-> 0]

Init ==
  /\ phase = [m \in Orders |-> "new"]
  /\ limits = [m \in Orders |-> 0]
  /\ charged = [m \in Orders |-> NoCharge]
  /\ userLimit \in [Users -> UNION {Limits[u] : u \in Users}]
  /\ \A u \in Users : userLimit[u] \in Limits[u]
  /\ limitsCache = [u \in Users |-> {}]
  /\ totals = [u \in Users |-> NoEntry]
  /\ today = 1
  /\ activeOrders = {}
  /\ toCancel = [k \in Kills |-> {}]
  /\ cancelled = {}

Waits == {"limits", "risk", "price", "lot", "routing"}

-----------------------------------------------------------------------------
(* The orders.new handler.                                                 *)

Moves(m, from, to) == phase[m] = from /\ phase' = [phase EXCEPT ![m] = to]

(* The handler is done: what it held goes with it.                         *)
Ends(m, from, how) == Moves(m, from, how) /\ limits' = [limits EXCEPT ![m] = 0]

(* A check fails, at once or after an await: orders.rejected is sent.      *)
Reject(m) ==
  /\ \E from \in {"new", "limits", "risk", "price"} : Ends(m, from, "refused")
  /\ UNCHANGED <<charged, userLimit, limitsCache, totals, today, activeOrders, toCancel,
                 cancelled>>

(* getUserLimits: a copy younger than 30 s is used, otherwise the user     *)
(* service is asked.                                                       *)
Receive(m) ==
  /\ IF limitsCache[Owner[m]] = {}
     THEN /\ Moves(m, "new", "limits")
          /\ UNCHANGED limits
     ELSE /\ Moves(m, "new", "risk")
          /\ \E l \in limitsCache[Owner[m]] : limits' = [limits EXCEPT ![m] = l]
  /\ UNCHANGED <<charged, userLimit, limitsCache, totals, today, activeOrders, toCancel,
                 cancelled>>

(* Mutant: the copy is not kept per user.                                  *)
LimitsFetchedShared(m) ==
  LET u == Owner[m]
  IN /\ Moves(m, "limits", "risk")
     /\ limits' = [limits EXCEPT ![m] = userLimit[u]]
     /\ limitsCache' = [v \in Users |-> {userLimit[u]}]
     /\ UNCHANGED <<charged, userLimit, totals, today, activeOrders, toCancel, cancelled>>

LimitsFetched(m) ==
  LET u == Owner[m]
  IN /\ Moves(m, "limits", "risk")
     /\ limits' = [limits EXCEPT ![m] = userLimit[u]]
     /\ limitsCache' = [limitsCache EXCEPT ![u] = {userLimit[u]}]
     /\ UNCHANGED <<charged, userLimit, totals, today, activeOrders, toCancel, cancelled>>

Used(u) == IF totals[u].day = today THEN totals[u].total ELSE 0

Charge(m, notional) ==
  /\ totals' = [totals EXCEPT ![Owner[m]] =
                  [day |-> today, total |-> Used(Owner[m]) + notional]]
  /\ charged' = [charged EXCEPT ![m] = [day |-> today, notional |-> notional]]

(* Mutant: the total is compared with the limit before the order is added. *)
ReserveBehind(m, from, notional) ==
  /\ IF Used(Owner[m]) > limits[m]
     THEN /\ Ends(m, from, "refused")
          /\ UNCHANGED <<totals, charged>>
     ELSE /\ Moves(m, from, "lot")
          /\ Charge(m, notional)
          /\ UNCHANGED limits
  /\ UNCHANGED <<userLimit, limitsCache, today, activeOrders, toCancel, cancelled>>

(* dailyNotional.reserve: the total is read and written in one stretch, so *)
(* overlapping handlers never decide on the same one.                      *)
Reserve(m, from, notional) ==
  /\ IF Used(Owner[m]) + notional > limits[m]
     THEN /\ Ends(m, from, "refused")
          /\ UNCHANGED <<totals, charged>>
     ELSE /\ Moves(m, from, "lot")
          /\ Charge(m, notional)
          /\ UNCHANGED limits
  /\ UNCHANGED <<userLimit, limitsCache, today, activeOrders, toCancel, cancelled>>

(* The risk engine allows the order.  A limit order is charged at once, a  *)
(* market order waits for its reference price.                             *)
RiskAllowed(m) ==
  \/ Notional[m] > 0 /\ Reserve(m, "risk", Notional[m])
  \/ /\ Notional[m] = 0
     /\ Moves(m, "risk", "price")
     /\ UNCHANGED <<money, activeOrders, toCancel, cancelled>>

Priced(m) == \E n \in MarketNotionals : Reserve(m, "price", n)

(* The lot size rejects nothing.  The order is entered into the map, in    *)
(* the place of one with the same client id, before anyone is told of it.  *)
LotSized(m) ==
  /\ Moves(m, "lot", "routing")
  /\ activeOrders' = IF ClientId[m] = NoId THEN activeOrders
                     ELSE {n \in activeOrders : ClientId[n] # ClientId[m]} \cup {m}
  /\ UNCHANGED <<money, toCancel, cancelled>>

(* After orders.submitted, orders.routed is sent.  A failed send is        *)
(* swallowed.                                                              *)
Route(m) ==
  /\ Ends(m, "routing", "routed") \/ Ends(m, "routing", "lost")
  /\ UNCHANGED <<charged, userLimit, limitsCache, totals, today, activeOrders, toCancel,
                 cancelled>>

-----------------------------------------------------------------------------
(* The orders.kill handler.                                                *)

Admin(c) == c.issuedByRole = "admin"
Permitted(c) == Admin(c) \/ c.targetUserId \in {NoId, c.issuedBy}
Owned(c, m) == Admin(c) \/ Owner[m] = c.issuedBy
Target(c) == IF Admin(c) /\ c.targetUserId # NoId THEN c.targetUserId ELSE c.issuedBy

(* Mutant: ownership counts in the user scope only.                        *)
SelectsAnyOwner(c, m) ==
  IF c.scope = "user" THEN Owner[m] = Target(c) ELSE m \in c.reach

Selects(c, m) ==
  IF c.scope = "user" THEN Owner[m] = Target(c) ELSE m \in c.reach /\ Owned(c, m)

(* Mutant: every order left to cancel is deleted with the first.           *)
CancelNextAtOnce(k, todo) ==
  \E m \in todo :
    /\ toCancel' = [toCancel EXCEPT ![k] = todo \ {m}]
    /\ activeOrders' = activeOrders \ todo
    /\ cancelled' = cancelled \cup {m}

(* The loop over the orders to cancel: one is deleted and its cancel sent. *)
(* What is deleted is what the map holds under the order's client id by    *)
(* then.  The order in which the loop takes them is left open.             *)
CancelNext(k, todo) ==
  \E m \in todo :
    /\ toCancel' = [toCancel EXCEPT ![k] = todo \ {m}]
    /\ activeOrders' = {n \in activeOrders : ClientId[n] # ClientId[m]}
    /\ cancelled' = cancelled \cup {m}

KillReceived(k, c) ==
  /\ toCancel[k] = {}
  /\ Permitted(c)
  /\ CancelNext(k, {m \in activeOrders : Selects(c, m)})
  /\ UNCHANGED <<phase, money>>

CancelSent(k) ==
  /\ CancelNext(k, toCancel[k])
  /\ UNCHANGED <<phase, money>>

-----------------------------------------------------------------------------
(* The 30 s of a copy of the limits are over.                              *)
CacheExpires(u) ==
  /\ limitsCache[u] # {}
  /\ limitsCache' = [limitsCache EXCEPT ![u] = {}]
  /\ UNCHANGED <<phase, limits, charged, userLimit, totals, today, activeOrders,
                 toCancel, cancelled>>

(* An admin edits a user's limits in the user service.                     *)
LimitEdited(u) ==
  /\ \E l \in Limits[u] \ {userLimit[u]} : userLimit' = [userLimit EXCEPT ![u] = l]
  /\ UNCHANGED <<phase, limits, charged, limitsCache, totals, today, activeOrders,
                 toCancel, cancelled>>

NewDay ==
  /\ today < LastDay
  /\ today' = today + 1
  /\ UNCHANGED <<phase, limits, charged, userLimit, limitsCache, totals, activeOrders,
                 toCancel, cancelled>>

(* The process dies: the ledger, the copies of the limits and the map are  *)
(* in memory only.  orders.new is read on from the offsets committed,      *)
(* which lag: any message handled before may come again.                   *)
Restart ==
  /\ \E again \in SUBSET {m \in Orders : phase[m] # "new"} :
       phase' = [m \in Orders |-> IF m \in again THEN "new"
                                  ELSE IF phase[m] \in Waits THEN "lost"
                                  ELSE phase[m]]
  /\ limits' = [m \in Orders |-> 0]
  /\ charged' = [m \in Orders |-> NoCharge]
  /\ limitsCache' = [u \in Users |-> {}]
  /\ totals' = [u \in Users |-> NoEntry]
  /\ activeOrders' = {}
  /\ toCancel' = [k \in Kills |-> {}]
  /\ UNCHANGED <<userLimit, today, cancelled>>

Next == \/ \E m \in Orders : \/ Receive(m) \/ LimitsFetched(m) \/ RiskAllowed(m)
                             \/ Priced(m) \/ LotSized(m) \/ Route(m) \/ Reject(m)
        \/ \E k \in Kills : CancelSent(k) \/ \E c \in Commands : KillReceived(k, c)
        \/ \E u \in Users : CacheExpires(u) \/ LimitEdited(u)
        \/ NewDay
        \/ Restart

Spec == Init /\ [][Next]_vars

-----------------------------------------------------------------------------
TypeOK ==
  /\ phase \in [Orders -> Waits \cup {"new", "refused", "routed", "lost"}]
  /\ limits \in [Orders -> Nat]
  /\ charged \in [Orders -> [day : 0..LastDay, notional : Nat]]
  /\ userLimit \in [Users -> Nat]
  /\ limitsCache \in [Users -> SUBSET Nat]
  /\ \A u \in Users : userLimit[u] \in Limits[u] /\ limitsCache[u] \subseteq Limits[u]
  /\ totals \in [Users -> [day : 0..LastDay, total : Nat]]
  /\ today \in 1..LastDay
  /\ activeOrders \subseteq Orders
  /\ toCancel \in [Kills -> SUBSET Orders]
  /\ cancelled \subseteq Orders

Charges(u, d) == SumFunctionOnSet([m \in Orders |-> charged[m].notional],
                                  {m \in Orders : Owner[m] = u /\ charged[m].day = d})

(* risk-architecture.md:22-29: max_daily_notional is a total per user and  *)
(* trading day, of which a rejected order consumes nothing.  While the     *)
(* process lives, the orders charged to a user on a day never come to more *)
(* than a limit an admin gives the user, however their handlers and edits  *)
(* of the limit interleave, and the ledger is exactly their sum.           *)
WithinDailyLimit ==
  \A u \in Users :
    /\ \A d \in 1..LastDay : \E l \in Limits[u] : Charges(u, d) <= l
    /\ totals[u].day # 0 => totals[u].total = Charges(u, totals[u].day)

(* The orders that were accepted in this life of the process and have a    *)
(* client id of their own.                                                 *)
Killable == {m \in Orders : /\ phase[m] \in {"routing", "routed", "lost"}
                            /\ charged[m].day # 0
                            /\ ClientId[m] # NoId
                            /\ \A n \in Orders \ {m} : ClientId[n] # ClientId[m]}

(* risk-controls.md:48: the kill switch cancels active orders.  It can     *)
(* reach every accepted order until it cancelled it: no kill of others,    *)
(* and no kill that overlaps with another, takes an order out of its sight.*)
KillableUntilCancelled == Killable \subseteq activeOrders \cup cancelled

(* risk-controls.md:44-46: traders kill their own orders, admins those of  *)
(* everybody, and both only what the scope names: one user, or the orders  *)
(* of a strategy, symbol or market.  Whatever handlers are suspended over  *)
(* what they selected, and whatever comes to stand under a client id in    *)
(* the meantime, every order that is cancelled was covered by a command.   *)
Covers(c, m) ==
  /\ Admin(c) \/ c.issuedBy = Owner[m]
  /\ IF c.scope = "user" THEN Owner[m] \in {c.targetUserId, c.issuedBy} ELSE m \in c.reach

KillsStayInScope == \A m \in cancelled : \E c \in Commands : Covers(c, m)

(* risk-controls.md:40: the kill switch halts trading immediately.  An     *)
(* order it has cancelled is not handed to the algorithms afterwards.      *)
CancelledNotRouted ==
  [][\A m \in cancelled : phase'[m] = "routed" => phase[m] = "routed"]_vars
=============================================================================
