------------------------------ MODULE DarkPool ------------------------------
(***************************************************************************)
(* The DARK1 crossing network (dark-pool/dark-pool-server.ts and           *)
(* dark-pool-matching.ts), for one asset.                                  *)
(*                                                                         *)
(* orderBook maps the asset to a pool, a JavaScript object with two        *)
(* arrays.  The match cycle (every 500 ms) and the expiry sweep (every     *)
(* 2 s) take hold of that object, change it at once, and then await one    *)
(* send after the other; the orders.routed consumer and other invocations  *)
(* of the two run in between.  Pools are therefore told apart: book names  *)
(* the one the map holds, and an invocation goes on with the one it took.  *)
(*                                                                         *)
(* Left out: orders for other venues and those admission refuses (they     *)
(* change nothing), the counters of /pool/stats, and the dark.execution    *)
(* and fix.execution sends, which only lengthen the suspension.  Where an  *)
(* invocation goes on to a pool that was put in the map while it waited,   *)
(* the model has another invocation start on it.                           *)
(***************************************************************************)
EXTENDS Integers, Sequences, FiniteSets, Functions

CONSTANTS DarkOrders, \* orders.routed messages for DARK1
          Side,       \* BUY or SELL
          Qty,        \* order.quantity
          Limit,      \* order.limitPrice
          MinBlock,   \* DARK_POOL_MIN_BLOCK
          Mids,       \* midpoints the market feed may show
          Cycles,     \* runMatchCycle invocations that may be suspended
          Expiries    \* sweepExpiredOrders invocations that may be

ASSUME DarkOrdersAssumption ==
  /\ Side \in [DarkOrders -> {"BUY", "SELL"}]
  /\ Qty \in [DarkOrders -> Nat \ {0}]
  /\ Limit \in [DarkOrders -> Nat \ {0}]
ASSUME MarketAssumption == MinBlock \in Nat /\ Mids \subseteq Nat \ {0}
ASSUME CyclesAssumption == IsFiniteSet(Cycles)  \* a process has so many calls suspended

VARIABLES
  book,        \* the pool orderBook has for the asset, 0 when it has none
  made,        \* pools made so far; pools are numbered from 1
  pools,       \* the two arrays of each pool
  admitted,    \* orders admission has seen
  remaining,   \* remainingQty
  late,        \* orders with now >= deadlineAt
  cycle,       \* per match cycle: the pool it took, the reports left to send
  expiry,      \* per sweep: the pool it took, the residuals left to hand on
  told,        \* quantity reported in orders.filled, per order
  handedBack   \* quantity rerouted or expired, per order

poolVars == <<book, made, pools, admitted, remaining, late, cycle, expiry, told, handedBack>>

NoPool == [buys |-> <<>>, sells |-> <<>>]
Resting(pool) == Range(pool.buys) \cup Range(pool.sells)

(* Mutant: one side is looked at.                                          *)
EmptyOneSide(p) == p.buys = <<>>

Empty(p) == p = NoPool
Lesser(a, b) == IF a <= b THEN a ELSE b

-----------------------------------------------------------------------------
(* matchSymbol: both sides are walked in order of admission; an order that *)
(* is late, or whose limit the midpoint is beyond, is passed over.  The    *)
(* quantity goes to the orders first admitted, and is not split between    *)
(* those of a side as dark-pool.mdx:20 has it ("splitting fills            *)
(* proportionally if quantities don't line up").                           *)

CanTrade(o, mid) ==
  /\ o \notin late
  /\ IF Side[o] = "BUY" THEN Limit[o] >= mid ELSE Limit[o] <= mid

(* Mutant: the whole buy is matched.                                       *)
MatchedQtyOfBuy(rem, buy, sell) == rem[buy]

MatchedQty(rem, buy, sell) == Lesser(rem[buy], rem[sell])
Past(i, left) == IF left <= 0 THEN i + 1 ELSE i

Report == [order : DarkOrders, qty : Int]
Walk == [bi : Nat \ {0}, si : Nat \ {0}, rem : [DarkOrders -> Int], reports : Seq(Report)]

WalkOver(pool, s) == s.bi > Len(pool.buys) \/ s.si > Len(pool.sells)

(* One round of the loop.  reports are the orders.filled reports of the    *)
(* fills so far, in the order they are sent in: the buy's, then the sell's. *)
WalkOn(pool, mid, s) ==
  LET buy  == pool.buys[s.bi]
      sell == pool.sells[s.si]
      qty  == MatchedQty(s.rem, buy, sell)
      rem  == [s.rem EXCEPT ![buy] = @ - qty, ![sell] = @ - qty]
      fill == <<[order |-> buy, qty |-> qty], [order |-> sell, qty |-> qty]>>
  IN IF ~CanTrade(buy, mid) THEN [s EXCEPT !.bi = @ + 1]
     ELSE IF ~CanTrade(sell, mid) THEN [s EXCEPT !.si = @ + 1]
     ELSE [bi      |-> Past(s.bi, rem[buy]),
           si      |-> Past(s.si, rem[sell]),
           rem     |-> rem,
           reports |-> IF qty > 0 THEN s.reports \o fill ELSE s.reports]

MatchSymbol(pool, mid) ==
  LET walk[s \in Walk] == IF WalkOver(pool, s) THEN s ELSE walk[WalkOn(pool, mid, s)]
  IN walk[[bi |-> 1, si |-> 1, rem |-> remaining, reports |-> <<>>]]

(* filter, as a recursive function over the length of what was filtered.   *)
Filter(queue, kept) ==
  LET taken[n \in 0 .. Len(queue)] ==
        IF n = 0 THEN <<>>
        ELSE IF queue[n] \in kept THEN Append(taken[n - 1], queue[n]) ELSE taken[n - 1]
  IN taken[Len(queue)]

Keep(pool, kept) == [buys  |-> Filter(pool.buys, kept), sells |-> Filter(pool.sells, kept)]

-----------------------------------------------------------------------------
Idle == [pool |-> 0, todo |-> <<>>]

PoolInit ==
  /\ book = 0 /\ made = 0 /\ pools = <<>>
  /\ admitted = {} /\ late = {}
  /\ remaining = [o \in DarkOrders |-> 0]
  /\ cycle = [c \in Cycles |-> Idle]
  /\ expiry = [e \in Expiries |-> Idle]
  /\ told = [o \in DarkOrders |-> 0]
  /\ handedBack = [o \in DarkOrders |-> 0]

WithOrder(pool, o) ==
  IF Side[o] = "BUY" THEN [pool EXCEPT !.buys = Append(@, o)]
                     ELSE [pool EXCEPT !.sells = Append(@, o)]

(* consumer.onMessage with getOrCreatePool.                                *)
Admit(o) ==
  /\ o \notin admitted
  /\ Qty[o] >= MinBlock
  /\ admitted' = admitted \cup {o}
  /\ remaining' = [remaining EXCEPT ![o] = Qty[o]]
  /\ IF book = 0
     THEN /\ book' = made + 1
          /\ made' = made + 1
          /\ pools' = Append(pools, WithOrder(NoPool, o))
     ELSE /\ pools' = [pools EXCEPT ![book] = WithOrder(@, o)]
          /\ UNCHANGED <<book, made>>
  /\ UNCHANGED <<late, cycle, expiry, told, handedBack>>

(* Both loops end with the same check: a pool that is empty is taken out   *)
(* of the map, by the name of the asset.                                   *)
DropIfEmpty(p) == book' = IF Empty(pools'[p]) THEN 0 ELSE book

(* runMatchCycle up to its first await.                                    *)
MatchStart(c) ==
  /\ cycle[c] = Idle
  /\ book # 0
  /\ pools[book].buys # <<>> /\ pools[book].sells # <<>>
  /\ \E mid \in Mids :
       LET match == MatchSymbol(pools[book], mid)
       IN /\ match.reports # <<>>
          /\ remaining' = match.rem
          /\ pools' = [pools EXCEPT ![book] = Keep(@, {o \in DarkOrders : match.rem[o] > 0})]
          /\ cycle' = [cycle EXCEPT ![c] = [pool |-> book, todo |-> match.reports]]
  /\ UNCHANGED <<book, made, admitted, late, expiry, told, handedBack>>

(* A report was written, or its send failed (which is swallowed).  After   *)
(* the last one the cycle looks at its pool again.                         *)
MatchReport(c) ==
  /\ cycle[c] # Idle
  /\ LET report == Head(cycle[c].todo)
         rest   == Tail(cycle[c].todo)
     IN /\ \/ told' = [told EXCEPT ![report.order] = @ + report.qty]
           \/ UNCHANGED told
        /\ IF rest # <<>>
           THEN /\ cycle' = [cycle EXCEPT ![c].todo = rest]
                /\ UNCHANGED <<pools, book>>
           ELSE /\ cycle' = [cycle EXCEPT ![c] = Idle]
                /\ UNCHANGED pools
                /\ DropIfEmpty(cycle[c].pool)
  /\ UNCHANGED <<made, admitted, remaining, late, expiry, handedBack>>

-----------------------------------------------------------------------------
(* Mutant: the late orders leave the pool only when the sweep is done.     *)
ExpiryStartUnfiltered(e) ==
  /\ expiry[e] = Idle
  /\ book # 0
  /\ LET out == Keep(pools[book], late)
     IN /\ ~Empty(out)
        /\ expiry' = [expiry EXCEPT ![e] = [pool |-> book, todo |-> out.buys \o out.sells]]
  /\ UNCHANGED <<book, made, pools, admitted, remaining, late, cycle, told, handedBack>>

(* sweepExpiredOrders up to its first await: the late orders leave the     *)
(* pool before the first of them is handed on.  With no late order the     *)
(* sweep only drops an empty pool.                                         *)
ExpiryStart(e) ==
  /\ expiry[e] = Idle
  /\ book # 0
  /\ LET out == Keep(pools[book], late)
     IN /\ pools' = [pools EXCEPT ![book] = Keep(@, DarkOrders \ late)]
        /\ IF Empty(out)
           THEN /\ DropIfEmpty(book)
                /\ UNCHANGED expiry
           ELSE /\ expiry' = [expiry EXCEPT ![e] =
                                [pool |-> book, todo |-> out.buys \o out.sells]]
                /\ UNCHANGED book
  /\ UNCHANGED <<made, admitted, remaining, late, cycle, told, handedBack>>

(* One residual was rerouted to the lit market (or expired, as             *)
(* RESIDUAL_ACTION says), or that send failed.                             *)
ExpiryHandOn(e) ==
  /\ expiry[e] # Idle
  /\ LET o    == Head(expiry[e].todo)
         rest == Tail(expiry[e].todo)
     IN /\ \/ handedBack' = [handedBack EXCEPT ![o] = @ + remaining[o]]
           \/ UNCHANGED handedBack
        /\ IF rest # <<>>
           THEN /\ expiry' = [expiry EXCEPT ![e].todo = rest]
                /\ UNCHANGED <<pools, book>>
           ELSE /\ expiry' = [expiry EXCEPT ![e] = Idle]
                /\ UNCHANGED pools
                /\ DropIfEmpty(expiry[e].pool)
  /\ UNCHANGED <<made, admitted, remaining, late, cycle, told>>

(* ORDER_TIMEOUT_MS after its admission an order is late.                  *)
Deadline(o) ==
  /\ o \in admitted \ late
  /\ late' = late \cup {o}
  /\ UNCHANGED <<book, made, pools, admitted, remaining, cycle, expiry, told, handedBack>>

(* The process dies: pools and suspended invocations are in memory only.   *)
PoolRestart ==
  /\ book' = 0
  /\ pools' = [p \in DOMAIN pools |-> NoPool]
  /\ cycle' = [c \in Cycles |-> Idle]
  /\ expiry' = [e \in Expiries |-> Idle]
  /\ UNCHANGED <<made, admitted, remaining, late, told, handedBack>>

PoolNext == \/ \E o \in DarkOrders : Admit(o) \/ Deadline(o)
        \/ \E c \in Cycles : MatchStart(c) \/ MatchReport(c)
        \/ \E e \in Expiries : ExpiryStart(e) \/ ExpiryHandOn(e)
        \/ PoolRestart

PoolSpec == PoolInit /\ [][PoolNext]_poolVars

-----------------------------------------------------------------------------
PoolTypeOK ==
  /\ made \in Nat /\ book \in 0 .. made
  /\ pools \in Seq([buys : Seq(DarkOrders), sells : Seq(DarkOrders)]) /\ Len(pools) = made
  /\ admitted \subseteq DarkOrders /\ late \subseteq admitted
  /\ remaining \in [DarkOrders -> Nat] /\ \A o \in DarkOrders : remaining[o] <= Qty[o]
  /\ cycle \in [Cycles -> [pool : 0 .. made,
                           todo : Seq([order : DarkOrders, qty : Nat \ {0}])]]
  /\ expiry \in [Expiries -> [pool : 0 .. made, todo : Seq(DarkOrders)]]
  /\ told \in [DarkOrders -> Nat] /\ handedBack \in [DarkOrders -> Nat]

(* Whatever cycles and sweeps overlap: what was reported of an order, what *)
(* a suspended cycle will still report, and what was handed back to the    *)
(* lit market never come to more than the order.  Nothing is traded after  *)
(* its residual was handed on, and no residual is handed on twice.         *)
Due(todo, o) ==
  SumFunctionOnSet([i \in DOMAIN todo |-> IF todo[i].order = o THEN todo[i].qty ELSE 0],
                   DOMAIN todo)

ToReport(o) == SumFunctionOnSet([c \in Cycles |-> Due(cycle[c].todo, o)], Cycles)

QuantityConserved ==
  \A o \in DarkOrders :
    /\ told[o] + ToReport(o) + handedBack[o] <= Qty[o]
    /\ o \in admitted => told[o] + ToReport(o) <= Qty[o] - remaining[o]

(* A pool in which orders rest leaves the map.                             *)
Abandoned == book # 0 /\ Resting(pools[book]) # {} /\ book' # book

(* The end of an invocation that took another pool than the map's.         *)
HeldAnother ==
  \/ \E c \in Cycles : MatchReport(c) /\ cycle[c].pool # book
  \/ \E e \in Expiries : ExpiryHandOn(e) /\ expiry[e].pool # book

(* How far the loss that RestingOrdersInBook is about goes: while the      *)
(* process lives, only an invocation that took an older pool before its    *)
(* sends takes resting orders out of the map (dark-pool-server.ts:183 and  *)
(* :246).  One that ends on the pool it took never does, whatever was      *)
(* admitted to it, matched or swept in the meantime.                       *)
LostToStale == [][Abandoned => PoolRestart \/ HeldAnother]_poolVars

(* dark-pool.mdx:36: "Every EXPIRY_SWEEP_MS the pool looks for orders      *)
(* unmatched for longer than ORDER_TIMEOUT_MS and handles them".  It can   *)
(* only find those in the pool the map holds.                              *)
RestingOrdersInBook ==
  \A p \in DOMAIN pools : Resting(pools[p]) # {} => p = book
=============================================================================
