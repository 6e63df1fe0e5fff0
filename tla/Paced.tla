-------------------------------- MODULE Paced -------------------------------
(***************************************************************************)
(* IS, ARRIVAL_PRICE and MOMENTUM (algo/is-strategy.ts,                    *)
(* arrival-price-strategy.ts, momentum-strategy.ts): on a tick they send a *)
(* child when the pace and the market allow it, whether or not the one     *)
(* before was answered.  They are three processes of one shape; a          *)
(* behaviour is one of them, `strategy'.                                   *)
(*                                                                         *)
(* One action is one uninterrupted stretch of JavaScript.  An invocation   *)
(* of the tick callback holds the `now' and the view of the market it had  *)
(* when it started, and the snapshot of the map, across its sends.         *)
(*                                                                         *)
(* The view of an order is what prices come to: not priced, or moved       *)
(* against the order by more than maxSlippageBps, or in its favour (below  *)
(* arrival for a BUY; an EMA signal over the threshold for MOMENTUM), or   *)
(* neither.  Left out: costBasis, and a restart.                           *)
(***************************************************************************)
EXTENDS OwnBooks, Integers

CONSTANTS Strategies,    \* of "IS", "ARRIVAL_PRICE", "MOMENTUM"
          PacedOrders, PacedQty,
          Urgency,       \* algoParams.urgency, per cent
          MinSlices, MaxSlices,
          BaseInterval,  \* BASE_SLICE_INTERVAL_SECS
          MaxTranches, CooldownTicks, LongPeriod,
          DepthCaps,     \* values depthSliceCap takes
          PacedTicks, PacedSweep

ASSUME PacedAssumption ==
  /\ Strategies \subseteq {"IS", "ARRIVAL_PRICE", "MOMENTUM"}
  /\ PacedQty \in [PacedOrders -> Nat \ {0}]
  /\ None \notin PacedOrders
  /\ Urgency \in 0 .. 100
  /\ MinSlices \in Nat \ {0} /\ MaxSlices \in Nat /\ MinSlices <= MaxSlices
  /\ BaseInterval \in Nat \ {0}
  /\ MaxTranches \in Nat \ {0} /\ CooldownTicks \in Nat \ {0} /\ LongPeriod \in Nat \ {0}
  /\ DepthCaps \subseteq Nat \ {0}
  /\ PacedSweep \notin PacedTicks

PacedCallbacks == PacedTicks \cup {PacedSweep}

VARIABLES
  strategy,     \* which of the three this process is
  queue,        \* the keys of activeOrders, in their order of insertion
  book,         \* the fields of its orders; the callbacks that hold an order
                \*   still see them when it left the map
  paceLoop,     \* per callback, where in the loop it is suspended
  unanswered    \* history: orders a child was sent for while another was on
                \*   its way or back, or after they had left the map

pacedVars == <<strategy, queue, book, paceLoop, unanswered>>

Queued == {queue[i] : i \in DOMAIN queue}

NoBook == [remaining |-> 0, filled |-> 0, slices |-> 0, lastSliceAt |-> 0, expiresAt |-> 0,
           paused |-> FALSE, ticksSeen |-> 0, cooldown |-> 0]

(* `next' is what comes after the send that is awaited: the other orders   *)
(* of the snapshot, the rest of the pass over `order', or its heartbeat.   *)
AtRest == [now |-> 0, todo |-> <<>>, view |-> <<>>, order |-> None, next |-> "orders"]

PacedInit ==
  /\ strategy \in Strategies
  /\ queue = <<>>
  /\ book = [o \in PacedOrders |-> NoBook]
  /\ paceLoop = [h \in PacedCallbacks |-> AtRest]
  /\ unanswered = {}

-----------------------------------------------------------------------------
(* The orders.routed consumer queues the order.                            *)
PacedRouted(o) ==
  /\ book[o] = NoBook
  /\ clock + Lifetime <= MaxClock
  /\ queue' = Append(queue, o)
  /\ book' = [book EXCEPT ![o] = [NoBook EXCEPT !.remaining = PacedQty[o],
                                                !.expiresAt = clock + Lifetime]]
  /\ UNCHANGED <<clock, strategy, paceLoop, unanswered, sending, bus>>

DropQueued(o) == queue' = RemoveFirst(queue, o)

(* The orders.filled consumer.                                             *)
PacedFill(m) ==
  /\ m \in bus
  /\ m.topic = "orders.filled" /\ m.order \in PacedOrders
  /\ bus' = bus \ {m}
  /\ IF m.order \in Queued
     THEN LET left == Less(book[m.order].remaining, m.qty)
          IN /\ book' = [book EXCEPT ![m.order].filled = @ + m.qty,
                                     ![m.order].remaining = left]
             /\ IF left = 0 THEN DropQueued(m.order) ELSE UNCHANGED queue
     ELSE UNCHANGED <<queue, book>>
  /\ UNCHANGED <<clock, strategy, paceLoop, unanswered, sending>>

-----------------------------------------------------------------------------
Rounded(a, b) == (2 * a + b) \div (2 * b)    \* Math.round(a / b)
RoundedUp(a, b) == (a + b - 1) \div b        \* Math.ceil(a / b)

(* buildSliceSchedule: u is clamped to 0.01 .. 0.99, the weights decay by  *)
(* 1 - u, and the first slice takes what rounding leaves.                  *)
Decay == 100 - Larger(1, Smaller(99, Urgency))

NumSlices == Rounded(100 * MinSlices + Decay * (MaxSlices - MinSlices), 100)

Power(b, n) ==
  LET power[k \in Nat] == IF k = 0 THEN 1 ELSE b * power[k - 1] IN power[n]

Weight(i) == Power(Decay, i - 1) * Power(100, NumSlices - i)

SliceShare(o, i) ==
  Rounded(Weight(i) * PacedQty[o], MapThenSumSet(Weight, 1 .. NumSlices))

Scheduled(o, i) ==
  IF i = 1
  THEN PacedQty[o] - MapThenSumSet(LAMBDA k : SliceShare(o, k), 2 .. NumSlices)
  ELSE IF i <= NumSlices THEN SliceShare(o, i) ELSE 0

TargetSlices == RoundedUp(Lifetime, BaseInterval)

(* Mutant: the limit to what remains is missing.                           *)
RequestedUnlimited(o) ==
  CASE strategy = "IS"            -> Scheduled(o, book[o].slices + 1)
    [] strategy = "ARRIVAL_PRICE" -> RoundedUp(PacedQty[o], TargetSlices)
    [] strategy = "MOMENTUM"      -> RoundedUp(PacedQty[o], MaxTranches)

(* The size of the next child, before the depth of the market caps it.     *)
Requested(o) ==
  Smaller(book[o].remaining,
          CASE strategy = "IS"            -> Scheduled(o, book[o].slices + 1)
            [] strategy = "ARRIVAL_PRICE" -> RoundedUp(PacedQty[o], TargetSlices)
            [] strategy = "MOMENTUM"      -> RoundedUp(PacedQty[o], MaxTranches))

(* now - lastSliceAt >= duration / slices, a fifth less in a favourable    *)
(* market.  The clock of the code is far beyond any duration from the      *)
(* start: a first child is always due.                                     *)
Spaced(run, o, duration, slices) ==
  \/ book[o].slices = 0
  \/ 10 * slices * (run.now - book[o].lastSliceAt)
       >= duration * (IF run.view[o] = "favourable" THEN 8 ELSE 10)

IsDue(run, o) == /\ book[o].slices < NumSlices
                 /\ Spaced(run, o, Lifetime, NumSlices)

ArrivalDue(run, o) == Spaced(run, o, 50 * Lifetime, Larger(1, Urgency) * TargetSlices)

MomentumDue(run, o) == /\ book[o].ticksSeen >= LongPeriod
                       /\ run.view[o] = "favourable"
                       /\ book[o].cooldown = 0
                       /\ book[o].slices < MaxTranches

SliceDue(run, o) ==
  /\ CASE strategy = "IS"            -> IsDue(run, o)
       [] strategy = "ARRIVAL_PRICE" -> ArrivalDue(run, o)
       [] strategy = "MOMENTUM"      -> MomentumDue(run, o)
  /\ Requested(o) > 0

-----------------------------------------------------------------------------
(* What an invocation holds once it has dealt with an order.               *)
After(run) ==
  IF run.todo = <<>> THEN AtRest
  ELSE LET ahead == {run.todo[i] : i \in DOMAIN run.todo}
       IN [run EXCEPT !.view = [o \in ahead |-> run.view[o]], !.order = None,
                      !.next = "orders"]

(* It goes on with order o itself.                                         *)
With(run, o, next) ==
  LET ahead == {run.todo[i] : i \in DOMAIN run.todo}
  IN [run EXCEPT !.view = [p \in ahead \cup {o} |-> run.view[p]], !.order = o, !.next = next]

Beat(h, run, o) ==
  /\ Send(Report("algo.heartbeat", o, h))
  /\ paceLoop' = [paceLoop EXCEPT ![h] = run]
  /\ UNCHANGED unanswered

OnItsWay(o) == \E m \in sending \cup bus :
                 m.order = o /\ m.topic \in {"orders.child", "orders.filled"}

(* A child is counted, then sent.                                          *)
SendSlice(h, run, o) ==
  /\ SliceDue(run, o)
  /\ \E cap \in DepthCaps :
       Send(Child(o, book[o].slices + 1, Smaller(Requested(o), cap), h))
  /\ book' = [book EXCEPT ![o].slices = @ + 1,
                          ![o].lastSliceAt = run.now,
                          ![o].cooldown = IF strategy = "MOMENTUM" THEN CooldownTicks ELSE @]
  /\ paceLoop' = [paceLoop EXCEPT ![h] = With(run, o, "heartbeat")]
  /\ unanswered' = IF OnItsWay(o) \/ o \notin Queued
                   THEN unanswered \cup {o} ELSE unanswered

Priced(run, o) == run.view[o] # "unpriced"
TimeOver(run, o) == Priced(run, o) /\ run.now >= book[o].expiresAt

(* The order's time is over.                                               *)
PacedExpire(h, run, o) ==
  /\ TimeOver(run, o)
  /\ DropQueued(o)
  /\ Send(Report("orders.expired", o, h))
  /\ paceLoop' = [paceLoop EXCEPT ![h] = After(run)]
  /\ UNCHANGED <<book, unanswered>>

(* IS pauses when the drift is adverse, goes on when it is not, and says   *)
(* either once.                                                            *)
IsPass(h, run, o) ==
  LET adverse == run.view[o] = "adverse"
  IN \/ /\ adverse # book[o].paused
        /\ book' = [book EXCEPT ![o].paused = adverse]
        /\ Beat(h, IF adverse THEN After(run) ELSE With(run, o, "slice"), o)
     \/ /\ ~adverse /\ ~book[o].paused
        /\ SendSlice(h, run, o)

IsQuiet(run, o) ==
  IF run.view[o] = "adverse" THEN book[o].paused
  ELSE ~book[o].paused /\ ~SliceDue(run, o)

(* ARRIVAL_PRICE says so on every tick it is paused for.                   *)
ArrivalPass(h, run, o) ==
  \/ /\ run.view[o] = "adverse"
     /\ Beat(h, After(run), o)
     /\ UNCHANGED book
  \/ /\ run.view[o] # "adverse"
     /\ SendSlice(h, run, o)

ArrivalQuiet(run, o) == run.view[o] # "adverse" /\ ~SliceDue(run, o)

(* MOMENTUM counts the tick and says its signal; then it looks at the      *)
(* order again.  (ticksSeen is not counted beyond the longest period.)     *)
MomentumPass(h, run, o) ==
  /\ book' = [book EXCEPT ![o].ticksSeen = Smaller(LongPeriod, @ + 1),
                          ![o].cooldown = Less(@, 1)]
  /\ Beat(h, With(run, o, "slice"), o)

(* A sweep looks at the time alone.                                        *)
Quiet(run, o) ==
  \/ ~Priced(run, o)
  \/ /\ ~TimeOver(run, o)
     /\ \/ run.view[o] = "swept"
        \/ strategy = "IS" /\ IsQuiet(run, o)
        \/ strategy = "ARRIVAL_PRICE" /\ ArrivalQuiet(run, o)

Pass(h, run, o) ==
  \/ PacedExpire(h, run, o)
  \/ /\ Priced(run, o) /\ ~TimeOver(run, o) /\ run.view[o] # "swept"
     /\ \/ strategy = "IS" /\ IsPass(h, run, o)
        \/ strategy = "ARRIVAL_PRICE" /\ ArrivalPass(h, run, o)
        \/ strategy = "MOMENTUM" /\ MomentumPass(h, run, o)
     /\ UNCHANGED queue

(* The for loop, up to the first order that needs a send.                  *)
PacedLoop(h, run) ==
  \/ /\ \A i \in DOMAIN run.todo : Quiet(run, run.todo[i])
     /\ paceLoop' = [paceLoop EXCEPT ![h] = AtRest]
     /\ UNCHANGED <<queue, book, unanswered, sending>>
  \/ \E i \in DOMAIN run.todo :
       /\ \A j \in 1 .. i - 1 : Quiet(run, run.todo[j])
       /\ Pass(h, [run EXCEPT !.todo = SubSeq(@, i + 1, Len(@))], run.todo[i])

AtLeisure(h) == paceLoop[h] = AtRest /\ Settled(h)

(* A market tick arrives.                                                  *)
PacedTick(h) ==
  /\ AtLeisure(h)
  /\ \E view \in [Queued -> {"unpriced", "adverse", "level", "favourable"}] :
       PacedLoop(h, [AtRest EXCEPT !.now = clock, !.todo = queue, !.view = view])
  /\ UNCHANGED <<clock, strategy, bus>>

(* setInterval fires the sweep of startExpirySweep.                        *)
PacedSweeps ==
  /\ AtLeisure(PacedSweep)
  /\ PacedLoop(PacedSweep, [AtRest EXCEPT !.now = clock, !.todo = queue,
                                          !.view = [o \in Queued |-> "swept"]])
  /\ UNCHANGED <<clock, strategy, bus>>

(* A callback goes on after the send it awaited was settled.               *)
PacedResume(h) ==
  /\ Settled(h)
  /\ LET run == paceLoop[h]
     IN /\ run # AtRest
        /\ CASE run.next = "orders" -> PacedLoop(h, run)
             [] run.next = "heartbeat" ->
                  Beat(h, After(run), run.order) /\ UNCHANGED <<queue, book>>
             [] run.next = "slice" ->
                  \/ SendSlice(h, run, run.order) /\ UNCHANGED queue
                  \/ ~SliceDue(run, run.order) /\ PacedLoop(h, After(run))
  /\ UNCHANGED <<clock, strategy, bus>>

(* A pending send settles.                                                 *)
PacedSettle ==
  /\ \E m \in {c \in sending : c.by \in PacedCallbacks} :
       \/ m.topic = "orders.child" /\ Written(m)
       \/ Lost(m)
  /\ UNCHANGED <<clock, pacedVars>>
=============================================================================
