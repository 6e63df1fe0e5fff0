# A TLA+ model of the Veta trading platform's order flow

The platform is a set of Node services that talk over a Redpanda bus. This
directory specifies the part of it that decides what happens to an order and to the
trade it becomes, the bus client they all use, and the queue of the advisory service;
it checks the specifications with TLC, and proves the most important invariants with
TLAPS. Paths below are relative to `src/backend/src/` unless they say otherwise.

## The system

```
 gateway -- orders.new --> OMS -- orders.routed --> algorithms -- orders.child --> EMS
    |                      ^  \                        ^   ^                        |
    +---- orders.kill -----+   \-- orders.fi.rfq       |   +----- orders.filled ----+
                           |       -> RFQ service      |          (journal, CCP and
                    orders.cancelled                   |           risk engine too)
                                              dark pool (reroutes residuals)
```

All state that matters to a live order is in the memory of one process, in maps
and in the objects the maps hold; only the advisory queue is in Postgres. Each
service is single threaded, but nearly every handler awaits sends, HTTP calls or
timers, and the handlers of one process interleave at those points. That is where
the hard behaviours are:

- market ticks call `onTick` callbacks without waiting for them, so several tick
  handlers of one algorithm are suspended at once, each with its own snapshot of
  the orders;
- the consumer stops waiting for a handler after 5 s and hands it the next
  message while it is still running (`lib/messaging.ts:362-384`);
- a failed send is nearly always swallowed with `.catch(() => {})`, and where it is not
  (SNIPER) the rejection may be of a message the broker has;
- a service that dies is restarted by supervisord and has forgotten everything;
- a broken connection to Postgres makes a statement throw with or without effect, or
  take effect twice (`withPgRetry`).

### Components

| component | state | operations | what makes it correct | modelled |
| --- | --- | --- | --- | --- |
| OMS (`oms/oms-server.ts`, `daily-notional.ts`) | active orders by client id, daily notional ledger, limits cache | admission of `orders.new`, `orders.kill`, `orders.resume` relay, orphan expiry | the daily limit holds under overlapping admissions; kills reach every accepted order and nobody else's; a killed order is not routed | `Oms` |
| ICEBERG (`algo/iceberg-strategy.ts`, `common-http.ts`) | a map of orders with remaining, slice size, in-flight flag | routed order, fill, tick, expiry sweep | one slice at a time, no over-execution, books that match the EMS, every order retires | `Iceberg`, `IcebergExecution` |
| EMS (`ems/ems-server.ts`) | none | answer a child with at most one fill | never fills more than the child | `Ems` |
| dark pool (`dark-pool/`) | a pool of buys and sells per asset | admission, match cycle, expiry sweep | no quantity counted twice, every resting order is found again | `DarkPool` |
| bus client (`lib/messaging.ts`) | slots in flight, waiters, connection loops, dedupe window, offsets | send, reconnect, disconnect, consume, commit, crash | bound on sends, no lost slot, one loop, no message handled twice or skipped | `Messaging`; `OrderBus` is what the order flow sees of it |
| SNIPER (`algo/sniper-strategy.ts`) | orders with in-flight quantity and cooldown | routed order, tick, fill, expiry sweep | routes no more than is available | `Sniper`, `SniperExecution` |
| LIMIT, VWAP, POV (`algo/`) | orders with one in-flight child, set of orders being evaluated | routed order, tick, progress sweep | one child in flight, no quantity sent twice, every order ends | `TickSlicer`, `FillProgress`, `SlicerExecution` |
| TWAP (`algo/twap-strategy.ts`) | a timer loop per order | routed order, slice, close | the same | `Twap`, `FillProgress`, `SlicerExecution` |
| RFQ service (`rfq/`) | RFQs and their quotes, sell-side requests | quote window, manual execution, retention; sell-side submit, route, markup, confirm, reject | one outcome, which stays | `Rfq`, `SellSide`, `Clearing` |
| CCP (`ccp/`) | legs, margin accounts, settlement queue | novate, post margin, settle | margin and positions match the obligations; all settle | `Ccp`, `Clearing` |
| advisory (`llm-advisory/`) | the table of jobs, the workers | enqueue, claim, note, give back, cancel, sweep | one job, worker and note per context; a final state stays; every job ends | `JobStore`, `AdvisoryWorker`, `AdvisoryOrchestrator`, `Advisory` |
| IS, ARRIVAL_PRICE, MOMENTUM (`algo/`) | orders with what remains, slices sent, pause or cooldown | routed order, tick, fill, expiry sweep | books that match the EMS; no more sent than the order's quantity | `Paced`, `SniperExecution` |
| risk engine; journal, gateway, FIX, user service | | | | not modelled, see below |
| market data, analytics, news, frontend | | | | not modelled: they change no order |

`PROJECT.json` lists every component with its sources, and every hazard found in
the code with the line where it bites.

## The modules

| module | what it specifies |
| --- | --- |
| `OrderBus` | a send that suspends its caller, then is written or lost; an unordered topic |
| `ParentOrder` | the abstract promise of an execution algorithm: idle, live, retired, spent; one child at a time |
| `Iceberg` | the ICEBERG process |
| `Ems` | the EMS's answer to a child order |
| `IcebergExecution` | the composition of the three above, its properties, and the refinement mapping to `ParentOrder` |
| `IcebergProofs` | theorems about `IcebergExecution`, and that it implements `ParentOrder` |
| `DarkPool` | the dark pool for one asset, with `matchSymbol` as a recursive function |
| `Oms` | the OMS |
| `OmsDarkPoolProofs` | theorems about `Oms` and `DarkPool` |
| `Messaging` | the bus client: a producer, a topic, a consumer |
| `MessagingProofs` | theorems about `Messaging` |
| `OwnBooks` | what SNIPER, IS, ARRIVAL_PRICE and MOMENTUM share |
| `Sniper` | the SNIPER process |
| `Paced` | IS, ARRIVAL_PRICE, MOMENTUM: one shape, told apart by `strategy` |
| `SniperExecution` | the last two with the EMS and the bus |
| `SniperProofs` | theorems about `SniperExecution` |
| `FillProgress` | what TWAP, VWAP, POV and LIMIT share: the journal's answer and the budget made of it |
| `TickSlicer` | LIMIT, VWAP, POV: one shape, told apart by `CopiesMap` |
| `Twap` | TWAP |
| `SlicerExecution` | the last three with the EMS, the journal and the bus |
| `SlicerProofs` | theorems about `SlicerExecution` |
| `Rfq`, `SellSide`, `Ccp` | the dealer side and the sell side of the RFQ service; the CCP |
| `Clearing` | the three composed, and their properties |
| `ClearingProofs` | theorems about `Clearing` |
| `JobStore` | the advisory queue in Postgres |
| `AdvisoryWorker`, `AdvisoryOrchestrator` | the two kinds of processes that use it |
| `Advisory` | their composition and its properties |
| `AdvisoryProofs` | theorems about `Advisory` |
| `Facts` | lemmas of the proof modules about sums over finite sets and over ranges of positions, and that a set of naturals has a least element |
| `...MC` | small instances for TLC |

### How an action corresponds to code

One action is one uninterrupted stretch of JavaScript: from the start of a handler,
or from the end of an `await`, to the next `await` or the end of the handler.

**ICEBERG.** `RoutedOrder` and `FillEvent` are the two consumers. `OnTick`,
`ExpirySweep` and `Resume` run the loop of the tick callback and of the sweep up to
its next send (`RunLoop`): the loop passes over the orders there is nothing to do
for, and stops where it expires an order or sends a slice. `loop[h]` is what a
suspended invocation has left to walk, with the `now` and the prices it was
started with (`due`, `triggered`). `sending` holds the sends that are awaited. The
object of an order survives its removal from the map for the loops that still hold
it, so its fields are functions on all orders and `activeOrders` is only the map.
`Send`, `Written` and `Lost` are the moments of a send: a consumer may see the message
before its sender continues. A rejection may follow either of the last two (the broker
wrote the message and its answer never came), and the senders that swallow it do the
same in both cases; SNIPER does not, and `Rejected` is its way to tell them apart.

**Dark pool.** A pool is a JavaScript object that invocations keep hold of across
awaits, so pools are numbered, `book` is the one the map holds now, and a suspended
cycle or sweep remembers the number it took. `MatchStart` and `ExpiryStart` do all
that happens before the first send; `MatchReport` and `ExpiryHandOn` settle one send
and, after the last, do the emptiness check that deletes the map's entry.

**OMS.** `phase[m]` names the await the handler of an `orders.new` is suspended at.
`Receive`, `LimitsFetched`, `RiskAllowed`, `Priced`, `LotSized` and `Route` are the
stretches between them in the order of the code; `Reserve` is the tail of the two
that decide on the notional. `Reject` is every early return that follows a check
whose fields the properties do not tell apart. The kill handler is `KillReceived`
(permission, selection, first cancel) and `CancelSent` (the following ones).
Restarting the OMS may present any handled `orders.new` again.

**Bus client.** `phase[s]` is the await a `send` is suspended at: for a slot, with
its slot, for the connection, for the broker. `CallSend`, `WaitForConnection`,
`Proceed`, `SendAcknowledged` and `SendFailed` are the stretches in between;
`ReleaseSlot` is the `finally` that hands a slot to the next waiter. `loops` counts
the `connectLoop` invocations at work. The consumer's `position` and `committed` are
kafkajs's offsets; `HandlerLeft` is the end of the race between a handler and its
timeout, whoever wins.

**SNIPER.** As ICEBERG, with a second level: `loop[h]` also holds the round of the
order that a callback is in (venues left, quantity available when the round began,
quantity dispatched), for it awaits a send per venue. `Route` chooses the next leg,
`EndRound` sets the cooldown and awaits the heartbeat. `Rejected` is the `catch` of a
leg: when the round goes on, its reservation is taken back and it is not counted as
dispatched, whether the child was lost or written. `unbooked` counts the shares of
the written ones, which the code does not know of.

**IS, ARRIVAL_PRICE, MOMENTUM.** `strategy` is the process a behaviour has. `Pass` is
the body of its `for` loop for one order, up to the send it awaits (`IsPass`,
`ArrivalPass`, `MomentumPass`), `Quiet` says it awaits none. `paceLoop[h].next` is what
follows the send: the other orders, the rest of the pass (IS after its `resumed`
heartbeat, MOMENTUM after its `signal` heartbeat), or the heartbeat of a child.
`Scheduled` is `buildSliceSchedule`, in whole per cents. What prices come to is the
`view` a tick has of an order.

**LIMIT, VWAP, POV, TWAP.** `OnTick` and `NextOrder` are the `for` loop with its
`evaluating` set; `Answer` is the journal's reply, read at one moment and used at a
later one by `Evaluate` (`readSliceBudget` and what follows it); `AfterSend` records
the child after the send. `StartSweep`, `SweepOrder` and `AfterOutcome` are
`startJournalProgressSweep`. With `CopiesMap` a loop uses the order objects that were
in the map when it began. `Twap` is the loop of `executeTWAP`, one stretch at a time.

**RFQ service.** `RequestRfq`, `AskDealers`, `DealerAnswers` and `CloseWindow` are
`processRfq` and the promises it starts; `PostExecute` and `PostReads` the two halves
of the POST, before and after its body is read. `ExecuteRfq` is the stretch of
`executeRfq` with the state check; `ReportFill` its second send. `RestartRfq` starts
the counters over, and presents again what was not committed. `ReceivePut`, `ApplyPut`
and `SendNewOrder` are a sell-side PUT before its body, after it, and after the
screen's update.

**CCP.** `Novate` is `novate` up to its first await, `PostInitialMargin` what follows
its second. `SettleNext` is the body of the settlement sweep from one report to the
next.

**Advisory.** One action is one statement at the store with what its caller does
before the next. `Sound` and `Fault` say whether the connection held; with a fault the
statement may have taken effect, not, or twice. `work[w]` is the await a worker is at.

### What is left out, and why it does not matter here

- Prices, cost basis, fees, telemetry and message fields: nothing modelled depends
  on them. A tick is the set of orders it prices and triggers; a depth cap is a
  value of a small set.
- How much the EMS fills: any quantity up to the child, or no answer at all.
- A child order whose fill's send fails is one that gets no answer; `executed` is what
  the EMS has told the platform.
- The ICEBERG model takes each order from `orders.routed` once. A second message
  for the same order (a redelivery after a restart, a residual rerouted by the dark
  pool) replaces the entry; no statement of the code says what should become of the
  slice in flight. The same holds of the other algorithms.
- A restart of an algorithm other than ICEBERG: it forgets the orders for good, and
  nothing is claimed of them then. ICEBERG's restart is modelled.
- A bus message is consumed once in the compositions; `Messaging` says under what
  conditions that is so.
- The CCP's restart, cost basis and variation calls; the RFQ's prices (`Rank` says
  which quote is preferred) and its messages for the screen and FIX, which only take time.
- What makes an advisory candidate, the prompt, the model, audits and worker sessions.
- Several assets in one match cycle or sweep: a cycle that goes on to another pool
  is the same as another cycle started on it.
- An OMS limits lookup reads the user's limit at the moment it answers.
- `orders.resume` and the orphan sweep of the OMS publish messages and change none
  of its state.

## The runs

| run | question | bounds | result |
| --- | --- | --- | --- |
| `iceberg` | the invariants, the refinement of `ParentOrder` and liveness | 2 orders (2 shares and 1), 2 overlapping ticks, 1 sweep, depth caps 1 and 2 | pass |
| `iceberg_stale` | is a slice ever larger than what remains? | the same with 1 tick callback | violated |
| `darkpool_lost` | is every resting order in the pool the map holds? | the dark pool of `oms_darkpool` with 1 cycle, 1 sweep | violated |
| `oms_darkpool` | OMS: the daily limit, the kill switch's reach and scope. Dark pool: conservation of quantity, how orders are lost | OMS: 3 orders of 2 users, one market order, one reused client id, 2 trading days, 2 overlapping kills, limits 1 and 2. Dark pool: 2 buys, 2 sells of sizes 1 and 2, 2 midpoints, 2 cycles, 2 sweeps. A behaviour exercises one of the two | pass |
| `oms_kill` | is a cancelled order still routed? | the OMS of `oms_darkpool` with 1 kill | violated |
| `messaging` | slots, reconnection, the dedupe window, no skipped message, liveness | 3 sends, 2 slots and 1 waiting place, window 1, 1 repeated write, 1 crash of the consumer's connection | pass |
| `sniper` | reservations, books, when is too much sent? | SNIPER with 1 order of 2 shares, 1 or 2 venues, or IS, ARRIVAL_PRICE or MOMENTUM with 1 of 3 shares and 2 slices; 2 overlapping ticks, 1 sweep, 2 rounds, 1 child rejected though written, clock 0..2 | pass |
| `sniper_unsafe` | is what SNIPER has available safe to route? | the same with 1 tick | violated |
| `slicer` | one child, quantity, removal, liveness | a VWAP/POV order or a TWAP order of 2 shares, 2 overlapping ticks and the sweep, 3 slices, clock 0..3 | pass |
| `limit_stale` | has LIMIT ever two children in flight? | 2 LIMIT orders of 1 share, 2 ticks and the sweep | violated |
| `clearing` | outcomes, margin and positions, liveness | 1 bond order with 2 dealers and a POST, or 2 venue fills; 1 sell-side request with 2 overlapping PUTs; 1 restart; 2 sweeps | pass |
| `advisory` | one job per context, final states, liveness | 2 jobs of 1 context, 2 workers, 2 triggers, 1 cancel, 2 attempts, 1 fault, 1 restart of the orchestrator | pass |

**Why these bounds.** Every hazard above needs two invocations, and most two orders: one
to be suspended, one to change what it relies on. Two tick callbacks and a sweep
give three invocations of ICEBERG; an order of two shares is the smallest that can be
sliced, partly filled and left with a remainder, and one of two shares at once can
be partly filled too. In the dark pool two orders a side with unequal sizes make
partial fills on either side and a pool that empties while another invocation holds
it. With two slots, two sends of one dead connection fail together while the third
waits for a slot; a window of one id is the
smallest that forgets, and three messages are what it takes to get past it. A SNIPER
order of two shares on two venues has a second leg to go wrong after the first; the clock of 2
lets it cool down and expire in a round. Two rounds are the fewest in which a share is
routed again after its reservation was released, and one rejected child is enough to
release it. Three shares in two slices are two unequal ones
for IS, and for MOMENTUM tranches that do not divide the order. A behaviour has orders of
SNIPER or of one of those three: the processes share nothing. (Two orders of one process
and two ticks are too many states; what one order misses is a tick of ARRIVAL_PRICE
suspended at another order, the like of which MOMENTUM has at its own heartbeat.) Two units of settle time and slices let a
child be given up and filled late. In `clearing` an RFQ is two messages for the CCP,
and two obligations of different sign and due day are the least that overlap in two
sweeps; sell-side requests are made while the CCP has nothing to do, with which they
share nothing. In `advisory` two workers, two triggers and a cancel over one context
are the least that collide; one fault at any statement is enough for each exemption of
the properties. In the OMS two orders of one user compete for a limit that holds one of them,
and the third shares a client id with the first. The bounds that are not the code's
are named: `LastDay` (OMS), `MaxRepeats`, `MaxCrashes` (bus client), `MaxChildren`,
`MaxUnbooked` (SNIPER), `MaxClock`,
`MaxRouted`, `MaxRestarts`, `MaxRfqs`, `MaxNovations`, `MaxDay`, `MaxJobs`,
`MaxFaults` and `MaxStarts`; slice counts and quantities are bounded by the
orders themselves, and the number of orders is that of the messages. Quantities are
those of the orders in units of one share, so no integer width matters.

**Deadlock** is not checked: each system may really stop when every order was seen,
retired and the clock has run out.

### What the passing runs show

- `OneSliceAtATime`: ticks that overlap do not double a slice, since the flag is set
  before the send and is only taken back by the fill. It also holds of expired orders
  and across a restart.
- `ExecutionBounded`: an order is executed within its quantity unless it was filled
  completely, and then by one slice more at most.
- `BooksMatchEms`: the books of a working order differ from the EMS by the one fill
  on its way, even when fills are smaller than the child.
- `ImplementsParentOrder`: every step of ICEBERG, the EMS and the bus is a step of
  `ParentOrder` or leaves it unchanged. `stage` maps an order in the map to *live* and
  one that left it to *retired*, or *spent* if a slice of it is unaccounted for.
- `EveryOrderRetires`: see fairness below.
- `QuantityConserved`: what was reported of a dark order, is still to be reported by
  a suspended cycle, and was handed back to the lit market never exceeds the order.
- `LostToStale`: but for a restart, the map lets go of a pool in which orders rest only
  when a cycle or sweep ends that had taken another pool before its sends. One that ends
  on the pool the map holds never does, whatever happened to it in the meantime.
- `WithinDailyLimit`: overlapping admissions do not exceed a limit the user can have,
  and the ledger is exactly the sum of the accepted orders of its day.
- `KillableUntilCancelled`: no kill of others, and no two kills that overlap, take an
  accepted order out of the kill switch's reach without cancelling it. It holds of
  orders whose client id is their own.
- `KillsStayInScope`: traders reach their own orders, admins those of the user they
  name, or those of the named strategy, symbol or market; also when a command is
  suspended over its selection while another is handled.
- `SlotsHeld`, `WaitersJustified`: the counter is the number of
  sends that hold a slot, whether it is released, handed over or given out by
  `disconnect`; no more than `maxInFlight` messages are on their way even then.
- `AlwaysReconnecting`: when several sends of one dead connection fail, exactly one
  `connectLoop` is at work while the producer is not connected. The `reconnecting` flag
  looks fragile (it is false during the very first attempt) but no send can fail before.
- `HandledOncePerWindow`, `CommittedWasHandled`, `WrittenIsHandled`: a repeat is caught
  by the window unless more than its size was handled in between; a crash skips nothing;
  all that is written is handled. The last two are of a group that has committed before:
  a new one starts at the end of the topic.
- `SendsSettle`: no send waits for ever, also not across a disconnect.
- `InFlightCovers`: SNIPER's reservation covers all that is on its way, though fills,
  acknowledgements and lost sends come in any order and releases are clamped at zero.
  What is missing is never more than the children whose send was rejected although the
  broker had them: they cost no other child its reservation.
- `OvercommitBounded`: SNIPER commits more than an order has left for two causes only.
  One is those children, and then by no more than their shares (`sniper_unsafe`). The
  other is two invocations in a round of the order at the same time: a round that has
  lasted longer than the cooldown of an earlier one, or one suspended before its cooldown
  is set, does not keep the next tick out, and the available quantity is read once, at
  the start of the round.
- `OverfillNeedsOverlap`: IS never sends more than the order's quantity, for each slice of
  its schedule is sent once. ARRIVAL_PRICE and MOMENTUM have no reservation: they execute
  too much when a child is sent while another is unanswered, or when a tick that was
  suspended sends for an order dropped meanwhile, whose fills no longer count. The
  invariant says there is no third way; without either exemption TLC finds a
  counterexample.
- `OneChildInFlight`: VWAP, POV and TWAP keep to it, for `evaluating` is held from the
  look at the order to the write of its child; LIMIT does not (below).
- `WithinQuantity`: what is out for an order stays within it, but for children given up
  after `CHILD_SETTLE_MS` whose fill was late. With a journal that lags by more than
  that, an order is executed beyond its quantity.
- `RemovedForGood`, `EveryOrderEnds`: the sweep and a tick may evaluate an order at once,
  and a journal that never answers does not keep an order alive.
- `OneOutcome`, `OutcomeIsFinal`: the POST, late quotes and the end of the window cannot
  execute an RFQ twice, nor change it afterwards; a sell-side request that is confirmed
  and rejected at once becomes one or the other. They are per life of the service: an
  RFQ whose request was not committed is executed again after a restart, under an execId
  used before, and one whose request was committed is forgotten. The state `EXPIRED` is never reached: a window with quotes executes, one
  without is `NO_QUOTES`.
- `MarginMatchesObligations`: overlapping sweeps release an obligation once, and margin
  and positions are those of the obligations booked and unsettled, unless a sweep settled
  one before its margin was posted. There the code goes wrong: the margin stays posted,
  and the position of a user without an account is never taken back. It is a statement per
  novation: an RFQ trade is novated twice, from `rfq.executed` and from `orders.filled`.
- `EachContextOnce`, `FinalStays`: one job per context and window, one worker and one note
  per job, and a final state stays, but for the mishaps they name, each of which the run
  reaches: two triggers between look and insert, a retried insert, a lost claim, a sweep
  of a job whose worker lives, a cancel after the claim.
- `EveryTradeClears`, `EveryJobEnds`: see fairness below.

### What the violated runs show

- `iceberg_stale` (`algo/iceberg-strategy.ts:173`). A tick handler awaits the send for
  one order; the last fill of the next order in its snapshot arrives; the handler goes
  on to that order, whose `currentSliceQty` was not cleared, and sends a slice of a
  finished order.
- `darkpool_lost` (`dark-pool/dark-pool-server.ts:183`). A cycle and a sweep hold the
  same emptied pool; the first to finish deletes the map's entry, a new order makes a
  new pool, and the second deletes that one with the order in it. `LostToStale` says
  that there is no other way.
- `oms_kill` (`oms/oms-server.ts:518`). A kill takes an order out of the map while its
  admission awaits the send of `orders.submitted`; the handler then routes it. By the
  theorem `OnlyAcceptedCancelled` a kill sends a cancel only for orders that have passed
  every check, so while the process lives that await is the only window.
- `sniper_unsafe` (`algo/sniper-strategy.ts:264`). The send of a child is rejected, and
  SNIPER gives its reservation back; but the broker had written it and only the answer
  was late. After the cooldown the same shares count as "not already committed to child
  orders and therefore safe to route" (`sniper-math.ts:1`), and the next tick routes them
  again. It takes one order and one tick handler, and no overlap.
- `limit_stale` (`algo/limit-strategy.ts:133`). Two ticks of LIMIT walk copies of the map
  made before either sent a child. The one that is suspended over the first order comes
  to the second after the other has sent its child and is done with it; it looks at the
  old object, sees nothing in flight, and sends the remainder again. The playbook
  (`add-algo-strategy.mdx:92`) says at most one child is in flight.

### Where a document says something else

One disagreement is shown by a theorem and has no run of its own. The dark pool's page
(`docs/site/src/content/docs/platform/dark-pool.mdx:20`) says that a cycle crosses
compatible pairs "splitting fills proportionally if quantities don't line up".
`matchSymbol` does not (`dark-pool/dark-pool-matching.ts:51`): it walks the two queues
from their heads and gives each pair all that the smaller of the two has left. The
theorem `MatchesFifo` says that, at every midpoint, the first admitted orders of the
larger side are filled in full and those behind get the rest or nothing. With one
seller of 10,000 and two buyers of 10,000 each, the first buyer gets all of it and the
second nothing, where a proportional split would give each 5,000. Either the page or
the code should change.

### Fairness

Every `FairSpec` assumes only what the code does by itself, never a message, a user or
an answer of another system; weak fairness is enough throughout, since nothing but a
restart disables these steps for good.

`iceberg`: the clock reaches each
order's expiry, the sweep's `setInterval` fires, a suspended callback continues once
its send is settled, and every send is settled. The last is what the producer does:
it reconnects for ever with backoff and rejects what the broker refuses
(`lib/messaging.ts:184-207`, `240-251`). Nothing is assumed of ticks, fills or the EMS:
`EveryOrderRetires` says an order leaves the map even if every one of its messages is
lost.

`messaging`: continuations run, the broker answers a send one way or the other, an
attempt to connect succeeds in the end (the loops retry for ever), the consumer
reconnects (a timer does), kafkajs hands over what is there, and a handler is awaited for
5 s at most. `SendsSettle` and `WrittenIsHandled` need all of these.

`slicer`: the clock, the sweep's timer, TWAP's timers, sends, and the journal's answer,
which may be that there is none (`AbortSignal.timeout`). Nothing of ticks, EMS or journal
consumer.

`clearing`: the clock, the consumers of the CCP and the RFQ service, dealers' latencies
(a timer), sends and the settlement sweep's timer. Nothing of users and PUTs.
`EveryTradeClears` says that an RFQ taken up is executed or expires unless the service is
restarted, and that every obligation is settled and leaves the queue.

`advisory`: each worker takes its next step (one that ends is started again).
`EveryJobEnds` says a job becomes done, failed or cancelled, or is orphaned: running,
with no worker. Only a start of the orchestrator frees an orphan, and nothing is assumed
of that.

## What is proved

TLAPS checks these for every value of the constants, from nothing but the assumptions
on them that the modules name:

- `Iceberg`: quantities and slice sizes are positive, ticks and sweeps are different
  callbacks;
- `Oms`: every order has an owner in `Users` and a client id or none;
- `Messaging`: finitely many sends, a positive number of slots and window size;
- `JobStore`, `AdvisoryOrchestrator`: `MaxRetries` is positive, `NoContext` is no context,
  the bounds are naturals;
- `FillProgress`, `TickSlicer`, `Twap`, `SlicerExecution`: quantities and the settle time
  are positive, the sweep is no tick, an order has one strategy;
- `OwnBooks`, `Sniper`, `Paced`, `SniperExecution`: quantities, urgencies and the number
  of slices are what admission lets through, the clock's bound is a natural, callbacks
  and orders of one strategy are not those of another;
- `Rfq`, `SellSide`: a dealer's quote has a rank, `None` and `Nobody` are nobody;
- `Ccp`, `Clearing`: a trade has a user and a margin that is no less than nothing, every
  order that can be executed is a trade, and `MaxDay` is a day no clock passes.

`IcebergProofs` proves `TypeCorrect`, `OneSlice`, `BoundedExecution` and
`AccurateBooks` from one inductive invariant, `IInv`. None of the properties is
inductive alone:

- to send a second slice the flag must be down while a slice is under way, so
  `SliceUnique` adds that `sliceInFlight` is set for every message under way and that
  no message is both in the producer and on a topic;
- to bound execution one needs the books: `BooksAddUp` says that filled and remaining
  make the order's quantity and that the next slice does not exceed what remains
  *unless nothing remains*, which is the stale slice;
- `SliceBounded` bounds the slice under way by what remains, or by the visible quantity
  once nothing does;
- `ExecutedKnown` relates the EMS to the books: they agree when the flag is down, and
  differ by the fill on its way when it is up;
- `OnlyRouted` says nothing is known of an order that was not routed.

There is one lemma per action (`RoutedOrderIInv`, `SendSliceIInv`, `FillEventIInv`,
`HandleChildOrderIInv`, ...) and `NextIInv` combines them.

Its second part proves `IcebergImplementsParent`: `Spec => ImplementsParentOrder` under
the mapping at the end of `IcebergExecution` (`Stage` of an order, the quantity that is
under way). There is one lemma per abstract step (`AcceptStep`, `WorkStep`,
`AnswerStep`, ...) that says what a concrete step must do to the mapped state to be
that step, and one per concrete step that shows which it is:

| concrete step | abstract step |
| --- | --- |
| `RoutedOrder` | `Accept` |
| sending a slice (`RunLoop`) | `Work`, or `Straggle` when the order has been retired |
| `HandleChildOrder`, a child that is lost | `Answer` |
| an expiry, the fill that completes the order | `Retire` |
| `Restart` | `RetireAll` |
| all others | a stutter |

The invariant of `IcebergProofs` is what makes the mapping work: `SliceUnique` gives
"one child at a time", and `ExecutedKnown` with `BooksAddUp` that a live order's slice
does not take what is executed beyond the order's quantity.

Sums over sets (of notionals, shares, margins) are folds of the community modules, which
no backend can unfold. `Facts` shows once what the proofs need of them: a sum changes
by what an element adds or takes away, is the same over equal weights, and grows with
its set. As the induction theorems are out of reach, each of these is shown by taking the
smallest finite set that would be a counterexample (`LeastNat`).

The first part of `OmsDarkPoolProofs` is about the dark pool and proves
`PoolTypeCorrect`, `QuantityIsConserved`, `LostToStaleOnly` and `MatchesFifo` (the order
in time in which the code fills, about which no run asks). Before anything can be said
of what `matchSymbol` returns, its walk over the two queues has to be shown to be
defined: a recursive function in TLA+ is *some* function that obeys its equation, if
there is one. Every round goes past an order of one side at least (`TogoFalls`), so such
a function exists (`WalkerExists`), any two agree (`WalkersAgree`), and what each round
keeps holds at the end (`WalkKeeps`). `Conserves` is what a round keeps of the
quantities: what it reports of an order it takes from it. `Crossed` is what it keeps of
the order in time: with `T` crossed so far, on each side the orders before the walk's
place gave all they could, those after it nothing, and the one at it the rest (`Fits`);
at the end of the walk `T` is the smaller side's total, which is `CrossesFifo`.

The inductive invariant is `PoolInv`. `OnePlace` says an order stands once, in one pool
or in what one sweep has still to hand on, else a walk could fill it twice. `BackOnce`
says that an order that was handed back stands nowhere any more, `Unseen` that one not
yet admitted has left no trace, `Suspended` that an invocation with nothing left to
send is over, and `Accounts` that what was told, is still to be reported and remains
does not exceed the order; `QuantityConserved` follows from it with `BackOnce`. The
proof needs finitely many suspended calls (`CyclesAssumption`, or the sum over them
would be no number); the orders may be any number of any sizes.

Its second part is about the OMS and proves `OmsTypeCorrect`, `AcceptedOrdersKillable`,
`KillsScoped` and `DailyLimitKept`, and `OnlyAcceptedCancelled` about the run
`oms_kill`. `KillableUntilCancelled` is inductive over the types: an order joins the map
in the step that makes it killable, and only its own cancel or one with its client id
takes it out. `KillsStayInScope` needs the orders a suspended kill has still to cancel
to be in scope. `WithinDailyLimit` needs the limit a suspended handler fetched before
its last await to be one the user was given (`HeldLimits`), the ledger's entry to be of
the last day the user was charged on (`DaysKnown`), so that a new day starts from
nothing, and that an order is charged once (`NotTwice`).

`MessagingProofs` proves the six safety properties of the run `messaging`. The invariant has
four parts. `Slots`: `inFlight` counts the sends that hold a slot, which needs each
waiting send to be in the queue once, or the slot a release hands over would be given
to two. `Connection`: a loop is at work while `reconnecting` is set, which is what
keeps `handleDisconnect` from starting another. `LogType`. `Consumed`: the dedupe window
is the tail of what was handled, so within it nothing is handled twice, and every
position below the offset to be committed was handled.

`AdvisoryProofs` proves `OnceEach` and `FinalIsFinal`. Neither is inductive: a worker
that writes to the store acts on what it read two statements ago. `Knows` says what a
worker at each phase knows of its job unless the job met a mishap (another worker was
let in, a connection broke, ...), `Orderly` bounds the notes and attempts of such a
job, and `StillAllowed` says that a trigger between its check and its insert is still
right to insert. `StatementIInv` is the step of any one statement on one job,
`WorkerIInv` that of a worker; each action is an instance of them.

Its third theorem, `TypeCorrect`, bounds the attempts of every job, those with mishaps
too: `MAX_RETRIES`, and one more for each start of the orchestrator. (That the number of
workers bounds them, which holds in the run's instance, is false with several restarts:
three workers and three starts have a counterexample.) After a sweep several workers
may hold one job; one that read it long ago can set its count back, and one that fails
last writes a count past `MAX_RETRIES`. `Attempted` therefore counts the *load* of a job:
the workers on it that have yet to read it or would queue it again, and one if it is
queued. Only an insert and a sweep add to the load, a worker that takes the count to
`MAX_RETRIES` or beyond leaves it, and a count of `MAX_RETRIES` or more leaves room for
the load within the bound.

`ClearingProofs` proves `OneOutcomeEach` and `OutcomeStays`. `OneRecord` says an order
has one record in a life of the service, `OutcomeRecorded` that the record of an order
this life has ended says so, which is what the check at the start of `executeRfq` reads;
`PostsKnow` that a POST suspended over its body names a record that is there. On the
sell side `OneOrder` adds that one PUT at most has a confirmation's order to send.
`RecordChange` is the step of any one record, and each action is an instance of it.

It also proves `TypeCorrect` and `MarginKept`, the accounts of the CCP. `Balanced` says
the margin of a user is at least the weight of the posted obligations less that of the
settled ones, and exactly that, with the position likewise, for a user no sweep has
overtaken; `Overtakings` that an obligation is settled and not posted only of a user
who was. A sweep that settles before the novation has posted takes away margin that
is not there yet: the code stops at zero, and the posting that follows is what makes
the margin exceed what is due. `Traffic` says that every execution on its way is of a
trade the CCP knows.

`SlicerProofs` proves `OneChild` and `NotUndone` for VWAP, POV and TWAP. Both theorems
assume `~CopiesMap`, since for LIMIT the run `limit_stale` shows the opposite of the
first, and that `None` is no reference to a child. What a tick holds across its `await`
is the point of the invariant. `Claims` says a tick that works on an order has it in
`evaluating`, and no other tick does. `Covers(o, c)` says `c` refers to the one child of
`o` that is in flight, if there is one: what a busy tick holds covers its order
(`TicksCover`); when no tick is busy with it, the map's entry does (`MapCovers`).
`TicksCurrent` adds that a tick's child is the map's for as long as it waits for the
journal, and `Answered` that the answer it gets is still in the journal when it acts
on it, from which `SettleCovers` follows: `settleInFlight` lets go a child only when it
is filled or its time is over. `NextOrderInv` and `GiveBackInv` are the steps of the loop
that claim an order and give it back, `TwapChange` is any step of one TWAP order, and
`OutsideInv` a step of the journal, the EMS or the clock.

`TypeCorrect` of the same module is for all four strategies, LIMIT included: its point is
that no budget is negative. `QuantityKept`, for VWAP, POV and TWAP under the same two
assumptions, bounds what is out and executed by the order's quantity. An evaluation
computes its budget from the journal's answer and from the child it holds, and sends
later, so the invariant `Accounting` says what that evaluation knows: every child ever
sent of the order is the one it holds, or was given up, or has its fill in the rows it
was answered (`Knowledge`, for ticks, for the map when no tick is busy, and for TWAP's
loop). `Carried` says a child is in one place, on the bus, answered, or in the journal,
so that none is counted twice; `Numbered` that a new child has a new number; and
`Bounded` is the property.

`SniperProofs` proves all five safety properties of the run `sniper`. `Messages` says
that no two messages carry the same child, so a sum over what is under way changes by
what one of them carries. For SNIPER, `Covered` says that what is reserved of an order,
with its `unbooked` shares, covers the shares under way and the reservations of rejected
sends not yet undone; `RejectedKeeps` is the step that moves shares from one side of that
to the other. `Committed` says of an order no two invocations were in a round of that
what is reserved and what is under way are each within what remains and is unbooked,
and that the round in progress has taken from its available quantity what it added to
either; `OvercommitIsBounded` follows from it with `Alone`. For the others,
`OnSchedule` says IS has sent no more than the slices it has counted come to, and
`OneAtATime` that an order no child was sent for while another was unanswered has one
child under way, of no more than remains. `Pending` ties a callback's send to the round it is in. That the schedule
of IS adds up to the quantity for every urgency and number of slices needs
the weights of `buildSliceSchedule`: `Power`, a recursive function, is shown to be
defined by the least argument at which it would not be.

Every safety property that a passing run checks is thus proved. Only model-checked are
the liveness properties (`EveryOrderRetires`, `SendsSettle`, `WrittenIsHandled`,
`EveryOrderEnds`, `EveryTradeClears`, `EveryJobEnds`), which are out of the prover's
reach, and what the runs that expect a violation show.

## Not modelled

- **Risk engine.** Each check is one stretch over prices, volumes and positions; its
  verdict is a choice of the OMS model, so every verdict is covered. What its own
  counters are worth (a partial fill lowers the count of open orders,
  `risk-engine/risk-engine.ts:165`) is listed as a hazard.
- **EMS matching, order books, venue routing.** Pure functions over decimal prices and
  sizes. How much of a child crosses is any quantity, or nothing.
- **Remainders of IS and MOMENTUM.** A slice or tranche that the depth cap or the EMS cut
  short is not sent again: once `numSlices` or `maxTranches` were sent the rest waits for
  the expiry. And rounding can leave the first slice of IS nothing (6 shares, urgency
  0.01, ten slices of one share each): a slice of no shares is not sent and not counted,
  so none of the schedule is. Both are what the model does; no property is about them.
- **Dark pool and lit algorithm on one order.** Every algorithm takes an `orders.routed`
  by its strategy alone (`algo/limit-strategy.ts:69`), so an order sent to the dark pool
  is worked in the lit market as well. No statement of the repository says which
  should win.
- **CCP variation calls and restart.** `runMarginMtM` works on prices; a restart forgets
  every account, and nothing is claimed afterwards.
- **Journal, gateway, FIX, user service.** SQL, relays and a session protocol at
  the edge. What the order flow sees of them is an external action or an input.
- **Market data, analytics, news, synthetic trader, frontend.** They change no order.
  Large parts of the repository are data (generated universes, layouts, documentation).

## What could come next

In this order: SNIPER and the slicers as implementations of an abstract parent order
that may have several children; the risk engine's counters against the orders that are
open; the kill switch composed with an algorithm.
