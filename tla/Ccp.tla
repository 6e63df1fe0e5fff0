---------------------------------- MODULE Ccp --------------------------------
(***************************************************************************)
(* The central counterparty (ccp/ccp-service.ts, ccp/margin-math.ts): each *)
(* fill and each executed RFQ it reads is novated, which queues an         *)
(* obligation, and after two awaited sends posts initial margin and books  *)
(* a position; a sweep settles the obligations that are due and releases   *)
(* both again.                                                             *)
(*                                                                         *)
(* One action is one uninterrupted stretch of JavaScript: novations do not *)
(* wait for each other and sweeps may overlap.  Left out: cost basis and   *)
(* the variation calls made from it, netMarginRequired, which moves with   *)
(* the posted margin, the counters of the stats page, and a restart of the *)
(* service, which forgets every account.                                   *)
(***************************************************************************)
EXTENDS Integers, Sequences, OrderBus

CONSTANTS Trades,   \* orders whose executions reach the CCP
          Users, UserOf,
          Margin,   \* computeInitialMargin of a trade
          Signed,   \* its quantity, negative for a sale
          DueDay,   \* its settlement date
          MaxDay,   \* bound of the calendar
          MaxNovations, \* bound: messages the CCP reads
          Sweeps    \* runSettlementSweep invocations at once

ASSUME CcpAssumption == /\ UserOf \in [Trades -> Users]
                        /\ Margin \in [Trades -> Nat]
                        /\ Signed \in [Trades -> Int]
                        /\ MaxDay \in Nat
                        /\ DueDay \in [Trades -> 0 .. MaxDay]

VARIABLES
  today,
  obligations,        \* novations in the order they were made
  initialMarginPosted,
  positions,          \* of the one asset
  sweeps,             \* per sweep, the obligation whose report it awaits; 0
  overtaken           \* history: users with an obligation settled unposted

accountVars == <<initialMarginPosted, positions>>
ccpVars == <<today, obligations, accountVars, sweeps, overtaken>>

CcpInit ==
  /\ today = 0
  /\ obligations = <<>>
  /\ initialMarginPosted = [u \in Users |-> 0]
  /\ positions = [u \in Users |-> 0]
  /\ sweeps = [h \in Sweeps |-> 0]
  /\ overtaken = {}

Owner(i) == UserOf[obligations[i].trade]

(* getOrCreateMarginAccount makes it with the first margin that is posted. *)
HasAccount(u) == \E i \in DOMAIN obligations : Owner(i) = u /\ obligations[i].posted

(* A fill or an executed RFQ arrives: novate up to its first await.  The   *)
(* two consumers know nothing of each other's messages.                    *)
Novate(m) ==
  /\ m \in bus
  /\ m.topic \in {"orders.filled", "rfq.executed"}
  /\ Len(obligations) < MaxNovations
  /\ bus' = bus \ {m}
  /\ obligations' = Append(obligations,
                           [trade |-> m.order, posted |-> FALSE, settled |-> FALSE,
                            queued |-> TRUE])
  /\ UNCHANGED <<today, accountVars, sweeps, overtaken, sending>>

(* The reports on ccp.novation and ccp.settlement.queued are out, one      *)
(* after the other.                                                        *)
PostInitialMargin(i) ==
  LET t == obligations[i].trade
  IN /\ ~obligations[i].posted
     /\ obligations' = [obligations EXCEPT ![i].posted = TRUE]
     /\ initialMarginPosted' = [initialMarginPosted EXCEPT ![Owner(i)] = @ + Margin[t]]
     /\ positions' = [positions EXCEPT ![Owner(i)] = @ + Signed[t]]
     /\ UNCHANGED <<today, sweeps, overtaken, sending, bus>>

-----------------------------------------------------------------------------
(* Mutant: an obligation in the queue is due, settled or not.              *)
DueAgain(i) == obligations[i].queued /\ DueDay[obligations[i].trade] <= today

(* Mutant: due the day after.                                              *)
DueLate(i) == /\ obligations[i].queued
              /\ ~obligations[i].settled
              /\ DueDay[obligations[i].trade] < today

Due(i) == /\ obligations[i].queued
          /\ ~obligations[i].settled
          /\ DueDay[obligations[i].trade] <= today

(* Mutant: the released margin is not limited to what was posted.          *)
ReleasedUnclamped(posted, margin) == posted - margin

(* Math.max(0, posted - margin)                                            *)
Released(posted, margin) == IF posted >= margin THEN posted - margin ELSE 0

(* The sweep h, which has come past obligation `last', settles the next    *)
(* one that is due and awaits its report.  It walks the live map, so it    *)
(* meets those queued since it began.  A user without an account has       *)
(* nothing to release.                                                     *)
SettleNext(h, last, queue) ==
  LET ahead == {i \in last + 1 .. Len(queue) : Due(i)}
      next == CHOOSE i \in ahead : \A j \in ahead : i <= j
  IN IF ahead = {}
     THEN /\ sweeps' = [sweeps EXCEPT ![h] = 0]
          /\ obligations' = queue
          /\ UNCHANGED <<accountVars, overtaken>>
     ELSE /\ sweeps' = [sweeps EXCEPT ![h] = next]
          /\ obligations' = [queue EXCEPT ![next].settled = TRUE]
          /\ overtaken' = IF queue[next].posted THEN overtaken
                          ELSE overtaken \cup {Owner(next)}
          /\ LET t == queue[next].trade
             IN IF HasAccount(Owner(next))
                THEN /\ initialMarginPosted' =
                          [initialMarginPosted EXCEPT ![Owner(next)] = Released(@, Margin[t])]
                     /\ positions' = [positions EXCEPT ![Owner(next)] = @ - Signed[t]]
                ELSE UNCHANGED accountVars

(* setInterval fires the sweep, whether or not the last one is through.    *)
StartSettlement(h) ==
  /\ sweeps[h] = 0
  /\ \E i \in DOMAIN obligations : Due(i)
  /\ SettleNext(h, 0, obligations)
  /\ UNCHANGED <<today, sending, bus>>

(* The report of a settlement is out: its obligation leaves the queue.     *)
ContinueSettlement(h) ==
  /\ sweeps[h] # 0
  /\ SettleNext(h, sweeps[h], [obligations EXCEPT ![sweeps[h]].queued = FALSE])
  /\ UNCHANGED <<today, sending, bus>>

CcpStep ==
  \/ \E m \in bus : Novate(m)
  \/ \E i \in DOMAIN obligations : PostInitialMargin(i)
  \/ \E h \in Sweeps : StartSettlement(h) \/ ContinueSettlement(h)
=============================================================================
