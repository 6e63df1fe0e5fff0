-------------------------------- MODULE Clearing ------------------------------
(***************************************************************************)
(* The RFQ service with its dealer and its sell side, the central          *)
(* counterparty, and the bus between them, which also carries fills of the *)
(* EMS and the dark pool to the counterparty.                              *)
(***************************************************************************)
EXTENDS Rfq, SellSide, Ccp, FiniteSetsExt

CONSTANTS DayLength,   \* of a calendar day, in units of the clock
          VenueFills,  \* orders with a fill of the EMS or the dark pool
          MaxRfqs      \* bound: RFQs, of either side, in a life of the service

ASSUME ClearingAssumption == /\ RfqOrders \cup VenueFills \subseteq Trades
                             /\ \A c \in 0 .. MaxClock : c \div DayLength \in 0 .. MaxDay

vars == <<rfqVars, sellSideVars, ccpVars, sending, bus>>

(* Work is waiting: RFQs, each of them two messages to the CCP, or fills.  *)
Init ==
  /\ RfqInit /\ SellSideInit /\ CcpInit
  /\ requests \in SUBSET RfqOrders
  /\ sending = {}
  /\ \E fills \in SUBSET VenueFills :
       /\ 2 * Cardinality(requests) + Cardinality(fills) <= MaxNovations
       /\ bus = {[topic |-> "orders.filled", order |-> o, by |-> <<"venue", 0, 0>>] : o \in fills}

(* One process serves both sides of the RFQ: its sell-side records and ids *)
(* start over with it.                                                     *)
RestartService ==
  /\ RestartRfq
  /\ sellSide' = [s \in SellSideRfqs |-> "none"]
  /\ puts' = [h \in Puts |-> NoPut]
  /\ UNCHANGED <<newOrders, ccpVars>>

(* The clock of the RFQ service and the calendar of the CCP.               *)
Tick ==
  /\ PassTime
  /\ today' = clock' \div DayLength
  /\ UNCHANGED <<sellSideVars, obligations, accountVars, sweeps, overtaken>>

(* A producer's send reaches the bus, or its rejection is swallowed.       *)
Settle ==
  /\ \E m \in sending : Written(m) \/ Lost(m)
  /\ UNCHANGED <<rfqVars, sellSideVars, ccpVars>>

RfqsTaken == Len(rfqs) + Cardinality({s \in SellSideRfqs : sellSide[s] # "none"})

(* Bound: sell-side requests, which share nothing with the CCP, are made   *)
(* while it has nothing to do.                                             *)
CcpUnused == obligations = <<>> /\ bus = {}

TakeUp ==
  /\ RfqsTaken < MaxRfqs
  /\ \/ (\E o \in RfqOrders : RequestRfq(o)) /\ UNCHANGED sellSideVars
     \/ /\ CcpUnused
        /\ \E s \in SellSideRfqs : SubmitSellSide(s)
        /\ UNCHANGED <<rfqVars, sending, bus>>
  /\ UNCHANGED ccpVars

Next ==
  \/ TakeUp
  \/ RfqStep /\ UNCHANGED <<sellSideVars, ccpVars>>
  \/ SellSideStep /\ UNCHANGED <<rfqVars, ccpVars, sending, bus>>
  \/ RestartService
  \/ CcpStep /\ UNCHANGED <<rfqVars, sellSideVars>>
  \/ Settle \/ Tick

Spec == Init /\ [][Next]_vars

(* Time passes, consumers read what is there, timers fire, dealers answer  *)
(* within their latency, and sends settle; nothing is assumed of users.    *)
FairSpec ==
  /\ Spec
  /\ WF_vars(Tick)
  /\ WF_vars(Settle)
  /\ WF_vars((\E r \in DOMAIN rfqs : \/ AskDealers(r) \/ CloseWindow(r)
                                     \/ \E d \in Dealers : DealerAnswers(r, d))
             /\ UNCHANGED <<sellSideVars, ccpVars>>)
  /\ WF_vars((\E x \in executing : ReportFill(x)) /\ UNCHANGED <<sellSideVars, ccpVars>>)
  /\ WF_vars((\E m \in bus : Novate(m)) /\ UNCHANGED <<rfqVars, sellSideVars>>)
  /\ WF_vars((\E h \in Sweeps : StartSettlement(h) \/ ContinueSettlement(h))
             /\ UNCHANGED <<rfqVars, sellSideVars>>)

-----------------------------------------------------------------------------
States == {"PENDING", "QUOTED", "EXECUTED", "EXPIRED", "NO_QUOTES"}

RfqRecord == [order : RfqOrders, state : States, quotes : Seq(Dealers),
              bestQuote : Dealers \cup {None}, executedQuote : Dealers \cup {None},
              createdAt : 0 .. MaxClock, stored : BOOLEAN,
              phase : {"announcing", "quoting"}, asked : SUBSET Dealers, closes : Nat]

TypeOK ==
  /\ clock \in 0 .. MaxClock
  /\ life \in 0 .. MaxRestarts
  /\ requests \subseteq RfqOrders
  /\ uncommitted \subseteq RfqOrders
  /\ rfqs \in Seq(RfqRecord)
  /\ executing \subseteq [exec : 1 .. execSeq, order : RfqOrders]
  /\ posts \in [Posts -> [phase : {"idle", "reading"}, rfq : Nat]]
  /\ executions \subseteq [order : RfqOrders, exec : Nat, life : 0 .. MaxRestarts]
  /\ expiries \subseteq [order : RfqOrders, life : 0 .. MaxRestarts]
  /\ sellSide \in [SellSideRfqs -> {"none", "CLIENT_REQUEST", "SALES_MARKUP",
                                    "CLIENT_CONFIRMATION", "CONFIRMED", "REJECTED"}]
  /\ puts \in [Puts -> [rfq : SellSideRfqs \cup {Nobody},
                        action : SellSideActions \cup {"none", "ordering"}]]
  /\ newOrders \in [SellSideRfqs -> Nat]
  /\ today \in 0 .. MaxDay
  /\ obligations \in Seq([trade : Trades, posted : BOOLEAN,
                          settled : BOOLEAN, queued : BOOLEAN])
  /\ initialMarginPosted \in [Users -> Nat]
  /\ positions \in [Users -> Int]
  /\ sweeps \in [Sweeps -> 0 .. Len(obligations)]
  /\ overtaken \subseteq Users

(* A life of the service brings a parent order to one outcome at most,     *)
(* whatever the POSTs, the late quotes and the end of the window race for: *)
(* one execution, or one expiry, and then no dealer had quoted; and a      *)
(* sell-side request becomes at most one order, confirmed, not rejected.   *)
OneOutcome ==
  /\ \A x, y \in executions : x.order = y.order /\ x.life = y.life => x = y
  /\ \A x \in executions, e \in expiries : x.order = e.order => x.life # e.life
  /\ \A r \in DOMAIN rfqs : rfqs[r].state # "EXPIRED"
  /\ \A s \in SellSideRfqs :
       /\ newOrders[s] <= 1 + life
       /\ life = 0 /\ newOrders[s] > 0 => sellSide[s] = "CONFIRMED"

(* What ended stays as it ended, quotes and all, until the service is      *)
(* started again.                                                          *)
OutcomeIsFinal ==
  [][ life' = life =>
        /\ \A r \in DOMAIN rfqs :
             ~Open(r) => /\ rfqs'[r].state = rfqs[r].state
                         /\ rfqs'[r].quotes = rfqs[r].quotes
                         /\ rfqs'[r].executedQuote = rfqs[r].executedQuote
        /\ \A s \in SellSideRfqs :
             sellSide[s] \in {"CONFIRMED", "REJECTED"} => sellSide'[s] = sellSide[s] ]_vars

Obligations(u) == {i \in DOMAIN obligations : Owner(i) = u}
MarginOf(i) == Margin[obligations[i].trade]
SignedOf(i) == Signed[obligations[i].trade]
Posted(i) == obligations[i].posted

(* A user's position is what was booked less what was settled, and the     *)
(* margin posted is exactly the margin of the obligations that are booked  *)
(* and unsettled, unless a sweep has overtaken a novation of the user;     *)
(* even then the margin never falls short of that.                         *)
MarginMatchesObligations ==
  \A u \in Users :
    LET posted   == {i \in Obligations(u) : Posted(i)}
        released == {i \in Obligations(u) : obligations[i].settled}
        due      == MapThenSumSet(MarginOf, posted) - MapThenSumSet(MarginOf, released)
    IN /\ initialMarginPosted[u] >= due
       /\ u \notin overtaken =>
            /\ initialMarginPosted[u] = due
            /\ positions[u] = MapThenSumSet(SignedOf, posted) - MapThenSumSet(SignedOf, released)

AllCleared == \A i \in DOMAIN obligations : obligations[i].settled /\ ~obligations[i].queued

(* Every RFQ taken up comes to an outcome unless the service is started    *)
(* again, and every obligation is settled and leaves the queue.            *)
EveryTradeClears ==
  /\ \A o \in RfqOrders :
       o \in uncommitted ~> \/ life > 0
                            \/ \E x \in executions \cup expiries : x.order = o
  /\ obligations # <<>> ~> AllCleared
=============================================================================
