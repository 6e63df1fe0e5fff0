---------------------------------- MODULE Rfq --------------------------------
(***************************************************************************)
(* The dealer side of the RFQ service (rfq/rfq-service.ts): a bond order   *)
(* is offered to dealers, their quotes are collected while the window is   *)
(* open, and one of them is executed, by the user's POST or when the       *)
(* window closes.                                                          *)
(*                                                                         *)
(* One action is one uninterrupted stretch of JavaScript.  processRfq, the *)
(* promises of its dealers and any number of POST handlers hold the same   *)
(* record across their awaits.  Left out: prices (Rank says which quote    *)
(* selectBestQuote prefers), the updates for the screen and for FIX, which *)
(* only take time, and requests without a bond.                            *)
(***************************************************************************)
EXTENDS Integers, Sequences, FiniteSets, OrderBus

CONSTANTS RfqOrders,   \* orders on orders.fi.rfq
          Dealers,     \* dealers an RFQ is sent to
          Rank,        \* how good a dealer's quote is, the best is least
          Posts,       \* POST /rfq/:id/execute requests being handled
          Window,      \* QUOTE_WINDOW_MS, in units of the clock
          Retention,   \* RFQ_RETENTION_MS
          MaxClock,    \* bound of the clock
          MaxRestarts, \* bound: restarts of the service
          None

ASSUME RfqAssumption == /\ Rank \in [Dealers -> Nat]
                        /\ Window \in Nat /\ Retention \in Nat
                        /\ MaxClock \in Nat /\ MaxRestarts \in Nat
                        /\ None \notin Dealers

VARIABLES
  clock,        \* Date.now()
  life,         \* restarts of the service so far
  requests,     \* orders.fi.rfq messages to be consumed
  uncommitted,  \* consumed by this life, their offset not committed yet
  rfqs,         \* the records of this life, rfqId is the index
  execSeq,      \* execIds handed out by this life
  executing,    \* executeRfq calls awaiting their send to rfq.executed
  posts,        \* the POST handlers
  executions,   \* history: executions of any life
  expiries      \* history: orders reported as expired, by which life

rfqVars == <<clock, life, requests, uncommitted, rfqs, execSeq, executing, posts,
             executions, expiries>>

NoPost == [phase |-> "idle", rfq |-> 0]

RfqInit ==
  /\ clock = 0
  /\ life = 0
  /\ uncommitted = {}
  /\ rfqs = <<>>
  /\ execSeq = 0
  /\ executing = {}
  /\ posts = [h \in Posts |-> NoPost]
  /\ executions = {}
  /\ expiries = {}

Open(r) == rfqs[r].state \in {"PENDING", "QUOTED"}

-----------------------------------------------------------------------------
(* The orders.fi.rfq consumer starts processRfq, which stores the record   *)
(* and awaits the first update of the screen.                              *)
RequestRfq(o) ==
  /\ o \in requests
  /\ requests' = requests \ {o}
  /\ uncommitted' = uncommitted \cup {o}
  /\ rfqs' = Append(rfqs, [order |-> o, state |-> "PENDING", quotes |-> <<>>,
                           bestQuote |-> None, executedQuote |-> None,
                           createdAt |-> clock, stored |-> TRUE,
                           phase |-> "announcing", asked |-> {}, closes |-> 0])
  /\ UNCHANGED <<clock, life, execSeq, executing, posts, executions, expiries, sending, bus>>

(* The dealers are asked all at once and the wait for the window starts.   *)
AskDealers(r) ==
  /\ rfqs[r].phase = "announcing"
  /\ rfqs' = [rfqs EXCEPT ![r].phase = "quoting", ![r].asked = Dealers,
                          ![r].closes = clock + Window]
  /\ UNCHANGED <<clock, life, requests, uncommitted, execSeq, executing, posts,
                 executions, expiries, sending, bus>>

(* The first of the best quotes; None of none.                             *)
SelectBestQuote(quotes) ==
  IF quotes = <<>> THEN None
  ELSE quotes[CHOOSE i \in DOMAIN quotes :
                \A j \in DOMAIN quotes : \/ Rank[quotes[i]] < Rank[quotes[j]]
                                         \/ Rank[quotes[i]] = Rank[quotes[j]] /\ i <= j]

(* Mutant: the state is not looked at again after the dealer's latency.    *)
TakeQuoteLate(r, d) ==
  [rfqs[r] EXCEPT !.asked = @ \ {d}, !.quotes = Append(@, d), !.state = "QUOTED",
                  !.bestQuote = SelectBestQuote(Append(rfqs[r].quotes, d))]

(* The record after the quote of dealer d came in.                         *)
TakeQuote(r, d) ==
  IF Open(r)
  THEN [rfqs[r] EXCEPT !.asked = @ \ {d}, !.quotes = Append(@, d), !.state = "QUOTED",
                       !.bestQuote = SelectBestQuote(Append(rfqs[r].quotes, d))]
  ELSE [rfqs[r] EXCEPT !.asked = @ \ {d}]

(* A dealer's latency is over: it declines, as it does after expiresAt, or *)
(* it quotes.                                                              *)
DealerAnswers(r, d) ==
  /\ d \in rfqs[r].asked
  /\ \/ rfqs' = [rfqs EXCEPT ![r].asked = @ \ {d}]
     \/ /\ clock < rfqs[r].createdAt + Window
        /\ rfqs' = [rfqs EXCEPT ![r] = TakeQuote(r, d)]
  /\ UNCHANGED <<clock, life, requests, uncommitted, execSeq, executing, posts,
                 executions, expiries, sending, bus>>

-----------------------------------------------------------------------------
By(n) == <<"exec", life, n>>

Trade(topic, o, n) == [topic |-> topic, order |-> o, by |-> By(n)]

(* Mutant: executeRfq trusts the check its callers made.                   *)
ExecuteUnchecked(r, d) ==
  /\ execSeq' = execSeq + 1
  /\ rfqs' = [rfqs EXCEPT ![r].state = "EXECUTED", ![r].executedQuote = d]
  /\ executing' = executing \cup {[exec |-> execSeq + 1, order |-> rfqs[r].order]}
  /\ executions' = executions \cup {[order |-> rfqs[r].order, exec |-> execSeq + 1,
                                     life |-> life]}
  /\ Send(Trade("rfq.executed", rfqs[r].order, execSeq + 1))

(* executeRfq up to its first await; a no-op for an RFQ that has ended.    *)
ExecuteRfq(r, d) ==
  IF Open(r)
  THEN /\ execSeq' = execSeq + 1
       /\ rfqs' = [rfqs EXCEPT ![r].state = "EXECUTED", ![r].executedQuote = d]
       /\ executing' = executing \cup {[exec |-> execSeq + 1, order |-> rfqs[r].order]}
       /\ executions' = executions \cup {[order |-> rfqs[r].order, exec |-> execSeq + 1,
                                          life |-> life]}
       /\ Send(Trade("rfq.executed", rfqs[r].order, execSeq + 1))
  ELSE UNCHANGED <<rfqs, execSeq, executing, executions, sending>>

(* executeRfq goes on with the fill for the journal, the OMS and the CCP.  *)
ReportFill(x) ==
  /\ x \in executing
  /\ Settled(By(x.exec))
  /\ executing' = executing \ {x}
  /\ Send(Trade("orders.filled", x.order, x.exec))
  /\ UNCHANGED <<clock, life, requests, uncommitted, rfqs, execSeq, posts, executions,
                 expiries, bus>>

(* expireRfq does not look at the state; EXPIRED and the orders.expired it *)
(* reports are for a window without quotes as well.                        *)
ExpireRfq(r) ==
  /\ rfqs' = [rfqs EXCEPT ![r].state = IF rfqs[r].quotes = <<>> THEN "NO_QUOTES" ELSE "EXPIRED"]
  /\ expiries' = expiries \cup {[order |-> rfqs[r].order, life |-> life]}

(* Mutant: an RFQ without quotes is left alone.                            *)
EndOfWindowForgetful(r) ==
  /\ rfqs[r].quotes # <<>>
  /\ ExecuteRfq(r, SelectBestQuote(rfqs[r].quotes))
  /\ UNCHANGED expiries

(* What processRfq does with an open RFQ when the window is over.          *)
EndOfWindow(r) ==
  IF rfqs[r].quotes # <<>>
  THEN ExecuteRfq(r, SelectBestQuote(rfqs[r].quotes)) /\ UNCHANGED expiries
  ELSE ExpireRfq(r) /\ UNCHANGED <<execSeq, executing, executions, sending>>

(* All dealers have answered and the window is over; nothing is left to do *)
(* for an RFQ that was executed before.                                    *)
CloseWindow(r) ==
  /\ rfqs[r].phase = "quoting"
  /\ rfqs[r].asked = {}
  /\ clock >= rfqs[r].closes \/ clock = MaxClock
  /\ Open(r)
  /\ EndOfWindow(r)
  /\ UNCHANGED <<clock, life, requests, uncommitted, posts, bus>>

-----------------------------------------------------------------------------
(* POST /rfq/:id/execute finds the RFQ open and awaits its body.           *)
PostExecute(h, r) ==
  /\ posts[h].phase = "idle"
  /\ rfqs[r].stored
  /\ Open(r)
  /\ posts' = [posts EXCEPT ![h] = [phase |-> "reading", rfq |-> r]]
  /\ UNCHANGED <<clock, life, requests, uncommitted, rfqs, execSeq, executing,
                 executions, expiries, sending, bus>>

(* The body names a dealer, or none.  A dealer that has not quoted, and an *)
(* RFQ without quotes, are refused.  The reply comes after executeRfq and  *)
(* changes nothing.                                                        *)
PostReads(h) ==
  LET r == posts[h].rfq
  IN /\ posts[h].phase = "reading"
     /\ \E d \in Dealers \cup {None} :
          LET quoted == {rfqs[r].quotes[i] : i \in DOMAIN rfqs[r].quotes}
              chosen == IF d # None THEN d ELSE SelectBestQuote(rfqs[r].quotes)
          IN IF chosen \in quoted
             THEN ExecuteRfq(r, chosen)
             ELSE UNCHANGED <<rfqs, execSeq, executing, executions, sending>>
     /\ posts' = [posts EXCEPT ![h] = NoPost]
     /\ UNCHANGED <<clock, life, requests, uncommitted, expiries, bus>>

-----------------------------------------------------------------------------
(* The retention sweep forgets old records, also those still in use.       *)
PruneRfqs ==
  /\ \E r \in DOMAIN rfqs : rfqs[r].stored /\ rfqs[r].createdAt + Retention < clock
  /\ rfqs' = [r \in DOMAIN rfqs |->
                [rfqs[r] EXCEPT !.stored = @ /\ rfqs[r].createdAt + Retention >= clock]]
  /\ UNCHANGED <<clock, life, requests, uncommitted, execSeq, executing, posts,
                 executions, expiries, sending, bus>>

(* The consumer's offset passes a request whose handler has returned.      *)
CommitRequest(o) ==
  /\ o \in uncommitted
  /\ uncommitted' = uncommitted \ {o}
  /\ UNCHANGED <<clock, life, requests, rfqs, execSeq, executing, posts, executions,
                 expiries, sending, bus>>

(* The process is started again: its memory and the sends it was waiting   *)
(* for are gone, its counters start over, and what was not committed is    *)
(* consumed again.                                                         *)
RestartRfq ==
  /\ life < MaxRestarts
  /\ life' = life + 1
  /\ requests' = requests \cup uncommitted
  /\ uncommitted' = {}
  /\ rfqs' = <<>>
  /\ execSeq' = 0
  /\ executing' = {}
  /\ posts' = [h \in Posts |-> NoPost]
  /\ sending' = {m \in sending : m.topic \notin {"rfq.executed", "orders.filled"}}
  /\ UNCHANGED <<clock, executions, expiries, bus>>

PassTime ==
  /\ clock < MaxClock
  /\ clock' = clock + 1
  /\ UNCHANGED <<life, requests, uncommitted, rfqs, execSeq, executing, posts,
                 executions, expiries, sending, bus>>

RfqStep ==
  \/ \E o \in RfqOrders : CommitRequest(o)
  \/ \E r \in DOMAIN rfqs :
       \/ AskDealers(r)
       \/ \E d \in Dealers : DealerAnswers(r, d)
       \/ CloseWindow(r)
       \/ \E h \in Posts : PostExecute(h, r)
  \/ \E h \in Posts : PostReads(h)
  \/ \E x \in executing : ReportFill(x)
  \/ PruneRfqs
=============================================================================
