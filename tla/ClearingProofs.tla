----------------------------- MODULE ClearingProofs ---------------------------
(***************************************************************************)
(* Theorems about Clearing, checked by TLAPS: for any number of requests,  *)
(* dealers, POSTs, PUTs, restarts and overlapping sweeps, a request comes  *)
(* to one outcome at most and keeps it, and the accounts of the central    *)
(* counterparty match its obligations.                                     *)
(***************************************************************************)
EXTENDS Clearing, SequenceTheorems, Facts, TLAPS

(* The part of the types that the outcomes depend on.                      *)
Types ==
  /\ clock \in 0 .. MaxClock
  /\ life \in Nat
  /\ requests \subseteq RfqOrders
  /\ uncommitted \subseteq RfqOrders
  /\ rfqs \in Seq(RfqRecord)
  /\ execSeq \in Nat
  /\ posts \in [Posts -> [phase : {"idle", "reading"}, rfq : Nat]]
  /\ executions \subseteq [order : RfqOrders, exec : Nat, life : Nat]
  /\ expiries \subseteq [order : RfqOrders, life : Nat]

(* An order has one record in a life of the service, taken from the topic. *)
OneRecord ==
  \A r \in DOMAIN rfqs :
    /\ rfqs[r].order \notin requests
    /\ \A q \in DOMAIN rfqs : rfqs[q].order = rfqs[r].order => q = r

(* This life has brought order o to an end, and its record says which.     *)
Ended(o, state) == \E r \in DOMAIN rfqs : rfqs[r].order = o /\ rfqs[r].state = state

OutcomeRecorded ==
  /\ \A x \in executions : x.life <= life /\ (x.life = life => Ended(x.order, "EXECUTED"))
  /\ \A e \in expiries : e.life <= life /\ (e.life = life => Ended(e.order, "NO_QUOTES"))

OneEnd ==
  /\ \A x, y \in executions : x.order = y.order /\ x.life = y.life => x = y
  /\ \A x \in executions, e \in expiries : x.order = e.order => x.life # e.life
  /\ \A r \in DOMAIN rfqs : rfqs[r].state # "EXPIRED"

PostsKnow == \A h \in Posts : posts[h].phase = "reading" => posts[h].rfq \in DOMAIN rfqs

RfqInv == Types /\ OneRecord /\ OutcomeRecorded /\ OneEnd /\ PostsKnow

SellSideTypes ==
  /\ sellSide \in [SellSideRfqs -> {"none", "CLIENT_REQUEST", "SALES_MARKUP",
                                    "CLIENT_CONFIRMATION", "CONFIRMED", "REJECTED"}]
  /\ puts \in [Puts -> [rfq : SellSideRfqs \cup {Nobody},
                        action : SellSideActions \cup {"none", "ordering"}]]
  /\ \A h \in Puts : puts[h].action # "none" => puts[h].rfq \in SellSideRfqs
  /\ newOrders \in [SellSideRfqs -> Nat]

(* A PUT that has confirmed s and has still to send its order.             *)
Ordering(h, s) == puts[h].action = "ordering" /\ puts[h].rfq = s

(* In a life of the service a request is ordered by its one confirmation.  *)
OneOrder(s) ==
  /\ newOrders[s] <= 1 + life
  /\ \A h \in Puts : Ordering(h, s) => sellSide[s] = "CONFIRMED" /\ newOrders[s] <= life
  /\ \A h, k \in Puts : Ordering(h, s) /\ Ordering(k, s) => h = k
  /\ sellSide[s] # "CONFIRMED" => newOrders[s] <= life

SellSideInv == SellSideTypes /\ \A s \in SellSideRfqs : OneOrder(s)

IInv == RfqInv /\ SellSideInv

(* What a step must leave as it is.                                        *)
RfqsStay ==
  life' = life =>
    \A r \in DOMAIN rfqs :
      ~Open(r) => /\ rfqs'[r].state = rfqs[r].state
                  /\ rfqs'[r].quotes = rfqs[r].quotes
                  /\ rfqs'[r].executedQuote = rfqs[r].executedQuote

SellSideStays ==
  life' = life =>
    \A s \in SellSideRfqs :
      sellSide[s] \in {"CONFIRMED", "REJECTED"} => sellSide'[s] = sellSide[s]

-----------------------------------------------------------------------------
(* The best quote is a quote of a dealer, if there is any.                 *)
LEMMA BestQuoteType ==
  ASSUME NEW q \in Seq(Dealers)
  PROVE  /\ SelectBestQuote(q) \in Dealers \cup {None}
         /\ q # <<>> => SelectBestQuote(q) \in Dealers
<1>1. CASE q = <<>>
  BY <1>1 DEF SelectBestQuote
<1>2. CASE q # <<>>
  <2> DEFINE D == DOMAIN q
             Ranks == {Rank[q[i]] : i \in D}
             Best(i) == \A j \in D : \/ Rank[q[i]] < Rank[q[j]]
                                     \/ Rank[q[i]] = Rank[q[j]] /\ i <= j
  <2>1. D \subseteq Nat /\ D # {} /\ \A i \in D : q[i] \in Dealers
    <3>1. D = 1 .. Len(q) /\ Len(q) \in Nat
      BY LenProperties
    <3>2. Len(q) # 0
      BY <1>2, EmptySeq
    <3> QED  BY <3>1, <3>2, ElementOfSeq
  <2>2. \A i \in D : Rank[q[i]] \in Nat
    BY <2>1, RfqAssumption
  <2>3. PICK m \in Ranks : \A n \in Ranks : m <= n
    <3>1. Ranks \subseteq Nat /\ Ranks # {}
      BY <2>1, <2>2
    <3> QED  BY <3>1, LeastNat
  <2> DEFINE Firsts == {i \in D : Rank[q[i]] = m}
  <2>4. PICK i \in Firsts : \A j \in Firsts : i <= j
    <3>1. Firsts \subseteq Nat /\ Firsts # {}
      BY <2>1, <2>3
    <3> QED  BY <3>1, LeastNat
  <2>5. ASSUME NEW j \in D
        PROVE  Rank[q[i]] < Rank[q[j]] \/ (Rank[q[i]] = Rank[q[j]] /\ i <= j)
    <3>1. i \in D /\ Rank[q[i]] = m /\ m \in Nat /\ Rank[q[j]] \in Nat
      BY <2>2, <2>4
    <3>2. m <= Rank[q[j]]
      BY <2>3
    <3>3. Rank[q[j]] = m => i <= j
      BY <2>4
    <3> QED  BY <3>1, <3>2, <3>3
  <2>6. (CHOOSE k \in D : Best(k)) \in D
    BY <2>4, <2>5
  <2>7. SelectBestQuote(q) = q[CHOOSE k \in D : Best(k)]
    BY <1>2 DEF SelectBestQuote
  <2> QED  BY <2>1, <2>6, <2>7
<1> QED  BY <1>1, <1>2

-----------------------------------------------------------------------------
LEMMA InitIInv == Init => IInv
<1> SUFFICES ASSUME Init PROVE IInv
  OBVIOUS
<1> USE DEF Init, RfqInit, SellSideInit
<1>1. Types /\ DOMAIN rfqs = {}
  BY RfqAssumption, EmptySeq DEF Types, NoPost
<1>2. RfqInv
  BY <1>1 DEF RfqInv, OneRecord, OutcomeRecorded, OneEnd, PostsKnow, NoPost
<1>3. SellSideTypes
  BY DEF SellSideTypes, NoPut
<1>4. life \in Nat
  BY <1>1 DEF Types
<1>5. \A s \in SellSideRfqs : OneOrder(s)
  BY <1>4 DEF OneOrder, Ordering, NoPut
<1> QED  BY <1>2, <1>3, <1>5 DEF IInv, SellSideInv

(* One record changes, and this may be its order's outcome.                *)
LEMMA RecordChange ==
  ASSUME RfqInv,
         NEW r \in DOMAIN rfqs, NEW rec \in RfqRecord,
         rfqs' = [rfqs EXCEPT ![r] = rec],
         rec.order = rfqs[r].order, rec.state # "EXPIRED",
         ~Open(r) => /\ rec.state = rfqs[r].state
                     /\ rec.quotes = rfqs[r].quotes
                     /\ rec.executedQuote = rfqs[r].executedQuote,
         execSeq' \in Nat,
         posts' = posts \/ \E h \in Posts : posts' = [posts EXCEPT ![h] = NoPost],
         UNCHANGED <<clock, life, requests, uncommitted>>,
         \/ UNCHANGED <<executions, expiries>>
         \/ /\ Open(r) /\ rec.state = "EXECUTED"
            /\ executions' = executions \cup {[order |-> rfqs[r].order, exec |-> execSeq + 1,
                                               life |-> life]}
            /\ UNCHANGED expiries
         \/ /\ Open(r) /\ rec.state = "NO_QUOTES"
            /\ expiries' = expiries \cup {[order |-> rfqs[r].order, life |-> life]}
            /\ UNCHANGED executions
  PROVE  RfqInv' /\ RfqsStay
<1>1. /\ Len(rfqs) \in Nat /\ DOMAIN rfqs = 1 .. Len(rfqs)
      /\ \A q \in DOMAIN rfqs : rfqs[q] \in RfqRecord
  BY LenProperties, ElementOfSeq DEF RfqInv, Types
<1>2. /\ rfqs' \in Seq(RfqRecord) /\ DOMAIN rfqs' = DOMAIN rfqs
      /\ rfqs'[r] = rec
      /\ \A q \in DOMAIN rfqs : q # r => rfqs'[q] = rfqs[q]
  BY <1>1, ExceptSeq DEF RfqInv, Types
<1>3. \A q \in DOMAIN rfqs : rfqs'[q].order = rfqs[q].order
  BY <1>2
<1>4. \A q \in DOMAIN rfqs : q # r \/ ~Open(r) => rfqs'[q].state = rfqs[q].state
  BY <1>2
<1>5. rfqs[r].order \in RfqOrders
  BY <1>1 DEF RfqRecord
<1>6. Types'
  <2>1. posts' \in [Posts -> [phase : {"idle", "reading"}, rfq : Nat]]
    BY DEF RfqInv, Types, NoPost
  <2>2. executions' \subseteq [order : RfqOrders, exec : Nat, life : Nat]
    BY <1>5 DEF RfqInv, Types
  <2>3. expiries' \subseteq [order : RfqOrders, life : Nat]
    BY <1>5 DEF RfqInv, Types
  <2> QED  BY <1>2, <2>1, <2>2, <2>3 DEF RfqInv, Types
<1>7. OneRecord'
  BY <1>2, <1>3 DEF RfqInv, OneRecord
<1>8. \A o : \A st \in {"EXECUTED", "NO_QUOTES"} : Ended(o, st) => Ended(o, st)'
  BY <1>2, <1>3, <1>4 DEF Ended, Open
<1>9. Ended(rfqs[r].order, rec.state)'
  BY <1>2, <1>3 DEF Ended
<1>10. ASSUME Open(r), NEW st \in {"EXECUTED", "NO_QUOTES"}
       PROVE  ~Ended(rfqs[r].order, st)
  BY <1>10 DEF RfqInv, OneRecord, Ended, Open
<1>11. life \in Nat /\ life' = life
  BY DEF RfqInv, Types
<1>12. OutcomeRecorded'
  <2>1. ASSUME NEW x \in executions'
        PROVE  x.life <= life /\ (x.life = life => Ended(x.order, "EXECUTED")')
    <3>1. CASE x \in executions
      BY <1>8, <3>1 DEF RfqInv, OutcomeRecorded
    <3>2. CASE x \notin executions
      <4>1. /\ x = [order |-> rfqs[r].order, exec |-> execSeq + 1, life |-> life]
            /\ rec.state = "EXECUTED"
        BY <3>2
      <4>2. x.order = rfqs[r].order /\ x.life = life
        BY <4>1
      <4> QED  BY <1>9, <1>11, <4>1, <4>2
    <3> QED  BY <3>1, <3>2
  <2>2. ASSUME NEW e \in expiries'
        PROVE  e.life <= life /\ (e.life = life => Ended(e.order, "NO_QUOTES")')
    <3>1. CASE e \in expiries
      BY <1>8, <3>1 DEF RfqInv, OutcomeRecorded
    <3>2. CASE e \notin expiries
      <4>1. /\ e = [order |-> rfqs[r].order, life |-> life]
            /\ rec.state = "NO_QUOTES"
        BY <3>2
      <4>2. e.order = rfqs[r].order /\ e.life = life
        BY <4>1
      <4> QED  BY <1>9, <1>11, <4>1, <4>2
    <3> QED  BY <3>1, <3>2
  <2> QED  BY <1>11, <2>1, <2>2 DEF OutcomeRecorded
<1>13. OneEnd'
  <2> DEFINE Fresh(x) == x.order = rfqs[r].order /\ x.life = life
  <2>1. ASSUME Open(r) PROVE \A x \in executions \cup expiries : ~Fresh(x)
    BY <1>10, <2>1 DEF RfqInv, OutcomeRecorded
  <2>2. \A x, y \in executions' : x.order = y.order /\ x.life = y.life => x = y
    <3>1. CASE executions' = executions
      BY <3>1 DEF RfqInv, OneEnd
    <3>2. CASE executions' # executions
      <4>1. PICK n : /\ n.order = rfqs[r].order /\ n.life = life
                     /\ executions' = executions \cup {n} /\ Open(r)
        BY <3>2
      <4> QED  BY <2>1, <4>1 DEF RfqInv, OneEnd
    <3> QED  BY <3>1, <3>2
  <2>3. \A x \in executions', e \in expiries' : x.order = e.order => x.life # e.life
    <3>1. CASE UNCHANGED <<executions, expiries>>
      BY <3>1 DEF RfqInv, OneEnd
    <3>2. CASE ~UNCHANGED <<executions, expiries>>
      <4>1. PICK n : /\ n.order = rfqs[r].order /\ n.life = life /\ Open(r)
                     /\ \/ executions' = executions \cup {n} /\ expiries' = expiries
                        \/ expiries' = expiries \cup {n} /\ executions' = executions
        BY <3>2
      <4> QED  BY <2>1, <4>1 DEF RfqInv, OneEnd
    <3> QED  BY <3>1, <3>2
  <2>4. \A q \in DOMAIN rfqs' : rfqs'[q].state # "EXPIRED"
    BY <1>2 DEF RfqInv, OneEnd
  <2> QED  BY <2>2, <2>3, <2>4 DEF OneEnd
<1>14. PostsKnow'
  <2>1. \A h \in Posts : posts'[h] = posts[h] \/ posts'[h].phase = "idle"
    BY DEF RfqInv, Types, NoPost
  <2> QED  BY <1>2, <2>1 DEF RfqInv, PostsKnow
<1>15. RfqsStay
  BY <1>2 DEF RfqsStay
<1> QED  BY <1>6, <1>7, <1>12, <1>13, <1>14, <1>15 DEF RfqInv

-----------------------------------------------------------------------------
(* What the record of r holds.                                             *)
LEMMA RecordType ==
  ASSUME RfqInv, NEW r \in DOMAIN rfqs
  PROVE  rfqs[r] \in RfqRecord /\ r \in Nat
BY LenProperties, ElementOfSeq DEF RfqInv, Types

(* executeRfq: nothing happens to an RFQ that has ended.                   *)
LEMMA ExecuteChange ==
  ASSUME RfqInv, NEW r \in DOMAIN rfqs, NEW d \in Dealers, ExecuteRfq(r, d),
         posts' = posts \/ \E h \in Posts : posts' = [posts EXCEPT ![h] = NoPost],
         UNCHANGED <<clock, life, requests, uncommitted, expiries>>
  PROVE  RfqInv' /\ RfqsStay
<1> DEFINE rec == [rfqs[r] EXCEPT !.state = "EXECUTED", !.executedQuote = d]
<1>1. rfqs[r] \in RfqRecord
  BY RecordType
<1>2. execSeq \in Nat
  BY DEF RfqInv, Types
<1>3. CASE Open(r)
  <2>1. /\ rec \in RfqRecord /\ rec.order = rfqs[r].order /\ rec.state = "EXECUTED"
    BY <1>1 DEF RfqRecord, States
  <2>2. rfqs' = [rfqs EXCEPT ![r] = rec]
    BY <1>1, <1>3 DEF ExecuteRfq, RfqRecord
  <2>3. /\ execSeq' \in Nat
        /\ executions' = executions \cup {[order |-> rfqs[r].order, exec |-> execSeq + 1,
                                           life |-> life]}
        /\ UNCHANGED expiries
    BY <1>2, <1>3 DEF ExecuteRfq
  <2> HIDE DEF rec
  <2> QED  BY <1>3, <2>1, <2>2, <2>3, RecordChange
<1>4. CASE ~Open(r)
  <2>1. rfqs' = rfqs /\ execSeq' = execSeq /\ executions' = executions
    BY <1>4 DEF ExecuteRfq
  <2>2. rfqs' = [rfqs EXCEPT ![r] = rfqs[r]]
    <3>1. rfqs = [q \in DOMAIN rfqs |-> rfqs[q]]
      BY LenProperties DEF RfqInv, Types
    <3> QED  BY <2>1, <3>1
  <2>3. rfqs[r].state # "EXPIRED"
    BY DEF RfqInv, OneEnd
  <2> QED  BY <1>1, <1>2, <2>1, <2>2, <2>3, RecordChange
<1> QED  BY <1>3, <1>4

LEMMA RequestChange ==
  ASSUME RfqInv, NEW o \in RfqOrders, RequestRfq(o)
  PROVE  RfqInv' /\ RfqsStay
<1> DEFINE rec == [order |-> o, state |-> "PENDING", quotes |-> <<>>,
                   bestQuote |-> None, executedQuote |-> None,
                   createdAt |-> clock, stored |-> TRUE,
                   phase |-> "announcing", asked |-> {}, closes |-> 0]
           n == Len(rfqs) + 1
<1>1. rec \in RfqRecord /\ rec.order = o /\ rec.state = "PENDING"
  BY EmptySeq DEF RfqInv, Types, RfqRecord, States
<1>2. rfqs' = Append(rfqs, rec) /\ o \in requests /\ requests' = requests \ {o}
  BY DEF RequestRfq
<1> HIDE DEF rec
<1>3. /\ rfqs' \in Seq(RfqRecord)
      /\ Len(rfqs) \in Nat /\ DOMAIN rfqs = 1 .. Len(rfqs) /\ DOMAIN rfqs' = 1 .. n
      /\ \A r \in DOMAIN rfqs : rfqs'[r] = rfqs[r]
      /\ rfqs'[n] = rec
  BY <1>1, <1>2, AppendProperties, LenProperties DEF RfqInv, Types
<1>4. Types'
  <2>1. uncommitted' \subseteq RfqOrders /\ requests' \subseteq RfqOrders
    BY DEF RfqInv, Types, RequestRfq
  <2> QED  BY <1>3, <2>1 DEF RfqInv, Types, RequestRfq
<1>5. \A r \in DOMAIN rfqs' : r \in DOMAIN rfqs \/ r = n
  BY <1>3
<1>6. OneRecord'
  BY <1>1, <1>2, <1>3, <1>5 DEF RfqInv, OneRecord
<1>7. \A p, st : Ended(p, st) => Ended(p, st)'
  BY <1>3 DEF Ended
<1>8. OutcomeRecorded'
  BY <1>7 DEF RfqInv, OutcomeRecorded, RequestRfq
<1>9. OneEnd'
  BY <1>1, <1>3, <1>5 DEF RfqInv, OneEnd, RequestRfq
<1>10. PostsKnow'
  BY <1>3 DEF RfqInv, PostsKnow, RequestRfq
<1>11. RfqsStay
  BY <1>3 DEF RfqsStay
<1> QED  BY <1>4, <1>6, <1>8, <1>9, <1>10, <1>11 DEF RfqInv

LEMMA AskChange ==
  ASSUME RfqInv, NEW r \in DOMAIN rfqs, AskDealers(r)
  PROVE  RfqInv' /\ RfqsStay
<1> DEFINE rec == [rfqs[r] EXCEPT !.phase = "quoting", !.asked = Dealers,
                                  !.closes = clock + Window]
<1>1. rfqs[r] \in RfqRecord /\ rfqs[r].state # "EXPIRED"
  BY RecordType DEF RfqInv, OneEnd
<1>2. clock + Window \in Nat
  BY RfqAssumption DEF RfqInv, Types
<1>3. /\ rec \in RfqRecord /\ rec.order = rfqs[r].order /\ rec.state = rfqs[r].state
      /\ rec.quotes = rfqs[r].quotes /\ rec.executedQuote = rfqs[r].executedQuote
  BY <1>1, <1>2 DEF RfqRecord
<1>4. rfqs' = [rfqs EXCEPT ![r] = rec]
  BY <1>1 DEF AskDealers, RfqRecord
<1>5. execSeq' \in Nat
  BY DEF RfqInv, Types, AskDealers
<1> HIDE DEF rec
<1> QED  BY <1>1, <1>3, <1>4, <1>5, RecordChange DEF AskDealers

(* A late quote leaves what ended alone.                                   *)
LEMMA AnswerChange ==
  ASSUME RfqInv, NEW r \in DOMAIN rfqs, NEW d \in Dealers, DealerAnswers(r, d)
  PROVE  RfqInv' /\ RfqsStay
<1> DEFINE declined == [rfqs[r] EXCEPT !.asked = @ \ {d}]
           quotes == Append(rfqs[r].quotes, d)
           quoted == [rfqs[r] EXCEPT !.asked = @ \ {d}, !.quotes = quotes, !.state = "QUOTED",
                                     !.bestQuote = SelectBestQuote(quotes)]
<1>1. rfqs[r] \in RfqRecord /\ rfqs[r].state # "EXPIRED"
  BY RecordType DEF RfqInv, OneEnd
<1>2. /\ declined \in RfqRecord /\ declined.order = rfqs[r].order
      /\ declined.state = rfqs[r].state /\ declined.quotes = rfqs[r].quotes
      /\ declined.executedQuote = rfqs[r].executedQuote
  BY <1>1 DEF RfqRecord
<1>3. quotes \in Seq(Dealers)
  BY <1>1, AppendProperties DEF RfqRecord
<1>4. SelectBestQuote(quotes) \in Dealers \cup {None}
  BY <1>3, BestQuoteType
<1>5. quoted \in RfqRecord /\ quoted.order = rfqs[r].order /\ quoted.state = "QUOTED"
  BY <1>1, <1>3, <1>4 DEF RfqRecord, States
<1>6. \/ rfqs' = [rfqs EXCEPT ![r] = declined]
      \/ Open(r) /\ rfqs' = [rfqs EXCEPT ![r] = quoted]
  <2>1. CASE rfqs' = [rfqs EXCEPT ![r].asked = @ \ {d}]
    BY <1>1, <2>1 DEF RfqRecord
  <2>2. CASE rfqs' = [rfqs EXCEPT ![r] = TakeQuote(r, d)]
    BY <2>2 DEF TakeQuote
  <2> QED  BY <2>1, <2>2 DEF DealerAnswers
<1>7. execSeq' \in Nat
  BY DEF RfqInv, Types, DealerAnswers
<1> HIDE DEF declined, quoted
<1> QED  BY <1>1, <1>2, <1>5, <1>6, <1>7, RecordChange DEF DealerAnswers

LEMMA CloseChange ==
  ASSUME RfqInv, NEW r \in DOMAIN rfqs, CloseWindow(r)
  PROVE  RfqInv' /\ RfqsStay
<1>1. rfqs[r] \in RfqRecord
  BY RecordType
<1>2. CASE rfqs[r].quotes # <<>>
  <2>1. SelectBestQuote(rfqs[r].quotes) \in Dealers
    BY <1>1, <1>2, BestQuoteType DEF RfqRecord
  <2> QED  BY <1>2, <2>1, ExecuteChange DEF CloseWindow, EndOfWindow
<1>3. CASE rfqs[r].quotes = <<>>
  <2> DEFINE rec == [rfqs[r] EXCEPT !.state = "NO_QUOTES"]
  <2>1. rec \in RfqRecord /\ rec.order = rfqs[r].order /\ rec.state = "NO_QUOTES"
    BY <1>1 DEF RfqRecord, States
  <2>2. rfqs' = [rfqs EXCEPT ![r] = rec]
    BY <1>1, <1>3 DEF CloseWindow, EndOfWindow, ExpireRfq, RfqRecord
  <2>3. execSeq' \in Nat
    BY <1>3 DEF RfqInv, Types, CloseWindow, EndOfWindow
  <2> HIDE DEF rec
  <2> QED  BY <1>3, <2>1, <2>2, <2>3, RecordChange DEF CloseWindow, EndOfWindow, ExpireRfq
<1> QED  BY <1>2, <1>3

(* A POST names an RFQ it has found, which nothing removes in this life.   *)
LEMMA PostChange ==
  ASSUME RfqInv, NEW h \in Posts, PostReads(h)
  PROVE  RfqInv' /\ RfqsStay
<1> DEFINE r == posts[h].rfq
<1>1. r \in DOMAIN rfqs
  BY DEF RfqInv, PostsKnow, PostReads
<1>2. rfqs[r] \in RfqRecord
  BY <1>1, RecordType
<1>3. /\ posts' = [posts EXCEPT ![h] = NoPost]
      /\ UNCHANGED <<clock, life, requests, uncommitted, expiries>>
  BY DEF PostReads
<1>4. PICK d : \/ ExecuteRfq(r, d) /\ d \in {rfqs[r].quotes[i] : i \in DOMAIN rfqs[r].quotes}
               \/ UNCHANGED <<rfqs, execSeq, executing, executions, sending>>
  BY DEF PostReads
<1>5. CASE ExecuteRfq(r, d) /\ d \in {rfqs[r].quotes[i] : i \in DOMAIN rfqs[r].quotes}
  <2>1. d \in Dealers
    BY <1>2, <1>5, LenProperties, ElementOfSeq DEF RfqRecord
  <2> QED  BY <1>1, <1>3, <1>5, <2>1, ExecuteChange
<1>6. CASE UNCHANGED <<rfqs, execSeq, executing, executions, sending>>
  <2>1. rfqs' = [rfqs EXCEPT ![r] = rfqs[r]]
    <3>1. rfqs = [q \in DOMAIN rfqs |-> rfqs[q]]
      BY LenProperties DEF RfqInv, Types
    <3> QED  BY <1>6, <3>1
  <2>2. rfqs[r].state # "EXPIRED" /\ execSeq' \in Nat
    BY <1>1, <1>6 DEF RfqInv, OneEnd, Types
  <2> QED  BY <1>1, <1>2, <1>3, <1>6, <2>1, <2>2, RecordChange
<1> QED  BY <1>4, <1>5, <1>6

(* The POST that finds an RFQ, the sweep that forgets records, commits and *)
(* reports change nothing of an outcome.                                   *)
LEMMA QuietChange ==
  ASSUME RfqInv,
         \/ \E o \in RfqOrders : CommitRequest(o)
         \/ \E h \in Posts, r \in DOMAIN rfqs : PostExecute(h, r)
         \/ \E x \in executing : ReportFill(x)
         \/ PassTime
  PROVE  RfqInv' /\ RfqsStay
<1>1. /\ UNCHANGED <<life, requests, rfqs, execSeq, executions, expiries>>
      /\ uncommitted' \subseteq uncommitted
  BY DEF CommitRequest, PostExecute, ReportFill, PassTime
<1>2. clock' \in 0 .. MaxClock
  BY RfqAssumption DEF RfqInv, Types, CommitRequest, PostExecute, ReportFill, PassTime
<1>3. /\ posts' \in [Posts -> [phase : {"idle", "reading"}, rfq : Nat]]
      /\ PostsKnow'
  <2>1. CASE UNCHANGED posts
    BY <1>1, <2>1 DEF RfqInv, Types, PostsKnow
  <2>2. ASSUME NEW h \in Posts, NEW r \in DOMAIN rfqs, PostExecute(h, r)
        PROVE  /\ posts' \in [Posts -> [phase : {"idle", "reading"}, rfq : Nat]]
               /\ PostsKnow'
    BY <1>1, <2>2, RecordType DEF RfqInv, Types, PostsKnow, PostExecute
  <2> QED  BY <2>1, <2>2 DEF CommitRequest, ReportFill, PassTime
<1>4. Types'
  BY <1>1, <1>2, <1>3 DEF RfqInv, Types
<1>5. OneRecord' /\ OutcomeRecorded' /\ OneEnd' /\ RfqsStay
  BY <1>1 DEF RfqInv, OneRecord, OutcomeRecorded, Ended, OneEnd, RfqsStay
<1> QED  BY <1>3, <1>4, <1>5 DEF RfqInv

LEMMA PruneChange ==
  ASSUME RfqInv, PruneRfqs
  PROVE  RfqInv' /\ RfqsStay
<1> DEFINE kept(r) == rfqs[r].stored /\ rfqs[r].createdAt + Retention >= clock
           rec(r) == [rfqs[r] EXCEPT !.stored = kept(r)]
<1>1. /\ Len(rfqs) \in Nat /\ DOMAIN rfqs = 1 .. Len(rfqs)
      /\ \A r \in DOMAIN rfqs : rfqs[r] \in RfqRecord
  BY RecordType, LenProperties DEF RfqInv, Types
<1>2. ASSUME NEW r \in DOMAIN rfqs
      PROVE  /\ rec(r) \in RfqRecord
             /\ rec(r).order = rfqs[r].order /\ rec(r).state = rfqs[r].state
             /\ rec(r).quotes = rfqs[r].quotes
             /\ rec(r).executedQuote = rfqs[r].executedQuote
  <2>1. kept(r) \in BOOLEAN
    OBVIOUS
  <2> HIDE DEF kept
  <2> QED  BY <1>1, <2>1 DEF RfqRecord
<1>3. rfqs' = [r \in DOMAIN rfqs |-> rec(r)]
  BY DEF PruneRfqs
<1> HIDE DEF rec
<1>4. rfqs' \in Seq(RfqRecord) /\ DOMAIN rfqs' = DOMAIN rfqs
  BY <1>1, <1>2, <1>3, SeqDef
<1>5. \A r \in DOMAIN rfqs : /\ rfqs'[r].order = rfqs[r].order
                             /\ rfqs'[r].state = rfqs[r].state
                             /\ rfqs'[r].quotes = rfqs[r].quotes
                             /\ rfqs'[r].executedQuote = rfqs[r].executedQuote
  BY <1>2, <1>3
<1>6. UNCHANGED <<clock, life, requests, uncommitted, execSeq, posts, executions, expiries>>
  BY DEF PruneRfqs
<1>7. Types' /\ PostsKnow'
  BY <1>4, <1>6 DEF RfqInv, Types, PostsKnow
<1>8. OneRecord' /\ OneEnd' /\ RfqsStay
  BY <1>4, <1>5, <1>6 DEF RfqInv, OneRecord, OneEnd, RfqsStay
<1>9. \A o, st : Ended(o, st)' = Ended(o, st)
  BY <1>4, <1>5 DEF Ended
<1>10. OutcomeRecorded'
  BY <1>6, <1>9 DEF RfqInv, OutcomeRecorded
<1> QED  BY <1>7, <1>8, <1>10 DEF RfqInv

(* Outcomes of the lives before bind nobody.                               *)
LEMMA RestartChange ==
  ASSUME RfqInv, RestartRfq
  PROVE  RfqInv' /\ RfqsStay
<1> USE DEF RestartRfq
<1>1. life \in Nat /\ life' = life + 1
  BY DEF RfqInv, Types
<1>2. DOMAIN rfqs' = {} /\ rfqs' \in Seq(RfqRecord)
  BY EmptySeq
<1>3. Types'
  BY <1>1, <1>2 DEF RfqInv, Types, NoPost
<1>4. OneRecord' /\ PostsKnow' /\ OneEnd' /\ RfqsStay
  BY <1>1, <1>2 DEF RfqInv, OneRecord, PostsKnow, NoPost, OneEnd, RfqsStay
<1>5. \A x \in executions \cup expiries : x.life \in Nat /\ x.life <= life
  BY DEF RfqInv, OutcomeRecorded, Types
<1>6. OutcomeRecorded'
  BY <1>1, <1>5 DEF OutcomeRecorded
<1> QED  BY <1>3, <1>4, <1>6 DEF RfqInv

-----------------------------------------------------------------------------
(* Steps of the sell side.                                                 *)
LEMMA SellSideChange ==
  ASSUME SellSideInv, life \in Nat, UNCHANGED life,
         SellSideStep \/ \E s \in SellSideRfqs : SubmitSellSide(s)
  PROVE  SellSideInv' /\ SellSideStays
<1> USE DEF SellSideInv
<1>1. ASSUME NEW s \in SellSideRfqs, SubmitSellSide(s)
      PROVE  SellSideInv' /\ SellSideStays
  <2> USE <1>1 DEF SubmitSellSide
  <2>1. SellSideTypes'
    BY DEF SellSideTypes
  <2>2. SellSideStays
    BY DEF SellSideStays, SellSideTypes
  <2>3. \A q \in SellSideRfqs : OneOrder(q)'
    BY DEF OneOrder, Ordering, SellSideTypes
  <2> QED  BY <2>1, <2>2, <2>3
<1>2. ASSUME NEW h \in Puts, NEW s \in SellSideRfqs, NEW action \in SellSideActions,
             ReceivePut(h, s, action)
      PROVE  SellSideInv' /\ SellSideStays
  <2> USE <1>2 DEF ReceivePut
  <2>1. SellSideTypes' /\ SellSideStays
    BY DEF SellSideTypes, SellSideStays
  <2>2. \A k \in Puts : puts'[k] = puts[k] \/ puts'[k].action \in SellSideActions
    BY DEF SellSideTypes
  <2>3. \A q \in SellSideRfqs : \A k \in Puts : Ordering(k, q)' => Ordering(k, q)
    BY <2>2 DEF Ordering, SellSideActions
  <2> QED  BY <2>1, <2>3 DEF OneOrder
<1>3. ASSUME NEW h \in Puts, ApplyPut(h)
      PROVE  SellSideInv' /\ SellSideStays
  <2> DEFINE s == puts[h].rfq
             action == puts[h].action
  <2>1. s \in SellSideRfqs /\ action \in SellSideActions /\ UNCHANGED newOrders
    BY <1>3 DEF ApplyPut, SellSideTypes, SellSideActions
  <2>2. CASE puts' = [puts EXCEPT ![h] = NoPut] /\ UNCHANGED sellSide
    <3>1. SellSideTypes' /\ SellSideStays
      BY <2>1, <2>2 DEF SellSideTypes, SellSideStays, NoPut
    <3>2. \A q \in SellSideRfqs : \A k \in Puts : Ordering(k, q)' => Ordering(k, q)
      BY <2>2 DEF Ordering, NoPut, SellSideTypes
    <3> QED  BY <2>1, <2>2, <3>1, <3>2 DEF OneOrder
  <2>3. CASE /\ CheckSellSideTransition(action, sellSide[s])
             /\ action # "confirm"
             /\ sellSide' = [sellSide EXCEPT ![s] = StateAfter[action]]
             /\ puts' = [puts EXCEPT ![h] = NoPut]
    <3>1. /\ sellSide[s] \notin {"CONFIRMED", "REJECTED"}
          /\ StateAfter[action] \in {"SALES_MARKUP", "CLIENT_CONFIRMATION", "REJECTED"}
      BY <2>1, <2>3 DEF CheckSellSideTransition, StateAfter, SellSideActions
    <3>2. SellSideTypes' /\ SellSideStays
      BY <2>1, <2>3, <3>1 DEF SellSideTypes, SellSideStays, NoPut
    <3>3. \A q \in SellSideRfqs : \A k \in Puts : Ordering(k, q)' => Ordering(k, q)
      BY <2>3 DEF Ordering, NoPut, SellSideTypes
    <3>4. \A q \in SellSideRfqs : sellSide'[q] = sellSide[q] \/ q = s
      BY <2>3 DEF SellSideTypes
    <3> QED  BY <2>1, <2>3, <3>1, <3>2, <3>3, <3>4 DEF OneOrder
  <2>4. CASE /\ sellSide[s] = "CLIENT_CONFIRMATION"
             /\ sellSide' = [sellSide EXCEPT ![s] = "CONFIRMED"]
             /\ puts' = [puts EXCEPT ![h] = [@ EXCEPT !.action = "ordering"]]
    <3>1. SellSideTypes' /\ SellSideStays
      BY <2>1, <2>4 DEF SellSideTypes, SellSideStays
    <3>2. \A q \in SellSideRfqs : \A k \in Puts :
            Ordering(k, q)' => Ordering(k, q) \/ (k = h /\ q = s)
      BY <2>4 DEF Ordering, SellSideTypes
    <3>3. \A k \in Puts : ~Ordering(k, s)
      BY <2>1, <2>4 DEF OneOrder
    <3>4. newOrders[s] <= life
      BY <2>1, <2>4 DEF OneOrder
    <3>5. sellSide'[s] = "CONFIRMED" /\ \A q \in SellSideRfqs : q # s => sellSide'[q] = sellSide[q]
      BY <2>1, <2>4 DEF SellSideTypes
    <3>6. ASSUME NEW q \in SellSideRfqs PROVE OneOrder(q)'
      BY <2>1, <3>2, <3>3, <3>4, <3>5 DEF OneOrder
    <3> QED  BY <3>1, <3>6
  <2>5. \/ puts' = [puts EXCEPT ![h] = NoPut] /\ UNCHANGED sellSide
        \/ /\ CheckSellSideTransition(action, sellSide[s])
           /\ sellSide' = [sellSide EXCEPT ![s] = StateAfter[action]]
           /\ puts' = [puts EXCEPT ![h] = IF action = "confirm"
                                          THEN [@ EXCEPT !.action = "ordering"] ELSE NoPut]
    BY <1>3 DEF ApplyPut
  <2> QED  BY <2>2, <2>3, <2>4, <2>5 DEF CheckSellSideTransition, StateAfter
<1>4. ASSUME NEW h \in Puts, SendNewOrder(h)
      PROVE  SellSideInv' /\ SellSideStays
  <2>1. PICK s \in SellSideRfqs : s = puts[h].rfq /\ Ordering(h, s)
    BY <1>4 DEF SendNewOrder, SellSideTypes, Ordering
  <2>2. /\ newOrders' = [newOrders EXCEPT ![s] = @ + 1]
        /\ puts' = [puts EXCEPT ![h] = NoPut] /\ UNCHANGED sellSide
    BY <1>4, <2>1 DEF SendNewOrder
  <2>3. SellSideTypes' /\ SellSideStays
    BY <2>2 DEF SellSideTypes, SellSideStays, NoPut
  <2>4. \A q \in SellSideRfqs : \A k \in Puts : Ordering(k, q)' => Ordering(k, q) /\ k # h
    <3>1. puts'[h].action = "none" /\ \A k \in Puts : k # h => puts'[k] = puts[k]
      BY <2>2 DEF NoPut, SellSideTypes
    <3> QED  BY <3>1 DEF Ordering
  <2>5. sellSide[s] = "CONFIRMED" /\ newOrders[s] <= life
    BY <2>1 DEF OneOrder
  <2>6. /\ newOrders'[s] = newOrders[s] + 1 /\ newOrders[s] \in Nat
        /\ \A q \in SellSideRfqs : q # s => newOrders'[q] = newOrders[q]
    BY <2>1, <2>2 DEF SellSideTypes
  <2>7. \A k \in Puts : ~Ordering(k, s)'
    BY <2>1, <2>4 DEF OneOrder
  <2>8. OneOrder(s)'
    BY <2>1, <2>2, <2>5, <2>6, <2>7 DEF OneOrder
  <2>9. ASSUME NEW q \in SellSideRfqs, q # s PROVE OneOrder(q)'
    BY <2>2, <2>4, <2>6, <2>9 DEF OneOrder
  <2> QED  BY <2>3, <2>8, <2>9
<1> QED  BY <1>1, <1>2, <1>3, <1>4 DEF SellSideStep

-----------------------------------------------------------------------------
(* A step of one side leaves the other alone.                              *)
LEMMA NextIInv ==
  ASSUME IInv, [Next]_vars
  PROVE  IInv' /\ RfqsStay /\ SellSideStays
<1> USE DEF IInv
<1>1. life \in Nat
  BY DEF RfqInv, Types
<1>2. ASSUME UNCHANGED rfqVars
      PROVE  RfqInv' /\ RfqsStay
  BY <1>2 DEF rfqVars, RfqInv, Types, OneRecord, OutcomeRecorded, Ended, OneEnd, PostsKnow,
              RfqsStay
<1>3. ASSUME UNCHANGED sellSideVars, UNCHANGED life
      PROVE  SellSideInv' /\ SellSideStays
  BY <1>3 DEF sellSideVars, SellSideInv, SellSideTypes, OneOrder, Ordering, SellSideStays
<1>4. CASE UNCHANGED rfqVars /\ UNCHANGED sellSideVars
  BY <1>2, <1>3, <1>4 DEF rfqVars
<1>5. CASE TakeUp
  <2>1. ASSUME NEW o \in RfqOrders, RequestRfq(o), UNCHANGED sellSideVars
        PROVE  IInv' /\ RfqsStay /\ SellSideStays
    BY <1>3, <2>1, RequestChange DEF RequestRfq
  <2>2. ASSUME NEW s \in SellSideRfqs, SubmitSellSide(s), UNCHANGED rfqVars
        PROVE  IInv' /\ RfqsStay /\ SellSideStays
    BY <1>1, <1>2, <2>2, SellSideChange DEF rfqVars
  <2> QED  BY <1>5, <2>1, <2>2 DEF TakeUp
<1>6. CASE RfqStep /\ UNCHANGED sellSideVars
  <2>1. RfqInv' /\ RfqsStay
    BY <1>6, AskChange, AnswerChange, CloseChange, PostChange, QuietChange, PruneChange
       DEF RfqStep
  <2>2. UNCHANGED life
    <3>1. CASE \E r \in DOMAIN rfqs : CloseWindow(r)
      BY <3>1 DEF CloseWindow
    <3>2. CASE \E h \in Posts : PostReads(h)
      BY <3>2 DEF PostReads
    <3> QED  BY <1>6, <3>1, <3>2 DEF RfqStep, CommitRequest, AskDealers, DealerAnswers,
                                      PostExecute, ReportFill, PruneRfqs
  <2> QED  BY <1>3, <1>6, <2>1, <2>2
<1>7. CASE SellSideStep /\ UNCHANGED rfqVars
  BY <1>1, <1>2, <1>7, SellSideChange DEF rfqVars
<1>8. CASE RestartService
  <2>1. RfqInv' /\ RfqsStay /\ life' = life + 1
    BY <1>8, RestartChange DEF RestartService, RestartRfq
  <2>2. /\ sellSide' = [s \in SellSideRfqs |-> "none"]
        /\ puts' = [h \in Puts |-> NoPut] /\ UNCHANGED newOrders
    BY <1>8 DEF RestartService
  <2>3. SellSideTypes'
    BY <2>2 DEF SellSideInv, SellSideTypes, NoPut
  <2>4. \A s \in SellSideRfqs : newOrders[s] \in Nat /\ newOrders[s] <= 1 + life
    BY DEF SellSideInv, SellSideTypes, OneOrder
  <2>5. \A h \in Puts : \A s : ~Ordering(h, s)'
    BY <2>2 DEF Ordering, NoPut
  <2>6. \A s \in SellSideRfqs : OneOrder(s)'
    BY <1>1, <2>1, <2>2, <2>4, <2>5 DEF OneOrder
  <2>7. SellSideStays
    BY <1>1, <2>1 DEF SellSideStays
  <2> QED  BY <2>1, <2>3, <2>6, <2>7 DEF SellSideInv
<1>9. CASE Tick
  BY <1>3, <1>9, QuietChange DEF Tick, PassTime, sellSideVars
<1> QED  BY <1>4, <1>5, <1>6, <1>7, <1>8, <1>9 DEF Next, Settle, vars, sellSideVars

LEMMA InvHolds == Spec => []IInv
<1>1. IInv /\ [Next]_vars => IInv'
  BY NextIInv
<1> QED  BY InitIInv, <1>1, PTL DEF Spec

(* In each life of the service an order comes to one end: an execution or, *)
(* when nobody quoted, an expiry; a sell-side request becomes an order by  *)
(* its confirmation only, and once.  No POST, late quote or end of the     *)
(* window, and no overlap of PUTs, makes it two.                           *)
THEOREM OneOutcomeEach == Spec => []OneOutcome
<1>1. IInv => OneOutcome
  <2> SUFFICES ASSUME IInv PROVE OneOutcome
    OBVIOUS
  <2>1. life \in Nat /\ newOrders \in [SellSideRfqs -> Nat]
    BY DEF IInv, RfqInv, Types, SellSideInv, SellSideTypes
  <2>2. \A s \in SellSideRfqs :
          /\ newOrders[s] <= 1 + life
          /\ life = 0 /\ newOrders[s] > 0 => sellSide[s] = "CONFIRMED"
    BY <2>1 DEF IInv, SellSideInv, OneOrder
  <2> QED  BY <2>2 DEF IInv, RfqInv, OneEnd, OneOutcome
<1> QED  BY <1>1, InvHolds, PTL

(* The end an order or a request came to is never changed while the        *)
(* service runs.                                                           *)
THEOREM OutcomeStays == Spec => OutcomeIsFinal
<1>1. IInv /\ [Next]_vars =>
        [ life' = life =>
            /\ \A r \in DOMAIN rfqs :
                 ~Open(r) => /\ rfqs'[r].state = rfqs[r].state
                             /\ rfqs'[r].quotes = rfqs[r].quotes
                             /\ rfqs'[r].executedQuote = rfqs[r].executedQuote
            /\ \A s \in SellSideRfqs :
                 sellSide[s] \in {"CONFIRMED", "REJECTED"} => sellSide'[s] = sellSide[s] ]_vars
  BY NextIInv DEF RfqsStay, SellSideStays
<1> QED  BY <1>1, InvHolds, PTL DEF Spec, OutcomeIsFinal

-----------------------------------------------------------------------------
(* What the counterparty keeps: the types of its part, where the trades on *)
(* the bus come from, and its accounts.                                    *)
Obligation == [trade : Trades, posted : BOOLEAN, settled : BOOLEAN, queued : BOOLEAN]

CcpTypes ==
  /\ obligations \in Seq(Obligation)
  /\ initialMarginPosted \in [Users -> Nat]
  /\ positions \in [Users -> Int]
  /\ sweeps \in [Sweeps -> 0 .. Len(obligations)]
  /\ overtaken \subseteq Users

(* Obligations of user u in the ledger, and what a set of them weighs.     *)
PostedOf(ledger, u) ==
  {i \in DOMAIN ledger : UserOf[ledger[i].trade] = u /\ ledger[i].posted}

SettledOf(ledger, u) ==
  {i \in DOMAIN ledger : UserOf[ledger[i].trade] = u /\ ledger[i].settled}

Weigh(w, ledger, S) == SumFunctionOnSet([i \in DOMAIN ledger |-> w[ledger[i].trade]], S)

Balance(w, ledger, u) ==
  Weigh(w, ledger, PostedOf(ledger, u)) - Weigh(w, ledger, SettledOf(ledger, u))

(* Only of a user who was overtaken is anything settled and unposted.      *)
Overtakings ==
  \A i \in DOMAIN obligations :
    obligations[i].settled /\ ~obligations[i].posted => Owner(i) \in overtaken

Balanced(u) ==
  /\ initialMarginPosted[u] >= Balance(Margin, obligations, u)
  /\ u \notin overtaken => /\ initialMarginPosted[u] = Balance(Margin, obligations, u)
                           /\ positions[u] = Balance(Signed, obligations, u)

CcpInv == CcpTypes /\ Overtakings /\ \A u \in Users : Balanced(u)

(* Sums over obligations.                                                  *)
LEMMA WeighSame ==
  ASSUME NEW w, NEW before, NEW after, NEW S,
         S \subseteq DOMAIN before, S \subseteq DOMAIN after,
         \A i \in S : after[i].trade = before[i].trade
  PROVE  Weigh(w, after, S) = Weigh(w, before, S)
<1>1. \A i \in S : [j \in DOMAIN after |-> w[after[j].trade]][i]
                     = [j \in DOMAIN before |-> w[before[j].trade]][i]
  OBVIOUS
<1> QED  BY <1>1, SumSame DEF Weigh

LEMMA WeighAdd ==
  ASSUME NEW w, NEW ledger \in Seq(Obligation), w \in [Trades -> Int],
         NEW S \in SUBSET DOMAIN ledger
  PROVE  /\ Weigh(w, ledger, S) \in Int
         /\ w \in [Trades -> Nat] => Weigh(w, ledger, S) \in Nat
         /\ \A i \in DOMAIN ledger \ S :
              Weigh(w, ledger, S \cup {i}) = Weigh(w, ledger, S) + w[ledger[i].trade]
<1> DEFINE v == [i \in DOMAIN ledger |-> w[ledger[i].trade]]
<1>1. /\ Len(ledger) \in Nat /\ DOMAIN ledger = 1 .. Len(ledger)
      /\ \A i \in DOMAIN ledger : ledger[i].trade \in Trades
  <2>1. \A i \in DOMAIN ledger : ledger[i] \in Obligation
    BY LenProperties, ElementOfSeq
  <2> QED  BY <2>1, LenProperties DEF Obligation
<1>2. IsFiniteSet(S)
  <2>1. IsFiniteSet(DOMAIN ledger)
    BY <1>1, FS_Interval
  <2> QED  BY <2>1, FS_Subset
<1>3. \A i \in DOMAIN ledger : v[i] = w[ledger[i].trade] /\ v[i] \in Int
  BY <1>1
<1>4. w \in [Trades -> Nat] => \A i \in S : v[i] \in Nat
  BY <1>1
<1> HIDE DEF v
<1>5. SumFunctionOnSet(v, S) \in Int
  BY <1>2, <1>3, SumInt
<1>6. w \in [Trades -> Nat] => SumFunctionOnSet(v, S) \in Nat
  BY <1>2, <1>4, SumNat
<1>7. ASSUME NEW i \in DOMAIN ledger \ S
      PROVE  SumFunctionOnSet(v, S \cup {i}) = SumFunctionOnSet(v, S) + w[ledger[i].trade]
  <2>1. \A y \in S \cup {i} : v[y] \in Int
    BY <1>3
  <2>2. SumFunctionOnSet(v, S \cup {i}) = v[i] + SumFunctionOnSet(v, S)
    BY <1>2, <2>1, SumAdd
  <2> QED  BY <1>3, <1>5, <2>2
<1> QED  BY <1>5, <1>6, <1>7 DEF Weigh, v

LEMMA ObligationType ==
  ASSUME CcpTypes
  PROVE  /\ Len(obligations) \in Nat /\ DOMAIN obligations = 1 .. Len(obligations)
         /\ \A i \in DOMAIN obligations : obligations[i] \in Obligation
         /\ \A i \in DOMAIN obligations : /\ obligations[i].trade \in Trades
                                          /\ Owner(i) \in Users
                                          /\ Margin[obligations[i].trade] \in Nat
                                          /\ Signed[obligations[i].trade] \in Int
<1>1. \A i \in DOMAIN obligations : obligations[i] \in Obligation
  BY LenProperties, ElementOfSeq DEF CcpTypes
<1>2. \A i \in DOMAIN obligations : obligations[i].trade \in Trades
  BY <1>1 DEF Obligation
<1> QED  BY <1>1, <1>2, LenProperties, CcpAssumption DEF CcpTypes, Owner

LEMMA SumsOf ==
  ASSUME NEW ledger \in Seq(Obligation), NEW u, NEW S,
         S = PostedOf(ledger, u) \/ S = SettledOf(ledger, u)
  PROVE  /\ Weigh(Margin, ledger, S) \in Nat /\ Weigh(Signed, ledger, S) \in Int
         /\ \A i \in DOMAIN ledger :
              i \notin S =>
                /\ Weigh(Margin, ledger, S \cup {i})
                     = Weigh(Margin, ledger, S) + Margin[ledger[i].trade]
                /\ Weigh(Signed, ledger, S \cup {i})
                     = Weigh(Signed, ledger, S) + Signed[ledger[i].trade]
<1>1. Margin \in [Trades -> Int] /\ Margin \in [Trades -> Nat] /\ Signed \in [Trades -> Int]
  BY CcpAssumption
<1>2. S \in SUBSET DOMAIN ledger
  BY DEF PostedOf, SettledOf
<1> QED  BY <1>1, <1>2, WeighAdd

(* A novation adds nothing to an account, until its margin is posted.      *)
LEMMA NovateKeeps ==
  ASSUME CcpInv, NEW o \in Trades,
         obligations' = Append(obligations, [trade |-> o, posted |-> FALSE,
                                             settled |-> FALSE, queued |-> TRUE]),
         UNCHANGED <<accountVars, sweeps, overtaken>>
  PROVE  CcpInv'
<1> USE DEF CcpInv
<1> DEFINE rec == [trade |-> o, posted |-> FALSE, settled |-> FALSE, queued |-> TRUE]
           n == Len(obligations) + 1
<1>1. rec \in Obligation /\ rec.posted = FALSE /\ rec.settled = FALSE
  BY DEF Obligation
<1>2. obligations' = Append(obligations, rec)
  OBVIOUS
<1> HIDE DEF rec
<1>3. /\ obligations' \in Seq(Obligation)
      /\ Len(obligations) \in Nat /\ Len(obligations') = n
      /\ DOMAIN obligations = 1 .. Len(obligations) /\ DOMAIN obligations' = 1 .. n
      /\ \A i \in DOMAIN obligations : obligations'[i] = obligations[i]
      /\ obligations'[n] = rec
  BY <1>1, <1>2, AppendProperties, LenProperties DEF CcpTypes
<1>4. \A i \in DOMAIN obligations' : i \in DOMAIN obligations \/ i = n
  BY <1>3
<1>5. DOMAIN obligations \subseteq DOMAIN obligations'
  BY <1>3
<1>6. CcpTypes'
  <2>1. sweeps' \in [Sweeps -> 0 .. Len(obligations')]
    BY <1>3 DEF CcpTypes
  <2> QED  BY <1>3, <2>1 DEF CcpTypes, accountVars
<1>7. Overtakings'
  BY <1>1, <1>3, <1>4 DEF Overtakings, Owner
<1>8. ASSUME NEW u \in Users PROVE Balanced(u)'
  <2>1. /\ PostedOf(obligations', u) = PostedOf(obligations, u)
        /\ SettledOf(obligations', u) = SettledOf(obligations, u)
    BY <1>1, <1>3, <1>4, <1>5 DEF PostedOf, SettledOf
  <2>2. ASSUME NEW S \in SUBSET DOMAIN obligations, NEW w
        PROVE  Weigh(w, obligations', S) = Weigh(w, obligations, S)
    <3>1. S \subseteq DOMAIN obligations' /\ \A i \in S : obligations'[i].trade = obligations[i].trade
      BY <1>3, <1>5
    <3> QED  BY <3>1, WeighSame
  <2>3. PostedOf(obligations, u) \in SUBSET DOMAIN obligations
        /\ SettledOf(obligations, u) \in SUBSET DOMAIN obligations
    BY DEF PostedOf, SettledOf
  <2>4. \A w : Balance(w, obligations', u) = Balance(w, obligations, u)
    BY <2>1, <2>2, <2>3 DEF Balance
  <2> QED  BY <2>4 DEF Balanced, accountVars
<1> QED  BY <1>6, <1>7, <1>8

(* The margin of an obligation is posted once, and to its owner's account. *)
LEMMA PostKeeps ==
  ASSUME CcpInv, NEW i \in DOMAIN obligations, PostInitialMargin(i)
  PROVE  CcpInv'
<1> USE DEF CcpInv
<1> DEFINE rec == [obligations[i] EXCEPT !.posted = TRUE]
           v == Owner(i)
           t == obligations[i].trade
<1>1. /\ v \in Users /\ Margin[t] \in Nat /\ Signed[t] \in Int
      /\ obligations[i] \in Obligation /\ obligations[i].posted = FALSE
  BY ObligationType DEF PostInitialMargin, Obligation
<1>2. /\ rec \in Obligation /\ rec.trade = t /\ rec.posted = TRUE
      /\ rec.settled = obligations[i].settled
  BY <1>1 DEF Obligation
<1>3. obligations' = [obligations EXCEPT ![i] = rec]
  BY <1>1 DEF PostInitialMargin, Obligation
<1>4. /\ initialMarginPosted' = [initialMarginPosted EXCEPT ![v] = @ + Margin[t]]
      /\ positions' = [positions EXCEPT ![v] = @ + Signed[t]]
      /\ UNCHANGED <<sweeps, overtaken>>
  BY DEF PostInitialMargin
<1> HIDE DEF rec
<1>5. /\ obligations' \in Seq(Obligation) /\ DOMAIN obligations' = DOMAIN obligations
      /\ Len(obligations') = Len(obligations)
      /\ obligations'[i] = rec
      /\ \A j \in DOMAIN obligations : j # i => obligations'[j] = obligations[j]
      /\ \A w, S : S \subseteq DOMAIN obligations
                     => Weigh(w, obligations', S) = Weigh(w, obligations, S)
  <2>1. /\ obligations' \in Seq(Obligation) /\ DOMAIN obligations' = DOMAIN obligations
        /\ Len(obligations') = Len(obligations)
        /\ obligations'[i] = rec
        /\ \A j \in DOMAIN obligations : j # i => obligations'[j] = obligations[j]
    BY <1>2, <1>3, LenProperties, ExceptSeq DEF CcpTypes
  <2>2. \A j \in DOMAIN obligations : obligations'[j].trade = obligations[j].trade
    BY <1>2, <2>1
  <2>3. ASSUME NEW w, NEW S, S \subseteq DOMAIN obligations
        PROVE  Weigh(w, obligations', S) = Weigh(w, obligations, S)
    BY <2>1, <2>2, <2>3, WeighSame
  <2> QED  BY <2>1, <2>3
<1>6. CcpTypes'
  BY <1>1, <1>4, <1>5 DEF CcpTypes
<1>7. Overtakings'
  BY <1>2, <1>4, <1>5 DEF Overtakings, Owner
<1>8. ASSUME NEW u \in Users PROVE Balanced(u)'
  <2> DEFINE P == PostedOf(obligations, u)
             S == SettledOf(obligations, u)
  <2>1. P \subseteq DOMAIN obligations /\ S \subseteq DOMAIN obligations
    BY DEF PostedOf, SettledOf
  <2>2. SettledOf(obligations', u) = S
    BY <1>2, <1>5 DEF SettledOf
  <2>3. PostedOf(obligations', u) = IF u = v THEN P \cup {i} ELSE P
    BY <1>1, <1>2, <1>5 DEF PostedOf, Owner
  <2>4. i \notin P
    BY <1>1 DEF PostedOf
  <2>5. /\ Weigh(Margin, obligations, P) \in Nat /\ Weigh(Signed, obligations, P) \in Int
        /\ Weigh(Margin, obligations, S) \in Nat /\ Weigh(Signed, obligations, S) \in Int
        /\ Weigh(Margin, obligations, P \cup {i}) = Weigh(Margin, obligations, P) + Margin[t]
        /\ Weigh(Signed, obligations, P \cup {i}) = Weigh(Signed, obligations, P) + Signed[t]
    <3>1. obligations \in Seq(Obligation) /\ i \in DOMAIN obligations /\ i \notin P
      BY <2>4 DEF CcpTypes
    <3>2. P = PostedOf(obligations, u) /\ S = SettledOf(obligations, u)
      OBVIOUS
    <3> HIDE DEF P, S
    <3> QED  BY <3>1, <3>2, SumsOf
  <2> DEFINE Q == IF u = v THEN P \cup {i} ELSE P
  <2>6. ASSUME NEW w
        PROVE  /\ Balance(w, obligations', u) = Weigh(w, obligations, Q) - Weigh(w, obligations, S)
               /\ Balance(w, obligations, u) = Weigh(w, obligations, P) - Weigh(w, obligations, S)
    <3>1. Q \subseteq DOMAIN obligations /\ PostedOf(obligations', u) = Q
      BY <2>1, <2>3
    <3>2. /\ Weigh(w, obligations', Q) = Weigh(w, obligations, Q)
          /\ Weigh(w, obligations', S) = Weigh(w, obligations, S)
      BY <1>5, <2>1, <3>1
    <3> HIDE DEF Q
    <3> QED  BY <2>2, <3>1, <3>2 DEF Balance
  <2>7. initialMarginPosted[u] \in Nat /\ positions[u] \in Int
    BY DEF CcpTypes
  <2>8. /\ initialMarginPosted'[u] = initialMarginPosted[u] + (IF u = v THEN Margin[t] ELSE 0)
        /\ positions'[u] = positions[u] + (IF u = v THEN Signed[t] ELSE 0)
    BY <1>1, <1>4, <2>7 DEF CcpTypes
  <2>9. /\ Balance(Margin, obligations', u)
              = Balance(Margin, obligations, u) + (IF u = v THEN Margin[t] ELSE 0)
        /\ Balance(Signed, obligations', u)
              = Balance(Signed, obligations, u) + (IF u = v THEN Signed[t] ELSE 0)
        /\ Balance(Margin, obligations, u) \in Int /\ Balance(Signed, obligations, u) \in Int
    <3>1. CASE u = v
      <4>1. Q = P \cup {i}
        BY <3>1
      <4> HIDE DEF Q, P, S, v, t
      <4>2. /\ Balance(Margin, obligations', u)
                  = Weigh(Margin, obligations, P \cup {i}) - Weigh(Margin, obligations, S)
            /\ Balance(Signed, obligations', u)
                  = Weigh(Signed, obligations, P \cup {i}) - Weigh(Signed, obligations, S)
        BY <2>6, <4>1
      <4>3. Margin[t] \in Nat /\ Signed[t] \in Int
        BY <1>1
      <4> QED  BY <2>5, <2>6, <3>1, <4>2, <4>3
    <3>2. CASE u # v
      <4>1. Q = P
        BY <3>2
      <4> HIDE DEF Q, P, S, v, t
      <4> QED  BY <2>5, <2>6, <3>2, <4>1
    <3> QED  BY <3>1, <3>2
  <2> HIDE DEF v, t
  <2> QED  BY <1>1, <1>4, <2>7, <2>8, <2>9 DEF Balanced
<1> QED  BY <1>6, <1>7, <1>8

(* A part of the obligations has no more margin than all of them.          *)
LEMMA WeighSubset ==
  ASSUME NEW ledger \in Seq(Obligation), NEW S \in SUBSET DOMAIN ledger, NEW T \in SUBSET S
  PROVE  Weigh(Margin, ledger, T) <= Weigh(Margin, ledger, S)
<1> DEFINE v == [i \in DOMAIN ledger |-> Margin[ledger[i].trade]]
<1>1. /\ Len(ledger) \in Nat /\ DOMAIN ledger = 1 .. Len(ledger)
      /\ \A i \in DOMAIN ledger : ledger[i].trade \in Trades
  <2>1. \A i \in DOMAIN ledger : ledger[i] \in Obligation
    BY LenProperties, ElementOfSeq
  <2> QED  BY <2>1, LenProperties DEF Obligation
<1>2. IsFiniteSet(S)
  <2>1. IsFiniteSet(DOMAIN ledger)
    BY <1>1, FS_Interval
  <2> QED  BY <2>1, FS_Subset
<1>3. \A i \in S : v[i] \in Nat
  BY <1>1, CcpAssumption
<1> HIDE DEF v
<1>4. SumFunctionOnSet(v, T) <= SumFunctionOnSet(v, S)
  BY <1>2, <1>3, SumSubset
<1> QED  BY <1>4 DEF Weigh, v

(* A sweep finds nothing due, or settles an obligation: its margin is      *)
(* released, as far as there is any, and unless it was overtaken there is. *)
LEMMA SettleKeeps ==
  ASSUME CcpInv, NEW h \in Sweeps, NEW last \in 0 .. Len(obligations),
         NEW queue \in Seq(Obligation),
         DOMAIN queue = DOMAIN obligations, Len(queue) = Len(obligations),
         \A i \in DOMAIN obligations : /\ queue[i].trade = obligations[i].trade
                                       /\ queue[i].posted = obligations[i].posted
                                       /\ queue[i].settled = obligations[i].settled,
         SettleNext(h, last, queue)
  PROVE  CcpInv'
<1> USE DEF CcpInv
<1> DEFINE ahead == {i \in last + 1 .. Len(queue) : Due(i)}
           next == CHOOSE i \in ahead : \A j \in ahead : i <= j
<1>1. /\ Len(obligations) \in Nat /\ DOMAIN obligations = 1 .. Len(obligations)
      /\ \A i \in DOMAIN obligations : obligations[i] \in Obligation
  BY ObligationType
<1>2. CASE ahead = {}
  <2>1. /\ sweeps' = [sweeps EXCEPT ![h] = 0] /\ obligations' = queue
        /\ UNCHANGED <<accountVars, overtaken>>
    BY <1>2 DEF SettleNext
  <2>2. CcpTypes'
    BY <1>1, <2>1 DEF CcpTypes, accountVars
  <2>3. Overtakings'
    BY <2>1 DEF Overtakings, Owner
  <2>4. ASSUME NEW u \in Users PROVE Balanced(u)'
    <3>1. /\ PostedOf(queue, u) = PostedOf(obligations, u)
          /\ SettledOf(queue, u) = SettledOf(obligations, u)
          /\ PostedOf(queue, u) \subseteq DOMAIN obligations
          /\ SettledOf(queue, u) \subseteq DOMAIN obligations
      BY DEF PostedOf, SettledOf
    <3>2. ASSUME NEW w, NEW S, S \subseteq DOMAIN obligations
          PROVE  Weigh(w, queue, S) = Weigh(w, obligations, S)
      BY <3>2, WeighSame
    <3>3. \A w : Balance(w, queue, u) = Balance(w, obligations, u)
      BY <3>1, <3>2 DEF Balance
    <3> QED  BY <2>1, <3>3 DEF Balanced, accountVars
  <2> QED  BY <2>2, <2>3, <2>4
<1>3. CASE ahead # {}
  <2>1. PICK n : n = next
    OBVIOUS
  <2>2. n \in ahead
    <3>1. ahead \in SUBSET Nat
      BY <1>1
    <3> HIDE DEF ahead
    <3>2. \E i \in ahead : \A j \in ahead : i <= j
      BY <1>3, <3>1, LeastNat
    <3> QED  BY <2>1, <3>2
  <2>3. n \in DOMAIN obligations /\ Due(n)
    BY <1>1, <2>2
  <2> DEFINE rec == [queue[n] EXCEPT !.settled = TRUE]
             v == Owner(n)
             t == obligations[n].trade
  <2>4. /\ v \in Users /\ Margin[t] \in Nat /\ Signed[t] \in Int
        /\ queue[n] \in Obligation /\ obligations[n].settled = FALSE
        /\ queue[n].posted = obligations[n].posted /\ queue[n].trade = t
    <3>1. queue[n] \in Obligation
      BY <2>3, LenProperties, ElementOfSeq
    <3>2. obligations[n].settled = FALSE
      BY <1>1, <2>3 DEF Due, Obligation
    <3> QED  BY <2>3, <3>1, <3>2, ObligationType
  <2>5. /\ rec \in Obligation /\ rec.trade = t /\ rec.settled = TRUE
        /\ rec.posted = obligations[n].posted
    BY <2>4 DEF Obligation
  <2>6. /\ sweeps' = [sweeps EXCEPT ![h] = n]
        /\ obligations' = [queue EXCEPT ![n] = rec]
        /\ overtaken' = IF obligations[n].posted THEN overtaken ELSE overtaken \cup {v}
        /\ IF HasAccount(v)
           THEN /\ initialMarginPosted' =
                     [initialMarginPosted EXCEPT ![v] = Released(@, Margin[t])]
                /\ positions' = [positions EXCEPT ![v] = @ - Signed[t]]
           ELSE UNCHANGED accountVars
    <3>1. /\ sweeps' = [sweeps EXCEPT ![h] = n]
          /\ obligations' = [queue EXCEPT ![n].settled = TRUE]
          /\ overtaken' = IF queue[n].posted THEN overtaken ELSE overtaken \cup {v}
          /\ IF HasAccount(v)
             THEN /\ initialMarginPosted' =
                       [initialMarginPosted EXCEPT ![v] = Released(@, Margin[queue[n].trade])]
                  /\ positions' = [positions EXCEPT ![v] = @ - Signed[queue[n].trade]]
             ELSE UNCHANGED accountVars
      BY <1>3, <2>1 DEF SettleNext
    <3> QED  BY <2>4, <3>1
  <2> HIDE DEF rec
  <2>7. /\ obligations' \in Seq(Obligation) /\ DOMAIN obligations' = DOMAIN obligations
        /\ Len(obligations') = Len(obligations)
        /\ obligations'[n] = rec
        /\ \A i \in DOMAIN obligations : i # n => obligations'[i] = queue[i]
    BY <2>3, <2>5, <2>6, LenProperties, ExceptSeq
  <2>8. \A i \in DOMAIN obligations :
          /\ obligations'[i].trade = obligations[i].trade
          /\ obligations'[i].posted = obligations[i].posted
          /\ i # n => obligations'[i].settled = obligations[i].settled
    BY <2>5, <2>7
  <2>9. initialMarginPosted \in [Users -> Nat] /\ positions \in [Users -> Int]
    BY DEF CcpTypes
  <2>10. /\ initialMarginPosted' \in [Users -> Nat] /\ positions' \in [Users -> Int]
         /\ \A u \in Users : u # v => /\ initialMarginPosted'[u] = initialMarginPosted[u]
                                      /\ positions'[u] = positions[u]
    <3>1. CASE HasAccount(v)
      <4>1. Released(initialMarginPosted[v], Margin[t]) \in Nat
        BY <2>4, <2>9 DEF Released
      <4> QED  BY <2>4, <2>6, <2>9, <3>1, <4>1
    <3>2. CASE ~HasAccount(v)
      BY <2>6, <2>9, <3>2 DEF accountVars
    <3> QED  BY <3>1, <3>2
  <2>11. CcpTypes'
    <3>1. sweeps' \in [Sweeps -> 0 .. Len(obligations')]
      BY <1>1, <2>3, <2>6, <2>7 DEF CcpTypes
    <3> QED  BY <2>4, <2>6, <2>7, <2>10, <3>1 DEF CcpTypes
  <2>12. Overtakings'
    <3> SUFFICES ASSUME NEW i \in DOMAIN obligations,
                        obligations'[i].settled, ~obligations'[i].posted
                 PROVE  UserOf[obligations'[i].trade] \in overtaken'
      BY <2>7 DEF Overtakings, Owner
    <3>1. CASE i = n
      BY <2>6, <2>8, <3>1 DEF Owner
    <3>2. CASE i # n
      BY <2>6, <2>8, <3>2 DEF Overtakings, Owner
    <3> QED  BY <3>1, <3>2
  <2>13. ASSUME NEW u \in Users PROVE Balanced(u)'
    <3> DEFINE P == PostedOf(obligations, u)
               S == SettledOf(obligations, u)
    <3>1. P \subseteq DOMAIN obligations /\ S \subseteq DOMAIN obligations
      BY DEF PostedOf, SettledOf
    <3>2. PostedOf(obligations', u) = P
      BY <2>7, <2>8 DEF PostedOf
    <3>3. ASSUME NEW w, NEW R, R \subseteq DOMAIN obligations
          PROVE  Weigh(w, obligations', R) = Weigh(w, obligations, R)
      BY <2>7, <2>8, <3>3, WeighSame
    <3>4. CASE u # v
      <4>1. SettledOf(obligations', u) = S
        BY <2>7, <2>8, <3>4 DEF SettledOf, Owner
      <4>2. \A w : Balance(w, obligations', u) = Balance(w, obligations, u)
        BY <3>1, <3>2, <3>3, <4>1 DEF Balance
      <4>3. u \in overtaken' <=> u \in overtaken
        BY <2>6, <3>4
      <4> QED  BY <2>10, <3>4, <4>2, <4>3 DEF Balanced
    <3>5. CASE u = v
      <4>1. SettledOf(obligations', u) = S \cup {n} /\ n \notin S
        BY <2>3, <2>4, <2>5, <2>7, <2>8, <3>5 DEF SettledOf, Owner
      <4>2. /\ Weigh(Margin, obligations, S \cup {n}) = Weigh(Margin, obligations, S) + Margin[t]
            /\ Weigh(Signed, obligations, S \cup {n}) = Weigh(Signed, obligations, S) + Signed[t]
            /\ Weigh(Margin, obligations, P) \in Nat /\ Weigh(Signed, obligations, P) \in Int
            /\ Weigh(Margin, obligations, S) \in Nat /\ Weigh(Signed, obligations, S) \in Int
        <5>1. obligations \in Seq(Obligation) /\ n \in DOMAIN obligations /\ n \notin S
          BY <2>3, <4>1 DEF CcpTypes
        <5>2. P = PostedOf(obligations, u) /\ S = SettledOf(obligations, u)
          OBVIOUS
        <5> HIDE DEF P, S
        <5>3. /\ Weigh(Margin, obligations, P) \in Nat /\ Weigh(Signed, obligations, P) \in Int
              /\ Weigh(Margin, obligations, S) \in Nat /\ Weigh(Signed, obligations, S) \in Int
          BY <5>1, <5>2, SumsOf
        <5>4. /\ Weigh(Margin, obligations, S \cup {n}) = Weigh(Margin, obligations, S) + Margin[t]
              /\ Weigh(Signed, obligations, S \cup {n}) = Weigh(Signed, obligations, S) + Signed[t]
          BY <5>1, <5>2, SumsOf
        <5> QED  BY <5>3, <5>4
      <4>3. ASSUME NEW w
            PROVE  /\ Balance(w, obligations', u)
                        = Weigh(w, obligations, P) - Weigh(w, obligations, S \cup {n})
                   /\ Balance(w, obligations, u)
                        = Weigh(w, obligations, P) - Weigh(w, obligations, S)
        <5>1. S \cup {n} \subseteq DOMAIN obligations
          BY <2>3, <3>1
        <5>2. /\ Weigh(w, obligations', P) = Weigh(w, obligations, P)
              /\ Weigh(w, obligations', S \cup {n}) = Weigh(w, obligations, S \cup {n})
          BY <3>1, <3>3, <5>1
        <5> QED  BY <3>2, <4>1, <5>2 DEF Balance
      <4> HIDE DEF P, S
      <4>4. /\ Balance(Margin, obligations', u) = Balance(Margin, obligations, u) - Margin[t]
            /\ Balance(Signed, obligations', u) = Balance(Signed, obligations, u) - Signed[t]
            /\ Balance(Margin, obligations, u) \in Int /\ Balance(Signed, obligations, u) \in Int
        <5>1. Margin[t] \in Nat /\ Signed[t] \in Int
          BY <2>4
        <5>2. /\ Balance(Margin, obligations', u)
                   = Weigh(Margin, obligations, P) - Weigh(Margin, obligations, S \cup {n})
              /\ Balance(Signed, obligations', u)
                   = Weigh(Signed, obligations, P) - Weigh(Signed, obligations, S \cup {n})
          BY <4>3
        <5>3. /\ Balance(Margin, obligations, u)
                   = Weigh(Margin, obligations, P) - Weigh(Margin, obligations, S)
              /\ Balance(Signed, obligations, u)
                   = Weigh(Signed, obligations, P) - Weigh(Signed, obligations, S)
          BY <4>3
        <5> HIDE DEF t
        <5>4. /\ Balance(Margin, obligations', u) = Balance(Margin, obligations, u) - Margin[t]
              /\ Balance(Margin, obligations, u) \in Int
          BY <4>2, <5>1, <5>2, <5>3
        <5>5. /\ Balance(Signed, obligations', u) = Balance(Signed, obligations, u) - Signed[t]
              /\ Balance(Signed, obligations, u) \in Int
          BY <4>2, <5>1, <5>2, <5>3
        <5> QED  BY <5>4, <5>5
      <4>5. /\ initialMarginPosted'[u] =
                 IF HasAccount(v) THEN Released(initialMarginPosted[u], Margin[t])
                 ELSE initialMarginPosted[u]
            /\ HasAccount(v) => positions'[u] = positions[u] - Signed[t]
        BY <2>4, <2>6, <2>9, <3>5 DEF accountVars
      <4>6. initialMarginPosted[u] \in Nat /\ initialMarginPosted[u] >= Balance(Margin, obligations, u)
        BY <2>9 DEF Balanced
      <4>7. Margin[t] \in Nat
        BY <2>4
      <4>8. initialMarginPosted'[u] >= Balance(Margin, obligations', u)
        <5> HIDE DEF v, t
        <5>1. CASE HasAccount(v)
          <6>1. initialMarginPosted'[u] = Released(initialMarginPosted[u], Margin[t])
            BY <4>5, <5>1
          <6>2. Balance(Margin, obligations', u) = Balance(Margin, obligations, u) - Margin[t]
                /\ Balance(Margin, obligations, u) \in Int
            BY <4>4
          <6>3. CASE initialMarginPosted[u] >= Margin[t]
            BY <4>6, <4>7, <6>1, <6>2, <6>3 DEF Released
          <6>4. CASE ~(initialMarginPosted[u] >= Margin[t])
            BY <4>6, <4>7, <6>1, <6>2, <6>4 DEF Released
          <6> QED  BY <6>3, <6>4
        <5>2. CASE ~HasAccount(v)
          BY <4>4, <4>5, <4>6, <4>7, <5>2
        <5> QED  BY <5>1, <5>2
      <4>9. ASSUME u \notin overtaken'
            PROVE  /\ initialMarginPosted'[u] = Balance(Margin, obligations', u)
                   /\ positions'[u] = Balance(Signed, obligations', u)
        <5>1. obligations[n].posted /\ u \notin overtaken
          BY <2>6, <3>5, <4>9
        <5>2. HasAccount(v)
          BY <2>3, <5>1 DEF HasAccount
        <5>3. /\ initialMarginPosted[u] = Balance(Margin, obligations, u)
              /\ positions[u] = Balance(Signed, obligations, u)
          BY <5>1 DEF Balanced
        <5>4. Margin[t] <= Balance(Margin, obligations, u)
          <6>1. S \subseteq P \ {n}
            BY <3>5, <4>1, <5>1, <2>7 DEF Overtakings, Owner, P, S, PostedOf, SettledOf
          <6>2. n \in P
            BY <2>3, <3>5, <5>1 DEF P, PostedOf, Owner
          <6>3. Weigh(Margin, obligations, S \cup {n}) <= Weigh(Margin, obligations, P)
            <7>1. S \cup {n} \in SUBSET P
              BY <6>1, <6>2
            <7> QED  BY <3>1, <7>1, WeighSubset DEF CcpTypes
          <6>4. Balance(Margin, obligations, u)
                  = Weigh(Margin, obligations, P) - Weigh(Margin, obligations, S)
            BY <4>3
          <6> HIDE DEF t
          <6> QED  BY <4>2, <4>7, <6>3, <6>4
        <5> HIDE DEF v, t
        <5> QED  BY <2>9, <4>4, <4>5, <4>7, <5>2, <5>3, <5>4 DEF Released
      <4> QED  BY <4>8, <4>9 DEF Balanced
    <3> QED  BY <3>4, <3>5
  <2> QED  BY <2>11, <2>12, <2>13
<1> QED  BY <1>2, <1>3

LEMMA CcpKeeps ==
  ASSUME CcpInv, \A m \in bus : m.order \in Trades, CcpStep
  PROVE  CcpInv' /\ bus' \subseteq bus /\ UNCHANGED <<sending, today>>
<1>1. ASSUME NEW m \in bus, Novate(m)
      PROVE  CcpInv' /\ bus' \subseteq bus /\ UNCHANGED <<sending, today>>
  <2>1. /\ m.order \in Trades
        /\ obligations' = Append(obligations, [trade |-> m.order, posted |-> FALSE,
                                               settled |-> FALSE, queued |-> TRUE])
        /\ UNCHANGED <<accountVars, sweeps, overtaken>>
        /\ bus' \subseteq bus /\ UNCHANGED <<sending, today>>
    BY <1>1 DEF Novate
  <2>2. PICK o \in Trades : o = m.order
    BY <2>1
  <2>3. CcpInv'
    BY <2>1, <2>2, NovateKeeps
  <2> QED  BY <2>1, <2>3
<1>2. ASSUME NEW i \in DOMAIN obligations, PostInitialMargin(i)
      PROVE  CcpInv' /\ bus' \subseteq bus /\ UNCHANGED <<sending, today>>
  <2>1. CcpInv'
    BY <1>2, PostKeeps
  <2> QED  BY <1>2, <2>1 DEF PostInitialMargin
<1>3. ASSUME NEW h \in Sweeps, StartSettlement(h)
      PROVE  CcpInv' /\ bus' \subseteq bus /\ UNCHANGED <<sending, today>>
  <2>1. PICK queue : queue = obligations
    OBVIOUS
  <2>2. SettleNext(h, 0, queue) /\ UNCHANGED <<today, sending, bus>>
    BY <1>3, <2>1 DEF StartSettlement
  <2>3. queue \in Seq(Obligation) /\ 0 \in 0 .. Len(obligations)
    BY <2>1, ObligationType DEF CcpInv, CcpTypes
  <2>4. CcpInv'
    BY <2>1, <2>2, <2>3, SettleKeeps
  <2> QED  BY <2>2, <2>4
<1>4. ASSUME NEW h \in Sweeps, ContinueSettlement(h)
      PROVE  CcpInv' /\ bus' \subseteq bus /\ UNCHANGED <<sending, today>>
  <2>1. PICK last : last = sweeps[h]
    OBVIOUS
  <2>2. last \in 0 .. Len(obligations) /\ last # 0
    BY <1>4, <2>1 DEF ContinueSettlement, CcpInv, CcpTypes
  <2>3. last \in DOMAIN obligations /\ obligations[last] \in Obligation
    BY <2>2, ObligationType DEF CcpInv
  <2> DEFINE rec == [obligations[last] EXCEPT !.queued = FALSE]
  <2>4. /\ rec \in Obligation /\ rec.trade = obligations[last].trade
        /\ rec.posted = obligations[last].posted /\ rec.settled = obligations[last].settled
    BY <2>3 DEF Obligation
  <2>5. PICK queue : queue = [obligations EXCEPT ![last].queued = FALSE]
    OBVIOUS
  <2>6. SettleNext(h, last, queue) /\ UNCHANGED <<today, sending, bus>>
    BY <1>4, <2>1, <2>5 DEF ContinueSettlement
  <2>7. queue = [obligations EXCEPT ![last] = rec]
    BY <2>5
  <2> HIDE DEF rec
  <2>8. /\ queue \in Seq(Obligation) /\ DOMAIN queue = DOMAIN obligations
        /\ Len(queue) = Len(obligations)
        /\ queue[last] = rec /\ \A i \in DOMAIN obligations : i # last => queue[i] = obligations[i]
    BY <2>3, <2>4, <2>7, LenProperties, ExceptSeq DEF CcpInv, CcpTypes
  <2>9. \A i \in DOMAIN obligations : /\ queue[i].trade = obligations[i].trade
                                      /\ queue[i].posted = obligations[i].posted
                                      /\ queue[i].settled = obligations[i].settled
    BY <2>4, <2>8
  <2>10. CcpInv'
    BY <2>2, <2>6, <2>8, <2>9, SettleKeeps
  <2> QED  BY <2>6, <2>10
<1> QED  BY <1>1, <1>2, <1>3, <1>4 DEF CcpStep

-----------------------------------------------------------------------------
(* What is on its way is a trade the counterparty knows the terms of.      *)
Traffic ==
  /\ \A m \in sending \cup bus : m.order \in Trades
  /\ executing \subseteq [exec : 1 .. execSeq, order : RfqOrders]

Bounds == life <= MaxRestarts /\ today \in 0 .. MaxDay

ClearingInv == IInv /\ CcpInv /\ Traffic /\ Bounds

LEMMA InitClearing == Init => ClearingInv
<1> SUFFICES ASSUME Init PROVE ClearingInv
  OBVIOUS
<1>1. IInv
  BY InitIInv
<1>2. CcpTypes /\ DOMAIN obligations = {} /\ obligations \in Seq(Obligation)
  BY EmptySeq DEF Init, CcpInit, CcpTypes
<1>3. ASSUME NEW u \in Users PROVE Balanced(u)
  <2>1. PostedOf(obligations, u) = {} /\ SettledOf(obligations, u) = {}
    BY <1>2 DEF PostedOf, SettledOf
  <2>2. \A w : Weigh(w, obligations, {}) = 0
    BY SumEmpty DEF Weigh
  <2>3. \A w : Balance(w, obligations, u) = 0
    BY <2>1, <2>2 DEF Balance
  <2>4. initialMarginPosted[u] = 0 /\ positions[u] = 0
    BY DEF Init, CcpInit
  <2> QED  BY <2>3, <2>4 DEF Balanced
<1>4. Overtakings
  BY <1>2 DEF Overtakings
<1>5. Traffic
  BY ClearingAssumption DEF Init, RfqInit, Traffic
<1>6. Bounds
  <2>1. today = 0 /\ life = 0
    BY DEF Init, RfqInit, CcpInit
  <2>2. 0 \in 0 .. MaxDay
    BY CcpAssumption
  <2> QED  BY <2>1, <2>2, RfqAssumption DEF Bounds
<1> QED  BY <1>1, <1>2, <1>3, <1>4, <1>5, <1>6 DEF ClearingInv, CcpInv

(* An execution, and the fill that follows it, are of an order that is     *)
(* traded.                                                                 *)
LEMMA ExecuteTraffic ==
  ASSUME RfqInv, Traffic, NEW r \in DOMAIN rfqs, NEW d, ExecuteRfq(r, d), UNCHANGED bus
  PROVE  Traffic'
<1>1. rfqs[r].order \in RfqOrders /\ rfqs[r].order \in Trades /\ execSeq \in Nat
  BY RecordType, ClearingAssumption DEF RfqInv, Types, RfqRecord
<1>2. CASE ~Open(r)
  BY <1>2 DEF ExecuteRfq, Traffic
<1>3. CASE Open(r)
  <2>1. /\ execSeq' = execSeq + 1
        /\ executing' = executing \cup {[exec |-> execSeq + 1, order |-> rfqs[r].order]}
        /\ sending' = sending \cup {Trade("rfq.executed", rfqs[r].order, execSeq + 1)}
    BY <1>3 DEF ExecuteRfq, Send
  <2>2. \A m \in sending' \cup bus' : m.order \in Trades
    BY <1>1, <2>1 DEF Traffic, Trade
  <2>3. [exec |-> execSeq + 1, order |-> rfqs[r].order]
          \in [exec : 1 .. execSeq + 1, order : RfqOrders]
    BY <1>1
  <2>4. executing \subseteq [exec : 1 .. execSeq + 1, order : RfqOrders]
    BY <1>1 DEF Traffic
  <2> QED  BY <2>1, <2>2, <2>3, <2>4 DEF Traffic
<1> QED  BY <1>2, <1>3

LEMMA RfqTraffic ==
  ASSUME RfqInv, Traffic, RfqStep
  PROVE  Traffic'
<1>1. CASE UNCHANGED <<execSeq, executing, sending, bus>>
  BY <1>1 DEF Traffic
<1>2. ASSUME NEW r \in DOMAIN rfqs, CloseWindow(r)
      PROVE  Traffic'
  <2>1. \/ ExecuteRfq(r, SelectBestQuote(rfqs[r].quotes)) /\ UNCHANGED bus
        \/ UNCHANGED <<execSeq, executing, sending, bus>>
    BY <1>2 DEF CloseWindow, EndOfWindow
  <2> QED  BY <1>1, <2>1, ExecuteTraffic
<1>3. ASSUME NEW h \in Posts, PostReads(h)
      PROVE  Traffic'
  <2>1. posts[h].rfq \in DOMAIN rfqs
    BY <1>3 DEF RfqInv, PostsKnow, PostReads
  <2>2. \/ \E d : ExecuteRfq(posts[h].rfq, d) /\ UNCHANGED bus
        \/ UNCHANGED <<execSeq, executing, sending, bus>>
    BY <1>3 DEF PostReads
  <2> QED  BY <1>1, <2>1, <2>2, ExecuteTraffic
<1>4. ASSUME NEW x \in executing, ReportFill(x)
      PROVE  Traffic'
  <2>1. x.order \in Trades
    BY ClearingAssumption DEF Traffic
  <2>2. /\ executing' \subseteq executing /\ UNCHANGED <<execSeq, bus>>
        /\ sending' = sending \cup {Trade("orders.filled", x.order, x.exec)}
    BY <1>4 DEF ReportFill, Send
  <2> QED  BY <2>1, <2>2 DEF Traffic, Trade
<1> QED  BY <1>1, <1>2, <1>3, <1>4
         DEF RfqStep, CommitRequest, AskDealers, DealerAnswers, PostExecute, PruneRfqs

LEMMA NextClearing ==
  ASSUME ClearingInv, [Next]_vars
  PROVE  ClearingInv'
<1> USE DEF ClearingInv
<1>1. IInv' /\ RfqInv
  BY NextIInv DEF IInv
<1>2. ASSUME UNCHANGED <<obligations, accountVars, sweeps, overtaken>>
      PROVE  CcpInv'
  BY <1>2 DEF CcpInv, CcpTypes, Overtakings, Owner, Balanced, accountVars
<1>3. ASSUME UNCHANGED <<life, today>>
      PROVE  Bounds'
  BY <1>3 DEF Bounds
<1>4. ASSUME UNCHANGED <<execSeq, executing>>,
             sending' \cup bus' \subseteq sending \cup bus
      PROVE  Traffic'
  BY <1>4 DEF Traffic
<1>5. CASE UNCHANGED vars
  BY <1>1, <1>2, <1>3, <1>4, <1>5 DEF vars, rfqVars, ccpVars
<1>6. CASE TakeUp
  <2>1. UNCHANGED <<life, execSeq, executing, sending, bus>> /\ UNCHANGED ccpVars
    BY <1>6 DEF TakeUp, RequestRfq, rfqVars
  <2> QED  BY <1>1, <1>2, <1>3, <1>4, <2>1 DEF ccpVars
<1>7. CASE RfqStep /\ UNCHANGED <<sellSideVars, ccpVars>>
  <2>1. UNCHANGED life
    <3>1. CASE \E r \in DOMAIN rfqs : CloseWindow(r)
      BY <3>1 DEF CloseWindow
    <3>2. CASE \E h \in Posts : PostReads(h)
      BY <3>2 DEF PostReads
    <3> QED  BY <1>7, <3>1, <3>2 DEF RfqStep, CommitRequest, AskDealers, DealerAnswers,
                                      PostExecute, ReportFill, PruneRfqs
  <2>2. Traffic'
    BY <1>1, <1>7, RfqTraffic
  <2> QED  BY <1>1, <1>2, <1>3, <1>7, <2>1, <2>2 DEF ccpVars
<1>8. CASE SellSideStep /\ UNCHANGED <<rfqVars, ccpVars, sending, bus>>
  BY <1>1, <1>2, <1>3, <1>4, <1>8 DEF rfqVars, ccpVars
<1>9. CASE RestartService
  <2>1. /\ life < MaxRestarts /\ life' = life + 1 /\ UNCHANGED ccpVars
        /\ execSeq' = 0 /\ executing' = {} /\ sending' \subseteq sending /\ UNCHANGED bus
    BY <1>9 DEF RestartService, RestartRfq
  <2>2. life \in Nat /\ MaxRestarts \in Nat
    BY <1>1, RfqAssumption DEF RfqInv, Types
  <2>3. Bounds'
    BY <2>1, <2>2 DEF Bounds, ccpVars
  <2>4. Traffic'
    BY <2>1 DEF Traffic
  <2> QED  BY <1>1, <1>2, <2>1, <2>3, <2>4 DEF ccpVars
<1>10. CASE CcpStep /\ UNCHANGED <<rfqVars, sellSideVars>>
  <2>1. CcpInv' /\ bus' \subseteq bus /\ UNCHANGED <<sending, today>>
    BY <1>10, CcpKeeps DEF Traffic
  <2> QED  BY <1>1, <1>3, <1>4, <1>10, <2>1 DEF rfqVars
<1>11. CASE Settle
  <2>1. sending' \cup bus' \subseteq sending \cup bus
    BY <1>11 DEF Settle, Written, Lost
  <2> QED  BY <1>1, <1>2, <1>3, <1>4, <1>11, <2>1 DEF Settle, rfqVars, ccpVars
<1>12. CASE Tick
  <2>1. /\ UNCHANGED <<life, execSeq, executing, sending, bus>>
        /\ UNCHANGED <<obligations, accountVars, sweeps, overtaken>>
        /\ today' = clock' \div DayLength
    BY <1>12 DEF Tick, PassTime
  <2>2. clock' \in 0 .. MaxClock
    BY <1>1 DEF IInv, RfqInv, Types
  <2>3. Bounds'
    BY <2>1, <2>2, ClearingAssumption DEF Bounds
  <2> QED  BY <1>1, <1>2, <1>4, <2>1, <2>3
<1> QED  BY <1>5, <1>6, <1>7, <1>8, <1>9, <1>10, <1>11, <1>12 DEF Next

LEMMA ClearingHolds == Spec => []ClearingInv
<1>1. ClearingInv /\ [Next]_vars => ClearingInv'
  BY NextClearing
<1> QED  BY InitClearing, <1>1, PTL DEF Spec

(* The variables of the RFQ service, of the counterparty and of the bus    *)
(* hold values of their types, whatever the requests, dealers and trades.  *)
THEOREM TypeCorrect == Spec => []TypeOK
<1>1. ClearingInv => TypeOK
  <2> SUFFICES ASSUME ClearingInv PROVE TypeOK
    OBVIOUS
  <2> USE DEF ClearingInv, IInv
  <2>1. RfqInv /\ Types /\ SellSideTypes /\ CcpTypes /\ Traffic /\ Bounds
    BY DEF RfqInv, SellSideInv, CcpInv
  <2>2. life \in 0 .. MaxRestarts
    BY <2>1, RfqAssumption DEF Types, Bounds
  <2>3. executions \subseteq [order : RfqOrders, exec : Nat, life : 0 .. MaxRestarts]
    <3> SUFFICES ASSUME NEW x \in executions
                 PROVE  x \in [order : RfqOrders, exec : Nat, life : 0 .. MaxRestarts]
      OBVIOUS
    <3>1. x \in [order : RfqOrders, exec : Nat, life : Nat] /\ x.life <= life
      BY <2>1 DEF RfqInv, Types, OutcomeRecorded
    <3>2. x.life \in 0 .. MaxRestarts
      BY <2>2, <3>1, RfqAssumption
    <3> QED  BY <3>1, <3>2
  <2>4. expiries \subseteq [order : RfqOrders, life : 0 .. MaxRestarts]
    <3> SUFFICES ASSUME NEW x \in expiries
                 PROVE  x \in [order : RfqOrders, life : 0 .. MaxRestarts]
      OBVIOUS
    <3>1. x \in [order : RfqOrders, life : Nat] /\ x.life <= life
      BY <2>1 DEF RfqInv, Types, OutcomeRecorded
    <3>2. x.life \in 0 .. MaxRestarts
      BY <2>2, <3>1, RfqAssumption
    <3> QED  BY <3>1, <3>2
  <2> QED  BY <2>1, <2>2, <2>3, <2>4
           DEF TypeOK, Types, SellSideTypes, CcpTypes, Obligation, Traffic, Bounds
<1> QED  BY <1>1, ClearingHolds, PTL

(* However novations, posts of margin, overlapping sweeps and restarts of  *)
(* the RFQ service interleave, a user whose settlements all came after     *)
(* their posts has exactly the margin of the obligations posted and not    *)
(* settled, and the position of them; nobody ever has less margin.         *)
THEOREM MarginKept == Spec => []MarginMatchesObligations
<1>1. ClearingInv => MarginMatchesObligations
  <2> SUFFICES ASSUME ClearingInv, NEW u \in Users
               PROVE  LET posted   == {i \in Obligations(u) : Posted(i)}
                          released == {i \in Obligations(u) : obligations[i].settled}
                          due      == MapThenSumSet(MarginOf, posted)
                                        - MapThenSumSet(MarginOf, released)
                      IN /\ initialMarginPosted[u] >= due
                         /\ u \notin overtaken =>
                              /\ initialMarginPosted[u] = due
                              /\ positions[u] = MapThenSumSet(SignedOf, posted)
                                                  - MapThenSumSet(SignedOf, released)
    BY DEF MarginMatchesObligations
  <2> DEFINE posted   == {i \in Obligations(u) : Posted(i)}
             released == {i \in Obligations(u) : obligations[i].settled}
  <2>1. posted = PostedOf(obligations, u) /\ released = SettledOf(obligations, u)
    BY DEF PostedOf, SettledOf, Obligations, Owner, Posted
  <2>2. ASSUME NEW S \in SUBSET DOMAIN obligations
        PROVE  /\ MapThenSumSet(MarginOf, S) = Weigh(Margin, obligations, S)
               /\ MapThenSumSet(SignedOf, S) = Weigh(Signed, obligations, S)
    <3> DEFINE m == [i \in S |-> Margin[obligations[i].trade]]
               s == [i \in S |-> Signed[obligations[i].trade]]
    <3>1. MapThenSumSet(MarginOf, S) = SumFunctionOnSet(m, S)
      BY DEF MapThenSumSet, MapThenFoldSet, SumFunctionOnSet, FoldFunctionOnSet, MarginOf
    <3>2. MapThenSumSet(SignedOf, S) = SumFunctionOnSet(s, S)
      BY DEF MapThenSumSet, MapThenFoldSet, SumFunctionOnSet, FoldFunctionOnSet, SignedOf
    <3>3. /\ \A i \in S : m[i] = [j \in DOMAIN obligations |-> Margin[obligations[j].trade]][i]
          /\ \A i \in S : s[i] = [j \in DOMAIN obligations |-> Signed[obligations[j].trade]][i]
      OBVIOUS
    <3> HIDE DEF m, s
    <3>4. SumFunctionOnSet(m, S) = Weigh(Margin, obligations, S)
      BY <3>3, SumSame DEF Weigh
    <3>5. SumFunctionOnSet(s, S) = Weigh(Signed, obligations, S)
      BY <3>3, SumSame DEF Weigh
    <3> QED  BY <3>1, <3>2, <3>4, <3>5
  <2>3. posted \in SUBSET DOMAIN obligations /\ released \in SUBSET DOMAIN obligations
    BY DEF Obligations
  <2> HIDE DEF posted, released
  <2>4. /\ Balance(Margin, obligations, u)
             = MapThenSumSet(MarginOf, posted) - MapThenSumSet(MarginOf, released)
        /\ Balance(Signed, obligations, u)
             = MapThenSumSet(SignedOf, posted) - MapThenSumSet(SignedOf, released)
    BY <2>1, <2>2, <2>3 DEF Balance
  <2>5. Balanced(u)
    BY DEF ClearingInv, CcpInv
  <2> QED  BY <2>4, <2>5 DEF Balanced, posted, released
<1> QED  BY <1>1, ClearingHolds, PTL
=============================================================================
