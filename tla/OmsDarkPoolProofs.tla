------------------------- MODULE OmsDarkPoolProofs --------------------------
(***************************************************************************)
(* Theorems about the two services that hold orders before they reach the  *)
(* market: the dark pool (first part) and the OMS (second part).           *)
(*                                                                         *)
(* Dark pool, for any set of orders, sides, quantities, limits, midpoints, *)
(* match cycles and sweeps: the types, QuantityConserved and               *)
(* MatchingIsFifo.  What matchSymbol's loop computes is got from the       *)
(* recursive function that stands for it in three steps: every round goes  *)
(* past an order (TogoFalls), so that a function obeying the loop exists   *)
(* and is unique (WalkerExists, WalkersAgree), and so what every round     *)
(* keeps holds where the walk ends (WalkKeeps).  Two facts are kept:       *)
(* Conserves (what is taken from an order is what is reported of it) and   *)
(* Crossed (both sides stand where the quantity crossed so far puts them). *)
(* QuantityConserved is not inductive: PoolInv adds that an order is in    *)
(* one place, one pool or the hands of one sweep (OnePlace), and that what *)
(* is handed on is the remainder of an order that was nowhere else         *)
(* (BackOnce).  LostToStaleOnly says how far the run darkpool_lost goes:   *)
(* no order is lost in another way.                                        *)
(*                                                                         *)
(* OMS, for every set of users, orders, commands and kill handlers: the    *)
(* types, the two promises of the kill switch, and that the orders charged *)
(* to a user on a day stay within the user's limits.  KillsStayInScope is  *)
(* not inductive: the orders a suspended kill handler still has to cancel  *)
(* must be in scope as well (InScope).  Nor is WithinDailyLimit: a handler *)
(* decides with the limit it fetched before its last await, so the limits  *)
(* that are held must be limits the user may have (HeldLimits), it adds to *)
(* a total that must be the sum of the day's charges also when the         *)
(* ledger's entry is of an earlier day (DaysKnown), and the order it       *)
(* charges must not have been charged before (NotTwice).  That only        *)
(* accepted orders are cancelled (OnlyAcceptedCancelled) bounds what the   *)
(* run oms_kill shows.                                                     *)
(***************************************************************************)
EXTENDS Oms, DarkPool, Facts, SequenceTheorems, TLAPS

-----------------------------------------------------------------------------
(* A list without repetitions.                                             *)
Distinct(q) == \A i, j \in DOMAIN q : q[i] = q[j] => i = j

(* filter keeps the kept elements, and repeats none of them.               *)
TakeOn(queue, kept, g, D) ==
  [n \in D |-> IF n = 0 THEN <<>>
               ELSE IF queue[n] \in kept THEN Append(g[n - 1], queue[n]) ELSE g[n - 1]]

Taker(queue, kept) == CHOOSE g : g = TakeOn(queue, kept, g, 0 .. Len(queue))

LEMMA FilterIsTaker ==
  ASSUME NEW queue, NEW kept
  PROVE  Filter(queue, kept) = Taker(queue, kept)[Len(queue)]
BY DEF Filter, Taker, TakeOn

LEMMA TakerExists ==
  ASSUME NEW queue, NEW kept, NEW n \in Nat
  PROVE  \E g : g = TakeOn(queue, kept, g, 0 .. n)
<1> DEFINE I == {k \in Nat : \E g : g = TakeOn(queue, kept, g, 0 .. k)}
<1>1. 0 \in I
  <2> DEFINE g == [k \in 0 .. 0 |-> <<>>]
  <2>1. g = TakeOn(queue, kept, g, 0 .. 0)
    BY DEF TakeOn
  <2> QED  BY <2>1
<1>2. ASSUME NEW k \in Nat, k \in I PROVE k + 1 \in I
  <2>1. PICK g : g = TakeOn(queue, kept, g, 0 .. k)
    BY <1>2
  <2> DEFINE h == TakeOn(queue, kept, g, 0 .. k + 1)
  <2>2. \A i \in 0 .. k : h[i] = g[i]
    <3>1. \A i \in 0 .. k + 1 : h[i] = TakeOn(queue, kept, g, 0 .. k + 1)[i]
      OBVIOUS
    <3>2. \A i \in 0 .. k : g[i] = TakeOn(queue, kept, g, 0 .. k)[i]
      BY <2>1
    <3>3. \A i \in 0 .. k : i \in 0 .. k + 1
      OBVIOUS
    <3> HIDE DEF h
    <3> QED  BY <3>1, <3>2, <3>3 DEF TakeOn
  <2>3. h = TakeOn(queue, kept, h, 0 .. k + 1)
    <3>1. \A i \in 0 .. k + 1 : i # 0 => h[i - 1] = g[i - 1]
      BY <2>2
    <3> QED  BY <3>1 DEF TakeOn
  <2> QED  BY <2>3
<1> HIDE DEF I
<1>3. n \in I
  BY <1>1, <1>2, UpFromZero
<1> QED  BY <1>3 DEF I

LEMMA FilterFacts ==
  ASSUME NEW S, NEW queue \in Seq(S), NEW kept
  PROVE  /\ Filter(queue, kept) \in Seq(S)
         /\ Range(Filter(queue, kept)) = Range(queue) \cap kept
         /\ Distinct(queue) => Distinct(Filter(queue, kept))
<1> DEFINE taken == Taker(queue, kept)
           Part(n) == {queue[i] : i \in 1 .. n}
           I == {n \in Nat : n <= Len(queue) =>
                   /\ taken[n] \in Seq(S)
                   /\ Range(taken[n]) = Part(n) \cap kept
                   /\ Distinct(queue) => Distinct(taken[n])}
<1>0. Len(queue) \in Nat /\ DOMAIN queue = 1 .. Len(queue)
  OBVIOUS
<1>1. taken = TakeOn(queue, kept, taken, 0 .. Len(queue))
  BY <1>0, TakerExists DEF Taker
<1>2. /\ taken[0] = <<>>
      /\ \A n \in 0 .. Len(queue) - 1 :
           taken[n + 1] = IF queue[n + 1] \in kept THEN Append(taken[n], queue[n + 1])
                          ELSE taken[n]
  <2> HIDE DEF taken
  <2>1. \A n \in 0 .. Len(queue) :
          taken[n] = IF n = 0 THEN <<>>
                     ELSE IF queue[n] \in kept THEN Append(taken[n - 1], queue[n])
                     ELSE taken[n - 1]
    BY <1>1 DEF TakeOn
  <2> QED  BY <1>0, <2>1
<1> HIDE DEF taken
<1>3. 0 \in I
  <2>1. taken[0] \in Seq(S) /\ DOMAIN taken[0] = {}
    BY <1>2
  <2>2. Part(0) = {} /\ Range(taken[0]) = {}
    BY <2>1 DEF Range
  <2> QED  BY <2>1, <2>2 DEF Distinct
<1>4. ASSUME NEW n \in Nat, n \in I PROVE n + 1 \in I
  <2> SUFFICES ASSUME n + 1 <= Len(queue)
               PROVE  /\ taken[n + 1] \in Seq(S)
                      /\ Range(taken[n + 1]) = Part(n + 1) \cap kept
                      /\ Distinct(queue) => Distinct(taken[n + 1])
    OBVIOUS
  <2> DEFINE x == queue[n + 1]
             t == taken[n]
  <2>1. /\ t \in Seq(S) /\ Range(t) = Part(n) \cap kept /\ (Distinct(queue) => Distinct(t))
        /\ x \in S /\ n \in 0 .. Len(queue) - 1
    BY <1>0, <1>4
  <2>2. Part(n + 1) = Part(n) \cup {x}
    OBVIOUS
  <2>3. CASE x \notin kept
    <3>1. taken[n + 1] = t
      BY <1>2, <2>1, <2>3
    <3>2. Part(n + 1) \cap kept = Part(n) \cap kept
      BY <2>2, <2>3
    <3> QED  BY <2>1, <3>1, <3>2
  <2>4. CASE x \in kept
    <3>1. taken[n + 1] = Append(t, x)
      BY <1>2, <2>1, <2>4
    <3>2. Distinct(queue) => x \notin Part(n)
      BY <1>0 DEF Distinct
    <3> HIDE DEF t, x, Part
    <3>3. /\ Append(t, x) \in Seq(S) /\ Len(Append(t, x)) = Len(t) + 1
          /\ \A i \in 1 .. Len(t) : Append(t, x)[i] = t[i]
          /\ Append(t, x)[Len(t) + 1] = x
      BY <2>1, AppendProperties
    <3>4. /\ DOMAIN Append(t, x) = DOMAIN t \cup {Len(t) + 1}
          /\ DOMAIN t = 1 .. Len(t) /\ Len(t) \in Nat
      BY <2>1, <3>3
    <3>5. Range(Append(t, x)) = Range(t) \cup {x}
      BY <3>3, <3>4 DEF Range
    <3>6. Range(Append(t, x)) = Part(n + 1) \cap kept
      BY <2>1, <2>2, <2>4, <3>5
    <3>7. ASSUME Distinct(queue) PROVE Distinct(Append(t, x))
      <4>1. Distinct(t) /\ x \notin Range(t)
        BY <2>1, <3>2, <3>7
      <4>2. \A i \in DOMAIN t : t[i] # x
        BY <4>1 DEF Range
      <4> QED  BY <3>3, <3>4, <4>1, <4>2 DEF Distinct
    <3> QED  BY <3>1, <3>3, <3>6, <3>7
  <2> QED  BY <2>3, <2>4
<1>5. Len(queue) \in I
  <2> HIDE DEF I
  <2> QED  BY <1>0, <1>3, <1>4, UpFromZero
<1>6. Part(Len(queue)) = Range(queue)
  BY <1>0 DEF Range
<1> QED  BY <1>5, <1>6, FilterIsTaker DEF taken

-----------------------------------------------------------------------------
(* matchSymbol ends: every round of its loop moves past an order.          *)
Buyers == {o \in DarkOrders : Side[o] = "BUY"}
Sellers == {o \in DarkOrders : Side[o] = "SELL"}
Pool == [buys : Seq(Buyers), sells : Seq(Sellers)]

WalkRounds(pool, mid, g, D) ==
  [s \in D |-> IF WalkOver(pool, s) THEN s ELSE g[WalkOn(pool, mid, s)]]

Walker(pool, mid) == CHOOSE g : g = WalkRounds(pool, mid, g, Walk)

WalkStart == [bi |-> 1, si |-> 1, rem |-> remaining, reports |-> <<>>]

LEMMA MatchIsWalker ==
  ASSUME NEW pool, NEW mid
  PROVE  MatchSymbol(pool, mid) = Walker(pool, mid)[WalkStart]
BY DEF MatchSymbol, Walker, WalkRounds, WalkStart

(* The orders a walk has ahead of it.                                      *)
Left(queue, i) == IF i > Len(queue) THEN 0 ELSE Len(queue) + 1 - i
Togo(pool, s) == Left(pool.buys, s.bi) + Left(pool.sells, s.si)

LEMMA PastMoves ==
  ASSUME NEW i \in Nat \ {0}, NEW left \in Int
  PROVE  /\ Past(i, left) \in Nat \ {0} /\ Past(i, left) >= i
         /\ left <= 0 => Past(i, left) = i + 1
BY DEF Past

LEMMA LeftFalls ==
  ASSUME NEW S, NEW queue \in Seq(S), NEW i \in Nat \ {0}, NEW j \in Nat, j >= i
  PROVE  /\ Left(queue, i) \in Nat /\ Left(queue, j) \in Nat
         /\ Left(queue, j) <= Left(queue, i)
         /\ j > i /\ i <= Len(queue) => Left(queue, j) < Left(queue, i)
BY DEF Left

(* A round that takes the walk from s to t: its two orders, the quantity   *)
(* that may cross, and where it leaves the walk.                           *)
Skips(s, t, bi, si) == t = [bi |-> bi, si |-> si, rem |-> s.rem, reports |-> s.reports]

Crosses(s, t, buy, sell, qty) ==
  /\ t.rem \in [DarkOrders -> Int]
  /\ t.rem[buy] = s.rem[buy] - qty /\ t.rem[sell] = s.rem[sell] - qty
  /\ \A o \in DarkOrders \ {buy, sell} : t.rem[o] = s.rem[o]
  /\ t.bi = Past(s.bi, t.rem[buy]) /\ t.si = Past(s.si, t.rem[sell])
  /\ t.reports = IF qty > 0
                 THEN Append(Append(s.reports, [order |-> buy, qty |-> qty]),
                             [order |-> sell, qty |-> qty])
                 ELSE s.reports

Round(pool, mid, s, t, buy, sell, qty) ==
  /\ s.bi \in 1 .. Len(pool.buys) /\ s.si \in 1 .. Len(pool.sells)
  /\ buy = pool.buys[s.bi] /\ sell = pool.sells[s.si]
  /\ buy \in Buyers /\ sell \in Sellers
  /\ buy \in DarkOrders /\ sell \in DarkOrders /\ buy # sell
  /\ qty \in Int /\ qty = Lesser(s.rem[buy], s.rem[sell])
  /\ \/ ~CanTrade(buy, mid) /\ Skips(s, t, s.bi + 1, s.si)
     \/ ~CanTrade(sell, mid) /\ Skips(s, t, s.bi, s.si + 1)
     \/ CanTrade(buy, mid) /\ CanTrade(sell, mid) /\ Crosses(s, t, buy, sell, qty)

LEMMA WalkFields ==
  ASSUME NEW s \in Walk
  PROVE  /\ s = [bi |-> s.bi, si |-> s.si, rem |-> s.rem, reports |-> s.reports]
         /\ s.bi \in Nat \ {0} /\ s.si \in Nat \ {0}
         /\ s.rem \in [DarkOrders -> Int] /\ s.reports \in Seq(Report)
BY DEF Walk

LEMMA AppendTwo ==
  ASSUME NEW S, NEW q \in Seq(S), NEW a \in S, NEW b \in S
  PROVE  /\ q \o <<a, b>> = Append(Append(q, a), b)
         /\ Append(q, a) \in Seq(S) /\ Append(Append(q, a), b) \in Seq(S)
<1>1. Append(q, a) \in Seq(S) /\ Append(Append(q, a), b) \in Seq(S) /\ q \o <<a, b>> \in Seq(S)
  BY AppendProperties
<1>2. /\ Len(Append(Append(q, a), b)) = Len(q) + 2 /\ Len(Append(q, a)) = Len(q) + 1
      /\ Append(q, a)[Len(q) + 1] = a /\ Append(Append(q, a), b)[Len(q) + 2] = b
      /\ \A i \in 1 .. Len(q) : Append(q, a)[i] = q[i]
      /\ \A i \in 1 .. Len(q) + 1 : Append(Append(q, a), b)[i] = Append(q, a)[i]
  BY <1>1, AppendProperties
<1>3. Len(q \o <<a, b>>) = Len(q) + 2
  OBVIOUS
<1>4. \A i \in 1 .. Len(q) + 2 : (q \o <<a, b>>)[i] = Append(Append(q, a), b)[i]
  BY <1>2
<1> QED  BY <1>1, <1>2, <1>3, <1>4, SeqEqual

LEMMA WalkOnParts ==
  ASSUME NEW pool \in Pool, NEW mid, NEW s \in Walk, ~WalkOver(pool, s)
  PROVE  \E buy, sell, qty : Round(pool, mid, s, WalkOn(pool, mid, s), buy, sell, qty)
<1> DEFINE buy == pool.buys[s.bi]
           sell == pool.sells[s.si]
           qty == MatchedQty(s.rem, buy, sell)
           rem == [s.rem EXCEPT ![buy] = @ - qty, ![sell] = @ - qty]
           a == [order |-> buy, qty |-> qty]
           b == [order |-> sell, qty |-> qty]
           t == WalkOn(pool, mid, s)
<1>1. /\ s.bi \in 1 .. Len(pool.buys) /\ s.si \in 1 .. Len(pool.sells)
      /\ pool.buys \in Seq(Buyers) /\ pool.sells \in Seq(Sellers)
  BY WalkFields DEF Pool, WalkOver
<1>2. buy \in Buyers /\ sell \in Sellers
  BY <1>1
<1>3. buy \in DarkOrders /\ sell \in DarkOrders /\ buy # sell
  BY <1>2 DEF Buyers, Sellers
<1>4. s.rem \in [DarkOrders -> Int] /\ s.reports \in Seq(Report)
  BY WalkFields
<1>5. qty \in Int /\ qty = Lesser(s.rem[buy], s.rem[sell])
  BY <1>3, <1>4 DEF MatchedQty, Lesser
<1>8. t = IF ~CanTrade(buy, mid) THEN [s EXCEPT !.bi = @ + 1]
          ELSE IF ~CanTrade(sell, mid) THEN [s EXCEPT !.si = @ + 1]
          ELSE [bi |-> Past(s.bi, rem[buy]), si |-> Past(s.si, rem[sell]), rem |-> rem,
                reports |-> IF qty > 0 THEN s.reports \o <<a, b>> ELSE s.reports]
  BY DEF WalkOn
<1> HIDE DEF buy, sell, qty, t
<1>6. /\ rem \in [DarkOrders -> Int]
      /\ rem[buy] = s.rem[buy] - qty /\ rem[sell] = s.rem[sell] - qty
      /\ \A o \in DarkOrders \ {buy, sell} : rem[o] = s.rem[o]
  BY <1>3, <1>4, <1>5
<1>7. s.reports \o <<a, b>> = Append(Append(s.reports, a), b)
  <2>1. a \in Report /\ b \in Report
    BY <1>3, <1>5 DEF Report
  <2> HIDE DEF a, b
  <2> QED  BY <1>4, <2>1, AppendTwo
<1> HIDE DEF rem
<1>9. CASE CanTrade(buy, mid) /\ CanTrade(sell, mid)
  <2> HIDE DEF a, b
  <2>1. t = [bi |-> Past(s.bi, rem[buy]), si |-> Past(s.si, rem[sell]), rem |-> rem,
             reports |-> IF qty > 0 THEN Append(Append(s.reports, a), b) ELSE s.reports]
    BY <1>7, <1>8, <1>9
  <2>2. /\ t.rem = rem /\ t.bi = Past(s.bi, rem[buy]) /\ t.si = Past(s.si, rem[sell])
        /\ t.reports = IF qty > 0 THEN Append(Append(s.reports, a), b) ELSE s.reports
    BY <2>1
  <2>3. Crosses(s, t, buy, sell, qty)
    BY <1>6, <2>2 DEF Crosses, a, b
  <2> QED  BY <1>1, <1>2, <1>3, <1>5, <1>9, <2>3 DEF Round, buy, sell, t
<1>10. CASE ~CanTrade(buy, mid)
  <2>1. t = [s EXCEPT !.bi = @ + 1]
    BY <1>8, <1>10
  <2>2. Skips(s, t, s.bi + 1, s.si)
    BY <2>1, WalkFields DEF Skips
  <2> QED  BY <1>1, <1>2, <1>3, <1>5, <1>10, <2>2 DEF Round, buy, sell, t
<1>11. CASE CanTrade(buy, mid) /\ ~CanTrade(sell, mid)
  <2>1. t = [s EXCEPT !.si = @ + 1]
    BY <1>8, <1>11
  <2>2. Skips(s, t, s.bi, s.si + 1)
    BY <2>1, WalkFields DEF Skips
  <2> QED  BY <1>1, <1>2, <1>3, <1>5, <1>11, <2>2 DEF Round, buy, sell, t
<1> QED  BY <1>9, <1>10, <1>11

(* A round that crosses moves past at least one of its orders.             *)
LEMMA RoundMoves ==
  ASSUME NEW pool, NEW mid, NEW s \in Walk, NEW t, NEW buy, NEW sell, NEW qty,
         Round(pool, mid, s, t, buy, sell, qty), t = WalkOn(pool, mid, s)
  PROVE  /\ t \in Walk /\ t.bi >= s.bi /\ t.si >= s.si
         /\ t.bi > s.bi \/ t.si > s.si
<1>1. /\ s.bi \in Nat \ {0} /\ s.si \in Nat \ {0} /\ s.rem \in [DarkOrders -> Int]
      /\ s.reports \in Seq(Report) /\ buy \in DarkOrders /\ sell \in DarkOrders /\ qty \in Int
  BY WalkFields DEF Round
<1>2. CASE Skips(s, t, s.bi + 1, s.si)
  BY <1>1, <1>2 DEF Skips, Walk
<1>3. CASE Skips(s, t, s.bi, s.si + 1)
  BY <1>1, <1>3 DEF Skips, Walk
<1>4. CASE CanTrade(buy, mid) /\ CanTrade(sell, mid) /\ Crosses(s, t, buy, sell, qty)
  <2>1. t.rem[buy] \in Int /\ t.rem[sell] \in Int
    BY <1>1, <1>4 DEF Crosses
  <2>2. t.rem[buy] <= 0 \/ t.rem[sell] <= 0
    <3>1. /\ s.rem[buy] \in Int /\ s.rem[sell] \in Int /\ qty = Lesser(s.rem[buy], s.rem[sell])
          /\ t.rem[buy] = s.rem[buy] - qty /\ t.rem[sell] = s.rem[sell] - qty
      BY <1>1, <1>4 DEF Round, Crosses
    <3> QED  BY <3>1 DEF Lesser
  <2>3. /\ t.bi \in Nat \ {0} /\ t.bi >= s.bi /\ (t.rem[buy] <= 0 => t.bi > s.bi)
        /\ t.si \in Nat \ {0} /\ t.si >= s.si /\ (t.rem[sell] <= 0 => t.si > s.si)
    <3>1. t.bi = Past(s.bi, t.rem[buy]) /\ t.si = Past(s.si, t.rem[sell])
      BY <1>4 DEF Crosses
    <3> QED  BY <1>1, <2>1, <3>1 DEF Past
  <2>4. t.reports \in Seq(Report) /\ t.rem \in [DarkOrders -> Int]
    <3>1. [order |-> buy, qty |-> qty] \in Report /\ [order |-> sell, qty |-> qty] \in Report
      BY <1>1 DEF Report
    <3>2. Append(Append(s.reports, [order |-> buy, qty |-> qty]), [order |-> sell, qty |-> qty])
            \in Seq(Report)
      BY <1>1, <3>1, AppendTwo
    <3> QED  BY <1>1, <1>4, <3>2 DEF Crosses
  <2>5. t = [bi |-> t.bi, si |-> t.si, rem |-> t.rem, reports |-> t.reports]
    <3>1. ~(~CanTrade(buy, mid)) /\ ~(~CanTrade(sell, mid))
      BY <1>4
    <3> QED  BY <3>1 DEF WalkOn, Round
  <2>6. t \in Walk
    BY <2>3, <2>4, <2>5 DEF Walk
  <2> QED  BY <2>2, <2>3, <2>6
<1> QED  BY <1>2, <1>3, <1>4 DEF Round

LEMMA TogoFalls ==
  ASSUME NEW pool \in Pool, NEW s \in Walk, NEW t \in Walk, t.bi >= s.bi, t.si >= s.si
  PROVE  /\ Togo(pool, s) \in Nat /\ Togo(pool, t) \in Nat
         /\ (t.bi > s.bi \/ t.si > s.si) /\ ~WalkOver(pool, s) => Togo(pool, t) < Togo(pool, s)
<1>1. /\ pool.buys \in Seq(Buyers) /\ pool.sells \in Seq(Sellers)
      /\ s.bi \in Nat \ {0} /\ s.si \in Nat \ {0} /\ t.bi \in Nat /\ t.si \in Nat
  BY DEF Pool, Walk
<1>2. /\ Left(pool.buys, t.bi) \in Nat /\ Left(pool.buys, s.bi) \in Nat
      /\ Left(pool.buys, t.bi) <= Left(pool.buys, s.bi)
      /\ t.bi > s.bi /\ s.bi <= Len(pool.buys) => Left(pool.buys, t.bi) < Left(pool.buys, s.bi)
  BY <1>1, LeftFalls
<1>3. /\ Left(pool.sells, t.si) \in Nat /\ Left(pool.sells, s.si) \in Nat
      /\ Left(pool.sells, t.si) <= Left(pool.sells, s.si)
      /\ t.si > s.si /\ s.si <= Len(pool.sells) => Left(pool.sells, t.si) < Left(pool.sells, s.si)
  BY <1>1, LeftFalls
<1>4. ~WalkOver(pool, s) => s.bi <= Len(pool.buys) /\ s.si <= Len(pool.sells)
  BY <1>1 DEF WalkOver
<1> QED  BY <1>2, <1>3, <1>4 DEF Togo

LEMMA WalkGoesOn ==
  ASSUME NEW pool \in Pool, NEW mid, NEW s \in Walk, ~WalkOver(pool, s)
  PROVE  /\ WalkOn(pool, mid, s) \in Walk
         /\ Togo(pool, s) \in Nat /\ Togo(pool, WalkOn(pool, mid, s)) \in Nat
         /\ Togo(pool, WalkOn(pool, mid, s)) < Togo(pool, s)
<1>1. PICK t : t = WalkOn(pool, mid, s)
  OBVIOUS
<1>2. PICK buy, sell, qty : Round(pool, mid, s, t, buy, sell, qty)
  BY <1>1, WalkOnParts
<1>3. t \in Walk /\ t.bi >= s.bi /\ t.si >= s.si /\ (t.bi > s.bi \/ t.si > s.si)
  BY <1>1, <1>2, RoundMoves
<1> QED  BY <1>1, <1>3, TogoFalls

LEMMA TogoNat ==
  ASSUME NEW pool \in Pool, NEW s \in Walk
  PROVE  Togo(pool, s) \in Nat
<1>1. /\ pool.buys \in Seq(Buyers) /\ pool.sells \in Seq(Sellers)
      /\ s.bi \in Nat \ {0} /\ s.si \in Nat \ {0}
  BY DEF Pool, Walk
<1>2. Left(pool.buys, s.bi) \in Nat /\ Left(pool.sells, s.si) \in Nat
  BY <1>1, LeftFalls
<1> QED  BY <1>2 DEF Togo

(* So a function that obeys the loop exists: the states of a walk with at  *)
(* most n orders ahead have one for every n.                               *)
Upto(pool, n) == {s \in Walk : Togo(pool, s) <= n}

LEMMA WalkerExists ==
  ASSUME NEW pool \in Pool, NEW mid, NEW n \in Nat
  PROVE  \E g : g = WalkRounds(pool, mid, g, Upto(pool, n))
<1> DEFINE I == {k \in Nat : \E g : g = WalkRounds(pool, mid, g, Upto(pool, k))}
<1>1. 0 \in I
  <2>1. ASSUME NEW s \in Upto(pool, 0) PROVE WalkOver(pool, s)
    <3>1. s \in Walk /\ Togo(pool, s) <= 0
      BY <2>1 DEF Upto
    <3>2. ~WalkOver(pool, s) => Togo(pool, s) \in Nat /\ Togo(pool, WalkOn(pool, mid, s)) \in Nat
                                /\ Togo(pool, WalkOn(pool, mid, s)) < Togo(pool, s)
      BY <3>1, WalkGoesOn
    <3> QED  BY <3>1, <3>2
  <2> DEFINE g == [s \in Upto(pool, 0) |-> s]
  <2>2. g = WalkRounds(pool, mid, g, Upto(pool, 0))
    BY <2>1 DEF WalkRounds
  <2> HIDE DEF g
  <2> QED  BY <2>2
<1>2. ASSUME NEW k \in Nat, k \in I PROVE k + 1 \in I
  <2>1. PICK g : g = WalkRounds(pool, mid, g, Upto(pool, k))
    BY <1>2
  <2> DEFINE h == WalkRounds(pool, mid, g, Upto(pool, k + 1))
  <2>2. Upto(pool, k) \subseteq Upto(pool, k + 1)
    BY TogoNat DEF Upto
  <2>3. \A s \in Upto(pool, k) : h[s] = g[s]
    <3>1. \A s \in Upto(pool, k + 1) : h[s] = WalkRounds(pool, mid, g, Upto(pool, k + 1))[s]
      OBVIOUS
    <3>2. \A s \in Upto(pool, k) : g[s] = WalkRounds(pool, mid, g, Upto(pool, k))[s]
      BY <2>1
    <3> HIDE DEF h
    <3> QED  BY <2>2, <3>1, <3>2 DEF WalkRounds
  <2>4. ASSUME NEW s \in Upto(pool, k + 1), ~WalkOver(pool, s)
        PROVE  h[WalkOn(pool, mid, s)] = g[WalkOn(pool, mid, s)]
    <3>1. s \in Walk /\ Togo(pool, s) <= k + 1
      BY <2>4 DEF Upto
    <3>2. /\ WalkOn(pool, mid, s) \in Walk
          /\ Togo(pool, s) \in Nat /\ Togo(pool, WalkOn(pool, mid, s)) \in Nat
          /\ Togo(pool, WalkOn(pool, mid, s)) < Togo(pool, s)
      BY <2>4, <3>1, WalkGoesOn
    <3>3. WalkOn(pool, mid, s) \in Upto(pool, k)
      BY <3>1, <3>2 DEF Upto
    <3> QED  BY <2>3, <3>3
  <2>5. h = WalkRounds(pool, mid, h, Upto(pool, k + 1))
    BY <2>4 DEF WalkRounds
  <2> HIDE DEF h
  <2> QED  BY <2>5
<1> HIDE DEF I
<1>3. n \in I
  BY <1>1, <1>2, UpFromZero
<1> QED  BY <1>3 DEF I

(* ... and they agree, so that all the states of a walk have one.          *)
LEMMA WalkersAgree ==
  ASSUME NEW pool \in Pool, NEW mid, NEW m \in Nat, NEW n \in Nat, NEW g, NEW h,
         g = WalkRounds(pool, mid, g, Upto(pool, m)), h = WalkRounds(pool, mid, h, Upto(pool, n))
  PROVE  \A s \in Upto(pool, m) \cap Upto(pool, n) : g[s] = h[s]
<1> DEFINE Both == Upto(pool, m) \cap Upto(pool, n)
           I == {k \in Nat : \A s \in Both : Togo(pool, s) <= k => g[s] = h[s]}
<1>1. ASSUME NEW s \in Both
      PROVE  /\ s \in Walk
             /\ WalkOver(pool, s) => g[s] = h[s]
             /\ ~WalkOver(pool, s) =>
                  /\ g[s] = g[WalkOn(pool, mid, s)] /\ h[s] = h[WalkOn(pool, mid, s)]
                  /\ WalkOn(pool, mid, s) \in Both
                  /\ Togo(pool, s) \in Nat /\ Togo(pool, WalkOn(pool, mid, s)) \in Nat
                  /\ Togo(pool, WalkOn(pool, mid, s)) < Togo(pool, s)
  <2>1. s \in Walk /\ Togo(pool, s) <= m /\ Togo(pool, s) <= n
    BY DEF Upto
  <2>2. /\ g[s] = IF WalkOver(pool, s) THEN s ELSE g[WalkOn(pool, mid, s)]
        /\ h[s] = IF WalkOver(pool, s) THEN s ELSE h[WalkOn(pool, mid, s)]
    <3>1. /\ g[s] = WalkRounds(pool, mid, g, Upto(pool, m))[s]
          /\ h[s] = WalkRounds(pool, mid, h, Upto(pool, n))[s]
      OBVIOUS
    <3> QED  BY <3>1 DEF WalkRounds
  <2>3. ASSUME ~WalkOver(pool, s)
        PROVE  /\ WalkOn(pool, mid, s) \in Walk
               /\ Togo(pool, s) \in Nat /\ Togo(pool, WalkOn(pool, mid, s)) \in Nat
               /\ Togo(pool, WalkOn(pool, mid, s)) < Togo(pool, s)
    BY <2>1, <2>3, WalkGoesOn
  <2>4. ASSUME ~WalkOver(pool, s) PROVE WalkOn(pool, mid, s) \in Both
    BY <2>1, <2>3, <2>4 DEF Upto
  <2> QED  BY <2>1, <2>2, <2>3, <2>4
<1> HIDE DEF Both
<1>2. 0 \in I
  BY <1>1
<1>3. ASSUME NEW k \in Nat, k \in I PROVE k + 1 \in I
  <2>1. ASSUME NEW s \in Both, Togo(pool, s) <= k + 1 PROVE g[s] = h[s]
    <3>1. CASE ~WalkOver(pool, s)
      <4>1. Togo(pool, WalkOn(pool, mid, s)) <= k
        BY <1>1, <2>1, <3>1
      <4> QED  BY <1>1, <1>3, <3>1, <4>1
    <3> QED  BY <1>1, <3>1
  <2> QED  BY <2>1
<1> HIDE DEF I
<1>4. m \in I
  BY <1>2, <1>3, UpFromZero
<1> QED  BY <1>4 DEF I, Both, Upto

LEMMA WalkerObeys ==
  ASSUME NEW pool \in Pool, NEW mid
  PROVE  \A s \in Walk :
           Walker(pool, mid)[s] = IF WalkOver(pool, s) THEN s
                                  ELSE Walker(pool, mid)[WalkOn(pool, mid, s)]
<1> DEFINE G(n) == CHOOSE g : g = WalkRounds(pool, mid, g, Upto(pool, n))
           w == [s \in Walk |-> G(Togo(pool, s))[s]]
<1>1. ASSUME NEW n \in Nat PROVE G(n) = WalkRounds(pool, mid, G(n), Upto(pool, n))
  BY WalkerExists
<1> HIDE DEF G
<1>2. ASSUME NEW s \in Walk
      PROVE  w[s] = IF WalkOver(pool, s) THEN s ELSE w[WalkOn(pool, mid, s)]
  <2>1. Togo(pool, s) \in Nat /\ s \in Upto(pool, Togo(pool, s))
    BY TogoNat DEF Upto
  <2>2. PICK n : n = Togo(pool, s)
    OBVIOUS
  <2>3. w[s] = G(n)[s] /\ n \in Nat
    BY <2>1, <2>2
  <2>4. G(n)[s] = IF WalkOver(pool, s) THEN s ELSE G(n)[WalkOn(pool, mid, s)]
    <3>1. G(n)[s] = WalkRounds(pool, mid, G(n), Upto(pool, n))[s] /\ s \in Upto(pool, n)
      BY <1>1, <2>1, <2>2, <2>3
    <3> QED  BY <3>1 DEF WalkRounds
  <2>5. CASE ~WalkOver(pool, s)
    <3>1. PICK t : t = WalkOn(pool, mid, s)
      OBVIOUS
    <3>2. t \in Walk /\ Togo(pool, t) \in Nat /\ Togo(pool, t) < n
      BY <2>2, <2>5, <3>1, WalkGoesOn
    <3>3. t \in Upto(pool, n) \cap Upto(pool, Togo(pool, t))
      BY <2>3, <3>2 DEF Upto
    <3>4. /\ G(n) = WalkRounds(pool, mid, G(n), Upto(pool, n))
          /\ G(Togo(pool, t)) = WalkRounds(pool, mid, G(Togo(pool, t)), Upto(pool, Togo(pool, t)))
      BY <1>1, <2>3, <3>2
    <3>5. G(n)[t] = G(Togo(pool, t))[t]
      BY <2>3, <3>2, <3>3, <3>4, WalkersAgree
    <3>6. w[t] = G(Togo(pool, t))[t]
      BY <3>2
    <3> HIDE DEF w
    <3> QED  BY <2>3, <2>4, <2>5, <3>1, <3>5, <3>6
  <2> HIDE DEF w
  <2> QED  BY <2>3, <2>4, <2>5
<1>3. w = WalkRounds(pool, mid, w, Walk)
  <2>1. WalkRounds(pool, mid, w, Walk) = [s \in Walk |-> w[s]]
    BY <1>2 DEF WalkRounds
  <2> QED  BY <2>1
<1> HIDE DEF w
<1>4. Walker(pool, mid) = WalkRounds(pool, mid, Walker(pool, mid), Walk)
  BY <1>3 DEF Walker
<1>5. ASSUME NEW s \in Walk
      PROVE  Walker(pool, mid)[s] = WalkRounds(pool, mid, Walker(pool, mid), Walk)[s]
  BY <1>4
<1> QED  BY <1>5 DEF WalkRounds

(* What every round keeps, the walk keeps to its end.                      *)
LEMMA WalkKeeps ==
  ASSUME NEW pool \in Pool, NEW mid, NEW J \in SUBSET Walk,
         \A s \in J : ~WalkOver(pool, s) => WalkOn(pool, mid, s) \in J, NEW s \in J
  PROVE  Walker(pool, mid)[s] \in J /\ WalkOver(pool, Walker(pool, mid)[s])
<1> DEFINE End(u) == Walker(pool, mid)[u] \in J /\ WalkOver(pool, Walker(pool, mid)[u])
           I == {k \in Nat : \A u \in J : Togo(pool, u) <= k => End(u)}
<1>1. ASSUME NEW u \in J
      PROVE  /\ WalkOver(pool, u) => End(u)
             /\ ~WalkOver(pool, u) => /\ WalkOn(pool, mid, u) \in J
                                      /\ End(WalkOn(pool, mid, u)) => End(u)
                                      /\ Togo(pool, u) \in Nat
                                      /\ Togo(pool, WalkOn(pool, mid, u)) \in Nat
                                      /\ Togo(pool, WalkOn(pool, mid, u)) < Togo(pool, u)
  <2>1. u \in Walk
    OBVIOUS
  <2>2. Walker(pool, mid)[u] = IF WalkOver(pool, u) THEN u
                               ELSE Walker(pool, mid)[WalkOn(pool, mid, u)]
    BY <2>1, WalkerObeys
  <2>3. CASE WalkOver(pool, u)
    BY <2>2, <2>3
  <2>4. CASE ~WalkOver(pool, u)
    BY <2>1, <2>2, <2>4, WalkGoesOn
  <2> QED  BY <2>3, <2>4
<1> HIDE DEF End
<1>2. 0 \in I
  BY <1>1
<1>3. ASSUME NEW k \in Nat, k \in I PROVE k + 1 \in I
  <2>1. ASSUME NEW u \in J, Togo(pool, u) <= k + 1 PROVE End(u)
    <3>1. CASE ~WalkOver(pool, u)
      <4>1. WalkOn(pool, mid, u) \in J /\ Togo(pool, WalkOn(pool, mid, u)) <= k
        BY <1>1, <2>1, <3>1
      <4> QED  BY <1>1, <1>3, <3>1, <4>1
    <3> QED  BY <1>1, <3>1
  <2> QED  BY <2>1
<1> HIDE DEF I
<1>4. Togo(pool, s) \in Nat
  BY TogoNat
<1>5. Togo(pool, s) \in I
  BY <1>2, <1>3, <1>4, UpFromZero
<1> QED  BY <1>4, <1>5 DEF I, End

-----------------------------------------------------------------------------
(* What a list of reports says of an order.                                *)
FillReport == [order : DarkOrders, qty : Nat \ {0}]
Says(report, o) == IF report.order = o THEN report.qty ELSE 0

LEMMA SaysNat ==
  ASSUME NEW report \in FillReport, NEW o
  PROVE  Says(report, o) \in Nat
BY DEF FillReport, Says

LEMMA DueIsSum ==
  ASSUME NEW todo \in Seq(FillReport), NEW o
  PROVE  /\ Due(todo, o)
              = SumFunctionOnSet([i \in 1 .. Len(todo) |-> Says(todo[i], o)], 1 .. Len(todo))
         /\ Len(todo) \in Nat
         /\ \A i \in 1 .. Len(todo) : Says(todo[i], o) \in Nat
<1>1. /\ DOMAIN todo = 1 .. Len(todo) /\ Len(todo) \in Nat
      /\ \A i \in 1 .. Len(todo) : todo[i] \in FillReport
  OBVIOUS
<1> QED  BY <1>1, SaysNat DEF Due, Says

LEMMA DueNat ==
  ASSUME NEW todo \in Seq(FillReport), NEW o
  PROVE  Due(todo, o) \in Nat
<1> DEFINE w == [i \in 1 .. Len(todo) |-> Says(todo[i], o)]
<1>1. \A i \in 1 .. Len(todo) : w[i] \in Nat
  BY DueIsSum
<1>2. IsFiniteSet(1 .. Len(todo))
  BY DueIsSum, FS_Interval
<1> HIDE DEF w
<1>3. SumFunctionOnSet(w, 1 .. Len(todo)) \in Nat
  BY <1>1, <1>2, SumNat
<1> QED  BY <1>3, DueIsSum DEF w

LEMMA DueEmpty ==
  ASSUME NEW o
  PROVE  Due(<<>>, o) = 0
<1>1. DOMAIN <<>> = {}
  OBVIOUS
<1> QED  BY <1>1, SumEmpty DEF Due

LEMMA DueAppend ==
  ASSUME NEW todo \in Seq(FillReport), NEW report \in FillReport, NEW o
  PROVE  Due(Append(todo, report), o) = Due(todo, o) + Says(report, o)
<1> DEFINE n == Len(todo)
           more == Append(todo, report)
           v == [i \in 1 .. n |-> Says(todo[i], o)]
           w == [i \in 1 .. n + 1 |-> Says(more[i], o)]
<1>1. /\ more \in Seq(FillReport) /\ Len(more) = n + 1 /\ n \in Nat
      /\ \A i \in 1 .. n : more[i] = todo[i]
      /\ more[n + 1] = report
  BY AppendProperties
<1> HIDE DEF more
<1>2. Due(more, o) = SumFunctionOnSet(w, 1 .. n + 1) /\ \A i \in 1 .. n + 1 : w[i] \in Int
  <2>1. /\ Due(more, o)
             = SumFunctionOnSet([i \in 1 .. Len(more) |-> Says(more[i], o)], 1 .. Len(more))
        /\ \A i \in 1 .. Len(more) : Says(more[i], o) \in Nat
    BY <1>1, DueIsSum
  <2> QED  BY <1>1, <2>1
<1>3. Due(todo, o) = SumFunctionOnSet(v, 1 .. n)
  BY DueIsSum
<1>4. w[n + 1] = Says(report, o) /\ \A i \in 1 .. n : w[i] = v[i]
  BY <1>1
<1> HIDE DEF v, w
<1>5. /\ SumFunctionOnSet(w, 1 .. n + 1) = w[n + 1] + SumFunctionOnSet(w, 1 .. n)
      /\ SumFunctionOnSet(w, 1 .. n) \in Int
  BY <1>1, <1>2, SumLast
<1>6. SumFunctionOnSet(w, 1 .. n) = SumFunctionOnSet(v, 1 .. n)
  BY <1>4, SumSame
<1>7. Says(report, o) \in Int
  BY SaysNat
<1> QED  BY <1>2, <1>3, <1>4, <1>5, <1>6, <1>7 DEF more

LEMMA DueTail ==
  ASSUME NEW todo \in Seq(FillReport), todo # <<>>, NEW o
  PROVE  Due(todo, o) = Says(Head(todo), o) + Due(Tail(todo), o)
<1> DEFINE n == Len(Tail(todo))
           w == [i \in 1 .. n + 1 |-> Says(todo[i], o)]
           v == [i \in 1 .. n |-> Says(Tail(todo)[i], o)]
<1>1. /\ Tail(todo) \in Seq(FillReport) /\ Len(todo) = n + 1 /\ n \in Nat
      /\ Head(todo) = todo[1]
      /\ \A i \in 1 .. n : Tail(todo)[i] = todo[i + 1]
  BY HeadTailProperties
<1>2. Due(todo, o) = SumFunctionOnSet(w, 1 .. n + 1) /\ \A i \in 1 .. n + 1 : w[i] \in Int
  <2>1. /\ Due(todo, o)
             = SumFunctionOnSet([i \in 1 .. Len(todo) |-> Says(todo[i], o)], 1 .. Len(todo))
        /\ \A i \in 1 .. Len(todo) : Says(todo[i], o) \in Nat
    BY DueIsSum
  <2> QED  BY <1>1, <2>1
<1>3. Due(Tail(todo), o) = SumFunctionOnSet(v, 1 .. n)
  BY <1>1, DueIsSum
<1>4. w[1] = Says(Head(todo), o) /\ \A i \in 1 .. n : v[i] = w[i + 1]
  BY <1>1
<1> HIDE DEF v, w
<1>5. SumFunctionOnSet(w, 1 .. n + 1) = w[1] + SumFunctionOnSet(v, 1 .. n)
  BY <1>1, <1>2, <1>4, SumFirst
<1> QED  BY <1>2, <1>3, <1>4, <1>5

-----------------------------------------------------------------------------
(* matchSymbol takes from an order what it reports of it, never more than  *)
(* is left of it, and nothing from an order that is not in the pool.       *)
Conserves(pool, s) ==
  /\ s \in Walk /\ s.reports \in Seq(FillReport)
  /\ \A o \in DarkOrders : /\ s.rem[o] \in Nat /\ s.rem[o] <= remaining[o]
                           /\ Due(s.reports, o) = remaining[o] - s.rem[o]
                           /\ o \notin Resting(pool) => s.rem[o] = remaining[o]

LEMMA RoundConserves ==
  ASSUME remaining \in [DarkOrders -> Nat], NEW pool \in Pool, NEW mid, NEW s, Conserves(pool, s),
         ~WalkOver(pool, s)
  PROVE  Conserves(pool, WalkOn(pool, mid, s))
<1>0. s \in Walk
  BY DEF Conserves
<1>1. PICK t : t = WalkOn(pool, mid, s)
  OBVIOUS
<1>2. PICK buy, sell, qty : Round(pool, mid, s, t, buy, sell, qty)
  BY <1>0, <1>1, WalkOnParts
<1>3. t \in Walk
  BY <1>0, <1>1, WalkGoesOn
<1>4. CASE Skips(s, t, s.bi + 1, s.si) \/ Skips(s, t, s.bi, s.si + 1)
  <2>1. t.rem = s.rem /\ t.reports = s.reports
    BY <1>4 DEF Skips
  <2> QED  BY <1>1, <1>3, <2>1 DEF Conserves
<1>5. CASE Crosses(s, t, buy, sell, qty)
  <2>1. /\ buy \in DarkOrders /\ sell \in DarkOrders /\ buy # sell
        /\ buy \in Resting(pool) /\ sell \in Resting(pool)
    <3>1. /\ s.bi \in 1 .. Len(pool.buys) /\ s.si \in 1 .. Len(pool.sells)
          /\ buy = pool.buys[s.bi] /\ sell = pool.sells[s.si]
          /\ pool.buys \in Seq(Buyers) /\ pool.sells \in Seq(Sellers)
      BY <1>2 DEF Round, Pool
    <3>2. buy \in Range(pool.buys) /\ sell \in Range(pool.sells)
      BY <3>1 DEF Range
    <3> QED  BY <1>2, <3>2 DEF Round, Resting
  <2>2. /\ s.rem[buy] \in Nat /\ s.rem[sell] \in Nat
        /\ qty = Lesser(s.rem[buy], s.rem[sell])
    BY <1>2, <2>1 DEF Conserves, Round
  <2>3. qty \in Nat /\ qty <= s.rem[buy] /\ qty <= s.rem[sell]
    BY <2>2 DEF Lesser
  <2>4. /\ t.rem[buy] = s.rem[buy] - qty /\ t.rem[sell] = s.rem[sell] - qty
        /\ \A o \in DarkOrders \ {buy, sell} : t.rem[o] = s.rem[o]
    BY <1>5 DEF Crosses
  <2>5. CASE qty = 0
    <3>1. t.reports = s.reports
      BY <1>5, <2>5 DEF Crosses
    <3>2. \A o \in DarkOrders : t.rem[o] = s.rem[o]
      BY <2>1, <2>2, <2>4, <2>5
    <3> QED  BY <1>1, <1>3, <3>1, <3>2 DEF Conserves
  <2>6. CASE qty # 0
    <3> DEFINE a == [order |-> buy, qty |-> qty]
               b == [order |-> sell, qty |-> qty]
               one == Append(s.reports, a)
    <3>1. a \in FillReport /\ b \in FillReport /\ s.reports \in Seq(FillReport)
      BY <2>1, <2>3, <2>6 DEF FillReport, Conserves
    <3>2. \A o : /\ Says(a, o) = IF o = buy THEN qty ELSE 0
                 /\ Says(b, o) = IF o = sell THEN qty ELSE 0
      BY DEF Says
    <3>3. t.reports = Append(one, b)
      BY <1>5, <2>3, <2>6 DEF Crosses
    <3> HIDE DEF a, b, one
    <3>4. one \in Seq(FillReport) /\ t.reports \in Seq(FillReport)
      BY <3>1, <3>3, AppendProperties DEF one
    <3>5. ASSUME NEW o PROVE Due(t.reports, o) = (Due(s.reports, o) + Says(a, o)) + Says(b, o)
      <4>1. Due(Append(one, b), o) = Due(one, o) + Says(b, o)
        BY <3>1, <3>4, DueAppend
      <4>2. Due(Append(s.reports, a), o) = Due(s.reports, o) + Says(a, o)
        BY <3>1, DueAppend
      <4> QED  BY <3>3, <4>1, <4>2 DEF one
    <3>6. ASSUME NEW o \in DarkOrders
          PROVE  /\ t.rem[o] \in Nat /\ t.rem[o] <= remaining[o]
                 /\ Due(t.reports, o) = remaining[o] - t.rem[o]
                 /\ o \notin Resting(pool) => t.rem[o] = remaining[o]
      <4>1. /\ s.rem[o] \in Nat /\ s.rem[o] <= remaining[o] /\ remaining[o] \in Nat
            /\ Due(s.reports, o) = remaining[o] - s.rem[o]
            /\ o \notin Resting(pool) => s.rem[o] = remaining[o]
        BY DEF Conserves
      <4>2. CASE o = buy
        <5>1. Due(t.reports, o) = Due(s.reports, o) + qty
          BY <2>1, <2>3, <3>2, <3>5, <4>1, <4>2
        <5> QED  BY <2>1, <2>3, <2>4, <4>1, <4>2, <5>1
      <4>3. CASE o = sell
        <5>1. Due(t.reports, o) = Due(s.reports, o) + qty
          BY <2>1, <2>3, <3>2, <3>5, <4>1, <4>3
        <5> QED  BY <2>1, <2>3, <2>4, <4>1, <4>3, <5>1
      <4>4. CASE o # buy /\ o # sell
        <5>1. Due(t.reports, o) = Due(s.reports, o) /\ t.rem[o] = s.rem[o]
          BY <2>4, <3>2, <3>5, <4>1, <4>4
        <5> QED  BY <4>1, <5>1
      <4> QED  BY <4>2, <4>3, <4>4
    <3> QED  BY <1>1, <1>3, <3>4, <3>6 DEF Conserves
  <2> QED  BY <2>5, <2>6
<1> QED  BY <1>2, <1>4, <1>5 DEF Round

LEMMA WalkStarts ==
  ASSUME remaining \in [DarkOrders -> Nat]
  PROVE  WalkStart \in Walk /\ WalkStart.bi = 1 /\ WalkStart.si = 1
         /\ WalkStart.rem = remaining /\ WalkStart.reports = <<>>
<1>1. remaining \in [DarkOrders -> Int] /\ <<>> \in Seq(Report)
  BY EmptySeq
<1> QED  BY <1>1 DEF WalkStart, Walk

LEMMA MatchConserves ==
  ASSUME remaining \in [DarkOrders -> Nat], NEW pool \in Pool, NEW mid
  PROVE  Conserves(pool, MatchSymbol(pool, mid))
<1> DEFINE J == {s \in Walk : Conserves(pool, s)}
<1>1. \A s \in J : ~WalkOver(pool, s) => WalkOn(pool, mid, s) \in J
  BY RoundConserves, WalkGoesOn
<1>2. WalkStart \in J
  <2>1. <<>> \in Seq(FillReport)
    BY EmptySeq
  <2>2. /\ WalkStart \in Walk /\ WalkStart.reports = <<>>
        /\ \A o \in DarkOrders : WalkStart.rem[o] = remaining[o] /\ remaining[o] \in Nat
    BY WalkStarts
  <2>3. \A o : Due(WalkStart.reports, o) = 0
    BY <2>2, DueEmpty
  <2>4. ASSUME NEW o \in DarkOrders
        PROVE  /\ WalkStart.rem[o] \in Nat /\ WalkStart.rem[o] <= remaining[o]
               /\ Due(WalkStart.reports, o) = remaining[o] - WalkStart.rem[o]
               /\ WalkStart.rem[o] = remaining[o]
    <3>1. /\ WalkStart.rem[o] = remaining[o] /\ remaining[o] \in Nat
          /\ Due(WalkStart.reports, o) = 0
      BY <2>2, <2>3
    <3> QED  BY <3>1
  <2>5. Conserves(pool, WalkStart)
    BY <2>1, <2>2, <2>4 DEF Conserves
  <2> QED  BY <2>2, <2>5
<1>3. J \in SUBSET Walk
  OBVIOUS
<1> HIDE DEF J
<1>4. Walker(pool, mid)[WalkStart] \in J
  BY <1>1, <1>2, <1>3, WalkKeeps
<1> QED  BY <1>4, MatchIsWalker DEF J

-----------------------------------------------------------------------------
(* The lists an order can stand in.                                        *)
LEMMA PoolIsTyped ==
  ASSUME NEW pool \in Pool
  PROVE  /\ pool.buys \in Seq(Buyers) /\ pool.sells \in Seq(Sellers)
         /\ pool.buys \in Seq(DarkOrders) /\ pool.sells \in Seq(DarkOrders)
         /\ pool \in [buys : Seq(DarkOrders), sells : Seq(DarkOrders)]
         /\ Resting(pool) \subseteq DarkOrders
<1>1. pool.buys \in Seq(Buyers) /\ pool.sells \in Seq(Sellers)
      /\ pool = [buys |-> pool.buys, sells |-> pool.sells]
  BY DEF Pool
<1>2. pool.buys \in Seq(DarkOrders) /\ pool.sells \in Seq(DarkOrders)
  BY <1>1, SeqMonotonic DEF Buyers, Sellers
<1>3. Range(pool.buys) \subseteq DarkOrders /\ Range(pool.sells) \subseteq DarkOrders
  BY <1>2 DEF Range
<1> QED  BY <1>1, <1>2, <1>3 DEF Resting

Listed(pool) == pool \in Pool /\ Distinct(pool.buys) /\ Distinct(pool.sells)

LEMMA NoPoolListed == Listed(NoPool) /\ Resting(NoPool) = {}
<1>1. NoPool.buys = <<>> /\ NoPool.sells = <<>> /\ NoPool \in Pool
  BY EmptySeq DEF NoPool, Pool
<1>2. DOMAIN <<>> = {}
  OBVIOUS
<1> QED  BY <1>1, <1>2 DEF Listed, Distinct, Resting, Range

LEMMA KeptAreListed ==
  ASSUME NEW pool, Listed(pool), NEW kept
  PROVE  Listed(Keep(pool, kept)) /\ Resting(Keep(pool, kept)) = Resting(pool) \cap kept
<1>1. pool.buys \in Seq(Buyers) /\ pool.sells \in Seq(Sellers)
  BY DEF Listed, Pool
<1>2. /\ Filter(pool.buys, kept) \in Seq(Buyers)
      /\ Range(Filter(pool.buys, kept)) = Range(pool.buys) \cap kept
      /\ Distinct(Filter(pool.buys, kept))
  BY <1>1, FilterFacts DEF Listed
<1>3. /\ Filter(pool.sells, kept) \in Seq(Sellers)
      /\ Range(Filter(pool.sells, kept)) = Range(pool.sells) \cap kept
      /\ Distinct(Filter(pool.sells, kept))
  BY <1>1, FilterFacts DEF Listed
<1>4. /\ Keep(pool, kept) \in Pool
      /\ Keep(pool, kept).buys = Filter(pool.buys, kept)
      /\ Keep(pool, kept).sells = Filter(pool.sells, kept)
  BY <1>2, <1>3 DEF Keep, Pool
<1>5. Resting(Keep(pool, kept)) = (Range(pool.buys) \cap kept) \cup (Range(pool.sells) \cap kept)
  BY <1>2, <1>3, <1>4 DEF Resting
<1> QED  BY <1>2, <1>3, <1>4, <1>5 DEF Listed, Resting

LEMMA AppendListed ==
  ASSUME NEW S, NEW q \in Seq(S), NEW x \in S
  PROVE  /\ Append(q, x) \in Seq(S)
         /\ Range(Append(q, x)) = Range(q) \cup {x}
         /\ Distinct(q) /\ x \notin Range(q) => Distinct(Append(q, x))
<1>1. /\ Append(q, x) \in Seq(S) /\ Len(Append(q, x)) = Len(q) + 1 /\ Len(q) \in Nat
      /\ \A i \in 1 .. Len(q) : Append(q, x)[i] = q[i]
      /\ Append(q, x)[Len(q) + 1] = x
  BY AppendProperties
<1>2. DOMAIN Append(q, x) = DOMAIN q \cup {Len(q) + 1} /\ DOMAIN q = 1 .. Len(q)
  BY <1>1
<1>3. Range(Append(q, x)) = Range(q) \cup {x}
  BY <1>1, <1>2 DEF Range
<1>4. ASSUME Distinct(q), x \notin Range(q) PROVE Distinct(Append(q, x))
  <2>1. \A i \in DOMAIN q : q[i] # x
    BY <1>4 DEF Range
  <2> QED  BY <1>1, <1>2, <1>4, <2>1 DEF Distinct
<1> QED  BY <1>1, <1>3, <1>4

LEMMA AdmittedListed ==
  ASSUME NEW pool, Listed(pool), NEW o \in DarkOrders, o \notin Resting(pool)
  PROVE  Listed(WithOrder(pool, o)) /\ Resting(WithOrder(pool, o)) = Resting(pool) \cup {o}
<1>1. /\ pool.buys \in Seq(Buyers) /\ pool.sells \in Seq(Sellers)
      /\ Distinct(pool.buys) /\ Distinct(pool.sells)
      /\ o \notin Range(pool.buys) /\ o \notin Range(pool.sells)
      /\ pool = [buys |-> pool.buys, sells |-> pool.sells]
  BY DEF Listed, Pool, Resting
<1>2. CASE Side[o] = "BUY"
  <2>1. /\ Append(pool.buys, o) \in Seq(Buyers) /\ Distinct(Append(pool.buys, o))
        /\ Range(Append(pool.buys, o)) = Range(pool.buys) \cup {o}
    BY <1>1, <1>2, AppendListed DEF Buyers
  <2>2. WithOrder(pool, o) = [buys |-> Append(pool.buys, o), sells |-> pool.sells]
    BY <1>1, <1>2 DEF WithOrder
  <2>3. /\ WithOrder(pool, o) \in Pool
        /\ WithOrder(pool, o).buys = Append(pool.buys, o) /\ WithOrder(pool, o).sells = pool.sells
    BY <1>1, <2>1, <2>2 DEF Pool
  <2> QED  BY <1>1, <2>1, <2>3 DEF Listed, Resting
<1>3. CASE Side[o] # "BUY"
  <2>0. Side[o] = "SELL"
    BY <1>3, DarkOrdersAssumption
  <2>1. /\ Append(pool.sells, o) \in Seq(Sellers) /\ Distinct(Append(pool.sells, o))
        /\ Range(Append(pool.sells, o)) = Range(pool.sells) \cup {o}
    BY <1>1, <2>0, AppendListed DEF Sellers
  <2>2. WithOrder(pool, o) = [buys |-> pool.buys, sells |-> Append(pool.sells, o)]
    BY <1>1, <1>3 DEF WithOrder
  <2>3. /\ WithOrder(pool, o) \in Pool
        /\ WithOrder(pool, o).sells = Append(pool.sells, o) /\ WithOrder(pool, o).buys = pool.buys
    BY <1>1, <2>1, <2>2 DEF Pool
  <2> QED  BY <1>1, <2>1, <2>3 DEF Listed, Resting
<1> QED  BY <1>2, <1>3

(* What a sweep takes out, buys first, is a list without repetitions: an   *)
(* order is on one side only.                                              *)
LEMMA SweptListed ==
  ASSUME NEW out, Listed(out)
  PROVE  /\ out.buys \o out.sells \in Seq(DarkOrders)
         /\ Distinct(out.buys \o out.sells)
         /\ Range(out.buys \o out.sells) = Resting(out)
         /\ ~Empty(out) => out.buys \o out.sells # <<>>
<1> DEFINE b == out.buys
           s == out.sells
           q == b \o s
<1>1. /\ b \in Seq(DarkOrders) /\ s \in Seq(DarkOrders) /\ b \in Seq(Buyers) /\ s \in Seq(Sellers)
      /\ Distinct(b) /\ Distinct(s) /\ out = [buys |-> b, sells |-> s]
  BY PoolIsTyped DEF Listed, Pool
<1>2. ASSUME NEW i \in DOMAIN b, NEW j \in DOMAIN s PROVE b[i] # s[j]
  BY <1>1 DEF Buyers, Sellers
<1> HIDE DEF b, s
<1>3. /\ q \in Seq(DarkOrders) /\ Len(q) = Len(b) + Len(s) /\ Len(b) \in Nat /\ Len(s) \in Nat
      /\ \A i \in 1 .. Len(b) : q[i] = b[i]
      /\ \A i \in Len(b) + 1 .. Len(b) + Len(s) : q[i] = s[i - Len(b)]
  BY <1>1, ConcatProperties
<1>4. DOMAIN q = 1 .. Len(b) + Len(s) /\ DOMAIN b = 1 .. Len(b) /\ DOMAIN s = 1 .. Len(s)
  BY <1>1, <1>3
<1> HIDE DEF q
<1>5. Range(q) = Range(b) \cup Range(s)
  <2>1. ASSUME NEW x \in Range(q) PROVE x \in Range(b) \cup Range(s)
    <3>1. PICK i \in 1 .. Len(b) + Len(s) : x = q[i]
      BY <1>4, <2>1 DEF Range
    <3>2. i \in 1 .. Len(b) \/ (i \in Len(b) + 1 .. Len(b) + Len(s) /\ i - Len(b) \in 1 .. Len(s))
      BY <1>3
    <3> QED  BY <1>3, <1>4, <3>1, <3>2 DEF Range
  <2>2. ASSUME NEW x \in Range(b) PROVE x \in Range(q)
    <3>1. PICK i \in 1 .. Len(b) : x = b[i]
      BY <1>4, <2>2 DEF Range
    <3>2. i \in 1 .. Len(b) + Len(s) /\ q[i] = x
      BY <1>3, <3>1
    <3> QED  BY <1>4, <3>2 DEF Range
  <2>3. ASSUME NEW x \in Range(s) PROVE x \in Range(q)
    <3>1. PICK i \in 1 .. Len(s) : x = s[i]
      BY <1>4, <2>3 DEF Range
    <3>2. Len(b) + i \in Len(b) + 1 .. Len(b) + Len(s) /\ (Len(b) + i) - Len(b) = i
          /\ Len(b) + i \in 1 .. Len(b) + Len(s)
      BY <1>3
    <3>3. q[Len(b) + i] = x
      BY <1>3, <3>1, <3>2
    <3> QED  BY <1>4, <3>2, <3>3 DEF Range
  <2> QED  BY <2>1, <2>2, <2>3
<1>6. ASSUME NEW i \in DOMAIN q, NEW j \in DOMAIN q, q[i] = q[j] PROVE i = j
  <2>1. \A k \in DOMAIN q : \/ k \in DOMAIN b /\ q[k] = b[k]
                            \/ k > Len(b) /\ k - Len(b) \in DOMAIN s /\ q[k] = s[k - Len(b)]
    BY <1>3, <1>4
  <2>2. i \in Nat /\ j \in Nat
    BY <1>3, <1>4
  <2>3. CASE i \in DOMAIN b /\ j \in DOMAIN b
    BY <1>1, <1>3, <1>4, <1>6, <2>3 DEF Distinct
  <2>4. CASE i \notin DOMAIN b /\ j \notin DOMAIN b
    <3>1. i - Len(b) \in DOMAIN s /\ j - Len(b) \in DOMAIN s /\ s[i - Len(b)] = s[j - Len(b)]
      BY <1>6, <2>1, <2>4
    <3>2. i - Len(b) = j - Len(b)
      BY <1>1, <3>1 DEF Distinct
    <3> QED  BY <1>3, <2>2, <3>2
  <2>5. CASE i \in DOMAIN b /\ j \notin DOMAIN b
    <3>1. q[i] = b[i] /\ j - Len(b) \in DOMAIN s /\ q[j] = s[j - Len(b)]
      BY <1>3, <1>4, <2>1, <2>5
    <3> QED  BY <1>2, <1>6, <2>5, <3>1
  <2>6. CASE i \notin DOMAIN b /\ j \in DOMAIN b
    <3>1. q[j] = b[j] /\ i - Len(b) \in DOMAIN s /\ q[i] = s[i - Len(b)]
      BY <1>3, <1>4, <2>1, <2>6
    <3> QED  BY <1>2, <1>6, <2>6, <3>1
  <2> QED  BY <2>3, <2>4, <2>5, <2>6
<1>7. ~Empty(out) => q # <<>>
  <2>1. q = <<>> => Len(b) = 0 /\ Len(s) = 0
    BY <1>3
  <2>2. Len(b) = 0 /\ Len(s) = 0 => b = <<>> /\ s = <<>>
    BY <1>1, EmptySeq
  <2> QED  BY <1>1, <2>1, <2>2 DEF Empty, NoPool
<1> QED  BY <1>3, <1>5, <1>6, <1>7 DEF Distinct, Resting, q, b, s

LEMMA TailListed ==
  ASSUME NEW S, NEW q \in Seq(S), q # <<>>
  PROVE  /\ Tail(q) \in Seq(S) /\ Head(q) \in S /\ Head(q) \in Range(q)
         /\ Range(Tail(q)) \subseteq Range(q)
         /\ Distinct(q) => Distinct(Tail(q)) /\ Head(q) \notin Range(Tail(q))
<1>1. /\ Tail(q) \in Seq(S) /\ Len(Tail(q)) = Len(q) - 1 /\ Len(q) \in Nat \ {0}
      /\ Head(q) = q[1] /\ Head(q) \in S
      /\ \A i \in 1 .. Len(q) - 1 : Tail(q)[i] = q[i + 1]
  BY HeadTailProperties
<1>2. DOMAIN q = 1 .. Len(q) /\ DOMAIN Tail(q) = 1 .. Len(q) - 1 /\ 1 \in DOMAIN q
  BY <1>1
<1>3. \A i \in DOMAIN Tail(q) : i \in Nat /\ i # 0 /\ i + 1 \in DOMAIN q /\ Tail(q)[i] = q[i + 1]
  BY <1>1, <1>2
<1>4. Head(q) \in Range(q) /\ Range(Tail(q)) \subseteq Range(q)
  BY <1>1, <1>2, <1>3 DEF Range
<1>5. ASSUME Distinct(q) PROVE Distinct(Tail(q)) /\ Head(q) \notin Range(Tail(q))
  <2>1. ASSUME NEW i \in DOMAIN Tail(q), NEW j \in DOMAIN Tail(q), Tail(q)[i] = Tail(q)[j]
        PROVE  i = j
    <3>1. i + 1 = j + 1
      BY <1>3, <1>5, <2>1 DEF Distinct
    <3> QED  BY <1>3, <3>1
  <2>2. ASSUME NEW i \in DOMAIN Tail(q) PROVE Tail(q)[i] # Head(q)
    <3>1. i + 1 # 1
      BY <1>3
    <3> QED  BY <1>1, <1>2, <1>3, <1>5, <3>1 DEF Distinct
  <2> QED  BY <2>1, <2>2 DEF Distinct, Range
<1> QED  BY <1>1, <1>4, <1>5

-----------------------------------------------------------------------------
PoolRecord == [buys : Seq(DarkOrders), sells : Seq(DarkOrders)]
CycleRecord == [pool : 0 .. made, todo : Seq(FillReport)]
ExpiryRecord == [pool : 0 .. made, todo : Seq(DarkOrders)]

LEMMA TypeParts ==
  ASSUME PoolTypeOK
  PROVE  /\ made \in Nat /\ book \in 0 .. made /\ book \in Nat
         /\ pools \in Seq(PoolRecord) /\ Len(pools) = made /\ DOMAIN pools = 1 .. made
         /\ admitted \subseteq DarkOrders /\ late \subseteq admitted
         /\ remaining \in [DarkOrders -> Nat] /\ \A o \in DarkOrders : remaining[o] <= Qty[o]
         /\ cycle \in [Cycles -> CycleRecord]
         /\ expiry \in [Expiries -> ExpiryRecord]
         /\ told \in [DarkOrders -> Nat] /\ handedBack \in [DarkOrders -> Nat]
<1>1. pools \in Seq(PoolRecord) /\ Len(pools) = made
  BY DEF PoolTypeOK, PoolRecord
<1>2. cycle \in [Cycles -> CycleRecord] /\ expiry \in [Expiries -> ExpiryRecord]
  BY DEF PoolTypeOK, CycleRecord, ExpiryRecord, FillReport
<1>3. DOMAIN pools = 1 .. made
  BY <1>1
<1> QED  BY <1>1, <1>2, <1>3 DEF PoolTypeOK

LEMMA TypeFrom ==
  ASSUME made \in Nat, book \in 0 .. made, pools \in Seq(PoolRecord), Len(pools) = made,
         admitted \subseteq DarkOrders, late \subseteq admitted,
         remaining \in [DarkOrders -> Nat], \A o \in DarkOrders : remaining[o] <= Qty[o],
         cycle \in [Cycles -> CycleRecord], expiry \in [Expiries -> ExpiryRecord],
         told \in [DarkOrders -> Nat], handedBack \in [DarkOrders -> Nat]
  PROVE  PoolTypeOK
<1>1. pools \in Seq([buys : Seq(DarkOrders), sells : Seq(DarkOrders)])
  BY DEF PoolRecord
<1>2. cycle \in [Cycles -> [pool : 0 .. made, todo : Seq([order : DarkOrders, qty : Nat \ {0}])]]
  BY DEF CycleRecord, FillReport
<1>3. expiry \in [Expiries -> [pool : 0 .. made, todo : Seq(DarkOrders)]]
  BY DEF ExpiryRecord
<1> QED  BY <1>1, <1>2, <1>3 DEF PoolTypeOK

LEMMA ToReportNat ==
  ASSUME PoolTypeOK, NEW o
  PROVE  /\ ToReport(o) \in Nat
         /\ \A c \in Cycles : Due(cycle[c].todo, o) \in Nat
<1>1. ASSUME NEW c \in Cycles PROVE Due(cycle[c].todo, o) \in Nat
  BY TypeParts, DueNat DEF CycleRecord
<1> DEFINE w == [c \in Cycles |-> Due(cycle[c].todo, o)]
<1>2. \A c \in Cycles : w[c] \in Nat
  BY <1>1
<1> HIDE DEF w
<1>3. SumFunctionOnSet(w, Cycles) \in Nat
  BY <1>2, CyclesAssumption, SumNat
<1> QED  BY <1>1, <1>3 DEF ToReport, w

(* What the cycles still have to report changes with the one that moves.   *)
LEMMA ToReportMoves ==
  ASSUME PoolTypeOK, NEW c \in Cycles, NEW moved \in Seq(FillReport),
         cycle' \in [Cycles -> CycleRecord'], cycle'[c].todo = moved,
         \A d \in Cycles \ {c} : cycle'[d] = cycle[d], NEW o
  PROVE  /\ ToReport(o)' = ToReport(o) - Due(cycle[c].todo, o) + Due(moved, o)
         /\ ToReport(o) \in Nat /\ ToReport(o)' \in Nat
         /\ Due(cycle[c].todo, o) \in Nat /\ Due(moved, o) \in Nat
<1> DEFINE w == [d \in Cycles |-> Due(cycle[d].todo, o)]
           v == [d \in Cycles |-> Due(cycle'[d].todo, o)]
<1>1. /\ ToReport(o) \in Nat /\ Due(moved, o) \in Nat
      /\ \A d \in Cycles : Due(cycle[d].todo, o) \in Nat
  BY ToReportNat, DueNat
<1>2. /\ \A d \in Cycles : w[d] \in Nat /\ v[d] \in Nat
      /\ \A d \in Cycles \ {c} : w[d] = v[d]
      /\ w[c] = Due(cycle[c].todo, o) /\ v[c] = Due(moved, o)
  BY <1>1
<1>3. ToReport(o) = SumFunctionOnSet(w, Cycles) /\ ToReport(o)' = SumFunctionOnSet(v, Cycles)
  BY DEF ToReport, Due
<1> HIDE DEF w, v
<1>4. SumFunctionOnSet(v, Cycles) = SumFunctionOnSet(w, Cycles) - w[c] + v[c]
  <2>1. \A d \in Cycles : w[d] \in Int /\ v[d] \in Int
    BY <1>2
  <2> QED  BY <1>2, <2>1, CyclesAssumption, SumUpdate
<1>5. SumFunctionOnSet(v, Cycles) \in Nat
  BY <1>2, CyclesAssumption, SumNat
<1> QED  BY <1>1, <1>2, <1>3, <1>4, <1>5

LEMMA ToReportSame ==
  ASSUME cycle' = cycle, NEW o
  PROVE  ToReport(o)' = ToReport(o)
BY DEF ToReport, Due

LEMMA PoolPut ==
  ASSUME PoolTypeOK, NEW p \in 1 .. made, NEW pool, Listed(pool),
         pools' = [pools EXCEPT ![p] = pool]
  PROVE  /\ pools' \in Seq(PoolRecord) /\ Len(pools') = made
         /\ pools'[p] = pool /\ \A q \in 1 .. made \ {p} : pools'[q] = pools[q]
<1>1. pool \in PoolRecord
  BY PoolIsTyped DEF Listed, PoolRecord
<1>2. pools \in Seq(PoolRecord) /\ Len(pools) = made /\ DOMAIN pools = 1 .. made
  BY TypeParts
<1> QED  BY <1>1, <1>2, ExceptSeq

LEMMA PoolAdd ==
  ASSUME PoolTypeOK, NEW pool, Listed(pool), pools' = Append(pools, pool)
  PROVE  /\ pools' \in Seq(PoolRecord) /\ Len(pools') = made + 1
         /\ pools'[made + 1] = pool /\ \A q \in 1 .. made : pools'[q] = pools[q]
<1>1. pool \in PoolRecord
  BY PoolIsTyped DEF Listed, PoolRecord
<1>2. pools \in Seq(PoolRecord) /\ Len(pools) = made
  BY TypeParts
<1> QED  BY <1>1, <1>2, AppendProperties

-----------------------------------------------------------------------------
(* An order rests once, in one pool, or is in the hands of one sweep, and  *)
(* it was admitted.                                                        *)
Standing(p) == Resting(pools[p])
Sweeping(e) == Range(expiry[e].todo)

OnePlace ==
  /\ \A p \in 1 .. made : Listed(pools[p]) /\ Standing(p) \subseteq admitted
  /\ \A p, q \in 1 .. made : p # q => Standing(p) \cap Standing(q) = {}
  /\ \A e \in Expiries : Distinct(expiry[e].todo) /\ Sweeping(e) \subseteq admitted
  /\ \A e \in Expiries, p \in 1 .. made : Sweeping(e) \cap Standing(p) = {}
  /\ \A e, f \in Expiries : e # f => Sweeping(e) \cap Sweeping(f) = {}

(* A residual is handed on once, from where it no longer trades.           *)
BackOnce ==
  \A o \in DarkOrders :
    /\ handedBack[o] <= remaining[o]
    /\ \A p \in 1 .. made : o \in Standing(p) => handedBack[o] = 0
    /\ \A e \in Expiries : o \in Sweeping(e) => handedBack[o] = 0

(* An order's quantity is told, still to be reported, or remaining; what a *)
(* failed send or a restart drops is in none of them.                      *)
Unseen == \A o \in DarkOrders \ admitted : remaining[o] = 0 /\ told[o] = 0 /\ ToReport(o) = 0

Accounts == \A o \in DarkOrders : told[o] + ToReport(o) + remaining[o] <= Qty[o]

(* An invocation that has nothing left to do is no longer suspended.       *)
Suspended ==
  /\ \A c \in Cycles : cycle[c].todo = <<>> => cycle[c] = Idle
  /\ \A e \in Expiries : expiry[e].todo = <<>> => expiry[e] = Idle

PoolInv == PoolTypeOK /\ OnePlace /\ BackOnce /\ Unseen /\ Accounts /\ Suspended

LEMMA PlacesShrink ==
  ASSUME OnePlace, made' = made, admitted' = admitted,
         \A p \in 1 .. made : Listed(pools'[p]) /\ Resting(pools'[p]) \subseteq Resting(pools[p]),
         \A e \in Expiries : /\ Distinct(expiry'[e].todo)
                             /\ Range(expiry'[e].todo) \subseteq Range(expiry[e].todo)
  PROVE  OnePlace'
<1>1. \A p \in 1 .. made : Standing(p)' \subseteq Standing(p)
  BY DEF Standing
<1>2. \A e \in Expiries : Sweeping(e)' \subseteq Sweeping(e)
  BY DEF Sweeping
<1> QED  BY <1>1, <1>2 DEF OnePlace

LEMMA IdleDoesNothing ==
  /\ Idle.todo = <<>> /\ Range(Idle.todo) = {} /\ Distinct(Idle.todo)
  /\ made \in Nat => Idle \in CycleRecord /\ Idle \in ExpiryRecord
<1>1. DOMAIN <<>> = {}
  OBVIOUS
<1>2. <<>> \in Seq(FillReport) /\ <<>> \in Seq(DarkOrders)
  BY EmptySeq
<1> QED  BY <1>1, <1>2 DEF Idle, Range, Distinct, CycleRecord, ExpiryRecord

LEMMA InitPool == PoolInit => PoolInv
<1> SUFFICES ASSUME PoolInit PROVE PoolInv
  OBVIOUS
<1>1. pools = <<>> /\ made = 0 /\ 1 .. made = {} /\ <<>> \in Seq(PoolRecord) /\ Len(<<>>) = 0
  BY EmptySeq DEF PoolInit
<1>2. Idle \in CycleRecord /\ Idle \in ExpiryRecord /\ Idle.todo = <<>>
      /\ Range(Idle.todo) = {} /\ Distinct(Idle.todo)
  BY <1>1, IdleDoesNothing
<1>3. /\ \A c \in Cycles : cycle[c] = Idle
      /\ \A e \in Expiries : expiry[e] = Idle
      /\ \A o \in DarkOrders : remaining[o] = 0 /\ told[o] = 0 /\ handedBack[o] = 0
      /\ admitted = {} /\ late = {} /\ book = 0
      /\ remaining \in [DarkOrders -> Nat] /\ told \in [DarkOrders -> Nat]
      /\ handedBack \in [DarkOrders -> Nat]
      /\ cycle \in [Cycles -> CycleRecord] /\ expiry \in [Expiries -> ExpiryRecord]
  BY <1>2 DEF PoolInit
<1>4. \A o \in DarkOrders : Qty[o] \in Nat
  BY DarkOrdersAssumption
<1>5. PoolTypeOK
  <2>1. pools \in Seq(PoolRecord) /\ Len(pools) = made
    BY <1>1
  <2>2. /\ made \in Nat /\ book \in 0 .. made /\ admitted \subseteq DarkOrders
        /\ late \subseteq admitted
    BY <1>1, <1>3
  <2>3. \A o \in DarkOrders : remaining[o] <= Qty[o]
    BY <1>3, <1>4
  <2> QED  BY <1>3, <2>1, <2>2, <2>3, TypeFrom
<1>6. OnePlace
  BY <1>1, <1>2, <1>3 DEF OnePlace, Sweeping
<1>7. BackOnce
  BY <1>1, <1>2, <1>3 DEF BackOnce, Sweeping
<1>8. ASSUME NEW o \in DarkOrders PROVE ToReport(o) = 0
  <2> DEFINE w == [c \in Cycles |-> Due(cycle[c].todo, o)]
  <2>1. \A c \in Cycles : w[c] = 0
    BY <1>2, <1>3, DueEmpty
  <2> HIDE DEF w
  <2>2. SumFunctionOnSet(w, Cycles) = 0
    BY <2>1, CyclesAssumption, SumZero
  <2> QED  BY <2>2 DEF ToReport, w
<1>9. Unseen /\ Accounts
  BY <1>3, <1>4, <1>8 DEF Unseen, Accounts
<1>10. Suspended
  BY <1>3 DEF Suspended
<1> QED  BY <1>5, <1>6, <1>7, <1>9, <1>10 DEF PoolInv

LEMMA TypeNext ==
  ASSUME made' \in Nat, book' \in 0 .. made', pools' \in Seq(PoolRecord), Len(pools') = made',
         admitted' \subseteq DarkOrders, late' \subseteq admitted',
         remaining' \in [DarkOrders -> Nat], \A o \in DarkOrders : remaining'[o] <= Qty[o],
         cycle' \in [Cycles -> CycleRecord'], expiry' \in [Expiries -> ExpiryRecord'],
         told' \in [DarkOrders -> Nat], handedBack' \in [DarkOrders -> Nat]
  PROVE  PoolTypeOK'
<1>1. pools' \in Seq([buys : Seq(DarkOrders), sells : Seq(DarkOrders)])
  BY DEF PoolRecord
<1>2. cycle' \in [Cycles -> [pool : 0 .. made', todo : Seq([order : DarkOrders, qty : Nat \ {0}])]]
  BY DEF CycleRecord, FillReport
<1>3. expiry' \in [Expiries -> [pool : 0 .. made', todo : Seq(DarkOrders)]]
  BY DEF ExpiryRecord
<1> QED  BY <1>1, <1>2, <1>3 DEF PoolTypeOK

-----------------------------------------------------------------------------
(* Each action keeps the invariant.                                        *)
LEMMA DeadlineKeeps ==
  ASSUME PoolInv, NEW o \in DarkOrders, Deadline(o)
  PROVE  PoolInv'
<1>1. /\ UNCHANGED <<book, made, pools, admitted, remaining, cycle, expiry, told, handedBack>>
      /\ late' = late \cup {o} /\ o \in admitted
  BY DEF Deadline
<1>2. PoolTypeOK'
  BY <1>1 DEF PoolInv, PoolTypeOK
<1>3. OnePlace' /\ BackOnce'
  BY <1>1 DEF PoolInv, OnePlace, BackOnce, Standing, Sweeping
<1>4. \A p \in DarkOrders : ToReport(p)' = ToReport(p)
  BY <1>1, ToReportSame
<1>5. Unseen' /\ Accounts' /\ Suspended'
  BY <1>1, <1>4 DEF PoolInv, Unseen, Accounts, Suspended
<1> QED  BY <1>2, <1>3, <1>5 DEF PoolInv

LEMMA AdmitKeeps ==
  ASSUME PoolInv, NEW o \in DarkOrders, Admit(o)
  PROVE  PoolInv'
<1>1. /\ o \notin admitted /\ admitted' = admitted \cup {o}
      /\ remaining' = [remaining EXCEPT ![o] = Qty[o]]
      /\ UNCHANGED <<late, cycle, expiry, told, handedBack>>
  BY DEF Admit
<1>2. /\ PoolTypeOK /\ OnePlace /\ BackOnce /\ Unseen /\ Accounts /\ Suspended
  BY DEF PoolInv
<1>3. /\ made \in Nat /\ book \in 0 .. made /\ book \in Nat
      /\ admitted \subseteq DarkOrders /\ late \subseteq admitted
      /\ remaining \in [DarkOrders -> Nat] /\ \A p \in DarkOrders : remaining[p] <= Qty[p]
      /\ cycle \in [Cycles -> CycleRecord] /\ expiry \in [Expiries -> ExpiryRecord]
      /\ told \in [DarkOrders -> Nat] /\ handedBack \in [DarkOrders -> Nat]
      /\ Qty[o] \in Nat
  BY <1>2, TypeParts, DarkOrdersAssumption
<1> DEFINE Enters(p) ==
        /\ made' \in Nat /\ made' >= made /\ book' \in 0 .. made'
        /\ pools' \in Seq(PoolRecord) /\ Len(pools') = made'
        /\ Listed(pools'[p])
        /\ Resting(pools'[p]) = {o} \cup (IF p \in 1 .. made THEN Standing(p) ELSE {})
        /\ \A q \in 1 .. made' \ {p} : q \in 1 .. made /\ pools'[q] = pools[q]
<1>4. \E p \in 1 .. made' : Enters(p)
  <2>1. CASE book = 0
    <3>1. book' = made + 1 /\ made' = made + 1 /\ pools' = Append(pools, WithOrder(NoPool, o))
      BY <2>1 DEF Admit
    <3>2. Listed(WithOrder(NoPool, o)) /\ Resting(WithOrder(NoPool, o)) = {o}
      BY NoPoolListed, AdmittedListed
    <3>3. /\ pools' \in Seq(PoolRecord) /\ Len(pools') = made + 1
          /\ pools'[made + 1] = WithOrder(NoPool, o)
          /\ \A q \in 1 .. made : pools'[q] = pools[q]
      BY <1>2, <3>1, <3>2, PoolAdd
    <3>4. /\ made + 1 \in 1 .. made' /\ made + 1 \notin 1 .. made
          /\ \A q \in 1 .. made' \ {made + 1} : q \in 1 .. made
      BY <1>3, <3>1
    <3>5. Enters(made + 1)
      BY <1>3, <3>1, <3>2, <3>3, <3>4
    <3> QED  BY <3>4, <3>5
  <2>2. CASE book # 0
    <3>1. /\ pools' = [pools EXCEPT ![book] = WithOrder(pools[book], o)]
          /\ made' = made /\ book' = book
      BY <2>2 DEF Admit
    <3>2. book \in 1 .. made
      BY <1>3, <2>2
    <3>3. Listed(pools[book]) /\ o \notin Standing(book)
      BY <1>1, <1>2, <3>2 DEF OnePlace
    <3>4. /\ Listed(WithOrder(pools[book], o))
          /\ Resting(WithOrder(pools[book], o)) = {o} \cup Standing(book)
      BY <3>3, AdmittedListed DEF Standing
    <3>5. /\ pools' \in Seq(PoolRecord) /\ Len(pools') = made
          /\ pools'[book] = WithOrder(pools[book], o)
          /\ \A q \in 1 .. made \ {book} : pools'[q] = pools[q]
      BY <1>2, <3>1, <3>2, <3>4, PoolPut
    <3>6. Enters(book)
      BY <1>3, <3>1, <3>2, <3>4, <3>5
    <3> QED  BY <3>1, <3>2, <3>6
  <2> QED  BY <2>1, <2>2
<1>5. PICK p \in 1 .. made' : Enters(p)
  BY <1>4
<1>6. PoolTypeOK'
  <2>1. cycle' \in [Cycles -> CycleRecord'] /\ expiry' \in [Expiries -> ExpiryRecord']
    <3>1. CycleRecord \subseteq CycleRecord' /\ ExpiryRecord \subseteq ExpiryRecord'
      BY <1>3, <1>5 DEF CycleRecord, ExpiryRecord
    <3> QED  BY <1>1, <1>3, <3>1
  <2>2. remaining' \in [DarkOrders -> Nat] /\ \A q \in DarkOrders : remaining'[q] <= Qty[q]
    BY <1>1, <1>3
  <2> QED  BY <1>1, <1>3, <1>5, <2>1, <2>2, TypeNext
<1>7. \A q \in 1 .. made' : /\ Listed(pools'[q]) /\ Standing(q)' \subseteq admitted'
                            /\ o \in Standing(q)' => q = p
                            /\ q \in 1 .. made => Standing(q)' \ {o} = Standing(q)
                            /\ q \notin 1 .. made => Standing(q)' \ {o} = {}
  <2> SUFFICES ASSUME NEW q \in 1 .. made'
               PROVE  /\ Listed(pools'[q]) /\ Standing(q)' \subseteq admitted'
                      /\ o \in Standing(q)' => q = p
                      /\ q \in 1 .. made => Standing(q)' \ {o} = Standing(q)
                      /\ q \notin 1 .. made => Standing(q)' \ {o} = {}
    OBVIOUS
  <2>1. q \in 1 .. made =>
          Listed(pools[q]) /\ Standing(q) \subseteq admitted /\ o \notin Standing(q)
    BY <1>1, <1>2 DEF OnePlace
  <2>2. CASE q = p
    BY <1>1, <1>5, <2>1, <2>2 DEF Standing
  <2>3. CASE q # p
    BY <1>1, <1>5, <2>1, <2>3 DEF Standing
  <2> QED  BY <2>2, <2>3
<1>8. \A e \in Expiries : /\ Sweeping(e)' = Sweeping(e) /\ o \notin Sweeping(e)
                          /\ Distinct(expiry'[e].todo) /\ Sweeping(e) \subseteq admitted'
  BY <1>1, <1>2 DEF OnePlace, Sweeping
<1>9. OnePlace'
  <2>1. ASSUME NEW q \in 1 .. made', NEW r \in 1 .. made', q # r
        PROVE  Standing(q)' \cap Standing(r)' = {}
    BY <1>2, <1>7, <2>1 DEF OnePlace
  <2>2. ASSUME NEW e \in Expiries, NEW q \in 1 .. made' PROVE Sweeping(e)' \cap Standing(q)' = {}
    BY <1>2, <1>7, <1>8 DEF OnePlace
  <2>3. ASSUME NEW e \in Expiries, NEW f \in Expiries, e # f
        PROVE  Sweeping(e)' \cap Sweeping(f)' = {}
    BY <1>2, <1>8, <2>3 DEF OnePlace
  <2> QED  BY <1>7, <1>8, <2>1, <2>2, <2>3 DEF OnePlace
<1>10. handedBack[o] = 0
  BY <1>1, <1>2, <1>3 DEF BackOnce, Unseen
<1>11. BackOnce'
  <2> SUFFICES ASSUME NEW x \in DarkOrders
               PROVE  /\ handedBack'[x] <= remaining'[x]
                      /\ \A q \in 1 .. made' : x \in Standing(q)' => handedBack'[x] = 0
                      /\ \A e \in Expiries : x \in Sweeping(e)' => handedBack'[x] = 0
    BY DEF BackOnce
  <2>1. CASE x = o
    BY <1>1, <1>3, <1>10, <2>1
  <2>2. CASE x # o
    BY <1>1, <1>2, <1>3, <1>7, <1>8, <2>2 DEF BackOnce
  <2> QED  BY <2>1, <2>2
<1>12. \A x \in DarkOrders : ToReport(x)' = ToReport(x)
  BY <1>1, ToReportSame
<1>13. Unseen'
  BY <1>1, <1>2, <1>3, <1>12 DEF Unseen
<1>14. Accounts'
  <2> SUFFICES ASSUME NEW x \in DarkOrders PROVE told'[x] + ToReport(x)' + remaining'[x] <= Qty[x]
    BY DEF Accounts
  <2>1. CASE x = o
    <3>1. told'[x] = 0 /\ ToReport(x)' = 0 /\ remaining'[x] = Qty[x]
      BY <1>1, <1>2, <1>3, <1>12, <2>1 DEF Unseen
    <3> QED  BY <1>3, <2>1, <3>1
  <2>2. CASE x # o
    BY <1>1, <1>2, <1>3, <1>12, <2>2 DEF Accounts
  <2> QED  BY <2>1, <2>2
<1>15. Suspended'
  BY <1>1, <1>2 DEF Suspended
<1> QED  BY <1>6, <1>9, <1>11, <1>13, <1>14, <1>15 DEF PoolInv

LEMMA MatchStartKeeps ==
  ASSUME PoolInv, NEW c \in Cycles, MatchStart(c)
  PROVE  PoolInv'
<1>1. /\ PoolTypeOK /\ OnePlace /\ BackOnce /\ Unseen /\ Accounts /\ Suspended
  BY DEF PoolInv
<1>2. /\ made \in Nat /\ book \in 0 .. made /\ book \in Nat
      /\ admitted \subseteq DarkOrders /\ late \subseteq admitted
      /\ remaining \in [DarkOrders -> Nat] /\ \A o \in DarkOrders : remaining[o] <= Qty[o]
      /\ cycle \in [Cycles -> CycleRecord] /\ expiry \in [Expiries -> ExpiryRecord]
      /\ told \in [DarkOrders -> Nat] /\ handedBack \in [DarkOrders -> Nat]
  BY <1>1, TypeParts
<1>3. /\ cycle[c] = Idle /\ book # 0
      /\ UNCHANGED <<book, made, admitted, late, expiry, told, handedBack>>
  BY DEF MatchStart
<1>4. PICK mid \in Mids :
        /\ MatchSymbol(pools[book], mid).reports # <<>>
        /\ remaining' = MatchSymbol(pools[book], mid).rem
        /\ pools' = [pools EXCEPT ![book] =
                       Keep(@, {o \in DarkOrders : MatchSymbol(pools[book], mid).rem[o] > 0})]
        /\ cycle' = [cycle EXCEPT ![c] =
                       [pool |-> book, todo |-> MatchSymbol(pools[book], mid).reports]]
  BY DEF MatchStart
<1>5. PICK match : match = MatchSymbol(pools[book], mid)
  OBVIOUS
<1> DEFINE kept == {o \in DarkOrders : match.rem[o] > 0}
<1>6. /\ match.reports # <<>> /\ remaining' = match.rem
      /\ pools' = [pools EXCEPT ![book] = Keep(pools[book], kept)]
      /\ cycle' = [cycle EXCEPT ![c] = [pool |-> book, todo |-> match.reports]]
  BY <1>4, <1>5
<1> HIDE DEF kept
<1>7. book \in 1 .. made /\ Listed(pools[book])
  BY <1>1, <1>2, <1>3 DEF OnePlace
<1>8. Conserves(pools[book], match)
  BY <1>2, <1>5, <1>7, MatchConserves DEF Listed
<1>9. /\ match.reports \in Seq(FillReport) /\ match.rem \in [DarkOrders -> Int]
      /\ \A o \in DarkOrders : /\ match.rem[o] \in Nat /\ match.rem[o] <= remaining[o]
                               /\ Due(match.reports, o) = remaining[o] - match.rem[o]
                               /\ o \notin Standing(book) => match.rem[o] = remaining[o]
  BY <1>8 DEF Conserves, Standing, Walk
<1>10. /\ Listed(Keep(pools[book], kept))
       /\ Resting(Keep(pools[book], kept)) = Resting(pools[book]) \cap kept
  BY <1>7, KeptAreListed
<1>11. /\ pools' \in Seq(PoolRecord) /\ Len(pools') = made
       /\ pools'[book] = Keep(pools[book], kept)
       /\ \A q \in 1 .. made \ {book} : pools'[q] = pools[q]
  BY <1>1, <1>6, <1>7, <1>10, PoolPut
<1>12. /\ cycle' \in [Cycles -> CycleRecord'] /\ cycle'[c].todo = match.reports
       /\ \A d \in Cycles \ {c} : cycle'[d] = cycle[d]
  <2>1. [pool |-> book, todo |-> match.reports] \in CycleRecord
    BY <1>2, <1>9 DEF CycleRecord
  <2>2. cycle' \in [Cycles -> CycleRecord] /\ cycle'[c].todo = match.reports
        /\ \A d \in Cycles \ {c} : cycle'[d] = cycle[d]
    BY <1>2, <1>6, <2>1
  <2>3. CycleRecord' = CycleRecord
    BY <1>3 DEF CycleRecord
  <2> QED  BY <2>2, <2>3
<1>13. PoolTypeOK'
  <2>1. expiry' \in [Expiries -> ExpiryRecord']
    BY <1>2, <1>3 DEF ExpiryRecord
  <2>2. remaining' \in [DarkOrders -> Nat]
    BY <1>6, <1>9
  <2>3. \A o \in DarkOrders : remaining'[o] <= Qty[o]
    BY <1>2, <1>6, <1>9, DarkOrdersAssumption
  <2> QED  BY <1>2, <1>3, <1>11, <1>12, <2>1, <2>2, <2>3, TypeNext
<1>14. \A p \in 1 .. made : Listed(pools'[p]) /\ Resting(pools'[p]) \subseteq Resting(pools[p])
  BY <1>1, <1>7, <1>10, <1>11 DEF OnePlace
<1>15. OnePlace'
  <2>1. \A e \in Expiries : /\ Distinct(expiry'[e].todo)
                            /\ Range(expiry'[e].todo) \subseteq Range(expiry[e].todo)
    BY <1>1, <1>3 DEF OnePlace
  <2> QED  BY <1>1, <1>3, <1>14, <2>1, PlacesShrink
<1>16. BackOnce'
  <2> SUFFICES ASSUME NEW o \in DarkOrders
               PROVE  /\ handedBack'[o] <= remaining'[o]
                      /\ \A p \in 1 .. made' : o \in Standing(p)' => handedBack'[o] = 0
                      /\ \A e \in Expiries : o \in Sweeping(e)' => handedBack'[o] = 0
    BY DEF BackOnce
  <2>1. /\ handedBack[o] <= remaining[o]
        /\ \A p \in 1 .. made : o \in Standing(p) => handedBack[o] = 0
        /\ \A e \in Expiries : o \in Sweeping(e) => handedBack[o] = 0
    BY <1>1 DEF BackOnce
  <2>2. handedBack'[o] <= remaining'[o]
    <3>1. handedBack[o] \in Nat /\ match.rem[o] \in Nat /\ remaining'[o] = match.rem[o]
          /\ handedBack'[o] = handedBack[o]
          /\ (o \notin Standing(book) => match.rem[o] = remaining[o])
      BY <1>2, <1>3, <1>6, <1>9
    <3>2. o \in Standing(book) => handedBack[o] = 0
      BY <1>7, <2>1
    <3> QED  BY <2>1, <3>1, <3>2
  <2>3. \A p \in 1 .. made' : o \in Standing(p)' => o \in Standing(p)
    BY <1>3, <1>14 DEF Standing
  <2>4. \A e \in Expiries : Sweeping(e)' = Sweeping(e)
    BY <1>3 DEF Sweeping
  <2> QED  BY <1>3, <2>1, <2>2, <2>3, <2>4
<1>17. ASSUME NEW o \in DarkOrders
       PROVE  /\ ToReport(o)' = ToReport(o) + (remaining[o] - remaining'[o])
              /\ ToReport(o) \in Nat /\ ToReport(o)' \in Nat
  <2>1. /\ ToReport(o)' = ToReport(o) - Due(cycle[c].todo, o) + Due(match.reports, o)
        /\ ToReport(o) \in Nat /\ ToReport(o)' \in Nat
    BY <1>1, <1>9, <1>12, ToReportMoves
  <2>2. Due(cycle[c].todo, o) = 0
    BY <1>3, DueEmpty DEF Idle
  <2>3. /\ Due(match.reports, o) = remaining[o] - remaining'[o]
        /\ remaining[o] \in Nat /\ remaining'[o] \in Nat
    BY <1>2, <1>6, <1>9
  <2> QED  BY <2>1, <2>2, <2>3
<1>18. Unseen'
  <2> SUFFICES ASSUME NEW o \in DarkOrders \ admitted
               PROVE  remaining'[o] = 0 /\ told'[o] = 0 /\ ToReport(o)' = 0
    BY <1>3 DEF Unseen
  <2>1. remaining[o] = 0 /\ told[o] = 0 /\ ToReport(o) = 0
    BY <1>1 DEF Unseen
  <2>2. o \notin Standing(book)
    BY <1>1, <1>7 DEF OnePlace
  <2>3. remaining'[o] = remaining[o]
    BY <1>6, <1>9, <2>2
  <2> QED  BY <1>3, <1>17, <2>1, <2>3
<1>19. Accounts'
  <2> SUFFICES ASSUME NEW o \in DarkOrders PROVE told'[o] + ToReport(o)' + remaining'[o] <= Qty[o]
    BY DEF Accounts
  <2>1. told[o] + ToReport(o) + remaining[o] <= Qty[o] /\ told'[o] = told[o] /\ told[o] \in Nat
        /\ remaining[o] \in Nat /\ remaining'[o] \in Nat
    BY <1>1, <1>2, <1>3, <1>6, <1>9 DEF Accounts
  <2> QED  BY <1>17, <2>1
<1>20. Suspended'
  BY <1>1, <1>3, <1>6, <1>12 DEF Suspended
<1> QED  BY <1>13, <1>15, <1>16, <1>18, <1>19, <1>20 DEF PoolInv

(* What steps that only send, or lose what was to be sent, leave to keep.  *)
LEMMA PlacesKept ==
  ASSUME OnePlace, BackOnce, UNCHANGED <<made, pools, admitted, remaining, handedBack>>,
         \A e \in Expiries : /\ Distinct(expiry'[e].todo)
                             /\ Range(expiry'[e].todo) \subseteq Range(expiry[e].todo)
  PROVE  OnePlace' /\ BackOnce'
<1>1. OnePlace'
  <2>1. \A p \in 1 .. made : Listed(pools'[p]) /\ Resting(pools'[p]) \subseteq Resting(pools[p])
    BY DEF OnePlace
  <2> QED  BY <2>1, PlacesShrink
<1>2. \A p \in 1 .. made : Standing(p)' = Standing(p)
  BY DEF Standing
<1>3. \A e \in Expiries : Sweeping(e)' \subseteq Sweeping(e)
  BY DEF Sweeping
<1> QED  BY <1>1, <1>2, <1>3 DEF BackOnce

LEMMA MatchReportKeeps ==
  ASSUME PoolInv, NEW c \in Cycles, MatchReport(c)
  PROVE  PoolInv'
<1> DEFINE report == Head(cycle[c].todo)
           rest == Tail(cycle[c].todo)
<1>1. /\ PoolTypeOK /\ OnePlace /\ BackOnce /\ Unseen /\ Accounts /\ Suspended
  BY DEF PoolInv
<1>2. /\ made \in Nat /\ book \in 0 .. made /\ pools \in Seq(PoolRecord) /\ Len(pools) = made
      /\ admitted \subseteq DarkOrders /\ late \subseteq admitted
      /\ remaining \in [DarkOrders -> Nat] /\ \A o \in DarkOrders : remaining[o] <= Qty[o]
      /\ cycle \in [Cycles -> CycleRecord] /\ expiry \in [Expiries -> ExpiryRecord]
      /\ told \in [DarkOrders -> Nat] /\ handedBack \in [DarkOrders -> Nat]
  BY <1>1, TypeParts
<1>3. /\ cycle[c] # Idle
      /\ UNCHANGED <<made, pools, admitted, remaining, late, expiry, handedBack>>
      /\ told' = [told EXCEPT ![report.order] = @ + report.qty] \/ told' = told
      /\ IF rest # <<>> THEN cycle' = [cycle EXCEPT ![c].todo = rest] /\ book' = book
         ELSE cycle' = [cycle EXCEPT ![c] = Idle] /\ (book' = 0 \/ book' = book)
  BY DEF MatchReport, DropIfEmpty
<1>4. cycle[c] \in CycleRecord /\ cycle[c].todo \in Seq(FillReport) /\ cycle[c].todo # <<>>
  BY <1>1, <1>2, <1>3 DEF Suspended, CycleRecord
<1>5. report \in FillReport /\ rest \in Seq(FillReport)
  BY <1>4, HeadTailProperties
<1>6. \A o : Due(cycle[c].todo, o) = Says(report, o) + Due(rest, o)
  BY <1>4, DueTail
<1> HIDE DEF report, rest
<1>7. /\ cycle' \in [Cycles -> CycleRecord'] /\ cycle'[c].todo = rest
      /\ \A d \in Cycles \ {c} : cycle'[d] = cycle[d]
      /\ rest = <<>> => cycle'[c] = Idle
  <2>1. CycleRecord' = CycleRecord
    BY <1>3 DEF CycleRecord
  <2>2. CASE rest # <<>>
    <3>1. /\ [cycle[c] EXCEPT !.todo = rest] \in CycleRecord
          /\ [cycle[c] EXCEPT !.todo = rest].todo = rest
      BY <1>4, <1>5 DEF CycleRecord
    <3>2. cycle' = [cycle EXCEPT ![c] = [cycle[c] EXCEPT !.todo = rest]]
      BY <1>3, <2>2
    <3> QED  BY <1>2, <2>1, <2>2, <3>1, <3>2
  <2>3. CASE rest = <<>>
    <3>1. cycle' = [cycle EXCEPT ![c] = Idle]
      BY <1>3, <2>3
    <3>2. Idle \in CycleRecord /\ Idle.todo = <<>>
      BY <1>2, IdleDoesNothing
    <3> QED  BY <1>2, <2>1, <2>3, <3>1, <3>2
  <2> QED  BY <2>2, <2>3
<1>8. ASSUME NEW o \in DarkOrders
      PROVE  /\ told'[o] \in Nat /\ told'[o] <= told[o] + Says(report, o) /\ told[o] \in Nat
             /\ Says(report, o) \in Nat
             /\ ToReport(o)' = ToReport(o) - Says(report, o)
             /\ ToReport(o) \in Nat /\ ToReport(o)' \in Nat
  <2>1. /\ ToReport(o)' = ToReport(o) - Due(cycle[c].todo, o) + Due(rest, o)
        /\ ToReport(o) \in Nat /\ ToReport(o)' \in Nat
        /\ Due(cycle[c].todo, o) \in Nat /\ Due(rest, o) \in Nat
    BY <1>1, <1>5, <1>7, ToReportMoves
  <2>2. Says(report, o) \in Nat
    BY <1>5, SaysNat
  <2>3. ToReport(o)' = ToReport(o) - Says(report, o)
    BY <1>6, <2>1, <2>2
  <2>4. report.order \in DarkOrders /\ report.qty \in Nat
    BY <1>5 DEF FillReport
  <2>5. told'[o] \in Nat /\ told'[o] <= told[o] + Says(report, o) /\ told[o] \in Nat
    <3>1. CASE told' = told
      BY <1>2, <2>2, <3>1
    <3>2. CASE told' = [told EXCEPT ![report.order] = @ + report.qty]
      BY <1>2, <2>4, <3>2 DEF Says
    <3> QED  BY <1>3, <3>1, <3>2
  <2> QED  BY <2>1, <2>2, <2>3, <2>5
<1>9. PoolTypeOK'
  <2>1. book' \in 0 .. made' /\ pools' \in Seq(PoolRecord) /\ Len(pools') = made' /\ made' \in Nat
    BY <1>2, <1>3
  <2>2. expiry' \in [Expiries -> ExpiryRecord']
    BY <1>2, <1>3 DEF ExpiryRecord
  <2>3. told' \in [DarkOrders -> Nat]
    <3>1. report.order \in DarkOrders /\ report.qty \in Nat
      BY <1>5 DEF FillReport
    <3>2. [told EXCEPT ![report.order] = @ + report.qty] \in [DarkOrders -> Nat]
      BY <1>2, <3>1
    <3> QED  BY <1>2, <1>3, <3>2
  <2> QED  BY <1>2, <1>3, <1>7, <2>1, <2>2, <2>3, TypeNext
<1>10. OnePlace' /\ BackOnce'
  <2>1. \A e \in Expiries : /\ Distinct(expiry'[e].todo)
                            /\ Range(expiry'[e].todo) \subseteq Range(expiry[e].todo)
    BY <1>1, <1>3 DEF OnePlace
  <2> QED  BY <1>1, <1>3, <2>1, PlacesKept
<1>11. Unseen'
  <2> SUFFICES ASSUME NEW o \in DarkOrders \ admitted
               PROVE  remaining'[o] = 0 /\ told'[o] = 0 /\ ToReport(o)' = 0
    BY <1>3 DEF Unseen
  <2>1. remaining[o] = 0 /\ told[o] = 0 /\ ToReport(o) = 0
    BY <1>1 DEF Unseen
  <2> QED  BY <1>3, <1>8, <2>1
<1>12. Accounts'
  <2> SUFFICES ASSUME NEW o \in DarkOrders PROVE told'[o] + ToReport(o)' + remaining'[o] <= Qty[o]
    BY DEF Accounts
  <2>1. /\ told[o] + ToReport(o) + remaining[o] <= Qty[o]
        /\ remaining'[o] = remaining[o] /\ remaining[o] \in Nat /\ Qty[o] \in Nat
    BY <1>1, <1>2, <1>3, DarkOrdersAssumption DEF Accounts
  <2> QED  BY <1>8, <2>1
<1>13. Suspended'
  BY <1>1, <1>3, <1>7 DEF Suspended
<1> QED  BY <1>9, <1>10, <1>11, <1>12, <1>13 DEF PoolInv

LEMMA ExpiryStartKeeps ==
  ASSUME PoolInv, NEW e \in Expiries, ExpiryStart(e)
  PROVE  PoolInv'
<1> DEFINE out == Keep(pools[book], late)
           stay == Keep(pools[book], DarkOrders \ late)
           swept == out.buys \o out.sells
<1>1. /\ PoolTypeOK /\ OnePlace /\ BackOnce /\ Unseen /\ Accounts /\ Suspended
  BY DEF PoolInv
<1>2. /\ made \in Nat /\ book \in 0 .. made /\ book \in Nat
      /\ admitted \subseteq DarkOrders /\ late \subseteq admitted
      /\ remaining \in [DarkOrders -> Nat] /\ \A o \in DarkOrders : remaining[o] <= Qty[o]
      /\ cycle \in [Cycles -> CycleRecord] /\ expiry \in [Expiries -> ExpiryRecord]
      /\ told \in [DarkOrders -> Nat] /\ handedBack \in [DarkOrders -> Nat]
  BY <1>1, TypeParts
<1>3. /\ expiry[e] = Idle /\ book # 0
      /\ pools' = [pools EXCEPT ![book] = stay]
      /\ IF Empty(out) THEN expiry' = expiry /\ (book' = 0 \/ book' = book)
         ELSE expiry' = [expiry EXCEPT ![e] = [pool |-> book, todo |-> swept]] /\ book' = book
      /\ UNCHANGED <<made, admitted, remaining, late, cycle, told, handedBack>>
  BY DEF ExpiryStart, DropIfEmpty
<1>4. book \in 1 .. made /\ Listed(pools[book])
  BY <1>1, <1>2, <1>3 DEF OnePlace
<1>5. /\ Listed(out) /\ Resting(out) = Standing(book) \cap late
      /\ Listed(stay) /\ Resting(stay) = Standing(book) \cap (DarkOrders \ late)
  BY <1>4, KeptAreListed DEF Standing
<1>6. /\ swept \in Seq(DarkOrders) /\ Distinct(swept) /\ Range(swept) = Standing(book) \cap late
      /\ ~Empty(out) => swept # <<>>
  BY <1>5, SweptListed
<1> HIDE DEF swept, out, stay
<1>7. /\ pools' \in Seq(PoolRecord) /\ Len(pools') = made /\ pools'[book] = stay
      /\ \A q \in 1 .. made \ {book} : pools'[q] = pools[q]
  BY <1>1, <1>3, <1>4, <1>5, PoolPut
<1>8. \A p \in 1 .. made : /\ Listed(pools'[p]) /\ Resting(pools'[p]) \subseteq Resting(pools[p])
                           /\ Standing(p)' \subseteq Standing(p)
                           /\ Standing(p)' \cap Range(swept) = {}
  <2> SUFFICES ASSUME NEW p \in 1 .. made
               PROVE  /\ Listed(pools'[p]) /\ Resting(pools'[p]) \subseteq Resting(pools[p])
                      /\ Standing(p)' \subseteq Standing(p)
                      /\ Standing(p)' \cap Range(swept) = {}
    OBVIOUS
  <2>1. CASE p = book
    BY <1>5, <1>6, <1>7, <2>1 DEF Standing
  <2>2. CASE p # book
    <3>1. Standing(p) \cap Standing(book) = {} /\ Listed(pools[p])
      BY <1>1, <1>4, <2>2 DEF OnePlace
    <3> QED  BY <1>6, <1>7, <2>2, <3>1 DEF Standing
  <2> QED  BY <2>1, <2>2
<1>9. \A o \in DarkOrders : ToReport(o)' = ToReport(o)
  BY <1>3, ToReportSame
<1>10. Unseen' /\ Accounts'
  BY <1>1, <1>3, <1>9 DEF Unseen, Accounts
<1>11. CASE Empty(out)
  <2>1. PoolTypeOK'
    <3>1. cycle' \in [Cycles -> CycleRecord'] /\ expiry' \in [Expiries -> ExpiryRecord']
      BY <1>2, <1>3, <1>11 DEF CycleRecord, ExpiryRecord
    <3>2. book' \in 0 .. made' /\ made' \in Nat
      BY <1>2, <1>3, <1>11
    <3> QED  BY <1>2, <1>3, <1>7, <3>1, <3>2, TypeNext
  <2>2. OnePlace'
    <3>1. \A f \in Expiries : /\ Distinct(expiry'[f].todo)
                              /\ Range(expiry'[f].todo) \subseteq Range(expiry[f].todo)
      BY <1>1, <1>3, <1>11 DEF OnePlace
    <3> QED  BY <1>1, <1>3, <1>8, <3>1, PlacesShrink
  <2>3. BackOnce'
    <3>1. \A f \in Expiries : Sweeping(f)' = Sweeping(f)
      BY <1>3, <1>11 DEF Sweeping
    <3> QED  BY <1>1, <1>3, <1>8, <3>1 DEF BackOnce
  <2>4. Suspended'
    BY <1>1, <1>3, <1>11 DEF Suspended
  <2> QED  BY <1>10, <2>1, <2>2, <2>3, <2>4 DEF PoolInv
<1>12. CASE ~Empty(out)
  <2>1. /\ [pool |-> book, todo |-> swept] \in ExpiryRecord
        /\ [pool |-> book, todo |-> swept].todo = swept
    BY <1>2, <1>6 DEF ExpiryRecord
  <2>2. /\ expiry' \in [Expiries -> ExpiryRecord]
        /\ expiry'[e].todo = swept /\ \A f \in Expiries \ {e} : expiry'[f] = expiry[f]
        /\ book' = book
    BY <1>2, <1>3, <1>12, <2>1
  <2>3. PoolTypeOK'
    <3>1. cycle' \in [Cycles -> CycleRecord'] /\ expiry' \in [Expiries -> ExpiryRecord']
      BY <1>2, <1>3, <2>2 DEF CycleRecord, ExpiryRecord
    <3>2. book' \in 0 .. made' /\ made' \in Nat
      BY <1>2, <1>3, <2>2
    <3> QED  BY <1>2, <1>3, <1>7, <3>1, <3>2, TypeNext
  <2>4. /\ Sweeping(e)' = Standing(book) \cap late
        /\ \A f \in Expiries \ {e} : Sweeping(f)' = Sweeping(f)
    BY <1>6, <2>2 DEF Sweeping
  <2>5. OnePlace'
    <3>1. \A p \in 1 .. made' : Listed(pools'[p]) /\ Standing(p)' \subseteq admitted'
      BY <1>1, <1>3, <1>8 DEF OnePlace
    <3>2. ASSUME NEW p \in 1 .. made', NEW q \in 1 .. made', p # q
          PROVE  Standing(p)' \cap Standing(q)' = {}
      BY <1>1, <1>3, <1>8, <3>2 DEF OnePlace
    <3>3. ASSUME NEW f \in Expiries
          PROVE  Distinct(expiry'[f].todo) /\ Sweeping(f)' \subseteq admitted'
      <4>1. CASE f = e
        BY <1>1, <1>3, <1>4, <1>6, <2>2, <2>4, <4>1 DEF OnePlace
      <4>2. CASE f # e
        BY <1>1, <1>3, <2>2, <2>4, <4>2 DEF OnePlace
      <4> QED  BY <4>1, <4>2
    <3>4. ASSUME NEW f \in Expiries, NEW p \in 1 .. made'
          PROVE  Sweeping(f)' \cap Standing(p)' = {}
      <4>1. CASE f = e
        BY <1>3, <1>6, <1>8, <2>4, <4>1
      <4>2. CASE f # e
        <5>1. Sweeping(f) \cap Standing(p) = {}
          BY <1>1, <1>3 DEF OnePlace
        <5> QED  BY <1>3, <1>8, <2>4, <4>2, <5>1
      <4> QED  BY <4>1, <4>2
    <3>5. ASSUME NEW f \in Expiries, NEW g \in Expiries, f # g
          PROVE  Sweeping(f)' \cap Sweeping(g)' = {}
      <4>1. Sweeping(f) \cap Sweeping(g) = {}
        BY <1>1, <3>5 DEF OnePlace
      <4>2. Sweeping(f) \cap Standing(book) = {} /\ Sweeping(g) \cap Standing(book) = {}
        BY <1>1, <1>4 DEF OnePlace
      <4>3. CASE f # e /\ g # e
        BY <2>4, <4>1, <4>3
      <4>4. CASE f = e
        BY <2>4, <3>5, <4>2, <4>4
      <4>5. CASE g = e
        BY <2>4, <3>5, <4>2, <4>5
      <4> QED  BY <4>3, <4>4, <4>5
    <3> QED  BY <3>1, <3>2, <3>3, <3>4, <3>5 DEF OnePlace
  <2>6. BackOnce'
    <3> SUFFICES ASSUME NEW o \in DarkOrders
                 PROVE  /\ handedBack'[o] <= remaining'[o]
                        /\ \A p \in 1 .. made' : o \in Standing(p)' => handedBack'[o] = 0
                        /\ \A f \in Expiries : o \in Sweeping(f)' => handedBack'[o] = 0
      BY DEF BackOnce
    <3>1. /\ handedBack[o] <= remaining[o]
          /\ \A p \in 1 .. made : o \in Standing(p) => handedBack[o] = 0
          /\ \A f \in Expiries : o \in Sweeping(f) => handedBack[o] = 0
      BY <1>1 DEF BackOnce
    <3>2. \A f \in Expiries : o \in Sweeping(f)' => o \in Sweeping(f) \/ o \in Standing(book)
      BY <2>4
    <3>3. \A p \in 1 .. made' : o \in Standing(p)' => o \in Standing(p)
      BY <1>3, <1>8
    <3> QED  BY <1>3, <1>4, <3>1, <3>2, <3>3
  <2>7. Suspended'
    BY <1>1, <1>3, <1>6, <1>12, <2>2 DEF Suspended
  <2> QED  BY <1>10, <2>3, <2>5, <2>6, <2>7 DEF PoolInv
<1> QED  BY <1>11, <1>12

LEMMA ExpiryHandOnKeeps ==
  ASSUME PoolInv, NEW e \in Expiries, ExpiryHandOn(e)
  PROVE  PoolInv'
<1> DEFINE o == Head(expiry[e].todo)
           rest == Tail(expiry[e].todo)
<1>1. /\ PoolTypeOK /\ OnePlace /\ BackOnce /\ Unseen /\ Accounts /\ Suspended
  BY DEF PoolInv
<1>2. /\ made \in Nat /\ book \in 0 .. made /\ pools \in Seq(PoolRecord) /\ Len(pools) = made
      /\ admitted \subseteq DarkOrders /\ late \subseteq admitted
      /\ remaining \in [DarkOrders -> Nat] /\ \A p \in DarkOrders : remaining[p] <= Qty[p]
      /\ cycle \in [Cycles -> CycleRecord] /\ expiry \in [Expiries -> ExpiryRecord]
      /\ told \in [DarkOrders -> Nat] /\ handedBack \in [DarkOrders -> Nat]
  BY <1>1, TypeParts
<1>3. /\ expiry[e] # Idle
      /\ UNCHANGED <<made, pools, admitted, remaining, late, cycle, told>>
      /\ handedBack' = [handedBack EXCEPT ![o] = @ + remaining[o]] \/ handedBack' = handedBack
      /\ IF rest # <<>> THEN expiry' = [expiry EXCEPT ![e].todo = rest] /\ book' = book
         ELSE expiry' = [expiry EXCEPT ![e] = Idle] /\ (book' = 0 \/ book' = book)
  BY DEF ExpiryHandOn, DropIfEmpty
<1>4. /\ expiry[e] \in ExpiryRecord /\ expiry[e].todo \in Seq(DarkOrders) /\ expiry[e].todo # <<>>
      /\ Distinct(expiry[e].todo)
  BY <1>1, <1>2, <1>3 DEF Suspended, ExpiryRecord, OnePlace
<1>5. /\ o \in DarkOrders /\ rest \in Seq(DarkOrders)
      /\ o \in Sweeping(e) /\ Range(rest) \subseteq Sweeping(e)
      /\ Distinct(rest) /\ o \notin Range(rest)
  BY <1>4, TailListed DEF Sweeping
<1> HIDE DEF o, rest
<1>6. /\ expiry' \in [Expiries -> ExpiryRecord'] /\ expiry'[e].todo = rest
      /\ \A f \in Expiries \ {e} : expiry'[f] = expiry[f]
      /\ rest = <<>> => expiry'[e] = Idle
  <2>1. ExpiryRecord' = ExpiryRecord
    BY <1>3 DEF ExpiryRecord
  <2>2. CASE rest # <<>>
    <3>1. /\ [expiry[e] EXCEPT !.todo = rest] \in ExpiryRecord
          /\ [expiry[e] EXCEPT !.todo = rest].todo = rest
      BY <1>4, <1>5 DEF ExpiryRecord
    <3>2. expiry' = [expiry EXCEPT ![e] = [expiry[e] EXCEPT !.todo = rest]]
      BY <1>3, <2>2
    <3> QED  BY <1>2, <2>1, <2>2, <3>1, <3>2
  <2>3. CASE rest = <<>>
    <3>1. expiry' = [expiry EXCEPT ![e] = Idle]
      BY <1>3, <2>3
    <3>2. Idle \in ExpiryRecord /\ Idle.todo = <<>>
      BY <1>2, IdleDoesNothing
    <3> QED  BY <1>2, <2>1, <2>3, <3>1, <3>2
  <2> QED  BY <2>2, <2>3
<1>7. handedBack[o] = 0
  BY <1>1, <1>5 DEF BackOnce
<1>8. /\ handedBack' \in [DarkOrders -> Nat]
      /\ handedBack'[o] <= remaining[o]
      /\ \A p \in DarkOrders \ {o} : handedBack'[p] = handedBack[p]
  <2>1. remaining[o] \in Nat /\ handedBack[o] \in Nat
    BY <1>2, <1>5
  <2>2. CASE handedBack' = handedBack
    BY <1>2, <1>7, <2>1, <2>2
  <2>3. CASE handedBack' = [handedBack EXCEPT ![o] = @ + remaining[o]]
    BY <1>2, <1>5, <1>7, <2>1, <2>3
  <2> QED  BY <1>3, <2>2, <2>3
<1>9. PoolTypeOK'
  <2>1. book' \in 0 .. made' /\ pools' \in Seq(PoolRecord) /\ Len(pools') = made' /\ made' \in Nat
    BY <1>2, <1>3
  <2>2. cycle' \in [Cycles -> CycleRecord']
    BY <1>2, <1>3 DEF CycleRecord
  <2> QED  BY <1>2, <1>3, <1>6, <1>8, <2>1, <2>2, TypeNext
<1>10. \A f \in Expiries : /\ Distinct(expiry'[f].todo)
                           /\ Range(expiry'[f].todo) \subseteq Range(expiry[f].todo)
                           /\ o \notin Sweeping(f)' /\ Sweeping(f)' \subseteq Sweeping(f)
  <2> SUFFICES ASSUME NEW f \in Expiries
               PROVE  /\ Distinct(expiry'[f].todo)
                      /\ Range(expiry'[f].todo) \subseteq Range(expiry[f].todo)
                      /\ o \notin Sweeping(f)' /\ Sweeping(f)' \subseteq Sweeping(f)
    OBVIOUS
  <2>1. CASE f = e
    BY <1>5, <1>6, <2>1 DEF Sweeping
  <2>2. CASE f # e
    <3>1. Sweeping(f) \cap Sweeping(e) = {} /\ Distinct(expiry[f].todo)
      BY <1>1, <2>2 DEF OnePlace
    <3> QED  BY <1>5, <1>6, <2>2, <3>1 DEF Sweeping
  <2> QED  BY <2>1, <2>2
<1>11. OnePlace'
  <2>1. \A p \in 1 .. made : Listed(pools'[p]) /\ Resting(pools'[p]) \subseteq Resting(pools[p])
    BY <1>1, <1>3 DEF OnePlace
  <2> QED  BY <1>1, <1>3, <1>10, <2>1, PlacesShrink
<1>12. \A p \in 1 .. made : Standing(p)' = Standing(p) /\ o \notin Standing(p)
  BY <1>1, <1>3, <1>5 DEF OnePlace, Standing
<1>13. BackOnce'
  <2> SUFFICES ASSUME NEW x \in DarkOrders
               PROVE  /\ handedBack'[x] <= remaining'[x]
                      /\ \A p \in 1 .. made' : x \in Standing(p)' => handedBack'[x] = 0
                      /\ \A f \in Expiries : x \in Sweeping(f)' => handedBack'[x] = 0
    BY DEF BackOnce
  <2>1. CASE x = o
    BY <1>3, <1>8, <1>10, <1>12, <2>1
  <2>2. CASE x # o
    BY <1>1, <1>3, <1>8, <1>10, <1>12, <2>2 DEF BackOnce
  <2> QED  BY <2>1, <2>2
<1>14. \A x \in DarkOrders : ToReport(x)' = ToReport(x)
  BY <1>3, ToReportSame
<1>15. Unseen' /\ Accounts'
  BY <1>1, <1>3, <1>14 DEF Unseen, Accounts
<1>16. Suspended'
  BY <1>1, <1>3, <1>6 DEF Suspended
<1> QED  BY <1>9, <1>11, <1>13, <1>15, <1>16 DEF PoolInv

LEMMA RestartKeeps ==
  ASSUME PoolInv, PoolRestart
  PROVE  PoolInv'
<1>1. /\ PoolTypeOK /\ OnePlace /\ BackOnce /\ Unseen /\ Accounts /\ Suspended
  BY DEF PoolInv
<1>2. /\ made \in Nat /\ pools \in Seq(PoolRecord) /\ Len(pools) = made /\ DOMAIN pools = 1 .. made
      /\ admitted \subseteq DarkOrders /\ late \subseteq admitted
      /\ remaining \in [DarkOrders -> Nat] /\ \A o \in DarkOrders : remaining[o] <= Qty[o]
      /\ cycle \in [Cycles -> CycleRecord]
      /\ told \in [DarkOrders -> Nat] /\ handedBack \in [DarkOrders -> Nat]
  BY <1>1, TypeParts
<1>3. /\ book' = 0 /\ pools' = [p \in 1 .. made |-> NoPool]
      /\ \A c \in Cycles : cycle'[c] = Idle
      /\ \A e \in Expiries : expiry'[e] = Idle
      /\ cycle' = [c \in Cycles |-> Idle] /\ expiry' = [e \in Expiries |-> Idle]
      /\ UNCHANGED <<made, admitted, remaining, late, told, handedBack>>
  BY <1>2 DEF PoolRestart
<1>4. Idle \in CycleRecord /\ Idle \in ExpiryRecord /\ Idle.todo = <<>>
      /\ Range(Idle.todo) = {} /\ Distinct(Idle.todo)
  BY <1>2, IdleDoesNothing
<1>5. Listed(NoPool) /\ Resting(NoPool) = {} /\ NoPool \in PoolRecord
  BY NoPoolListed, PoolIsTyped DEF Listed, PoolRecord
<1>6. pools' \in Seq(PoolRecord) /\ Len(pools') = made
  <2> HIDE DEF NoPool
  <2> QED  BY <1>2, <1>3, <1>5
<1>7. PoolTypeOK'
  <2>1. CycleRecord' = CycleRecord /\ ExpiryRecord' = ExpiryRecord
    BY <1>3 DEF CycleRecord, ExpiryRecord
  <2>2. cycle' \in [Cycles -> CycleRecord'] /\ expiry' \in [Expiries -> ExpiryRecord']
    BY <1>3, <1>4, <2>1
  <2>3. book' \in 0 .. made' /\ made' \in Nat
    BY <1>2, <1>3
  <2> QED  BY <1>2, <1>3, <1>6, <2>2, <2>3, TypeNext
<1>8. \A p \in 1 .. made : Listed(pools'[p]) /\ Resting(pools'[p]) = {} /\ Standing(p)' = {}
  BY <1>3, <1>5 DEF Standing
<1>9. \A e \in Expiries : Distinct(expiry'[e].todo) /\ Range(expiry'[e].todo) = {}
                          /\ Sweeping(e)' = {}
  BY <1>3, <1>4 DEF Sweeping
<1>10. OnePlace'
  BY <1>1, <1>3, <1>8, <1>9, PlacesShrink
<1>11. BackOnce'
  BY <1>1, <1>3, <1>8, <1>9 DEF BackOnce
<1>12. ASSUME NEW o \in DarkOrders PROVE ToReport(o)' = 0 /\ ToReport(o) \in Nat
  <2> DEFINE w == [c \in Cycles |-> Due(cycle'[c].todo, o)]
  <2>1. \A c \in Cycles : w[c] = 0
    BY <1>3, <1>4, DueEmpty
  <2>2. ToReport(o)' = SumFunctionOnSet(w, Cycles)
    BY DEF ToReport, Due
  <2> HIDE DEF w
  <2>3. SumFunctionOnSet(w, Cycles) = 0
    BY <2>1, CyclesAssumption, SumZero
  <2> QED  BY <1>1, <2>2, <2>3, ToReportNat
<1>13. Unseen'
  BY <1>1, <1>3, <1>12 DEF Unseen
<1>14. Accounts'
  <2> SUFFICES ASSUME NEW o \in DarkOrders PROVE told'[o] + ToReport(o)' + remaining'[o] <= Qty[o]
    BY DEF Accounts
  <2>1. /\ told[o] + ToReport(o) + remaining[o] <= Qty[o]
        /\ told[o] \in Nat /\ remaining[o] \in Nat /\ Qty[o] \in Nat
    BY <1>1, <1>2, DarkOrdersAssumption DEF Accounts
  <2> QED  BY <1>3, <1>12, <2>1
<1>15. Suspended'
  BY <1>3 DEF Suspended
<1> QED  BY <1>7, <1>10, <1>11, <1>13, <1>14, <1>15 DEF PoolInv

LEMMA PoolStutterKeeps ==
  ASSUME PoolInv, UNCHANGED poolVars
  PROVE  PoolInv'
<1>1. UNCHANGED <<book, made, pools, admitted, remaining, late, cycle, expiry, told, handedBack>>
  BY DEF poolVars
<1>2. PoolTypeOK'
  BY <1>1 DEF PoolInv, PoolTypeOK
<1>3. OnePlace' /\ BackOnce'
  BY <1>1 DEF PoolInv, OnePlace, BackOnce, Standing, Sweeping
<1>4. \A p \in DarkOrders : ToReport(p)' = ToReport(p)
  BY <1>1, ToReportSame
<1>5. Unseen' /\ Accounts' /\ Suspended'
  BY <1>1, <1>4 DEF PoolInv, Unseen, Accounts, Suspended
<1> QED  BY <1>2, <1>3, <1>5 DEF PoolInv

LEMMA PoolStep == PoolInv /\ [PoolNext]_poolVars => PoolInv'
<1> SUFFICES ASSUME PoolInv, [PoolNext]_poolVars PROVE PoolInv'
  OBVIOUS
<1>1. ASSUME NEW o \in DarkOrders, Admit(o) \/ Deadline(o) PROVE PoolInv'
  BY <1>1, AdmitKeeps, DeadlineKeeps
<1>2. ASSUME NEW c \in Cycles, MatchStart(c) \/ MatchReport(c) PROVE PoolInv'
  BY <1>2, MatchStartKeeps, MatchReportKeeps
<1>3. ASSUME NEW e \in Expiries, ExpiryStart(e) \/ ExpiryHandOn(e) PROVE PoolInv'
  BY <1>3, ExpiryStartKeeps, ExpiryHandOnKeeps
<1>4. CASE PoolRestart
  BY <1>4, RestartKeeps
<1>5. CASE UNCHANGED poolVars
  BY <1>5, PoolStutterKeeps
<1> QED  BY <1>1, <1>2, <1>3, <1>4, <1>5 DEF PoolNext

(* The inductive invariant, from admission to report, sweep and restart.   *)
THEOREM PoolInvariant == PoolSpec => []PoolInv
BY InitPool, PoolStep, PTL DEF PoolSpec

(* Every variable of the dark pool keeps its type; among them, matchSymbol *)
(* never takes more from an order than remained of it, and every report    *)
(* that a cycle has to send is of a positive quantity.                     *)
THEOREM PoolTypeCorrect == PoolSpec => []PoolTypeOK
<1>1. PoolInv => PoolTypeOK
  BY DEF PoolInv
<1> QED  BY <1>1, PoolInvariant, PTL

(* Whatever match cycles and sweeps overlap at their awaits, whichever     *)
(* sends fail and whenever the process restarts: what was reported of an   *)
(* order, is still to be reported and was handed back is never more than   *)
(* its quantity.                                                           *)
THEOREM QuantityIsConserved == PoolSpec => []QuantityConserved
<1>1. PoolInv => QuantityConserved
  <2> SUFFICES ASSUME PoolInv, NEW o \in DarkOrders
               PROVE  /\ told[o] + ToReport(o) + handedBack[o] <= Qty[o]
                      /\ told[o] + ToReport(o) <= Qty[o] - remaining[o]
    BY DEF QuantityConserved
  <2>1. /\ told[o] \in Nat /\ handedBack[o] \in Nat /\ remaining[o] \in Nat /\ Qty[o] \in Nat
        /\ ToReport(o) \in Nat
    BY TypeParts, ToReportNat, DarkOrdersAssumption DEF PoolInv
  <2>2. told[o] + ToReport(o) + remaining[o] <= Qty[o] /\ handedBack[o] <= remaining[o]
    BY DEF PoolInv, Accounts, BackOnce
  <2> QED  BY <2>1, <2>2
<1> QED  BY <1>1, PoolInvariant, PTL

-----------------------------------------------------------------------------
(* What matchSymbol does, said without its loop: the smaller of the two    *)
(* sides' tradable quantities crosses, and on each side it goes to the     *)
(* orders first admitted.                                                  *)
Tradable(o, mid) == IF CanTrade(o, mid) THEN remaining[o] ELSE 0

Ahead(queue, i, mid) ==
  SumFunctionOnSet([j \in DOMAIN queue |-> Tradable(queue[j], mid)], 1 .. i - 1)

FifoShare(queue, i, mid, total) ==
  LET left == total - Ahead(queue, i, mid)
  IN IF left <= 0 THEN 0 ELSE Lesser(Tradable(queue[i], mid), left)

CrossesFifo(pool, mid) ==
  LET crossing(queue) == Ahead(queue, Len(queue) + 1, mid)
      total == Lesser(crossing(pool.buys), crossing(pool.sells))
      left  == MatchSymbol(pool, mid).rem
      shared(queue) ==
        \A i \in DOMAIN queue :
          left[queue[i]] = remaining[queue[i]] - FifoShare(queue, i, mid, total)
  IN /\ shared(pool.buys) /\ shared(pool.sells)
     /\ \A o \in DarkOrders \ Resting(pool) : left[o] = remaining[o]

MatchingIsFifo == book # 0 => \A mid \in Mids : CrossesFifo(pools[book], mid)

(* The quantity that may trade ahead of a place in a queue.                *)
LEMMA AheadFacts ==
  ASSUME remaining \in [DarkOrders -> Nat], NEW q \in Seq(DarkOrders), NEW mid
  PROVE  /\ Len(q) \in Nat /\ \A i \in 1 .. Len(q) : q[i] \in DarkOrders
         /\ \A i \in 1 .. Len(q) : /\ Tradable(q[i], mid) \in Nat
                                   /\ remaining[q[i]] \in Nat
                                   /\ Tradable(q[i], mid) <= remaining[q[i]]
         /\ Ahead(q, 1, mid) = 0
         /\ \A i \in 1 .. Len(q) + 1 : Ahead(q, i, mid) \in Nat
         /\ \A i \in 1 .. Len(q) : Ahead(q, i + 1, mid) = Ahead(q, i, mid) + Tradable(q[i], mid)
         /\ \A i, j \in 1 .. Len(q) + 1 : i <= j => Ahead(q, i, mid) <= Ahead(q, j, mid)
<1> DEFINE w == [j \in DOMAIN q |-> Tradable(q[j], mid)]
<1>1. Len(q) \in Nat /\ DOMAIN q = 1 .. Len(q) /\ \A i \in 1 .. Len(q) : q[i] \in DarkOrders
  OBVIOUS
<1>2. \A i \in 1 .. Len(q) : /\ Tradable(q[i], mid) \in Nat /\ remaining[q[i]] \in Nat
                             /\ Tradable(q[i], mid) <= remaining[q[i]]
                             /\ w[i] = Tradable(q[i], mid)
  BY <1>1 DEF Tradable
<1>3. \A i : Ahead(q, i, mid) = SumFunctionOnSet(w, 1 .. i - 1)
  BY DEF Ahead
<1> HIDE DEF w
<1>4. Ahead(q, 1, mid) = 0
  <2>1. 1 .. 1 - 1 = {}
    OBVIOUS
  <2> QED  BY <1>3, <2>1, SumEmpty
<1>5. ASSUME NEW i \in 1 .. Len(q) + 1
      PROVE  /\ Ahead(q, i, mid) \in Nat
             /\ IsFiniteSet(1 .. i - 1) /\ \A k \in 1 .. i - 1 : w[k] \in Nat
  <2>1. /\ i - 1 \in Nat /\ i - 1 \in Int /\ 1 \in Int
        /\ \A k \in 1 .. i - 1 : k \in 1 .. Len(q)
    BY <1>1
  <2>2. IsFiniteSet(1 .. i - 1)
    BY <2>1, FS_Interval
  <2>3. \A k \in 1 .. i - 1 : w[k] \in Nat
    BY <1>2, <2>1
  <2>4. SumFunctionOnSet(w, 1 .. i - 1) \in Nat
    BY <2>2, <2>3, SumNat
  <2> QED  BY <1>3, <2>2, <2>3, <2>4
<1>6. ASSUME NEW i \in 1 .. Len(q)
      PROVE  Ahead(q, i + 1, mid) = Ahead(q, i, mid) + Tradable(q[i], mid)
  <2>1. PICK n \in Nat : n + 1 = i /\ i - 1 = n /\ (i + 1) - 1 = n + 1
    <3>1. i - 1 \in Nat /\ (i - 1) + 1 = i /\ (i + 1) - 1 = (i - 1) + 1
      BY <1>1
    <3> QED  BY <3>1
  <2>2. \A k \in 1 .. n + 1 : w[k] \in Int
    BY <1>1, <1>2, <2>1
  <2>3. /\ SumFunctionOnSet(w, 1 .. n + 1) = w[n + 1] + SumFunctionOnSet(w, 1 .. n)
        /\ SumFunctionOnSet(w, 1 .. n) \in Int
    BY <2>2, SumLast
  <2>4. w[n + 1] = Tradable(q[i], mid) /\ Tradable(q[i], mid) \in Nat
    BY <1>2, <2>1
  <2>5. /\ Ahead(q, i + 1, mid) = SumFunctionOnSet(w, 1 .. n + 1)
        /\ Ahead(q, i, mid) = SumFunctionOnSet(w, 1 .. n)
    BY <1>3, <2>1
  <2> QED  BY <2>3, <2>4, <2>5
<1>7. ASSUME NEW i \in 1 .. Len(q) + 1, NEW j \in 1 .. Len(q) + 1, i <= j
      PROVE  Ahead(q, i, mid) <= Ahead(q, j, mid)
  <2>1. 1 .. i - 1 \subseteq 1 .. j - 1
    BY <1>1, <1>7
  <2>2. SumFunctionOnSet(w, 1 .. i - 1) <= SumFunctionOnSet(w, 1 .. j - 1)
    BY <1>5, <2>1, SumSubset
  <2> QED  BY <1>3, <2>2
<1> QED  BY <1>1, <1>2, <1>4, <1>5, <1>6, <1>7

(* A queue of which the walk stands at place k when T have crossed: those  *)
(* before k gave all they could, those after it nothing.                   *)
Fits(q, mid, k, T, rem) ==
  /\ k \in 1 .. Len(q) + 1 /\ T \in Nat
  /\ Ahead(q, k, mid) <= T
  /\ k <= Len(q) => T <= Ahead(q, k + 1, mid)
  /\ k = Len(q) + 1 => T = Ahead(q, k, mid)
  /\ \A i \in 1 .. Len(q) :
       /\ i < k => rem[q[i]] = remaining[q[i]] - Tradable(q[i], mid)
       /\ i = k => rem[q[i]] = remaining[q[i]] - (T - Ahead(q, i, mid))
       /\ i > k => rem[q[i]] = remaining[q[i]]

LEMMA FitsAtStart ==
  ASSUME remaining \in [DarkOrders -> Nat], NEW q \in Seq(DarkOrders), NEW mid
  PROVE  Fits(q, mid, 1, 0, remaining)
<1>1. /\ Len(q) \in Nat /\ Ahead(q, 1, mid) = 0
      /\ \A i \in 1 .. Len(q) + 1 : Ahead(q, i, mid) \in Nat
      /\ \A i \in 1 .. Len(q) : remaining[q[i]] \in Nat
  BY AheadFacts
<1>2. 1 <= Len(q) => 0 <= Ahead(q, 1 + 1, mid)
  BY <1>1
<1>3. 1 = Len(q) + 1 => 0 = Ahead(q, 1, mid)
  BY <1>1
<1>4. ASSUME NEW i \in 1 .. Len(q)
      PROVE  /\ i < 1 => remaining[q[i]] = remaining[q[i]] - Tradable(q[i], mid)
             /\ i = 1 => remaining[q[i]] = remaining[q[i]] - (0 - Ahead(q, i, mid))
             /\ i > 1 => remaining[q[i]] = remaining[q[i]]
  BY <1>1
<1> QED  BY <1>1, <1>2, <1>3, <1>4 DEF Fits

(* What is left of the order the walk stands at.                           *)
LEMMA FitsHere ==
  ASSUME remaining \in [DarkOrders -> Nat], NEW q \in Seq(DarkOrders), NEW mid,
         NEW k, NEW T, NEW rem,
         Fits(q, mid, k, T, rem), k <= Len(q)
  PROVE  /\ k \in 1 .. Len(q) /\ q[k] \in DarkOrders
         /\ rem[q[k]] = remaining[q[k]] - (T - Ahead(q, k, mid)) /\ rem[q[k]] \in Nat
         /\ T \in Nat /\ Ahead(q, k, mid) \in Nat /\ remaining[q[k]] \in Nat
         /\ Ahead(q, k + 1, mid) = Ahead(q, k, mid) + Tradable(q[k], mid)
         /\ Ahead(q, k, mid) <= T /\ T <= Ahead(q, k + 1, mid)
<1>1. k \in 1 .. Len(q) /\ k \in 1 .. Len(q) + 1 /\ Len(q) \in Nat
  BY AheadFacts DEF Fits
<1>2. /\ rem[q[k]] = remaining[q[k]] - (T - Ahead(q, k, mid))
      /\ T \in Nat /\ Ahead(q, k, mid) <= T /\ T <= Ahead(q, k + 1, mid)
  BY <1>1 DEF Fits
<1>3. /\ Ahead(q, k, mid) \in Nat /\ remaining[q[k]] \in Nat /\ Tradable(q[k], mid) \in Nat
      /\ Tradable(q[k], mid) <= remaining[q[k]] /\ q[k] \in DarkOrders
      /\ Ahead(q, k + 1, mid) = Ahead(q, k, mid) + Tradable(q[k], mid)
  BY <1>1, AheadFacts
<1> QED  BY <1>1, <1>2, <1>3

(* The walk goes past an order when all that could cross of it has.        *)
LEMMA FitsNext ==
  ASSUME remaining \in [DarkOrders -> Nat], NEW q \in Seq(DarkOrders), NEW mid,
         NEW k, NEW T, NEW rem,
         Fits(q, mid, k, T, rem), k <= Len(q), T = Ahead(q, k + 1, mid)
  PROVE  Fits(q, mid, k + 1, T, rem)
<1>1. /\ k \in 1 .. Len(q) /\ T \in Nat /\ Ahead(q, k, mid) \in Nat
      /\ Ahead(q, k + 1, mid) = Ahead(q, k, mid) + Tradable(q[k], mid)
      /\ rem[q[k]] = remaining[q[k]] - (T - Ahead(q, k, mid))
  BY FitsHere
<1>2. /\ Len(q) \in Nat
      /\ \A i \in 1 .. Len(q) : /\ Tradable(q[i], mid) \in Nat /\ remaining[q[i]] \in Nat
      /\ \A i \in 1 .. Len(q) + 1 : Ahead(q, i, mid) \in Nat
      /\ \A i, j \in 1 .. Len(q) + 1 : i <= j => Ahead(q, i, mid) <= Ahead(q, j, mid)
  BY AheadFacts
<1>3. k + 1 \in 1 .. Len(q) + 1 /\ k \in Nat
  BY <1>1, <1>2
<1>4. k + 1 <= Len(q) => T <= Ahead(q, (k + 1) + 1, mid)
  <2>1. k + 1 <= Len(q) => (k + 1) + 1 \in 1 .. Len(q) + 1 /\ k + 1 <= (k + 1) + 1
    BY <1>2, <1>3
  <2> QED  BY <1>2, <1>3, <2>1
<1>5. ASSUME NEW i \in 1 .. Len(q)
      PROVE  /\ i < k + 1 => rem[q[i]] = remaining[q[i]] - Tradable(q[i], mid)
             /\ i = k + 1 => rem[q[i]] = remaining[q[i]] - (T - Ahead(q, i, mid))
             /\ i > k + 1 => rem[q[i]] = remaining[q[i]]
  <2>1. /\ i < k => rem[q[i]] = remaining[q[i]] - Tradable(q[i], mid)
        /\ i > k => rem[q[i]] = remaining[q[i]]
    BY DEF Fits
  <2>2. CASE i < k
    BY <1>3, <2>1, <2>2
  <2>3. CASE i = k
    <3>1. rem[q[k]] = remaining[q[k]] - Tradable(q[k], mid)
      BY <1>1, <1>2
    <3> QED  BY <1>3, <2>3, <3>1
  <2>4. CASE i = k + 1
    <3>1. i > k /\ T = Ahead(q, i, mid) /\ remaining[q[i]] \in Nat
      BY <1>2, <1>3, <2>4
    <3> QED  BY <1>1, <1>3, <2>1, <2>4, <3>1
  <2>5. CASE i > k + 1
    BY <1>3, <2>1, <2>5
  <2> QED  BY <1>3, <2>2, <2>3, <2>4, <2>5
<1> QED  BY <1>1, <1>3, <1>4, <1>5 DEF Fits

LEMMA FitsSkipped ==
  ASSUME remaining \in [DarkOrders -> Nat], NEW q \in Seq(DarkOrders), NEW mid,
         NEW k, NEW T, NEW rem,
         Fits(q, mid, k, T, rem), k <= Len(q), ~CanTrade(q[k], mid)
  PROVE  Fits(q, mid, k + 1, T, rem)
<1>1. T = Ahead(q, k + 1, mid)
  <2>1. Tradable(q[k], mid) = 0
    BY DEF Tradable
  <2> QED  BY <2>1, FitsHere
<1> QED  BY <1>1, FitsNext

LEMMA StillWithin ==
  ASSUME NEW T \in Nat, NEW before \in Nat, NEW open \in Nat, NEW qty \in Nat,
         before <= T, qty <= open - (T - before)
  PROVE  T + qty <= before + open /\ before <= T + qty /\ T + qty \in Nat
OBVIOUS

LEMMA FitsCrossed ==
  ASSUME remaining \in [DarkOrders -> Nat], NEW q \in Seq(DarkOrders), NEW mid,
         NEW k, NEW T, NEW rem,
         Fits(q, mid, k, T, rem), k <= Len(q), CanTrade(q[k], mid),
         NEW qty \in Nat, qty <= rem[q[k]], NEW new, new[q[k]] = rem[q[k]] - qty,
         \A i \in 1 .. Len(q) : i # k => new[q[i]] = rem[q[i]]
  PROVE  Fits(q, mid, Past(k, new[q[k]]), T + qty, new)
<1>1. /\ k \in 1 .. Len(q) /\ T \in Nat /\ Ahead(q, k, mid) \in Nat /\ rem[q[k]] \in Nat
      /\ remaining[q[k]] \in Nat
      /\ Ahead(q, k + 1, mid) = Ahead(q, k, mid) + remaining[q[k]]
      /\ rem[q[k]] = remaining[q[k]] - (T - Ahead(q, k, mid))
      /\ Ahead(q, k, mid) <= T
  BY FitsHere DEF Tradable
<1>2. Len(q) \in Nat /\ k \in Nat
  BY <1>1, AheadFacts
<1>3. T + qty <= Ahead(q, k + 1, mid) /\ Ahead(q, k, mid) <= T + qty /\ T + qty \in Nat
  <2>1. qty <= remaining[q[k]] - (T - Ahead(q, k, mid))
    BY <1>1, Zenon
  <2>2. /\ T + qty <= Ahead(q, k, mid) + remaining[q[k]] /\ Ahead(q, k, mid) <= T + qty
        /\ T + qty \in Nat
    BY <1>1, <2>1, StillWithin
  <2> QED  BY <1>1, <2>2
<1>4. Fits(q, mid, k, T + qty, new)
  <2>1. ASSUME NEW i \in 1 .. Len(q)
        PROVE  /\ i < k => new[q[i]] = remaining[q[i]] - Tradable(q[i], mid)
               /\ i = k => new[q[i]] = remaining[q[i]] - ((T + qty) - Ahead(q, i, mid))
               /\ i > k => new[q[i]] = remaining[q[i]]
    <3>1. /\ i < k => rem[q[i]] = remaining[q[i]] - Tradable(q[i], mid)
          /\ i > k => rem[q[i]] = remaining[q[i]]
      BY DEF Fits
    <3>2. CASE i = k
      <4>1. new[q[k]] = remaining[q[k]] - ((T + qty) - Ahead(q, k, mid))
        BY <1>1
      <4> QED  BY <1>2, <3>2, <4>1
    <3>3. CASE i # k
      BY <3>1, <3>3
    <3> QED  BY <3>2, <3>3
  <2>2. k # Len(q) + 1 /\ k \in 1 .. Len(q) + 1
    BY <1>1, <1>2
  <2> QED  BY <1>3, <2>1, <2>2 DEF Fits
<1>5. CASE new[q[k]] <= 0
  <2>0. qty = rem[q[k]]
    BY <1>1, <1>5
  <2>1. T + qty = Ahead(q, k + 1, mid)
    BY <1>1, <2>0
  <2>2. Past(k, new[q[k]]) = k + 1
    BY <1>5 DEF Past
  <2> QED  BY <1>4, <2>1, <2>2, FitsNext
<1>6. CASE ~(new[q[k]] <= 0)
  BY <1>4, <1>6 DEF Past
<1> QED  BY <1>5, <1>6

(* So the quantity that crossed went to the first of the queue.            *)
LEMMA FitsIsFifo ==
  ASSUME remaining \in [DarkOrders -> Nat], NEW q \in Seq(DarkOrders), NEW mid,
         NEW k, NEW T, NEW rem,
         Fits(q, mid, k, T, rem)
  PROVE  /\ T <= Ahead(q, Len(q) + 1, mid) /\ Ahead(q, Len(q) + 1, mid) \in Nat
         /\ k > Len(q) => T = Ahead(q, Len(q) + 1, mid)
         /\ \A i \in 1 .. Len(q) : rem[q[i]] = remaining[q[i]] - FifoShare(q, i, mid, T)
<1>1. /\ Len(q) \in Nat
      /\ \A i \in 1 .. Len(q) : /\ Tradable(q[i], mid) \in Nat /\ remaining[q[i]] \in Nat
      /\ \A i \in 1 .. Len(q) + 1 : Ahead(q, i, mid) \in Nat
      /\ \A i \in 1 .. Len(q) : Ahead(q, i + 1, mid) = Ahead(q, i, mid) + Tradable(q[i], mid)
      /\ \A i, j \in 1 .. Len(q) + 1 : i <= j => Ahead(q, i, mid) <= Ahead(q, j, mid)
  BY AheadFacts
<1>2. k \in 1 .. Len(q) + 1 /\ k \in Nat /\ T \in Nat /\ Len(q) + 1 \in 1 .. Len(q) + 1
  BY <1>1 DEF Fits
<1>3. T <= Ahead(q, Len(q) + 1, mid) /\ (k > Len(q) => T = Ahead(q, Len(q) + 1, mid))
  <2>1. CASE k = Len(q) + 1
    BY <1>1, <1>2, <2>1 DEF Fits
  <2>2. CASE k # Len(q) + 1
    <3>1. k <= Len(q) /\ k + 1 \in 1 .. Len(q) + 1 /\ ~(k > Len(q)) /\ k + 1 <= Len(q) + 1
      BY <1>1, <1>2, <2>2
    <3>2. T <= Ahead(q, k + 1, mid) /\ Ahead(q, k + 1, mid) <= Ahead(q, Len(q) + 1, mid)
      BY <1>1, <1>2, <3>1 DEF Fits
    <3>3. Ahead(q, k + 1, mid) \in Nat /\ Ahead(q, Len(q) + 1, mid) \in Nat
      BY <1>1, <1>2, <3>1
    <3> QED  BY <1>2, <3>1, <3>2, <3>3
  <2> QED  BY <2>1, <2>2
<1>4. ASSUME NEW i \in 1 .. Len(q)
      PROVE  rem[q[i]] = remaining[q[i]] - FifoShare(q, i, mid, T)
  <2>1. /\ i \in 1 .. Len(q) + 1 /\ i + 1 \in 1 .. Len(q) + 1 /\ i \in Nat
        /\ Tradable(q[i], mid) \in Nat /\ remaining[q[i]] \in Nat /\ Ahead(q, i, mid) \in Nat
        /\ Ahead(q, i + 1, mid) = Ahead(q, i, mid) + Tradable(q[i], mid)
    BY <1>1
  <2>2. CASE i < k
    <3>1. i + 1 <= k /\ Ahead(q, k, mid) <= T /\ Ahead(q, k, mid) \in Nat
      BY <1>1, <1>2, <2>1, <2>2 DEF Fits
    <3>2. Ahead(q, i + 1, mid) <= Ahead(q, k, mid)
      BY <1>1, <1>2, <2>1, <3>1
    <3>3. rem[q[i]] = remaining[q[i]] - Tradable(q[i], mid)
      BY <2>2 DEF Fits
    <3>4. FifoShare(q, i, mid, T) = Tradable(q[i], mid)
      BY <1>2, <2>1, <3>1, <3>2 DEF FifoShare, Lesser
    <3> QED  BY <3>3, <3>4
  <2>3. CASE i = k
    <3>1. /\ rem[q[i]] = remaining[q[i]] - (T - Ahead(q, i, mid))
          /\ Ahead(q, i, mid) <= T /\ T <= Ahead(q, i + 1, mid)
      BY <1>1, <2>1, <2>3 DEF Fits
    <3>0. PICK left : left = T - Ahead(q, i, mid)
      OBVIOUS
    <3>3. left \in Nat /\ left <= Tradable(q[i], mid)
      BY <1>2, <2>1, <3>0, <3>1
    <3>4. FifoShare(q, i, mid, T) = IF left <= 0 THEN 0 ELSE Lesser(Tradable(q[i], mid), left)
      BY <3>0 DEF FifoShare
    <3>2. FifoShare(q, i, mid, T) = T - Ahead(q, i, mid)
      BY <2>1, <3>0, <3>3, <3>4 DEF Lesser
    <3> QED  BY <3>1, <3>2
  <2>4. CASE i > k
    <3>1. k <= Len(q) /\ k + 1 \in 1 .. Len(q) + 1 /\ k + 1 <= i
      BY <1>1, <1>2, <2>1, <2>4
    <3>2. T <= Ahead(q, k + 1, mid) /\ rem[q[i]] = remaining[q[i]]
      BY <2>4, <3>1 DEF Fits
    <3>3. Ahead(q, k + 1, mid) <= Ahead(q, i, mid) /\ Ahead(q, k + 1, mid) \in Nat
      BY <1>1, <2>1, <3>1
    <3>4. FifoShare(q, i, mid, T) = 0
      BY <1>2, <2>1, <3>2, <3>3 DEF FifoShare
    <3> QED  BY <2>1, <3>2, <3>4
  <2> QED  BY <1>2, <2>1, <2>2, <2>3, <2>4
<1> QED  BY <1>1, <1>2, <1>3, <1>4


(* Both sides of the pool fit what has crossed.                            *)
Crossed(pool, mid, s) ==
  /\ s \in Walk
  /\ \E T \in Nat : Fits(pool.buys, mid, s.bi, T, s.rem) /\ Fits(pool.sells, mid, s.si, T, s.rem)

LEMMA FitsSame ==
  ASSUME NEW q, NEW mid, NEW k, NEW T, NEW rem, NEW new, Fits(q, mid, k, T, rem),
         \A i \in 1 .. Len(q) : new[q[i]] = rem[q[i]]
  PROVE  Fits(q, mid, k, T, new)
BY DEF Fits

LEMMA RoundCrosses ==
  ASSUME remaining \in [DarkOrders -> Nat], NEW pool, Listed(pool), NEW mid, NEW s,
         Crossed(pool, mid, s), ~WalkOver(pool, s)
  PROVE  Crossed(pool, mid, WalkOn(pool, mid, s))
<1>1. PICK t : t = WalkOn(pool, mid, s)
  OBVIOUS
<1>2. s \in Walk /\ pool \in Pool
  BY DEF Crossed, Listed
<1>3. PICK buy, sell, qty : Round(pool, mid, s, t, buy, sell, qty)
  BY <1>1, <1>2, WalkOnParts
<1>4. t \in Walk
  BY <1>1, <1>2, WalkGoesOn
<1>5. PICK T \in Nat : Fits(pool.buys, mid, s.bi, T, s.rem) /\ Fits(pool.sells, mid, s.si, T, s.rem)
  BY DEF Crossed
<1>6. /\ s.bi \in 1 .. Len(pool.buys) /\ s.si \in 1 .. Len(pool.sells)
      /\ buy = pool.buys[s.bi] /\ sell = pool.sells[s.si]
      /\ buy \in Buyers /\ sell \in Sellers
      /\ buy \in DarkOrders /\ sell \in DarkOrders /\ buy # sell
      /\ qty = Lesser(s.rem[buy], s.rem[sell])
  BY <1>3 DEF Round
<1>7. /\ pool.buys \in Seq(DarkOrders) /\ pool.sells \in Seq(DarkOrders)
      /\ pool.buys \in Seq(Buyers) /\ pool.sells \in Seq(Sellers)
  BY <1>2, PoolIsTyped
<1>8. s.bi <= Len(pool.buys) /\ s.si <= Len(pool.sells)
  BY <1>6, <1>7
<1>9. CASE ~CanTrade(buy, mid) /\ Skips(s, t, s.bi + 1, s.si)
  <2>1. Fits(pool.buys, mid, s.bi + 1, T, s.rem)
    BY <1>5, <1>6, <1>7, <1>8, <1>9, FitsSkipped
  <2>2. t.bi = s.bi + 1 /\ t.si = s.si /\ t.rem = s.rem
    BY <1>9 DEF Skips
  <2> QED  BY <1>1, <1>4, <1>5, <2>1, <2>2 DEF Crossed
<1>10. CASE ~CanTrade(sell, mid) /\ Skips(s, t, s.bi, s.si + 1)
  <2>1. Fits(pool.sells, mid, s.si + 1, T, s.rem)
    BY <1>5, <1>6, <1>7, <1>8, <1>10, FitsSkipped
  <2>2. t.bi = s.bi /\ t.si = s.si + 1 /\ t.rem = s.rem
    BY <1>10 DEF Skips
  <2> QED  BY <1>1, <1>4, <1>5, <2>1, <2>2 DEF Crossed
<1>11. CASE CanTrade(buy, mid) /\ CanTrade(sell, mid) /\ Crosses(s, t, buy, sell, qty)
  <2>1. s.rem[buy] \in Nat /\ s.rem[sell] \in Nat
    BY <1>5, <1>6, <1>7, <1>8, FitsHere
  <2>2. qty \in Nat /\ qty <= s.rem[buy] /\ qty <= s.rem[sell] /\ T + qty \in Nat
    <3>1. qty \in Nat /\ qty <= s.rem[buy] /\ qty <= s.rem[sell]
      BY <1>6, <2>1 DEF Lesser
    <3>2. T \in Nat
      BY <1>5
    <3> QED  BY <3>1, <3>2
  <2>3. /\ t.rem[buy] = s.rem[buy] - qty /\ t.rem[sell] = s.rem[sell] - qty
        /\ \A o \in DarkOrders \ {buy, sell} : t.rem[o] = s.rem[o]
        /\ t.bi = Past(s.bi, t.rem[buy]) /\ t.si = Past(s.si, t.rem[sell])
    BY <1>11 DEF Crosses
  <2>4. \A i \in 1 .. Len(pool.buys) : i # s.bi => t.rem[pool.buys[i]] = s.rem[pool.buys[i]]
    <3> SUFFICES ASSUME NEW i \in 1 .. Len(pool.buys), i # s.bi
                 PROVE  t.rem[pool.buys[i]] = s.rem[pool.buys[i]]
      OBVIOUS
    <3>1. pool.buys[i] \in Buyers /\ pool.buys[i] # buy
      BY <1>6, <1>7 DEF Listed, Distinct
    <3>2. pool.buys[i] \in DarkOrders /\ pool.buys[i] # sell
      BY <1>6, <3>1 DEF Buyers, Sellers
    <3> QED  BY <2>3, <3>1, <3>2
  <2>5. \A i \in 1 .. Len(pool.sells) : i # s.si => t.rem[pool.sells[i]] = s.rem[pool.sells[i]]
    <3> SUFFICES ASSUME NEW i \in 1 .. Len(pool.sells), i # s.si
                 PROVE  t.rem[pool.sells[i]] = s.rem[pool.sells[i]]
      OBVIOUS
    <3>1. pool.sells[i] \in Sellers /\ pool.sells[i] # sell
      BY <1>6, <1>7 DEF Listed, Distinct
    <3>2. pool.sells[i] \in DarkOrders /\ pool.sells[i] # buy
      BY <1>6, <3>1 DEF Buyers, Sellers
    <3> QED  BY <2>3, <3>1, <3>2
  <2>6. Fits(pool.buys, mid, t.bi, T + qty, t.rem)
    <3>0. /\ CanTrade(pool.buys[s.bi], mid) /\ qty <= s.rem[pool.buys[s.bi]]
          /\ t.rem[pool.buys[s.bi]] = s.rem[pool.buys[s.bi]] - qty
      BY <1>6, <1>11, <2>2, <2>3
    <3>1. Fits(pool.buys, mid, Past(s.bi, t.rem[pool.buys[s.bi]]), T + qty, t.rem)
      <4>1. Fits(pool.buys, mid, s.bi, T, s.rem) /\ pool.buys \in Seq(DarkOrders) /\ T \in Nat
            /\ s.bi <= Len(pool.buys)
        BY <1>5, <1>7, <1>8
      <4>2. qty \in Nat
        BY <2>2
      <4> QED  BY <2>4, <3>0, <4>1, <4>2, FitsCrossed
    <3> QED  BY <1>6, <2>3, <3>1
  <2>7. Fits(pool.sells, mid, t.si, T + qty, t.rem)
    <3>0. /\ CanTrade(pool.sells[s.si], mid) /\ qty <= s.rem[pool.sells[s.si]]
          /\ t.rem[pool.sells[s.si]] = s.rem[pool.sells[s.si]] - qty
      BY <1>6, <1>11, <2>2, <2>3
    <3>1. Fits(pool.sells, mid, Past(s.si, t.rem[pool.sells[s.si]]), T + qty, t.rem)
      <4>1. Fits(pool.sells, mid, s.si, T, s.rem) /\ pool.sells \in Seq(DarkOrders) /\ T \in Nat
            /\ s.si <= Len(pool.sells)
        BY <1>5, <1>7, <1>8
      <4>2. qty \in Nat
        BY <2>2
      <4> QED  BY <2>5, <3>0, <4>1, <4>2, FitsCrossed
    <3> QED  BY <1>6, <2>3, <3>1
  <2> QED  BY <1>1, <1>4, <2>2, <2>6, <2>7 DEF Crossed
<1> QED  BY <1>3, <1>9, <1>10, <1>11 DEF Round

LEMMA MatchIsFifo ==
  ASSUME remaining \in [DarkOrders -> Nat], NEW pool, Listed(pool), NEW mid
  PROVE  CrossesFifo(pool, mid)
<1> DEFINE J == {s \in Walk : Crossed(pool, mid, s)}
           left == MatchSymbol(pool, mid)
<1>1. pool \in Pool /\ pool.buys \in Seq(DarkOrders) /\ pool.sells \in Seq(DarkOrders)
  BY PoolIsTyped DEF Listed
<1>2. left \in J /\ WalkOver(pool, left)
  <2>1. \A s \in J : ~WalkOver(pool, s) => WalkOn(pool, mid, s) \in J
    BY <1>1, RoundCrosses, WalkGoesOn
  <2>2. WalkStart \in J
    BY <1>1, WalkStarts, FitsAtStart DEF Crossed
  <2>3. J \in SUBSET Walk
    OBVIOUS
  <2> HIDE DEF J
  <2>4. /\ Walker(pool, mid)[WalkStart] \in J
        /\ WalkOver(pool, Walker(pool, mid)[WalkStart])
    BY <1>1, <2>1, <2>2, <2>3, WalkKeeps
  <2> QED  BY <2>4, MatchIsWalker
<1>3. PICK s : s = left
  OBVIOUS
<1>4. s \in Walk /\ Crossed(pool, mid, s) /\ WalkOver(pool, s)
  BY <1>2, <1>3
<1>5. PICK T \in Nat : Fits(pool.buys, mid, s.bi, T, s.rem) /\ Fits(pool.sells, mid, s.si, T, s.rem)
  BY <1>4 DEF Crossed
<1> DEFINE a == Ahead(pool.buys, Len(pool.buys) + 1, mid)
           b == Ahead(pool.sells, Len(pool.sells) + 1, mid)
<1>6. /\ T <= a /\ a \in Nat /\ (s.bi > Len(pool.buys) => T = a)
      /\ \A i \in 1 .. Len(pool.buys) :
           s.rem[pool.buys[i]] = remaining[pool.buys[i]] - FifoShare(pool.buys, i, mid, T)
  BY <1>1, <1>5, FitsIsFifo
<1>7. /\ T <= b /\ b \in Nat /\ (s.si > Len(pool.sells) => T = b)
      /\ \A i \in 1 .. Len(pool.sells) :
           s.rem[pool.sells[i]] = remaining[pool.sells[i]] - FifoShare(pool.sells, i, mid, T)
  BY <1>1, <1>5, FitsIsFifo
<1>8. T = Lesser(a, b)
  <2> HIDE DEF a, b
  <2> QED  BY <1>4, <1>6, <1>7 DEF WalkOver, Lesser
<1>9. \A o \in DarkOrders \ Resting(pool) : s.rem[o] = remaining[o]
  BY <1>1, <1>3, MatchConserves DEF Conserves
<1>10. DOMAIN pool.buys = 1 .. Len(pool.buys) /\ DOMAIN pool.sells = 1 .. Len(pool.sells)
  BY <1>1
<1> HIDE DEF left
<1>11. /\ \A i \in DOMAIN pool.buys :
            s.rem[pool.buys[i]]
              = remaining[pool.buys[i]] - FifoShare(pool.buys, i, mid, Lesser(a, b))
       /\ \A i \in DOMAIN pool.sells :
            s.rem[pool.sells[i]]
              = remaining[pool.sells[i]] - FifoShare(pool.sells, i, mid, Lesser(a, b))
  BY <1>6, <1>7, <1>8, <1>10
<1> QED  BY <1>3, <1>9, <1>11 DEF CrossesFifo, left

(* matchSymbol, whatever came before it: the smaller of the two sides      *)
(* crosses, and on each side the first admitted get it.  This is what      *)
(* dark-pool-matching.ts:51 does, and not what dark-pool.mdx:20 says of    *)
(* it: there the fills are split "proportionally if quantities don't line  *)
(* up", and the last in a queue would get its share as the first does.     *)
THEOREM MatchesFifo == PoolSpec => []MatchingIsFifo
<1>1. PoolInv => MatchingIsFifo
  <2> SUFFICES ASSUME PoolInv, book # 0, NEW mid \in Mids PROVE CrossesFifo(pools[book], mid)
    BY DEF MatchingIsFifo
  <2>1. book \in 1 .. made /\ remaining \in [DarkOrders -> Nat]
    BY TypeParts DEF PoolInv
  <2>2. Listed(pools[book])
    BY <2>1 DEF PoolInv, OnePlace
  <2> QED  BY <2>1, <2>2, MatchIsFifo
<1> QED  BY <1>1, PoolInvariant, PTL

-----------------------------------------------------------------------------
(* How an order can be lost.                                                *)

LEMMA OwnPoolStays ==
  ASSUME NEW p, UNCHANGED pools, DropIfEmpty(p), Abandoned
  PROVE  p # book
<1>1. Resting(NoPool) = {}
  BY DEF Resting, NoPool, Range
<1>2. pools[book] # NoPool
  BY <1>1 DEF Abandoned
<1> QED  BY <1>2 DEF DropIfEmpty, Empty, Abandoned

(* A sweep takes its pool from the map only when neither a late order nor  *)
(* another was in it.                                                      *)
LEMMA SweepDropsEmpty ==
  ASSUME PoolInv, NEW e \in Expiries, ExpiryStart(e), Abandoned
  PROVE  FALSE
<1> DEFINE out  == Keep(pools[book], late)
           stay == Keep(pools[book], DarkOrders \ late)
<1>1. PoolTypeOK /\ OnePlace
  BY DEF PoolInv
<1>2. /\ book \in 1 .. made /\ admitted \subseteq DarkOrders
      /\ pools \in Seq(PoolRecord) /\ DOMAIN pools = 1 .. made
  BY <1>1, TypeParts DEF ExpiryStart
<1>3. Listed(pools[book]) /\ Standing(book) \subseteq DarkOrders
  BY <1>1, <1>2 DEF OnePlace
<1>4. /\ Resting(out) = Standing(book) \cap late
      /\ Resting(stay) = Standing(book) \cap (DarkOrders \ late)
  BY <1>3, KeptAreListed DEF Standing
<1>5. Empty(out) /\ pools' = [pools EXCEPT ![book] = stay] /\ DropIfEmpty(book)
  BY DEF ExpiryStart, Abandoned
<1>6. Empty(stay)
  <2>1. pools'[book] = stay
    BY <1>2, <1>5
  <2> QED  BY <1>5, <2>1 DEF DropIfEmpty, Abandoned
<1>7. Resting(NoPool) = {}
  BY DEF Resting, NoPool, Range
<1>8. Standing(book) \cap late = {} /\ Standing(book) \cap (DarkOrders \ late) = {}
  BY <1>4, <1>5, <1>6, <1>7 DEF Empty
<1> QED  BY <1>3, <1>8 DEF Abandoned, Standing

(* An order that rests in the pool the map holds is still found by the     *)
(* next cycle and sweep, unless the process dies or a cycle or sweep ends  *)
(* that took another pool before its sends: what the run darkpool_lost     *)
(* shows is the only way to lose one.                                      *)
THEOREM LostToStaleOnly == PoolSpec => LostToStale
<1>1. PoolInv /\ [PoolNext]_poolVars => [Abandoned => PoolRestart \/ HeldAnother]_poolVars
  <2> SUFFICES ASSUME PoolInv, PoolNext, Abandoned PROVE PoolRestart \/ HeldAnother
    BY DEF poolVars, Abandoned
  <2>1. ASSUME NEW o \in DarkOrders, Admit(o) \/ Deadline(o) PROVE FALSE
    BY <2>1 DEF Admit, Deadline, Abandoned
  <2>2. ASSUME NEW c \in Cycles, MatchStart(c) PROVE FALSE
    BY <2>2 DEF MatchStart, Abandoned
  <2>3. ASSUME NEW c \in Cycles, MatchReport(c) PROVE cycle[c].pool # book
    <3>1. UNCHANGED pools /\ DropIfEmpty(cycle[c].pool)
      BY <2>3 DEF MatchReport, Abandoned
    <3> QED  BY <3>1, OwnPoolStays
  <2>4. ASSUME NEW e \in Expiries, ExpiryHandOn(e) PROVE expiry[e].pool # book
    <3>1. UNCHANGED pools /\ DropIfEmpty(expiry[e].pool)
      BY <2>4 DEF ExpiryHandOn, Abandoned
    <3> QED  BY <3>1, OwnPoolStays
  <2> QED  BY <2>1, <2>2, <2>3, <2>4, SweepDropsEmpty DEF PoolNext, HeldAnother
<1> QED  BY <1>1, PoolInvariant, PTL DEF PoolSpec, LostToStale

-----------------------------------------------------------------------------
(* The OMS.                                                                *)

USE OrdersAssumption, MoneyAssumption

LEMMA InitType == Init => TypeOK
  BY DEF Init, TypeOK, NoCharge, NoEntry, Waits

-----------------------------------------------------------------------------
(* Each action preserves the types. *)

LEMMA ReserveType ==
  ASSUME TypeOK, NEW m \in Orders, NEW from \in Waits, NEW notional \in Nat,
         Reserve(m, from, notional)
  PROVE  TypeOK'
  <1>1. Owner[m] \in Users
    OBVIOUS
  <1>2. Used(Owner[m]) \in Nat
    BY <1>1 DEF TypeOK, Used
  <1>3. CASE Used(Owner[m]) + notional > limits[m]
    <2>1. /\ Ends(m, from, "refused")
          /\ UNCHANGED <<totals, charged, userLimit, limitsCache, today, activeOrders,
                         toCancel, cancelled>>
      BY <1>3 DEF Reserve
    <2> QED
      BY <2>1 DEF TypeOK, Ends, Moves, Waits
  <1>4. CASE ~(Used(Owner[m]) + notional > limits[m])
    <2>1. [day |-> today, total |-> Used(Owner[m]) + notional]
            \in [day : 0..LastDay, total : Nat]
      BY <1>2 DEF TypeOK
    <2>2. [day |-> today, notional |-> notional] \in [day : 0..LastDay, notional : Nat]
      BY DEF TypeOK
    <2>3. /\ totals' \in [Users -> [day : 0..LastDay, total : Nat]]
          /\ charged' \in [Orders -> [day : 0..LastDay, notional : Nat]]
      <3>1. Charge(m, notional)
        BY <1>4 DEF Reserve
      <3> QED
        BY <1>1, <2>1, <2>2, <3>1 DEF TypeOK, Charge
    <2>4. phase' \in [Orders -> Waits \cup {"new", "refused", "routed", "lost"}]
      BY <1>4 DEF TypeOK, Reserve, Moves, Waits
    <2> QED
      BY <1>4, <2>3, <2>4 DEF TypeOK, Reserve
  <1> QED
    BY <1>3, <1>4

LEMMA HandlerType ==
  ASSUME TypeOK, NEW m \in Orders,
         \/ Receive(m) \/ LimitsFetched(m) \/ RiskAllowed(m)
         \/ Priced(m) \/ LotSized(m) \/ Route(m) \/ Reject(m)
  PROVE  TypeOK'
  <1>1. CASE Receive(m)
    <2>1. CASE limitsCache[Owner[m]] = {}
      BY <1>1, <2>1 DEF TypeOK, Receive, Moves, Waits
    <2>2. CASE limitsCache[Owner[m]] # {}
      <3>1. PICK l \in limitsCache[Owner[m]] : limits' = [limits EXCEPT ![m] = l]
        BY <1>1, <2>2 DEF Receive
      <3>2. l \in Nat
        BY <3>1 DEF TypeOK
      <3> QED
        BY <1>1, <2>2, <3>1, <3>2 DEF TypeOK, Receive, Moves, Waits
    <2> QED
      BY <2>1, <2>2
  <1>2. CASE LimitsFetched(m)
    <2>1. Owner[m] \in Users /\ userLimit[Owner[m]] \in Nat
      BY DEF TypeOK
    <2> QED
      BY <1>2, <2>1 DEF TypeOK, LimitsFetched, Moves, Waits
  <1>3. CASE RiskAllowed(m)
    <2>1. CASE Reserve(m, "risk", Notional[m])
      BY <2>1, ReserveType DEF Waits
    <2>2. CASE Moves(m, "risk", "price") /\ UNCHANGED <<money, activeOrders, toCancel, cancelled>>
      BY <2>2 DEF TypeOK, Moves, Waits, money
    <2> QED
      BY <1>3, <2>1, <2>2 DEF RiskAllowed
  <1>4. CASE Priced(m)
    BY <1>4, ReserveType DEF Priced, Waits
  <1>5. CASE LotSized(m)
    BY <1>5 DEF TypeOK, LotSized, Moves, Waits, money
  <1>6. CASE Route(m)
    <2>1. CASE Ends(m, "routing", "routed")
      BY <1>6, <2>1 DEF TypeOK, Route, Ends, Moves, Waits
    <2>2. CASE Ends(m, "routing", "lost")
      BY <1>6, <2>2 DEF TypeOK, Route, Ends, Moves, Waits
    <2> QED
      BY <1>6, <2>1, <2>2 DEF Route
  <1>7. CASE Reject(m)
    BY <1>7 DEF TypeOK, Reject, Ends, Moves, Waits
  <1> QED
    BY <1>1, <1>2, <1>3, <1>4, <1>5, <1>6, <1>7

LEMMA CancelNextType ==
  ASSUME TypeOK, NEW k \in Kills, NEW todo \in SUBSET Orders,
         CancelNext(k, todo), UNCHANGED <<phase, money>>
  PROVE  TypeOK'
  BY DEF TypeOK, CancelNext, money

LEMMA StepType == TypeOK /\ [Next]_vars => TypeOK'
  <1> SUFFICES ASSUME TypeOK, [Next]_vars
               PROVE  TypeOK'
    OBVIOUS
  <1>1. ASSUME NEW m \in Orders,
               \/ Receive(m) \/ LimitsFetched(m) \/ RiskAllowed(m)
               \/ Priced(m) \/ LotSized(m) \/ Route(m) \/ Reject(m)
        PROVE  TypeOK'
    BY <1>1, HandlerType
  <1>2. ASSUME NEW k \in Kills, CancelSent(k)
        PROVE  TypeOK'
    <2>1. toCancel[k] \in SUBSET Orders
      BY DEF TypeOK
    <2> QED
      BY <1>2, <2>1, CancelNextType DEF CancelSent
  <1>3. ASSUME NEW k \in Kills, NEW c \in Commands, KillReceived(k, c)
        PROVE  TypeOK'
    <2>1. {m \in activeOrders : Selects(c, m)} \in SUBSET Orders
      BY DEF TypeOK
    <2> QED
      BY <1>3, <2>1, CancelNextType DEF KillReceived
  <1>4. ASSUME NEW u \in Users, CacheExpires(u)
        PROVE  TypeOK'
    BY <1>4 DEF TypeOK, CacheExpires
  <1>5. ASSUME NEW u \in Users, LimitEdited(u)
        PROVE  TypeOK'
    BY <1>5 DEF TypeOK, LimitEdited
  <1>6. CASE NewDay
    BY <1>6 DEF TypeOK, NewDay
  <1>7. CASE Restart
    <2>1. phase' \in [Orders -> Waits \cup {"new", "refused", "routed", "lost"}]
      BY <1>7 DEF TypeOK, Restart, Waits
    <2> QED
      BY <1>7, <2>1 DEF TypeOK, Restart, NoCharge, NoEntry
  <1>8. CASE UNCHANGED vars
    BY <1>8 DEF TypeOK, vars, money
  <1> QED
    BY <1>1, <1>2, <1>3, <1>4, <1>5, <1>6, <1>7, <1>8 DEF Next

(* Every variable of the OMS keeps its type, and the copies of the limits  *)
(* are values an admin gave that user.                                     *)
THEOREM OmsTypeCorrect == Spec => []TypeOK
  BY InitType, StepType, PTL DEF Spec

-----------------------------------------------------------------------------
(* An accepted order stays in the map until its cancel is sent.            *)

LEMMA InitKillable == Init => KillableUntilCancelled
  BY DEF Init, KillableUntilCancelled, Killable

(* A step that leaves the map, the cancels and the charges alone and       *)
(* accepts nothing makes no order killable.                                *)
LEMMA NothingAccepted ==
  ASSUME KillableUntilCancelled, UNCHANGED <<activeOrders, cancelled>>,
         Killable' \subseteq Killable
  PROVE  KillableUntilCancelled'
  BY DEF KillableUntilCancelled

(* An order is accepted in LotSized only.                                  *)
LEMMA NotAccepted ==
  ASSUME TypeOK, NEW m \in Orders, NEW from, NEW to, Moves(m, from, to),
         to \in {"routing", "routed", "lost"} => from = "routing" /\ UNCHANGED charged,
         \A n \in Orders \ {m} : charged'[n] = charged[n]
  PROVE  Killable' \subseteq Killable
  <1> SUFFICES ASSUME NEW n \in Killable'
               PROVE  n \in Killable
    OBVIOUS
  <1>1. n \in Orders
    BY DEF Killable
  <1>2. CASE n = m
    <2>1. phase'[m] = to
      BY DEF TypeOK, Moves
    <2>2. from = "routing" /\ UNCHANGED charged
      BY <1>2, <2>1 DEF Killable
    <2> QED
      BY <1>2, <2>2 DEF Killable, Moves
  <1>3. CASE n # m
    <2>1. phase'[n] = phase[n] /\ charged'[n] = charged[n]
      BY <1>1, <1>3 DEF TypeOK, Moves
    <2> QED
      BY <2>1 DEF Killable
  <1> QED
    BY <1>2, <1>3

LEMMA ReserveKillable ==
  ASSUME TypeOK, KillableUntilCancelled, NEW m \in Orders, NEW from, NEW notional,
         Reserve(m, from, notional)
  PROVE  KillableUntilCancelled'
  <1>1. \E to \in {"refused", "lot"} : Moves(m, from, to)
    BY DEF Reserve, Ends
  <1>2. \A n \in Orders \ {m} : charged'[n] = charged[n]
    BY DEF TypeOK, Reserve, Charge
  <1>3. Killable' \subseteq Killable
    BY <1>1, <1>2, NotAccepted
  <1> QED
    BY <1>3, NothingAccepted DEF Reserve

LEMMA HandlerKillable ==
  ASSUME TypeOK, KillableUntilCancelled, NEW m \in Orders,
         \/ Receive(m) \/ LimitsFetched(m) \/ RiskAllowed(m)
         \/ Priced(m) \/ LotSized(m) \/ Route(m) \/ Reject(m)
  PROVE  KillableUntilCancelled'
  <1>1. ASSUME NEW from, NEW to, Moves(m, from, to), UNCHANGED charged,
               to \in {"routing", "routed", "lost"} => from = "routing",
               UNCHANGED <<activeOrders, cancelled>>
        PROVE  KillableUntilCancelled'
    BY <1>1, NotAccepted, NothingAccepted
  <1>2. CASE Receive(m)
    BY <1>1, <1>2 DEF Receive
  <1>3. CASE LimitsFetched(m)
    BY <1>1, <1>3 DEF LimitsFetched
  <1>4. CASE RiskAllowed(m)
    BY <1>1, <1>4, ReserveKillable DEF RiskAllowed, money
  <1>5. CASE Priced(m)
    BY <1>5, ReserveKillable DEF Priced
  <1>6. CASE LotSized(m)
    <2>1. SUFFICES ASSUME NEW n \in Killable'
                   PROVE  n \in activeOrders' \cup cancelled'
      BY DEF KillableUntilCancelled
    <2>2. n \in Orders /\ ClientId[n] # NoId
      BY DEF Killable
    <2>3. CASE n = m
      BY <1>6, <2>2, <2>3 DEF LotSized
    <2>4. CASE n # m
      <3>1. phase'[n] = phase[n] /\ charged'[n] = charged[n]
        BY <1>6, <2>2, <2>4 DEF TypeOK, LotSized, Moves, money
      <3>2. n \in activeOrders \cup cancelled
        BY <3>1 DEF KillableUntilCancelled, Killable
      <3>3. ClientId[n] # ClientId[m]
        BY <2>4 DEF Killable
      <3> QED
        BY <1>6, <3>2, <3>3 DEF LotSized
    <2> QED
      BY <2>3, <2>4
  <1>7. CASE Route(m)
    BY <1>1, <1>7 DEF Route, Ends
  <1>8. CASE Reject(m)
    BY <1>1, <1>8 DEF Reject, Ends
  <1> QED
    BY <1>2, <1>3, <1>4, <1>5, <1>6, <1>7, <1>8

(* A kill deletes what the map has under a client id.  An order with a     *)
(* client id of its own leaves the map that way only when it is cancelled. *)
LEMMA CancelNextKillable ==
  ASSUME TypeOK, KillableUntilCancelled, NEW k \in Kills, NEW todo \in SUBSET Orders,
         CancelNext(k, todo), UNCHANGED <<phase, money>>
  PROVE  KillableUntilCancelled'
  <1>1. PICK m \in todo : /\ activeOrders' = {n \in activeOrders : ClientId[n] # ClientId[m]}
                          /\ cancelled' = cancelled \cup {m}
    BY DEF CancelNext
  <1>2. Killable' = Killable
    BY DEF Killable, money
  <1>3. ASSUME NEW n \in Killable
        PROVE  n \in activeOrders' \cup cancelled'
    <2>1. n = m \/ ClientId[n] # ClientId[m]
      BY DEF Killable
    <2> QED
      BY <1>1, <2>1 DEF KillableUntilCancelled
  <1> QED
    BY <1>2, <1>3 DEF KillableUntilCancelled

LEMMA StepKillable == TypeOK /\ KillableUntilCancelled /\ [Next]_vars => KillableUntilCancelled'
  <1> SUFFICES ASSUME TypeOK, KillableUntilCancelled, [Next]_vars
               PROVE  KillableUntilCancelled'
    OBVIOUS
  <1>1. ASSUME NEW m \in Orders,
               \/ Receive(m) \/ LimitsFetched(m) \/ RiskAllowed(m)
               \/ Priced(m) \/ LotSized(m) \/ Route(m) \/ Reject(m)
        PROVE  KillableUntilCancelled'
    BY <1>1, HandlerKillable
  <1>2. ASSUME NEW k \in Kills, CancelSent(k)
        PROVE  KillableUntilCancelled'
    <2>1. toCancel[k] \in SUBSET Orders
      BY DEF TypeOK
    <2> QED
      BY <1>2, <2>1, CancelNextKillable DEF CancelSent
  <1>3. ASSUME NEW k \in Kills, NEW c \in Commands, KillReceived(k, c)
        PROVE  KillableUntilCancelled'
    <2>1. {m \in activeOrders : Selects(c, m)} \in SUBSET Orders
      BY DEF TypeOK
    <2> QED
      BY <1>3, <2>1, CancelNextKillable DEF KillReceived
  <1>4. ASSUME UNCHANGED <<phase, charged, activeOrders, cancelled>>
        PROVE  KillableUntilCancelled'
    BY <1>4 DEF KillableUntilCancelled, Killable
  <1>5. ASSUME NEW u \in Users, CacheExpires(u) \/ LimitEdited(u)
        PROVE  KillableUntilCancelled'
    BY <1>4, <1>5 DEF CacheExpires, LimitEdited
  <1>6. CASE NewDay
    BY <1>4, <1>6 DEF NewDay
  <1>7. CASE Restart
    BY <1>7 DEF Restart, KillableUntilCancelled, Killable, NoCharge
  <1>8. CASE UNCHANGED vars
    BY <1>4, <1>8 DEF vars, money
  <1> QED
    BY <1>1, <1>2, <1>3, <1>5, <1>6, <1>7, <1>8 DEF Next

(* risk-controls.md:48: the kill switch can cancel every accepted order    *)
(* with a client id of its own, until it has.                              *)
THEOREM AcceptedOrdersKillable == Spec => []KillableUntilCancelled
  BY InitType, InitKillable, StepType, StepKillable, PTL DEF Spec

-----------------------------------------------------------------------------
(* Kills stay in scope.                                                    *)

InScope(m) == \E c \in Commands : Covers(c, m)

KillsIInv == /\ KillsStayInScope
             /\ \A k \in Kills : \A m \in toCancel[k] : InScope(m)

(* What a permitted command selects is in its issuer's scope.              *)
LEMMA SelectedInScope ==
  ASSUME NEW c \in Commands, NEW m \in Orders, Permitted(c), Selects(c, m)
  PROVE  InScope(m)
  BY DEF Permitted, Selects, Owned, Target, InScope, Covers

LEMMA CancelNextInScope ==
  ASSUME TypeOK, KillsIInv, NEW k \in Kills, NEW todo \in SUBSET Orders,
         \A m \in todo : InScope(m), CancelNext(k, todo)
  PROVE  KillsIInv'
  <1>1. PICK m \in todo : /\ toCancel' = [toCancel EXCEPT ![k] = todo \ {m}]
                          /\ cancelled' = cancelled \cup {m}
    BY DEF CancelNext
  <1>2. \A n \in cancelled' : InScope(n)
    BY <1>1 DEF KillsIInv, KillsStayInScope, InScope
  <1>3. \A j \in Kills : \A n \in toCancel'[j] : InScope(n)
    BY <1>1 DEF KillsIInv, TypeOK
  <1> QED
    BY <1>2, <1>3 DEF KillsIInv, KillsStayInScope, InScope

LEMMA StepInScope == TypeOK /\ KillsIInv /\ [Next]_vars => KillsIInv'
  <1> SUFFICES ASSUME TypeOK, KillsIInv, [Next]_vars
               PROVE  KillsIInv'
    OBVIOUS
  <1>1. ASSUME NEW k \in Kills, CancelSent(k)
        PROVE  KillsIInv'
    <2>1. toCancel[k] \in SUBSET Orders /\ \A m \in toCancel[k] : InScope(m)
      BY DEF TypeOK, KillsIInv
    <2> QED
      BY <1>1, <2>1, CancelNextInScope DEF CancelSent
  <1>2. ASSUME NEW k \in Kills, NEW c \in Commands, KillReceived(k, c)
        PROVE  KillsIInv'
    <2>1. /\ {m \in activeOrders : Selects(c, m)} \in SUBSET Orders
          /\ \A m \in {n \in activeOrders : Selects(c, n)} : InScope(m)
      BY <1>2, SelectedInScope DEF TypeOK, KillReceived
    <2> QED
      BY <1>2, <2>1, CancelNextInScope DEF KillReceived
  <1>3. ASSUME UNCHANGED <<toCancel, cancelled>>
        PROVE  KillsIInv'
    BY <1>3 DEF KillsIInv, KillsStayInScope, InScope
  <1>4. ASSUME NEW m \in Orders,
               \/ Receive(m) \/ LimitsFetched(m) \/ RiskAllowed(m)
               \/ Priced(m) \/ LotSized(m) \/ Route(m) \/ Reject(m)
        PROVE  KillsIInv'
    BY <1>3, <1>4 DEF Receive, LimitsFetched, RiskAllowed, Priced, Reserve, LotSized,
                      Route, Reject
  <1>5. ASSUME NEW u \in Users, CacheExpires(u) \/ LimitEdited(u)
        PROVE  KillsIInv'
    BY <1>3, <1>5 DEF CacheExpires, LimitEdited
  <1>6. CASE NewDay
    BY <1>3, <1>6 DEF NewDay
  <1>7. CASE Restart
    BY <1>7 DEF Restart, KillsIInv, KillsStayInScope
  <1>8. CASE UNCHANGED vars
    BY <1>3, <1>8 DEF vars
  <1> QED
    BY <1>1, <1>2, <1>4, <1>5, <1>6, <1>7, <1>8 DEF Next

(* risk-controls.md:44-45: no order is cancelled but by its own trader, or *)
(* by an admin whose command takes it in.                                  *)
THEOREM KillsScoped == Spec => []KillsStayInScope
  <1>1. Init => KillsIInv
    BY DEF Init, KillsIInv, KillsStayInScope
  <1> QED
    BY <1>1, InitType, StepType, StepInScope, PTL DEF Spec, KillsIInv

-----------------------------------------------------------------------------
(* A kill cancels accepted orders only.                                    *)

Accepted(m) == phase[m] \in {"routing", "routed", "lost"}

AcceptedOnly ==
  /\ \A m \in activeOrders : Accepted(m)
  /\ \A k \in Kills : \A m \in toCancel[k] : Accepted(m)

CancelsAccepted == \A m \in cancelled' \ cancelled : Accepted(m)

LEMMA CancelNextAccepted ==
  ASSUME TypeOK, AcceptedOnly, NEW k \in Kills, NEW todo \in SUBSET Orders,
         \A m \in todo : Accepted(m), CancelNext(k, todo), UNCHANGED phase
  PROVE  AcceptedOnly' /\ CancelsAccepted
  <1>1. PICK m \in todo :
          /\ toCancel' = [toCancel EXCEPT ![k] = todo \ {m}]
          /\ activeOrders' \subseteq activeOrders
          /\ cancelled' = cancelled \cup {m}
    BY DEF CancelNext
  <1>2. \A j \in Kills : toCancel'[j] \subseteq IF j = k THEN todo ELSE toCancel[j]
    BY <1>1 DEF TypeOK
  <1>3. \A n : Accepted(n)' = Accepted(n)
    BY DEF Accepted
  <1>4. AcceptedOnly'
    BY <1>1, <1>2, <1>3 DEF AcceptedOnly
  <1>5. CancelsAccepted
    BY <1>1 DEF CancelsAccepted
  <1> QED
    BY <1>4, <1>5

LEMMA HandlerAccepted ==
  ASSUME TypeOK, AcceptedOnly, NEW m \in Orders,
         \/ Receive(m) \/ LimitsFetched(m) \/ RiskAllowed(m)
         \/ Priced(m) \/ LotSized(m) \/ Route(m) \/ Reject(m)
  PROVE  AcceptedOnly' /\ CancelsAccepted
  <1>1. UNCHANGED <<toCancel, cancelled>>
    BY DEF Receive, LimitsFetched, RiskAllowed, Priced, Reserve, LotSized, Route, Reject
  <1>2. /\ \A n \in Orders \ {m} : phase'[n] = phase[n]
        /\ Accepted(m) => Accepted(m)'
    BY DEF TypeOK, Receive, LimitsFetched, RiskAllowed, Priced, Reserve, LotSized, Route,
           Reject, Ends, Moves, Accepted
  <1>3. \A n \in Orders : Accepted(n) => Accepted(n)'
    BY <1>2 DEF Accepted
  <1>4. \/ activeOrders' \subseteq activeOrders
        \/ activeOrders' \subseteq activeOrders \cup {m} /\ Accepted(m)'
    <2>1. CASE LotSized(m)
      <3>1. activeOrders' \subseteq activeOrders \cup {m}
        BY <2>1 DEF LotSized
      <3>2. Accepted(m)'
        BY <2>1 DEF LotSized, Moves, TypeOK, Accepted
      <3> QED
        BY <3>1, <3>2
    <2>2. CASE ~LotSized(m)
      BY <2>2 DEF Receive, LimitsFetched, RiskAllowed, Priced, Reserve, Route, Reject
    <2> QED
      BY <2>1, <2>2
  <1>5. activeOrders \subseteq Orders /\ \A k \in Kills : toCancel[k] \subseteq Orders
    BY DEF TypeOK
  <1>6. AcceptedOnly'
    BY <1>1, <1>3, <1>4, <1>5 DEF AcceptedOnly
  <1> QED
    BY <1>1, <1>6 DEF CancelsAccepted

LEMMA StepAccepted ==
  TypeOK /\ AcceptedOnly /\ [Next]_vars => AcceptedOnly' /\ CancelsAccepted
  <1> SUFFICES ASSUME TypeOK, AcceptedOnly, [Next]_vars
               PROVE  AcceptedOnly' /\ CancelsAccepted
    OBVIOUS
  <1>1. ASSUME NEW k \in Kills, CancelSent(k)
        PROVE  AcceptedOnly' /\ CancelsAccepted
    <2>1. toCancel[k] \in SUBSET Orders /\ \A m \in toCancel[k] : Accepted(m)
      BY DEF TypeOK, AcceptedOnly
    <2> QED
      BY <1>1, <2>1, CancelNextAccepted DEF CancelSent
  <1>2. ASSUME NEW k \in Kills, NEW c \in Commands, KillReceived(k, c)
        PROVE  AcceptedOnly' /\ CancelsAccepted
    <2>1. /\ {m \in activeOrders : Selects(c, m)} \in SUBSET Orders
          /\ \A m \in {n \in activeOrders : Selects(c, n)} : Accepted(m)
      BY DEF TypeOK, AcceptedOnly
    <2> QED
      BY <1>2, <2>1, CancelNextAccepted DEF KillReceived
  <1>3. ASSUME UNCHANGED <<phase, activeOrders, toCancel, cancelled>>
        PROVE  AcceptedOnly' /\ CancelsAccepted
    BY <1>3 DEF AcceptedOnly, CancelsAccepted, Accepted
  <1>4. ASSUME NEW m \in Orders,
               \/ Receive(m) \/ LimitsFetched(m) \/ RiskAllowed(m)
               \/ Priced(m) \/ LotSized(m) \/ Route(m) \/ Reject(m)
        PROVE  AcceptedOnly' /\ CancelsAccepted
    BY <1>4, HandlerAccepted
  <1>5. ASSUME NEW u \in Users, CacheExpires(u) \/ LimitEdited(u)
        PROVE  AcceptedOnly' /\ CancelsAccepted
    BY <1>3, <1>5 DEF CacheExpires, LimitEdited
  <1>6. CASE NewDay
    BY <1>3, <1>6 DEF NewDay
  <1>7. CASE Restart
    BY <1>7 DEF Restart, AcceptedOnly, CancelsAccepted
  <1>8. CASE UNCHANGED vars
    BY <1>3, <1>8 DEF vars
  <1> QED
    BY <1>1, <1>2, <1>4, <1>5, <1>6, <1>7, <1>8 DEF Next

(* An orders.cancelled is sent only of an order that has passed every      *)
(* check of its admission, also when other orders took its client id, the  *)
(* kill was suspended or the process restarted in between.  While the      *)
(* process lives, what the run oms_kill shows can therefore happen in the  *)
(* one await of orders.submitted only, and no cancelled order is refused.  *)
THEOREM OnlyAcceptedCancelled == Spec => [][CancelsAccepted]_vars
  <1>1. Init => AcceptedOnly
    BY DEF Init, AcceptedOnly
  <1> QED
    BY <1>1, InitType, StepType, StepAccepted, PTL DEF Spec

-----------------------------------------------------------------------------
(* The orders charged to a user stay within the user's limits.             *)

(* A handler that is past getUserLimits holds a limit an admin gave.       *)
HeldLimits ==
  \A m \in Orders : phase[m] \in {"risk", "price"} => limits[m] \in Limits[Owner[m]]

ChargedOn(u, d) == {m \in Orders : Owner[m] = u /\ charged[m].day = d}
Notionals == [m \in Orders |-> charged[m].notional]

(* An order is charged once in the life of the process, and only finitely  *)
(* many are.                                                               *)
NotTwice ==
  /\ \A m \in Orders : phase[m] \in {"new", "limits", "risk", "price"} => charged[m].day = 0
  /\ \A u \in Users : \A d \in 1..LastDay : IsFiniteSet(ChargedOn(u, d))

(* The ledger has an entry of the last day the user was charged on.        *)
DaysKnown ==
  /\ \A u \in Users : totals[u].day <= today
  /\ \A m \in Orders : charged[m].day <= totals[Owner[m]].day

LedgerIInv == HeldLimits /\ NotTwice /\ DaysKnown /\ WithinDailyLimit

LEMMA ChargesAreSums ==
  \A u, d : /\ Charges(u, d) = SumFunctionOnSet(Notionals, ChargedOn(u, d))
            /\ Charges(u, d)' = SumFunctionOnSet(Notionals', ChargedOn(u, d)')
  BY DEF Charges, ChargedOn, Notionals

(* reserve adds to what was charged on this very day.                      *)
LEMMA UsedIsCharged ==
  ASSUME TypeOK, LedgerIInv, NEW u \in Users
  PROVE  Used(u) = Charges(u, today) /\ Used(u) \in Nat
  <1>1. Used(u) \in Nat /\ today \in 1..LastDay /\ totals[u].day \in Nat
    BY DEF TypeOK, Used
  <1>2. CASE totals[u].day = today
    BY <1>1, <1>2 DEF Used, LedgerIInv, WithinDailyLimit
  <1>3. CASE totals[u].day # today
    <2>0. totals[u].day <= today
      BY DEF LedgerIInv, DaysKnown
    <2>1. totals[u].day \in Nat /\ today \in Nat /\ totals[u].day < today
      <3>1. PICK day \in Nat : day = totals[u].day
        BY <1>1
      <3>2. today \in Nat
        BY <1>1
      <3>3. day <= today /\ day # today
        BY <1>3, <2>0, <3>1
      <3>4. day < today
        BY <3>2, <3>3
      <3> QED
        BY <3>1, <3>2, <3>4
    <2>2. ASSUME NEW m \in Orders, Owner[m] = u, charged[m].day = today
          PROVE  FALSE
      BY <1>1, <2>1, <2>2 DEF LedgerIInv, DaysKnown
    <2>3. ChargedOn(u, today) = {}
      BY <2>2 DEF ChargedOn
    <2> QED
      BY <1>1, <1>3, <2>3, ChargesAreSums, SumEmpty DEF Used
  <1> QED
    BY <1>2, <1>3

(* A handler that leaves the ledger alone.                                 *)
LEMMA LedgerUntouched ==
  ASSUME TypeOK, LedgerIInv, UNCHANGED <<charged, totals, today>>, HeldLimits',
         \A m \in Orders : phase'[m] \in {"new", "limits", "risk", "price"} =>
                             phase[m] \in {"new", "limits", "risk", "price"}
  PROVE  LedgerIInv'
  <1>1. \A u, d : Charges(u, d)' = Charges(u, d) /\ ChargedOn(u, d)' = ChargedOn(u, d)
    BY ChargesAreSums DEF ChargedOn, Notionals
  <1>2. WithinDailyLimit'
    BY <1>1 DEF LedgerIInv, WithinDailyLimit
  <1>3. NotTwice'
    BY <1>1 DEF LedgerIInv, NotTwice
  <1>4. DaysKnown'
    BY DEF LedgerIInv, DaysKnown
  <1> QED
    BY <1>2, <1>3, <1>4 DEF LedgerIInv

LEMMA ReserveWithinLimit ==
  ASSUME TypeOK, LedgerIInv, NEW m \in Orders,
         NEW from \in {"risk", "price"}, NEW notional \in Nat, Reserve(m, from, notional)
  PROVE  LedgerIInv'
  <1> DEFINE u == Owner[m]
  <1>1. phase[m] = from /\ limits[m] \in Limits[u] /\ u \in Users /\ limits[m] \in Nat
    BY DEF Reserve, Ends, Moves, HeldLimits, LedgerIInv, TypeOK
  <1>2. \A n \in Orders \ {m} : phase'[n] = phase[n] /\ limits'[n] = limits[n]
    BY DEF TypeOK, Reserve, Ends, Moves
  <1>3. phase'[m] \notin {"new", "limits", "risk", "price"}
    BY DEF TypeOK, Reserve, Ends, Moves
  <1>4. HeldLimits'
    BY <1>2, <1>3 DEF HeldLimits, LedgerIInv
  <1>5. CASE Used(u) + notional > limits[m]
    BY <1>2, <1>3, <1>4, <1>5, LedgerUntouched DEF Reserve
  <1>6. CASE ~(Used(u) + notional > limits[m])
    <2>0. PICK day \in 1..LastDay : day = today
      BY DEF TypeOK
    <2>1. Charge(m, notional) /\ today' = day /\ day \in Nat /\ day # 0
      BY <1>6, <2>0 DEF Reserve
    <2>2. /\ day \in 1..LastDay
          /\ \A v \in Users : totals[v].day \in Nat
          /\ \A n \in Orders : charged[n].day \in Nat /\ charged[n].notional \in Nat
      BY DEF TypeOK
    <2>3. /\ totals'[u] = [day |-> day, total |-> Used(u) + notional]
          /\ \A v \in Users \ {u} : totals'[v] = totals[v]
      BY <1>1, <2>0, <2>1 DEF TypeOK, Charge
    <2>4. /\ charged'[m] = [day |-> day, notional |-> notional]
          /\ \A n \in Orders \ {m} : charged'[n] = charged[n]
      BY <2>0, <2>1 DEF TypeOK, Charge
    <2>5. charged[m].day = 0
      BY <1>1 DEF LedgerIInv, NotTwice
    <2>6. Used(u) = Charges(u, day) /\ Used(u) \in Nat
      BY <1>1, <2>0, UsedIsCharged
    <2>7. /\ ChargedOn(u, day)' = ChargedOn(u, day) \cup {m}
          /\ m \notin ChargedOn(u, day)
      BY <2>1, <2>2, <2>4, <2>5 DEF ChargedOn
    <2>8. ASSUME NEW v \in Users, NEW d \in 1..LastDay, ~(v = u /\ d = day)
          PROVE  ChargedOn(v, d)' = ChargedOn(v, d) /\ m \notin ChargedOn(v, d)
      BY <2>1, <2>2, <2>4, <2>5, <2>8 DEF ChargedOn
    <2>9. IsFiniteSet(ChargedOn(u, day))
      BY <1>1, <2>2 DEF LedgerIInv, NotTwice
    <2>10. Charges(u, day)' = Charges(u, day) + notional
      <3>1. SumFunctionOnSet(Notionals', ChargedOn(u, day) \cup {m})
              = notional + SumFunctionOnSet(Notionals', ChargedOn(u, day))
        <4>1. \A n \in ChargedOn(u, day) \cup {m} : Notionals'[n] \in Int
          BY <2>2, <2>4 DEF ChargedOn, Notionals
        <4>2. Notionals'[m] = notional
          BY <2>4 DEF Notionals
        <4> QED
          BY <2>7, <2>9, <4>1, <4>2, SumAdd
      <3>2. SumFunctionOnSet(Notionals', ChargedOn(u, day))
              = SumFunctionOnSet(Notionals, ChargedOn(u, day))
        <4>1. \A n \in ChargedOn(u, day) : Notionals'[n] = Notionals[n]
          BY <2>4, <2>7 DEF ChargedOn, Notionals
        <4> QED
          BY <4>1, SumSame
      <3>3. Charges(u, day)' = SumFunctionOnSet(Notionals', ChargedOn(u, day) \cup {m})
        BY <2>7, ChargesAreSums
      <3> QED
        BY <2>6, <3>1, <3>2, <3>3, ChargesAreSums
    <2>11. ASSUME NEW v \in Users, NEW d \in 1..LastDay, ~(v = u /\ d = day)
           PROVE  Charges(v, d)' = Charges(v, d)
      <3>1. \A n \in ChargedOn(v, d) : Notionals'[n] = Notionals[n]
        BY <2>4, <2>8, <2>11 DEF ChargedOn, Notionals
      <3> QED
        BY <2>8, <2>11, <3>1, SumSame, ChargesAreSums
    <2>12. Used(u) + notional <= limits[m]
      BY <1>1, <1>6, <2>6
    <2>13. WithinDailyLimit'
      <3>1. ASSUME NEW v \in Users, NEW d \in 1..LastDay
            PROVE  \E l \in Limits[v] : Charges(v, d)' <= l
        BY <1>1, <2>6, <2>10, <2>11, <2>12 DEF LedgerIInv, WithinDailyLimit
      <3>2. ASSUME NEW v \in Users, totals'[v].day # 0
            PROVE  (totals[v].total = Charges(v, totals[v].day))'
        <4>1. PICK e : e = totals'[v].day
          OBVIOUS
        <4>2. totals'[v].total = Charges(v, e)'
          <5>1. CASE v = u
            BY <2>3, <2>6, <2>10, <4>1, <5>1
          <5>2. CASE v # u
            <6>1. totals'[v] = totals[v] /\ e \in 1..LastDay
              BY <2>3, <3>2, <4>1, <5>2 DEF TypeOK
            <6>2. Charges(v, e)' = Charges(v, e)
              BY <2>11, <5>2, <6>1
            <6>3. totals[v].total = Charges(v, e)
              BY <3>2, <4>1, <6>1 DEF LedgerIInv, WithinDailyLimit
            <6> QED
              BY <6>1, <6>2, <6>3
          <5> QED
            BY <5>1, <5>2
        <4> QED
          BY <4>1, <4>2
      <3> QED
        BY <3>1, <3>2 DEF WithinDailyLimit
    <2>14. NotTwice'
      <3>1. IsFiniteSet(ChargedOn(u, day)')
        BY <2>7, <2>9, FS_AddElement
      <3>2. \A v \in Users : \A d \in 1..LastDay : IsFiniteSet(ChargedOn(v, d)')
        BY <2>8, <3>1 DEF LedgerIInv, NotTwice
      <3> QED
        BY <1>2, <1>3, <2>4, <3>2 DEF LedgerIInv, NotTwice
    <2>15. DaysKnown'
      <3>1. \A v \in Users : totals'[v].day <= day
        BY <2>0, <2>1, <2>3 DEF LedgerIInv, DaysKnown
      <3>2. ASSUME NEW n \in Orders PROVE charged'[n].day <= totals'[Owner[n]].day
        <4>1. Owner[n] \in Users /\ charged[n].day \in Nat /\ totals[Owner[n]].day \in Nat
          BY <2>2
        <4>2. charged[n].day <= totals[Owner[n]].day /\ totals[Owner[n]].day <= day
          BY <2>0, <4>1 DEF LedgerIInv, DaysKnown
        <4>3. charged'[n].day = day \/ charged'[n].day = charged[n].day
          BY <2>4
        <4> QED
          BY <1>1, <2>1, <2>3, <2>4, <4>1, <4>2, <4>3
      <3> QED
        BY <2>0, <2>1, <3>1, <3>2 DEF DaysKnown
    <2> QED
      BY <1>4, <2>13, <2>14, <2>15 DEF LedgerIInv
  <1> QED
    BY <1>5, <1>6

LEMMA HandlerWithinLimit ==
  ASSUME TypeOK, LedgerIInv, NEW m \in Orders,
         \/ Receive(m) \/ LimitsFetched(m) \/ RiskAllowed(m)
         \/ Priced(m) \/ LotSized(m) \/ Route(m) \/ Reject(m)
  PROVE  LedgerIInv'
  <1>1. ASSUME NEW from, NEW to, Moves(m, from, to), UNCHANGED <<charged, totals, today>>,
               to \in {"new", "limits", "risk", "price"}
                 => from \in {"new", "limits", "risk", "price"},
               \A n \in Orders \ {m} : limits'[n] = limits[n],
               to \in {"risk", "price"} => limits'[m] \in Limits[Owner[m]]
        PROVE  LedgerIInv'
    <2>1. /\ phase'[m] = to
          /\ \A n \in Orders \ {m} : phase'[n] = phase[n]
      BY <1>1 DEF TypeOK, Moves
    <2>2. HeldLimits'
      BY <1>1, <2>1 DEF LedgerIInv, HeldLimits
    <2>3. phase[m] = from
      BY <1>1 DEF Moves
    <2> QED
      BY <1>1, <2>1, <2>2, <2>3, LedgerUntouched
  <1>2. CASE Receive(m)
    <2>1. CASE limitsCache[Owner[m]] = {}
      BY <1>1, <1>2, <2>1 DEF Receive
    <2>2. CASE limitsCache[Owner[m]] # {}
      <3>1. PICK l \in limitsCache[Owner[m]] : limits' = [limits EXCEPT ![m] = l]
        BY <1>2, <2>2 DEF Receive
      <3>2. limits'[m] \in Limits[Owner[m]] /\ \A n \in Orders \ {m} : limits'[n] = limits[n]
        BY <3>1 DEF TypeOK
      <3> QED
        BY <1>1, <1>2, <2>2, <3>2 DEF Receive
    <2> QED
      BY <2>1, <2>2
  <1>3. CASE LimitsFetched(m)
    <2>1. limits'[m] \in Limits[Owner[m]] /\ \A n \in Orders \ {m} : limits'[n] = limits[n]
      BY <1>3 DEF TypeOK, LimitsFetched
    <2> QED
      BY <1>1, <1>3, <2>1 DEF LimitsFetched
  <1>4. CASE RiskAllowed(m)
    <2>1. CASE Reserve(m, "risk", Notional[m])
      BY <2>1, ReserveWithinLimit
    <2>2. CASE Moves(m, "risk", "price") /\ UNCHANGED <<money, activeOrders, toCancel, cancelled>>
      <3>1. limits[m] \in Limits[Owner[m]]
        BY <2>2 DEF Moves, LedgerIInv, HeldLimits
      <3> QED
        BY <1>1, <2>2, <3>1 DEF money
    <2> QED
      BY <1>4, <2>1, <2>2 DEF RiskAllowed
  <1>5. CASE Priced(m)
    BY <1>5, ReserveWithinLimit DEF Priced
  <1>6. CASE LotSized(m)
    BY <1>1, <1>6 DEF LotSized, money
  <1>7. ASSUME NEW from, NEW how \in {"refused", "routed", "lost"}, Ends(m, from, how),
               UNCHANGED <<charged, totals, today>>
        PROVE  LedgerIInv'
    <2>1. \A n \in Orders \ {m} : limits'[n] = limits[n]
      BY <1>7 DEF TypeOK, Ends
    <2> QED
      BY <1>1, <1>7, <2>1 DEF Ends
  <1>8. CASE Route(m)
    BY <1>7, <1>8 DEF Route
  <1>9. CASE Reject(m)
    BY <1>7, <1>9 DEF Reject
  <1> QED
    BY <1>2, <1>3, <1>4, <1>5, <1>6, <1>8, <1>9

LEMMA StepWithinLimit ==
  TypeOK /\ LedgerIInv /\ [Next]_vars => LedgerIInv'
  <1> SUFFICES ASSUME TypeOK, LedgerIInv, [Next]_vars
               PROVE  LedgerIInv'
    OBVIOUS
  <1>1. ASSUME NEW m \in Orders,
               \/ Receive(m) \/ LimitsFetched(m) \/ RiskAllowed(m)
               \/ Priced(m) \/ LotSized(m) \/ Route(m) \/ Reject(m)
        PROVE  LedgerIInv'
    BY <1>1, HandlerWithinLimit
  <1>2. ASSUME UNCHANGED <<phase, limits, charged, totals, today>>
        PROVE  LedgerIInv'
    <2>1. HeldLimits'
      BY <1>2 DEF LedgerIInv, HeldLimits
    <2> QED
      BY <1>2, <2>1, LedgerUntouched
  <1>3. ASSUME NEW k \in Kills, NEW c \in Commands, KillReceived(k, c)
        PROVE  LedgerIInv'
    BY <1>2, <1>3 DEF KillReceived, money
  <1>4. ASSUME NEW k \in Kills, CancelSent(k)
        PROVE  LedgerIInv'
    BY <1>2, <1>4 DEF CancelSent, money
  <1>5. ASSUME NEW u \in Users, CacheExpires(u) \/ LimitEdited(u)
        PROVE  LedgerIInv'
    BY <1>2, <1>5 DEF CacheExpires, LimitEdited
  <1>6. CASE NewDay
    <2>1. \A u, d : Charges(u, d)' = Charges(u, d) /\ ChargedOn(u, d)' = ChargedOn(u, d)
      BY <1>6, ChargesAreSums DEF NewDay, ChargedOn, Notionals
    <2>2. WithinDailyLimit'
      BY <1>6, <2>1 DEF NewDay, LedgerIInv, WithinDailyLimit
    <2>3. NotTwice'
      BY <1>6, <2>1 DEF NewDay, LedgerIInv, NotTwice
    <2>4. DaysKnown'
      <3>1. today \in Nat /\ \A u \in Users : totals[u].day \in Nat
        BY DEF TypeOK
      <3> QED
        BY <1>6, <3>1 DEF NewDay, LedgerIInv, DaysKnown
    <2>5. HeldLimits'
      BY <1>6 DEF NewDay, LedgerIInv, HeldLimits
    <2> QED
      BY <2>2, <2>3, <2>4, <2>5 DEF LedgerIInv
  <1>7. CASE Restart
    <2>1. \A m \in Orders : phase'[m] \notin {"risk", "price"}
      BY <1>7 DEF Restart, TypeOK, Waits
    <2>2. \A m \in Orders : charged'[m].day = 0
      BY <1>7 DEF Restart, NoCharge
    <2>3. \A u \in Users : totals'[u].day = 0
      BY <1>7 DEF Restart, NoEntry
    <2>4. \A u \in Users : \A d \in 1..LastDay :
            ChargedOn(u, d)' = {} /\ \E l \in Limits[u] : Charges(u, d)' <= l
      <3> TAKE u \in Users
      <3> TAKE d \in 1..LastDay
      <3>1. ChargedOn(u, d)' = {}
        BY <2>2 DEF ChargedOn
      <3>2. Charges(u, d)' = 0
        BY <3>1, ChargesAreSums, SumEmpty
      <3>3. userLimit[u] \in Limits[u] /\ userLimit[u] \in Nat
        BY DEF TypeOK
      <3> QED
        BY <3>1, <3>2, <3>3
    <2>5. WithinDailyLimit'
      BY <2>3, <2>4 DEF WithinDailyLimit
    <2>6. NotTwice'
      BY <2>2, <2>4, FS_EmptySet DEF NotTwice
    <2>7. DaysKnown'
      <3>1. today' \in Nat
        BY <1>7 DEF Restart, TypeOK
      <3> QED
        BY <2>2, <2>3, <3>1 DEF DaysKnown
    <2> QED
      BY <2>1, <2>5, <2>6, <2>7 DEF LedgerIInv, HeldLimits
  <1>8. CASE UNCHANGED vars
    BY <1>2, <1>8 DEF vars, money
  <1> QED
    BY <1>1, <1>3, <1>4, <1>5, <1>6, <1>7, <1>8 DEF Next

LEMMA InitWithinLimit == Init => LedgerIInv
  <1> SUFFICES ASSUME Init PROVE LedgerIInv
    OBVIOUS
  <1>1. /\ \A m \in Orders : charged[m].day = 0 /\ phase[m] = "new"
        /\ \A u \in Users : totals[u].day = 0
        /\ today = 1
    BY DEF Init, NoCharge, NoEntry
  <1>2. ASSUME NEW u \in Users, NEW d \in 1..LastDay
        PROVE  ChargedOn(u, d) = {} /\ \E l \in Limits[u] : Charges(u, d) <= l
    <2>1. ChargedOn(u, d) = {}
      BY <1>1 DEF ChargedOn
    <2>2. Charges(u, d) = 0
      BY <2>1, ChargesAreSums, SumEmpty
    <2>3. userLimit[u] \in Limits[u] /\ userLimit[u] \in Nat
      BY InitType DEF TypeOK
    <2> QED
      BY <2>1, <2>2, <2>3
  <1>3. WithinDailyLimit
    BY <1>1, <1>2 DEF WithinDailyLimit
  <1>4. NotTwice
    BY <1>1, <1>2, FS_EmptySet DEF NotTwice
  <1> QED
    BY <1>1, <1>3, <1>4 DEF LedgerIInv, HeldLimits, DaysKnown

(* risk-architecture.md:22-29: the orders charged to a user on a day never *)
(* come to more than a limit the user was given, and the ledger is their   *)
(* sum, whatever handlers overlap and however stale their limits.          *)
THEOREM DailyLimitKept == Spec => []WithinDailyLimit
  BY InitWithinLimit, InitType, StepType, StepWithinLimit, PTL DEF Spec, LedgerIInv
=============================================================================
