---------------------------- MODULE SniperProofs -----------------------------
(***************************************************************************)
(* Theorems about the algorithms that keep their own books, for every set  *)
(* of orders, every quantity, and any number of ticks and sweeps suspended *)
(* at once.                                                                *)
(*                                                                         *)
(* Three arguments meet in the invariant.  No two messages that carry      *)
(* shares are the same (Messages), so the sums over what is under way      *)
(* change by what one of them carries.  What SNIPER reserves covers the    *)
(* shares under way and the reservations of the failed sends it has yet to *)
(* undo, but for the children it does not know the broker has (Covered),   *)
(* and what a round may still send fits, with what is under way or with    *)
(* what is reserved, in what remains of the order (Committed).  The others *)
(* send what the schedule has next (OnSchedule), or what remains           *)
(* (OneAtATime).                                                           *)
(***************************************************************************)
EXTENDS SniperExecution, Facts, SequenceTheorems

Carrying == {m \in sending \cup bus : m.topic \in {"orders.child", "orders.filled"}}
Children == {m \in sending : m.topic = "orders.child"}

(* The number of the last child of an order.                               *)
Counted(o) == IF o \in Orders THEN sliceCount[o] ELSE book[o].slices

Messages ==
  /\ IsFiniteSet(sending) /\ IsFiniteSet(bus)
  /\ \A m \in Carrying : /\ m.by \in Callbacks <=> m.order \in Orders
                         /\ m.slice <= Counted(m.order)
  /\ \A m, n \in Carrying : m.order = n.order /\ m.slice = n.slice => m = n
  /\ \A m \in sending : m.topic # "orders.filled" /\ (m \in Carrying => m \notin bus)
  /\ \A m, n \in sending : m.by = n.by => m = n

(* An entry of a Map is there once; nothing is known of an order before it *)
(* is routed.                                                              *)
Distinct(s) == \A i, j \in DOMAIN s : s[i] = s[j] => i = j

NothingOf(o) == executed[o] = 0 /\ UnderWay(o) = {}

Routing ==
  /\ Distinct(activeOrders) /\ Working \subseteq routed
  /\ \A o \in Orders \ routed :
       /\ totalRemaining[o] = 0 /\ inFlightQty[o] = 0 /\ filledQty[o] = 0
       /\ NothingOf(o)
       /\ \A h \in Callbacks : loop[h].order # o

(* An invocation has a view of every order it may still come to.           *)
Holds(run) ==
  /\ run \in PacedRun
  /\ \A i \in DOMAIN run.todo : run.todo[i] \in DOMAIN run.view
  /\ run.next # "orders" => run.order \in DOMAIN run.view

PacedRouting ==
  /\ Distinct(queue)
  /\ \A o \in PacedOrders :
       book[o].expiresAt = 0 => /\ o \notin Queued
                                /\ book[o].remaining = 0 /\ book[o].filled = 0
                                /\ book[o].slices = 0
                                /\ NothingOf(o)
  /\ \A h \in PacedCallbacks : Holds(paceLoop[h])

(* The send an invocation awaits is of the order it is in a round of.      *)
Pending ==
  \A m \in Children : m.by \in Callbacks =>
    loop[m.by].order = m.order /\ loop[m.by].qty = m.qty /\ ~loop[m.by].failed

(* What is under way of an order, in numbers.                              *)
Way(o) == Quantity(UnderWay(o))

FailedRuns(o) == {h \in Callbacks : loop[h].order = o /\ loop[h].failed}
RunQty == [h \in Callbacks |-> loop[h].qty]

Covered ==
  \A o \in Orders :
    /\ IsFiniteSet(FailedRuns(o))
    /\ Way(o) + SumFunctionOnSet(RunQty, FailedRuns(o)) <= inFlightQty[o] + unbooked[o]

Alone ==
  \A o \in Orders \ overlapped : \A h, k \in Callbacks :
    loop[h].order = o /\ loop[k].order = o => h = k

(* The shares of an order that may be out at the same time.                *)
Most(o) == totalRemaining[o] + unbooked[o]

(* What a round will have taken from its available quantity when it goes   *)
(* on, and what it may still send on top of what is under way or reserved. *)
Spent(run) == run.dispatched + (IF run.failed THEN 0 ELSE run.qty)

Round(run, o) ==
  /\ run.dispatched + run.qty <= run.available
  /\ Way(o) + run.available <= Most(o) + Spent(run)
  /\ Held(run, o) + run.available <= Most(o) + Spent(run)

Within(o) ==
  /\ filledQty[o] + totalRemaining[o] = Qty[o]
  /\ inFlightQty[o] <= Most(o) /\ Way(o) <= Most(o)
  /\ \A h \in Callbacks : loop[h].order = o => Round(loop[h], o)

Committed == \A o \in Working \ overlapped : Within(o)

(* IS has sent no more than the slices it has counted.                     *)
Unsent(o, k) == SumFunctionOnSet([i \in 1 .. NumSlices |-> SliceShare(o, i)], k + 1 .. NumSlices)

SentBy(o, k) == IF k = 0 THEN 0 ELSE PacedQty[o] - Unsent(o, k)

OnSchedule ==
  strategy = "IS" =>
    \A o \in PacedOrders :
      /\ book[o].slices <= NumSlices
      /\ executed[o] + Awaited(o, "orders.child") <= SentBy(o, book[o].slices)

OneAtATime ==
  \A o \in PacedOrders \ unanswered :
    /\ \A m, n \in UnderWay(o) : m = n
    /\ executed[o] + Awaited(o, "orders.child") <= PacedQty[o]
    /\ o \in Queued => /\ book[o].filled + book[o].remaining = PacedQty[o]
                       /\ \A m \in UnderWay(o) : m.qty <= book[o].remaining

SniperBooks ==
  \A o \in Working : filledQty[o] + Awaited(o, "orders.filled") = executed[o]

PacedBooks ==
  \A o \in PacedOrders :
    o \in Queued => book[o].filled + Awaited(o, "orders.filled") = executed[o]

SharedTypes ==
  /\ clock \in 0 .. MaxClock
  /\ sending \subseteq Message
  /\ bus \subseteq Message
  /\ executed \in [AllOrders -> Nat]

SniperTypes ==
  /\ routed \subseteq Orders
  /\ activeOrders \in Seq(Orders)
  /\ totalRemaining \in [Orders -> Nat]
  /\ inFlightQty \in [Orders -> Nat]
  /\ filledQty \in [Orders -> Nat]
  /\ sliceCount \in [Orders -> Nat]
  /\ cooldownUntil \in [Orders -> Nat]
  /\ expiresAt \in [Orders -> Nat]
  /\ maxVenues \in [Orders -> 1..3]
  /\ loop \in [Callbacks -> SniperRun]
  /\ overlapped \subseteq Orders
  /\ unbooked \in [Orders -> Nat]

PacedBook == [remaining : Nat, filled : Nat, slices : Nat, lastSliceAt : Nat, expiresAt : Nat,
              paused : BOOLEAN, ticksSeen : 0 .. LongPeriod, cooldown : 0 .. CooldownTicks]

PacedTypes ==
  /\ strategy \in Strategies
  /\ queue \in Seq(PacedOrders)
  /\ book \in [PacedOrders -> PacedBook]
  /\ paceLoop \in [PacedCallbacks -> PacedRun]
  /\ unanswered \subseteq PacedOrders

SniperInv == SniperTypes /\ Routing /\ Pending /\ Covered /\ Alone /\ Committed /\ SniperBooks
PacedInv == PacedTypes /\ PacedRouting /\ OnSchedule /\ OneAtATime /\ PacedBooks
IInv == SharedTypes /\ Messages /\ SniperInv /\ PacedInv

-----------------------------------------------------------------------------
LEMMA TypesSplit == TypeOK <=> SharedTypes /\ SniperTypes /\ PacedTypes
BY DEF TypeOK, SharedTypes, SniperTypes, PacedTypes, PacedBook

LEMMA IInvFacts == IInv => TypeOK /\ Messages /\ SniperInv /\ PacedInv
BY TypesSplit DEF IInv, SniperInv, PacedInv

(* The quantities under way, as sums over Carrying.                        *)
Part(S, o, topic) == {m \in S : m.order = o /\ m.topic = topic}
Amount(S, o, topic) == Total(Part(S, o, topic))
ShareOf(m, o, topic) == IF m.order = o /\ m.topic = topic THEN m.qty ELSE 0

LEMMA QuantityIsTotal ==
  ASSUME NEW S
  PROVE  Quantity(S) = Total(S)
BY DEF Quantity, Total, MapThenSumSet, MapThenFoldSet, SumFunctionOnSet, FoldFunctionOnSet, QtyOf

LEMMA AwaitedIsAmount ==
  \A o : \A topic \in {"orders.child", "orders.filled"} :
    /\ Awaited(o, topic) = Amount(Carrying, o, topic)
    /\ Awaited(o, topic)' = Amount(Carrying', o, topic)
<1> TAKE o
<1> TAKE topic \in {"orders.child", "orders.filled"}
<1>1. Part(Carrying, o, topic) = {m \in UnderWay(o) : m.topic = topic}
  BY DEF Part, Carrying, UnderWay
<1>2. Part(Carrying', o, topic) = {m \in UnderWay(o)' : m.topic = topic}
  BY DEF Part, Carrying, UnderWay
<1> QED  BY <1>1, <1>2, QuantityIsTotal DEF Awaited, Amount

LEMMA AmountNat ==
  ASSUME NEW S, IsFiniteSet(S), \A m \in S : m.qty \in Nat, NEW o, NEW topic
  PROVE  Amount(S, o, topic) \in Nat
<1>1. Part(S, o, topic) \in SUBSET S
  BY DEF Part
<1> QED  BY <1>1, TotalNat, FS_Subset DEF Amount

LEMMA AmountAdd ==
  ASSUME NEW S, IsFiniteSet(S), \A m \in S : m.qty \in Nat, NEW o, NEW topic,
         NEW c, c \notin S, c.qty \in Nat
  PROVE  Amount(S \cup {c}, o, topic) = Amount(S, o, topic) + ShareOf(c, o, topic)
<1>0. /\ IsFiniteSet(Part(S, o, topic)) /\ c \notin Part(S, o, topic)
      /\ \A m \in Part(S, o, topic) : m.qty \in Nat
  <2>1. Part(S, o, topic) \in SUBSET S
    BY DEF Part
  <2> QED  BY <2>1, FS_Subset
<1>1. Total(Part(S, o, topic)) \in Nat
  BY <1>0, TotalNat
<1>2. CASE c.order = o /\ c.topic = topic
  <2>1. Part(S \cup {c}, o, topic) = Part(S, o, topic) \cup {c}
    BY <1>2 DEF Part
  <2>2. Total(Part(S, o, topic) \cup {c}) = c.qty + Total(Part(S, o, topic))
    BY <1>0, TotalAdd
  <2>3. /\ ShareOf(c, o, topic) = c.qty /\ Amount(S, o, topic) \in Nat
        /\ Amount(S \cup {c}, o, topic) = c.qty + Amount(S, o, topic)
    BY <1>1, <1>2, <2>1, <2>2 DEF Amount, ShareOf
  <2> HIDE DEF Amount, ShareOf
  <2> QED  BY <2>3
<1>3. CASE ~(c.order = o /\ c.topic = topic)
  <2>1. Part(S \cup {c}, o, topic) = Part(S, o, topic)
    BY <1>3 DEF Part
  <2> QED  BY <1>1, <1>3, <2>1 DEF Amount, ShareOf
<1> QED  BY <1>2, <1>3

LEMMA AmountRemove ==
  ASSUME NEW S, IsFiniteSet(S), \A m \in S : m.qty \in Nat, NEW o, NEW topic, NEW c \in S
  PROVE  Amount(S, o, topic) = Amount(S \ {c}, o, topic) + ShareOf(c, o, topic)
<1>1. IsFiniteSet(S \ {c}) /\ (S \ {c}) \cup {c} = S
  BY FS_RemoveElement
<1>2. Amount((S \ {c}) \cup {c}, o, topic) = Amount(S \ {c}, o, topic) + ShareOf(c, o, topic)
  BY <1>1, AmountAdd
<1> QED  BY <1>1, <1>2

(* All that is under way is on its way there or on its way back.           *)
LEMMA AmountSplit ==
  ASSUME NEW S, IsFiniteSet(S), NEW o,
         \A m \in S : m.qty \in Nat /\ m.topic \in {"orders.child", "orders.filled"}
  PROVE  Total({m \in S : m.order = o}) = Amount(S, o, "orders.child") + Amount(S, o, "orders.filled")
<1> DEFINE U == {m \in S : m.order = o}
           A == Part(S, o, "orders.child")
           F == Part(S, o, "orders.filled")
           w == [m \in U |-> m.qty]
<1>1. A \in SUBSET U /\ F \in SUBSET U /\ A \cup F = U /\ A \cap F = {} /\ U \in SUBSET S
  BY DEF Part
<1>2. Total(A) = SumFunctionOnSet(w, A) /\ Total(F) = SumFunctionOnSet(w, F)
      /\ Total(U) = SumFunctionOnSet(w, U)
  BY <1>1, TotalOver
<1>3. IsFiniteSet(A) /\ IsFiniteSet(F) /\ \A m \in A \cup F : w[m] \in Int
  <2>1. IsFiniteSet(U) /\ \A m \in U : w[m] \in Int
    BY <1>1, FS_Subset
  <2> QED  BY <1>1, <2>1, FS_Subset
<1> HIDE DEF U, A, F, w
<1>4. SumFunctionOnSet(w, A \cup F) = SumFunctionOnSet(w, A) + SumFunctionOnSet(w, F)
  BY <1>1, <1>3, SumUnion
<1> QED  BY <1>1, <1>2, <1>4 DEF Amount, U, A, F

LEMMA CarryingFacts ==
  /\ TypeOK /\ Messages =>
       /\ IsFiniteSet(Carrying)
       /\ \A m \in Carrying : m.qty \in Nat /\ m.topic \in {"orders.child", "orders.filled"}
  /\ TypeOK /\ Messages => \A o : IsFiniteSet(UnderWay(o))
  /\ sending' \subseteq Message /\ bus' \subseteq Message /\ Messages' =>
       /\ IsFiniteSet(Carrying')
       /\ \A m \in Carrying' : m.qty \in Nat /\ m.topic \in {"orders.child", "orders.filled"}
<1>1. ASSUME TypeOK, Messages
      PROVE  /\ IsFiniteSet(Carrying)
             /\ \A m \in Carrying : m.qty \in Nat /\ m.topic \in {"orders.child", "orders.filled"}
             /\ \A o : IsFiniteSet(UnderWay(o))
  <2>1. IsFiniteSet(sending \cup bus)
    BY <1>1, FS_Union DEF Messages
  <2>2. Carrying \in SUBSET (sending \cup bus) /\ \A o : UnderWay(o) \in SUBSET (sending \cup bus)
    BY DEF Carrying, UnderWay
  <2> QED  BY <1>1, <2>1, <2>2, FS_Subset DEF TypeOK, Message, Carrying
<1>2. ASSUME sending' \subseteq Message, bus' \subseteq Message, Messages'
      PROVE  /\ IsFiniteSet(Carrying')
             /\ \A m \in Carrying' : m.qty \in Nat /\ m.topic \in {"orders.child", "orders.filled"}
  <2>1. IsFiniteSet(sending' \cup bus')
    BY <1>2, FS_Union DEF Messages
  <2>2. Carrying' \in SUBSET (sending' \cup bus')
    BY DEF Carrying
  <2> QED  BY <1>2, <2>1, <2>2, FS_Subset DEF Message, Carrying
<1> QED  BY <1>1, <1>2

LEMMA WayIsAmounts ==
  ASSUME TypeOK, Messages
  PROVE  \A o : /\ Awaited(o, "orders.child") \in Nat /\ Awaited(o, "orders.filled") \in Nat
                /\ Way(o) = Awaited(o, "orders.child") + Awaited(o, "orders.filled")
<1> SUFFICES ASSUME NEW o
             PROVE  /\ Awaited(o, "orders.child") \in Nat /\ Awaited(o, "orders.filled") \in Nat
                    /\ Way(o) = Awaited(o, "orders.child") + Awaited(o, "orders.filled")
  OBVIOUS
<1>1. UnderWay(o) = {m \in Carrying : m.order = o}
  BY DEF UnderWay, Carrying
<1>2. Way(o) = Amount(Carrying, o, "orders.child") + Amount(Carrying, o, "orders.filled")
  BY <1>1, AmountSplit, CarryingFacts, QuantityIsTotal DEF Way
<1>3. /\ Amount(Carrying, o, "orders.child") \in Nat
      /\ Amount(Carrying, o, "orders.filled") \in Nat
  BY AmountNat, CarryingFacts
<1> QED  BY <1>2, <1>3, AwaitedIsAmount

LEMMA WayIsAmountsNext ==
  ASSUME sending' \subseteq Message, bus' \subseteq Message, Messages'
  PROVE  \A o : /\ Awaited(o, "orders.child")' \in Nat /\ Awaited(o, "orders.filled")' \in Nat
                /\ Way(o)' = Awaited(o, "orders.child")' + Awaited(o, "orders.filled")'
<1> SUFFICES ASSUME NEW o
             PROVE  /\ Awaited(o, "orders.child")' \in Nat /\ Awaited(o, "orders.filled")' \in Nat
                    /\ Way(o)' = Awaited(o, "orders.child")' + Awaited(o, "orders.filled")'
  OBVIOUS
<1>1. UnderWay(o)' = {m \in Carrying' : m.order = o}
  BY DEF UnderWay, Carrying
<1>2. Way(o)' = Amount(Carrying', o, "orders.child") + Amount(Carrying', o, "orders.filled")
  BY <1>1, AmountSplit, CarryingFacts, QuantityIsTotal DEF Way
<1>3. /\ Amount(Carrying', o, "orders.child") \in Nat
      /\ Amount(Carrying', o, "orders.filled") \in Nat
  BY AmountNat, CarryingFacts
<1> QED  BY <1>2, <1>3, AwaitedIsAmount

-----------------------------------------------------------------------------
(* An entry that is removed from a Map leaves the others.                  *)
RangeOf(s) == {s[i] : i \in DOMAIN s}

LEMMA RemovedFirst ==
  ASSUME NEW S, NEW s \in Seq(S), Distinct(s), NEW e
  PROVE  /\ RemoveFirst(s, e) \in Seq(S) /\ Distinct(RemoveFirst(s, e))
         /\ RangeOf(RemoveFirst(s, e)) = RangeOf(s) \ {e}
<1> DEFINE I == {i \in 1 .. Len(s) : s[i] = e}
<1>1. CASE I = {}
  <2>1. \A i \in 1 .. Len(s) : s[i] # e
    BY <1>1
  <2>2. RemoveFirst(s, e) = s
    BY <2>1 DEF RemoveFirst
  <2> QED  BY <2>1, <2>2 DEF RangeOf
<1>2. CASE I # {}
  <2>0. I \in SUBSET Nat
    OBVIOUS
  <2>1. PICK k \in I : \A j \in I : k <= j
    BY <1>2, <2>0, LeastNat
  <2>2. SelectInSeq(s, LAMBDA v : v = e) = k
    <3>1. SelectInSeq(s, LAMBDA v : v = e) = Min(I)
      BY <1>2 DEF SelectInSeq
    <3>2. Min(I) \in I /\ \A j \in I : Min(I) <= j
      BY <2>1 DEF Min
    <3>3. \A m, n \in Nat : m <= n /\ n <= m => m = n
      OBVIOUS
    <3>4. Min(I) \in Nat /\ k \in Nat /\ Min(I) <= k /\ k <= Min(I)
      BY <2>0, <2>1, <3>2
    <3>5. Min(I) = k
      BY <3>3, <3>4
    <3> QED  BY <3>1, <3>5
  <2> DEFINE s1 == SubSeq(s, 1, k - 1)
             s2 == SubSeq(s, k + 1, Len(s))
             n == Len(s)
  <2>3. /\ RemoveFirst(s, e) = s1 \o s2
    BY <1>2, <2>2 DEF RemoveFirst, RemoveAt
  <2>4. /\ s1 \in Seq(S) /\ Len(s1) = k - 1 /\ \A i \in 1 .. k - 1 : s1[i] = s[i]
    <3>1. \A i \in 1 .. k - 1 : s[i] \in S
      BY <2>1
    <3> QED  BY <3>1, <2>1, SubSeqProperties
  <2>5. /\ s2 \in Seq(S) /\ Len(s2) = n - k /\ \A i \in 1 .. n - k : s2[i] = s[i + k]
    <3>1. \A i \in k + 1 .. n : s[i] \in S
      BY <2>1
    <3> QED  BY <3>1, <2>1, SubSeqProperties
  <2> HIDE DEF s1, s2
  <2>6. /\ s1 \o s2 \in Seq(S) /\ Len(s1 \o s2) = n - 1
        /\ \A i \in 1 .. n - 1 : (s1 \o s2)[i] = IF i < k THEN s[i] ELSE s[i + 1]
    <3>1. /\ s1 \o s2 \in Seq(S) /\ Len(s1 \o s2) = Len(s1) + Len(s2)
          /\ \A i \in 1 .. Len(s1) + Len(s2) :
               (s1 \o s2)[i] = IF i <= Len(s1) THEN s1[i] ELSE s2[i - Len(s1)]
      BY <2>4, <2>5, ConcatProperties
    <3>2. Len(s) \in Nat /\ k \in 1 .. Len(s)
      OBVIOUS
    <3>3. ASSUME NEW i \in 1 .. n - 1
          PROVE  (s1 \o s2)[i] = IF i < k THEN s[i] ELSE s[i + 1]
      <4>1. CASE i < k
        BY <4>1, <3>1, <3>2, <2>4, <2>5
      <4>2. CASE ~(i < k)
        <5>1. i - Len(s1) \in 1 .. n - k /\ (i - Len(s1)) + k = i + 1
          BY <4>2, <3>2, <2>4
        <5>2. s2[i - Len(s1)] = s[i + 1]
          BY <5>1, <2>5
        <5> QED  BY <4>2, <5>2, <3>1, <3>2, <2>4, <2>5
      <4> QED  BY <4>1, <4>2
    <3> QED  BY <3>1, <3>2, <3>3, <2>4, <2>5
  <2>7. s[k] = e /\ \A i \in DOMAIN s : i # k => s[i] # e
    BY <2>1 DEF Distinct
  <2> DEFINE t == s1 \o s2
  <2>t. /\ DOMAIN t = 1 .. n - 1 /\ DOMAIN s = 1 .. n /\ n \in Nat /\ k \in 1 .. n
        /\ \A i \in 1 .. n - 1 : t[i] = IF i < k THEN s[i] ELSE s[i + 1]
    BY <2>6, <2>1
  <2> HIDE DEF t, n
  <2>8. Distinct(t)
    <3>1. \A i, j \in DOMAIN s : s[i] = s[j] => i = j
      BY DEF Distinct
    <3>2. ASSUME NEW i \in DOMAIN t, NEW j \in DOMAIN t, t[i] = t[j] PROVE i = j
      <4> DEFINE G(x) == IF x < k THEN x ELSE x + 1
      <4>1. G(i) \in DOMAIN s /\ G(j) \in DOMAIN s
        BY <2>t
      <4>2. t[i] = s[G(i)] /\ t[j] = s[G(j)]
        BY <2>t
      <4>3. G(i) = G(j)
        BY <3>1, <3>2, <4>1, <4>2
      <4> QED  BY <2>t, <4>3
    <3> QED  BY <3>2 DEF Distinct
  <2>9. RangeOf(t) \subseteq RangeOf(s) \ {e}
    <3>1. ASSUME NEW i \in DOMAIN t
          PROVE  \E j \in DOMAIN s : t[i] = s[j] /\ j # k
      <4>1. CASE i < k
        BY <2>t, <4>1
      <4>2. CASE ~(i < k)
        BY <2>t, <4>2
      <4> QED  BY <4>1, <4>2
    <3> QED  BY <2>7, <3>1 DEF RangeOf
  <2>10. ASSUME NEW i \in DOMAIN s, s[i] # e PROVE s[i] \in RangeOf(t)
    <3>1. CASE i < k
      <4>1. i \in DOMAIN t /\ t[i] = s[i]
        BY <3>1, <2>t
      <4> QED  BY <4>1 DEF RangeOf
    <3>2. CASE i > k
      <4>1. i - 1 \in DOMAIN t /\ t[i - 1] = s[i]
        BY <3>2, <2>t
      <4> QED  BY <4>1 DEF RangeOf
    <3> QED  BY <3>1, <3>2, <2>7, <2>10
  <2>11. RangeOf(s) \ {e} \subseteq RangeOf(t)
    BY <2>10 DEF RangeOf
  <2>12. RemoveFirst(s, e) = t /\ t \in Seq(S)
    BY <2>3, <2>6 DEF t
  <2> QED  BY <2>8, <2>9, <2>11, <2>12
<1> QED  BY <1>1, <1>2

-----------------------------------------------------------------------------
(* A heartbeat or an expiry carries no shares.                             *)
LEMMA ReportSent ==
  ASSUME TypeOK, Messages, NEW h \in Callbacks \cup PacedCallbacks, NEW o \in AllOrders,
         NEW topic \in {"orders.expired", "algo.heartbeat"}, Settled(h),
         Send(Report(topic, o, h)), bus' = bus, \A p \in AllOrders : Counted(p)' = Counted(p)
  PROVE  /\ Messages' /\ sending' \subseteq Message /\ bus' \subseteq Message
         /\ Children' = Children /\ \A p : UnderWay(p)' = UnderWay(p)
<1> DEFINE r == Report(topic, o, h)
<1>1. r \in Message /\ r.topic = topic /\ r.by = h
  BY DEF Report, Message
<1>2. sending' = sending \cup {r} /\ r \notin sending
  BY DEF Send
<1> HIDE DEF r
<1>3. Carrying' = Carrying /\ Children' = Children /\ \A p : UnderWay(p)' = UnderWay(p)
  BY <1>1, <1>2 DEF Carrying, Children, UnderWay
<1>4. sending' \subseteq Message /\ bus' \subseteq Message
  BY <1>1, <1>2 DEF TypeOK
<1>5. IsFiniteSet(sending')
  BY <1>2, FS_AddElement DEF Messages
<1>6. \A m, n \in sending' : m.by = n.by => m = n
  BY <1>1, <1>2 DEF Messages, Settled
<1>7. \A m \in sending' : m.topic # "orders.filled" /\ (m \in Carrying => m \notin bus)
  BY <1>1, <1>2 DEF Messages, Carrying
<1>8. \A m \in Carrying : m.order \in AllOrders
  BY DEF TypeOK, Carrying, Message
<1> QED  BY <1>3, <1>4, <1>5, <1>6, <1>7, <1>8 DEF Messages

LEMMA ChildSent ==
  ASSUME TypeOK, Messages, NEW h \in Callbacks \cup PacedCallbacks, NEW o \in AllOrders,
         NEW n, NEW q \in Nat, n = Counted(o) + 1, h \in Callbacks <=> o \in Orders,
         Settled(h), Send(Child(o, n, q, h)), bus' = bus, Counted(o)' = n,
         \A p \in AllOrders : p # o => Counted(p)' = Counted(p)
  PROVE  /\ Messages' /\ sending' \subseteq Message /\ bus' \subseteq Message
         /\ Children' = Children \cup {Child(o, n, q, h)}
         /\ \A p : p # o => UnderWay(p)' = UnderWay(p)
         /\ UnderWay(o)' = UnderWay(o) \cup {Child(o, n, q, h)}
         /\ Awaited(o, "orders.child")' = Awaited(o, "orders.child") + q
         /\ Awaited(o, "orders.filled")' = Awaited(o, "orders.filled")
         /\ Way(o)' = Way(o) + q
<1> DEFINE c == Child(o, n, q, h)
<1>0. \A p \in AllOrders : Counted(p) \in Nat
  BY DEF TypeOK, Counted, AllOrders
<1>1. /\ c \in Message /\ c.topic = "orders.child" /\ c.order = o /\ c.slice = n
      /\ c.qty = q /\ c.by = h /\ n \in Nat
  BY <1>0 DEF Child, Message
<1>2. sending' = sending \cup {c} /\ c \notin sending
  BY DEF Send
<1> HIDE DEF c
<1>3. \A m \in Carrying : m.order \in AllOrders /\ m.slice \in Nat
  BY DEF TypeOK, Carrying, Message
<1>4. \A m \in Carrying : ~(m.order = o /\ m.slice = n)
  BY <1>0, <1>3 DEF Messages
<1>5. c \notin Carrying /\ c \notin bus
  BY <1>1, <1>4 DEF Carrying
<1>6. /\ Carrying' = Carrying \cup {c} /\ Children' = Children \cup {c}
      /\ \A p : p # o => UnderWay(p)' = UnderWay(p)
      /\ UnderWay(o)' = UnderWay(o) \cup {c}
  BY <1>1, <1>2 DEF Carrying, Children, UnderWay
<1>7. sending' \subseteq Message /\ bus' \subseteq Message
  BY <1>1, <1>2 DEF TypeOK
<1>8. Messages'
  <2>1. IsFiniteSet(sending') /\ IsFiniteSet(bus')
    BY <1>2, FS_AddElement DEF Messages
  <2>2. \A m, k \in sending' : m.by = k.by => m = k
    BY <1>1, <1>2 DEF Messages, Settled
  <2>3. \A m \in sending' : m.topic # "orders.filled" /\ (m \in Carrying' => m \notin bus')
    BY <1>1, <1>2, <1>5, <1>6 DEF Messages
  <2>4. \A m \in Carrying' : /\ m.by \in Callbacks <=> m.order \in Orders
                             /\ m.slice <= Counted(m.order)'
    <3>1. ASSUME NEW m \in Carrying
          PROVE  /\ m.by \in Callbacks <=> m.order \in Orders
                 /\ m.slice <= Counted(m.order)'
      <4>1. /\ m.by \in Callbacks <=> m.order \in Orders
            /\ m.slice <= Counted(m.order)
        BY DEF Messages
      <4>2. CASE m.order = o
        BY <1>0, <1>3, <4>1, <4>2
      <4>3. CASE m.order # o
        BY <1>3, <4>1, <4>3
      <4> QED  BY <4>2, <4>3
    <3> QED  BY <1>1, <1>6, <3>1
  <2>5. \A m, k \in Carrying' : m.order = k.order /\ m.slice = k.slice => m = k
    BY <1>1, <1>4, <1>6 DEF Messages
  <2> QED  BY <2>1, <2>2, <2>3, <2>4, <2>5 DEF Messages
<1>9. \A t \in {"orders.child", "orders.filled"} :
        Awaited(o, t)' = Awaited(o, t) + ShareOf(c, o, t)
  BY <1>1, <1>5, <1>6, AmountAdd, AwaitedIsAmount, CarryingFacts
<1>10. ShareOf(c, o, "orders.child") = q /\ ShareOf(c, o, "orders.filled") = 0
  BY <1>1 DEF ShareOf
<1>11. /\ Awaited(o, "orders.child")' = Awaited(o, "orders.child") + q
       /\ Awaited(o, "orders.filled")' = Awaited(o, "orders.filled") + 0
  BY <1>9, <1>10
<1>12. /\ Awaited(o, "orders.child") \in Nat /\ Awaited(o, "orders.filled") \in Nat
       /\ Way(o) = Awaited(o, "orders.child") + Awaited(o, "orders.filled")
       /\ Way(o)' = Awaited(o, "orders.child")' + Awaited(o, "orders.filled")'
  BY <1>7, <1>8, WayIsAmounts, WayIsAmountsNext
<1> QED  BY <1>6, <1>7, <1>8, <1>11, <1>12 DEF c

(* The broker takes it.                                                    *)
LEMMA ChildWritten ==
  ASSUME TypeOK, Messages, NEW m, m.topic = "orders.child", Written(m),
         \A p \in AllOrders : Counted(p)' = Counted(p)
  PROVE  /\ Messages' /\ sending' \subseteq Message /\ bus' \subseteq Message
         /\ Children' = Children \ {m} /\ \A p : UnderWay(p)' = UnderWay(p)
<1>1. m \in sending /\ sending' = sending \ {m} /\ bus' = bus \cup {m}
  BY DEF Written
<1>2. Carrying' = Carrying /\ Children' = Children \ {m} /\ \A p : UnderWay(p)' = UnderWay(p)
  BY <1>1 DEF Carrying, Children, UnderWay
<1>3. IsFiniteSet(sending') /\ IsFiniteSet(bus')
  BY <1>1, FS_RemoveElement, FS_AddElement DEF Messages
<1>4. \A k \in sending' : k.topic # "orders.filled" /\ (k \in Carrying => k \notin bus')
  BY <1>1 DEF Messages, Carrying
<1>5. \A k \in Carrying : k.order \in AllOrders
  BY DEF TypeOK, Carrying, Message
<1>6. \A k, n \in sending' : k.by = n.by => k = n
  BY <1>1 DEF Messages
<1>7. sending' \subseteq Message /\ bus' \subseteq Message
  BY <1>1 DEF TypeOK
<1> QED  BY <1>2, <1>3, <1>4, <1>5, <1>6, <1>7 DEF Messages

(* A message is gone: its send failed, or it was consumed.                 *)
Gone(m) == \/ m \in sending /\ sending' = sending \ {m} /\ bus' = bus
           \/ m \in bus /\ bus' = bus \ {m} /\ sending' = sending

LEMMA MessageGone ==
  ASSUME TypeOK, Messages, NEW m, Gone(m), \A p \in AllOrders : Counted(p)' = Counted(p)
  PROVE  /\ Messages' /\ sending' \subseteq Message /\ bus' \subseteq Message
         /\ Children' = Children \ {m}
         /\ \A p : UnderWay(p)' = UnderWay(p) \ {m}
         /\ m.topic \in {"orders.child", "orders.filled"} =>
              /\ m \in UnderWay(m.order) /\ m.qty \in Nat
              /\ \A t \in {"orders.child", "orders.filled"} :
                   Awaited(m.order, t) = Awaited(m.order, t)' + (IF m.topic = t THEN m.qty ELSE 0)
              /\ Way(m.order) = Way(m.order)' + m.qty
<1>1. m \in Message /\ m \in sending \cup bus /\ sending' \subseteq Message /\ bus' \subseteq Message
  BY DEF Gone, TypeOK
<1>2. IsFiniteSet(sending') /\ IsFiniteSet(bus')
  BY FS_RemoveElement DEF Gone, Messages
<1>3. m \in Carrying => ~(m \in sending /\ m \in bus)
  BY DEF Messages
<1>4. /\ Carrying' = Carrying \ {m} /\ Children' = Children \ {m}
      /\ \A p : UnderWay(p)' = UnderWay(p) \ {m}
  BY <1>3 DEF Gone, Carrying, Children, UnderWay
<1>5. \A k \in Carrying : k.order \in AllOrders
  BY DEF TypeOK, Carrying, Message
<1>6. /\ \A k \in sending' : k.topic # "orders.filled" /\ (k \in Carrying' => k \notin bus')
      /\ \A k, n \in sending' : k.by = n.by => k = n
  BY <1>4 DEF Messages, Gone
<1>7. Messages'
  BY <1>2, <1>4, <1>5, <1>6 DEF Messages
<1>8. ASSUME m.topic \in {"orders.child", "orders.filled"}
      PROVE  /\ m \in UnderWay(m.order) /\ m.qty \in Nat
             /\ \A t \in {"orders.child", "orders.filled"} :
                  Awaited(m.order, t) = Awaited(m.order, t)' + (IF m.topic = t THEN m.qty ELSE 0)
             /\ Way(m.order) = Way(m.order)' + m.qty
  <2>1. m \in Carrying /\ m \in UnderWay(m.order) /\ m.qty \in Nat
    BY <1>1, <1>8 DEF Carrying, UnderWay, Message
  <2>2. \A t \in {"orders.child", "orders.filled"} :
          Awaited(m.order, t) = Awaited(m.order, t)' + ShareOf(m, m.order, t)
    BY <2>1, <1>4, AmountRemove, AwaitedIsAmount, CarryingFacts
  <2>3. \A t : ShareOf(m, m.order, t) = IF m.topic = t THEN m.qty ELSE 0
    BY DEF ShareOf
  <2>4. /\ Awaited(m.order, "orders.child")' \in Nat /\ Awaited(m.order, "orders.filled")' \in Nat
        /\ Way(m.order) = Awaited(m.order, "orders.child") + Awaited(m.order, "orders.filled")
        /\ Way(m.order)' = Awaited(m.order, "orders.child")' + Awaited(m.order, "orders.filled")'
    BY <1>1, <1>7, WayIsAmounts, WayIsAmountsNext
  <2>5. CASE m.topic = "orders.child"
    BY <2>1, <2>2, <2>3, <2>4, <2>5
  <2>6. CASE m.topic = "orders.filled"
    BY <2>1, <2>2, <2>3, <2>4, <2>6
  <2> QED  BY <1>8, <2>5, <2>6
<1> QED  BY <1>1, <1>4, <1>7, <1>8

(* The EMS answers a child with a fill.                                    *)
LEMMA ChildAnswered ==
  ASSUME TypeOK, Messages, NEW c, c \in bus, c.topic = "orders.child", NEW q \in 1 .. c.qty,
         bus' = (bus \ {c}) \cup {Fill(c, q)}, sending' = sending,
         \A p \in AllOrders : Counted(p)' = Counted(p)
  PROVE  /\ Messages' /\ sending' \subseteq Message /\ bus' \subseteq Message
         /\ Children' = Children
         /\ c \in UnderWay(c.order) /\ c.qty \in Nat /\ q <= c.qty
         /\ \A p : p # c.order => UnderWay(p)' = UnderWay(p)
         /\ UnderWay(c.order)' = (UnderWay(c.order) \ {c}) \cup {Fill(c, q)}
         /\ Awaited(c.order, "orders.child") = Awaited(c.order, "orders.child")' + c.qty
         /\ Awaited(c.order, "orders.filled")' = Awaited(c.order, "orders.filled") + q
         /\ Way(c.order)' + c.qty = Way(c.order) + q
<1> DEFINE f == Fill(c, q)
           o == c.order
<1>1. c \in Message /\ c.qty \in Nat /\ c \in Carrying /\ c \in UnderWay(o)
  BY DEF TypeOK, Message, Carrying, UnderWay
<1>2. /\ f \in Message /\ f.topic = "orders.filled" /\ f.order = o /\ f.slice = c.slice
      /\ f.qty = q /\ f.by = c.by /\ q \in Nat
  BY <1>1 DEF Fill, Message
<1> HIDE DEF f, o
<1>3. c \notin sending
  BY <1>1 DEF Messages
<1>4. f \notin Carrying
  <2>1. f.order = c.order /\ f.slice = c.slice /\ f # c
    BY <1>2 DEF o
  <2> QED  BY <1>1, <2>1 DEF Messages
<1>5. /\ Carrying' = (Carrying \ {c}) \cup {f} /\ Children' = Children
      /\ \A p : p # o => UnderWay(p)' = UnderWay(p)
      /\ UnderWay(o)' = (UnderWay(o) \ {c}) \cup {f}
  <2>1. bus' = (bus \ {c}) \cup {f}
    BY DEF f
  <2>2. Carrying' = (Carrying \ {c}) \cup {f} /\ Children' = Children
    BY <1>1, <1>2, <1>3, <2>1 DEF Carrying, Children
  <2>3. \A p : UnderWay(p) = {m \in Carrying : m.order = p} /\ UnderWay(p)' = {m \in Carrying' : m.order = p}
    BY DEF Carrying, UnderWay
  <2> QED  BY <1>1, <1>2, <2>2, <2>3 DEF o
<1>6. sending' \subseteq Message /\ bus' \subseteq Message
  BY <1>2 DEF TypeOK, f
<1>7. Messages'
  <2>1. IsFiniteSet(sending') /\ IsFiniteSet(bus')
    BY FS_RemoveElement, FS_AddElement DEF Messages
  <2>2. \A m \in sending' : m.topic # "orders.filled" /\ (m \in Carrying' => m \notin bus')
    BY <1>2, <1>5 DEF Messages, f
  <2>3. \A m \in Carrying : m.order \in AllOrders
    BY DEF TypeOK, Carrying, Message
  <2>4. \A m \in Carrying : /\ m.by \in Callbacks <=> m.order \in Orders
                            /\ m.slice <= Counted(m.order)'
    BY <2>3 DEF Messages
  <2>5. \A m \in Carrying' : /\ m.by \in Callbacks <=> m.order \in Orders
                             /\ m.slice <= Counted(m.order)'
    BY <1>1, <1>2, <1>5, <2>4 DEF o
  <2>6. \A m, k \in Carrying' : m.order = k.order /\ m.slice = k.slice => m = k
    BY <1>1, <1>2, <1>5 DEF Messages, o
  <2>7. \A m, k \in sending' : m.by = k.by => m = k
    BY DEF Messages
  <2> QED  BY <2>1, <2>2, <2>5, <2>6, <2>7 DEF Messages
<1>8. IsFiniteSet(Carrying) /\ \A m \in Carrying : m.qty \in Nat
  BY CarryingFacts
<1>9. \A t : /\ Amount(Carrying, o, t) = Amount(Carrying \ {c}, o, t) + ShareOf(c, o, t)
             /\ Amount(Carrying', o, t) = Amount(Carrying \ {c}, o, t) + ShareOf(f, o, t)
             /\ Amount(Carrying \ {c}, o, t) \in Nat
  <2>1. IsFiniteSet(Carrying \ {c}) /\ f \notin Carrying \ {c} /\ f.qty \in Nat
    BY <1>2, <1>4, <1>8, FS_RemoveElement
  <2> QED  BY <1>1, <1>5, <1>8, <2>1, AmountRemove, AmountAdd, AmountNat
<1>10. /\ ShareOf(c, o, "orders.child") = c.qty /\ ShareOf(c, o, "orders.filled") = 0
       /\ ShareOf(f, o, "orders.child") = 0 /\ ShareOf(f, o, "orders.filled") = q
  BY <1>2 DEF ShareOf, o
<1>11. /\ Awaited(o, "orders.child") = Awaited(o, "orders.child")' + c.qty
       /\ Awaited(o, "orders.filled")' = Awaited(o, "orders.filled") + q
  <2>1. \A t \in {"orders.child", "orders.filled"} :
          Awaited(o, t) = Amount(Carrying, o, t) /\ Awaited(o, t)' = Amount(Carrying', o, t)
    BY AwaitedIsAmount
  <2>2. /\ Awaited(o, "orders.child") = Amount(Carrying \ {c}, o, "orders.child") + c.qty
        /\ Awaited(o, "orders.child")' = Amount(Carrying \ {c}, o, "orders.child") + 0
        /\ Awaited(o, "orders.filled") = Amount(Carrying \ {c}, o, "orders.filled") + 0
        /\ Awaited(o, "orders.filled")' = Amount(Carrying \ {c}, o, "orders.filled") + q
    BY <1>9, <1>10, <2>1
  <2> QED  BY <1>9, <2>2
<1>12. /\ Awaited(o, "orders.child")' \in Nat /\ Awaited(o, "orders.filled") \in Nat
       /\ Way(o) = Awaited(o, "orders.child") + Awaited(o, "orders.filled")
       /\ Way(o)' = Awaited(o, "orders.child")' + Awaited(o, "orders.filled")'
  BY <1>6, <1>7, WayIsAmounts, WayIsAmountsNext
<1>13. Way(o)' + c.qty = Way(o) + q
  BY <1>1, <1>2, <1>11, <1>12
<1> QED  BY <1>1, <1>5, <1>6, <1>7, <1>11, <1>13 DEF f, o

-----------------------------------------------------------------------------
LEMMA MostNat ==
  ASSUME SniperTypes, NEW o \in Orders
  PROVE  Most(o) \in Nat
<1>1. totalRemaining[o] \in Nat /\ unbooked[o] \in Nat
  BY DEF SniperTypes
<1> QED  BY <1>1 DEF Most

(* What is said of an order depends on its own numbers and its rounds.     *)
LEMMA WithinKept ==
  ASSUME NEW p, Within(p), filledQty'[p] = filledQty[p], totalRemaining'[p] = totalRemaining[p],
         inFlightQty'[p] = inFlightQty[p], unbooked'[p] = unbooked[p], Way(p)' = Way(p),
         \A k \in Callbacks : loop'[k].order = p => loop'[k] = loop[k]
  PROVE  Within(p)'
<1>1. ASSUME NEW k \in Callbacks, loop'[k].order = p
      PROVE  Round(loop[k], p)'
  <2>1. loop'[k] = loop[k] /\ Round(loop[k], p)
    BY <1>1 DEF Within
  <2> QED  BY <2>1 DEF Round, Most, Spent, Held
<1> QED  BY <1>1 DEF Within, Most

(* A step of the other process leaves what is said of this one.            *)
LEMMA SniperKept ==
  ASSUME SniperInv, UNCHANGED sniperVars,
         \A m \in Children' : m.by \in Callbacks => m \in Children,
         \A p \in Orders : UnderWay(p)' = UnderWay(p) /\ executed'[p] = executed[p]
  PROVE  SniperInv'
<1>1. \A p \in Orders : /\ Awaited(p, "orders.filled")' = Awaited(p, "orders.filled")
                        /\ Way(p)' = Way(p)
  BY DEF Awaited, Way
<1>2. Working' = Working /\ RunQty' = RunQty /\ \A p \in Orders : FailedRuns(p)' = FailedRuns(p)
  BY DEF sniperVars, orderVars, Working, RunQty, FailedRuns
<1>3. SniperTypes' /\ Alone' /\ Pending'
  BY DEF SniperInv, SniperTypes, sniperVars, orderVars, Alone, Pending
<1>4. Routing'
  BY <1>2 DEF SniperInv, Routing, NothingOf, sniperVars, orderVars
<1>5. Covered'
  BY <1>1, <1>2 DEF SniperInv, Covered, sniperVars, orderVars
<1>6. Working \subseteq Orders
  BY DEF SniperInv, SniperTypes, Working
<1>7. SniperBooks'
  BY <1>1, <1>2, <1>6 DEF SniperInv, SniperBooks, sniperVars, orderVars
<1>8. Committed'
  <2>1. ASSUME NEW p \in Working, Within(p) PROVE Within(p)'
    BY <1>1, <1>6, <2>1, WithinKept DEF sniperVars, orderVars
  <2> QED  BY <1>2, <2>1 DEF SniperInv, Committed, sniperVars, orderVars
<1> QED  BY <1>3, <1>4, <1>5, <1>7, <1>8 DEF SniperInv

LEMMA PacedKept ==
  ASSUME PacedInv, UNCHANGED pacedVars,
         \A p \in PacedOrders : UnderWay(p)' = UnderWay(p) /\ executed'[p] = executed[p]
  PROVE  PacedInv'
<1>1. \A p \in PacedOrders : \A t : Awaited(p, t)' = Awaited(p, t)
  BY DEF Awaited
<1>2. Queued' = Queued /\ \A p, k : SentBy(p, k)' = SentBy(p, k)
  BY DEF pacedVars, Queued, SentBy, Unsent
<1>3. PacedTypes'
  BY DEF PacedInv, PacedTypes, pacedVars
<1>4. PacedRouting'
  BY <1>2 DEF PacedInv, PacedRouting, NothingOf, pacedVars
<1>5. OnSchedule' /\ PacedBooks'
  BY <1>1, <1>2 DEF PacedInv, OnSchedule, PacedBooks, pacedVars
<1>6. OneAtATime'
  BY <1>1, <1>2 DEF PacedInv, OneAtATime, pacedVars
<1> QED  BY <1>3, <1>4, <1>5, <1>6 DEF PacedInv

-----------------------------------------------------------------------------
(* SNIPER.  An invocation that goes on forgets that its send had failed.   *)
LEMMA FailedRunsAfter ==
  ASSUME SniperTypes, NEW h \in Callbacks, NEW run, ~run.failed,
         loop' = [loop EXCEPT ![h] = run]
  PROVE  \A p \in Orders :
           /\ FailedRuns(p)' = FailedRuns(p) \ {h}
           /\ SumFunctionOnSet(RunQty', FailedRuns(p)') = SumFunctionOnSet(RunQty, FailedRuns(p) \ {h})
           /\ loop[h].order # p => FailedRuns(p) \ {h} = FailedRuns(p)
<1> TAKE p \in Orders
<1>1. FailedRuns(p)' = FailedRuns(p) \ {h}
  BY DEF FailedRuns, SniperTypes
<1>2. \A k \in FailedRuns(p) \ {h} : RunQty[k] = RunQty'[k]
  BY DEF FailedRuns, RunQty, SniperTypes
<1>3. SumFunctionOnSet(RunQty, FailedRuns(p) \ {h}) = SumFunctionOnSet(RunQty', FailedRuns(p) \ {h})
  BY <1>2, SumSame
<1>4. loop[h].order # p => h \notin FailedRuns(p)
  BY DEF FailedRuns
<1> QED  BY <1>1, <1>3, <1>4

LEMMA DeletedOrder ==
  ASSUME SniperTypes, Distinct(activeOrders), NEW o, Delete(o)
  PROVE  /\ activeOrders' \in Seq(Orders) /\ Distinct(activeOrders')
         /\ Working' = Working \ {o}
<1>1. Working = RangeOf(activeOrders) /\ Working' = RangeOf(activeOrders')
  BY DEF Working, RangeOf
<1>2. activeOrders \in Seq(Orders)
  BY DEF SniperTypes
<1>3. LET t == RemoveFirst(activeOrders, o)
      IN t \in Seq(Orders) /\ Distinct(t) /\ RangeOf(t) = RangeOf(activeOrders) \ {o}
  BY <1>2, RemovedFirst
<1> QED  BY <1>1, <1>3 DEF Delete

(* It rests, or comes to the next order of its snapshot.                   *)
LEMMA RestKeeps ==
  ASSUME SniperInv, Messages, NEW h \in Callbacks, NEW run \in SniperRun, ~run.failed, run.order = None,
         loop[h].order = None, loop' = [loop EXCEPT ![h] = run],
         UNCHANGED activeOrders \/ \E o \in Orders : Delete(o),
         UNCHANGED <<routed, totalRemaining, filledQty, cooldownUntil, inFlightQty, sliceCount,
                     expiresAt, maxVenues, overlapped, unbooked, executed>>,
         Children' = Children, \A p : UnderWay(p)' = UnderWay(p)
  PROVE  SniperInv'
<1>1. \A p \in Orders : /\ Awaited(p, "orders.filled")' = Awaited(p, "orders.filled")
                        /\ Way(p)' = Way(p)
  BY DEF Awaited, Way
<1>2. None \notin Orders
  BY OrdersAssumption
<1>3. activeOrders' \in Seq(Orders) /\ Working' \subseteq Working /\ Distinct(activeOrders')
  <2>1. activeOrders \in Seq(Orders) /\ Distinct(activeOrders)
    BY DEF SniperInv, SniperTypes, Routing
  <2>2. CASE UNCHANGED activeOrders
    BY <2>1, <2>2 DEF Working
  <2>3. ASSUME NEW o \in Orders, Delete(o)
        PROVE  activeOrders' \in Seq(Orders) /\ Working' \subseteq Working /\ Distinct(activeOrders')
    BY <2>1, <2>3, DeletedOrder DEF SniperInv
  <2> QED  BY <2>2, <2>3
<1>4. SniperTypes'
  BY <1>3 DEF SniperInv, SniperTypes
<1>5. Routing'
  BY <1>2, <1>3 DEF SniperInv, SniperTypes, Routing, NothingOf
<1>6. Pending'
  <2>1. \A m \in Children : m.by \in Callbacks /\ m.order \in Orders => m.by # h
    BY <1>2 DEF SniperInv, Pending
  <2>2. \A m \in Children : m.by \in Callbacks => m.order \in Orders
    BY DEF Messages, Children, Carrying
  <2> QED  BY <2>1, <2>2 DEF SniperInv, SniperTypes, Pending
<1>7. Covered'
  <2>1. \A p \in Orders : /\ FailedRuns(p)' = FailedRuns(p)
                          /\ SumFunctionOnSet(RunQty', FailedRuns(p)') = SumFunctionOnSet(RunQty, FailedRuns(p))
    BY <1>2, FailedRunsAfter DEF SniperInv
  <2> QED  BY <1>1, <2>1 DEF SniperInv, Covered
<1>8. \A p \in Orders : \A k \in Callbacks : loop'[k].order = p => k # h /\ loop'[k] = loop[k]
  BY <1>2 DEF SniperInv, SniperTypes
<1>9. Alone'
  BY <1>8 DEF SniperInv, Alone
<1>10. Working \subseteq Orders
  BY DEF SniperInv, SniperTypes, Working
<1>11. SniperBooks'
  BY <1>1, <1>3, <1>10 DEF SniperInv, SniperBooks
<1>12. Committed'
  <2>1. ASSUME NEW p \in Working, Within(p) PROVE Within(p)'
    BY <1>1, <1>8, <1>10, <2>1, WithinKept
  <2> QED  BY <1>3, <2>1 DEF SniperInv, Committed
<1> QED  BY <1>4, <1>5, <1>6, <1>7, <1>9, <1>11, <1>12 DEF SniperInv

LEMMA BetweenRests ==
  ASSUME NEW run \in SniperRun
  PROVE  Between(run) \in SniperRun /\ Between(run).order = None /\ ~Between(run).failed
<1>1. Idle \in SniperRun /\ Idle.order = None /\ ~Idle.failed
  BY EmptySeq DEF Idle, SniperRun
<1> QED  BY <1>1 DEF Between, Idle, SniperRun

(* Invocation h is about to go on with a round of o: what is reserved, the *)
(* failed send taken back, still covers what is under way, and leaves room *)
(* for what the round may still send.                                      *)
Ready(h, run, o) ==
  /\ run \in SniperRun /\ run.order = o /\ o \in routed /\ Settled(h)
  /\ loop[h].order = o \/ (loop[h].order = None /\ Held(run, o) = inFlightQty[o])
  /\ Way(o) + SumFunctionOnSet(RunQty, FailedRuns(o) \ {h}) <= Held(run, o) + unbooked[o]
  /\ o \in Working \ overlapped =>
       /\ run.dispatched <= run.available
       /\ Way(o) + run.available <= Most(o) + run.dispatched
       /\ Held(run, o) + run.available <= Most(o) + run.dispatched

LEMMA HeldNat ==
  ASSUME SniperTypes, NEW o \in Orders, NEW run \in SniperRun
  PROVE  Held(run, o) \in Nat
<1>1. inFlightQty[o] \in Nat
  BY DEF SniperTypes
<1>2. run.qty \in Nat
  BY DEF SniperRun
<1>3. \A x, y \in Nat : Less(x, y) \in Nat
  BY DEF Less
<1> QED  BY <1>1, <1>2, <1>3 DEF Held

RouteFrame == UNCHANGED <<activeOrders, routed, totalRemaining, filledQty, expiresAt, maxVenues,
                          unbooked, bus, executed, book>>

LEMMA EndRoundKeeps ==
  ASSUME TypeOK, Messages, SniperInv, NEW h \in Callbacks, NEW o \in Orders, NEW run,
         Ready(h, run, o), EndRound(h, run, o), RouteFrame
  PROVE  /\ SniperInv' /\ Messages' /\ sending' \subseteq Message
         /\ \A p : UnderWay(p)' = UnderWay(p)
<1>1. /\ Messages' /\ sending' \subseteq Message
      /\ Children' = Children /\ \A p : UnderWay(p)' = UnderWay(p)
  <2>1. \A p \in AllOrders : Counted(p)' = Counted(p)
    BY DEF Counted, EndRound, RouteFrame
  <2>2. o \in AllOrders /\ Send(Report("algo.heartbeat", o, h)) /\ Settled(h) /\ bus' = bus
    BY DEF AllOrders, EndRound, Ready, RouteFrame
  <2> QED  BY <2>1, <2>2, ReportSent
<1>2. \A p \in Orders : /\ Awaited(p, "orders.filled")' = Awaited(p, "orders.filled")
                        /\ Way(p)' = Way(p)
  BY <1>1 DEF Awaited, Way
<1>3. /\ Between(run) \in SniperRun /\ Between(run).order = None /\ ~Between(run).failed
      /\ Held(run, o) \in Nat /\ run \in SniperRun /\ None \notin Orders /\ Cooldown \in Nat
  BY BetweenRests, HeldNat, OrdersAssumption, CallbacksAssumption DEF Ready, SniperInv
<1>4. /\ inFlightQty' = [inFlightQty EXCEPT ![o] = Held(run, o)]
      /\ cooldownUntil' = [cooldownUntil EXCEPT ![o] = run.now + Cooldown]
      /\ loop' = [loop EXCEPT ![h] = Between(run)]
      /\ UNCHANGED <<sliceCount, overlapped>>
  BY DEF EndRound
<1>5. SniperTypes'
  <2>1. run.now + Cooldown \in Nat
    BY <1>3 DEF SniperRun
  <2> QED  BY <1>3, <1>4, <2>1 DEF SniperInv, SniperTypes, RouteFrame
<1> DEFINE new == Between(run)
           held == Held(run, o)
<1> HIDE DEF new, held
<1>6. \A p \in Orders : \A k \in Callbacks :
        loop'[k].order = p => k # h /\ loop'[k] = loop[k]
  BY <1>3, <1>4 DEF SniperInv, SniperTypes
<1>7. Routing'
  <2>1. \A p \in Orders \ routed : inFlightQty'[p] = inFlightQty[p]
    BY <1>4 DEF Ready, SniperInv, SniperTypes
  <2>2. \A p : NothingOf(p) => NothingOf(p)'
    BY <1>1 DEF NothingOf, RouteFrame
  <2>3. Working' = Working
    BY DEF Working, RouteFrame
  <2> QED  BY <1>6, <2>1, <2>2, <2>3 DEF SniperInv, Routing, RouteFrame
<1>8. Pending'
  <2>1. \A m \in Children : m.by # h
    BY DEF Ready, Settled, Children
  <2> QED  BY <1>1, <1>4, <2>1 DEF SniperInv, SniperTypes, Pending
<1>9. Covered'
  <2>1. ASSUME NEW p \in Orders
        PROVE  /\ IsFiniteSet(FailedRuns(p)')
               /\ Way(p)' + SumFunctionOnSet(RunQty', FailedRuns(p)') <= inFlightQty'[p] + unbooked[p]
    <3>1. /\ FailedRuns(p)' = FailedRuns(p) \ {h}
          /\ SumFunctionOnSet(RunQty', FailedRuns(p)') = SumFunctionOnSet(RunQty, FailedRuns(p) \ {h})
          /\ loop[h].order # p => FailedRuns(p) \ {h} = FailedRuns(p)
      BY <1>3, <1>4, FailedRunsAfter DEF SniperInv
    <3>2. IsFiniteSet(FailedRuns(p)')
      BY <3>1, FS_RemoveElement DEF SniperInv, Covered
    <3>3. CASE p = o
      <4>1. inFlightQty'[p] = Held(run, o)
        BY <3>3, <1>4 DEF SniperInv, SniperTypes
      <4> QED  BY <3>1, <3>2, <3>3, <4>1, <1>2 DEF Ready
    <3>4. CASE p # o
      <4>1. inFlightQty'[p] = inFlightQty[p] /\ loop[h].order # p
        BY <3>4, <1>3, <1>4 DEF SniperInv, SniperTypes, Ready
      <4> QED  BY <3>1, <3>2, <4>1, <1>2 DEF SniperInv, Covered
    <3> QED  BY <3>3, <3>4
  <2> QED  BY <2>1 DEF Covered, RouteFrame
<1>10. Alone'
  BY <1>4, <1>6 DEF SniperInv, Alone
<1>11. Working' = Working /\ Working \subseteq Orders
  BY DEF RouteFrame, Working, SniperInv, SniperTypes
<1>12. SniperBooks'
  BY <1>2, <1>11 DEF SniperInv, SniperBooks, RouteFrame
<1>13. Committed'
  <2> SUFFICES ASSUME NEW p \in Working, p \notin overlapped
               PROVE  Within(p)'
    BY <1>4, <1>11 DEF Committed
  <2>1. Within(p) /\ filledQty' = filledQty /\ totalRemaining' = totalRemaining /\ unbooked' = unbooked
    BY DEF SniperInv, Committed, RouteFrame
  <2>2. CASE p # o \/ loop[h].order # o
    <3>1. inFlightQty'[p] = inFlightQty[p]
      BY <2>2, <1>4, <1>11 DEF SniperInv, SniperTypes, Ready
    <3>2. \A k \in Callbacks : loop'[k].order = p => loop'[k] = loop[k]
      BY <1>6, <1>11
    <3> QED  BY <1>2, <1>11, <2>1, <3>1, <3>2, WithinKept
  <2>3. CASE p = o /\ loop[h].order = o
    <3>1. inFlightQty'[p] = Held(run, o)
      BY <2>3, <1>4 DEF SniperInv, SniperTypes
    <3>2. inFlightQty'[p] <= Most(p) /\ Way(p) <= Most(p)
      <4>1. /\ run.dispatched <= run.available /\ run.dispatched \in Nat /\ run.available \in Nat
            /\ inFlightQty'[p] + run.available <= Most(p) + run.dispatched
            /\ Way(p) + run.available <= Most(p) + run.dispatched
            /\ Way(p) \in Nat /\ Most(p) \in Nat /\ inFlightQty'[p] \in Nat
        <5>1. Way(p) \in Nat /\ Most(p) \in Nat
          BY <2>3, WayIsAmounts, MostNat DEF SniperInv
        <5> QED  BY <2>3, <3>1, <1>3, <5>1 DEF Ready, SniperRun
      <4> QED  BY <4>1
    <3>3. \A k \in Callbacks : loop'[k].order # p
      BY <1>6, <1>11, <2>3 DEF SniperInv, Alone
    <3>4. Most(p)' = Most(p) /\ Way(p)' = Way(p)
      BY <1>2, <1>11, <2>1 DEF Most
    <3> QED  BY <2>1, <3>2, <3>3, <3>4 DEF Within
  <2> QED  BY <2>2, <2>3
<1> QED  BY <1>1, <1>5, <1>7, <1>8, <1>9, <1>10, <1>12, <1>13 DEF SniperInv

LEMMA SendLegKeeps ==
  ASSUME TypeOK, Messages, SniperInv, NEW h \in Callbacks, NEW o \in Orders, NEW run,
         NEW q \in Nat \ {0}, q <= Less(run.available, run.dispatched), run.venues > 0,
         Ready(h, run, o), SendLeg(h, run, o, q), RouteFrame
  PROVE  /\ SniperInv' /\ Messages' /\ sending' \subseteq Message
         /\ \A p : p # o => UnderWay(p)' = UnderWay(p)
<1> DEFINE c == Child(o, sliceCount[o] + 1, q, h)
           next == [run EXCEPT !.venues = @ - 1, !.qty = q, !.failed = FALSE]
<1>1. /\ Messages' /\ sending' \subseteq Message
      /\ Children' = Children \cup {c}
      /\ \A p : p # o => UnderWay(p)' = UnderWay(p)
      /\ UnderWay(o)' = UnderWay(o) \cup {c}
      /\ Awaited(o, "orders.filled")' = Awaited(o, "orders.filled")
      /\ Way(o)' = Way(o) + q
  <2>1. PICK n : n = sliceCount[o] + 1
    OBVIOUS
  <2>2. n = Counted(o) + 1 /\ Counted(o)' = n
    BY <2>1 DEF Counted, SendLeg, SniperInv, SniperTypes
  <2>3. \A p \in AllOrders : p # o => Counted(p)' = Counted(p)
    BY DEF Counted, SendLeg, RouteFrame, SniperInv, SniperTypes
  <2>4. o \in AllOrders /\ Send(Child(o, n, q, h)) /\ Settled(h) /\ bus' = bus
    BY <2>1 DEF AllOrders, SendLeg, Ready, RouteFrame
  <2>5. h \in Callbacks <=> o \in Orders
    OBVIOUS
  <2>6. /\ Messages' /\ sending' \subseteq Message
        /\ Children' = Children \cup {Child(o, n, q, h)}
        /\ \A p : p # o => UnderWay(p)' = UnderWay(p)
        /\ UnderWay(o)' = UnderWay(o) \cup {Child(o, n, q, h)}
        /\ Awaited(o, "orders.filled")' = Awaited(o, "orders.filled")
        /\ Way(o)' = Way(o) + q
    BY <2>2, <2>3, <2>4, <2>5, ChildSent
  <2> QED  BY <2>1, <2>6
<1>2. \A p \in Orders : /\ Awaited(p, "orders.filled")' = Awaited(p, "orders.filled")
                        /\ Way(p)' = IF p = o THEN Way(p) + q ELSE Way(p)
  <2>1. \A p : p # o => Awaited(p, "orders.filled")' = Awaited(p, "orders.filled") /\ Way(p)' = Way(p)
    BY <1>1 DEF Awaited, Way
  <2> QED  BY <1>1, <2>1
<1>3. /\ run \in SniperRun /\ Held(run, o) \in Nat /\ None \notin Orders
      /\ next \in SniperRun /\ next.order = o /\ ~next.failed /\ next.qty = q
      /\ next.available = run.available /\ next.dispatched = run.dispatched
  <2>1. run \in SniperRun /\ Held(run, o) \in Nat /\ run.order = o
    BY HeldNat DEF Ready, SniperInv
  <2>2. run.venues - 1 \in 0 .. 3
    BY <2>1 DEF SniperRun
  <2> QED  BY <2>1, <2>2, OrdersAssumption DEF SniperRun
<1>4. /\ inFlightQty' = [inFlightQty EXCEPT ![o] = Held(run, o) + q]
      /\ sliceCount' = [sliceCount EXCEPT ![o] = @ + 1]
      /\ loop' = [loop EXCEPT ![h] = next]
      /\ overlapped' = IF \E k \in Callbacks \ {h} : loop[k].order = o
                       THEN overlapped \cup {o} ELSE overlapped
      /\ UNCHANGED cooldownUntil
  BY DEF SendLeg
<1>5. /\ c.order = o /\ c.qty = q /\ c.by = h
  BY DEF Child
<1> HIDE DEF c, next
<1>6. SniperTypes'
  <2>1. Held(run, o) + q \in Nat
    BY <1>3
  <2>2. overlapped' \subseteq Orders
    BY <1>4 DEF SniperInv, SniperTypes
  <2> QED  BY <1>3, <1>4, <2>1, <2>2 DEF SniperInv, SniperTypes, RouteFrame
<1>7. /\ loop'[h] = next
      /\ \A k \in Callbacks : k # h => loop'[k] = loop[k]
      /\ overlapped \subseteq overlapped'
      /\ o \notin overlapped' => \A k \in Callbacks : k # h => loop[k].order # o
      /\ \A p \in Orders : p # o => (p \in overlapped' <=> p \in overlapped) /\ loop[h].order # p
      /\ inFlightQty'[o] = Held(run, o) + q
      /\ \A p \in Orders : p # o => inFlightQty'[p] = inFlightQty[p]
  BY <1>3, <1>4 DEF SniperInv, SniperTypes, Ready
<1>8. Working' = Working /\ Working \subseteq Orders
  BY DEF RouteFrame, Working, SniperInv, SniperTypes
<1>9. Routing'
  <2>1. \A p \in Orders \ routed : p # o
    BY DEF Ready
  <2>2. \A p \in Orders \ routed : NothingOf(p) => NothingOf(p)'
    BY <1>1, <2>1 DEF NothingOf, RouteFrame
  <2>3. \A p \in Orders \ routed : \A k \in Callbacks : loop'[k].order = p => loop[k].order = p
    BY <1>3, <1>7, <2>1
  <2> QED  BY <1>7, <1>8, <2>1, <2>2, <2>3 DEF SniperInv, Routing, RouteFrame
<1>10. Pending'
  <2>1. \A m \in Children : m.by # h
    BY DEF Ready, Settled, Children
  <2> QED  BY <1>1, <1>3, <1>5, <1>7, <2>1 DEF SniperInv, Pending
<1>11. Covered'
  <2>1. ASSUME NEW p \in Orders
        PROVE  /\ IsFiniteSet(FailedRuns(p)')
               /\ Way(p)' + SumFunctionOnSet(RunQty', FailedRuns(p)') <= inFlightQty'[p] + unbooked[p]
    <3>1. /\ FailedRuns(p)' = FailedRuns(p) \ {h}
          /\ SumFunctionOnSet(RunQty', FailedRuns(p)') = SumFunctionOnSet(RunQty, FailedRuns(p) \ {h})
          /\ loop[h].order # p => FailedRuns(p) \ {h} = FailedRuns(p)
      BY <1>3, <1>4, FailedRunsAfter DEF SniperInv
    <3>2. IsFiniteSet(FailedRuns(p)')
      BY <3>1, FS_RemoveElement DEF SniperInv, Covered
    <3>3. CASE p = o
      <4>1. SumFunctionOnSet(RunQty, FailedRuns(o) \ {h}) \in Nat
        <5>1. IsFiniteSet(FailedRuns(o) \ {h})
          BY <3>1, <3>2, <3>3
        <5>2. \A k \in FailedRuns(o) \ {h} : RunQty[k] \in Nat
          BY DEF RunQty, FailedRuns, SniperInv, SniperTypes, SniperRun
        <5> QED  BY <5>1, <5>2, SumNat
      <4>2. Way(o) \in Nat
        BY WayIsAmounts
      <4>3. /\ Way(o) + SumFunctionOnSet(RunQty, FailedRuns(o) \ {h}) <= Held(run, o) + unbooked[o]
            /\ unbooked[o] \in Nat
        BY DEF Ready, SniperInv, SniperTypes
      <4> QED  BY <3>1, <3>2, <3>3, <4>1, <4>2, <4>3, <1>2, <1>3, <1>7
    <3>4. CASE p # o
      <4>1. inFlightQty'[p] = inFlightQty[p] /\ loop[h].order # p
        BY <3>4, <1>7
      <4> QED  BY <3>1, <3>2, <3>4, <4>1, <1>2 DEF SniperInv, Covered
    <3> QED  BY <3>3, <3>4
  <2> QED  BY <2>1 DEF Covered, RouteFrame
<1>12. Alone'
  <2> SUFFICES ASSUME NEW p \in Orders \ overlapped', NEW k \in Callbacks, NEW j \in Callbacks,
                      loop'[k].order = p, loop'[j].order = p
               PROVE  k = j
    BY DEF Alone
  <2>1. CASE p = o
    BY <2>1, <1>7
  <2>2. CASE p # o
    <3>1. k # h /\ j # h /\ p \notin overlapped
      BY <2>2, <1>3, <1>7
    <3> QED  BY <3>1, <1>7 DEF SniperInv, Alone
  <2> QED  BY <2>1, <2>2
<1>13. SniperBooks'
  BY <1>2, <1>8 DEF SniperInv, SniperBooks, RouteFrame
<1>14. Committed'
  <2> SUFFICES ASSUME NEW p \in Working, p \notin overlapped'
               PROVE  Within(p)'
    BY <1>8 DEF Committed
  <2>1. Within(p) /\ filledQty' = filledQty /\ totalRemaining' = totalRemaining /\ unbooked' = unbooked
    BY <1>7 DEF SniperInv, Committed, RouteFrame
  <2>2. CASE p # o
    <3>1. \A k \in Callbacks : loop'[k].order = p => loop'[k] = loop[k]
      BY <2>2, <1>3, <1>7
    <3> QED  BY <2>1, <2>2, <3>1, <1>2, <1>7, <1>8, WithinKept
  <2>3. CASE p = o
    <3>1. /\ run.dispatched <= run.available /\ run.dispatched \in Nat /\ run.available \in Nat
          /\ Way(o) + run.available <= Most(o) + run.dispatched
          /\ Held(run, o) + run.available <= Most(o) + run.dispatched
          /\ Most(o) \in Nat /\ Way(o) \in Nat
      <4>1. Way(o) \in Nat /\ Most(o) \in Nat
        BY WayIsAmounts, MostNat DEF SniperInv
      <4> QED  BY <2>3, <1>3, <1>7, <4>1 DEF Ready, SniperRun
    <3>2. run.dispatched + q <= run.available
      BY <3>1 DEF Less
    <3>3. Most(o)' = Most(o) /\ Way(o)' = Way(o) + q /\ inFlightQty'[o] = Held(run, o) + q
      BY <2>1, <1>2, <1>7 DEF Most
    <3>4. inFlightQty'[o] <= Most(o) /\ Way(o) + q <= Most(o)
      BY <3>1, <3>2, <3>3, <1>3
    <3>5. \A k \in Callbacks : loop'[k].order = o => k = h
      BY <2>3, <1>7
    <3>6. Round(next, o)'
      <4>1. Spent(next)' = run.dispatched + q
        BY <1>3, <1>7 DEF Spent
      <4>2. Held(next, o)' = inFlightQty'[o]
        BY <1>3 DEF Held
      <4>3. /\ Way(o) + q + run.available <= Most(o) + (run.dispatched + q)
            /\ inFlightQty'[o] + run.available <= Most(o) + (run.dispatched + q)
        BY <3>1, <3>3, <1>3
      <4> QED  BY <1>3, <3>2, <3>3, <4>1, <4>2, <4>3 DEF Round
    <3>7. \A k \in Callbacks : loop'[k].order = o => Round(loop[k], o)'
      BY <1>7, <3>5, <3>6 DEF Round, Spent, Held
    <3>8. filledQty'[o] + totalRemaining'[o] = Qty[o]
      BY <2>1, <2>3 DEF Within
    <3> QED  BY <2>3, <3>3, <3>4, <3>7, <3>8 DEF Within
  <2> QED  BY <2>2, <2>3
<1> QED  BY <1>1, <1>6, <1>9, <1>10, <1>11, <1>12, <1>13, <1>14 DEF SniperInv

LEMMA RouteKeeps ==
  ASSUME IInv, NEW h \in Callbacks, NEW o \in Orders, NEW run,
         Ready(h, run, o), Route(h, run, o), UNCHANGED <<routed, totalRemaining, filledQty,
         expiresAt, maxVenues, unbooked, clock, bus, executed, pacedVars>>
  PROVE  IInv'
<1>1. /\ TypeOK /\ Messages /\ SniperInv /\ PacedInv /\ RouteFrame
  BY IInvFacts DEF Route, RouteFrame, pacedVars
<1>2. /\ SniperInv' /\ Messages' /\ sending' \subseteq Message
      /\ \A p : p # o => UnderWay(p)' = UnderWay(p)
  <2>1. CASE EndRound(h, run, o)
    BY <1>1, <2>1, EndRoundKeeps
  <2>2. ASSUME NEW half \in HalfDepths, run.venues > 0, LegQty(run, half) # 0,
               SendLeg(h, run, o, LegQty(run, half))
        PROVE  /\ SniperInv' /\ Messages' /\ sending' \subseteq Message
               /\ \A p : p # o => UnderWay(p)' = UnderWay(p)
    <3>1. half \in Nat /\ run \in SniperRun
      BY OrdersAssumption DEF Ready
    <3>2. /\ LegQty(run, half) \in Nat \ {0}
          /\ LegQty(run, half) <= Less(run.available, run.dispatched)
      BY <2>2, <3>1 DEF LegQty, Smaller, Larger, Less, SniperRun
    <3>3. PICK q : q = LegQty(run, half)
      OBVIOUS
    <3>4. q \in Nat \ {0} /\ q <= Less(run.available, run.dispatched) /\ SendLeg(h, run, o, q)
      BY <2>2, <3>2, <3>3
    <3> QED  BY <1>1, <2>2, <3>4, SendLegKeeps
  <2> QED  BY <2>1, <2>2 DEF Route
<1>3. PacedInv'
  <2>1. \A p \in PacedOrders : p # o
    BY OneStrategy
  <2> QED  BY <1>1, <1>2, <2>1, PacedKept
<1>4. SharedTypes'
  BY <1>1, <1>2 DEF IInv, SharedTypes
<1> QED  BY <1>2, <1>3, <1>4 DEF IInv

LEMMA DivNat ==
  \A m \in Nat : \A n \in Nat \ {0} : m \div n \in Nat
OBVIOUS

LEMMA TimesNat ==
  \A m, n \in Nat : m * n \in Nat
OBVIOUS

LEMMA StartReady ==
  ASSUME SniperInv, TypeOK, Messages, NEW h \in Callbacks, NEW o \in Orders, NEW run \in SniperRun,
         loop[h].order = None, Settled(h), Routable(run, o)
  PROVE  Ready(h, [Between(run) EXCEPT !.now = run.now, !.order = o,
                                       !.venues = maxVenues[o], !.available = Available(o),
                                       !.share = RouteQty(Available(o)) \div maxVenues[o]], o)
<1> DEFINE start == [Between(run) EXCEPT !.now = run.now, !.order = o,
                                         !.venues = maxVenues[o], !.available = Available(o),
                                         !.share = RouteQty(Available(o)) \div maxVenues[o]]
<1>1. /\ Between(run) \in SniperRun /\ ~Between(run).failed /\ Between(run).dispatched = 0
      /\ Between(run).qty = 0
  BY BetweenRests DEF Between, Idle
<1>2. /\ totalRemaining[o] \in Nat /\ inFlightQty[o] \in Nat /\ maxVenues[o] \in 1 .. 3
      /\ run.now \in Nat /\ Aggression \in Nat
  <2>1. totalRemaining[o] \in Nat /\ inFlightQty[o] \in Nat /\ maxVenues[o] \in 1 .. 3
    BY DEF SniperInv, SniperTypes
  <2>2. run.now \in Nat
    BY DEF SniperRun
  <2>3. Aggression \in Nat
    BY OrdersAssumption
  <2> QED  BY <2>1, <2>2, <2>3
<1>3. Available(o) \in Nat /\ Available(o) > 0
  BY <1>2 DEF Available, Less, Routable
<1>4. RouteQty(Available(o)) \div maxVenues[o] \in Nat
  <2>1. 2 * Available(o) * Aggression + 100 \in Nat
    BY <1>2, <1>3, TimesNat
  <2>2. (2 * Available(o) * Aggression + 100) \div 200 \in Nat
    BY <2>1, DivNat
  <2>3. RouteQty(Available(o)) \in Nat
    BY <2>2 DEF RouteQty, Larger
  <2> QED  BY <1>2, <2>3, DivNat
<1>5. /\ start \in SniperRun /\ start.order = o /\ start.available = Available(o)
      /\ start.dispatched = 0 /\ ~start.failed
  <2>1. PICK b : b = Between(run)
    OBVIOUS
  <2>2. PICK x : x = Available(o)
    OBVIOUS
  <2>3. PICK y : y = RouteQty(Available(o)) \div maxVenues[o]
    OBVIOUS
  <2>4. PICK v : v = maxVenues[o]
    OBVIOUS
  <2>5. start = [b EXCEPT !.now = run.now, !.order = o, !.venues = v, !.available = x, !.share = y]
    BY <2>1, <2>2, <2>3, <2>4
  <2>6. /\ b \in SniperRun /\ ~b.failed /\ b.dispatched = 0
        /\ x \in Nat /\ y \in Nat /\ v \in 0 .. 3 /\ run.now \in Nat
    BY <1>1, <1>2, <1>3, <1>4, <2>1, <2>2, <2>3, <2>4
  <2> HIDE DEF start
  <2> QED  BY <2>2, <2>5, <2>6 DEF SniperRun
<1> HIDE DEF start
<1>6. Held(start, o) = inFlightQty[o]
  BY <1>5 DEF Held
<1>7. o \in routed
  BY <1>2, <1>3 DEF SniperInv, Routing, Available, Less
<1>8. FailedRuns(o) \ {h} = FailedRuns(o)
  BY OrdersAssumption DEF FailedRuns
<1>9. Way(o) + SumFunctionOnSet(RunQty, FailedRuns(o)) <= inFlightQty[o] + unbooked[o]
  BY DEF SniperInv, Covered
<1>10. /\ inFlightQty[o] + Available(o) <= Most(o)
       /\ Way(o) + Available(o) <= Most(o)
  <2>1. totalRemaining[o] = inFlightQty[o] + Available(o)
    BY <1>2, <1>3 DEF Available, Less
  <2>2. Way(o) \in Nat /\ SumFunctionOnSet(RunQty, FailedRuns(o)) \in Nat /\ unbooked[o] \in Nat
    <3>1. \A k \in Callbacks : RunQty[k] \in Nat
      BY DEF SniperInv, SniperTypes, RunQty, SniperRun
    <3>2. IsFiniteSet(FailedRuns(o)) /\ \A k \in FailedRuns(o) : RunQty[k] \in Nat
      BY <3>1 DEF SniperInv, Covered, FailedRuns
    <3> QED  BY <3>2, SumNat, WayIsAmounts DEF SniperInv, SniperTypes
  <2> QED  BY <1>2, <1>3, <1>9, <2>1, <2>2 DEF Most
<1>11. Ready(h, start, o)
  <2>1. Most(o) \in Nat
    BY <1>2 DEF Most, SniperInv, SniperTypes
  <2> QED  BY <1>2, <1>3, <1>5, <1>6, <1>7, <1>8, <1>9, <1>10, <2>1 DEF Ready
<1> QED  BY <1>11 DEF start

LEMMA ResumeReady ==
  ASSUME SniperInv, TypeOK, Messages, NEW h \in Callbacks, NEW o \in Orders, loop[h].order = o, Settled(h)
  PROVE  Ready(h, IF loop[h].failed THEN loop[h] ELSE [loop[h] EXCEPT !.dispatched = @ + loop[h].qty], o)
<1> DEFINE run == loop[h]
           next == IF run.failed THEN run ELSE [run EXCEPT !.dispatched = @ + run.qty]
<1>1. run \in SniperRun /\ inFlightQty[o] \in Nat /\ totalRemaining[o] \in Nat
  BY DEF SniperInv, SniperTypes
<1>2. /\ next \in SniperRun /\ next.order = o /\ next.available = run.available
      /\ next.failed = run.failed /\ next.qty = run.qty
      /\ next.dispatched = IF run.failed THEN run.dispatched ELSE run.dispatched + run.qty
  <2>1. PICK r \in SniperRun : r = run
    BY <1>1
  <2>2. CASE r.failed
    BY <2>1, <2>2
  <2>3. CASE ~r.failed
    <3>1. next = [r EXCEPT !.dispatched = @ + r.qty] /\ r.dispatched + r.qty \in Nat
      BY <2>1, <2>3 DEF SniperRun
    <3> HIDE DEF next
    <3>2. /\ next \in SniperRun /\ next.order = r.order /\ next.available = r.available
          /\ next.failed = r.failed /\ next.qty = r.qty
          /\ next.dispatched = r.dispatched + r.qty
      BY <3>1 DEF SniperRun
    <3> QED  BY <2>1, <2>3, <3>2
  <2> QED  BY <2>2, <2>3
<1>3. /\ run.qty \in Nat /\ run.failed \in BOOLEAN /\ run.dispatched \in Nat /\ run.available \in Nat
  BY <1>1 DEF SniperRun
<1>4. o \in routed
  BY DEF SniperInv, Routing
<1>5. Way(o) \in Nat /\ IsFiniteSet(FailedRuns(o)) /\ \A k \in FailedRuns(o) : RunQty[k] \in Nat
  <2>1. Way(o) \in Nat
    BY WayIsAmounts
  <2>2. IsFiniteSet(FailedRuns(o))
    BY DEF SniperInv, Covered
  <2>3. \A k \in Callbacks : RunQty[k] \in Nat
    BY DEF SniperInv, SniperTypes, RunQty, SniperRun
  <2> QED  BY <2>1, <2>2, <2>3 DEF FailedRuns
<1>6. SumFunctionOnSet(RunQty, FailedRuns(o) \ {h}) \in Nat
  BY <1>5, FS_RemoveElement, SumNat
<1>7. /\ Way(o) + SumFunctionOnSet(RunQty, FailedRuns(o)) <= inFlightQty[o] + unbooked[o]
      /\ unbooked[o] \in Nat
  BY DEF SniperInv, Covered, SniperTypes
<1>8. Held(next, o) = Held(run, o) /\ Spent(run) = next.dispatched
  BY <1>2, <1>3 DEF Held, Spent
<1> HIDE DEF next
<1>11. o \in Working \ overlapped =>
        /\ next.dispatched <= next.available
        /\ Way(o) + next.available <= Most(o) + next.dispatched
        /\ Held(next, o) + next.available <= Most(o) + next.dispatched
  <2>1. ASSUME o \in Working \ overlapped PROVE Round(run, o)
    BY <2>1 DEF SniperInv, Committed, Within
  <2>2. run.dispatched + run.qty <= run.available => next.dispatched <= next.available
    BY <1>2, <1>3
  <2> QED  BY <1>2, <1>8, <2>1, <2>2 DEF Round
<1>9. CASE run.failed
  <2>1. h \in FailedRuns(o) /\ RunQty[h] = run.qty
    BY <1>9 DEF FailedRuns, RunQty
  <2>2. SumFunctionOnSet(RunQty, FailedRuns(o)) = run.qty + SumFunctionOnSet(RunQty, FailedRuns(o) \ {h})
    BY <1>5, <2>1, SumRemove
  <2>3. Way(o) + SumFunctionOnSet(RunQty, FailedRuns(o) \ {h}) + run.qty
          <= inFlightQty[o] + unbooked[o]
    BY <1>3, <1>5, <1>6, <1>7, <2>2
  <2>4. Held(next, o) = Less(inFlightQty[o], run.qty)
    BY <1>2, <1>9 DEF Held
  <2>5. Way(o) + SumFunctionOnSet(RunQty, FailedRuns(o) \ {h}) <= Held(next, o) + unbooked[o]
    BY <1>1, <1>3, <1>5, <1>6, <1>7, <2>3, <2>4 DEF Less
  <2> QED  BY <1>2, <1>4, <1>11, <2>5 DEF Ready, next
<1>10. CASE ~run.failed
  <2>1. FailedRuns(o) \ {h} = FailedRuns(o)
    BY <1>10 DEF FailedRuns
  <2>2. Held(next, o) = inFlightQty[o]
    BY <1>2, <1>10 DEF Held
  <2>4. Ready(h, next, o)
    BY <1>2, <1>4, <1>7, <1>11, <2>1, <2>2 DEF Ready
  <2> QED  BY <2>4 DEF next
<1> QED  BY <1>9, <1>10

LEMMA NothingSent ==
  ASSUME TypeOK, Messages, sending' = sending, bus' = bus,
         \A p \in AllOrders : Counted(p)' = Counted(p)
  PROVE  /\ Messages' /\ sending' \subseteq Message /\ bus' \subseteq Message
         /\ Children' = Children /\ \A p : UnderWay(p)' = UnderWay(p)
<1>1. Carrying' = Carrying /\ Children' = Children /\ \A p : UnderWay(p)' = UnderWay(p)
  BY DEF Carrying, Children, UnderWay
<1>2. \A m \in Carrying : m.order \in AllOrders
  BY DEF TypeOK, Carrying, Message
<1> QED  BY <1>1, <1>2 DEF Messages, TypeOK

LEMMA SuffixTyped ==
  ASSUME NEW S, NEW s \in Seq(S), NEW i \in DOMAIN s
  PROVE  SubSeq(s, i + 1, Len(s)) \in Seq(S)
<1>1. \A j \in i + 1 .. Len(s) : s[j] \in S
  OBVIOUS
<1> QED  BY <1>1, SubSeqProperties

LEMMA RunLoopKeeps ==
  ASSUME IInv, NEW h \in Callbacks, NEW run \in SniperRun, loop[h].order = None, Settled(h),
         RunLoop(h, run), UNCHANGED <<routed, totalRemaining, filledQty,
         expiresAt, maxVenues, unbooked, clock, bus, executed, pacedVars>>
  PROVE  IInv'
<1>1. TypeOK /\ Messages /\ SniperInv /\ PacedInv /\ book' = book
  BY IInvFacts DEF pacedVars
<1>2. ASSUME SniperInv', Messages', sending' \subseteq Message, \A p : UnderWay(p)' = UnderWay(p)
      PROVE  IInv'
  <2>1. PacedInv'
    BY <1>1, <1>2, PacedKept
  <2>2. SharedTypes'
    BY <1>2 DEF IInv, SharedTypes
  <2> QED  BY <1>2, <2>1, <2>2 DEF IInv
<1>3. CASE LeaveLoop(h, run)
  <2>1. Idle \in SniperRun /\ Idle.order = None /\ ~Idle.failed
    BY EmptySeq DEF Idle, SniperRun
  <2>2. /\ Messages' /\ sending' \subseteq Message /\ Children' = Children
        /\ \A p : UnderWay(p)' = UnderWay(p)
    BY <1>1, <1>3, NothingSent DEF LeaveLoop, Counted
  <2>3. /\ loop' = [loop EXCEPT ![h] = Idle] /\ UNCHANGED activeOrders
        /\ UNCHANGED <<routed, totalRemaining, filledQty, cooldownUntil, inFlightQty, sliceCount,
                       expiresAt, maxVenues, overlapped, unbooked, executed>>
    BY <1>3 DEF LeaveLoop
  <2>4. SniperInv'
    BY <1>1, <2>1, <2>2, <2>3, RestKeeps
  <2> QED  BY <1>2, <2>2, <2>4
<1>4. ASSUME NEW i \in DOMAIN run.todo, NEW rest, NEW o,
             rest = [run EXCEPT !.todo = SubSeq(@, i + 1, Len(@))], o = run.todo[i],
             Expire(h, rest, o) \/ StartRound(h, rest, o)
      PROVE  IInv'
  <2>1. run.todo \in Seq(Orders)
    BY DEF SniperRun
  <2>2. rest \in SniperRun /\ o \in Orders
    <3>1. SubSeq(run.todo, i + 1, Len(run.todo)) \in Seq(Orders)
      BY <2>1, SuffixTyped
    <3>2. PICK ahead \in Seq(Orders) : ahead = SubSeq(run.todo, i + 1, Len(run.todo))
      BY <3>1
    <3>3. rest = [run EXCEPT !.todo = ahead]
      BY <1>4, <3>2
    <3>4. o \in Orders
      BY <1>4, <2>1
    <3> QED  BY <3>3, <3>4 DEF SniperRun
  <2>3. CASE Expire(h, rest, o)
    <3>1. /\ Between(rest) \in SniperRun /\ Between(rest).order = None /\ ~Between(rest).failed
      BY <2>2, BetweenRests
    <3>2. /\ Delete(o) /\ Send(Report("orders.expired", o, h))
          /\ loop' = [loop EXCEPT ![h] = Between(rest)]
          /\ UNCHANGED <<inFlightQty, sliceCount, cooldownUntil, overlapped>>
      BY <2>3 DEF Expire
    <3>3. o \in AllOrders /\ \A p \in AllOrders : Counted(p)' = Counted(p)
      BY <1>1, <2>2, <3>2 DEF AllOrders, Counted
    <3>4. /\ Messages' /\ sending' \subseteq Message /\ Children' = Children
          /\ \A p : UnderWay(p)' = UnderWay(p)
      BY <1>1, <3>2, <3>3, ReportSent
    <3>5. SniperInv'
      <4>1. UNCHANGED activeOrders \/ \E p \in Orders : Delete(p)
        BY <2>2, <3>2
      <4>2. PICK new : new = Between(rest)
        OBVIOUS
      <4> QED  BY <1>1, <3>1, <3>2, <3>4, <4>1, <4>2, RestKeeps
    <3> QED  BY <1>2, <3>4, <3>5
  <2>4. CASE StartRound(h, rest, o)
    <3> DEFINE start == [Between(rest) EXCEPT !.now = rest.now, !.order = o,
                                  !.venues = maxVenues[o], !.available = Available(o),
                                  !.share = RouteQty(Available(o)) \div maxVenues[o]]
    <3>1. PICK new : new = start
      OBVIOUS
    <3>2. Ready(h, start, o)
      BY <1>1, <2>2, <2>4, StartReady DEF StartRound
    <3>3. Route(h, start, o)
      BY <2>4 DEF StartRound
    <3> HIDE DEF start
    <3>4. Ready(h, new, o) /\ Route(h, new, o)
      BY <3>1, <3>2, <3>3
    <3> QED  BY <2>2, <3>4, RouteKeeps
  <2> QED  BY <1>4, <2>3, <2>4
<1> QED  BY <1>3, <1>4 DEF RunLoop

LEMMA IdleTyped ==
  ASSUME TypeOK, NEW priced \in SUBSET Working, NEW triggered \in SUBSET priced
  PROVE  /\ [Idle EXCEPT !.now = clock, !.todo = activeOrders,
                         !.priced = priced, !.triggered = triggered] \in SniperRun
         /\ [Idle EXCEPT !.now = clock, !.todo = activeOrders, !.priced = priced] \in SniperRun
<1>1. clock \in Nat /\ activeOrders \in Seq(Orders) /\ priced \subseteq Orders /\ triggered \subseteq Orders
  <2>1. SharedTypes /\ SniperTypes
    BY TypesSplit
  <2>2. clock \in Nat /\ activeOrders \in Seq(Orders)
    BY <2>1, ClockAssumption DEF SharedTypes, SniperTypes
  <2>3. Working \subseteq Orders
    BY <2>2 DEF Working
  <2> QED  BY <2>2, <2>3
<1>2. PICK idle : idle = Idle
  OBVIOUS
<1>3. idle \in SniperRun
  BY <1>2, EmptySeq DEF Idle, SniperRun
<1>4. /\ [idle EXCEPT !.now = clock, !.todo = activeOrders,
                      !.priced = priced, !.triggered = triggered] \in SniperRun
      /\ [idle EXCEPT !.now = clock, !.todo = activeOrders, !.priced = priced] \in SniperRun
  BY <1>1, <1>3 DEF SniperRun
<1> QED  BY <1>2, <1>4

LEMMA TickKeeps ==
  ASSUME IInv, NEW h \in Callbacks, OnTick(h) \/ ExpirySweep(h) \/ Resume(h),
         UNCHANGED <<pacedVars, executed>>
  PROVE  IInv'
<1>1. TypeOK /\ SniperInv /\ Messages
  BY IInvFacts
<1>2. CASE OnTick(h)
  <2>1. PICK priced \in SUBSET Working :
          \E triggered \in SUBSET {o \in priced : sliceCount[o] < MaxChildren} :
          RunLoop(h, [Idle EXCEPT !.now = clock, !.todo = activeOrders,
                                  !.priced = priced, !.triggered = triggered])
    BY <1>2 DEF OnTick
  <2>2. PICK triggered \in SUBSET priced :
          RunLoop(h, [Idle EXCEPT !.now = clock, !.todo = activeOrders,
                                  !.priced = priced, !.triggered = triggered])
    BY <2>1
  <2>3. PICK run : run = [Idle EXCEPT !.now = clock, !.todo = activeOrders,
                                      !.priced = priced, !.triggered = triggered]
    OBVIOUS
  <2>4. run \in SniperRun /\ RunLoop(h, run)
    BY <1>1, <2>2, <2>3, IdleTyped
  <2>5. loop[h].order = None /\ Settled(h)
    <3>1. Free(h)
      BY <1>2 DEF OnTick
    <3> QED  BY <3>1 DEF Free, Idle
  <2>6. UNCHANGED <<routed, totalRemaining, filledQty, expiresAt, maxVenues, unbooked, clock, bus, executed, pacedVars>>
    BY <1>2 DEF OnTick
  <2> QED  BY <2>4, <2>5, <2>6, RunLoopKeeps
<1>3. CASE ExpirySweep(h)
  <2>1. PICK run : run = [Idle EXCEPT !.now = clock, !.todo = activeOrders, !.priced = Working]
    OBVIOUS
  <2>2. run \in SniperRun /\ RunLoop(h, run)
    BY <1>1, <1>3, <2>1, IdleTyped DEF ExpirySweep
  <2>3. loop[h].order = None /\ Settled(h)
    BY <1>3 DEF ExpirySweep, Free, Idle
  <2>4. UNCHANGED <<routed, totalRemaining, filledQty, expiresAt, maxVenues, unbooked, clock, bus, executed, pacedVars>>
    BY <1>3 DEF ExpirySweep
  <2> QED  BY <2>2, <2>3, <2>4, RunLoopKeeps
<1>4. CASE Resume(h)
  <2>0. UNCHANGED <<routed, totalRemaining, filledQty, expiresAt, maxVenues, unbooked, clock, bus, executed, pacedVars>>
        /\ Settled(h) /\ loop[h] \in SniperRun
    BY <1>1, <1>4 DEF Resume, SniperInv, SniperTypes
  <2>1. CASE loop[h].order # None
    <3> DEFINE next == IF loop[h].failed THEN loop[h]
                       ELSE [loop[h] EXCEPT !.dispatched = @ + loop[h].qty]
    <3>1. PICK o \in Orders : o = loop[h].order
      BY <2>0, <2>1 DEF SniperRun
    <3>2. Ready(h, next, o)
      BY <1>1, <2>0, <3>1, ResumeReady
    <3>3. Route(h, next, o)
      BY <1>4, <2>1, <3>1 DEF Resume
    <3>4. PICK run : run = next
      OBVIOUS
    <3> HIDE DEF next
    <3>5. Ready(h, run, o) /\ Route(h, run, o)
      BY <3>2, <3>3, <3>4
    <3> QED  BY <2>0, <3>5, RouteKeeps
  <2>2. CASE loop[h].order = None
    <3>1. PICK run \in SniperRun : run = loop[h]
      BY <2>0
    <3>2. RunLoop(h, run)
      BY <1>4, <2>2, <3>1 DEF Resume
    <3> QED  BY <2>0, <2>2, <3>2, RunLoopKeeps
  <2> QED  BY <2>1, <2>2
<1> QED  BY <1>2, <1>3, <1>4

LEMMA RoutedOrderKeeps ==
  ASSUME IInv, NEW o \in Orders, RoutedOrder(o), UNCHANGED <<pacedVars, executed>>
  PROVE  IInv'
<1>1. TypeOK /\ Messages /\ SniperInv /\ PacedInv /\ SharedTypes
  BY IInvFacts DEF IInv
<1>2. /\ o \notin routed /\ routed' = routed \cup {o}
      /\ activeOrders' = Append(activeOrders, o)
      /\ totalRemaining' = [totalRemaining EXCEPT ![o] = Qty[o]]
      /\ expiresAt' = [expiresAt EXCEPT ![o] = clock + Lifetime]
      /\ UNCHANGED <<clock, inFlightQty, filledQty, sliceCount, cooldownUntil, loop,
                     overlapped, unbooked, sending, bus, pacedVars, executed>>
  BY DEF RoutedOrder
<1>3. maxVenues' \in [Orders -> 1..3]
  BY <1>1, OrdersAssumption DEF RoutedOrder, SniperInv, SniperTypes
<1>4. /\ Messages' /\ sending' \subseteq Message /\ bus' \subseteq Message
      /\ Children' = Children /\ \A p : UnderWay(p)' = UnderWay(p)
  <2>1. \A p \in AllOrders : Counted(p)' = Counted(p)
    BY <1>2 DEF Counted, pacedVars
  <2> QED  BY <1>1, <1>2, <2>1, NothingSent
<1>5. \A p \in Orders : /\ Awaited(p, "orders.filled")' = Awaited(p, "orders.filled")
                        /\ Way(p)' = Way(p)
  BY <1>4 DEF Awaited, Way
<1>6. /\ o \notin Working /\ activeOrders \in Seq(Orders) /\ Distinct(activeOrders)
      /\ totalRemaining[o] = 0 /\ inFlightQty[o] = 0 /\ filledQty[o] = 0
      /\ executed[o] = 0 /\ UnderWay(o) = {} /\ \A k \in Callbacks : loop[k].order # o
  BY <1>1, <1>2 DEF SniperInv, SniperTypes, Routing, NothingOf
<1>7. /\ activeOrders' \in Seq(Orders) /\ Distinct(activeOrders') /\ Working' = Working \cup {o}
  <2>1. /\ activeOrders' \in Seq(Orders) /\ Len(activeOrders') = Len(activeOrders) + 1
        /\ \A i \in 1 .. Len(activeOrders) : activeOrders'[i] = activeOrders[i]
        /\ activeOrders'[Len(activeOrders) + 1] = o
    BY <1>2, <1>6, AppendProperties
  <2>2. /\ DOMAIN activeOrders = 1 .. Len(activeOrders) /\ Len(activeOrders) \in Nat
        /\ DOMAIN activeOrders' = 1 .. Len(activeOrders) + 1
    BY <1>6, <2>1
  <2>3. \A i \in DOMAIN activeOrders : activeOrders[i] # o
    BY <1>6 DEF Working
  <2>4. Distinct(activeOrders')
    BY <1>6, <2>1, <2>2, <2>3 DEF Distinct
  <2>5. Working' = Working \cup {o}
    BY <2>1, <2>2 DEF Working
  <2> QED  BY <2>1, <2>4, <2>5
<1>8. SniperTypes'
  <2>1. Qty[o] \in Nat /\ clock + Lifetime \in Nat
    BY <1>1, OrdersAssumption, ClockAssumption DEF SharedTypes
  <2> QED  BY <1>1, <1>2, <1>3, <1>7, <2>1 DEF SniperInv, SniperTypes
<1>9. Routing'
  <2>1. \A p \in Orders \ routed' :
          /\ p \notin routed /\ p # o /\ totalRemaining'[p] = totalRemaining[p]
          /\ (NothingOf(p) => NothingOf(p)')
    BY <1>1, <1>2, <1>4 DEF SniperInv, SniperTypes, NothingOf
  <2> QED  BY <1>1, <1>2, <1>7, <2>1 DEF SniperInv, Routing
<1>10. Pending' /\ Alone'
  BY <1>1, <1>2, <1>4 DEF SniperInv, Pending, Alone
<1>11. Covered'
  <2>1. RunQty' = RunQty /\ \A p \in Orders : FailedRuns(p)' = FailedRuns(p)
    BY <1>2 DEF RunQty, FailedRuns
  <2> QED  BY <1>1, <1>2, <1>5, <2>1 DEF SniperInv, Covered
<1>12. /\ totalRemaining'[o] = Qty[o] /\ Qty[o] \in Nat
       /\ \A p \in Working : p # o /\ totalRemaining'[p] = totalRemaining[p]
  <2>1. totalRemaining \in [Orders -> Nat] /\ activeOrders \in Seq(Orders)
    BY <1>1 DEF SniperInv, SniperTypes
  <2>2. Working \subseteq Orders
    BY <2>1 DEF Working
  <2> QED  BY <1>2, <1>6, <2>1, <2>2, OrdersAssumption
<1>13. Committed'
  <2>1. Within(o)'
    <3>1. Way(o)' = 0
      BY <1>5, <1>6, QuantityIsTotal, TotalEmpty DEF Way
    <3>2. unbooked[o] \in Nat /\ totalRemaining'[o] \in Nat
      BY <1>1, <1>12 DEF SniperInv, SniperTypes
    <3> QED  BY <1>2, <1>6, <1>12, <3>1, <3>2 DEF Within, Most
  <2>2. ASSUME NEW p \in Working, Within(p) PROVE Within(p)'
    <3>1. p \in Orders
      BY <1>1 DEF SniperInv, SniperTypes, Working
    <3> QED  BY <1>2, <1>5, <1>12, <2>2, <3>1, WithinKept
  <2> QED  BY <1>1, <1>2, <1>7, <2>1, <2>2 DEF SniperInv, Committed
<1>14. SniperBooks'
  <2>1. Awaited(o, "orders.filled") = 0
    <3>1. {m \in UnderWay(o) : m.topic = "orders.filled"} = {}
      BY <1>6
    <3> QED  BY <3>1, QuantityIsTotal, TotalEmpty DEF Awaited
  <2>2. Working \subseteq Orders
    BY <1>1 DEF SniperInv, SniperTypes, Working
  <2>3. \A p \in Working' : filledQty[p] + Awaited(p, "orders.filled")' = executed[p]
    BY <1>1, <1>5, <1>6, <1>7, <2>1, <2>2 DEF SniperInv, SniperBooks
  <2> QED  BY <1>2, <2>3 DEF SniperBooks
<1>15. PacedInv'
  BY <1>1, <1>2, <1>4, PacedKept
<1>16. SharedTypes'
  BY <1>1, <1>2 DEF SharedTypes
<1> QED  BY <1>4, <1>8, <1>9, <1>10, <1>11, <1>13, <1>14, <1>15, <1>16 DEF IInv, SniperInv

(* A fill gives back what was reserved for it, if that was not given back  *)
(* before.                                                                 *)
LEMMA FillEventKeeps ==
  ASSUME IInv, NEW m, FillEvent(m), UNCHANGED <<pacedVars, executed>>
  PROVE  IInv'
<1> DEFINE o == m.order
           q == m.qty
<1>1. TypeOK /\ Messages /\ SniperInv /\ PacedInv /\ SharedTypes
  BY IInvFacts DEF IInv
<1>2. /\ m \in bus /\ m.topic = "orders.filled" /\ o \in Orders /\ bus' = bus \ {m}
      /\ UNCHANGED <<clock, routed, sliceCount, cooldownUntil, expiresAt, maxVenues, loop,
                     overlapped, unbooked, sending, pacedVars, executed>>
  BY DEF FillEvent
<1>3. /\ Messages' /\ sending' \subseteq Message /\ bus' \subseteq Message
      /\ Children' = Children \ {m} /\ \A p : UnderWay(p)' = UnderWay(p) \ {m}
      /\ m \in UnderWay(o) /\ q \in Nat
      /\ Awaited(o, "orders.filled") = Awaited(o, "orders.filled")' + q
      /\ Way(o) = Way(o)' + q
  <2>1. Gone(m)
    BY <1>2 DEF Gone
  <2>2. \A p \in AllOrders : Counted(p)' = Counted(p)
    BY <1>2 DEF Counted, pacedVars
  <2> QED  BY <1>1, <1>2, <2>1, <2>2, MessageGone
<1>4. \A p : p # o => /\ UnderWay(p)' = UnderWay(p)
                      /\ Awaited(p, "orders.filled")' = Awaited(p, "orders.filled")
                      /\ Way(p)' = Way(p)
  <2>1. \A p : p # o => UnderWay(p)' = UnderWay(p)
    BY <1>3 DEF UnderWay
  <2> QED  BY <2>1 DEF Awaited, Way
<1>5. /\ Way(o)' \in Nat /\ Awaited(o, "orders.filled")' \in Nat
  BY <1>3, WayIsAmountsNext
<1>6. RunQty' = RunQty /\ \A p : FailedRuns(p)' = FailedRuns(p)
  BY <1>2 DEF RunQty, FailedRuns
<1>7. /\ IsFiniteSet(FailedRuns(o)) /\ SumFunctionOnSet(RunQty, FailedRuns(o)) \in Nat
      /\ Way(o)' + q + SumFunctionOnSet(RunQty, FailedRuns(o)) <= inFlightQty[o] + unbooked[o]
      /\ inFlightQty[o] \in Nat /\ unbooked[o] \in Nat
  <2>1. \A k \in FailedRuns(o) : RunQty[k] \in Nat
    <3>1. \A k \in Callbacks : RunQty[k] \in Nat
      BY <1>1 DEF SniperInv, SniperTypes, RunQty, SniperRun
    <3> QED  BY <3>1 DEF FailedRuns
  <2>2. /\ IsFiniteSet(FailedRuns(o)) /\ inFlightQty[o] \in Nat /\ unbooked[o] \in Nat
        /\ Way(o) + SumFunctionOnSet(RunQty, FailedRuns(o)) <= inFlightQty[o] + unbooked[o]
    BY <1>1, <1>2 DEF SniperInv, Covered, SniperTypes
  <2>3. SumFunctionOnSet(RunQty, FailedRuns(o)) \in Nat
    BY <2>1, <2>2, SumNat
  <2> QED  BY <1>3, <1>5, <2>2, <2>3
<1>8. o \in routed
  BY <1>1, <1>2, <1>3 DEF SniperInv, Routing, NothingOf
<1>9. PacedInv'
  <2>1. \A p \in PacedOrders : p # o
    BY <1>2, OneStrategy
  <2> QED  BY <1>1, <1>2, <1>4, <2>1, PacedKept
<1>10. SharedTypes'
  BY <1>1, <1>2, <1>3 DEF SharedTypes
<1>11. Pending' /\ Alone'
  BY <1>1, <1>2, <1>3 DEF SniperInv, Pending, Alone
<1>12. \A p \in Orders \ routed : NothingOf(p) => NothingOf(p)'
  BY <1>2, <1>3 DEF NothingOf
<1> HIDE DEF o, q
<1>13. CASE o \in Working
  <2>1. /\ inFlightQty' = [inFlightQty EXCEPT ![o] = Less(@, q)]
        /\ filledQty' = [filledQty EXCEPT ![o] = @ + q]
        /\ totalRemaining' = [totalRemaining EXCEPT ![o] = Less(@, q)]
        /\ IF totalRemaining[o] <= q THEN Delete(o) ELSE UNCHANGED activeOrders
    BY <1>13 DEF FillEvent, BookFill, o, q
  <2>2. /\ totalRemaining \in [Orders -> Nat] /\ inFlightQty \in [Orders -> Nat]
        /\ filledQty \in [Orders -> Nat] /\ Working \subseteq routed /\ Working \subseteq Orders
        /\ activeOrders \in Seq(Orders) /\ Distinct(activeOrders)
    BY <1>1 DEF SniperInv, SniperTypes, Routing, Working
  <2>3. /\ inFlightQty'[o] = Less(inFlightQty[o], q) /\ filledQty'[o] = filledQty[o] + q
        /\ totalRemaining'[o] = Less(totalRemaining[o], q)
        /\ \A p \in Orders : p # o => /\ inFlightQty'[p] = inFlightQty[p]
                                      /\ filledQty'[p] = filledQty[p]
                                      /\ totalRemaining'[p] = totalRemaining[p]
    BY <1>2, <1>7, <2>1, <2>2
  <2>4. /\ activeOrders' \in Seq(Orders) /\ Distinct(activeOrders') /\ Working' \subseteq Working
        /\ o \in Working' => ~(totalRemaining[o] <= q)
    <3>1. CASE totalRemaining[o] <= q
      <4>1. Delete(o)
        BY <2>1, <3>1
      <4> QED  BY <1>1, <2>2, <4>1, DeletedOrder DEF SniperInv
    <3>2. CASE ~(totalRemaining[o] <= q)
      <4>1. UNCHANGED activeOrders
        BY <2>1, <3>2
      <4> QED  BY <2>2, <3>2, <4>1 DEF Working
    <3> QED  BY <3>1, <3>2
  <2>5. SniperTypes'
    <3>1. \A p \in Orders : inFlightQty'[p] \in Nat /\ filledQty'[p] \in Nat /\ totalRemaining'[p] \in Nat
      <4>1. inFlightQty'[o] \in Nat /\ filledQty'[o] \in Nat /\ totalRemaining'[o] \in Nat
        <5>1. q \in Nat /\ totalRemaining[o] \in Nat /\ filledQty[o] \in Nat
          BY <1>2, <1>3, <2>2 DEF o, q
        <5> QED  BY <1>7, <2>3, <5>1 DEF Less
      <4> QED  BY <2>2, <2>3, <4>1
    <3>2. /\ inFlightQty' \in [Orders -> Nat] /\ filledQty' \in [Orders -> Nat]
          /\ totalRemaining' \in [Orders -> Nat]
      BY <2>1, <2>2, <3>1
    <3> QED  BY <1>1, <1>2, <2>4, <3>2 DEF SniperInv, SniperTypes
  <2>6. Routing'
    <3>1. \A p \in Orders \ routed : p # o
      BY <1>8
    <3> QED  BY <1>1, <1>2, <1>12, <2>2, <2>3, <2>4, <3>1 DEF SniperInv, Routing
  <2>7. Covered'
    <3>1. q \in Nat /\ Way(o)' \in Nat
      BY <1>3, <1>5 DEF o, q
    <3>2. Way(o)' + SumFunctionOnSet(RunQty, FailedRuns(o)) <= inFlightQty'[o] + unbooked[o]
      BY <1>7, <2>3, <3>1 DEF Less
    <3> QED  BY <1>1, <1>2, <1>4, <1>6, <1>7, <2>3, <3>2 DEF SniperInv, Covered
  <2>8. Committed'
    <3> SUFFICES ASSUME NEW p \in Working', p \notin overlapped
                 PROVE  Within(p)'
      BY <1>2 DEF Committed
    <3>1. Within(p)
      BY <1>1, <2>4 DEF SniperInv, Committed
    <3>2. CASE p # o
      <4>1. p \in Orders /\ \A k \in Callbacks : loop'[k] = loop[k]
        BY <1>2, <2>2, <2>4
      <4> QED  BY <1>2, <1>4, <2>3, <3>1, <3>2, <4>1, WithinKept
    <3>3. CASE p = o
      <4>1. /\ totalRemaining'[o] = totalRemaining[o] - q
            /\ totalRemaining[o] \in Nat /\ inFlightQty[o] \in Nat /\ filledQty[o] \in Nat /\ q \in Nat
            /\ totalRemaining'[o] \in Nat /\ unbooked[o] \in Nat
            /\ inFlightQty'[o] = Less(inFlightQty[o], q) /\ filledQty'[o] = filledQty[o] + q
        BY <1>2, <1>3, <1>7, <2>2, <2>3, <2>4, <3>3 DEF Less, o, q
      <4>2. /\ Way(o) = Way(o)' + q /\ Way(o)' \in Nat
            /\ Most(o)' = totalRemaining'[o] + unbooked[o] /\ Most(o) = Most(o)' + q
        BY <1>2, <1>3, <1>5, <4>1 DEF Most, o, q
      <4>3. Most(o)' \in Nat
        BY <4>1, <4>2
      <4>4. /\ filledQty'[o] + totalRemaining'[o] = Qty[o]
            /\ inFlightQty'[o] <= Most(o)' /\ Way(o)' <= Most(o)'
        BY <3>1, <3>3, <4>1, <4>2, <4>3 DEF Less, Within
      <4>5. ASSUME NEW k \in Callbacks, loop[k].order = o
            PROVE  Round(loop[k], o)'
        <5>1. /\ loop[k].dispatched \in Nat /\ loop[k].qty \in Nat /\ loop[k].available \in Nat
              /\ loop'[k] = loop[k] /\ Spent(loop[k]) \in Nat
          BY <1>1, <1>2 DEF SniperInv, SniperTypes, SniperRun, Spent
        <5>2. Round(loop[k], o) /\ Spent(loop[k])' = Spent(loop[k])
          BY <1>2, <3>1, <3>3, <4>5 DEF Within, Spent
        <5>3. Way(o)' + loop[k].available <= Most(o)' + Spent(loop[k])
          <6>1. Way(o) + loop[k].available <= Most(o) + Spent(loop[k])
            BY <5>2 DEF Round
          <6>2. q \in Nat /\ Way(o) = Way(o)' + q /\ Most(o) = Most(o)' + q
            BY <4>1, <4>2
          <6> QED  BY <4>2, <4>3, <5>1, <6>1, <6>2
        <5>4. Held(loop[k], o)' + loop[k].available <= Most(o)' + Spent(loop[k])
          <6>1. Held(loop[k], o)' = IF loop[k].failed THEN Less(inFlightQty'[o], loop[k].qty)
                                                      ELSE inFlightQty'[o]
            BY <5>1 DEF Held
          <6>2. Held(loop[k], o) = IF loop[k].failed THEN Less(inFlightQty[o], loop[k].qty)
                                                     ELSE inFlightQty[o]
            BY DEF Held
          <6>3. \/ Held(loop[k], o)' = 0
                \/ Held(loop[k], o)' + q = Held(loop[k], o) /\ Held(loop[k], o)' \in Nat
            BY <4>1, <5>1, <6>1, <6>2 DEF Less
          <6> QED  BY <4>1, <4>2, <4>3, <5>1, <5>2, <5>3, <6>3 DEF Round
        <5> QED  BY <5>1, <5>2, <5>3, <5>4 DEF Round
      <4> QED  BY <1>2, <3>3, <4>4, <4>5 DEF Within
    <3> QED  BY <3>2, <3>3
  <2>9. SniperBooks'
    <3>1. filledQty'[o] + Awaited(o, "orders.filled")' = executed[o]
      <4>1. filledQty[o] + Awaited(o, "orders.filled") = executed[o]
        BY <1>1, <1>13 DEF SniperInv, SniperBooks
      <4>2. filledQty[o] \in Nat /\ q \in Nat
        BY <1>2, <1>3, <2>2 DEF o, q
      <4> QED  BY <1>3, <1>5, <2>3, <4>1, <4>2 DEF o, q
    <3>2. ASSUME NEW p \in Working', p # o
          PROVE  filledQty'[p] + Awaited(p, "orders.filled")' = executed[p]
      <4>1. filledQty[p] + Awaited(p, "orders.filled") = executed[p]
        BY <1>1, <2>4 DEF SniperInv, SniperBooks
      <4>2. filledQty'[p] = filledQty[p]
        BY <2>2, <2>3, <2>4, <3>2
      <4> QED  BY <1>4, <3>2, <4>1, <4>2
    <3> QED  BY <1>2, <3>1, <3>2 DEF SniperBooks
  <2> QED  BY <1>3, <1>9, <1>10, <1>11, <2>5, <2>6, <2>7, <2>8, <2>9 DEF IInv, SniperInv
<1>14. CASE o \notin Working
  <2>1. UNCHANGED <<activeOrders, inFlightQty, filledQty, totalRemaining>>
    BY <1>14 DEF FillEvent, o
  <2>2. Working' = Working /\ Working \subseteq Orders
    BY <1>1, <2>1 DEF Working, SniperInv, SniperTypes
  <2>3. SniperTypes'
    BY <1>1, <1>2, <2>1 DEF SniperInv, SniperTypes
  <2>4. Routing'
    BY <1>1, <1>2, <1>12, <2>1, <2>2 DEF SniperInv, Routing
  <2>5. Covered'
    <3>1. q \in Nat /\ Way(o)' \in Nat
      BY <1>3, <1>5 DEF o, q
    <3>2. Way(o)' + SumFunctionOnSet(RunQty, FailedRuns(o)) <= inFlightQty[o] + unbooked[o]
      BY <1>7, <3>1
    <3> QED  BY <1>1, <1>2, <1>4, <1>6, <1>7, <2>1, <3>2 DEF SniperInv, Covered
  <2>6. Committed'
    <3>1. ASSUME NEW p \in Working, Within(p) PROVE Within(p)'
      BY <1>2, <1>4, <1>14, <2>1, <3>1, WithinKept
    <3> QED  BY <1>1, <1>2, <2>2, <3>1 DEF SniperInv, Committed
  <2>7. SniperBooks'
    BY <1>1, <1>2, <1>4, <1>14, <2>1, <2>2 DEF SniperInv, SniperBooks
  <2> QED  BY <1>3, <1>9, <1>10, <1>11, <2>3, <2>4, <2>5, <2>6, <2>7 DEF IInv, SniperInv
<1> QED  BY <1>13, <1>14

(* The catch of a child that is gone, or that the broker has all the same. *)
LEMMA RejectedKeeps ==
  ASSUME IInv, NEW m \in sending, m.by \in Callbacks, m.topic = "orders.child", Rejected(m),
         UNCHANGED <<clock, routed, activeOrders, totalRemaining, filledQty, cooldownUntil,
                     inFlightQty, sliceCount, expiresAt, maxVenues, overlapped, pacedVars, executed>>
  PROVE  IInv'
<1> DEFINE o == m.order
           h == m.by
<1>1. TypeOK /\ Messages /\ SniperInv /\ PacedInv /\ SharedTypes
  BY IInvFacts DEF IInv
<1>2. \A p \in AllOrders : Counted(p)' = Counted(p)
  BY DEF Counted, pacedVars
<1>3. /\ m \in Children /\ m \in Carrying /\ o \in Orders /\ h \in Callbacks
      /\ loop[h].order = o /\ loop[h].qty = m.qty /\ ~loop[h].failed
  <2>1. m \in Children /\ m \in Carrying
    BY DEF Children, Carrying
  <2> QED  BY <1>1, <2>1 DEF Messages, SniperInv, Pending
<1>4. m.qty \in Nat /\ unbooked[o] \in Nat /\ unbooked \in [Orders -> Nat]
  BY <1>1, <1>3 DEF SharedTypes, Message, SniperInv, SniperTypes
<1>5. /\ Messages' /\ sending' \subseteq Message /\ bus' \subseteq Message
      /\ Children' = Children \ {m}
      /\ \A p : UnderWay(p)' \subseteq UnderWay(p)
      /\ \A p : p # o => UnderWay(p)' = UnderWay(p) /\ unbooked'[p] = unbooked[p]
      /\ Awaited(o, "orders.filled")' = Awaited(o, "orders.filled")
      /\ unbooked' \in [Orders -> Nat]
      /\ Way(o)' \in Nat /\ Way(o) \in Nat
      /\ \/ Way(o) = Way(o)' + m.qty /\ unbooked'[o] = unbooked[o]
         \/ Way(o)' = Way(o) /\ unbooked'[o] = unbooked[o] + m.qty
  <2>1. CASE Lost(m) /\ UNCHANGED unbooked
    <3>1. Gone(m)
      BY <2>1 DEF Gone, Lost
    <3>2. /\ Messages' /\ sending' \subseteq Message /\ bus' \subseteq Message
          /\ Children' = Children \ {m}
          /\ \A p : UnderWay(p)' = UnderWay(p) \ {m}
          /\ \A t \in {"orders.child", "orders.filled"} :
               Awaited(o, t) = Awaited(o, t)' + (IF m.topic = t THEN m.qty ELSE 0)
          /\ Way(o) = Way(o)' + m.qty
      BY <1>1, <1>2, <3>1, MessageGone
    <3>3. /\ Awaited(o, "orders.filled")' \in Nat /\ Way(o)' \in Nat
      BY <3>2, WayIsAmountsNext
    <3>4. /\ Awaited(o, "orders.filled")' = Awaited(o, "orders.filled") /\ Way(o) \in Nat
      <4>1. Awaited(o, "orders.filled") = Awaited(o, "orders.filled")' + 0
        BY <3>2
      <4> QED  BY <1>4, <3>2, <3>3, <4>1
    <3>5. \A p : p # o => UnderWay(p)' = UnderWay(p)
      BY <3>2 DEF UnderWay
    <3> QED  BY <1>4, <2>1, <3>2, <3>3, <3>4, <3>5
  <2>2. CASE Written(m) /\ unbooked' = [unbooked EXCEPT ![o] = @ + m.qty]
    <3>1. /\ Messages' /\ sending' \subseteq Message /\ bus' \subseteq Message
          /\ Children' = Children \ {m} /\ \A p : UnderWay(p)' = UnderWay(p)
      BY <1>1, <1>2, <2>2, ChildWritten
    <3>2. Awaited(o, "orders.filled")' = Awaited(o, "orders.filled") /\ Way(o)' = Way(o)
      BY <3>1 DEF Awaited, Way
    <3>3. Way(o) \in Nat
      BY <1>1, WayIsAmounts
    <3>4. /\ unbooked' \in [Orders -> Nat] /\ unbooked'[o] = unbooked[o] + m.qty
      BY <1>3, <1>4, <2>2
    <3>5. \A p : p # o => unbooked'[p] = unbooked[p]
      BY <1>3, <1>4, <2>2
    <3> QED  BY <3>1, <3>2, <3>3, <3>4, <3>5
  <2> QED  BY <2>1, <2>2 DEF Rejected
<1>6. \A p : p # o => /\ Awaited(p, "orders.filled")' = Awaited(p, "orders.filled")
                      /\ Way(p)' = Way(p)
  BY <1>5 DEF Awaited, Way
<1> HIDE DEF o, h
<1>7. /\ loop' \in [Callbacks -> SniperRun]
      /\ \A k \in Callbacks : /\ loop'[k].order = loop[k].order
                              /\ loop'[k].qty = loop[k].qty
                              /\ loop'[k].dispatched = loop[k].dispatched
                              /\ loop'[k].available = loop[k].available
                              /\ k # h => loop'[k] = loop[k]
      /\ \A k \in Callbacks : loop'[k].failed = IF k = h THEN TRUE ELSE loop[k].failed
  <2>1. loop \in [Callbacks -> SniperRun] /\ h \in Callbacks /\ loop' = [loop EXCEPT ![h].failed = TRUE]
    BY <1>1, <1>3 DEF SniperInv, SniperTypes, Rejected, h
  <2>2. /\ loop' \in [Callbacks -> SniperRun]
        /\ \A k \in Callbacks : /\ loop'[k].order = loop[k].order
                                /\ loop'[k].qty = loop[k].qty
                                /\ loop'[k].dispatched = loop[k].dispatched
                                /\ loop'[k].available = loop[k].available
        /\ \A k \in Callbacks : loop'[k].failed = IF k = h THEN TRUE ELSE loop[k].failed
    <3>1. PICK run \in SniperRun : run = loop[h]
      BY <2>1
    <3>2. PICK new : new = [run EXCEPT !.failed = TRUE]
      OBVIOUS
    <3>3. /\ new \in SniperRun /\ new.order = run.order /\ new.qty = run.qty /\ new.failed
          /\ new.dispatched = run.dispatched /\ new.available = run.available
      BY <3>2 DEF SniperRun
    <3>4. loop' = [loop EXCEPT ![h] = new]
      BY <2>1, <3>1, <3>2
    <3> QED  BY <2>1, <3>1, <3>3, <3>4
  <2>3. \A k \in Callbacks : k # h => loop'[k] = loop[k]
    BY <2>1
  <2> QED  BY <2>2, <2>3
<1>8. RunQty' = RunQty
  BY <1>7 DEF RunQty
<1>9. /\ FailedRuns(o)' = FailedRuns(o) \cup {h} /\ h \notin FailedRuns(o)
      /\ \A p : p # o => FailedRuns(p)' = FailedRuns(p)
  <2>1. h \notin FailedRuns(o)
    BY <1>3 DEF FailedRuns
  <2>2. FailedRuns(o)' = FailedRuns(o) \cup {h}
    BY <1>3, <1>7 DEF FailedRuns
  <2>3. ASSUME NEW p, p # o PROVE FailedRuns(p)' = FailedRuns(p)
    BY <1>3, <1>7, <2>3 DEF FailedRuns
  <2> QED  BY <2>1, <2>2, <2>3
<1>10. SniperTypes'
  BY <1>1, <1>5, <1>7 DEF SniperInv, SniperTypes
<1>11. Working' = Working /\ Working \subseteq Orders
  BY <1>1 DEF Working, SniperInv, SniperTypes
<1>12. Routing'
  <2>1. \A p : NothingOf(p) => NothingOf(p)'
    BY <1>5 DEF NothingOf
  <2> QED  BY <1>1, <1>7, <1>11, <2>1 DEF SniperInv, Routing
<1>13. Pending'
  <2>1. \A k \in Children' : k \in Children /\ k.by # h
    BY <1>1, <1>3, <1>5 DEF Messages, Children, h
  <2> QED  BY <1>1, <1>7, <2>1 DEF SniperInv, Pending
<1>14. Covered'
  <2>1. /\ IsFiniteSet(FailedRuns(o)) /\ inFlightQty[o] \in Nat
        /\ Way(o) + SumFunctionOnSet(RunQty, FailedRuns(o)) <= inFlightQty[o] + unbooked[o]
        /\ \A k \in FailedRuns(o) \cup {h} : RunQty[k] \in Nat
    <3>1. \A k \in Callbacks : RunQty[k] \in Nat
      BY <1>1 DEF SniperInv, SniperTypes, RunQty, SniperRun
    <3>2. FailedRuns(o) \cup {h} \subseteq Callbacks
      BY <1>3 DEF FailedRuns
    <3> QED  BY <1>1, <1>3, <3>1, <3>2 DEF SniperInv, SniperTypes, Covered
  <2>2. /\ SumFunctionOnSet(RunQty, FailedRuns(o)) \in Nat
        /\ SumFunctionOnSet(RunQty, FailedRuns(o) \cup {h})
             = RunQty[h] + SumFunctionOnSet(RunQty, FailedRuns(o))
        /\ IsFiniteSet(FailedRuns(o) \cup {h})
    BY <1>9, <2>1, SumNat, SumAdd, FS_AddElement
  <2>3. RunQty[h] = m.qty
    BY <1>3 DEF RunQty
  <2>4. Way(o)' + (m.qty + SumFunctionOnSet(RunQty, FailedRuns(o))) <= inFlightQty[o] + unbooked'[o]
    BY <1>4, <1>5, <2>1, <2>2
  <2>5. /\ IsFiniteSet(FailedRuns(o)')
        /\ Way(o)' + SumFunctionOnSet(RunQty', FailedRuns(o)') <= inFlightQty'[o] + unbooked'[o]
    BY <1>8, <1>9, <2>2, <2>3, <2>4
  <2> QED  BY <1>1, <1>5, <1>6, <1>8, <1>9, <2>5 DEF SniperInv, Covered
<1>15. Alone'
  BY <1>1, <1>7 DEF SniperInv, Alone
<1>16. Committed'
  <2> SUFFICES ASSUME NEW p \in Working, Within(p)
               PROVE  Within(p)'
    BY <1>1, <1>11 DEF SniperInv, Committed
  <2>1. CASE p # o
    <3>1. \A k \in Callbacks : loop'[k].order = p => loop'[k] = loop[k]
      BY <1>3, <1>7, <2>1
    <3> QED  BY <1>5, <1>6, <2>1, <3>1, WithinKept
  <2>2. CASE p = o
    <3>1. /\ Most(o) \in Nat /\ Most(o)' \in Nat /\ Most(o) <= Most(o)' /\ inFlightQty[o] \in Nat
          /\ \/ Way(o) = Way(o)' + m.qty /\ Most(o)' = Most(o)
             \/ Way(o)' = Way(o) /\ Most(o)' = Most(o) + m.qty
      <4>1. /\ inFlightQty[o] \in Nat /\ totalRemaining[o] \in Nat /\ totalRemaining' = totalRemaining
            /\ unbooked[o] \in Nat /\ m.qty \in Nat
        BY <1>1, <1>3, <1>4 DEF SniperInv, SniperTypes
      <4>2. /\ Most(o) = totalRemaining[o] + unbooked[o] /\ Most(o)' = totalRemaining[o] + unbooked'[o]
        BY <4>1 DEF Most
      <4>3. \/ Way(o) = Way(o)' + m.qty /\ unbooked'[o] = unbooked[o]
            \/ Way(o)' = Way(o) /\ unbooked'[o] = unbooked[o] + m.qty
        BY <1>5
      <4> QED  BY <4>1, <4>2, <4>3
    <3>2. /\ filledQty'[o] + totalRemaining'[o] = Qty[o]
          /\ inFlightQty'[o] <= Most(o)' /\ Way(o)' <= Most(o)'
      BY <1>4, <1>5, <2>2, <3>1 DEF Within
    <3>3. ASSUME NEW k \in Callbacks, loop[k].order = o
          PROVE  Round(loop[k], o)'
      <4>1. /\ Round(loop[k], o) /\ loop[k].dispatched \in Nat /\ loop[k].qty \in Nat
            /\ loop[k].available \in Nat
        BY <1>1, <2>2, <3>3 DEF Within, SniperInv, SniperTypes, SniperRun
      <4>2. CASE k # h
        <5>1. /\ loop'[k] = loop[k] /\ Spent(loop[k])' = Spent(loop[k])
              /\ Held(loop[k], o)' = Held(loop[k], o) /\ Held(loop[k], o) \in Nat
              /\ Spent(loop[k]) \in Nat
          BY <1>7, <3>1, <4>1, <4>2 DEF Spent, Held, Less
        <5>2. /\ Way(o)' + loop[k].available <= Most(o)' + Spent(loop[k])
              /\ Held(loop[k], o) + loop[k].available <= Most(o)' + Spent(loop[k])
          BY <1>4, <1>5, <3>1, <4>1, <5>1 DEF Round
        <5> QED  BY <4>1, <5>1, <5>2 DEF Round
      <4>3. CASE k = h
        <5>1. /\ Spent(loop[k]) = loop[k].dispatched + m.qty /\ Held(loop[k], o) = inFlightQty[o]
          BY <1>3, <4>3 DEF Spent, Held
        <5>2. /\ Spent(loop[k])' = loop[k].dispatched
              /\ Held(loop[k], o)' = Less(inFlightQty[o], m.qty)
          <6>1. /\ loop'[h].failed /\ loop'[h].qty = m.qty /\ loop'[h].dispatched = loop[h].dispatched
                /\ inFlightQty' = inFlightQty
            BY <1>3, <1>7
          <6>2. Spent(loop[h])' = loop'[h].dispatched + 0
            BY <6>1 DEF Spent
          <6>3. Held(loop[h], o)' = Less(inFlightQty[o], m.qty)
            BY <6>1 DEF Held
          <6> QED  BY <4>1, <4>3, <6>1, <6>2, <6>3
        <5>3. /\ Way(o) + loop[k].available <= Most(o) + (loop[k].dispatched + m.qty)
              /\ inFlightQty[o] + loop[k].available <= Most(o) + (loop[k].dispatched + m.qty)
          BY <4>1, <5>1 DEF Round
        <5>4. Way(o)' + loop[k].available <= Most(o)' + loop[k].dispatched
          BY <1>4, <1>5, <3>1, <4>1, <5>3
        <5>5. Less(inFlightQty[o], m.qty) + loop[k].available <= Most(o)' + loop[k].dispatched
          BY <1>4, <1>5, <3>1, <4>1, <5>3, <5>4 DEF Less
        <5> QED  BY <1>7, <4>1, <5>2, <5>4, <5>5 DEF Round
      <4> QED  BY <4>2, <4>3
    <3> QED  BY <1>7, <2>2, <3>2, <3>3 DEF Within
  <2> QED  BY <2>1, <2>2
<1>17. SniperBooks'
  BY <1>1, <1>5, <1>6, <1>11 DEF SniperInv, SniperBooks, o
<1>18. SniperInv'
  BY <1>10, <1>12, <1>13, <1>14, <1>15, <1>16, <1>17 DEF SniperInv
<1>19. PacedInv'
  <2>1. \A p \in PacedOrders : p # o
    BY <1>3, OneStrategy
  <2> QED  BY <1>1, <1>5, <2>1, PacedKept
<1> QED  BY <1>1, <1>5, <1>18, <1>19 DEF IInv, SharedTypes

LEMMA SettleKeeps ==
  ASSUME IInv, Settle, UNCHANGED <<pacedVars, executed>>
  PROVE  IInv'
<1>1. TypeOK /\ Messages /\ SniperInv /\ PacedInv /\ SharedTypes
  BY IInvFacts DEF IInv
<1>2. UNCHANGED <<clock, routed, activeOrders, totalRemaining, filledQty, cooldownUntil, inFlightQty,
                  sliceCount, expiresAt, maxVenues, overlapped, pacedVars, executed>>
  BY DEF Settle, orderVars
<1>3. \A p \in AllOrders : Counted(p)' = Counted(p)
  BY <1>2 DEF Counted, pacedVars
<1>4. PICK m \in sending :
        /\ m.by \in Callbacks
        /\ \/ m.topic = "orders.child" /\ Written(m) /\ UNCHANGED <<loop, unbooked>>
           \/ m.topic = "orders.child" /\ Rejected(m)
           \/ m.topic # "orders.child" /\ Lost(m) /\ UNCHANGED <<loop, unbooked>>
  BY DEF Settle
<1>5. ASSUME SniperInv', Messages', sending' \subseteq Message, bus' \subseteq Message,
             \A p \in PacedOrders : UnderWay(p)' = UnderWay(p)
      PROVE  IInv'
  BY <1>1, <1>2, <1>5, PacedKept DEF IInv, SharedTypes
<1>6. CASE m.topic = "orders.child" /\ Written(m) /\ UNCHANGED <<loop, unbooked>>
  <2>1. /\ Messages' /\ sending' \subseteq Message /\ bus' \subseteq Message
        /\ Children' = Children \ {m} /\ \A p : UnderWay(p)' = UnderWay(p)
    BY <1>1, <1>3, <1>6, ChildWritten
  <2>2. SniperInv'
    BY <1>1, <1>2, <1>6, <2>1, SniperKept DEF sniperVars, orderVars
  <2> QED  BY <1>5, <2>1, <2>2
<1>7. CASE m.topic = "orders.child" /\ Rejected(m)
  BY <1>2, <1>4, <1>7, RejectedKeeps
<1>8. CASE m.topic # "orders.child" /\ Lost(m) /\ UNCHANGED <<loop, unbooked>>
  <2>1. Gone(m)
    BY <1>8 DEF Gone, Lost
  <2>2. m.topic # "orders.filled"
    BY <1>1, <1>4 DEF Messages
  <2>3. /\ Messages' /\ sending' \subseteq Message /\ bus' \subseteq Message
        /\ Children' = Children \ {m}
        /\ \A p : UnderWay(p)' = UnderWay(p) \ {m}
    BY <1>1, <1>3, <2>1, MessageGone
  <2>4. \A p : UnderWay(p)' = UnderWay(p)
    BY <1>8, <2>2, <2>3 DEF UnderWay
  <2>5. SniperInv'
    BY <1>1, <1>2, <1>8, <2>3, <2>4, SniperKept DEF sniperVars, orderVars
  <2> QED  BY <1>5, <2>3, <2>4, <2>5
<1> QED  BY <1>4, <1>6, <1>7, <1>8

-----------------------------------------------------------------------------
(* The EMS and the clock.                                                  *)
LEMMA AdvanceKeeps ==
  ASSUME IInv, Advance, UNCHANGED <<sniperVars, pacedVars, executed>>
  PROVE  IInv'
<1>1. TypeOK /\ Messages /\ SniperInv /\ PacedInv /\ SharedTypes
  BY IInvFacts DEF IInv
<1>2. sending' = sending /\ bus' = bus /\ clock' = clock + 1 /\ clock < MaxClock
  BY DEF Advance
<1>3. \A p \in AllOrders : Counted(p)' = Counted(p)
  BY DEF Counted, pacedVars, sniperVars
<1>4. /\ Messages' /\ Children' = Children /\ \A p : UnderWay(p)' = UnderWay(p)
  BY <1>1, <1>2, <1>3, NothingSent
<1>5. SniperInv' /\ PacedInv'
  BY <1>1, <1>4, SniperKept, PacedKept
<1>6. SharedTypes'
  BY <1>1, <1>2, ClockAssumption DEF SharedTypes
<1> QED  BY <1>4, <1>5, <1>6 DEF IInv

LEMMA SniperAnswered ==
  ASSUME SniperInv, UNCHANGED sniperVars, Children' \subseteq Children,
         NEW o \in Orders, UnderWay(o) # {}, Way(o) \in Nat, Way(o)' \in Nat, Way(o)' <= Way(o),
         o \in Working => filledQty[o] + Awaited(o, "orders.filled")' = executed'[o],
         \A p \in Orders : p # o => UnderWay(p)' = UnderWay(p) /\ executed'[p] = executed[p]
  PROVE  SniperInv'
<1>1. \A p \in Orders : p # o => /\ Awaited(p, "orders.filled")' = Awaited(p, "orders.filled")
                                 /\ Way(p)' = Way(p)
  BY DEF Awaited, Way
<1>2. Working' = Working /\ RunQty' = RunQty /\ \A p \in Orders : FailedRuns(p)' = FailedRuns(p)
  BY DEF sniperVars, orderVars, Working, RunQty, FailedRuns
<1>3. SniperTypes' /\ Alone' /\ Pending'
  BY DEF SniperInv, SniperTypes, sniperVars, orderVars, Alone, Pending
<1>4. Routing'
  <2>1. o \in routed
    BY DEF SniperInv, Routing, NothingOf
  <2>2. \A p \in Orders \ routed : NothingOf(p) => NothingOf(p)'
    BY <2>1 DEF NothingOf
  <2> QED  BY <1>2, <2>2 DEF SniperInv, Routing, sniperVars, orderVars
<1>5. Covered'
  <2>1. /\ IsFiniteSet(FailedRuns(o)) /\ inFlightQty[o] \in Nat /\ unbooked[o] \in Nat
        /\ Way(o) + SumFunctionOnSet(RunQty, FailedRuns(o)) <= inFlightQty[o] + unbooked[o]
    BY DEF SniperInv, Covered, SniperTypes
  <2>2. SumFunctionOnSet(RunQty, FailedRuns(o)) \in Nat
    <3>1. \A k \in Callbacks : RunQty[k] \in Nat
      BY DEF SniperInv, SniperTypes, RunQty, SniperRun
    <3>2. \A k \in FailedRuns(o) : RunQty[k] \in Nat
      BY <3>1 DEF FailedRuns
    <3> QED  BY <2>1, <3>2, SumNat
  <2>3. Way(o)' + SumFunctionOnSet(RunQty, FailedRuns(o)) <= inFlightQty[o] + unbooked[o]
    BY <2>1, <2>2
  <2> QED  BY <1>1, <1>2, <2>1, <2>3 DEF SniperInv, Covered, sniperVars, orderVars
<1>6. Working \subseteq Orders
  BY DEF SniperInv, SniperTypes, Working
<1>7. Committed'
  <2> SUFFICES ASSUME NEW p \in Working, Within(p)
               PROVE  Within(p)'
    BY <1>2 DEF SniperInv, Committed, sniperVars, orderVars
  <2>1. p \in Orders /\ UNCHANGED <<totalRemaining, filledQty, inFlightQty, unbooked, loop>>
    BY <1>6 DEF sniperVars, orderVars
  <2>2. CASE p # o
    BY <1>1, <2>1, <2>2, WithinKept
  <2>3. CASE p = o
    <3>1. Most(o)' = Most(o) /\ Most(o) \in Nat
      BY <2>1 DEF Most, SniperInv, SniperTypes
    <3>2. Way(o)' <= Most(o)
      BY <2>3, <3>1 DEF Within
    <3>3. ASSUME NEW k \in Callbacks, loop[k].order = o
          PROVE  Round(loop[k], o)'
      <4>1. /\ Round(loop[k], o) /\ Spent(loop[k])' = Spent(loop[k])
            /\ Held(loop[k], o)' = Held(loop[k], o)
        BY <2>1, <2>3, <3>3 DEF Within, Spent, Held
      <4>2. loop[k].available \in Nat /\ Spent(loop[k]) \in Nat
        BY DEF SniperInv, SniperTypes, SniperRun, Spent
      <4>3. Way(o)' + loop[k].available <= Most(o) + Spent(loop[k])
        BY <3>1, <4>1, <4>2 DEF Round
      <4> QED  BY <2>1, <3>1, <4>1, <4>3 DEF Round
    <3> QED  BY <2>1, <2>3, <3>1, <3>2, <3>3 DEF Within
  <2> QED  BY <2>2, <2>3
<1>8. SniperBooks'
  BY <1>1, <1>2, <1>6 DEF SniperInv, SniperBooks, sniperVars, orderVars
<1> QED  BY <1>3, <1>4, <1>5, <1>7, <1>8 DEF SniperInv

LEMMA PacedAnswered ==
  ASSUME PacedInv, UNCHANGED pacedVars, NEW o \in PacedOrders, UnderWay(o) # {},
         executed[o] + Awaited(o, "orders.child") \in Nat,
         executed'[o] + Awaited(o, "orders.child")' \in Nat,
         executed'[o] + Awaited(o, "orders.child")' <= executed[o] + Awaited(o, "orders.child"),
         o \in Queued => book[o].filled + Awaited(o, "orders.filled")' = executed'[o],
         \A m \in UnderWay(o)' : \E n \in UnderWay(o) : m.qty \in Nat /\ n.qty \in Nat /\ m.qty <= n.qty,
         (\A m, n \in UnderWay(o) : m = n) => \A m, n \in UnderWay(o)' : m = n,
         \A p \in PacedOrders : p # o => UnderWay(p)' = UnderWay(p) /\ executed'[p] = executed[p],
         \A p \in PacedOrders : \A k \in 0 .. NumSlices : SentBy(p, k) \in Int
  PROVE  PacedInv'
<1>1. \A p \in PacedOrders : p # o => \A t : Awaited(p, t)' = Awaited(p, t)
  BY DEF Awaited
<1>2. Queued' = Queued /\ \A p, k : SentBy(p, k)' = SentBy(p, k)
  BY DEF pacedVars, Queued, SentBy, Unsent
<1>3. PacedTypes'
  BY DEF PacedInv, PacedTypes, pacedVars
<1>4. PacedRouting'
  <2>1. book[o].expiresAt # 0
    BY DEF PacedInv, PacedRouting, NothingOf
  <2>2. \A p \in PacedOrders : p # o => (NothingOf(p) => NothingOf(p)')
    BY DEF NothingOf
  <2> QED  BY <1>2, <2>1, <2>2 DEF PacedInv, PacedRouting, pacedVars
<1>5. PacedBooks'
  BY <1>1, <1>2 DEF PacedInv, PacedBooks, pacedVars
<1>6. OnSchedule'
  <2>1. ASSUME strategy = "IS"
        PROVE  executed'[o] + Awaited(o, "orders.child")' <= SentBy(o, book[o].slices)
    <3>1. /\ executed[o] + Awaited(o, "orders.child") <= SentBy(o, book[o].slices)
          /\ book[o].slices \in 0 .. NumSlices
      BY <2>1 DEF PacedInv, OnSchedule, PacedTypes, PacedBook
    <3>2. SentBy(o, book[o].slices) \in Int
      BY <3>1
    <3> QED  BY <3>1, <3>2
  <2> QED  BY <1>1, <1>2, <2>1 DEF PacedInv, OnSchedule, pacedVars
<1>7. OneAtATime'
  <2>1. ASSUME o \notin unanswered
        PROVE  /\ \A m, n \in UnderWay(o)' : m = n
               /\ executed'[o] + Awaited(o, "orders.child")' <= PacedQty[o]
               /\ o \in Queued => \A m \in UnderWay(o)' : m.qty <= book[o].remaining
    <3>1. /\ \A m, n \in UnderWay(o) : m = n
          /\ executed[o] + Awaited(o, "orders.child") <= PacedQty[o]
          /\ o \in Queued => \A m \in UnderWay(o) : m.qty <= book[o].remaining
          /\ PacedQty[o] \in Nat /\ book[o].remaining \in Nat
      BY <2>1, PacedAssumption DEF PacedInv, OneAtATime, PacedTypes, PacedBook
    <3>2. executed'[o] + Awaited(o, "orders.child")' <= PacedQty[o]
      BY <3>1
    <3>3. o \in Queued => \A m \in UnderWay(o)' : m.qty <= book[o].remaining
      BY <3>1
    <3> QED  BY <3>1, <3>2, <3>3
  <2> QED  BY <1>1, <1>2, <2>1 DEF PacedInv, OneAtATime, pacedVars
<1> QED  BY <1>3, <1>4, <1>5, <1>6, <1>7 DEF PacedInv

-----------------------------------------------------------------------------
(* The schedule of IS.  A power is defined for every exponent: a smallest  *)
(* exponent up to which it is not would have one below it.                 *)
Powers(b, g, D) == [k \in D |-> IF k = 0 THEN 1 ELSE b * g[k - 1]]
PowerTo(b, n) == CHOOSE g : g = Powers(b, g, 0 .. n)

LEMMA PowerToExists ==
  ASSUME NEW b, NEW n \in Nat
  PROVE  \E g : g = Powers(b, g, 0 .. n)
<1> DEFINE Bad == {i \in Nat : ~ \E g : g = Powers(b, g, 0 .. i)}
<1> SUFFICES ASSUME Bad # {} PROVE FALSE
  OBVIOUS
<1>1. PICK m \in Bad : \A i \in Bad : m <= i
  BY LeastNat
<1>2. CASE m = 0
  <2> DEFINE g == [k \in 0 .. 0 |-> 1]
  <2>1. g = Powers(b, g, 0 .. 0)
    BY DEF Powers
  <2> QED  BY <1>1, <1>2, <2>1
<1>3. CASE m # 0
  <2>1. m - 1 \in Nat /\ m \in Nat /\ m - 1 \notin Bad
    BY <1>1, <1>3
  <2>2. PICK g : g = Powers(b, g, 0 .. m - 1)
    BY <2>1
  <2> DEFINE f == [k \in 0 .. m |-> IF k = m THEN b * g[m - 1] ELSE g[k]]
  <2>3. ASSUME NEW k \in 0 .. m
        PROVE  f[k] = IF k = 0 THEN 1 ELSE b * f[k - 1]
    <3>1. CASE k = m
      <4>1. f[k] = b * g[m - 1] /\ f[k - 1] = g[m - 1] /\ k # 0
        BY <2>1, <3>1, <1>3
      <4> QED  BY <3>1, <4>1
    <3>2. CASE k # m
      <4>1. k \in 0 .. m - 1 /\ f[k] = g[k]
        BY <2>1, <3>2
      <4>2. g[k] = IF k = 0 THEN 1 ELSE b * g[k - 1]
        BY <2>2, <4>1 DEF Powers
      <4>3. k # 0 => f[k - 1] = g[k - 1]
        BY <2>1, <4>1
      <4> QED  BY <4>1, <4>2, <4>3
    <3> QED  BY <3>1, <3>2
  <2>4. f = Powers(b, f, 0 .. m)
    BY <2>3 DEF Powers
  <2> QED  BY <1>1, <2>4
<1> QED  BY <1>2, <1>3

LEMMA PowersAgree ==
  ASSUME NEW b, NEW n \in Nat, NEW j \in Nat, j <= n
  PROVE  PowerTo(b, n)[j] = PowerTo(b, j)[j]
<1> DEFINE f == PowerTo(b, n)
           g == PowerTo(b, j)
           Bad == {i \in 0 .. j : f[i] # g[i]}
<1>1. f = Powers(b, f, 0 .. n) /\ g = Powers(b, g, 0 .. j)
  BY PowerToExists DEF PowerTo
<1> HIDE DEF f, g
<1>2. Bad = {}
  <2> SUFFICES ASSUME Bad # {} PROVE FALSE
    OBVIOUS
  <2>1. Bad \in SUBSET Nat
    OBVIOUS
  <2>2. PICK m \in Bad : \A i \in Bad : m <= i
    BY <2>1, LeastNat
  <2>3. m \in 0 .. j /\ m \in 0 .. n /\ f[m] # g[m]
    BY <2>2
  <2>4. /\ f[m] = IF m = 0 THEN 1 ELSE b * f[m - 1]
        /\ g[m] = IF m = 0 THEN 1 ELSE b * g[m - 1]
    BY <1>1, <2>3 DEF Powers
  <2>5. m # 0 => m - 1 \in 0 .. j /\ ~(m <= m - 1)
    BY <2>3
  <2>6. m # 0 => f[m - 1] = g[m - 1]
    BY <2>2, <2>5
  <2> QED  BY <2>3, <2>4, <2>6
<1>3. j \in 0 .. j
  OBVIOUS
<1> QED  BY <1>2, <1>3 DEF f, g

LEMMA PowerObeys ==
  ASSUME NEW b
  PROVE  \A n \in Nat : Power(b, n) = IF n = 0 THEN 1 ELSE b * Power(b, n - 1)
<1> DEFINE G == [n \in Nat |-> PowerTo(b, n)[n]]
           P == CHOOSE g : g = [k \in Nat |-> IF k = 0 THEN 1 ELSE b * g[k - 1]]
<1>1. ASSUME NEW n \in Nat PROVE G[n] = IF n = 0 THEN 1 ELSE b * G[n - 1]
  <2>1. PowerTo(b, n) = Powers(b, PowerTo(b, n), 0 .. n)
    BY PowerToExists DEF PowerTo
  <2>2. n \in 0 .. n
    OBVIOUS
  <2>3. PowerTo(b, n)[n] = IF n = 0 THEN 1 ELSE b * PowerTo(b, n)[n - 1]
    BY <2>1, <2>2 DEF Powers
  <2>4. n # 0 => n - 1 \in Nat /\ n - 1 <= n
    OBVIOUS
  <2>5. n # 0 => PowerTo(b, n)[n - 1] = PowerTo(b, n - 1)[n - 1]
    BY <2>4, PowersAgree
  <2> QED  BY <2>3, <2>4, <2>5
<1>2. G = [k \in Nat |-> IF k = 0 THEN 1 ELSE b * G[k - 1]]
  BY <1>1
<1>3. P = [k \in Nat |-> IF k = 0 THEN 1 ELSE b * P[k - 1]]
  BY <1>2
<1>4. \A n : Power(b, n) = P[n]
  BY DEF Power
<1> HIDE DEF P
<1>5. \A n \in Nat : P[n] = IF n = 0 THEN 1 ELSE b * P[n - 1]
  BY <1>3
<1> QED  BY <1>4, <1>5

LEMMA TimesPositive ==
  \A m, n \in Nat \ {0} : m * n \in Nat \ {0}
OBVIOUS

LEMMA PowerPositive ==
  ASSUME NEW b \in Nat \ {0}, NEW n \in Nat
  PROVE  Power(b, n) \in Nat \ {0}
<1> DEFINE Bad == {i \in Nat : Power(b, i) \notin Nat \ {0}}
<1> SUFFICES ASSUME Bad # {} PROVE FALSE
  OBVIOUS
<1>1. PICK m \in Bad : \A i \in Bad : m <= i
  BY LeastNat
<1>2. m # 0
  BY <1>1, PowerObeys
<1>3. m - 1 \in Nat /\ m \in Nat /\ m - 1 \notin Bad
  BY <1>1, <1>2
<1>4. Power(b, m - 1) \in Nat \ {0} /\ Power(b, m) = b * Power(b, m - 1)
  BY <1>2, <1>3, PowerObeys
<1>5. Power(b, m) \in Nat \ {0}
  BY <1>4, TimesPositive
<1> QED  BY <1>1, <1>5

LEMMA NumSlicesPositive == NumSlices \in Nat \ {0} /\ Decay \in Nat \ {0}
<1>1. Urgency \in 0 .. 100 /\ MinSlices \in Nat \ {0} /\ MaxSlices \in Nat /\ MinSlices <= MaxSlices
  BY PacedAssumption
<1>2. Decay \in 1 .. 99
  BY <1>1 DEF Decay, Larger, Smaller
<1>3. Decay * (MaxSlices - MinSlices) \in Nat
  BY <1>1, <1>2, TimesNat
<1>4. \A x \in Nat : (2 * (100 * MinSlices + x) + 100) \div 200 \in Nat \ {0}
  BY <1>1
<1> QED  BY <1>2, <1>3, <1>4 DEF NumSlices, Rounded

LEMMA WeightPositive ==
  ASSUME NEW i \in 1 .. NumSlices
  PROVE  Weight(i) \in Nat \ {0}
<1>1. i - 1 \in Nat /\ NumSlices - i \in Nat
  BY NumSlicesPositive
<1>2. Power(Decay, i - 1) \in Nat \ {0} /\ Power(100, NumSlices - i) \in Nat \ {0}
  BY <1>1, NumSlicesPositive, PowerPositive
<1> QED  BY <1>2, TimesPositive DEF Weight

LEMMA WeightsPositive == MapThenSumSet(Weight, 1 .. NumSlices) \in Nat \ {0}
<1> DEFINE w == [i \in 1 .. NumSlices |-> Weight(i)]
<1>1. MapThenSumSet(Weight, 1 .. NumSlices) = SumFunctionOnSet(w, 1 .. NumSlices)
  BY DEF MapThenSumSet, MapThenFoldSet, SumFunctionOnSet, FoldFunctionOnSet
<1>2. IsFiniteSet(1 .. NumSlices) /\ 1 \in 1 .. NumSlices /\ IsFiniteSet((1 .. NumSlices) \ {1})
  <2>1. NumSlices \in Int /\ 1 \in Int /\ 1 \in 1 .. NumSlices
    BY NumSlicesPositive
  <2>2. IsFiniteSet(1 .. NumSlices)
    BY <2>1, FS_Interval
  <2> QED  BY <2>1, <2>2, FS_RemoveElement
<1>3. \A i \in 1 .. NumSlices : w[i] \in Nat \ {0}
  BY WeightPositive
<1> HIDE DEF w
<1>4. SumFunctionOnSet(w, 1 .. NumSlices) = w[1] + SumFunctionOnSet(w, (1 .. NumSlices) \ {1})
  <2>1. \A i \in 1 .. NumSlices : w[i] \in Int
    BY <1>3
  <2>2. PICK D : D = 1 .. NumSlices
    OBVIOUS
  <2>3. IsFiniteSet(D) /\ 1 \in D /\ \A i \in D : w[i] \in Int
    BY <1>2, <2>1, <2>2
  <2>4. SumFunctionOnSet(w, D) = w[1] + SumFunctionOnSet(w, D \ {1})
    BY <2>3, SumRemove
  <2> QED  BY <2>2, <2>4
<1>5. SumFunctionOnSet(w, (1 .. NumSlices) \ {1}) \in Nat
  BY <1>2, <1>3, SumNat
<1> QED  BY <1>1, <1>2, <1>3, <1>4, <1>5

LEMMA SliceShareNat ==
  ASSUME NEW o \in PacedOrders, NEW i \in 1 .. NumSlices
  PROVE  SliceShare(o, i) \in Nat
<1>1. Weight(i) * PacedQty[o] \in Nat
  <2>1. Weight(i) \in Nat /\ PacedQty[o] \in Nat
    BY WeightPositive, PacedAssumption
  <2> QED  BY <2>1, TimesNat
<1>2. \A a \in Nat : \A b \in Nat \ {0} : Rounded(a, b) \in Nat
  BY DivNat DEF Rounded
<1> QED  BY <1>1, <1>2, WeightsPositive DEF SliceShare

LEMMA UnsentStep ==
  ASSUME NEW o \in PacedOrders, NEW k \in 0 .. NumSlices
  PROVE  /\ Unsent(o, k) \in Nat
         /\ k < NumSlices => Unsent(o, k) = SliceShare(o, k + 1) + Unsent(o, k + 1)
<1> DEFINE w == [i \in 1 .. NumSlices |-> SliceShare(o, i)]
<1>1. IsFiniteSet(k + 1 .. NumSlices) /\ k + 1 .. NumSlices \subseteq 1 .. NumSlices
  <2>1. NumSlices \in Int /\ k + 1 \in Int /\ k + 1 .. NumSlices \subseteq 1 .. NumSlices
    BY NumSlicesPositive
  <2> QED  BY <2>1, FS_Interval
<1>2. \A i \in k + 1 .. NumSlices : w[i] \in Nat
  BY <1>1, SliceShareNat
<1>3. Unsent(o, k) = SumFunctionOnSet(w, k + 1 .. NumSlices)
  BY DEF Unsent
<1>4. Unsent(o, k + 1) = SumFunctionOnSet(w, k + 2 .. NumSlices)
  <2>1. k + 1 + 1 = k + 2
    BY NumSlicesPositive
  <2> QED  BY <2>1 DEF Unsent
<1>5. k < NumSlices => w[k + 1] = SliceShare(o, k + 1)
  BY NumSlicesPositive
<1> HIDE DEF w
<1>6. Unsent(o, k) \in Nat
  BY <1>1, <1>2, <1>3, SumNat
<1>7. ASSUME k < NumSlices
      PROVE  Unsent(o, k) = SliceShare(o, k + 1) + Unsent(o, k + 1)
  <2>1. k + 1 \in k + 1 .. NumSlices /\ (k + 1 .. NumSlices) \ {k + 1} = k + 2 .. NumSlices
    BY <1>7, NumSlicesPositive
  <2>2. \A i \in k + 1 .. NumSlices : w[i] \in Int
    BY <1>2
  <2>3. SumFunctionOnSet(w, k + 1 .. NumSlices)
          = w[k + 1] + SumFunctionOnSet(w, (k + 1 .. NumSlices) \ {k + 1})
    <3>1. PICK D : D = k + 1 .. NumSlices
      OBVIOUS
    <3>2. PICK i : i = k + 1
      OBVIOUS
    <3>3. IsFiniteSet(D) /\ i \in D /\ \A j \in D : w[j] \in Int
      BY <1>1, <2>1, <2>2, <3>1, <3>2
    <3>4. SumFunctionOnSet(w, D) = w[i] + SumFunctionOnSet(w, D \ {i})
      BY <3>3, SumRemove
    <3> QED  BY <3>1, <3>2, <3>4
  <2> QED  BY <1>3, <1>4, <1>5, <1>7, <2>1, <2>3
<1> QED  BY <1>6, <1>7

LEMMA ScheduleFacts ==
  ASSUME NEW o \in PacedOrders, NEW k \in 0 .. NumSlices
  PROVE  /\ SentBy(o, k) \in Int /\ SentBy(o, k) <= PacedQty[o]
         /\ Scheduled(o, k + 1) \in Int
         /\ k < NumSlices => SentBy(o, k + 1) = SentBy(o, k) + Scheduled(o, k + 1)
<1>0. PacedQty[o] \in Nat /\ NumSlices \in Nat \ {0} /\ k \in Nat
  BY PacedAssumption, NumSlicesPositive
<1>1. Unsent(o, k) \in Nat
  BY UnsentStep
<1>2. SentBy(o, k) \in Int /\ SentBy(o, k) <= PacedQty[o]
  BY <1>0, <1>1 DEF SentBy
<1>3. Scheduled(o, 1) = PacedQty[o] - Unsent(o, 1) /\ Unsent(o, 1) \in Nat
  <2>1. MapThenSumSet(LAMBDA i : SliceShare(o, i), 2 .. NumSlices)
          = SumFunctionOnSet([i \in 2 .. NumSlices |-> SliceShare(o, i)], 2 .. NumSlices)
    BY DEF MapThenSumSet, MapThenFoldSet, SumFunctionOnSet, FoldFunctionOnSet
  <2>2. SumFunctionOnSet([i \in 2 .. NumSlices |-> SliceShare(o, i)], 2 .. NumSlices)
          = SumFunctionOnSet([i \in 1 .. NumSlices |-> SliceShare(o, i)], 2 .. NumSlices)
    <3> DEFINE w == [i \in 2 .. NumSlices |-> SliceShare(o, i)]
               v == [i \in 1 .. NumSlices |-> SliceShare(o, i)]
    <3>1. \A i \in 2 .. NumSlices : w[i] = v[i]
      BY <1>0
    <3> HIDE DEF w, v
    <3>2. SumFunctionOnSet(w, 2 .. NumSlices) = SumFunctionOnSet(v, 2 .. NumSlices)
      BY <3>1, SumSame
    <3> QED  BY <3>2 DEF w, v
  <2>3. Unsent(o, 1) = SumFunctionOnSet([i \in 1 .. NumSlices |-> SliceShare(o, i)], 2 .. NumSlices)
    <3>1. 1 + 1 = 2
      OBVIOUS
    <3> QED  BY <3>1 DEF Unsent
  <2>4. Unsent(o, 1) \in Nat
    BY <1>0, UnsentStep
  <2> QED  BY <2>1, <2>2, <2>3, <2>4 DEF Scheduled
<1>4. CASE k = 0
  <2>1. k + 1 = 1 /\ SentBy(o, k) = 0 /\ SentBy(o, 1) = PacedQty[o] - Unsent(o, 1)
    BY <1>4 DEF SentBy
  <2> QED  BY <1>0, <1>2, <1>3, <2>1
<1>5. CASE k # 0
  <2>1. k + 1 # 1 /\ k + 1 # 0
    BY <1>0, <1>5
  <2>2. k < NumSlices => SliceShare(o, k + 1) \in Nat
    BY <1>0, <1>5, SliceShareNat
  <2>3. Scheduled(o, k + 1) = IF k + 1 <= NumSlices THEN SliceShare(o, k + 1) ELSE 0
    BY <2>1 DEF Scheduled
  <2>4. Scheduled(o, k + 1) \in Int
    BY <1>0, <2>2, <2>3
  <2>5. ASSUME k < NumSlices
        PROVE  SentBy(o, k + 1) = SentBy(o, k) + Scheduled(o, k + 1)
    <3>1. Unsent(o, k) = SliceShare(o, k + 1) + Unsent(o, k + 1) /\ Unsent(o, k + 1) \in Nat
      <4>1. k + 1 \in 0 .. NumSlices
        BY <1>0, <2>5
      <4> QED  BY <2>5, <4>1, UnsentStep
    <3>2. SentBy(o, k) = PacedQty[o] - Unsent(o, k) /\ SentBy(o, k + 1) = PacedQty[o] - Unsent(o, k + 1)
      BY <1>5, <2>1 DEF SentBy
    <3>3. Scheduled(o, k + 1) = SliceShare(o, k + 1)
      BY <1>0, <2>3, <2>5
    <3> QED  BY <1>0, <1>1, <2>2, <2>5, <3>1, <3>2, <3>3
  <2> QED  BY <1>2, <2>4, <2>5
<1> QED  BY <1>4, <1>5

-----------------------------------------------------------------------------
(* The EMS fills a child, in part or in full, or not at all.               *)
LEMMA EmsKeeps ==
  ASSUME IInv, NEW c, HandleChildOrder(c), UNCHANGED <<clock, sniperVars, pacedVars>>
  PROVE  IInv'
<1> DEFINE o == c.order
<1>1. TypeOK /\ Messages /\ SniperInv /\ PacedInv /\ SharedTypes
  BY IInvFacts DEF IInv
<1>2. c \in bus /\ c.topic = "orders.child" /\ sending' = sending /\ c \in Message /\ o \in AllOrders
  BY <1>1 DEF HandleChildOrder, SharedTypes, Message
<1>3. \A p \in AllOrders : Counted(p)' = Counted(p)
  BY DEF Counted, pacedVars, sniperVars
<1>4. /\ Way(o) \in Nat /\ Awaited(o, "orders.child") \in Nat /\ Awaited(o, "orders.filled") \in Nat
      /\ executed[o] \in Nat
  BY <1>1, <1>2, WayIsAmounts DEF SharedTypes
<1>5. \A p \in PacedOrders : \A k \in 0 .. NumSlices : SentBy(p, k) \in Int
  BY ScheduleFacts
<1>6. o \in Working => filledQty[o] + Awaited(o, "orders.filled") = executed[o]
  BY <1>1 DEF SniperInv, SniperBooks
<1>7. o \in PacedOrders /\ o \in Queued => book[o].filled + Awaited(o, "orders.filled") = executed[o]
  BY <1>1 DEF PacedInv, PacedBooks
<1>8. o \in Working => filledQty[o] \in Nat
  BY <1>1 DEF SniperInv, SniperTypes, Working
<1>9. o \in PacedOrders => book[o].filled \in Nat
  BY <1>1 DEF PacedInv, PacedTypes, PacedBook
<1>10. ASSUME Messages', sending' \subseteq Message, bus' \subseteq Message, Children' = Children,
              c \in UnderWay(o), c.qty \in Nat, NEW q \in Nat, q <= c.qty,
              \A p : p # o => UnderWay(p)' = UnderWay(p),
              \A p \in AllOrders : p # o => executed'[p] = executed[p],
              UnderWay(o)' \in SUBSET (UnderWay(o) \ {c})
                \/ \E f : f.qty = q /\ UnderWay(o)' = (UnderWay(o) \ {c}) \cup {f},
              Awaited(o, "orders.child") = Awaited(o, "orders.child")' + c.qty,
              Awaited(o, "orders.filled")' = Awaited(o, "orders.filled") + q,
              executed' \in [AllOrders -> Nat], executed'[o] = executed[o] + q
       PROVE  IInv'
  <2>1. /\ Awaited(o, "orders.child")' \in Nat /\ Awaited(o, "orders.filled")' \in Nat
        /\ Way(o)' = Awaited(o, "orders.child")' + Awaited(o, "orders.filled")'
        /\ Way(o) = Awaited(o, "orders.child") + Awaited(o, "orders.filled")
    BY <1>1, <1>10, WayIsAmounts, WayIsAmountsNext
  <2>2. Way(o)' \in Nat /\ Way(o)' <= Way(o)
    BY <1>4, <1>10, <2>1
  <2>3. SharedTypes'
    BY <1>1, <1>10 DEF SharedTypes
  <2>4. CASE o \in Orders
    <3>1. o \in Working => filledQty[o] + Awaited(o, "orders.filled")' = executed'[o]
      BY <1>4, <1>6, <1>8, <1>10
    <3>2. \A p \in Orders : p # o => UnderWay(p)' = UnderWay(p) /\ executed'[p] = executed[p]
      BY <1>10 DEF AllOrders
    <3>3. UNCHANGED sniperVars /\ Children' \subseteq Children /\ UnderWay(o) # {}
      BY <1>10
    <3>5. SniperInv'
      <4> HIDE DEF o
      <4> QED  BY <1>1, <1>4, <2>2, <2>4, <3>1, <3>2, <3>3, SniperAnswered
    <3>6. \A p \in PacedOrders : p # o
      BY <2>4, OneStrategy
    <3>7. PacedInv'
      BY <1>1, <1>10, <3>6, PacedKept DEF AllOrders
    <3> QED  BY <1>10, <2>3, <3>5, <3>7 DEF IInv
  <2>5. CASE o \in PacedOrders
    <3>1. /\ executed[o] + Awaited(o, "orders.child") \in Nat
          /\ executed'[o] + Awaited(o, "orders.child")' \in Nat
          /\ executed'[o] + Awaited(o, "orders.child")' <= executed[o] + Awaited(o, "orders.child")
      BY <1>4, <1>10, <2>1
    <3>2. o \in Queued => book[o].filled + Awaited(o, "orders.filled")' = executed'[o]
      BY <1>4, <1>7, <1>9, <1>10, <2>5
    <3>3. \A m \in UnderWay(o) : m.qty \in Nat
      BY <1>1 DEF SharedTypes, Message, UnderWay
    <3>4. /\ \A m \in UnderWay(o)' : \E n \in UnderWay(o) : m.qty \in Nat /\ n.qty \in Nat /\ m.qty <= n.qty
          /\ (\A m, n \in UnderWay(o) : m = n) => \A m, n \in UnderWay(o)' : m = n
      <4>1. CASE UnderWay(o)' \in SUBSET (UnderWay(o) \ {c})
        <5>1. \A m \in UnderWay(o)' : m \in UnderWay(o) /\ m.qty \in Nat /\ m.qty <= m.qty
          BY <3>3, <4>1
        <5> QED  BY <5>1
      <4>2. ASSUME NEW f, f.qty = q, UnderWay(o)' = (UnderWay(o) \ {c}) \cup {f}
            PROVE  /\ \A m \in UnderWay(o)' : \E n \in UnderWay(o) :
                        m.qty \in Nat /\ n.qty \in Nat /\ m.qty <= n.qty
                   /\ (\A m, n \in UnderWay(o) : m = n) => \A m, n \in UnderWay(o)' : m = n
        <5>1. \A m \in UnderWay(o) : m \in UnderWay(o) /\ m.qty \in Nat /\ m.qty <= m.qty
          BY <3>3
        <5>2. f.qty \in Nat /\ f.qty <= c.qty
          BY <1>10, <4>2
        <5> QED  BY <1>10, <4>2, <5>1, <5>2
      <4> QED  BY <1>10, <4>1, <4>2
    <3>5. \A p \in PacedOrders : p # o => UnderWay(p)' = UnderWay(p) /\ executed'[p] = executed[p]
      BY <1>10 DEF AllOrders
    <3>6. UNCHANGED pacedVars /\ UnderWay(o) # {}
      BY <1>10
    <3>7. PacedInv'
      <4> HIDE DEF o
      <4> QED  BY <1>1, <1>5, <2>5, <3>1, <3>2, <3>4, <3>5, <3>6, PacedAnswered
    <3>8. \A p \in Orders : p # o
      BY <2>5, OneStrategy
    <3>9. SniperInv'
      BY <1>1, <1>10, <3>8, SniperKept DEF AllOrders
    <3> QED  BY <1>10, <2>3, <3>7, <3>9 DEF IInv
  <2> QED  BY <1>2, <2>4, <2>5 DEF AllOrders
<1>11. ASSUME NEW q \in 1 .. c.qty, bus' = (bus \ {c}) \cup {Fill(c, q)},
              executed' = [executed EXCEPT ![c.order] = @ + q]
       PROVE  IInv'
  <2>1. /\ Messages' /\ sending' \subseteq Message /\ bus' \subseteq Message
        /\ Children' = Children
        /\ c \in UnderWay(o) /\ c.qty \in Nat /\ q <= c.qty
        /\ \A p : p # o => UnderWay(p)' = UnderWay(p)
        /\ UnderWay(o)' = (UnderWay(o) \ {c}) \cup {Fill(c, q)}
        /\ Awaited(o, "orders.child") = Awaited(o, "orders.child")' + c.qty
        /\ Awaited(o, "orders.filled")' = Awaited(o, "orders.filled") + q
    BY <1>1, <1>2, <1>3, <1>11, ChildAnswered
  <2>2. q \in Nat /\ Fill(c, q).qty = q
    BY <2>1 DEF Fill
  <2>3. /\ executed' \in [AllOrders -> Nat] /\ executed'[o] = executed[o] + q
        /\ \A p \in AllOrders : p # o => executed'[p] = executed[p]
    BY <1>1, <1>2, <1>11, <2>2 DEF SharedTypes
  <2>4. \E f : f.qty = q /\ UnderWay(o)' = (UnderWay(o) \ {c}) \cup {f}
    BY <2>1, <2>2
  <2> QED  BY <1>10, <2>1, <2>2, <2>3, <2>4
<1>12. ASSUME bus' = bus \ {c}, UNCHANGED executed
       PROVE  IInv'
  <2>1. Gone(c)
    BY <1>2, <1>12 DEF Gone
  <2>2. /\ Messages' /\ sending' \subseteq Message /\ bus' \subseteq Message
        /\ Children' = Children \ {c}
        /\ \A p : UnderWay(p)' = UnderWay(p) \ {c}
        /\ c \in UnderWay(o) /\ c.qty \in Nat
        /\ Awaited(o, "orders.child") = Awaited(o, "orders.child")' + c.qty
        /\ Awaited(o, "orders.filled") = Awaited(o, "orders.filled")' + 0
    <3>1. /\ Messages' /\ sending' \subseteq Message /\ bus' \subseteq Message
          /\ Children' = Children \ {c}
          /\ \A p : UnderWay(p)' = UnderWay(p) \ {c}
          /\ c \in UnderWay(o) /\ c.qty \in Nat
          /\ \A t \in {"orders.child", "orders.filled"} :
               Awaited(o, t) = Awaited(o, t)' + (IF c.topic = t THEN c.qty ELSE 0)
      BY <1>1, <1>2, <1>3, <2>1, MessageGone
    <3> QED  BY <1>2, <3>1
  <2>3. Children' = Children
    BY <1>2 DEF Children
  <2>4. /\ \A p : p # o => UnderWay(p)' = UnderWay(p)
        /\ \A p \in AllOrders : p # o => executed'[p] = executed[p]
    BY <1>12, <2>2 DEF UnderWay
  <2>5. Awaited(o, "orders.filled")' \in Nat
    BY <2>2, WayIsAmountsNext
  <2>6. /\ Awaited(o, "orders.filled")' = Awaited(o, "orders.filled") + 0
        /\ executed'[o] = executed[o] + 0 /\ 0 \in Nat /\ 0 <= c.qty
    BY <1>4, <1>12, <2>2, <2>5
  <2>7. executed' \in [AllOrders -> Nat] /\ UnderWay(o)' \in SUBSET (UnderWay(o) \ {c})
    BY <1>1, <1>12, <2>2 DEF SharedTypes
  <2> QED  BY <1>10, <2>2, <2>3, <2>4, <2>6, <2>7
<1> QED  BY <1>11, <1>12 DEF HandleChildOrder

-----------------------------------------------------------------------------
(* IS, ARRIVAL_PRICE and MOMENTUM.                                         *)
Views == {"unpriced", "adverse", "level", "favourable", "swept"}

LEMMA ViewTyped ==
  \A view : view \in UNION {[D -> Views] : D \in SUBSET PacedOrders}
              <=> /\ DOMAIN view \subseteq PacedOrders
                  /\ view \in [DOMAIN view -> Views]
OBVIOUS

LEMMA HoldsSplit ==
  \A run : Holds(run) <=>
    /\ run \in [now : Nat, todo : Seq(PacedOrders),
                view : UNION {[D -> Views] : D \in SUBSET PacedOrders},
                order : PacedOrders \cup {None}, next : {"orders", "slice", "heartbeat"}]
    /\ \A i \in DOMAIN run.todo : run.todo[i] \in DOMAIN run.view
    /\ run.next # "orders" => run.order \in DOMAIN run.view
BY DEF Holds, PacedRun, Views

LEMMA AtRestHolds == Holds(AtRest)
<1>1. <<>> \in UNION {[D -> Views] : D \in SUBSET PacedOrders} /\ DOMAIN <<>> = {}
  OBVIOUS
<1>2. <<>> \in Seq(PacedOrders)
  OBVIOUS
<1> QED  BY <1>1, <1>2, HoldsSplit DEF AtRest

LEMMA HoldsNarrowed ==
  ASSUME NEW run, Holds(run), NEW D \in SUBSET DOMAIN run.view,
         \A i \in DOMAIN run.todo : run.todo[i] \in D,
         NEW o, NEW next, (next = "orders" /\ o = None) \/ (next \in {"slice", "heartbeat"} /\ o \in D)
  PROVE  Holds([run EXCEPT !.view = [p \in D |-> run.view[p]], !.order = o, !.next = next])
<1> DEFINE view == [p \in D |-> run.view[p]]
<1>1. /\ DOMAIN run.view \subseteq PacedOrders /\ run.view \in [DOMAIN run.view -> Views]
      /\ run \in [now : Nat, todo : Seq(PacedOrders),
                  view : UNION {[E -> Views] : E \in SUBSET PacedOrders},
                  order : PacedOrders \cup {None}, next : {"orders", "slice", "heartbeat"}]
  BY HoldsSplit, ViewTyped
<1>2. view \in UNION {[E -> Views] : E \in SUBSET PacedOrders} /\ DOMAIN view = D
  BY <1>1
<1> HIDE DEF view
<1>3. o \in PacedOrders \cup {None}
  BY <1>1
<1>4. PICK new : new = [run EXCEPT !.view = view, !.order = o, !.next = next]
  OBVIOUS
<1>5. /\ new \in [now : Nat, todo : Seq(PacedOrders),
                  view : UNION {[E -> Views] : E \in SUBSET PacedOrders},
                  order : PacedOrders \cup {None}, next : {"orders", "slice", "heartbeat"}]
      /\ new.todo = run.todo /\ new.view = view /\ new.order = o /\ new.next = next
  BY <1>1, <1>2, <1>3, <1>4
<1>6. Holds(new)
  BY <1>2, <1>5, HoldsSplit
<1> QED  BY <1>4, <1>6 DEF view

LEMMA AfterHolds ==
  ASSUME NEW run, Holds(run)
  PROVE  /\ Holds(After(run))
         /\ \A o \in DOMAIN run.view : \A next \in {"slice", "heartbeat"} : Holds(With(run, o, next))
<1> DEFINE ahead == {run.todo[i] : i \in DOMAIN run.todo}
<1>1. ahead \subseteq DOMAIN run.view /\ \A i \in DOMAIN run.todo : run.todo[i] \in ahead
  BY DEF Holds
<1>2. After(run) = IF run.todo = <<>> THEN AtRest
                   ELSE [run EXCEPT !.view = [p \in ahead |-> run.view[p]], !.order = None,
                                    !.next = "orders"]
  BY DEF After
<1>3. \A o, next : With(run, o, next) =
        [run EXCEPT !.view = [p \in ahead \cup {o} |-> run.view[p]], !.order = o, !.next = next]
  BY DEF With
<1> HIDE DEF ahead
<1>4. Holds(After(run))
  <2>1. Holds([run EXCEPT !.view = [p \in ahead |-> run.view[p]], !.order = None, !.next = "orders"])
    BY <1>1, HoldsNarrowed
  <2> QED  BY <1>2, <2>1, AtRestHolds
<1>5. ASSUME NEW o \in DOMAIN run.view, NEW next \in {"slice", "heartbeat"}
      PROVE  Holds(With(run, o, next))
  <2>1. PICK D : D = ahead \cup {o}
    OBVIOUS
  <2>2. Holds([run EXCEPT !.view = [p \in D |-> run.view[p]], !.order = o, !.next = next])
    BY <1>1, <2>1, HoldsNarrowed
  <2> QED  BY <1>3, <2>1, <2>2
<1> QED  BY <1>4, <1>5

LEMMA DroppedOrder ==
  ASSUME queue \in Seq(PacedOrders), Distinct(queue), NEW o, DropQueued(o)
  PROVE  /\ queue' \in Seq(PacedOrders) /\ Distinct(queue') /\ Queued' = Queued \ {o}
<1>1. Queued = RangeOf(queue) /\ Queued' = RangeOf(queue')
  BY DEF Queued, RangeOf
<1>2. LET t == RemoveFirst(queue, o)
      IN t \in Seq(PacedOrders) /\ Distinct(t) /\ RangeOf(t) = RangeOf(queue) \ {o}
  BY RemovedFirst
<1> QED  BY <1>1, <1>2 DEF DropQueued

(* A step that sends no shares and leaves the quantities of the books.     *)
SameBooks ==
  /\ book' \in [PacedOrders -> PacedBook]
  /\ \A p \in PacedOrders : /\ book'[p].remaining = book[p].remaining
                            /\ book'[p].filled = book[p].filled
                            /\ book'[p].slices = book[p].slices
                            /\ book'[p].expiresAt = book[p].expiresAt

LEMMA PacedRests ==
  ASSUME PacedInv, NEW h \in PacedCallbacks, NEW run, Holds(run),
         paceLoop' = [paceLoop EXCEPT ![h] = run],
         UNCHANGED queue \/ \E o : DropQueued(o),
         SameBooks, UNCHANGED <<strategy, unanswered>>,
         \A p \in PacedOrders : UnderWay(p)' = UnderWay(p) /\ executed'[p] = executed[p]
  PROVE  PacedInv'
<1>1. \A p \in PacedOrders : \A t : Awaited(p, t)' = Awaited(p, t)
  BY DEF Awaited
<1>2. queue' \in Seq(PacedOrders) /\ Distinct(queue') /\ Queued' \subseteq Queued
  <2>1. queue \in Seq(PacedOrders) /\ Distinct(queue)
    BY DEF PacedInv, PacedTypes, PacedRouting
  <2>2. CASE UNCHANGED queue
    BY <2>1, <2>2 DEF Queued
  <2>3. CASE \E o : DropQueued(o)
    BY <2>1, <2>3, DroppedOrder
  <2> QED  BY <2>2, <2>3
<1>3. \A p, k : SentBy(p, k)' = SentBy(p, k)
  BY DEF SentBy, Unsent
<1>4. \A k \in PacedCallbacks : Holds(paceLoop'[k])
  BY DEF PacedInv, PacedTypes, PacedRouting
<1>5. PacedTypes'
  <2>1. paceLoop' \in [PacedCallbacks -> PacedRun]
    BY <1>4 DEF PacedInv, PacedTypes, Holds
  <2> QED  BY <1>2, <2>1 DEF PacedInv, PacedTypes, SameBooks
<1>6. PacedRouting'
  <2>1. \A p \in PacedOrders : NothingOf(p) => NothingOf(p)'
    BY DEF NothingOf
  <2>2. \A k \in PacedCallbacks : Holds(paceLoop[k])'
    BY <1>4 DEF Holds
  <2> QED  BY <1>2, <2>1, <2>2 DEF PacedInv, PacedRouting, SameBooks
<1>7. OnSchedule'
  BY <1>1, <1>3 DEF PacedInv, OnSchedule, SameBooks
<1>8. OneAtATime'
  BY <1>1, <1>2 DEF PacedInv, OneAtATime, SameBooks
<1>9. PacedBooks'
  BY <1>1, <1>2 DEF PacedInv, PacedBooks, SameBooks
<1> QED  BY <1>5, <1>6, <1>7, <1>8, <1>9 DEF PacedInv

(* Nothing but the books, the queue and one invocation changes.            *)
PacedFrame == UNCHANGED <<clock, strategy, bus, sniperVars, executed>>

LEMMA ReportKeeps ==
  ASSUME IInv, NEW h \in PacedCallbacks, NEW run, Holds(run), NEW o \in PacedOrders,
         NEW topic \in {"orders.expired", "algo.heartbeat"}, Settled(h),
         Send(Report(topic, o, h)), paceLoop' = [paceLoop EXCEPT ![h] = run],
         UNCHANGED queue \/ \E p : DropQueued(p),
         SameBooks, UNCHANGED unanswered, PacedFrame
  PROVE  IInv'
<1>1. TypeOK /\ Messages /\ SniperInv /\ PacedInv /\ SharedTypes
  BY IInvFacts DEF IInv
<1>2. \A p \in AllOrders : Counted(p)' = Counted(p)
  BY DEF Counted, AllOrders, SameBooks, PacedFrame, sniperVars
<1>3. /\ Messages' /\ sending' \subseteq Message /\ bus' \subseteq Message
      /\ Children' = Children /\ \A p : UnderWay(p)' = UnderWay(p)
  <2>1. o \in AllOrders /\ bus' = bus
    BY DEF AllOrders, PacedFrame
  <2> QED  BY <1>1, <1>2, <2>1, ReportSent
<1>4. SniperInv'
  BY <1>1, <1>3, SniperKept DEF PacedFrame
<1>5. PacedInv'
  BY <1>1, <1>3, PacedRests DEF PacedFrame
<1> QED  BY <1>1, <1>3, <1>4, <1>5 DEF IInv, SharedTypes, PacedFrame

(* The size of the next child.                                             *)
LEMMA RequestedFacts ==
  ASSUME PacedInv, NEW run, NEW o \in PacedOrders, SliceDue(run, o)
  PROVE  /\ Requested(o) \in Nat \ {0} /\ Requested(o) <= book[o].remaining
         /\ strategy = "IS" => /\ book[o].slices < NumSlices
                               /\ Requested(o) <= Scheduled(o, book[o].slices + 1)
<1>1. book[o] \in PacedBook /\ PacedQty[o] \in Nat /\ strategy \in {"IS", "ARRIVAL_PRICE", "MOMENTUM"}
  BY PacedAssumption DEF PacedInv, PacedTypes
<1>2. book[o].remaining \in Nat /\ book[o].slices \in Nat /\ Requested(o) > 0
  BY <1>1 DEF PacedBook, SliceDue
<1>3. \A a, b : Smaller(a, b) = IF a <= b THEN a ELSE b
  BY DEF Smaller
<1>4. CASE strategy = "IS"
  <2>1. IsDue(run, o)
    BY <1>4 DEF SliceDue
  <2>2. book[o].slices < NumSlices
    BY <2>1 DEF IsDue
  <2>3. Scheduled(o, book[o].slices + 1) \in Int
    <3>1. book[o].slices \in 0 .. NumSlices
      BY <1>2, <2>2, NumSlicesPositive
    <3> QED  BY <3>1, ScheduleFacts
  <2>4. Requested(o) = Smaller(book[o].remaining, Scheduled(o, book[o].slices + 1))
    BY <1>4 DEF Requested
  <2> QED  BY <1>2, <1>3, <2>2, <2>3, <2>4
<1>5. CASE strategy = "ARRIVAL_PRICE"
  <2>1. RoundedUp(PacedQty[o], TargetSlices) \in Int
    <3>1. \A x \in Nat, y \in Nat \ {0} : RoundedUp(x, y) \in Nat
      BY DivNat DEF RoundedUp
    <3>2. TargetSlices \in Nat \ {0}
      <4>1. Lifetime \in Nat \ {0} /\ BaseInterval \in Nat \ {0}
        BY ClockAssumption, PacedAssumption
      <4>2. \A x, y \in Nat \ {0} : (x + y - 1) \div y # 0
        OBVIOUS
      <4>3. TargetSlices # 0
        BY <4>1, <4>2 DEF TargetSlices, RoundedUp
      <4> QED  BY <3>1, <4>1, <4>3 DEF TargetSlices
    <3> QED  BY <1>1, <3>1, <3>2
  <2>2. Requested(o) = Smaller(book[o].remaining, RoundedUp(PacedQty[o], TargetSlices))
    BY <1>5 DEF Requested
  <2> QED  BY <1>2, <1>3, <1>5, <2>1, <2>2
<1>6. CASE strategy = "MOMENTUM"
  <2>1. RoundedUp(PacedQty[o], MaxTranches) \in Int
    <3>1. PacedQty[o] + MaxTranches - 1 \in Nat /\ MaxTranches \in Nat \ {0}
      BY <1>1, PacedAssumption
    <3> QED  BY <3>1, DivNat DEF RoundedUp
  <2>2. Requested(o) = Smaller(book[o].remaining, RoundedUp(PacedQty[o], MaxTranches))
    BY <1>6 DEF Requested
  <2> QED  BY <1>2, <1>3, <1>6, <2>1, <2>2
<1> QED  BY <1>1, <1>4, <1>5, <1>6

LEMMA SendSliceKeeps ==
  ASSUME IInv, NEW h \in PacedCallbacks, NEW run, Holds(run), NEW o \in DOMAIN run.view,
         Settled(h), SendSlice(h, run, o), UNCHANGED queue, PacedFrame
  PROVE  IInv'
<1>1. TypeOK /\ Messages /\ SniperInv /\ PacedInv /\ SharedTypes
  BY IInvFacts DEF IInv
<1>2. /\ o \in PacedOrders /\ o \notin Orders /\ h \notin Callbacks /\ run.now \in Nat
      /\ Holds(With(run, o, "heartbeat"))
  <2>1. DOMAIN run.view \subseteq PacedOrders /\ run.now \in Nat
    BY HoldsSplit, ViewTyped
  <2> QED  BY <2>1, AfterHolds, OneStrategy
<1>3. book \in [PacedOrders -> PacedBook] /\ book[o].slices \in Nat /\ book[o].filled \in Nat
      /\ book[o].remaining \in Nat
  BY <1>1, <1>2 DEF PacedInv, PacedTypes, PacedBook
<1>4. /\ Requested(o) \in Nat \ {0} /\ Requested(o) <= book[o].remaining
      /\ strategy = "IS" => /\ book[o].slices < NumSlices
                            /\ Requested(o) <= Scheduled(o, book[o].slices + 1)
  BY <1>1, <1>2, RequestedFacts DEF SendSlice
<1>5. PICK cap \in DepthCaps : Send(Child(o, book[o].slices + 1, Smaller(Requested(o), cap), h))
  BY DEF SendSlice
<1>6. PICK q : q = Smaller(Requested(o), cap)
  OBVIOUS
<1>7. q \in Nat \ {0} /\ q <= Requested(o)
  BY <1>4, <1>6, PacedAssumption DEF Smaller
<1>8. PICK n : n = book[o].slices + 1
  OBVIOUS
<1>9. /\ book' = [book EXCEPT ![o].slices = n,
                              ![o].lastSliceAt = run.now,
                              ![o].cooldown = IF strategy = "MOMENTUM" THEN CooldownTicks ELSE @]
      /\ paceLoop' = [paceLoop EXCEPT ![h] = With(run, o, "heartbeat")]
      /\ unanswered' = IF OnItsWay(o) \/ o \notin Queued
                       THEN unanswered \cup {o} ELSE unanswered
      /\ Send(Child(o, n, q, h))
  BY <1>5, <1>6, <1>8 DEF SendSlice
<1>10. /\ book' \in [PacedOrders -> PacedBook]
       /\ book'[o].slices = n /\ book'[o].filled = book[o].filled
       /\ book'[o].remaining = book[o].remaining /\ book'[o].expiresAt = book[o].expiresAt
       /\ \A p \in PacedOrders : p # o => book'[p] = book[p]
  <2>1. PICK cool : cool = IF strategy = "MOMENTUM" THEN CooldownTicks ELSE book[o].cooldown
    OBVIOUS
  <2>2. PICK new : new = [book[o] EXCEPT !.slices = n, !.lastSliceAt = run.now, !.cooldown = cool]
    OBVIOUS
  <2>3. cool \in 0 .. CooldownTicks /\ n \in Nat
    BY <1>2, <1>3, <1>8, <2>1, PacedAssumption DEF PacedBook
  <2>4. /\ new \in PacedBook
        /\ new.slices = n /\ new.filled = book[o].filled
        /\ new.remaining = book[o].remaining /\ new.expiresAt = book[o].expiresAt
    BY <1>2, <1>3, <2>2, <2>3 DEF PacedBook
  <2>5. book' = [book EXCEPT ![o] = new]
    BY <1>3, <1>9, <2>1, <2>2
  <2> QED  BY <1>2, <1>3, <2>4, <2>5
<1> DEFINE c == Child(o, n, q, h)
<1>11. /\ Messages' /\ sending' \subseteq Message /\ bus' \subseteq Message
       /\ Children' = Children \cup {c}
       /\ \A p : p # o => UnderWay(p)' = UnderWay(p)
       /\ UnderWay(o)' = UnderWay(o) \cup {c}
       /\ Awaited(o, "orders.child")' = Awaited(o, "orders.child") + q
       /\ Awaited(o, "orders.filled")' = Awaited(o, "orders.filled")
  <2>1. n = Counted(o) + 1 /\ Counted(o)' = n
    BY <1>2, <1>8, <1>10 DEF Counted
  <2>2. \A p \in AllOrders : p # o => Counted(p)' = Counted(p)
    BY <1>10 DEF Counted, AllOrders, PacedFrame, sniperVars
  <2>3. o \in AllOrders /\ bus' = bus /\ (h \in Callbacks <=> o \in Orders) /\ q \in Nat
    BY <1>2, <1>7 DEF AllOrders, PacedFrame
  <2> QED  BY <1>1, <1>9, <2>1, <2>2, <2>3, ChildSent
<1>12. c.qty = q /\ c.by = h
  BY DEF Child
<1> HIDE DEF c
<1>13. \A p \in PacedOrders : p # o => \A t : Awaited(p, t)' = Awaited(p, t)
  BY <1>11 DEF Awaited
<1>14. /\ Awaited(o, "orders.child") \in Nat /\ Awaited(o, "orders.filled") \in Nat
       /\ executed[o] \in Nat /\ executed' = executed
  BY <1>1, <1>2, WayIsAmounts DEF SharedTypes, AllOrders, PacedFrame
<1>15. Queued' = Queued /\ \A p, k : SentBy(p, k)' = SentBy(p, k)
  BY DEF PacedFrame, Queued, SentBy, Unsent
<1>16. PacedTypes'
  <2>1. \A k \in PacedCallbacks : paceLoop'[k] \in PacedRun
    BY <1>1, <1>2, <1>9 DEF PacedInv, PacedTypes, Holds
  <2>2. paceLoop' \in [PacedCallbacks -> PacedRun] /\ unanswered' \subseteq PacedOrders
    BY <1>1, <1>2, <1>9, <2>1 DEF PacedInv, PacedTypes
  <2> QED  BY <1>1, <1>10, <2>2 DEF PacedInv, PacedTypes, PacedFrame
<1>17. PacedRouting'
  <2>1. \A k \in PacedCallbacks : Holds(paceLoop[k])'
    BY <1>1, <1>2, <1>9 DEF PacedInv, PacedTypes, PacedRouting, Holds
  <2>2. book[o].expiresAt # 0
    BY <1>1, <1>2, <1>3, <1>4 DEF PacedInv, PacedRouting
  <2>3. \A p \in PacedOrders : p # o => (NothingOf(p) => NothingOf(p)')
    BY <1>11, <1>14 DEF NothingOf
  <2> QED  BY <1>1, <1>10, <1>15, <2>1, <2>2, <2>3 DEF PacedInv, PacedRouting
<1>18. OnSchedule'
  <2>1. ASSUME strategy = "IS"
        PROVE  /\ n <= NumSlices
               /\ executed[o] + Awaited(o, "orders.child")' <= SentBy(o, n)
    <3>1. book[o].slices \in 0 .. NumSlices /\ book[o].slices < NumSlices
      BY <1>3, <1>4, <2>1, NumSlicesPositive
    <3>2. /\ SentBy(o, book[o].slices) \in Int
          /\ Scheduled(o, n) \in Int
          /\ SentBy(o, n) = SentBy(o, book[o].slices) + Scheduled(o, n)
      BY <1>2, <1>8, <3>1, ScheduleFacts
    <3>3. executed[o] + Awaited(o, "orders.child") <= SentBy(o, book[o].slices)
      BY <1>1, <1>2, <2>1 DEF PacedInv, OnSchedule
    <3>4. q <= Scheduled(o, n)
      BY <1>4, <1>7, <1>8, <2>1, <3>2
    <3>5. n <= NumSlices
      BY <1>3, <1>8, <3>1, NumSlicesPositive
    <3>6. executed[o] + Awaited(o, "orders.child")' <= SentBy(o, n)
      BY <1>7, <1>11, <1>14, <3>2, <3>3, <3>4
    <3> QED  BY <3>5, <3>6
  <2> QED  BY <1>1, <1>10, <1>13, <1>14, <1>15, <2>1 DEF PacedInv, OnSchedule, PacedFrame
<1>19. PacedBooks'
  BY <1>1, <1>10, <1>11, <1>13, <1>14, <1>15 DEF PacedInv, PacedBooks
<1>20. OneAtATime'
  <2> SUFFICES ASSUME NEW p \in PacedOrders, p \notin unanswered'
               PROVE  /\ \A m, k \in UnderWay(p)' : m = k
                      /\ executed[p] + Awaited(p, "orders.child")' <= PacedQty[p]
                      /\ p \in Queued => /\ book'[p].filled + book'[p].remaining = PacedQty[p]
                                         /\ \A m \in UnderWay(p)' : m.qty <= book'[p].remaining
    BY <1>14, <1>15 DEF OneAtATime
  <2>1. /\ p \notin unanswered
        /\ \A m, k \in UnderWay(p) : m = k
        /\ executed[p] + Awaited(p, "orders.child") <= PacedQty[p]
        /\ p \in Queued => /\ book[p].filled + book[p].remaining = PacedQty[p]
                           /\ \A m \in UnderWay(p) : m.qty <= book[p].remaining
    <3>1. p \notin unanswered
      BY <1>9
    <3> QED  BY <1>1, <3>1 DEF PacedInv, OneAtATime
  <2>2. CASE p # o
    BY <1>10, <1>11, <1>13, <2>1, <2>2
  <2>3. CASE p = o
    <3>1. o \in Queued /\ ~OnItsWay(o)
      BY <1>9, <2>3
    <3>2. UnderWay(o) = {}
      BY <3>1 DEF OnItsWay, UnderWay
    <3>3. UnderWay(o)' = {c}
      BY <1>11, <3>2
    <3>4. Awaited(o, "orders.filled") = 0 /\ Awaited(o, "orders.child") = 0
      <4>1. \A t : {m \in UnderWay(o) : m.topic = t} = {}
        BY <3>2
      <4> QED  BY <4>1, QuantityIsTotal, TotalEmpty DEF Awaited
    <3>5. executed[o] = book[o].filled + 0
      BY <1>1, <1>2, <3>1, <3>4 DEF PacedInv, PacedBooks
    <3>6. /\ book[o].filled + book[o].remaining = PacedQty[o] /\ PacedQty[o] \in Nat
      BY <1>2, <2>1, <2>3, <3>1, PacedAssumption
    <3>7. q <= book[o].remaining
      BY <1>3, <1>4, <1>7
    <3>8. executed[o] + Awaited(o, "orders.child")' <= PacedQty[o]
      BY <1>3, <1>7, <1>11, <3>4, <3>5, <3>6, <3>7
    <3> QED  BY <1>10, <1>12, <2>3, <3>3, <3>6, <3>7, <3>8
  <2> QED  BY <2>2, <2>3
<1>21. PacedInv'
  BY <1>16, <1>17, <1>18, <1>19, <1>20 DEF PacedInv
<1>22. SniperInv'
  <2>1. \A p \in Orders : p # o
    BY <1>2
  <2>2. \A m \in Children' : m.by \in Callbacks => m \in Children
    BY <1>2, <1>11, <1>12
  <2> QED  BY <1>1, <1>11, <1>14, <2>1, <2>2, SniperKept DEF PacedFrame
<1> QED  BY <1>1, <1>11, <1>21, <1>22 DEF IInv, SharedTypes, PacedFrame

LEMMA BeatKeeps ==
  ASSUME IInv, NEW h \in PacedCallbacks, NEW run, Holds(run), NEW o \in PacedOrders,
         Settled(h), Beat(h, run, o), UNCHANGED queue, SameBooks, PacedFrame
  PROVE  IInv'
BY ReportKeeps DEF Beat

LEMMA PassKeeps ==
  ASSUME IInv, NEW h \in PacedCallbacks, NEW run, Holds(run), NEW o \in DOMAIN run.view,
         Settled(h), Pass(h, run, o), PacedFrame
  PROVE  IInv'
<1>1. /\ o \in PacedOrders /\ Holds(After(run)) /\ Holds(With(run, o, "slice"))
      /\ book \in [PacedOrders -> PacedBook]
  <2>1. DOMAIN run.view \subseteq PacedOrders
    BY HoldsSplit, ViewTyped
  <2> QED  BY <2>1, AfterHolds, IInvFacts DEF PacedInv, PacedTypes
<1>2. UNCHANGED book => SameBooks
  BY <1>1 DEF SameBooks
<1>3. CASE PacedExpire(h, run, o)
  <2>1. /\ Send(Report("orders.expired", o, h)) /\ paceLoop' = [paceLoop EXCEPT ![h] = After(run)]
        /\ DropQueued(o) /\ UNCHANGED <<book, unanswered>>
    BY <1>3 DEF PacedExpire
  <2>2. PICK new : new = After(run)
    OBVIOUS
  <2> QED  BY <1>1, <1>2, <2>1, <2>2, ReportKeeps
<1>4. CASE IsPass(h, run, o) /\ UNCHANGED queue
  <2> DEFINE adverse == run.view[o] = "adverse"
  <2>1. CASE SendSlice(h, run, o)
    BY <1>4, <2>1, SendSliceKeeps
  <2>2. ASSUME book' = [book EXCEPT ![o].paused = adverse],
               Beat(h, IF adverse THEN After(run) ELSE With(run, o, "slice"), o)
        PROVE  IInv'
    <3>1. PICK new : new = IF adverse THEN After(run) ELSE With(run, o, "slice")
      OBVIOUS
    <3>2. Holds(new)
      BY <1>1, <3>1
    <3>3. SameBooks
      <4>1. PICK b : b = [book[o] EXCEPT !.paused = adverse]
        OBVIOUS
      <4>2. /\ b \in PacedBook /\ b.remaining = book[o].remaining /\ b.filled = book[o].filled
            /\ b.slices = book[o].slices /\ b.expiresAt = book[o].expiresAt
        BY <1>1, <4>1 DEF PacedBook
      <4>3. book' = [book EXCEPT ![o] = b]
        BY <1>1, <2>2, <4>1
      <4> QED  BY <1>1, <4>2, <4>3 DEF SameBooks
    <3> QED  BY <1>1, <1>4, <2>2, <3>1, <3>2, <3>3, BeatKeeps
  <2> QED  BY <1>4, <2>1, <2>2 DEF IsPass
<1>5. CASE ArrivalPass(h, run, o) /\ UNCHANGED queue
  <2>1. CASE SendSlice(h, run, o)
    BY <1>5, <2>1, SendSliceKeeps
  <2>2. CASE Beat(h, After(run), o) /\ UNCHANGED book
    <3>1. PICK new : new = After(run)
      OBVIOUS
    <3> QED  BY <1>1, <1>2, <1>5, <2>2, <3>1, BeatKeeps
  <2> QED  BY <1>5, <2>1, <2>2 DEF ArrivalPass
<1>6. CASE MomentumPass(h, run, o) /\ UNCHANGED queue
  <2>1. PICK new : new = With(run, o, "slice")
    OBVIOUS
  <2>2. Beat(h, new, o)
    BY <1>6, <2>1 DEF MomentumPass
  <2>3. SameBooks
    <3>1. PICK b : b = [book[o] EXCEPT !.ticksSeen = Smaller(LongPeriod, @ + 1), !.cooldown = Less(@, 1)]
      OBVIOUS
    <3>2. Smaller(LongPeriod, book[o].ticksSeen + 1) \in 0 .. LongPeriod
          /\ Less(book[o].cooldown, 1) \in 0 .. CooldownTicks
      BY <1>1, PacedAssumption DEF PacedBook, Smaller, Less
    <3>3. /\ b \in PacedBook /\ b.remaining = book[o].remaining /\ b.filled = book[o].filled
          /\ b.slices = book[o].slices /\ b.expiresAt = book[o].expiresAt
      BY <1>1, <3>1, <3>2 DEF PacedBook
    <3>4. book' = [book EXCEPT ![o] = b]
      BY <1>1, <1>6, <3>1 DEF MomentumPass
    <3> QED  BY <1>1, <3>3, <3>4 DEF SameBooks
  <2> QED  BY <1>1, <1>6, <2>1, <2>2, <2>3, BeatKeeps
<1> QED  BY <1>3, <1>4, <1>5, <1>6 DEF Pass

LEMMA PacedLoopKeeps ==
  ASSUME IInv, NEW h \in PacedCallbacks, NEW run, Holds(run), Settled(h), PacedLoop(h, run), PacedFrame
  PROVE  IInv'
<1>1. TypeOK /\ Messages /\ SniperInv /\ PacedInv /\ SharedTypes
  BY IInvFacts DEF IInv
<1>2. CASE /\ paceLoop' = [paceLoop EXCEPT ![h] = AtRest]
           /\ UNCHANGED <<queue, book, unanswered, sending>>
  <2>1. \A p \in AllOrders : Counted(p)' = Counted(p)
    BY <1>2 DEF Counted, PacedFrame, sniperVars
  <2>2. /\ Messages' /\ Children' = Children /\ \A p : UnderWay(p)' = UnderWay(p)
    BY <1>1, <1>2, <2>1, NothingSent DEF PacedFrame
  <2>3. SniperInv'
    BY <1>1, <2>2, SniperKept DEF PacedFrame
  <2>4. SameBooks
    BY <1>1, <1>2 DEF SameBooks, PacedInv, PacedTypes
  <2>5. PacedInv'
    <3>1. PICK rest : rest = AtRest
      OBVIOUS
    <3>2. Holds(rest) /\ paceLoop' = [paceLoop EXCEPT ![h] = rest]
      BY <1>2, <3>1, AtRestHolds
    <3> QED  BY <1>1, <1>2, <2>2, <2>4, <3>2, PacedRests DEF PacedFrame
  <2>6. SharedTypes'
    BY <1>1, <1>2 DEF SharedTypes, PacedFrame
  <2> QED  BY <2>2, <2>3, <2>5, <2>6 DEF IInv
<1>3. ASSUME NEW i \in DOMAIN run.todo,
             Pass(h, [run EXCEPT !.todo = SubSeq(@, i + 1, Len(@))], run.todo[i])
      PROVE  IInv'
  <2>1. PICK rest : rest = [run EXCEPT !.todo = SubSeq(@, i + 1, Len(@))]
    OBVIOUS
  <2>2. PICK o : o = run.todo[i]
    OBVIOUS
  <2>3. run.todo \in Seq(PacedOrders) /\ o \in DOMAIN run.view
    BY <2>2, HoldsSplit DEF Holds
  <2>4. PICK ahead : ahead = SubSeq(run.todo, i + 1, Len(run.todo))
    OBVIOUS
  <2>5. /\ ahead \in Seq(PacedOrders) /\ \A j \in DOMAIN ahead : ahead[j] \in DOMAIN run.view
    <3>1. \A j \in i + 1 .. Len(run.todo) : run.todo[j] \in DOMAIN run.view
      BY <2>3 DEF Holds
    <3>2. i + 1 \in Int /\ Len(run.todo) \in Int
      BY <2>3
    <3>3. ahead \in Seq(DOMAIN run.view)
      BY <2>4, <3>1, <3>2, SubSeqProperties
    <3>4. ahead \in Seq(PacedOrders)
      BY <2>3, <2>4, SuffixTyped
    <3> QED  BY <3>3, <3>4
  <2>6. /\ rest = [run EXCEPT !.todo = ahead]
    BY <2>1, <2>4
  <2>7. Holds(rest) /\ rest.view = run.view
    <3>1. /\ run \in [now : Nat, todo : Seq(PacedOrders),
                      view : UNION {[D -> Views] : D \in SUBSET PacedOrders},
                      order : PacedOrders \cup {None}, next : {"orders", "slice", "heartbeat"}]
          /\ run.next # "orders" => run.order \in DOMAIN run.view
      BY HoldsSplit
    <3>2. /\ rest \in [now : Nat, todo : Seq(PacedOrders),
                       view : UNION {[D -> Views] : D \in SUBSET PacedOrders},
                       order : PacedOrders \cup {None}, next : {"orders", "slice", "heartbeat"}]
          /\ rest.view = run.view /\ rest.todo = ahead /\ rest.next = run.next /\ rest.order = run.order
      BY <2>5, <2>6, <3>1
    <3> QED  BY <2>5, <3>1, <3>2, HoldsSplit
  <2>8. Pass(h, rest, o)
    BY <1>3, <2>1, <2>2
  <2> QED  BY <2>3, <2>7, <2>8, PassKeeps
<1> QED  BY <1>2, <1>3 DEF PacedLoop

LEMMA PacedTickKeeps ==
  ASSUME IInv, NEW h \in PacedCallbacks, PacedTick(h) \/ (h = PacedSweep /\ PacedSweeps) \/ PacedResume(h),
         UNCHANGED <<sniperVars, executed>>
  PROVE  IInv'
<1>1. PacedInv /\ SharedTypes /\ clock \in Nat /\ Queued \subseteq PacedOrders /\ queue \in Seq(PacedOrders)
  <2>1. PacedInv /\ SharedTypes
    BY IInvFacts DEF IInv
  <2>2. clock \in Nat /\ queue \in Seq(PacedOrders)
    BY <2>1, ClockAssumption DEF SharedTypes, PacedInv, PacedTypes
  <2> QED  BY <2>1, <2>2 DEF Queued
<1>2. PacedFrame
  BY DEF PacedTick, PacedSweeps, PacedResume, PacedFrame
<1>3. ASSUME NEW view \in [Queued -> Views],
             PacedLoop(h, [AtRest EXCEPT !.now = clock, !.todo = queue, !.view = view]), Settled(h)
      PROVE  IInv'
  <2>1. PICK run : run = [AtRest EXCEPT !.now = clock, !.todo = queue, !.view = view]
    OBVIOUS
  <2>2. run = [now |-> clock, todo |-> queue, view |-> view, order |-> None, next |-> "orders"]
    BY <2>1 DEF AtRest
  <2>3. view \in UNION {[D -> Views] : D \in SUBSET PacedOrders} /\ DOMAIN view = Queued
    BY <1>1
  <2>4. \A i \in DOMAIN queue : queue[i] \in Queued
    BY DEF Queued
  <2>5. Holds(run)
    BY <1>1, <2>2, <2>3, <2>4, HoldsSplit
  <2> QED  BY <1>2, <1>3, <2>1, <2>5, PacedLoopKeeps
<1>4. CASE PacedTick(h)
  <2>1. PICK view \in [Queued -> {"unpriced", "adverse", "level", "favourable"}] :
          PacedLoop(h, [AtRest EXCEPT !.now = clock, !.todo = queue, !.view = view])
    BY <1>4 DEF PacedTick
  <2>2. view \in [Queued -> Views]
    BY DEF Views
  <2>3. Settled(h)
    BY <1>4 DEF PacedTick, AtLeisure
  <2> QED  BY <1>3, <2>1, <2>2, <2>3
<1>5. CASE h = PacedSweep /\ PacedSweeps
  <2>1. PICK view : view = [o \in Queued |-> "swept"]
    OBVIOUS
  <2>2. /\ PacedLoop(h, [AtRest EXCEPT !.now = clock, !.todo = queue, !.view = view])
        /\ Settled(h) /\ view \in [Queued -> Views]
    BY <1>5, <2>1 DEF PacedSweeps, AtLeisure, Views
  <2> QED  BY <1>3, <2>2
<1>6. CASE PacedResume(h)
  <2> DEFINE run == paceLoop[h]
  <2>1. Holds(run) /\ Settled(h)
    BY <1>1, <1>6 DEF PacedInv, PacedRouting, PacedResume
  <2>2. CASE run.next = "orders"
    <3>1. PacedLoop(h, run)
      BY <1>6, <2>2 DEF PacedResume
    <3>2. PICK r : r = run
      OBVIOUS
    <3> QED  BY <1>2, <2>1, <3>1, <3>2, PacedLoopKeeps
  <2>3. CASE run.next = "heartbeat"
    <3>1. Beat(h, After(run), run.order) /\ UNCHANGED <<queue, book>>
      BY <1>6, <2>3 DEF PacedResume
    <3>2. PICK r : r = After(run)
      OBVIOUS
    <3>3. PICK o \in PacedOrders : o = run.order
      <4>1. run.order \in DOMAIN run.view
        BY <2>1, <2>3 DEF Holds
      <4>2. DOMAIN run.view \subseteq PacedOrders
        BY <2>1, HoldsSplit, ViewTyped
      <4> QED  BY <4>1, <4>2
    <3>4. Holds(r)
      BY <2>1, <3>2, AfterHolds
    <3>5. SameBooks
      BY <1>1, <3>1 DEF SameBooks, PacedInv, PacedTypes
    <3> QED  BY <1>2, <2>1, <3>1, <3>2, <3>3, <3>4, <3>5, BeatKeeps
  <2>4. CASE run.next = "slice"
    <3>1. \/ SendSlice(h, run, run.order) /\ UNCHANGED queue
          \/ PacedLoop(h, After(run))
      BY <1>6, <2>4 DEF PacedResume
    <3>2. PICK r : r = run
      OBVIOUS
    <3>3. PICK o \in DOMAIN r.view : o = r.order
      BY <2>1, <2>4, <3>2 DEF Holds
    <3>4. CASE SendSlice(h, run, run.order) /\ UNCHANGED queue
      BY <1>2, <2>1, <3>2, <3>3, <3>4, SendSliceKeeps
    <3>5. CASE PacedLoop(h, After(run))
      <4>1. PICK a : a = After(run)
        OBVIOUS
      <4> QED  BY <1>2, <2>1, <3>5, <4>1, AfterHolds, PacedLoopKeeps
    <3> QED  BY <3>1, <3>4, <3>5
  <2>5. run.next \in {"orders", "heartbeat", "slice"}
    BY <2>1, HoldsSplit
  <2> QED  BY <2>2, <2>3, <2>4, <2>5
<1> QED  BY <1>4, <1>5, <1>6

LEMMA PacedRoutedKeeps ==
  ASSUME IInv, NEW o \in PacedOrders, PacedRouted(o), UNCHANGED <<sniperVars, executed>>
  PROVE  IInv'
<1>1. TypeOK /\ Messages /\ SniperInv /\ PacedInv /\ SharedTypes
  BY IInvFacts DEF IInv
<1>2. PICK new : new = [NoBook EXCEPT !.remaining = PacedQty[o], !.expiresAt = clock + Lifetime]
  OBVIOUS
<1>3. /\ new \in PacedBook /\ new.remaining = PacedQty[o] /\ new.filled = 0 /\ new.slices = 0
      /\ new.expiresAt # 0 /\ PacedQty[o] \in Nat
  <2>1. clock + Lifetime \in Nat /\ clock + Lifetime # 0 /\ PacedQty[o] \in Nat
    BY <1>1, ClockAssumption, PacedAssumption DEF SharedTypes
  <2>2. PICK quantity, expiry \in Nat : quantity = PacedQty[o] /\ expiry = clock + Lifetime
    BY <2>1
  <2>3. new = [remaining |-> quantity, filled |-> 0, slices |-> 0, lastSliceAt |-> 0,
               expiresAt |-> expiry, paused |-> FALSE, ticksSeen |-> 0, cooldown |-> 0]
    BY <1>2, <2>2 DEF NoBook
  <2>4. 0 \in 0 .. LongPeriod /\ 0 \in 0 .. CooldownTicks
    BY PacedAssumption
  <2>5. new \in PacedBook
    BY <2>2, <2>3, <2>4 DEF PacedBook
  <2> QED  BY <2>1, <2>2, <2>3, <2>5
<1>4. /\ book[o] = NoBook /\ queue' = Append(queue, o) /\ book' = [book EXCEPT ![o] = new]
      /\ UNCHANGED <<clock, strategy, paceLoop, unanswered, sending, bus>>
  BY <1>2 DEF PacedRouted
<1>5. /\ o \notin Queued /\ book[o].slices = 0 /\ executed[o] = 0 /\ UnderWay(o) = {}
  <2>1. book[o].expiresAt = 0
    BY <1>4 DEF NoBook
  <2> QED  BY <1>1, <2>1 DEF PacedInv, PacedRouting, NothingOf
<1>6. /\ book' \in [PacedOrders -> PacedBook] /\ book'[o] = new
      /\ \A p \in PacedOrders : p # o => book'[p] = book[p]
  BY <1>1, <1>3, <1>4 DEF PacedInv, PacedTypes
<1>7. /\ Messages' /\ Children' = Children /\ \A p : UnderWay(p)' = UnderWay(p)
  <2>1. \A p \in AllOrders : Counted(p)' = Counted(p)
    BY <1>3, <1>5, <1>6 DEF Counted, AllOrders, sniperVars
  <2> QED  BY <1>1, <1>4, <2>1, NothingSent
<1>8. \A p : \A t : Awaited(p, t)' = Awaited(p, t)
  BY <1>7 DEF Awaited
<1>9. \A t : Awaited(o, t) = 0
  <2>1. \A t : {m \in UnderWay(o) : m.topic = t} = {}
    BY <1>5
  <2> QED  BY <2>1, QuantityIsTotal, TotalEmpty DEF Awaited
<1>10. /\ queue' \in Seq(PacedOrders) /\ Distinct(queue') /\ Queued' = Queued \cup {o}
  <2>1. queue \in Seq(PacedOrders) /\ Distinct(queue)
    BY <1>1 DEF PacedInv, PacedTypes, PacedRouting
  <2>2. /\ queue' \in Seq(PacedOrders) /\ Len(queue') = Len(queue) + 1
        /\ \A i \in 1 .. Len(queue) : queue'[i] = queue[i]
        /\ queue'[Len(queue) + 1] = o
    BY <1>4, <2>1, AppendProperties
  <2>3. /\ DOMAIN queue = 1 .. Len(queue) /\ Len(queue) \in Nat
        /\ DOMAIN queue' = 1 .. Len(queue) + 1
    BY <2>1, <2>2
  <2>4. \A i \in DOMAIN queue : queue[i] # o
    BY <1>5 DEF Queued
  <2>5. Distinct(queue')
    BY <2>1, <2>2, <2>3, <2>4 DEF Distinct
  <2>6. Queued' = Queued \cup {o}
    BY <2>2, <2>3 DEF Queued
  <2> QED  BY <2>2, <2>5, <2>6
<1>11. PacedTypes'
  BY <1>1, <1>4, <1>6, <1>10 DEF PacedInv, PacedTypes
<1>12. PacedRouting'
  <2>1. \A p : NothingOf(p) => NothingOf(p)'
    BY <1>7 DEF NothingOf
  <2>2. \A k \in PacedCallbacks : Holds(paceLoop[k])'
    BY <1>1, <1>4 DEF PacedInv, PacedRouting, Holds
  <2> QED  BY <1>1, <1>3, <1>6, <1>10, <2>1, <2>2 DEF PacedInv, PacedRouting
<1>13. OnSchedule'
  <2>1. \A p, k : SentBy(p, k)' = SentBy(p, k)
    BY DEF SentBy, Unsent
  <2>2. SentBy(o, 0) = 0 /\ 0 <= NumSlices
    BY NumSlicesPositive DEF SentBy
  <2> QED  BY <1>1, <1>3, <1>4, <1>5, <1>6, <1>8, <1>9, <2>1, <2>2 DEF PacedInv, OnSchedule
<1>14. OneAtATime'
  BY <1>1, <1>3, <1>4, <1>5, <1>6, <1>7, <1>8, <1>9, <1>10 DEF PacedInv, OneAtATime
<1>15. PacedBooks'
  BY <1>1, <1>3, <1>5, <1>6, <1>8, <1>9, <1>10 DEF PacedInv, PacedBooks
<1>16. SniperInv'
  BY <1>1, <1>7, SniperKept
<1> QED  BY <1>1, <1>4, <1>7, <1>11, <1>12, <1>13, <1>14, <1>15, <1>16 DEF IInv, PacedInv, SharedTypes

LEMMA PacedFillKeeps ==
  ASSUME IInv, NEW m, PacedFill(m), UNCHANGED <<sniperVars, executed>>
  PROVE  IInv'
<1> DEFINE o == m.order
           q == m.qty
           left == Less(book[o].remaining, q)
<1>1. TypeOK /\ Messages /\ SniperInv /\ PacedInv /\ SharedTypes
  BY IInvFacts DEF IInv
<1>2. /\ m \in bus /\ m.topic = "orders.filled" /\ o \in PacedOrders /\ bus' = bus \ {m}
      /\ UNCHANGED <<clock, strategy, paceLoop, unanswered, sending, executed>>
      /\ IF o \in Queued
         THEN /\ book' = [book EXCEPT ![o].filled = @ + q, ![o].remaining = left]
              /\ IF left = 0 THEN DropQueued(o) ELSE UNCHANGED queue
         ELSE UNCHANGED <<queue, book>>
  BY DEF PacedFill
<1>3. book \in [PacedOrders -> PacedBook] /\ book[o].filled \in Nat /\ book[o].remaining \in Nat
  BY <1>1, <1>2 DEF PacedInv, PacedTypes, PacedBook
<1>4. q \in Nat
  BY <1>1, <1>2 DEF SharedTypes, Message
<1>5. left \in Nat
  BY <1>3, <1>4 DEF Less
<1>6. /\ book' \in [PacedOrders -> PacedBook]
      /\ \A p \in PacedOrders : p # o => book'[p] = book[p]
      /\ book'[o].slices = book[o].slices /\ book'[o].expiresAt = book[o].expiresAt
      /\ o \in Queued => book'[o].filled = book[o].filled + q /\ book'[o].remaining = left
      /\ o \notin Queued => book' = book
  <2>1. CASE o \in Queued
    <3>1. PICK f : f = book[o].filled + q
      OBVIOUS
    <3>2. PICK new : new = [book[o] EXCEPT !.filled = f, !.remaining = left]
      OBVIOUS
    <3> HIDE DEF left
    <3>3. /\ new \in PacedBook /\ new.filled = book[o].filled + q /\ new.remaining = left
          /\ new.slices = book[o].slices /\ new.expiresAt = book[o].expiresAt
      <4>1. PICK b \in PacedBook : b = book[o]
        BY <1>2, <1>3
      <4>2. PICK l \in Nat : l = left
        BY <1>5
      <4>3. f \in Nat
        BY <1>3, <1>4, <3>1
      <4>4. new = [b EXCEPT !.filled = f, !.remaining = l]
        BY <3>2, <4>1, <4>2
      <4>5. /\ new \in PacedBook /\ new.filled = f /\ new.remaining = l
            /\ new.slices = b.slices /\ new.expiresAt = b.expiresAt
        BY <4>3, <4>4 DEF PacedBook
      <4> QED  BY <3>1, <4>1, <4>2, <4>5
    <3>4. book' = [book EXCEPT ![o] = new]
      BY <1>2, <1>3, <2>1, <3>1, <3>2
    <3> QED  BY <1>2, <1>3, <2>1, <3>3, <3>4
  <2>2. CASE o \notin Queued
    BY <1>2, <1>3, <2>2
  <2> QED  BY <2>1, <2>2
<1>7. /\ Messages' /\ sending' \subseteq Message /\ bus' \subseteq Message
      /\ Children' = Children \ {m} /\ \A p : UnderWay(p)' = UnderWay(p) \ {m}
      /\ m \in UnderWay(o)
      /\ Awaited(o, "orders.filled") = Awaited(o, "orders.filled")' + q
      /\ Awaited(o, "orders.child") = Awaited(o, "orders.child")' + 0
  <2>1. Gone(m)
    BY <1>2 DEF Gone
  <2>2. \A p \in AllOrders : Counted(p)' = Counted(p)
    BY <1>6 DEF Counted, AllOrders, sniperVars
  <2>3. /\ Messages' /\ sending' \subseteq Message /\ bus' \subseteq Message
        /\ Children' = Children \ {m} /\ \A p : UnderWay(p)' = UnderWay(p) \ {m}
        /\ m \in UnderWay(o)
        /\ \A t \in {"orders.child", "orders.filled"} :
             Awaited(o, t) = Awaited(o, t)' + (IF m.topic = t THEN q ELSE 0)
    BY <1>1, <1>2, <2>1, <2>2, MessageGone
  <2> QED  BY <1>2, <2>3
<1> HIDE DEF left
<1>8. \A p : p # o => UnderWay(p)' = UnderWay(p) /\ \A t : Awaited(p, t)' = Awaited(p, t)
  <2>1. \A p : p # o => UnderWay(p)' = UnderWay(p)
    BY <1>7 DEF UnderWay
  <2> QED  BY <2>1 DEF Awaited
<1>9. /\ Awaited(o, "orders.child")' = Awaited(o, "orders.child")
      /\ Awaited(o, "orders.child") \in Nat /\ Awaited(o, "orders.filled")' \in Nat
  BY <1>7, WayIsAmountsNext
<1>10. /\ queue' \in Seq(PacedOrders) /\ Distinct(queue') /\ Queued' \subseteq Queued
  <2>1. queue \in Seq(PacedOrders) /\ Distinct(queue)
    BY <1>1 DEF PacedInv, PacedTypes, PacedRouting
  <2>2. CASE DropQueued(o)
    BY <2>1, <2>2, DroppedOrder
  <2>3. CASE UNCHANGED queue
    BY <2>1, <2>3 DEF Queued
  <2> QED  BY <1>2, <2>2, <2>3
<1>11. o \in Queued' => left # 0
  <2>1. CASE left = 0 /\ o \in Queued
    <3>1. DropQueued(o)
      BY <1>2, <2>1
    <3> QED  BY <1>1, <3>1, DroppedOrder DEF PacedInv, PacedTypes, PacedRouting
  <2> QED  BY <1>10, <2>1
<1>12. PacedTypes'
  BY <1>1, <1>2, <1>6, <1>10 DEF PacedInv, PacedTypes
<1>13. PacedRouting'
  <2>1. book[o].expiresAt # 0
    BY <1>1, <1>2, <1>7 DEF PacedInv, PacedRouting, NothingOf
  <2>2. \A p : p # o => (NothingOf(p) => NothingOf(p)')
    BY <1>2, <1>8 DEF NothingOf
  <2>3. \A k \in PacedCallbacks : Holds(paceLoop[k])'
    BY <1>1, <1>2 DEF PacedInv, PacedRouting, Holds
  <2> QED  BY <1>1, <1>6, <1>10, <2>1, <2>2, <2>3 DEF PacedInv, PacedRouting
<1>14. OnSchedule'
  <2>1. \A p, k : SentBy(p, k)' = SentBy(p, k)
    BY DEF SentBy, Unsent
  <2>2. \A p \in PacedOrders : /\ book'[p].slices = book[p].slices
                               /\ Awaited(p, "orders.child")' = Awaited(p, "orders.child")
    BY <1>6, <1>8, <1>9
  <2> QED  BY <1>1, <1>2, <2>1, <2>2 DEF PacedInv, OnSchedule
<1>15. OneAtATime'
  <2> SUFFICES ASSUME NEW p \in PacedOrders, p \notin unanswered
               PROVE  /\ \A a, b \in UnderWay(p)' : a = b
                      /\ executed[p] + Awaited(p, "orders.child")' <= PacedQty[p]
                      /\ p \in Queued' => /\ book'[p].filled + book'[p].remaining = PacedQty[p]
                                          /\ \A a \in UnderWay(p)' : a.qty <= book'[p].remaining
    BY <1>2 DEF OneAtATime
  <2>1. /\ \A a, b \in UnderWay(p) : a = b
        /\ executed[p] + Awaited(p, "orders.child") <= PacedQty[p]
        /\ p \in Queued => /\ book[p].filled + book[p].remaining = PacedQty[p]
                           /\ \A a \in UnderWay(p) : a.qty <= book[p].remaining
    BY <1>1 DEF PacedInv, OneAtATime
  <2>2. CASE p # o
    BY <1>6, <1>8, <1>10, <2>1, <2>2
  <2>3. CASE p = o
    <3>1. UnderWay(o)' = {}
      BY <1>7, <2>1, <2>3
    <3>2. o \in Queued' => book'[o].filled + book'[o].remaining = PacedQty[o]
      <4>1. ASSUME o \in Queued'
            PROVE  book'[o].filled + book'[o].remaining = PacedQty[o]
        <5>1. /\ o \in Queued /\ book[o].filled + book[o].remaining = PacedQty[o]
              /\ q <= book[o].remaining
          BY <1>7, <1>10, <2>1, <2>3, <4>1
        <5>2. left = book[o].remaining - q
          BY <1>3, <1>4, <5>1 DEF left, Less
        <5> QED  BY <1>3, <1>4, <1>6, <5>1, <5>2
      <4> QED  BY <4>1
    <3> QED  BY <1>9, <2>1, <2>3, <3>1, <3>2
  <2> QED  BY <2>2, <2>3
<1>16. PacedBooks'
  <2>1. o \in Queued' => book'[o].filled + Awaited(o, "orders.filled")' = executed[o]
    <3>1. ASSUME o \in Queued'
          PROVE  book'[o].filled + Awaited(o, "orders.filled")' = executed[o]
      <4>1. o \in Queued /\ book[o].filled + Awaited(o, "orders.filled") = executed[o]
        BY <1>1, <1>2, <1>10, <3>1 DEF PacedInv, PacedBooks
      <4> QED  BY <1>3, <1>4, <1>6, <1>7, <1>9, <4>1
    <3> QED  BY <3>1
  <2>2. ASSUME NEW p \in Queued', p # o
        PROVE  book'[p].filled + Awaited(p, "orders.filled")' = executed[p]
    <3>1. p \in Queued /\ p \in PacedOrders
      BY <1>1, <1>10, <2>2 DEF PacedInv, PacedTypes, Queued
    <3>2. book[p].filled + Awaited(p, "orders.filled") = executed[p]
      BY <1>1, <3>1 DEF PacedInv, PacedBooks
    <3>3. book'[p] = book[p] /\ Awaited(p, "orders.filled")' = Awaited(p, "orders.filled")
      BY <1>6, <1>8, <2>2, <3>1
    <3> QED  BY <3>2, <3>3
  <2>3. executed' = executed
    BY <1>2
  <2> QED  BY <2>1, <2>2, <2>3 DEF PacedBooks
<1>17. SniperInv'
  <2>1. \A p \in Orders : p # o
    BY <1>2, OneStrategy
  <2> QED  BY <1>1, <1>7, <1>8, <2>1, SniperKept
<1> QED  BY <1>1, <1>2, <1>7, <1>12, <1>13, <1>14, <1>15, <1>16, <1>17 DEF IInv, PacedInv, SharedTypes

LEMMA PacedSettleKeeps ==
  ASSUME IInv, PacedSettle, UNCHANGED <<sniperVars, executed>>
  PROVE  IInv'
<1>1. TypeOK /\ Messages /\ SniperInv /\ PacedInv /\ SharedTypes
  BY IInvFacts DEF IInv
<1>2. UNCHANGED <<clock, pacedVars, sniperVars, executed>>
  BY DEF PacedSettle
<1>3. \A p \in AllOrders : Counted(p)' = Counted(p)
  BY <1>2 DEF Counted, pacedVars, sniperVars
<1>4. PICK m \in sending :
        /\ m.by \in PacedCallbacks
        /\ (m.topic = "orders.child" /\ Written(m)) \/ Lost(m)
  BY DEF PacedSettle
<1>5. CASE m.topic = "orders.child" /\ Written(m)
  <2>1. /\ Messages' /\ sending' \subseteq Message /\ bus' \subseteq Message
        /\ Children' = Children \ {m} /\ \A p : UnderWay(p)' = UnderWay(p)
    BY <1>1, <1>3, <1>5, ChildWritten
  <2>2. SniperInv' /\ PacedInv'
    BY <1>1, <1>2, <2>1, SniperKept, PacedKept
  <2> QED  BY <1>1, <1>2, <2>1, <2>2 DEF IInv, SharedTypes
<1>6. CASE Lost(m) /\ m.topic = "orders.child"
  <2>1. PICK o : o = m.order
    OBVIOUS
  <2>2. o \in PacedOrders /\ m \in Carrying
    <3>1. m \in Carrying /\ m.by \notin Callbacks
      BY <1>4, <1>6, OneStrategy DEF Carrying
    <3>2. m.order \in AllOrders
      BY <1>1 DEF SharedTypes, Message
    <3> QED  BY <1>1, <2>1, <3>1, <3>2 DEF Messages, AllOrders
  <2>3. /\ Messages' /\ sending' \subseteq Message /\ bus' \subseteq Message
        /\ Children' = Children \ {m}
        /\ \A p : UnderWay(p)' = UnderWay(p) \ {m}
        /\ m \in UnderWay(o) /\ m.qty \in Nat
        /\ Awaited(o, "orders.child") = Awaited(o, "orders.child")' + m.qty
        /\ Awaited(o, "orders.filled") = Awaited(o, "orders.filled")' + 0
    <3>1. Gone(m)
      BY <1>6 DEF Gone, Lost
    <3>2. /\ Messages' /\ sending' \subseteq Message /\ bus' \subseteq Message
          /\ Children' = Children \ {m}
          /\ \A p : UnderWay(p)' = UnderWay(p) \ {m}
          /\ m \in UnderWay(m.order) /\ m.qty \in Nat
          /\ \A t \in {"orders.child", "orders.filled"} :
               Awaited(m.order, t) = Awaited(m.order, t)' + (IF m.topic = t THEN m.qty ELSE 0)
      BY <1>1, <1>3, <1>6, <3>1, MessageGone
    <3> QED  BY <1>6, <2>1, <3>2
  <2>4. \A p : p # o => UnderWay(p)' = UnderWay(p)
    BY <2>1, <2>3 DEF UnderWay
  <2>5. /\ Awaited(o, "orders.child")' \in Nat
        /\ Awaited(o, "orders.filled")' = Awaited(o, "orders.filled")
        /\ executed[o] \in Nat /\ executed' = executed
    <3>1. Awaited(o, "orders.child")' \in Nat /\ Awaited(o, "orders.filled")' \in Nat
      BY <2>3, WayIsAmountsNext
    <3> QED  BY <1>1, <1>2, <2>2, <2>3, <3>1 DEF SharedTypes, AllOrders
  <2>6. SniperInv'
    <3>1. \A p \in Orders : p # o
      BY <2>2, OneStrategy
    <3> QED  BY <1>1, <1>2, <2>3, <2>4, <3>1, SniperKept
  <2>7. PacedInv'
    <3>1. /\ executed[o] + Awaited(o, "orders.child") \in Nat
          /\ executed'[o] + Awaited(o, "orders.child")' \in Nat
          /\ executed'[o] + Awaited(o, "orders.child")' <= executed[o] + Awaited(o, "orders.child")
      BY <2>3, <2>5
    <3>2. o \in Queued => book[o].filled + Awaited(o, "orders.filled")' = executed'[o]
      BY <1>1, <2>2, <2>5 DEF PacedInv, PacedBooks
    <3>3. \A n \in UnderWay(o) : n.qty \in Nat
      BY <1>1 DEF SharedTypes, Message, UnderWay
    <3>4. UnderWay(o)' \subseteq UnderWay(o)
      BY <2>3
    <3>5. \A n \in UnderWay(o)' : \E k \in UnderWay(o) :
             n.qty \in Nat /\ k.qty \in Nat /\ n.qty <= k.qty
      BY <3>3, <3>4
    <3>6. (\A n, k \in UnderWay(o) : n = k) => \A n, k \in UnderWay(o)' : n = k
      BY <3>4
    <3>7. \A p \in PacedOrders : \A k \in 0 .. NumSlices : SentBy(p, k) \in Int
      BY ScheduleFacts
    <3>8. \A p \in PacedOrders : p # o => UnderWay(p)' = UnderWay(p) /\ executed'[p] = executed[p]
      BY <2>4, <2>5
    <3>9. UnderWay(o) # {} /\ UNCHANGED pacedVars
      BY <1>2, <2>3
    <3> QED  BY <1>1, <2>2, <3>1, <3>2, <3>5, <3>6, <3>7, <3>8, <3>9, PacedAnswered
  <2> QED  BY <1>1, <1>2, <2>3, <2>6, <2>7 DEF IInv, SharedTypes
<1>7. CASE Lost(m) /\ m.topic # "orders.child"
  <2>1. Gone(m)
    BY <1>7 DEF Gone, Lost
  <2>2. m.topic # "orders.filled"
    BY <1>1, <1>4 DEF Messages
  <2>3. /\ Messages' /\ sending' \subseteq Message /\ bus' \subseteq Message
        /\ Children' = Children \ {m}
        /\ \A p : UnderWay(p)' = UnderWay(p) \ {m}
    BY <1>1, <1>3, <2>1, MessageGone
  <2>4. \A p : UnderWay(p)' = UnderWay(p)
    BY <1>7, <2>2, <2>3 DEF UnderWay
  <2>5. SniperInv' /\ PacedInv'
    BY <1>1, <1>2, <2>3, <2>4, SniperKept, PacedKept
  <2> QED  BY <1>1, <1>2, <2>3, <2>5 DEF IInv, SharedTypes
<1> QED  BY <1>4, <1>5, <1>6, <1>7

-----------------------------------------------------------------------------
(* The invariant of the specification.                                     *)
LEMMA WorkingTyped == SniperInv => Working \subseteq Orders
BY DEF SniperInv, SniperTypes, Working

LEMMA InitIInv == Init => IInv
<1> SUFFICES ASSUME Init PROVE IInv
  OBVIOUS
<1>1. /\ clock = 0 /\ sending = {} /\ bus = {} /\ executed = [o \in AllOrders |-> 0]
      /\ SniperInit /\ PacedInit
  BY DEF Init, BusInit
<1>2. \A o : UnderWay(o) = {}
  BY <1>1 DEF UnderWay
<1>3. \A o : \A t : Awaited(o, t) = 0 /\ Way(o) = 0
  <2>1. \A o : \A t : {m \in UnderWay(o) : m.topic = t} = {}
    BY <1>2
  <2> QED  BY <1>2, <2>1, QuantityIsTotal, TotalEmpty DEF Awaited, Way
<1>4. SharedTypes
  BY <1>1, ClockAssumption DEF SharedTypes
<1>5. Messages
  BY <1>1, FS_EmptySet DEF Messages, Carrying
<1>6. Working = {} /\ Queued = {} /\ Children = {}
  BY <1>1 DEF SniperInit, PacedInit, Working, Queued, Children
<1>7. SniperInv
  <2>1. /\ routed = {} /\ activeOrders = <<>> /\ overlapped = {}
        /\ totalRemaining = [o \in Orders |-> 0] /\ inFlightQty = [o \in Orders |-> 0]
        /\ filledQty = [o \in Orders |-> 0] /\ sliceCount = [o \in Orders |-> 0]
        /\ cooldownUntil = [o \in Orders |-> 0] /\ expiresAt = [o \in Orders |-> 0]
        /\ maxVenues = [o \in Orders |-> 1] /\ loop = [h \in Callbacks |-> Idle]
        /\ unbooked = [o \in Orders |-> 0]
    BY <1>1 DEF SniperInit
  <2>2. Idle \in SniperRun /\ Idle.order = None /\ ~Idle.failed
    BY DEF Idle, SniperRun
  <2>3. SniperTypes
    BY <2>1, <2>2 DEF SniperTypes
  <2>4. \A o \in Orders : \A h \in Callbacks : loop[h].order # o /\ ~loop[h].failed
    BY <2>1, <2>2, OrdersAssumption
  <2>5. Routing
    BY <1>1, <1>2, <1>6, <2>1, <2>4 DEF Routing, Distinct, NothingOf, AllOrders
  <2>6. Pending
    BY <1>6 DEF Pending
  <2>7. Covered
    <3>1. \A o \in Orders : FailedRuns(o) = {}
      BY <2>4 DEF FailedRuns
    <3>2. \A o \in Orders : IsFiniteSet(FailedRuns(o)) /\ SumFunctionOnSet(RunQty, FailedRuns(o)) = 0
      BY <3>1, FS_EmptySet, SumEmpty
    <3>3. \A o \in Orders : Way(o) = 0 /\ inFlightQty[o] = 0 /\ unbooked[o] = 0
      BY <1>3, <2>1
    <3> QED  BY <3>2, <3>3 DEF Covered
  <2>8. Alone
    BY <2>4 DEF Alone
  <2>9. Committed /\ SniperBooks
    BY <1>6 DEF Committed, SniperBooks
  <2> QED  BY <2>3, <2>5, <2>6, <2>7, <2>8, <2>9 DEF SniperInv
<1>8. PacedInv
  <2>1. /\ strategy \in Strategies /\ queue = <<>> /\ unanswered = {}
        /\ book = [o \in PacedOrders |-> NoBook]
        /\ paceLoop = [h \in PacedCallbacks |-> AtRest]
    BY <1>1 DEF PacedInit
  <2>2. /\ NoBook \in PacedBook /\ NoBook.expiresAt = 0 /\ NoBook.remaining = 0
        /\ NoBook.filled = 0 /\ NoBook.slices = 0
    <3>1. 0 \in 0 .. LongPeriod /\ 0 \in 0 .. CooldownTicks
      BY PacedAssumption
    <3> QED  BY <3>1 DEF NoBook, PacedBook
  <2>3. \A h \in PacedCallbacks : Holds(paceLoop[h])
    BY <2>1, AtRestHolds
  <2>4. PacedTypes
    BY <2>1, <2>2, <2>3 DEF PacedTypes, Holds
  <2>5. \A o \in PacedOrders : NothingOf(o)
    BY <1>1, <1>2 DEF NothingOf, AllOrders
  <2>6. PacedRouting
    BY <1>6, <2>1, <2>2, <2>3, <2>5 DEF PacedRouting, Distinct
  <2>7. OnSchedule
    <3>1. \A o \in PacedOrders : book[o].slices = 0 /\ executed[o] = 0 /\ SentBy(o, 0) = 0
      BY <2>1, <2>2, <2>5 DEF NothingOf, SentBy
    <3>2. 0 <= NumSlices
      BY NumSlicesPositive
    <3> QED  BY <1>3, <3>1, <3>2 DEF OnSchedule
  <2>8. OneAtATime
    BY <1>1, <1>2, <1>3, <1>6, <2>5, PacedAssumption DEF OneAtATime, NothingOf
  <2>9. PacedBooks
    BY <1>6 DEF PacedBooks
  <2> QED  BY <2>4, <2>6, <2>7, <2>8, <2>9 DEF PacedInv
<1> QED  BY <1>4, <1>5, <1>7, <1>8 DEF IInv

LEMMA StutterKeeps == IInv /\ UNCHANGED vars => IInv'
<1> SUFFICES ASSUME IInv, UNCHANGED vars PROVE IInv'
  OBVIOUS
<1>1. TypeOK /\ Messages /\ SniperInv /\ PacedInv /\ SharedTypes
  BY IInvFacts DEF IInv
<1>2. /\ UNCHANGED sniperVars /\ UNCHANGED pacedVars
      /\ clock' = clock /\ sending' = sending /\ bus' = bus /\ executed' = executed
  BY DEF vars
<1>3. \A p \in AllOrders : Counted(p)' = Counted(p)
  BY <1>2 DEF Counted, sniperVars, pacedVars
<1>4. Messages' /\ Children' = Children /\ \A p : UnderWay(p)' = UnderWay(p)
  BY <1>1, <1>2, <1>3, NothingSent
<1>5. SniperInv' /\ PacedInv'
  BY <1>1, <1>2, <1>4, SniperKept, PacedKept
<1> QED  BY <1>1, <1>2, <1>4, <1>5 DEF IInv, SharedTypes

LEMMA NextKeeps == IInv /\ [Next]_vars => IInv'
<1> SUFFICES ASSUME IInv, [Next]_vars PROVE IInv'
  OBVIOUS
<1>1. CASE Sniping /\ UNCHANGED <<pacedVars, executed>>
  <2>1. ASSUME NEW o \in Orders, RoutedOrder(o) PROVE IInv'
    BY <1>1, <2>1, RoutedOrderKeeps
  <2>2. ASSUME NEW h \in Callbacks, OnTick(h) \/ ExpirySweep(h) \/ Resume(h) PROVE IInv'
    BY <1>1, <2>2, TickKeeps
  <2>3. ASSUME NEW m \in bus, FillEvent(m) PROVE IInv'
    BY <1>1, <2>3, FillEventKeeps
  <2>4. CASE Settle
    BY <1>1, <2>4, SettleKeeps
  <2>5. Ticks \subseteq Callbacks /\ Sweeps \subseteq Callbacks
    BY DEF Callbacks
  <2> QED  BY <1>1, <2>1, <2>2, <2>3, <2>4, <2>5 DEF Sniping
<1>2. CASE Pacing /\ UNCHANGED <<sniperVars, executed>>
  <2>1. ASSUME NEW o \in PacedOrders, PacedRouted(o) PROVE IInv'
    BY <1>2, <2>1, PacedRoutedKeeps
  <2>2. ASSUME NEW h \in PacedCallbacks,
               PacedTick(h) \/ (h = PacedSweep /\ PacedSweeps) \/ PacedResume(h)
        PROVE  IInv'
    BY <1>2, <2>2, PacedTickKeeps
  <2>3. ASSUME NEW m \in bus, PacedFill(m) PROVE IInv'
    BY <1>2, <2>3, PacedFillKeeps
  <2>4. CASE PacedSettle
    BY <1>2, <2>4, PacedSettleKeeps
  <2>5. PacedTicks \subseteq PacedCallbacks /\ PacedSweep \in PacedCallbacks
    BY DEF PacedCallbacks
  <2> QED  BY <1>2, <2>1, <2>2, <2>3, <2>4, <2>5 DEF Pacing
<1>3. ASSUME NEW m \in bus, HandleChildOrder(m), UNCHANGED <<clock, sniperVars, pacedVars>>
      PROVE  IInv'
  BY <1>3, EmsKeeps
<1>4. CASE Advance /\ UNCHANGED <<sniperVars, pacedVars, executed>>
  BY <1>4, AdvanceKeeps
<1>5. CASE UNCHANGED vars
  BY <1>5, StutterKeeps
<1> QED  BY <1>1, <1>2, <1>3, <1>4, <1>5 DEF Next

LEMMA Inductive == Spec => []IInv
BY InitIInv, NextKeeps, PTL DEF Spec

-----------------------------------------------------------------------------
(* What the processes hold is of its type: no quantity is negative, and a  *)
(* suspended callback only holds orders that were routed to it.            *)
THEOREM TypeCorrect == Spec => []TypeOK
<1>1. IInv => TypeOK
  BY IInvFacts
<1> QED  BY <1>1, Inductive, PTL

(* The books of a working order and the fills on their way are what the    *)
(* EMS executed, of every algorithm that keeps its own books.              *)
THEOREM BooksKept == Spec => []BooksMatchEms
<1>1. IInv => BooksMatchEms
  <2> SUFFICES ASSUME IInv PROVE BooksMatchEms
    OBVIOUS
  <2>1. SniperBooks /\ PacedBooks /\ Queued \subseteq PacedOrders
    BY IInvFacts DEF SniperInv, PacedInv, PacedTypes, Queued
  <2> QED  BY <2>1 DEF BooksMatchEms, SniperBooks, PacedBooks
<1> QED  BY <1>1, Inductive, PTL

(* Every share of a working SNIPER order that is under way is reserved,    *)
(* however many callbacks send, fail and are answered at the same time,    *)
(* but for as many as are in children whose send was rejected although the *)
(* broker has them, and whose reservation the catch gives back.            *)
THEOREM SharesReserved == Spec => []InFlightCovers
<1>1. IInv => InFlightCovers
  <2> SUFFICES ASSUME IInv, NEW o \in Working
               PROVE  Quantity(UnderWay(o)) <= inFlightQty[o] + unbooked[o]
    BY DEF InFlightCovers
  <2>1. SniperInv /\ o \in Orders
    BY WorkingTyped DEF IInv
  <2>2. /\ IsFiniteSet(FailedRuns(o)) /\ inFlightQty[o] \in Nat /\ unbooked[o] \in Nat
        /\ Way(o) + SumFunctionOnSet(RunQty, FailedRuns(o)) <= inFlightQty[o] + unbooked[o]
        /\ \A h \in FailedRuns(o) : RunQty[h] \in Nat
    BY <2>1 DEF SniperInv, SniperTypes, Covered, RunQty, SniperRun, FailedRuns
  <2>3. SumFunctionOnSet(RunQty, FailedRuns(o)) \in Nat
    BY <2>2, SumNat
  <2>4. Way(o) \in Nat
    BY IInvFacts, WayIsAmounts
  <2> QED  BY <2>2, <2>3, <2>4 DEF Way
<1> QED  BY <1>1, Inductive, PTL

(* As long as no two callbacks are in a round of the same order at the     *)
(* same time, an order exceeds its quantity by no more than the shares of  *)
(* the children whose send was rejected although the broker has them.      *)
THEOREM OvercommitIsBounded == Spec => []OvercommitBounded
<1>1. IInv => OvercommitBounded
  <2> SUFFICES ASSUME IInv, NEW o \in Working, o \notin overlapped
               PROVE  /\ inFlightQty[o] <= totalRemaining[o] + unbooked[o]
                      /\ executed[o] + Awaited(o, "orders.child") <= Qty[o] + unbooked[o]
    BY DEF OvercommitBounded
  <2>1. SniperInv /\ SharedTypes /\ o \in Orders
    BY WorkingTyped DEF IInv
  <2>2. /\ totalRemaining[o] \in Nat /\ filledQty[o] \in Nat
        /\ Qty[o] \in Nat /\ unbooked[o] \in Nat
    BY <2>1, OrdersAssumption DEF SniperInv, SniperTypes
  <2>3. /\ filledQty[o] + totalRemaining[o] = Qty[o]
        /\ inFlightQty[o] <= totalRemaining[o] + unbooked[o]
        /\ Way(o) <= totalRemaining[o] + unbooked[o]
        /\ filledQty[o] + Awaited(o, "orders.filled") = executed[o]
    BY <2>1 DEF SniperInv, Committed, Within, Most, SniperBooks
  <2>4. /\ Way(o) = Awaited(o, "orders.child") + Awaited(o, "orders.filled")
        /\ Awaited(o, "orders.child") \in Nat /\ Awaited(o, "orders.filled") \in Nat
    BY IInvFacts, WayIsAmounts
  <2> QED  BY <2>2, <2>3, <2>4
<1> QED  BY <1>1, Inductive, PTL

(* IS never sends more than the order's quantity; ARRIVAL_PRICE and        *)
(* MOMENTUM do so only by a child sent while another was unanswered.       *)
THEOREM NoOverfillAlone == Spec => []OverfillNeedsOverlap
<1>1. IInv => OverfillNeedsOverlap
  <2> SUFFICES ASSUME IInv, NEW o \in PacedOrders, strategy = "IS" \/ o \notin unanswered
               PROVE  executed[o] + Awaited(o, "orders.child") <= PacedQty[o]
    BY DEF OverfillNeedsOverlap
  <2>1. PacedInv /\ SharedTypes
    BY DEF IInv
  <2>2. CASE o \notin unanswered
    BY <2>1, <2>2 DEF PacedInv, OneAtATime
  <2>3. CASE strategy = "IS"
    <3>1. /\ book[o].slices \in 0 .. NumSlices
          /\ executed[o] + Awaited(o, "orders.child") <= SentBy(o, book[o].slices)
      BY <2>1, <2>3, NumSlicesPositive DEF PacedInv, OnSchedule, PacedTypes, PacedBook
    <3>2. /\ SentBy(o, book[o].slices) \in Int /\ SentBy(o, book[o].slices) <= PacedQty[o]
          /\ PacedQty[o] \in Int
      BY <3>1, ScheduleFacts, PacedAssumption
    <3>3. executed[o] \in Nat /\ Awaited(o, "orders.child") \in Nat
      <4>1. o \in AllOrders
        BY DEF AllOrders
      <4> QED  BY <2>1, <4>1, IInvFacts, WayIsAmounts DEF SharedTypes
    <3> QED  BY <3>1, <3>2, <3>3
  <2> QED  BY <2>2, <2>3
<1> QED  BY <1>1, Inductive, PTL
=============================================================================
