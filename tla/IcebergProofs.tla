--------------------------- MODULE IcebergProofs ----------------------------
(***************************************************************************)
(* Proofs about ICEBERG and the EMS for any set of orders, quantities,     *)
(* slice sizes, depth caps and number of overlapping callbacks: that the   *)
(* inductive invariant holds, and that ICEBERG with the EMS implements     *)
(* ParentOrder, for every step of the callbacks, the bus and the EMS is a  *)
(* step of the abstract order or leaves the abstract order alone.          *)
(***************************************************************************)
EXTENDS IcebergExecution, TLAPS

-----------------------------------------------------------------------------
(* The inductive invariant.                                                *)

(* What a slice of order o may still add to filledQty[o]: what remains of  *)
(* a working order, a visible slice once the books are full.               *)
Bound(o) == IF totalRemaining[o] = 0 THEN VisibleQty[o] ELSE totalRemaining[o]

(* Nothing is known of an order before it is routed.                       *)
OnlyRouted ==
  /\ activeOrders \subseteq routed
  /\ \A h \in Callbacks : loop[h].todo \subseteq routed
  /\ \A o \in Orders \ routed : ~sliceInFlight[o] /\ filledQty[o] = 0

BooksAddUp ==
  /\ \A o \in routed : filledQty[o] + totalRemaining[o] = Qty[o]
  /\ \A o \in activeOrders : totalRemaining[o] > 0
  /\ \A o \in Orders : /\ currentSliceQty[o] <= VisibleQty[o]
                       /\ totalRemaining[o] > 0 => currentSliceQty[o] <= totalRemaining[o]

(* The slice under way, if any, is the one sliceInFlight is set for.       *)
SliceUnique ==
  /\ \A m1, m2 \in Slices : m1.order = m2.order => m1 = m2
  /\ \A m \in Slices : sliceInFlight[m.order]
  /\ \A m \in Slices : m \notin sending \/ m \notin bus

SliceBounded ==
  \A m \in Slices : m.qty > 0 /\ m.qty <= VisibleQty[m.order] /\ m.qty <= Bound(m.order)

(* What the books and the EMS know of an order differs by the fill on its  *)
(* way, and once the slice is accounted for by nothing.                    *)
ExecutedKnown ==
  /\ \A o \in Orders : ~sliceInFlight[o] => executed[o] = filledQty[o]
  /\ \A m \in Slices : executed[m.order] =
        IF m.topic = "orders.filled" THEN filledQty[m.order] + m.qty
                                     ELSE filledQty[m.order]
  /\ \A o \in Orders : executed[o] <= filledQty[o] + Bound(o)

IInv == /\ TypeOK
        /\ OnlyRouted
        /\ BooksAddUp
        /\ SliceUnique
        /\ SliceBounded
        /\ ExecutedKnown

-----------------------------------------------------------------------------
(* The smaller of two numbers is one of them and exceeds neither.          *)
LEMMA LesserFacts ==
  ASSUME NEW x \in Nat, NEW y \in Nat
  PROVE  /\ Lesser(x, y) \in Nat
         /\ Lesser(x, y) <= x
         /\ Lesser(x, y) <= y
         /\ (x > 0 /\ y > 0) => Lesser(x, y) > 0
BY DEF Lesser

LEMMA InitIInv == Init => IInv
<1> SUFFICES ASSUME Init PROVE IInv
  OBVIOUS
<1> USE OrdersAssumption DEF Init, AlgoInit, BusInit, Idle
<1>1. TypeOK
  BY DEF TypeOK
<1>2. Slices = {}
  BY DEF Slices
<1>3. OnlyRouted /\ BooksAddUp /\ SliceUnique /\ SliceBounded
  BY <1>2 DEF OnlyRouted, BooksAddUp, SliceUnique, SliceBounded
<1>4. ExecutedKnown
  BY <1>2 DEF ExecutedKnown, Bound
<1>. QED
  BY <1>1, <1>3, <1>4 DEF IInv

(* One lemma per kind of step: each preserves the invariant.               *)

LEMMA RoutedOrderIInv ==
  ASSUME IInv, NEW o \in Orders, RoutedOrder(o), UNCHANGED executed
  PROVE  IInv'
<1> USE OrdersAssumption DEF IInv, RoutedOrder
<1>1. TypeOK'
  BY LesserFacts DEF TypeOK, Message
<1>2. Slices' = Slices
  BY DEF Slices
<1>3. \A m \in Slices : m.order # o
  BY DEF OnlyRouted, SliceUnique
<1>4. OnlyRouted'
  BY DEF OnlyRouted, TypeOK
<1>5. BooksAddUp'
  <2>1. Qty[o] \in Nat \ {0} /\ VisibleQty[o] \in Nat \ {0}
    OBVIOUS
  <2>2. /\ currentSliceQty'[o] <= VisibleQty[o]
        /\ currentSliceQty'[o] <= Qty[o]
    BY <2>1, LesserFacts DEF TypeOK
  <2>3. \A p \in Orders \ {o} : /\ currentSliceQty'[p] = currentSliceQty[p]
                               /\ totalRemaining'[p] = totalRemaining[p]
    BY DEF TypeOK
  <2>4. totalRemaining'[o] = Qty[o] /\ filledQty'[o] = 0
    BY DEF TypeOK, OnlyRouted
  <2>. QED
    BY <2>1, <2>2, <2>3, <2>4 DEF BooksAddUp, OnlyRouted, TypeOK
<1>6. SliceUnique'
  BY <1>2 DEF SliceUnique
<1>7. SliceBounded'
  BY <1>2, <1>3 DEF SliceBounded, Bound, Slices, TypeOK, Message
<1>8. ExecutedKnown'
  <2>1. executed[o] = 0 /\ filledQty[o] = 0
    BY DEF ExecutedKnown, OnlyRouted
  <2>2. \A p \in Orders : executed'[p] <= filledQty'[p] + Bound(p)'
    <3>1. executed'[o] <= filledQty'[o] + Bound(o)'
      <4>1. Bound(o)' = Qty[o] /\ Qty[o] \in Nat
        BY DEF Bound, TypeOK
      <4>2. executed'[o] = 0 /\ filledQty'[o] = 0
        BY <2>1
      <4>. QED
        BY <4>1, <4>2
    <3>2. ASSUME NEW p \in Orders, p # o
          PROVE  executed'[p] <= filledQty'[p] + Bound(p)'
      BY <3>2 DEF ExecutedKnown, Bound, TypeOK
    <3>. QED
      BY <3>1, <3>2
  <2>. QED
    BY <1>2, <2>2 DEF ExecutedKnown
<1>. QED
  BY <1>1, <1>4, <1>5, <1>6, <1>7, <1>8

(* Elapse and Restart touch neither the books nor the slices.              *)
LEMMA QuietIInv ==
  ASSUME IInv, TypeOK', OnlyRouted', activeOrders' \subseteq activeOrders,
         UNCHANGED <<routed, orderVars, sliceInFlight, executed>>,
         Slices' = Slices,
         \A m \in Slices : m \notin sending' \/ m \notin bus'
  PROVE  IInv'
<1>1. BooksAddUp'
  BY DEF IInv, BooksAddUp, orderVars
<1>2. SliceUnique'
  BY DEF IInv, SliceUnique
<1>3. SliceBounded'
  BY DEF IInv, SliceBounded, Bound, orderVars
<1>4. ExecutedKnown'
  BY DEF IInv, ExecutedKnown, Bound, orderVars
<1>. QED
  BY <1>1, <1>2, <1>3, <1>4 DEF IInv

LEMMA ElapseIInv ==
  ASSUME IInv, NEW o \in Orders, Elapse(o), UNCHANGED executed
  PROVE  IInv'
<1>1. TypeOK'
  BY DEF IInv, Elapse, TypeOK, Message, orderVars
<1>2. OnlyRouted'
  BY DEF IInv, Elapse, OnlyRouted, orderVars
<1>3. Slices' = Slices /\ \A m \in Slices : m \notin sending' \/ m \notin bus'
  BY DEF IInv, Elapse, Slices, SliceUnique
<1>. QED
  BY <1>1, <1>2, <1>3, QuietIInv DEF Elapse

LEMMA RestartIInv ==
  ASSUME IInv, Restart, UNCHANGED executed
  PROVE  IInv'
<1>1. TypeOK'
  BY DEF IInv, Restart, TypeOK, Message, orderVars, Idle
<1>2. OnlyRouted'
  BY DEF IInv, Restart, OnlyRouted, orderVars, Idle
<1>3. Slices' = Slices /\ \A m \in Slices : m \notin sending' \/ m \notin bus'
  BY DEF IInv, Restart, Slices, SliceUnique
<1>. QED
  BY <1>1, <1>2, <1>3, QuietIInv DEF Restart

-----------------------------------------------------------------------------
(* The loops.  Every callback step is RunLoop of a loop over routed orders.*)

Loops == [todo : SUBSET Orders, due : SUBSET Orders, triggered : SUBSET Orders]

LEMMA LeaveLoopIInv ==
  ASSUME IInv, NEW h \in Callbacks, NEW run \in Loops,
         LeaveLoop(h, run),
         UNCHANGED <<routed, ahead, orderVars, elapsed, bus, executed>>
  PROVE  IInv'
<1>1. TypeOK'
  BY DEF IInv, LeaveLoop, TypeOK, orderVars, Idle
<1>2. OnlyRouted'
  BY DEF IInv, LeaveLoop, OnlyRouted, orderVars, Idle, TypeOK
<1>3. Slices' = Slices /\ \A m \in Slices : m \notin sending' \/ m \notin bus'
  BY DEF IInv, LeaveLoop, Slices, SliceUnique
<1>. QED
  BY <1>1, <1>2, <1>3, QuietIInv DEF LeaveLoop

LEMMA ExpireIInv ==
  ASSUME IInv, NEW h \in Callbacks, NEW run \in Loops, run.todo \subseteq routed,
         NEW o \in run.todo,
         Expire(h, run, o),
         loop' = [loop EXCEPT ![h] = Rest(run, run.todo \ (ahead[o] \cup {o}))],
         UNCHANGED <<routed, ahead, orderVars, elapsed, bus, executed>>
  PROVE  IInv'
<1> DEFINE e == Expired(o, h)
<1>1. e \in Message /\ e.topic = "orders.expired"
  BY DEF IInv, TypeOK, Message, Expired, Loops
<1>2. TypeOK'
  BY <1>1 DEF IInv, Expire, Send, TypeOK, orderVars, Rest, Loops
<1>3. OnlyRouted'
  BY DEF IInv, Expire, OnlyRouted, orderVars, Rest, TypeOK
<1>4. Slices' = Slices
  BY <1>1 DEF Expire, Send, Slices
<1>5. \A m \in Slices : m \notin sending' \/ m \notin bus'
  BY <1>1 DEF IInv, SliceUnique, Expire, Send, Slices
<1>. QED
  BY <1>2, <1>3, <1>4, <1>5, QuietIInv DEF Expire

LEMMA SendSliceIInv ==
  ASSUME IInv, NEW h \in Callbacks, NEW run \in Loops, run.todo \subseteq routed,
         NEW o \in run.todo,
         SendSlice(h, run, o),
         loop' = [loop EXCEPT ![h] = Rest(run, run.todo \ (ahead[o] \cup {o}))],
         UNCHANGED <<routed, ahead, orderVars, elapsed, bus, executed>>
  PROVE  IInv'
<1>o. o \in Orders /\ o \in routed
  BY DEF Loops
<1>1. PICK cap \in DepthCaps :
        Send(Child(o, sliceCount[o] + 1, Lesser(currentSliceQty[o], cap), h))
  BY DEF SendSlice
<1> DEFINE q == Lesser(currentSliceQty[o], cap)
           c == Child(o, sliceCount[o] + 1, q, h)
<1>2. /\ q \in Nat /\ q > 0
      /\ q <= currentSliceQty[o]
  <2>1. cap \in Nat /\ cap > 0
    BY DepthAssumption
  <2>2. currentSliceQty[o] \in Nat /\ currentSliceQty[o] > 0
    BY <1>o DEF SendSlice, CanSlice, IInv, TypeOK
  <2>. QED
    BY <2>1, <2>2, LesserFacts
<1>3. /\ c \in Message /\ c.topic = "orders.child"
      /\ c.order = o /\ c.qty = q
  BY <1>o, <1>2 DEF Child, Message, IInv, TypeOK
<1> HIDE DEF q, c
<1>4. sending' = sending \cup {c} /\ c \notin sending
  BY <1>1 DEF Send, c, q
<1>5. Slices' = Slices \cup {c}
  BY <1>3, <1>4 DEF Slices
<1>6. \A m \in Slices : m.order # o
  BY DEF SendSlice, CanSlice, IInv, SliceUnique
<1>7. sliceInFlight' = [sliceInFlight EXCEPT ![o] = TRUE]
  BY DEF SendSlice
<1>8. TypeOK'
  BY <1>o, <1>3, <1>4 DEF IInv, SendSlice, TypeOK, orderVars, Rest, Loops
<1>9. OnlyRouted'
  BY <1>o, <1>7 DEF IInv, SendSlice, OnlyRouted, orderVars, Rest, TypeOK
<1>10. BooksAddUp'
  BY DEF IInv, SendSlice, BooksAddUp, orderVars
<1>11. SliceUnique'
  <2>1. \A m1, m2 \in Slices' : m1.order = m2.order => m1 = m2
    BY <1>3, <1>5, <1>6 DEF IInv, SliceUnique
  <2>2. \A m \in Slices' : sliceInFlight'[m.order]
    BY <1>o, <1>3, <1>5, <1>6, <1>7 DEF IInv, SliceUnique, TypeOK
  <2>3. \A m \in Slices' : m \notin sending' \/ m \notin bus'
    <3>1. c \notin bus
      BY <1>3, <1>6 DEF Slices
    <3>. QED
      BY <1>3, <1>4, <1>5, <1>6, <3>1 DEF IInv, SliceUnique
  <2>. QED
    BY <2>1, <2>2, <2>3 DEF SliceUnique
<1>12. SliceBounded'
  <2>1. q <= VisibleQty[o] /\ q <= Bound(o)
    BY <1>o, <1>2, OrdersAssumption DEF IInv, TypeOK, BooksAddUp, Bound
  <2>. QED
    BY <1>2, <1>3, <1>5, <2>1 DEF IInv, SliceBounded, Bound, orderVars
<1>13. ExecutedKnown'
  <2>1. executed[o] = filledQty[o]
    BY <1>o DEF SendSlice, CanSlice, IInv, ExecutedKnown
  <2>2. \A p \in Orders : ~sliceInFlight'[p] => executed'[p] = filledQty'[p]
    BY <1>o, <1>7 DEF IInv, ExecutedKnown, TypeOK, orderVars
  <2>3. \A m \in Slices' : executed'[m.order] =
          IF m.topic = "orders.filled" THEN filledQty'[m.order] + m.qty
                                       ELSE filledQty'[m.order]
    BY <1>3, <1>5, <2>1 DEF IInv, ExecutedKnown, orderVars
  <2>4. \A p \in Orders : executed'[p] <= filledQty'[p] + Bound(p)'
    BY DEF IInv, ExecutedKnown, Bound, orderVars
  <2>. QED
    BY <2>2, <2>3, <2>4 DEF ExecutedKnown
<1>. QED
  BY <1>8, <1>9, <1>10, <1>11, <1>12, <1>13 DEF IInv

LEMMA RunLoopIInv ==
  ASSUME IInv, NEW h \in Callbacks, NEW run \in Loops, run.todo \subseteq routed,
         RunLoop(h, run), UNCHANGED executed
  PROVE  IInv'
<1>1. CASE LeaveLoop(h, run)
  BY <1>1, LeaveLoopIInv DEF RunLoop
<1>2. ASSUME NEW o \in run.todo, Expire(h, run, o),
             loop' = [loop EXCEPT ![h] = Rest(run, run.todo \ (ahead[o] \cup {o}))]
      PROVE  IInv'
  BY <1>2, ExpireIInv DEF RunLoop
<1>3. ASSUME NEW o \in run.todo, SendSlice(h, run, o),
             loop' = [loop EXCEPT ![h] = Rest(run, run.todo \ (ahead[o] \cup {o}))]
      PROVE  IInv'
  BY <1>3, SendSliceIInv DEF RunLoop
<1>. QED
  BY <1>1, <1>2, <1>3 DEF RunLoop

-----------------------------------------------------------------------------
(* The messages.                                                           *)

LEMMA FillEventIInv ==
  ASSUME IInv, NEW m \in bus, FillEvent(m), UNCHANGED executed
  PROVE  IInv'
<1> USE DEF IInv
<1>1. /\ m \in Message /\ m \in Slices /\ m \notin sending
      /\ m.order \in Orders /\ m.qty \in Nat
  BY DEF FillEvent, TypeOK, Message, Slices, SliceUnique
<1>2. Slices' = Slices \ {m}
  BY <1>1 DEF FillEvent, Slices
<1>3. \A n \in Slices' : n \in Slices /\ n.order # m.order
  BY <1>1, <1>2 DEF SliceUnique
<1>4. executed[m.order] = filledQty[m.order] + m.qty
  BY <1>1 DEF ExecutedKnown, FillEvent
<1>5. \A n \in Slices' : n \notin sending' \/ n \notin bus'
  BY <1>3 DEF SliceUnique, FillEvent
<1>6. CASE m.order \notin activeOrders
  <2>1. TypeOK'
    BY <1>6 DEF FillEvent, TypeOK, orderVars
  <2>2. OnlyRouted' /\ BooksAddUp'
    BY <1>6 DEF FillEvent, OnlyRouted, BooksAddUp, orderVars
  <2>3. SliceUnique' /\ SliceBounded'
    BY <1>3, <1>5, <1>6 DEF FillEvent, SliceUnique, SliceBounded, Bound, orderVars
  <2>4. ExecutedKnown'
    BY <1>3, <1>6 DEF FillEvent, ExecutedKnown, Bound, orderVars
  <2>. QED
    BY <2>1, <2>2, <2>3, <2>4
<1>7. CASE m.order \in activeOrders
  <2> DEFINE o == m.order
             left == totalRemaining[o] - m.qty
  <2>1. /\ totalRemaining[o] > 0 /\ m.qty <= totalRemaining[o]
        /\ left \in Nat /\ o \in routed
    BY <1>1, <1>7 DEF BooksAddUp, SliceBounded, Bound, OnlyRouted, TypeOK
  <2>2. /\ filledQty' = [filledQty EXCEPT ![o] = @ + m.qty]
        /\ totalRemaining' = [totalRemaining EXCEPT ![o] = left]
        /\ sliceInFlight' = [sliceInFlight EXCEPT ![o] = FALSE]
    BY <1>1, <1>7, <2>1 DEF FillEvent, BookFill, TypeOK
  <2>3. /\ left = 0 => /\ activeOrders' = activeOrders \ {o}
                       /\ currentSliceQty' = currentSliceQty
        /\ left > 0 => /\ activeOrders' = activeOrders
                       /\ currentSliceQty' = [currentSliceQty EXCEPT
                                                ![o] = Lesser(VisibleQty[o], left)]
    BY <1>1, <1>7, <2>1 DEF FillEvent, BookFill, TypeOK
  <2>4. /\ routed' = routed /\ ahead' = ahead /\ sliceCount' = sliceCount
        /\ elapsed' = elapsed /\ loop' = loop /\ sending' = sending
        /\ bus' = bus \ {m}
    BY DEF FillEvent
  <2>5. /\ VisibleQty[o] \in Nat
        /\ Lesser(VisibleQty[o], left) \in Nat
        /\ Lesser(VisibleQty[o], left) <= VisibleQty[o]
        /\ Lesser(VisibleQty[o], left) <= left
    BY <1>1, <2>1, LesserFacts, OrdersAssumption
  <2> HIDE DEF left
  <2>6. TypeOK'
    BY <1>1, <2>1, <2>2, <2>3, <2>4, <2>5 DEF TypeOK
  <2>7. OnlyRouted'
    BY <1>1, <2>1, <2>2, <2>3, <2>4 DEF OnlyRouted, TypeOK
  <2>8. BooksAddUp'
    <3>1. \A p \in routed' : filledQty'[p] + totalRemaining'[p] = Qty[p]
      BY <1>1, <2>1, <2>2, <2>4 DEF BooksAddUp, TypeOK, left
    <3>2. \A p \in activeOrders' : totalRemaining'[p] > 0
      BY <1>1, <2>1, <2>2, <2>3 DEF BooksAddUp, TypeOK
    <3>3. \A p \in Orders :
            /\ currentSliceQty'[p] <= VisibleQty[p]
            /\ totalRemaining'[p] > 0 => currentSliceQty'[p] <= totalRemaining'[p]
      BY <1>1, <2>1, <2>2, <2>3, <2>5 DEF BooksAddUp, TypeOK
    <3>. QED
      BY <3>1, <3>2, <3>3 DEF BooksAddUp
  <2>9. SliceUnique' /\ SliceBounded'
    BY <1>1, <1>3, <1>5, <2>2 DEF SliceUnique, SliceBounded, Bound, TypeOK
  <2>10. ExecutedKnown'
    <3>1. executed[o] = filledQty'[o]
      BY <1>1, <1>4, <2>2 DEF TypeOK
    <3>2. \A p \in Orders \ {o} : /\ filledQty'[p] = filledQty[p]
                                 /\ sliceInFlight'[p] = sliceInFlight[p]
                                 /\ totalRemaining'[p] = totalRemaining[p]
      BY <2>2 DEF TypeOK
    <3>3. Bound(o)' \in Nat
      BY <1>1, <2>1, <2>2, <2>5 DEF Bound, TypeOK
    <3>4. executed'[o] <= filledQty'[o] + Bound(o)'
      BY <1>1, <3>1, <3>3, <2>6 DEF TypeOK
    <3>5. \A p \in Orders : executed'[p] <= filledQty'[p] + Bound(p)'
      BY <3>2, <3>4 DEF ExecutedKnown, Bound
    <3>6. \A p \in Orders : ~sliceInFlight'[p] => executed'[p] = filledQty'[p]
      BY <3>1, <3>2 DEF ExecutedKnown
    <3>7. \A n \in Slices' : executed'[n.order] =
            IF n.topic = "orders.filled" THEN filledQty'[n.order] + n.qty
                                         ELSE filledQty'[n.order]
      <4>1. \A n \in Slices' : n.order \in Orders
        BY <1>3 DEF Slices, TypeOK, Message
      <4>. QED
        BY <1>3, <3>2, <4>1 DEF ExecutedKnown
    <3>. QED
      BY <3>5, <3>6, <3>7 DEF ExecutedKnown
  <2>. QED
    BY <2>6, <2>7, <2>8, <2>9, <2>10
<1>. QED
  BY <1>6, <1>7

LEMMA HandleChildOrderIInv ==
  ASSUME IInv, NEW c \in bus, HandleChildOrder(c), UNCHANGED algoVars
  PROVE  IInv'
<1> USE DEF IInv
<1>1. /\ c \in Message /\ c \in Slices /\ c \notin sending
      /\ c.order \in Orders /\ c.qty \in Nat /\ c.topic = "orders.child"
  BY DEF HandleChildOrder, TypeOK, Message, Slices, SliceUnique
<1>2. \A n \in Slices : n # c => n.order # c.order
  BY <1>1 DEF SliceUnique
<1>3. OnlyRouted' /\ BooksAddUp'
  BY DEF OnlyRouted, BooksAddUp, algoVars
<1>4. \A p \in Orders : Bound(p)' = Bound(p)
  BY DEF Bound, algoVars
<1>5. CASE bus' = bus \ {c} /\ executed' = executed
  <2>1. TypeOK'
    BY <1>5 DEF HandleChildOrder, TypeOK, algoVars
  <2>2. Slices' = Slices \ {c}
    BY <1>1, <1>5 DEF HandleChildOrder, Slices
  <2>3. SliceUnique'
    BY <1>5, <2>2 DEF SliceUnique, HandleChildOrder, algoVars
  <2>4. SliceBounded'
    BY <2>2 DEF SliceBounded, Bound, algoVars
  <2>5. ExecutedKnown'
    BY <1>5, <2>2 DEF ExecutedKnown, Bound, algoVars
  <2>. QED
    BY <1>3, <2>1, <2>3, <2>4, <2>5
<1>6. ASSUME NEW q \in 1..c.qty,
             bus' = (bus \ {c}) \cup {Fill(c, q)},
             executed' = [executed EXCEPT ![c.order] = @ + q]
      PROVE  IInv'
  <2> DEFINE f == Fill(c, q)
             o == c.order
  <2>1. /\ f \in Message /\ f.topic = "orders.filled"
        /\ f.order = o /\ f.qty = q /\ q \in Nat /\ q > 0 /\ q <= c.qty
    <3>1. q \in Nat /\ q > 0 /\ q <= c.qty
      BY <1>1
    <3>. QED
      BY <1>1, <3>1 DEF Fill, Message
  <2> HIDE DEF f
  <2>2. bus' = (bus \ {c}) \cup {f} /\ sending' = sending
    BY <1>6 DEF f, HandleChildOrder
  <2>3. f \notin sending /\ f \notin bus
    BY <1>1, <1>2, <2>1 DEF Slices
  <2>4. Slices' = (Slices \ {c}) \cup {f}
    BY <1>1, <2>1, <2>2 DEF Slices
  <2>5. TypeOK'
    <3>1. executed' \in [Orders -> Nat]
      BY <1>1, <1>6, <2>1 DEF TypeOK
    <3>. QED
      BY <2>1, <2>2, <3>1 DEF TypeOK, algoVars
  <2>6. SliceUnique'
    <3>1. \A m1, m2 \in Slices' : m1.order = m2.order => m1 = m2
      BY <1>2, <2>1, <2>4 DEF SliceUnique
    <3>2. \A m \in Slices' : sliceInFlight'[m.order]
      BY <1>1, <2>1, <2>4 DEF SliceUnique, algoVars
    <3>3. \A m \in Slices' : m \notin sending' \/ m \notin bus'
      BY <2>2, <2>3, <2>4 DEF SliceUnique
    <3>. QED
      BY <3>1, <3>2, <3>3 DEF SliceUnique
  <2>7. SliceBounded'
    <3>1. Bound(o) \in Nat /\ VisibleQty[o] \in Nat
      BY <1>1, OrdersAssumption DEF Bound, TypeOK
    <3>2. q <= VisibleQty[o] /\ q <= Bound(o)
      BY <1>1, <2>1, <3>1 DEF SliceBounded
    <3>. QED
      BY <1>1, <2>1, <2>4, <3>2 DEF SliceBounded, Bound, algoVars
  <2>8. ExecutedKnown'
    <3>1. executed'[o] = filledQty[o] + q
      BY <1>1, <1>6 DEF ExecutedKnown, TypeOK
    <3>2. \A p \in Orders \ {o} : executed'[p] = executed[p]
      BY <1>6 DEF TypeOK
    <3>3. filledQty' = filledQty /\ sliceInFlight' = sliceInFlight
      BY DEF algoVars
    <3>4. \A p \in Orders : ~sliceInFlight'[p] => executed'[p] = filledQty'[p]
      BY <1>1, <3>2, <3>3 DEF ExecutedKnown, SliceUnique
    <3>5. \A n \in Slices' : executed'[n.order] =
            IF n.topic = "orders.filled" THEN filledQty'[n.order] + n.qty
                                         ELSE filledQty'[n.order]
      <4>1. \A n \in Slices \ {c} : n.order \in Orders \ {o}
        BY <1>2 DEF Slices, TypeOK, Message
      <4>. QED
        BY <2>1, <2>4, <3>1, <3>2, <3>3, <4>1 DEF ExecutedKnown
    <3>6. executed'[o] <= filledQty'[o] + Bound(o)'
      <4>1. c.qty <= Bound(o) /\ Bound(o) \in Nat /\ filledQty[o] \in Nat
        BY <1>1, OrdersAssumption DEF SliceBounded, Bound, TypeOK
      <4>. QED
        BY <1>1, <1>4, <2>1, <3>1, <3>3, <4>1
    <3>7. \A p \in Orders : executed'[p] <= filledQty'[p] + Bound(p)'
      BY <1>4, <3>2, <3>3, <3>6 DEF ExecutedKnown
    <3>. QED
      BY <3>4, <3>5, <3>7 DEF ExecutedKnown
  <2>. QED
    BY <1>3, <2>5, <2>6, <2>7, <2>8
<1>. QED
  BY <1>5, <1>6 DEF HandleChildOrder

LEMMA SettleIInv ==
  ASSUME IInv, Settle
  PROVE  IInv'
<1> USE DEF IInv
<1>1. PICK m \in sending : \/ m.topic = "orders.child" /\ Written(m)
                          \/ Lost(m)
  BY DEF Settle
<1>2. UNCHANGED <<algoVars, executed>>
  BY DEF Settle
<1>3. OnlyRouted' /\ BooksAddUp'
  BY <1>2 DEF OnlyRouted, BooksAddUp, algoVars
<1>4. TypeOK'
  BY <1>1, <1>2 DEF Written, Lost, TypeOK, algoVars
<1>5. Slices' \subseteq Slices
  BY <1>1 DEF Written, Lost, Slices
<1>6. \A n \in Slices' : n \notin sending' \/ n \notin bus'
  BY <1>1, <1>5 DEF Written, Lost, Slices, SliceUnique
<1>7. SliceUnique' /\ SliceBounded' /\ ExecutedKnown'
  BY <1>2, <1>5, <1>6 DEF SliceUnique, SliceBounded, ExecutedKnown, Bound, algoVars
<1>. QED
  BY <1>3, <1>4, <1>7

-----------------------------------------------------------------------------
LEMMA NextIInv == IInv /\ [Next]_vars => IInv'
<1> SUFFICES ASSUME IInv, [Next]_vars PROVE IInv'
  OBVIOUS
<1>1. CASE UNCHANGED vars
  <2>1. Slices' = Slices /\ TypeOK' /\ OnlyRouted'
    BY <1>1 DEF vars, algoVars, Slices, IInv, TypeOK, OnlyRouted
  <2>2. \A m \in Slices : m \notin sending' \/ m \notin bus'
    BY <1>1 DEF vars, IInv, SliceUnique
  <2>. QED
    BY <1>1, <2>1, <2>2, QuietIInv DEF vars, algoVars, orderVars
<1>2. ASSUME NEW o \in Orders, RoutedOrder(o), UNCHANGED executed PROVE IInv'
  BY <1>2, RoutedOrderIInv
<1>3. ASSUME NEW o \in Orders, Elapse(o), UNCHANGED executed PROVE IInv'
  BY <1>3, ElapseIInv
<1>4. ASSUME NEW h \in Callbacks, OnTick(h), UNCHANGED executed PROVE IInv'
  <2>1. PICK priced \in SUBSET activeOrders : \E triggered \in SUBSET (priced \ elapsed) :
          RunLoop(h, [todo |-> activeOrders, due |-> priced \cap elapsed,
                      triggered |-> triggered])
    BY <1>4 DEF OnTick
  <2>2. PICK triggered \in SUBSET (priced \ elapsed) :
          RunLoop(h, [todo |-> activeOrders, due |-> priced \cap elapsed,
                      triggered |-> triggered])
    BY <2>1
  <2> DEFINE run == [todo |-> activeOrders, due |-> priced \cap elapsed,
                     triggered |-> triggered]
  <2>3. run \in Loops /\ run.todo \subseteq routed
    BY DEF IInv, TypeOK, OnlyRouted, Loops
  <2> HIDE DEF run
  <2>4. RunLoop(h, run)
    BY <2>2 DEF run
  <2>. QED
    BY <1>4, <2>3, <2>4, RunLoopIInv
<1>5. ASSUME NEW h \in Callbacks, ExpirySweep(h), UNCHANGED executed PROVE IInv'
  <2> DEFINE run == [todo |-> activeOrders, due |-> activeOrders \cap elapsed,
                     triggered |-> {}]
  <2>1. run \in Loops /\ run.todo \subseteq routed
    BY DEF IInv, TypeOK, OnlyRouted, Loops
  <2>2. RunLoop(h, run)
    BY <1>5 DEF ExpirySweep
  <2> HIDE DEF run
  <2>. QED
    BY <1>5, <2>1, <2>2, RunLoopIInv
<1>6. ASSUME NEW h \in Callbacks, Resume(h), UNCHANGED executed PROVE IInv'
  <2>1. loop[h] \in Loops /\ loop[h].todo \subseteq routed
    BY DEF IInv, TypeOK, OnlyRouted, Loops
  <2>. QED
    BY <1>6, <2>1, RunLoopIInv DEF Resume
<1>7. ASSUME NEW m \in bus, FillEvent(m), UNCHANGED executed PROVE IInv'
  BY <1>7, FillEventIInv
<1>8. ASSUME NEW m \in bus, HandleChildOrder(m), UNCHANGED algoVars PROVE IInv'
  BY <1>8, HandleChildOrderIInv
<1>9. CASE Settle
  BY <1>9, SettleIInv
<1>10. CASE Restart /\ UNCHANGED executed
  BY <1>10, RestartIInv
<1>. QED
  BY <1>1, <1>2, <1>3, <1>4, <1>5, <1>6, <1>7, <1>8, <1>9, <1>10
  DEF Next, Callbacks

LEMMA Invariance == Spec => []IInv
<1>1. Init => IInv
  BY InitIInv
<1>2. IInv /\ [Next]_vars => IInv'
  BY NextIInv
<1>. QED
  BY <1>1, <1>2, PTL DEF Spec

-----------------------------------------------------------------------------
(* The variables of the algorithm, the bus and the EMS keep their types in *)
(* every behaviour of iceberg-strategy.ts with ems-server.ts.              *)
THEOREM TypeCorrect == Spec => []TypeOK
<1>1. IInv => TypeOK
  BY DEF IInv
<1>. QED
  BY <1>1, Invariance, PTL

(* However many callbacks overlap, ICEBERG has one slice of an order out   *)
(* at a time, of at most visibleQty.                                       *)
THEOREM OneSlice == Spec => []OneSliceAtATime
<1>1. IInv => OneSliceAtATime
  <2> SUFFICES ASSUME IInv PROVE OneSliceAtATime
    OBVIOUS
  <2>1. \A m \in Slices : m.qty \in Nat /\ VisibleQty[m.order] \in Nat
    BY OrdersAssumption DEF IInv, TypeOK, Slices, Message
  <2>2. \A m \in Slices : m.qty \in 1..VisibleQty[m.order]
    BY <2>1 DEF IInv, SliceBounded
  <2>. QED
    BY <2>2 DEF IInv, SliceUnique, OneSliceAtATime
<1>. QED
  BY <1>1, Invariance, PTL

(* The platform never executes more of an ICEBERG order than its quantity, *)
(* or its quantity and one slice once the algorithm has completed it.      *)
THEOREM BoundedExecution == Spec => []ExecutionBounded
<1>1. IInv => ExecutionBounded
  <2> SUFFICES ASSUME IInv, NEW o \in Orders,
                      NEW q \in {0} \cup {m.qty : m \in {n \in ChildOrders : n.order = o}}
               PROVE  executed[o] + q <= IF o \in routed /\ filledQty[o] = Qty[o]
                                         THEN Qty[o] + VisibleQty[o] ELSE Qty[o]
    BY DEF ExecutionBounded
  <2> USE DEF IInv
  <2>1. /\ executed[o] \in Nat /\ filledQty[o] \in Nat /\ totalRemaining[o] \in Nat
        /\ Qty[o] \in Nat /\ VisibleQty[o] \in Nat
    BY OrdersAssumption DEF TypeOK
  <2>2. q \in Nat /\ executed[o] + q <= filledQty[o] + Bound(o)
    <3>1. CASE q = 0
      BY <2>1, <3>1 DEF ExecutedKnown
    <3>2. ASSUME NEW m \in ChildOrders, m.order = o, q = m.qty
          PROVE  q \in Nat /\ executed[o] + q <= filledQty[o] + Bound(o)
      <4>1. m \in Slices /\ m.topic = "orders.child" /\ m.qty \in Nat
        BY DEF ChildOrders, Slices, TypeOK, Message
      <4>2. executed[o] = filledQty[o] /\ m.qty <= Bound(o)
        BY <3>2, <4>1 DEF ExecutedKnown, SliceBounded
      <4>3. Bound(o) \in Nat
        BY <2>1 DEF Bound
      <4>. QED
        BY <2>1, <3>2, <4>1, <4>2, <4>3
    <3>. QED
      BY <3>1, <3>2
  <2>3. CASE o \in routed
    BY <2>1, <2>2, <2>3 DEF BooksAddUp, Bound
  <2>4. CASE o \notin routed
    <3>1. q = 0
      BY <2>4 DEF OnlyRouted, SliceUnique, ChildOrders
    <3>2. executed[o] = 0
      BY <2>4 DEF OnlyRouted, ExecutedKnown
    <3>. QED
      BY <2>1, <2>4, <3>1, <3>2
  <2>. QED
    BY <2>3, <2>4
<1>. QED
  BY <1>1, Invariance, PTL

(* What ICEBERG counts as filled of a working order is what the EMS has    *)
(* executed of it, up to the one fill on its way.                          *)
THEOREM AccurateBooks == Spec => []BooksMatchEms
<1>1. IInv => BooksMatchEms
  <2> SUFFICES ASSUME IInv, NEW o \in activeOrders
               PROVE  LET onTheWay == {m \in Fills : m.order = o}
                      IN IF onTheWay = {} /\ ~sliceInFlight[o]
                         THEN filledQty[o] = executed[o]
                         ELSE \A m \in onTheWay : filledQty[o] + m.qty = executed[o]
    BY DEF BooksMatchEms
  <2>. QED
    BY DEF IInv, ExecutedKnown, Fills, TypeOK
<1>. QED
  BY <1>1, Invariance, PTL

-----------------------------------------------------------------------------
(* The refinement mapping, and what a slice set says of an order.          *)

StageMap   == [o \in Orders |-> Stage(o)]
WorkingMap == [o \in Orders |-> WorkingQty(o)]

(* The child orders of o among S, and the quantity of one of them.         *)
Of(S, o)   == {m \in S : m.order = o}
Amount(S)  == IF S = {} THEN 0 ELSE (CHOOSE m \in S : TRUE).qty

LEMMA WorkingIsAmount ==
  ASSUME NEW o PROVE WorkingQty(o) = Amount(Of(ChildOrders, o))
BY DEF WorkingQty, Amount, Of

LEMMA AmountNone ==
  ASSUME NEW S, NEW o, \A m \in S : m.order # o
  PROVE  Amount(Of(S, o)) = 0
<1>1. Of(S, o) = {}
  BY DEF Of
<1>. QED
  BY <1>1 DEF Amount

LEMMA AmountOne ==
  ASSUME NEW S, NEW c \in S, \A m \in S : m.order = c.order => m = c
  PROVE  Amount(Of(S, c.order)) = c.qty
<1>1. Of(S, c.order) = {c}
  BY DEF Of
<1>2. (CHOOSE m \in {c} : TRUE) = c
  OBVIOUS
<1>. QED
  BY <1>1, <1>2 DEF Amount

-----------------------------------------------------------------------------
(* What a concrete step has to show to be a given abstract one.            *)

LEMMA StutterStep ==
  ASSUME \A o \in Orders : Stage(o)' = Stage(o),
         \A o \in Orders : WorkingQty(o)' = WorkingQty(o),
         UNCHANGED executed
  PROVE  UNCHANGED Parent!vars
<1>1. StageMap' = StageMap /\ WorkingMap' = WorkingMap
  BY DEF StageMap, WorkingMap
<1>. QED
  BY <1>1 DEF Parent!vars, StageMap, WorkingMap

(* The stage and the work of one order, whatever becomes of the others.    *)
Kept(p) == Stage(p)' = Stage(p) /\ WorkingQty(p)' = WorkingQty(p)

LEMMA AcceptStep ==
  ASSUME NEW o \in Orders,
         Stage(o) = "idle", Stage(o)' = "live", WorkingQty(o)' = WorkingQty(o),
         \A p \in Orders \ {o} : Kept(p),
         UNCHANGED executed
  PROVE  Parent!Next
<1>1. /\ StageMap[o] = "idle"
      /\ StageMap' = [StageMap EXCEPT ![o] = "live"]
      /\ WorkingMap' = WorkingMap
  BY DEF StageMap, WorkingMap, Kept
<1>2. Parent!Accept(o)
  BY <1>1 DEF Parent!Accept, StageMap, WorkingMap
<1>. QED
  BY <1>2 DEF Parent!Next

LEMMA RetireStep ==
  ASSUME NEW o \in Orders,
         Stage(o) = "live", Stage(o)' \in {"retired", "spent"},
         WorkingQty(o)' = WorkingQty(o),
         \A p \in Orders \ {o} : Kept(p),
         UNCHANGED executed
  PROVE  Parent!Next
<1>1. /\ StageMap[o] = "live"
      /\ StageMap' = [StageMap EXCEPT ![o] = Stage(o)']
      /\ WorkingMap' = WorkingMap
  BY DEF StageMap, WorkingMap, Kept
<1>2. Parent!Retire(o)
  BY <1>1 DEF Parent!Retire, StageMap, WorkingMap
<1>. QED
  BY <1>2 DEF Parent!Next

LEMMA WorkStep ==
  ASSUME NEW o \in Orders, NEW q \in 1..VisibleQty[o],
         Stage(o) = "live", Stage(o)' = "live",
         WorkingQty(o) = 0, WorkingQty(o)' = q,
         executed[o] + q <= Qty[o],
         \A p \in Orders \ {o} : Kept(p),
         UNCHANGED executed
  PROVE  Parent!Next
<1>1. /\ StageMap[o] = "live" /\ StageMap' = StageMap
      /\ WorkingMap[o] = 0 /\ WorkingMap' = [WorkingMap EXCEPT ![o] = q]
  BY DEF StageMap, WorkingMap, Kept
<1>2. Parent!Work(o)
  BY <1>1 DEF Parent!Work, StageMap, WorkingMap
<1>. QED
  BY <1>2 DEF Parent!Next

LEMMA StraggleStep ==
  ASSUME NEW o \in Orders, NEW q \in 1..VisibleQty[o],
         Stage(o) = "retired", Stage(o)' = "spent",
         WorkingQty(o) = 0, WorkingQty(o)' = q,
         \A p \in Orders \ {o} : Kept(p),
         UNCHANGED executed
  PROVE  Parent!Next
<1>1. /\ StageMap[o] = "retired" /\ StageMap' = [StageMap EXCEPT ![o] = "spent"]
      /\ WorkingMap[o] = 0 /\ WorkingMap' = [WorkingMap EXCEPT ![o] = q]
  BY DEF StageMap, WorkingMap, Kept
<1>2. Parent!Straggle(o)
  BY <1>1 DEF Parent!Straggle, StageMap, WorkingMap
<1>. QED
  BY <1>2 DEF Parent!Next

LEMMA AnswerStep ==
  ASSUME NEW o \in Orders, NEW f \in 0..WorkingQty(o),
         WorkingQty(o) > 0, WorkingQty(o)' = 0, Stage(o)' = Stage(o),
         \A p \in Orders \ {o} : Kept(p),
         executed' = [executed EXCEPT ![o] = @ + f]
  PROVE  Parent!Next
<1>1. /\ StageMap' = StageMap
      /\ WorkingMap[o] = WorkingQty(o)
      /\ WorkingMap' = [WorkingMap EXCEPT ![o] = 0]
  BY DEF StageMap, WorkingMap, Kept
<1>2. Parent!Answer(o)
  BY <1>1 DEF Parent!Answer, StageMap, WorkingMap
<1>. QED
  BY <1>2 DEF Parent!Next

-----------------------------------------------------------------------------
(* The concrete steps, one lemma per kind.                                 *)

AbstractStep == Parent!Next \/ UNCHANGED Parent!vars

(* The slice under way is an order's only one.                             *)
LEMMA WorkingKnown ==
  ASSUME IInv
  PROVE  /\ \A c \in ChildOrders : WorkingQty(c.order) = c.qty
         /\ \A o \in Orders : (\A c \in ChildOrders : c.order # o) => WorkingQty(o) = 0
         /\ \A o \in Orders : ~sliceInFlight[o] => WorkingQty(o) = 0
<1>1. \A m1, m2 \in ChildOrders : m1.order = m2.order => m1 = m2
  BY DEF IInv, SliceUnique, ChildOrders
<1>2. ASSUME NEW c \in ChildOrders PROVE WorkingQty(c.order) = c.qty
  BY <1>1, AmountOne, WorkingIsAmount
<1>3. ASSUME NEW o \in Orders, \A c \in ChildOrders : c.order # o
      PROVE  WorkingQty(o) = 0
  BY <1>3, AmountNone, WorkingIsAmount
<1>4. ASSUME NEW o \in Orders, ~sliceInFlight[o] PROVE WorkingQty(o) = 0
  <2>1. \A c \in ChildOrders : c.order # o
    BY <1>4 DEF IInv, SliceUnique, ChildOrders
  <2>. QED
    BY <1>3, <2>1
<1>. QED
  BY <1>2, <1>3, <1>4

(* Work does not change where the child orders of an order do not.         *)
LEMMA WorkingKept ==
  ASSUME NEW o, {m \in ChildOrders' : m.order = o} = {m \in ChildOrders : m.order = o}
  PROVE  WorkingQty(o)' = WorkingQty(o)
<1>1. WorkingQty(o)' = Amount(Of(ChildOrders', o))
  BY DEF WorkingQty, Amount, Of
<1>2. Of(ChildOrders', o) = Of(ChildOrders, o)
  BY DEF Of
<1>. QED
  BY <1>1, <1>2, WorkingIsAmount

(* A step that keeps the map, the flags and the child orders.              *)
LEMMA QuietSteps ==
  ASSUME UNCHANGED <<routed, activeOrders, sliceInFlight, executed>>,
         ChildOrders' = ChildOrders
  PROVE  AbstractStep
<1>1. \A o \in Orders : Stage(o)' = Stage(o)
  BY DEF Stage
<1>2. \A o \in Orders : WorkingQty(o)' = WorkingQty(o)
  BY WorkingKept
<1>. QED
  BY <1>1, <1>2, StutterStep DEF AbstractStep

LEMMA RoutedOrderStep ==
  ASSUME IInv, NEW o \in Orders, RoutedOrder(o), UNCHANGED executed
  PROVE  AbstractStep
<1>1. \A p \in Orders : WorkingQty(p)' = WorkingQty(p)
  <2>1. ChildOrders' = ChildOrders
    BY DEF RoutedOrder, ChildOrders, Slices
  <2>. QED
    BY <2>1, WorkingKept
<1>2. Stage(o) = "idle" /\ Stage(o)' = "live"
  BY DEF Stage, RoutedOrder
<1>3. \A p \in Orders \ {o} : Stage(p)' = Stage(p)
  BY DEF Stage, RoutedOrder
<1>. QED
  BY <1>1, <1>2, <1>3, AcceptStep DEF AbstractStep, Kept

(* An order is retired with its slice accounted for or not; a callback that*)
(* holds one that left the map only repeats the message.                   *)
LEMMA ExpireStep ==
  ASSUME IInv, NEW h, NEW run, NEW o \in Orders, Expire(h, run, o),
         UNCHANGED <<routed, bus, executed>>
  PROVE  AbstractStep
<1>1. ChildOrders' = ChildOrders
  BY DEF Expire, Send, Expired, ChildOrders, Slices
<1>2. \A p \in Orders : WorkingQty(p)' = WorkingQty(p)
  BY <1>1, WorkingKept
<1>3. CASE o \in activeOrders
  <2>1. Stage(o) = "live" /\ Stage(o)' \in {"retired", "spent"}
    BY <1>3 DEF Stage, Expire, IInv, OnlyRouted
  <2>2. \A p \in Orders \ {o} : Stage(p)' = Stage(p)
    BY DEF Stage, Expire
  <2>. QED
    BY <1>2, <2>1, <2>2, RetireStep DEF AbstractStep, Kept
<1>4. CASE o \notin activeOrders
  BY <1>1, <1>4, QuietSteps DEF Expire
<1>. QED
  BY <1>3, <1>4

LEMMA SendSliceStep ==
  ASSUME IInv, IInv', NEW h \in Callbacks, NEW run, NEW o \in Orders, o \in routed,
         SendSlice(h, run, o),
         UNCHANGED <<routed, orderVars, bus, executed>>
  PROVE  AbstractStep
<1>1. PICK cap \in DepthCaps :
        Send(Child(o, sliceCount[o] + 1, Lesser(currentSliceQty[o], cap), h))
  BY DEF SendSlice
<1> DEFINE q == Lesser(currentSliceQty[o], cap)
           c == Child(o, sliceCount[o] + 1, q, h)
<1>2. /\ q \in 1..VisibleQty[o]
      /\ totalRemaining[o] > 0 => q <= totalRemaining[o]
  <2>1. cap \in Nat /\ cap > 0
    BY DepthAssumption
  <2>2. /\ currentSliceQty[o] \in Nat /\ currentSliceQty[o] > 0
        /\ VisibleQty[o] \in Nat /\ totalRemaining[o] \in Nat
        /\ currentSliceQty[o] <= VisibleQty[o]
        /\ totalRemaining[o] > 0 => currentSliceQty[o] <= totalRemaining[o]
    BY OrdersAssumption DEF SendSlice, CanSlice, IInv, TypeOK, BooksAddUp
  <2>3. /\ q \in Nat /\ q > 0 /\ q <= currentSliceQty[o]
    BY <2>1, <2>2, LesserFacts
  <2> HIDE DEF q
  <2>. QED
    BY <2>2, <2>3
<1>3. c.topic = "orders.child" /\ c.order = o /\ c.qty = q
  BY DEF Child
<1>4. sending' = sending \cup {c}
  BY <1>1 DEF Send
<1> HIDE DEF q, c
<1>5. ChildOrders' = ChildOrders \cup {c}
  BY <1>3, <1>4 DEF ChildOrders, Slices
<1>6. \A m \in ChildOrders : m.order # o
  BY DEF SendSlice, CanSlice, IInv, SliceUnique, ChildOrders
<1>7. WorkingQty(o) = 0
  BY <1>6, WorkingKnown
<1>8. WorkingQty(o)' = q
  <2>1. WorkingQty(o)' = Amount(Of(ChildOrders', o))
    BY DEF WorkingQty, Amount, Of
  <2>2. \A m \in ChildOrders' : m.order = c.order => m = c
    BY <1>3, <1>5, <1>6
  <2>3. c \in ChildOrders'
    BY <1>5
  <2>. QED
    BY <1>3, <2>1, <2>2, <2>3, AmountOne
<1>9. sliceInFlight' = [sliceInFlight EXCEPT ![o] = TRUE] /\ activeOrders' = activeOrders
      /\ ~sliceInFlight[o] /\ o \in DOMAIN sliceInFlight
  BY DEF SendSlice, CanSlice, IInv, TypeOK
<1>10. \A p \in Orders \ {o} : Kept(p)
  <2>1. ASSUME NEW p \in Orders \ {o} PROVE Stage(p)' = Stage(p)
    BY <1>9 DEF Stage
  <2>2. ASSUME NEW p \in Orders \ {o} PROVE WorkingQty(p)' = WorkingQty(p)
    BY <1>3, <1>5, WorkingKept
  <2>. QED
    BY <2>1, <2>2 DEF Kept
<1>11. CASE o \in activeOrders
  <2>1. Stage(o) = "live" /\ Stage(o)' = "live"
    BY <1>9, <1>11 DEF Stage
  <2>2. executed[o] + q <= Qty[o]
    <3>1. executed[o] = filledQty[o]
      BY <1>9 DEF IInv, ExecutedKnown
    <3>2. q <= totalRemaining[o]
      BY <1>2, <1>11 DEF IInv, BooksAddUp
    <3>3. filledQty[o] + totalRemaining[o] = Qty[o]
      BY DEF IInv, BooksAddUp
    <3>4. /\ q \in Nat /\ totalRemaining[o] \in Nat
          /\ filledQty[o] \in Nat
      BY <1>2 DEF IInv, TypeOK
    <3>. QED
      BY <3>1, <3>2, <3>3, <3>4
  <2>. QED
    BY <1>2, <1>7, <1>8, <1>10, <2>1, <2>2, WorkStep DEF AbstractStep
<1>12. CASE o \notin activeOrders
  <2>1. Stage(o) = "retired" /\ Stage(o)' = "spent"
    BY <1>9, <1>12 DEF Stage
  <2>. QED
    BY <1>2, <1>7, <1>8, <1>10, <2>1, StraggleStep DEF AbstractStep
<1>. QED
  BY <1>11, <1>12

LEMMA RunLoopStep ==
  ASSUME IInv, IInv', NEW h \in Callbacks, NEW run \in Loops, run.todo \subseteq routed,
         RunLoop(h, run), UNCHANGED executed
  PROVE  AbstractStep
<1>1. UNCHANGED <<routed, orderVars, bus>>
  BY DEF RunLoop
<1>2. CASE LeaveLoop(h, run)
  <2>1. ChildOrders' = ChildOrders
    BY <1>1, <1>2 DEF LeaveLoop, ChildOrders, Slices
  <2>. QED
    BY <1>1, <1>2, <2>1, QuietSteps DEF LeaveLoop
<1>3. ASSUME NEW o \in run.todo, Expire(h, run, o) PROVE AbstractStep
  BY <1>1, <1>3, ExpireStep DEF Loops
<1>4. ASSUME NEW o \in run.todo, SendSlice(h, run, o) PROVE AbstractStep
  BY <1>1, <1>4, SendSliceStep DEF Loops
<1>. QED
  BY <1>2, <1>3, <1>4 DEF RunLoop

(* The fill that completes an order retires it; another one only frees the *)
(* flag of a live order, or is ignored.                                    *)
LEMMA FillEventStep ==
  ASSUME IInv, NEW m \in bus, FillEvent(m), UNCHANGED executed
  PROVE  AbstractStep
<1>1. ChildOrders' = ChildOrders
  BY DEF FillEvent, ChildOrders, Slices
<1>2. \A p \in Orders : WorkingQty(p)' = WorkingQty(p)
  BY <1>1, WorkingKept
<1>3. CASE m.order \notin activeOrders
  BY <1>1, <1>3, QuietSteps DEF FillEvent
<1>4. CASE m.order \in activeOrders
  <2> DEFINE o == m.order
  <2>1. /\ o \in Orders /\ o \in routed /\ routed' = routed
        /\ sliceInFlight' = [sliceInFlight EXCEPT ![o] = FALSE]
        /\ activeOrders' \in {activeOrders, activeOrders \ {o}}
    BY <1>4 DEF FillEvent, BookFill, IInv, TypeOK, OnlyRouted
  <2>2. Stage(o) = "live" /\ o \in DOMAIN sliceInFlight
    BY <1>4, <2>1 DEF Stage, IInv, TypeOK
  <2>3. \A p \in Orders \ {o} : Stage(p)' = Stage(p)
    BY <2>1 DEF Stage
  <2>4. CASE activeOrders' = activeOrders
    <3>1. Stage(o)' = "live"
      BY <1>4, <2>1, <2>4 DEF Stage
    <3>2. \A p \in Orders : Stage(p)' = Stage(p)
      BY <2>2, <2>3, <3>1
    <3>. QED
      BY <1>2, <3>2, StutterStep DEF AbstractStep
  <2>5. CASE activeOrders' = activeOrders \ {o}
    <3>1. Stage(o)' = "retired"
      BY <2>1, <2>2, <2>5 DEF Stage
    <3>. QED
      BY <1>2, <2>1, <2>2, <2>3, <3>1, RetireStep DEF AbstractStep, Kept
  <2>. QED
    BY <2>1, <2>4, <2>5
<1>. QED
  BY <1>3, <1>4

(* Whatever is executed of a child order, the order no longer works at the *)
(* venue; a child order that is lost in the producer is answered by nothing.*)
LEMMA ChildGoneStep ==
  ASSUME IInv, NEW c \in ChildOrders, NEW f \in 0..c.qty,
         ChildOrders' = ChildOrders \ {c},
         executed' = [executed EXCEPT ![c.order] = @ + f],
         UNCHANGED <<routed, activeOrders, sliceInFlight>>
  PROVE  AbstractStep
<1> DEFINE o == c.order
<1>1. /\ o \in Orders /\ WorkingQty(o) = c.qty /\ c.qty > 0
      /\ \A d \in ChildOrders : d.order = o => d = c
  BY WorkingKnown DEF IInv, TypeOK, SliceBounded, SliceUnique, ChildOrders, Slices, Message
<1>2. WorkingQty(o)' = 0
  <2>1. WorkingQty(o)' = Amount(Of(ChildOrders', o))
    BY DEF WorkingQty, Amount, Of
  <2>2. \A d \in ChildOrders' : d.order # o
    BY <1>1
  <2>. QED
    BY <2>1, <2>2, AmountNone
<1>3. \A p \in Orders : Stage(p)' = Stage(p)
  BY DEF Stage
<1>4. ASSUME NEW p \in Orders \ {o} PROVE WorkingQty(p)' = WorkingQty(p)
  <2>1. {d \in ChildOrders' : d.order = p} = {d \in ChildOrders : d.order = p}
    BY <1>4
  <2>. QED
    BY <2>1, WorkingKept
<1>. QED
  BY <1>1, <1>2, <1>3, <1>4, AnswerStep DEF AbstractStep, Kept

LEMMA HandleChildOrderStep ==
  ASSUME IInv, NEW c \in bus, HandleChildOrder(c), UNCHANGED algoVars
  PROVE  AbstractStep
<1>1. /\ c \in ChildOrders /\ c \notin sending
      /\ c.order \in Orders /\ c.qty \in Nat /\ sending' = sending
  BY DEF HandleChildOrder, IInv, TypeOK, SliceUnique, ChildOrders, Slices, Message
<1>2. executed \in [Orders -> Nat]
  BY DEF IInv, TypeOK
<1>3. UNCHANGED <<routed, activeOrders, sliceInFlight>>
  BY DEF algoVars
<1>4. ASSUME NEW q \in 1..c.qty, bus' = (bus \ {c}) \cup {Fill(c, q)},
             executed' = [executed EXCEPT ![c.order] = @ + q]
      PROVE  AbstractStep
  <2>1. ChildOrders' = ChildOrders \ {c}
    BY <1>1, <1>4 DEF ChildOrders, Slices, Fill
  <2>2. q \in 0..c.qty
    BY <1>1
  <2>. QED
    BY <1>1, <1>3, <1>4, <2>1, <2>2, ChildGoneStep
<1>5. ASSUME bus' = bus \ {c}, executed' = executed
      PROVE  AbstractStep
  <2>1. ChildOrders' = ChildOrders \ {c}
    BY <1>1, <1>5 DEF ChildOrders, Slices
  <2>2. executed' = [executed EXCEPT ![c.order] = @ + 0] /\ 0 \in 0..c.qty
    BY <1>1, <1>2, <1>5
  <2>. QED
    BY <1>1, <1>3, <2>1, <2>2, ChildGoneStep
<1>. QED
  BY <1>4, <1>5 DEF HandleChildOrder

LEMMA SettleStep ==
  ASSUME IInv, Settle
  PROVE  AbstractStep
<1>1. PICK m \in sending : \/ m.topic = "orders.child" /\ Written(m)
                          \/ Lost(m)
  BY DEF Settle
<1>2. UNCHANGED <<routed, activeOrders, sliceInFlight, executed>>
  BY DEF Settle, algoVars
<1>3. CASE m.topic = "orders.child" /\ Written(m)
  <2>1. ChildOrders' = ChildOrders
    BY <1>3 DEF Written, ChildOrders, Slices
  <2>. QED
    BY <1>2, <2>1, QuietSteps
<1>4. CASE m.topic = "orders.child" /\ Lost(m)
  <2>1. /\ m \in ChildOrders /\ m \notin bus
        /\ m.order \in Orders /\ m.qty \in Nat /\ executed \in [Orders -> Nat]
    BY <1>4 DEF IInv, TypeOK, SliceUnique, ChildOrders, Slices, Message
  <2>2. ChildOrders' = ChildOrders \ {m}
    BY <1>4, <2>1 DEF Lost, ChildOrders, Slices
  <2>3. executed' = [executed EXCEPT ![m.order] = @ + 0] /\ 0 \in 0..m.qty
    BY <1>2, <2>1
  <2>. QED
    BY <1>2, <2>1, <2>2, <2>3, ChildGoneStep
<1>5. CASE m.topic # "orders.child" /\ Lost(m)
  <2>1. ChildOrders' = ChildOrders
    BY <1>5 DEF Lost, ChildOrders, Slices
  <2>. QED
    BY <1>2, <2>1, QuietSteps
<1>. QED
  BY <1>1, <1>3, <1>4, <1>5

(* A restart retires every live order; one whose slice is unaccounted for  *)
(* is spent at once.                                                       *)
LEMMA RestartStep ==
  ASSUME IInv, Restart, UNCHANGED executed
  PROVE  AbstractStep
<1> DEFINE Spent == {o \in Orders : Stage(o) = "live" /\ sliceInFlight[o]}
<1>1. ChildOrders' = ChildOrders
  BY DEF Restart, ChildOrders, Slices
<1>2. \A p \in Orders : WorkingQty(p)' = WorkingQty(p)
  BY <1>1, WorkingKept
<1>3. /\ activeOrders' = {} /\ routed' = routed /\ sliceInFlight' = sliceInFlight
      /\ activeOrders \subseteq routed
  BY DEF Restart, IInv, OnlyRouted
<1>4. ASSUME NEW o \in Orders
      PROVE  Stage(o)' = CASE Stage(o) # "live" -> Stage(o)
                            [] o \in Spent      -> "spent"
                            [] OTHER            -> "retired"
  <2>1. CASE Stage(o) # "live"
    <3>1. Stage(o)' = Stage(o)
      BY <1>3, <2>1 DEF Stage
    <3>. QED
      BY <2>1, <3>1
  <2>2. CASE Stage(o) = "live" /\ sliceInFlight[o]
    <3>1. Stage(o)' = "spent"
      BY <1>3, <2>2 DEF Stage
    <3>. QED
      BY <2>2, <3>1
  <2>3. CASE Stage(o) = "live" /\ ~sliceInFlight[o]
    <3>1. Stage(o)' = "retired"
      BY <1>3, <2>3 DEF Stage
    <3>. QED
      BY <2>3, <3>1
  <2>. QED
    BY <2>1, <2>2, <2>3
<1>5. Parent!RetireAll
  <2>1. Spent \in SUBSET {o \in Orders : StageMap[o] = "live"}
    BY DEF StageMap
  <2>2. \A o \in Orders : StageMap[o] = Stage(o)
    BY DEF StageMap
  <2> HIDE DEF Spent
  <2>3. StageMap' = [o \in Orders |-> CASE StageMap[o] # "live" -> StageMap[o]
                                        [] o \in Spent -> "spent"
                                        [] OTHER -> "retired"]
    BY <1>4, <2>2 DEF StageMap
  <2>4. WorkingMap' = WorkingMap
    BY <1>2 DEF WorkingMap
  <2>. QED
    BY <2>1, <2>3, <2>4 DEF Parent!RetireAll, StageMap, WorkingMap
<1>. QED
  BY <1>5 DEF AbstractStep, Parent!Next

-----------------------------------------------------------------------------
LEMMA InitRefines == Init => Parent!Init
<1> SUFFICES ASSUME Init PROVE Parent!Init
  OBVIOUS
<1>1. IInv /\ routed = {} /\ executed = [o \in Orders |-> 0]
      /\ \A o \in Orders : ~sliceInFlight[o]
  BY InitIInv DEF Init, AlgoInit
<1>2. \A o \in Orders : Stage(o) = "idle" /\ WorkingQty(o) = 0
  BY <1>1, WorkingKnown DEF Stage
<1>3. StageMap = [o \in Orders |-> "idle"] /\ WorkingMap = [o \in Orders |-> 0]
  BY <1>2 DEF StageMap, WorkingMap
<1>. QED
  BY <1>1, <1>3 DEF Parent!Init, StageMap, WorkingMap

LEMMA NextRefines == IInv /\ IInv' /\ [Next]_vars => AbstractStep
<1> SUFFICES ASSUME IInv, IInv', [Next]_vars PROVE AbstractStep
  OBVIOUS
<1>1. CASE UNCHANGED vars
  <2>1. ChildOrders' = ChildOrders
    BY <1>1 DEF vars, ChildOrders, Slices
  <2>. QED
    BY <1>1, <2>1, QuietSteps DEF vars, algoVars
<1>2. ASSUME NEW o \in Orders, RoutedOrder(o), UNCHANGED executed PROVE AbstractStep
  BY <1>2, RoutedOrderStep
<1>3. ASSUME NEW o \in Orders, Elapse(o), UNCHANGED executed PROVE AbstractStep
  <2>1. ChildOrders' = ChildOrders
    BY <1>3 DEF Elapse, ChildOrders, Slices
  <2>. QED
    BY <1>3, <2>1, QuietSteps DEF Elapse
<1>4. ASSUME NEW h \in Callbacks, OnTick(h), UNCHANGED executed PROVE AbstractStep
  <2>1. PICK priced \in SUBSET activeOrders : \E triggered \in SUBSET (priced \ elapsed) :
          RunLoop(h, [todo |-> activeOrders, due |-> priced \cap elapsed,
                      triggered |-> triggered])
    BY <1>4 DEF OnTick
  <2>2. PICK triggered \in SUBSET (priced \ elapsed) :
          RunLoop(h, [todo |-> activeOrders, due |-> priced \cap elapsed,
                      triggered |-> triggered])
    BY <2>1
  <2> DEFINE run == [todo |-> activeOrders, due |-> priced \cap elapsed,
                     triggered |-> triggered]
  <2>3. run \in Loops /\ run.todo \subseteq routed
    BY DEF IInv, TypeOK, OnlyRouted, Loops
  <2> HIDE DEF run
  <2>4. RunLoop(h, run)
    BY <2>2 DEF run
  <2>. QED
    BY <1>4, <2>3, <2>4, RunLoopStep
<1>5. ASSUME NEW h \in Callbacks, ExpirySweep(h), UNCHANGED executed PROVE AbstractStep
  <2> DEFINE run == [todo |-> activeOrders, due |-> activeOrders \cap elapsed,
                     triggered |-> {}]
  <2>1. run \in Loops /\ run.todo \subseteq routed
    BY DEF IInv, TypeOK, OnlyRouted, Loops
  <2>2. RunLoop(h, run)
    BY <1>5 DEF ExpirySweep
  <2> HIDE DEF run
  <2>. QED
    BY <1>5, <2>1, <2>2, RunLoopStep
<1>6. ASSUME NEW h \in Callbacks, Resume(h), UNCHANGED executed PROVE AbstractStep
  <2>1. loop[h] \in Loops /\ loop[h].todo \subseteq routed
    BY DEF IInv, TypeOK, OnlyRouted, Loops
  <2>. QED
    BY <1>6, <2>1, RunLoopStep DEF Resume
<1>7. ASSUME NEW m \in bus, FillEvent(m), UNCHANGED executed PROVE AbstractStep
  BY <1>7, FillEventStep
<1>8. ASSUME NEW m \in bus, HandleChildOrder(m), UNCHANGED algoVars PROVE AbstractStep
  BY <1>8, HandleChildOrderStep
<1>9. CASE Settle
  BY <1>9, SettleStep
<1>10. CASE Restart /\ UNCHANGED executed
  BY <1>10, RestartStep
<1>. QED
  BY <1>1, <1>2, <1>3, <1>4, <1>5, <1>6, <1>7, <1>8, <1>9, <1>10
  DEF Next, Callbacks

(* ICEBERG with the EMS does to a parent order what an execution algorithm *)
(* promises and no more: one child order at a time, none that commits a    *)
(* live order beyond its quantity, and at most one slice after the order   *)
(* completed, expired or was forgotten.                                    *)
THEOREM IcebergImplementsParent == Spec => ImplementsParentOrder
<1>1. Init => Parent!Init
  BY InitRefines
<1>2. IInv /\ IInv' /\ [Next]_vars => [Parent!Next]_(Parent!vars)
  BY NextRefines DEF AbstractStep
<1>3. Parent!Spec <=> Parent!Init /\ [][Parent!Next]_(Parent!vars)
  BY DEF Parent!Spec
<1>4. Spec => Parent!Spec
  BY <1>1, <1>2, <1>3, Invariance, PTL DEF Spec
<1>. QED
  BY <1>4 DEF ImplementsParentOrder
=============================================================================
