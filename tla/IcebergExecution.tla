-------------------------- MODULE IcebergExecution --------------------------
(***************************************************************************)
(* ICEBERG, the EMS and the bus between them, and what they do together to *)
(* a parent order.                                                         *)
(***************************************************************************)
EXTENDS Iceberg, Ems

vars == <<algoVars, sending, bus, executed>>

Init == AlgoInit /\ BusInit /\ executed = [o \in Orders |-> 0]

(* A pending send of the algorithm settles.  The services that read        *)
(* orders.expired are not part of this model: for it, an expiry that was   *)
(* written and one that was not are the same.                              *)
Settle == /\ \E m \in sending :
               \/ m.topic = "orders.child" /\ Written(m)
               \/ Lost(m)
          /\ UNCHANGED <<algoVars, executed>>

Next == \/ \E o \in Orders : (RoutedOrder(o) \/ Elapse(o)) /\ UNCHANGED executed
        \/ \E h \in Ticks  : OnTick(h) /\ UNCHANGED executed
        \/ \E h \in Sweeps : ExpirySweep(h) /\ UNCHANGED executed
        \/ \E h \in Callbacks : Resume(h) /\ UNCHANGED executed
        \/ \E m \in bus : FillEvent(m) /\ UNCHANGED executed
        \/ \E m \in bus : HandleChildOrder(m) /\ UNCHANGED algoVars
        \/ Settle
        \/ Restart /\ UNCHANGED executed

Spec == Init /\ [][Next]_vars

(* The clock advances, the sweep timer fires, and every pending send is    *)
(* settled: the producer retries its connection for ever, and rejects what *)
(* the broker refuses.  Nothing is assumed of ticks, fills or the EMS.     *)
Fairness == /\ \A o \in Orders : WF_vars(Elapse(o) /\ UNCHANGED executed)
            /\ \A h \in Sweeps : WF_vars(ExpirySweep(h) /\ UNCHANGED executed)
            /\ \A h \in Callbacks : WF_vars(Resume(h) /\ UNCHANGED executed)
            /\ WF_vars(Settle)

FairSpec == Spec /\ Fairness

-----------------------------------------------------------------------------
(* The child orders and fills under way: in a producer or on a topic.      *)
Slices     == {m \in sending \cup bus : m.topic # "orders.expired"}
ChildOrders == {m \in Slices : m.topic = "orders.child"}
Fills      == {m \in Slices : m.topic = "orders.filled"}

Message == [topic : {"orders.child", "orders.filled", "orders.expired"},
            order : Orders, slice : Nat, qty : Nat, by : Callbacks]

TypeOK ==
  /\ routed \subseteq Orders
  /\ ahead \in [Orders -> SUBSET Orders]
  /\ activeOrders \subseteq Orders
  /\ totalRemaining \in [Orders -> Nat]
  /\ currentSliceQty \in [Orders -> Nat]
  /\ sliceInFlight \in [Orders -> BOOLEAN]
  /\ filledQty \in [Orders -> Nat]
  /\ sliceCount \in [Orders -> Nat]
  /\ elapsed \subseteq routed
  /\ loop \in [Callbacks -> [todo : SUBSET Orders, due : SUBSET Orders,
                             triggered : SUBSET Orders]]
  /\ sending \subseteq Message
  /\ bus \subseteq Message
  /\ executed \in [Orders -> Nat]

(* iceberg-strategy.ts:6-7: the algorithm "hides total order size by       *)
(* sending one small visible slice at a time" and waits for it to fill.    *)
(* Whatever callbacks overlap, and after expiry or completion too, no two  *)
(* slices of an order are under way together, and none shows more than     *)
(* visibleQty.                                                             *)
OneSliceAtATime ==
  /\ \A m1, m2 \in Slices : m1.order = m2.order => m1 = m2
  /\ \A m \in Slices : m.qty \in 1..VisibleQty[m.order]

(* An order that was not filled in the algorithm's books was never         *)
(* executed beyond its quantity; a filled one was executed beyond it by    *)
(* one slice at most, the one a callback with a stale snapshot still sends.*)
ExecutionBounded ==
  \A o \in Orders :
    LET out == {m \in ChildOrders : m.order = o}
    IN \A q \in {0} \cup {m.qty : m \in out} :
         executed[o] + q <= IF o \in routed /\ filledQty[o] = Qty[o]
                            THEN Qty[o] + VisibleQty[o]
                            ELSE Qty[o]

(* What the books of a working order say was filled is what the EMS has    *)
(* executed, less the fill that is still on its way.                       *)
BooksMatchEms ==
  \A o \in activeOrders :
    LET onTheWay == {m \in Fills : m.order = o}
    IN IF onTheWay = {} /\ ~sliceInFlight[o]
       THEN filledQty[o] = executed[o]
       ELSE \A m \in onTheWay : filledQty[o] + m.qty = executed[o]

(* Every order leaves the map: a slice the EMS could not fill keeps an     *)
(* order waiting, but never past its expiry.                               *)
EveryOrderRetires == \A o \in Orders : (o \in activeOrders) ~> (o \notin activeOrders)

(* iceberg-strategy.ts:50 calls totalRemaining the "shares still to        *)
(* execute": a slice is never larger than it.                              *)
SliceWithinRemaining ==
  [][\A m \in sending' \ sending :
       m.topic = "orders.child" => m.qty <= totalRemaining[m.order]]_vars

-----------------------------------------------------------------------------
(* The refinement of ParentOrder.                                          *)
WorkingQty(o) ==
  LET out == {m \in ChildOrders : m.order = o}
  IN IF out = {} THEN 0 ELSE (CHOOSE m \in out : TRUE).qty

Stage(o) == IF o \notin routed THEN "idle"
            ELSE IF o \in activeOrders THEN "live"
            ELSE IF sliceInFlight[o] THEN "spent" ELSE "retired"

Parent == INSTANCE ParentOrder WITH
            SliceSize <- VisibleQty,
            stage     <- [o \in Orders |-> Stage(o)],
            working   <- [o \in Orders |-> WorkingQty(o)]

(* Iceberg with the EMS does no more than an execution algorithm promises. *)
ImplementsParentOrder == Parent!Spec
=============================================================================
