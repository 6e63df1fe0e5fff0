--------------------------- MODULE SlicerExecution --------------------------
(***************************************************************************)
(* LIMIT, VWAP or POV next to TWAP, with the EMS, the journal and the bus  *)
(* between them.                                                           *)
(***************************************************************************)
EXTENDS TickSlicer, Twap, Ems

CONSTANT MaxRouted   \* bound: orders the OMS routes

(* An algorithm takes the orders of its own strategy.                      *)
ASSUME OneStrategy == Orders \cap TwapOrders = {}

vars == <<progressVars, slicerVars, twap, sending, bus, executed>>

AllOrders == Orders \cup TwapOrders

Init == /\ ProgressInit
        /\ SlicerInit
        /\ TwapInit
        /\ BusInit
        /\ executed = [o \in AllOrders |-> 0]

RoutedBefore == Len(routed) + Cardinality({o \in TwapOrders : twap[o].phase # "idle"})

Slicing ==
  \/ RoutedBefore < MaxRouted /\ \E o \in Orders : RoutedOrder(o)
  \/ \E h \in Ticks : OnTick(h)
  \/ \E h \in Callbacks : Answer(h)
  \/ \E h \in Ticks : Evaluate(h) \/ AfterSend(h)
  \/ StartSweep \/ SweepOrder \/ AfterOutcome

Twapping ==
  \E o \in TwapOrders : \/ RoutedBefore < MaxRouted /\ TwapRouted(o)
                        \/ TwapRead(o) \/ TwapAnswer(o)
                        \/ TwapSlice(o) \/ TwapSent(o) \/ TwapClose(o)

Next ==
  \/ Slicing /\ UNCHANGED <<twap, executed>>
  \/ Twapping /\ UNCHANGED <<slicerVars, executed>>
  \/ \E m \in bus : JournalFill(m) /\ UNCHANGED <<slicerVars, twap, executed>>
  \/ \E m \in bus : HandleChildOrder(m) /\ UNCHANGED <<progressVars, slicerVars, twap>>
  \/ (Settle \/ Advance) /\ UNCHANGED <<slicerVars, twap, executed>>

Spec == Init /\ [][Next]_vars

(* Time passes, timers fire, a request to the journal ends within its two  *)
(* seconds one way or the other, and sends settle.  Nothing is assumed of  *)
(* ticks, of the EMS and of the journal's consumer.                        *)
FairSpec ==
  /\ Spec
  /\ WF_vars(Settle /\ UNCHANGED <<slicerVars, twap, executed>>)
  /\ WF_vars(Advance /\ UNCHANGED <<slicerVars, twap, executed>>)
  /\ WF_vars((StartSweep \/ Answer(Sweep) \/ SweepOrder \/ AfterOutcome)
              /\ UNCHANGED <<twap, executed>>)
  /\ \A o \in TwapOrders :
       WF_vars((TwapRead(o) \/ TwapAnswer(o) \/ TwapSlice(o) \/ TwapSent(o) \/ TwapClose(o))
               /\ UNCHANGED <<slicerVars, executed>>)

-----------------------------------------------------------------------------
TypeOK ==
  /\ clock \in 0 .. MaxClock
  /\ journal \subseteq [order : AllOrders, slice : Nat, qty : Nat]
  /\ sent \subseteq [order : AllOrders, slice : Nat, sentAt : Nat]
  /\ givenUp \subseteq [order : AllOrders, slice : Nat]
  /\ routed \in Seq(Orders)
  /\ pending \subseteq Orders
  /\ expiresAt \in [Orders -> Nat]
  /\ inFlight \in [Orders -> {None} \cup [slice : Nat, qty : Nat, sentAt : Nat]]
  /\ evaluating \subseteq Orders
  /\ children \in [Orders -> Nat]
  /\ \A h \in Callbacks : loop[h].phase \in {"idle", "reading", "answered", "sending"}
  /\ outcome \in [Orders -> {"working", "complete", "expired"}]
  /\ twap \in [TwapOrders -> [phase : {"idle", "waiting", "reading", "answered", "sending",
                                       "settling", "closing", "done"},
                              slices : 0 .. NumSlices,
                              child : {None} \cup [slice : Nat, qty : Nat, sentAt : Nat],
                              due : Nat, started : Nat,
                              progress : {None} \cup SUBSET journal,
                              outcome : {"working", "complete", "expired"}]]
  /\ \A m \in sending \cup bus : m.order \in AllOrders /\ m.slice \in Nat /\ m.qty \in Nat
  /\ executed \in [AllOrders -> Nat]

OrderQty(o) == IF o \in Orders THEN Qty[o] ELSE TwapQty[o]

(* The playbook for new algorithms (add-algo-strategy.mdx:92): "At most    *)
(* one child is in flight per parent order", until its fill is journalled  *)
(* or ALGO_CHILD_SETTLE_MS is over, whatever invocations overlap.          *)
OneChildInFlight ==
  \A o \in AllOrders :
    \A c, d \in {s \in sent : /\ s.order = o
                              /\ clock < s.sentAt + SettleTime
                              /\ ~IsFilled(s, Rows(o))} : c = d

(* What is out for an order, executed or not, stays within its quantity,   *)
(* but for the children that were given up for lost before their fill was  *)
(* journalled: the time limit is the only way to execute too much.         *)
WithinQuantity ==
  \A o \in AllOrders :
    LET out == {m \in sending \cup bus : m.topic \in {"orders.child", "orders.filled"}}
    IN MapThenSumSet(QtyOf, {m \in out \cup journal :
                               /\ m.order = o
                               /\ [order |-> o, slice |-> m.slice] \notin givenUp})
         <= OrderQty(o)

(* The same page, line 98: "a sweep that removes an order mid-evaluation   *)
(* is not undone".                                                         *)
RemovedForGood == \A o \in Orders : outcome[o] # "working" => o \notin pending

(* Every order comes to its end, journal or no journal.                    *)
EveryOrderEnds ==
  /\ \A o \in Orders : o \in pending ~> outcome[o] # "working"
  /\ \A o \in TwapOrders : twap[o].phase # "idle" ~> twap[o].phase = "done"
=============================================================================
