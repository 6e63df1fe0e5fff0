------------------------------ MODULE TickSlicer ----------------------------
(***************************************************************************)
(* LIMIT, VWAP and POV (algo/limit-strategy.ts, vwap-strategy.ts,          *)
(* pov-strategy.ts, with startJournalProgressSweep of common-http.ts): a   *)
(* market tick makes them read the budget of each order and send a slice.  *)
(*                                                                         *)
(* The three have the same shape; two things differ.  VWAP and POV iterate *)
(* over the live map, LIMIT over a copy of its values, so the order object *)
(* LIMIT looks at may have been replaced since.  And what a tick and the   *)
(* market do to the slice's size and whether there is one at all           *)
(* (triggered, deviation, volume, depth) is left open.                     *)
(*                                                                         *)
(* One action is one uninterrupted stretch of JavaScript.  Left out: the   *)
(* heartbeat that ends a tick, which nothing waits for.                    *)
(***************************************************************************)
EXTENDS FillProgress, Sequences

CONSTANTS Orders, Qty, Lifetime,
          CopiesMap,   \* the loop of LIMIT: for (const order of [...values()])
          Ticks,       \* onTick invocations that can be suspended at once
          Sweep        \* the one invocation of the progress sweep

ASSUME SlicerAssumption == /\ Qty \in [Orders -> Nat \ {0}]
                           /\ Lifetime \in Nat
                           /\ CopiesMap \in BOOLEAN
                           /\ Sweep \notin Ticks

Callbacks == Ticks \cup {Sweep}

VARIABLES
  routed,       \* orders whose orders.routed message was handled, in order
  pending,      \* the keys of the map, which iterates in the order of routed
  expiresAt,
  inFlight,     \* the field of the order object that is in the map
  evaluating,
  children,     \* per order, children numbered so far
  loop,         \* per callback, where in the loop it is suspended
  outcome       \* history: how the sweep ended an order

slicerVars == <<routed, pending, expiresAt, inFlight, evaluating, children, loop, outcome>>

(* A suspended callback: the tick's `now' and triggered orders, the copy   *)
(* of the map, the position of the order it is at, and, while it evaluates *)
(* an order, its own `now', the child it takes to be in flight, and what   *)
(* the journal answered.                                                   *)
Idle == [phase |-> "idle", now |-> 0, triggered |-> {}, copy |-> <<>>, at |-> 0,
         started |-> 0, child |-> None, progress |-> None]

SlicerInit ==
  /\ routed = <<>>
  /\ pending = {}
  /\ expiresAt = [o \in Orders |-> 0]
  /\ inFlight = [o \in Orders |-> None]
  /\ evaluating = {}
  /\ children = [o \in Orders |-> 0]
  /\ loop = [h \in Callbacks |-> Idle]
  /\ outcome = [o \in Orders |-> "working"]

RoutedOrder(o) ==
  /\ o \notin {routed[i] : i \in DOMAIN routed}
  /\ clock + Lifetime <= MaxClock
  /\ routed' = Append(routed, o)
  /\ pending' = pending \cup {o}
  /\ expiresAt' = [expiresAt EXCEPT ![o] = clock + Lifetime]
  /\ UNCHANGED <<inFlight, evaluating, children, loop, outcome, progressVars, sending, bus>>

-----------------------------------------------------------------------------
(* The for loop of a tick, from one order's evaluation to the next's.      *)

Order(run) == routed[run.at]

(* The orders the loop still comes to, by their position, and the inFlight *)
(* of the object it then holds.                                            *)
Ahead(run) ==
  {i \in DOMAIN routed :
     i > run.at /\ IF CopiesMap THEN routed[i] \in DOMAIN run.copy ELSE routed[i] \in pending}
Held(run, o) == IF CopiesMap THEN run.copy[o] ELSE inFlight[o]

(* Mutant: an order that is being evaluated is evaluated again.            *)
PassesClaimed(run, claimed, o) == o \notin run.triggered \/ run.now >= expiresAt[o]

(* What the loop passes over.                                              *)
Passes(run, claimed, o) ==
  o \notin run.triggered \/ run.now >= expiresAt[o] \/ o \in claimed

(* The next order is claimed and the journal asked, or the loop is left.   *)
NextOrder(h, run, claimed) ==
  \/ /\ \A i \in Ahead(run) : Passes(run, claimed, routed[i])
     /\ evaluating' = claimed
     /\ loop' = [loop EXCEPT ![h] = Idle]
  \/ \E i \in Ahead(run) :
       /\ ~Passes(run, claimed, routed[i])
       /\ \A j \in Ahead(run) : j < i => Passes(run, claimed, routed[j])
       /\ evaluating' = claimed \cup {routed[i]}
       /\ loop' = [loop EXCEPT ![h] =
                     [run EXCEPT !.phase = "reading", !.at = i, !.started = clock,
                                 !.child = Held(run, routed[i]), !.progress = None]]

(* Mutant: the entry is written whether or not the order is still there.   *)
SetInFlightAlways(o, child) ==
  /\ inFlight' = [inFlight EXCEPT ![o] = child]
  /\ pending' = pending \cup {o}
SetInFlight(o, child) ==
  /\ inFlight' = IF o \in pending THEN [inFlight EXCEPT ![o] = child] ELSE inFlight
  /\ UNCHANGED pending

OnTick(h) ==
  /\ loop[h].phase = "idle"
  /\ \E triggered \in SUBSET Orders :
       NextOrder(h, [Idle EXCEPT !.now = clock, !.triggered = triggered,
                                 !.copy = IF CopiesMap THEN [o \in pending |-> inFlight[o]]
                                          ELSE <<>>],
                 evaluating)
  /\ UNCHANGED <<routed, pending, expiresAt, inFlight, children, outcome, progressVars,
                 sending, bus>>

(* The journal's answer is on its way back.                                *)
Answer(h) ==
  /\ loop[h].phase = "reading"
  /\ \E progress \in Answers(Order(loop[h])) :
       loop' = [loop EXCEPT ![h].phase = "answered", ![h].progress = progress]
  /\ UNCHANGED <<routed, pending, expiresAt, inFlight, evaluating, children, outcome,
                 progressVars, sending, bus>>

SendChild(h, run, o, qty) ==
  LET child == InFlight(children[o] + 1, qty, run.started)
  IN /\ Send(Child(o, child, h))
     /\ children' = [children EXCEPT ![o] = @ + 1]
     /\ sent' = sent \cup {[order |-> o, slice |-> child.slice, sentAt |-> child.sentAt]}
     /\ loop' = [loop EXCEPT ![h] = [run EXCEPT !.phase = "sending", !.child = child,
                                                !.progress = None]]
     /\ UNCHANGED evaluating

(* The evaluation goes on with the answer: no budget, a child in flight or *)
(* nothing left end it, otherwise a slice is sent.                         *)
Evaluate(h) ==
  /\ h \in Ticks
  /\ loop[h].phase = "answered"
  /\ LET run == loop[h]
         o == Order(run)
     IN IF run.progress = None
        THEN /\ NextOrder(h, run, evaluating \ {o})
             /\ UNCHANGED <<inFlight, pending, children, sent, givenUp, sending>>
        ELSE LET settled == SettleInFlight(run.child, run.progress, run.started)
                 remaining == RemainingQty(Qty[o], run.progress, settled)
             IN /\ SetInFlight(o, settled)
                /\ givenUp' = givenUp \cup GivenUpBy(o, run.child, run.progress, run.started)
                /\ IF settled # None \/ remaining = 0
                   THEN /\ NextOrder(h, run, evaluating \ {o})
                        /\ UNCHANGED <<children, sent, sending>>
                   ELSE \E cap \in SliceCaps : SendChild(h, run, o, Smaller(cap, remaining))
  /\ UNCHANGED <<routed, expiresAt, outcome, clock, journal, bus>>

(* The send was acknowledged, or failed: the child counts as in flight.    *)
AfterSend(h) ==
  /\ h \in Ticks
  /\ loop[h].phase = "sending"
  /\ Settled(h)
  /\ SetInFlight(Order(loop[h]), loop[h].child)
  /\ NextOrder(h, loop[h], evaluating \ {Order(loop[h])})
  /\ UNCHANGED <<routed, expiresAt, children, outcome, progressVars, sending, bus>>

-----------------------------------------------------------------------------
(* startJournalProgressSweep: one order after the other, then the timer is *)
(* set again.                                                              *)

NextSwept(run) ==
  LET left == {i \in DOMAIN routed : i > run.at /\ routed[i] \in run.triggered}
  IN loop' = [loop EXCEPT ![Sweep] =
       IF left = {} THEN Idle
       ELSE [run EXCEPT !.phase = "reading", !.at = Min(left), !.started = clock,
                        !.progress = None]]

StartSweep ==
  /\ loop[Sweep].phase = "idle"
  /\ pending # {}
  /\ NextSwept([Idle EXCEPT !.triggered = pending])
  /\ UNCHANGED <<routed, pending, expiresAt, inFlight, evaluating, children, outcome,
                 progressVars, sending, bus>>

SweepOrder ==
  /\ loop[Sweep].phase = "answered"
  /\ LET run == loop[Sweep]
         o == Order(run)
         found == ClassifyOrder(Qty[o], expiresAt[o], run.progress, run.started)
     IN IF found = "working"
        THEN NextSwept(run) /\ UNCHANGED <<pending, outcome, sending>>
        ELSE /\ pending' = pending \ {o}
             /\ outcome' = [outcome EXCEPT ![o] = found]
             /\ Send(Outcome(IF found = "complete" THEN "algo.heartbeat" ELSE "orders.expired",
                             o, Sweep))
             /\ loop' = [loop EXCEPT ![Sweep].phase = "sending", ![Sweep].progress = None]
  /\ UNCHANGED <<routed, expiresAt, inFlight, evaluating, children, progressVars, bus>>

AfterOutcome ==
  /\ loop[Sweep].phase = "sending"
  /\ Settled(Sweep)
  /\ NextSwept(loop[Sweep])
  /\ UNCHANGED <<routed, pending, expiresAt, inFlight, evaluating, children, outcome,
                 progressVars, sending, bus>>
=============================================================================
