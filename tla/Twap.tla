--------------------------------- MODULE Twap -------------------------------
(***************************************************************************)
(* TWAP (algo/twap-strategy.ts): every routed order has an executeTWAP of  *)
(* its own, which sends a slice, waits, and asks the journal what was      *)
(* filled.  Nothing is shared between two orders but the journal.          *)
(*                                                                         *)
(* One action is one uninterrupted stretch of JavaScript.  Left out: the   *)
(* heartbeats, which only take time.                                       *)
(***************************************************************************)
EXTENDS FillProgress

CONSTANTS TwapOrders, TwapQty,
          NumSlices,   \* durationMs / INTERVAL_MS
          Interval     \* INTERVAL_MS

ASSUME TwapAssumption == /\ TwapQty \in [TwapOrders -> Nat \ {0}]
                         /\ NumSlices \in Nat \ {0}
                         /\ Interval \in Nat

VARIABLE twap   \* per order, the executeTWAP invocation

(* phase, the slices done, inFlight, when its timer is due, the `now' and  *)
(* the journal's answer of the slice it is at, how it ended.               *)
NotStarted == [phase |-> "idle", slices |-> 0, child |-> None, due |-> 0,
               started |-> 0, progress |-> None, outcome |-> "working"]

TwapInit == twap = [o \in TwapOrders |-> NotStarted]

Goes(o, next) == twap' = [twap EXCEPT ![o] = next]

(* ceil(remaining / slicesLeft), at most what remains                      *)
TwapSliceQty(remaining, slicesLeft) ==
  Smaller(remaining, (remaining + slicesLeft - 1) \div slicesLeft)

(* The next slice, or, after the last one, the final wait for the child    *)
(* that is still in flight.                                                *)
Wait(run, child, slices) ==
  [NotStarted EXCEPT
     !.phase = IF slices < NumSlices THEN "waiting" ELSE "settling",
     !.slices = slices,
     !.child = child,
     !.due = IF slices < NumSlices THEN clock + Interval
             ELSE IF child = None THEN clock ELSE clock + SettleTime]

TwapRouted(o) ==
  /\ twap[o].phase = "idle"
  /\ clock + NumSlices * Interval <= MaxClock
  /\ Goes(o, [NotStarted EXCEPT !.phase = "waiting", !.due = clock])
  /\ UNCHANGED <<progressVars, sending, bus>>

(* A timer fires; the journal is asked.                                    *)
TwapRead(o) ==
  /\ twap[o].phase \in {"waiting", "settling"}
  /\ clock >= twap[o].due \/ clock = MaxClock
  /\ Goes(o, [twap[o] EXCEPT !.phase = IF @ = "waiting" THEN "reading" ELSE "closing",
                             !.started = clock])
  /\ UNCHANGED <<progressVars, sending, bus>>

TwapAnswer(o) ==
  /\ twap[o].phase = "reading"
  /\ \E progress \in Answers(o) :
       Goes(o, [twap[o] EXCEPT !.phase = "answered", !.progress = progress])
  /\ UNCHANGED <<progressVars, sending, bus>>

TwapSlice(o) ==
  /\ twap[o].phase = "answered"
  /\ LET run == twap[o]
         done == run.slices + 1
         child == SettleInFlight(run.child, run.progress, run.started)
         remaining == RemainingQty(TwapQty[o], run.progress, child)
     IN IF run.progress = None
        THEN Goes(o, Wait(run, run.child, done)) /\ UNCHANGED <<sending, sent, givenUp>>
        ELSE /\ givenUp' = givenUp \cup GivenUpBy(o, run.child, run.progress, run.started)
             /\ IF FilledQty(run.progress) >= TwapQty[o]
                THEN Goes(o, Wait(run, child, NumSlices)) /\ UNCHANGED <<sending, sent>>
                ELSE IF child # None \/ remaining = 0
                THEN Goes(o, Wait(run, child, done)) /\ UNCHANGED <<sending, sent>>
                ELSE \E cap \in SliceCaps :
                       LET qty == Smaller(cap, TwapSliceQty(remaining, NumSlices - run.slices))
                           next == InFlight(done, qty, run.started)
                       IN /\ Send(Child(o, next, o))
                          /\ sent' = sent \cup {[order |-> o, slice |-> done,
                                                 sentAt |-> run.started]}
                          /\ Goes(o, [run EXCEPT !.phase = "sending", !.child = next])
  /\ UNCHANGED <<clock, journal, bus>>

(* The child was sent, or its send failed, which makes no difference.      *)
TwapSent(o) ==
  /\ twap[o].phase = "sending"
  /\ Settled(o)
  /\ Goes(o, Wait(twap[o], twap[o].child, twap[o].slices + 1))
  /\ UNCHANGED <<progressVars, sending, bus>>

TwapClose(o) ==
  /\ twap[o].phase = "closing"
  /\ \E progress \in Answers(o) :
       LET filled == progress # None /\ FilledQty(progress) >= TwapQty[o]
       IN /\ Goes(o, [NotStarted EXCEPT !.phase = "done",
                                        !.outcome = IF filled THEN "complete" ELSE "expired"])
          /\ Send(Outcome(IF filled THEN "algo.heartbeat" ELSE "orders.expired", o, o))
  /\ UNCHANGED <<progressVars, bus>>
=============================================================================
