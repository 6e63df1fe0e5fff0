----------------------------- MODULE FillProgress ---------------------------
(***************************************************************************)
(* What TWAP, VWAP, POV and LIMIT share (algo/fill-progress.ts): they do   *)
(* not count their own fills but ask the journal, which consumes           *)
(* orders.filled at its own pace, before every slice; and they take a      *)
(* child that no fill was journalled for as unfilled after a while.        *)
(*                                                                         *)
(* childId is the order and a number of its own.                           *)
(***************************************************************************)
EXTENDS Naturals, OrderBus, FiniteSetsExt

CONSTANTS SettleTime,   \* CHILD_SETTLE_MS, in units of the clock
          SliceCaps,    \* the limits a slice may meet: maxSlice, volume, depth
          MaxClock,     \* bound of the clock
          None          \* no child in flight, no order, no answer

ASSUME SettleAssumption == /\ SettleTime \in Nat \ {0}
                           /\ SliceCaps \subseteq Nat \ {0}
                           /\ MaxClock \in Nat

VARIABLES
  clock,     \* Date.now()
  journal,   \* the journal's orders.filled rows
  sent,      \* history: the children sent, with their sentAt
  givenUp    \* history: children taken as unfilled because the time was up

progressVars == <<clock, journal, sent, givenUp>>

Smaller(a, b) == IF a <= b THEN a ELSE b
Less(a, b) == IF a >= b THEN a - b ELSE 0

QtyOf(row) == row.qty

ProgressInit == clock = 0 /\ journal = {} /\ sent = {} /\ givenUp = {}

InFlight(slice, qty, sentAt) == [slice |-> slice, qty |-> qty, sentAt |-> sentAt]

Child(o, child, by) ==
  [topic |-> "orders.child", order |-> o, slice |-> child.slice, qty |-> child.qty, by |-> by]
Outcome(topic, o, by) ==
  [topic |-> topic, order |-> o, slice |-> 0, qty |-> 0, by |-> by]

-----------------------------------------------------------------------------
(* summariseFills: the rows of the order.  An answer that does not come in *)
(* two seconds, or is not a good one, is None.                             *)
Rows(o) == {row \in journal : row.order = o}

Answers(o) == {Rows(o), None}

FilledQty(progress) == MapThenSumSet(QtyOf, progress)

IsFilled(child, progress) == \E row \in progress : row.slice = child.slice

(* Mutant: a child is settled by time alone one unit early.                *)
SettleInFlightEarly(child, progress, now) ==
  IF child = None THEN None
  ELSE IF IsFilled(child, progress) THEN None
  ELSE IF now - child.sentAt >= SettleTime - 1 THEN None ELSE child

SettleInFlight(child, progress, now) ==
  IF child = None THEN None
  ELSE IF IsFilled(child, progress) THEN None
  ELSE IF now - child.sentAt >= SettleTime THEN None ELSE child

(* Mutants: what was filled already is not taken off; the result is not    *)
(* clamped.                                                                *)
RemainingQtyUnfilled(quantity, progress, child) ==
  Less(quantity, IF child = None THEN 0 ELSE child.qty)

RemainingQtyUnclamped(quantity, progress, child) ==
  quantity - FilledQty(progress) - IF child = None THEN 0 ELSE child.qty
RemainingQty(quantity, progress, child) ==
  Less(quantity, FilledQty(progress) + IF child = None THEN 0 ELSE child.qty)

(* Mutant: without an answer of the journal the order goes on.             *)
ClassifyNeedsJournal(quantity, expiry, progress, now) ==
  IF progress = None THEN "working"
  ELSE IF FilledQty(progress) >= quantity THEN "complete"
  ELSE IF now >= expiry THEN "expired" ELSE "working"

(* classifyOrder                                                           *)
ClassifyOrder(quantity, expiry, progress, now) ==
  IF progress # None /\ FilledQty(progress) >= quantity THEN "complete"
  ELSE IF now >= expiry THEN "expired" ELSE "working"

(* The children a budget read at `now' gave up on.                         *)
GivenUpBy(o, child, progress, now) ==
  IF child # None /\ ~IsFilled(child, progress) /\ SettleInFlight(child, progress, now) = None
  THEN {[order |-> o, slice |-> child.slice]} ELSE {}

-----------------------------------------------------------------------------
(* The journal's consumer of orders.filled writes a row.                   *)
JournalFill(m) ==
  /\ m \in bus
  /\ m.topic = "orders.filled"
  /\ bus' = bus \ {m}
  /\ journal' = journal \cup {[order |-> m.order, slice |-> m.slice, qty |-> m.qty]}
  /\ UNCHANGED <<clock, sent, givenUp, sending>>

Advance ==
  /\ clock < MaxClock
  /\ clock' = clock + 1
  /\ UNCHANGED <<journal, sent, givenUp, sending, bus>>

(* A pending send settles.  The algorithms swallow a rejection and go on   *)
(* as if the child had been sent.  Nobody reads the outcomes here.         *)
Settle ==
  /\ \E m \in sending : \/ m.topic = "orders.child" /\ Written(m)
                        \/ Lost(m)
  /\ UNCHANGED progressVars
=============================================================================
