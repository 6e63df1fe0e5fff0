----------------------------- MODULE SlicerProofs -----------------------------
(***************************************************************************)
(* Theorems about SlicerExecution, checked by TLAPS: the types; and, for   *)
(* VWAP, POV and TWAP, that they have one child of an order in flight at   *)
(* most and never execute more than the order's quantity, however many     *)
(* ticks, sweeps, journal delays and failed sends overlap.  LIMIT, which   *)
(* iterates over a copy of its map, may have two, and an assumption        *)
(* excludes it from the last ones.                                         *)
(***************************************************************************)
EXTENDS SlicerExecution, SequenceTheorems, Facts

(* None is no reference to a child.                                        *)
NoneIsNoChild == \A slice, qty, sentAt : InFlight(slice, qty, sentAt) # None

RoutedOrders == {routed[i] : i \in DOMAIN routed}

(* The fields of a suspended callback and of an executeTWAP.               *)
LoopFields == {"phase", "now", "triggered", "copy", "at", "started", "child", "progress"}
TwapFields == {"phase", "slices", "child", "due", "started", "progress", "outcome"}

StoreShapes ==
  /\ clock \in Nat
  /\ sent \subseteq [order : AllOrders, slice : Nat, sentAt : Nat]
  /\ routed \in Seq(Orders)
  /\ pending \subseteq RoutedOrders
  /\ DOMAIN inFlight = Orders
  /\ children \in [Orders -> Nat]
  /\ DOMAIN outcome = Orders

IsRun(run) == DOMAIN run = LoopFields /\ run.started \in Nat /\ run.started <= clock

LoopShapes ==
  /\ DOMAIN loop = Callbacks
  /\ \A h \in Callbacks : /\ IsRun(loop[h])
                          /\ loop[h].phase \in {"idle", "reading", "answered", "sending"}
                          /\ loop[h].phase # "idle" => loop[h].at \in DOMAIN routed

TwapShapes ==
  /\ DOMAIN twap = TwapOrders
  /\ \A o \in TwapOrders : /\ DOMAIN twap[o] = TwapFields
                           /\ twap[o].slices \in Nat
                           /\ twap[o].started \in Nat /\ twap[o].started <= clock

(* An order is routed once, and has no child before.                       *)
Routing ==
  /\ \A i, j \in DOMAIN routed : routed[i] = routed[j] => i = j
  /\ \A s \in sent : s.order \in Orders => s.order \in RoutedOrders

(* A tick works on an order it has claimed, and no other tick does.        *)
Busy(h) == loop[h].phase # "idle"

Claims ==
  \A h \in Ticks :
    Busy(h) => /\ Order(loop[h]) \in evaluating
               /\ \A k \in Ticks : Busy(k) /\ Order(loop[k]) = Order(loop[h]) => k = h

(* What the journal answered is still in the journal.                      *)
Answered ==
  /\ \A h \in Ticks :
       loop[h].phase = "answered" /\ loop[h].progress # None
         => loop[h].progress \subseteq Rows(Order(loop[h]))
  /\ \A o \in TwapOrders :
       twap[o].phase = "answered" /\ twap[o].progress # None
         => twap[o].progress \subseteq Rows(o)

(* Child s is in flight, in the sense of OneChildInFlight.                 *)
Active(s) == clock < s.sentAt + SettleTime /\ ~IsFilled(s, Rows(s.order))

(* The reference c is to the one child of o in flight, if there is any.    *)
Covers(o, c) ==
  \A s \in sent : s.order = o /\ Active(s)
                    => c # None /\ s.slice = c.slice /\ s.sentAt = c.sentAt

TicksCover == \A h \in Ticks : Busy(h) => Covers(Order(loop[h]), loop[h].child)

(* Until it has the answer, a tick works with what the map says.           *)
TicksCurrent ==
  \A h \in Ticks :
    loop[h].phase \in {"reading", "answered"} /\ Order(loop[h]) \in pending
      => loop[h].child = inFlight[Order(loop[h])]

MapCovers == \A o \in pending \ evaluating : Covers(o, inFlight[o])

TwapCovers ==
  \A o \in TwapOrders : /\ twap[o].phase = "idle" => twap[o].child = None
                        /\ twap[o].phase # "done" => Covers(o, twap[o].child)

OneActive ==
  \A s, t \in sent : s.order = t.order /\ Active(s) /\ Active(t) => s = t

EndedStays ==
  \A o \in Orders : outcome[o] # "working" => o \in RoutedOrders \ pending

SlicerInv == LoopShapes /\ Claims /\ TicksCover /\ TicksCurrent /\ MapCovers
IInv == StoreShapes /\ TwapShapes /\ Routing /\ Answered /\ SlicerInv /\ TwapCovers /\ OneActive /\ EndedStays

-----------------------------------------------------------------------------
LEMMA InitIInv == Init => IInv
<1> SUFFICES ASSUME Init PROVE IInv
  OBVIOUS
<1> USE DEF Init, ProgressInit, SlicerInit, TwapInit
<1>1. DOMAIN routed = {} /\ routed \in Seq(Orders)
  BY EmptySeq
<1>2. StoreShapes /\ TwapShapes
  BY <1>1 DEF StoreShapes, TwapShapes, NotStarted, TwapFields, RoutedOrders
<1>3. SlicerInv /\ Answered
  <2>1. LoopShapes
    BY DEF LoopShapes, IsRun, Idle, LoopFields
  <2>2. \A h \in Ticks : loop[h].phase = "idle"
    BY DEF Callbacks, Idle
  <2> QED  BY <2>1, <2>2
           DEF SlicerInv, Claims, TicksCover, TicksCurrent, MapCovers, Answered, Busy, NotStarted
<1> QED  BY <1>1, <1>2, <1>3
         DEF IInv, Routing, TwapCovers, Covers, OneActive, EndedStays, NotStarted

(* Children settle and stay settled.                                       *)
LEMMA ActiveBefore ==
  ASSUME clock \in Nat, clock' \in Nat, clock <= clock', journal \subseteq journal',
         NEW s, s.sentAt \in Nat, Active(s)'
  PROVE  Active(s)
BY SettleAssumption DEF Active, IsFilled, Rows

LEMMA CoversKept ==
  ASSUME clock \in Nat, clock' \in Nat, clock <= clock', journal \subseteq journal',
         sent \subseteq [order : AllOrders, slice : Nat, sentAt : Nat],
         NEW o, NEW c, Covers(o, c),
         \A s \in sent' : s \in sent \/ s.order # o
  PROVE  Covers(o, c)'
BY ActiveBefore DEF Covers

(* When no new child is sent, there is still only one in flight.           *)
LEMMA OneActiveKept ==
  ASSUME clock \in Nat, clock' \in Nat, clock <= clock', journal \subseteq journal',
         sent \subseteq [order : AllOrders, slice : Nat, sentAt : Nat],
         sent' = sent, OneActive
  PROVE  OneActive'
BY ActiveBefore DEF OneActive

(* What settleInFlight leaves covers the order as well as what it was      *)
(* given: it lets a child go only when it is not in flight any more.       *)
LEMMA SettleCovers ==
  ASSUME clock \in Nat,
         sent \subseteq [order : AllOrders, slice : Nat, sentAt : Nat],
         NEW o, NEW c, Covers(o, c),
         NEW progress, progress \subseteq Rows(o), NEW now \in Nat, now <= clock
  PROVE  Covers(o, SettleInFlight(c, progress, now))
<1> DEFINE settled == SettleInFlight(c, progress, now)
<1>1. CASE settled = c
  BY <1>1
<1>2. CASE settled # c
  <2>1. /\ c # None
        /\ IsFilled(c, progress) \/ now - c.sentAt >= SettleTime
    BY <1>2 DEF SettleInFlight
  <2>2. ASSUME NEW s \in sent, s.order = o, Active(s)
        PROVE  FALSE
    <3>1. s.slice = c.slice /\ s.sentAt = c.sentAt /\ s.sentAt \in Nat
      BY <2>2 DEF Covers
    <3>2. ~IsFilled(c, progress)
      BY <2>2, <3>1 DEF Active, IsFilled, Rows
    <3>3. now - s.sentAt >= SettleTime
      BY <2>1, <3>1, <3>2
    <3> QED  BY <2>2, <3>1, <3>3, SettleAssumption DEF Active
  <2> QED  BY <2>2 DEF Covers
<1> QED  BY <1>1, <1>2

-----------------------------------------------------------------------------
LEMMA OrderOfTick ==
  ASSUME IInv, NEW h \in Callbacks, Busy(h)
  PROVE  /\ loop[h].at \in DOMAIN routed
         /\ Order(loop[h]) \in Orders /\ Order(loop[h]) \in RoutedOrders
<1>1. loop[h].at \in DOMAIN routed
  BY DEF IInv, SlicerInv, LoopShapes, Busy
<1> QED  BY <1>1, LenProperties, ElementOfSeq DEF IInv, StoreShapes, Order, RoutedOrders

(* A reference that covers now covers after a step that sends nothing.     *)
LEMMA CoversSame ==
  ASSUME UNCHANGED <<clock, journal, sent>>, NEW o, NEW c
  PROVE  Covers(o, c)' <=> Covers(o, c)
<1>1. \A s : Active(s)' <=> Active(s)
  BY DEF Active, IsFilled, Rows
<1> QED  BY <1>1 DEF Covers

(* The loop of tick h goes on to its next order, having given back what it *)
(* does not claim any more: it is idle, or claims an order of the map and  *)
(* holds what the map says of it.                                          *)
LEMMA NextOrderStep ==
  ASSUME IInv, ~CopiesMap,
         NEW h \in Ticks, NEW run, NEW claimed \in SUBSET evaluating,
         NextOrder(h, run, claimed), DOMAIN run = LoopFields,
         \A i \in DOMAIN routed : i > run.at => inFlight'[routed[i]] = inFlight[routed[i]]
  PROVE  /\ DOMAIN loop = Callbacks /\ h \in Callbacks /\ Ticks \subseteq Callbacks
         /\ clock \in Nat
         /\ \A k \in Callbacks : k # h => loop'[k] = loop[k]
         /\ DOMAIN loop' = Callbacks
         /\ \E next :
              /\ loop'[h] = next
              /\ \/ next = Idle /\ evaluating' = claimed
                 \/ /\ DOMAIN next = LoopFields /\ next.phase = "reading" /\ next.started = clock
                    /\ next.at \in DOMAIN routed
                    /\ routed[next.at] \in pending \ claimed
                    /\ evaluating' = claimed \cup {routed[next.at]}
                    /\ next.child = inFlight'[routed[next.at]]
                    /\ next.child = inFlight[routed[next.at]]
<1>1. PICK next : /\ loop' = [loop EXCEPT ![h] = next]
                  /\ \/ next = Idle /\ evaluating' = claimed
                     \/ \E i \in DOMAIN routed :
                          /\ routed[i] \in pending \ claimed
                          /\ i > run.at
                          /\ evaluating' = claimed \cup {routed[i]}
                          /\ next = [run EXCEPT !.phase = "reading", !.at = i, !.started = clock,
                                                !.child = inFlight[routed[i]], !.progress = None]
  <2>1. CASE evaluating' = claimed /\ loop' = [loop EXCEPT ![h] = Idle]
    BY <2>1
  <2>2. CASE \E i \in Ahead(run) :
               /\ ~Passes(run, claimed, routed[i])
               /\ evaluating' = claimed \cup {routed[i]}
               /\ loop' = [loop EXCEPT ![h] =
                             [run EXCEPT !.phase = "reading", !.at = i, !.started = clock,
                                         !.child = Held(run, routed[i]), !.progress = None]]
    <3>1. PICK i \in Ahead(run) :
               /\ ~Passes(run, claimed, routed[i])
               /\ evaluating' = claimed \cup {routed[i]}
               /\ loop' = [loop EXCEPT ![h] =
                             [run EXCEPT !.phase = "reading", !.at = i, !.started = clock,
                                         !.child = Held(run, routed[i]), !.progress = None]]
      BY <2>2
    <3>2. i \in DOMAIN routed /\ i > run.at /\ routed[i] \in pending
      BY DEF Ahead
    <3>3. routed[i] \notin claimed
      BY <3>1 DEF Passes
    <3>4. Held(run, routed[i]) = inFlight[routed[i]]
      BY DEF Held
    <3> QED  BY <3>1, <3>2, <3>3, <3>4
  <2> QED  BY <2>1, <2>2 DEF NextOrder
<1>2. /\ DOMAIN loop = Callbacks /\ h \in Callbacks /\ Ticks \subseteq Callbacks
      /\ clock \in Nat
      /\ \A k \in Callbacks : k # h => loop'[k] = loop[k]
      /\ loop'[h] = next /\ DOMAIN loop' = Callbacks
  <2>1. /\ DOMAIN loop = Callbacks /\ h \in Callbacks /\ Ticks \subseteq Callbacks
        /\ clock \in Nat
    BY DEF IInv, SlicerInv, LoopShapes, StoreShapes, Callbacks
  <2> QED  BY <1>1, <2>1
<1>3. \/ next = Idle /\ evaluating' = claimed
      \/ /\ DOMAIN next = LoopFields /\ next.phase = "reading" /\ next.started = clock
         /\ next.at \in DOMAIN routed
         /\ routed[next.at] \in pending \ claimed
         /\ evaluating' = claimed \cup {routed[next.at]}
         /\ next.child = inFlight'[routed[next.at]]
         /\ next.child = inFlight[routed[next.at]]
  <2>1. CASE next = Idle /\ evaluating' = claimed
    BY <2>1
  <2>2. CASE ~(next = Idle /\ evaluating' = claimed)
    <3>1. PICK i \in DOMAIN routed :
            /\ routed[i] \in pending \ claimed
            /\ i > run.at
            /\ evaluating' = claimed \cup {routed[i]}
            /\ next = [run EXCEPT !.phase = "reading", !.at = i, !.started = clock,
                                  !.child = inFlight[routed[i]], !.progress = None]
      BY <1>1, <2>2
    <3> DEFINE r1 == [run EXCEPT !.phase = "reading"]
               r2 == [r1 EXCEPT !.at = i]
               r3 == [r2 EXCEPT !.started = clock]
               r4 == [r3 EXCEPT !.child = inFlight[routed[i]]]
               r5 == [r4 EXCEPT !.progress = None]
    <3>2. next = r5
      BY <3>1
    <3>3. DOMAIN r2 = LoopFields /\ r2.phase = "reading" /\ r2.at = i
      BY DEF LoopFields
    <3> HIDE DEF r2
    <3>4. /\ DOMAIN r4 = LoopFields /\ r4.phase = "reading" /\ r4.at = i
          /\ r4.started = clock /\ r4.child = inFlight[routed[i]]
      BY <3>3 DEF LoopFields
    <3> HIDE DEF r4
    <3>6. /\ DOMAIN next = LoopFields /\ next.phase = "reading" /\ next.at = i
          /\ next.started = clock /\ next.child = inFlight[routed[i]]
      BY <3>2, <3>4 DEF LoopFields
    <3>5. inFlight'[routed[i]] = inFlight[routed[i]]
      BY <3>1
    <3> QED  BY <3>1, <3>5, <3>6
  <2> QED  BY <2>1, <2>2
<1> QED  BY <1>2, <1>3

LEMMA NextOrderInv ==
  ASSUME IInv, ~CopiesMap,
         NEW h \in Ticks, NEW run, NEW claimed \in SUBSET evaluating,
         NextOrder(h, run, claimed),
         DOMAIN run = LoopFields, run.at \in Nat,
         UNCHANGED <<clock, journal, sent, routed, pending>>,
         DOMAIN inFlight' = Orders,
         \A k \in Ticks \ {h} : Busy(k) => Order(loop[k]) \in claimed,
         \A q \in claimed \cap Orders : inFlight'[q] = inFlight[q],
         \A i \in DOMAIN routed : i > run.at => inFlight'[routed[i]] = inFlight[routed[i]],
         \A p \in pending \ claimed : Covers(p, inFlight'[p])
  PROVE  /\ SlicerInv'
         /\ \A k \in Ticks : loop'[k].phase = "answered" => k # h /\ loop'[k] = loop[k]
<1>1. PICK next :
        /\ loop'[h] = next
        /\ \/ next = Idle /\ evaluating' = claimed
           \/ /\ DOMAIN next = LoopFields /\ next.phase = "reading" /\ next.started = clock
              /\ next.at \in DOMAIN routed
              /\ routed[next.at] \in pending \ claimed
              /\ evaluating' = claimed \cup {routed[next.at]}
              /\ next.child = inFlight'[routed[next.at]]
              /\ next.child = inFlight[routed[next.at]]
  BY NextOrderStep
<1>2. /\ DOMAIN loop = Callbacks /\ h \in Callbacks /\ Ticks \subseteq Callbacks
      /\ clock \in Nat
      /\ \A k \in Callbacks : k # h => loop'[k] = loop[k]
      /\ loop'[h] = next /\ DOMAIN loop' = Callbacks
  BY <1>1, NextOrderStep
<1>4. next.phase # "idle" => /\ next.at \in DOMAIN routed
                             /\ routed[next.at] \in pending \ claimed
                             /\ evaluating' = claimed \cup {routed[next.at]}
                             /\ next.child = inFlight'[routed[next.at]]
                             /\ next.child = inFlight[routed[next.at]]
  BY <1>1 DEF Idle
<1>5. \A k \in Ticks \ {h} : Busy(k)' = Busy(k) /\ Order(loop[k])' = Order(loop[k])
  BY <1>2 DEF Busy, Order
<1>6. Busy(h)' => Order(loop[h])' = routed[next.at] /\ next.phase # "idle"
  BY <1>2 DEF Busy, Order
<1>7. claimed \subseteq evaluating'
  BY <1>1
<1>next. /\ DOMAIN next = LoopFields /\ next.phase \in {"idle", "reading"}
       /\ next.started \in Nat /\ next.started <= clock
  BY <1>1, <1>2 DEF Idle, LoopFields
<1>8. LoopShapes'
  BY <1>2, <1>next, <1>4 DEF IInv, SlicerInv, LoopShapes, IsRun
<1>9. Claims'
  <2>1. ASSUME NEW k \in Ticks, Busy(k)' PROVE Order(loop[k])' \in evaluating'
    <3>1. CASE k = h
      BY <1>4, <1>6, <2>1, <3>1
    <3>2. CASE k # h
      BY <1>5, <1>7, <2>1, <3>2
    <3> QED  BY <3>1, <3>2
  <2>2. ASSUME NEW k \in Ticks, NEW j \in Ticks, Busy(k)', Busy(j)',
               Order(loop[k])' = Order(loop[j])'
        PROVE  k = j
    <3>1. CASE k # h /\ j # h
      BY <1>5, <2>2, <3>1 DEF IInv, SlicerInv, Claims
    <3>2. CASE k = h \/ j = h
      BY <1>4, <1>5, <1>6, <2>2, <3>2
    <3> QED  BY <3>1, <3>2
  <2> QED  BY <2>1, <2>2 DEF Claims
<1>10. TicksCover'
  <2> SUFFICES ASSUME NEW k \in Ticks, Busy(k)'
               PROVE  Covers(Order(loop[k]), loop[k].child)'
    BY DEF TicksCover
  <2>1. PICK o, c : o = Order(loop[k])' /\ c = loop'[k].child
    OBVIOUS
  <2>2. Covers(o, c)
    <3>1. CASE k = h
      BY <1>2, <1>4, <1>6, <2>1, <3>1
    <3>2. CASE k # h
      BY <1>2, <1>5, <2>1, <3>2 DEF IInv, SlicerInv, TicksCover
    <3> QED  BY <3>1, <3>2
  <2>3. Covers(o, c)'
    BY <2>2, CoversSame
  <2> QED  BY <2>1, <2>3 DEF Covers
<1>11. TicksCurrent'
  <2> SUFFICES ASSUME NEW k \in Ticks, loop'[k].phase \in {"reading", "answered"},
                      Order(loop[k])' \in pending
               PROVE  loop'[k].child = inFlight'[Order(loop[k])']
    BY DEF TicksCurrent
  <2>1. CASE k = h
    BY <1>2, <1>4, <2>1 DEF Order
  <2>2. CASE k # h
    <3>1. loop'[k] = loop[k] /\ Busy(k) /\ Order(loop[k])' = Order(loop[k])
      BY <1>2, <1>5, <2>2 DEF Busy
    <3>2. Order(loop[k]) \in claimed \cap Orders
      BY <1>2, <2>2, <3>1, OrderOfTick
    <3> QED  BY <3>1, <3>2 DEF IInv, SlicerInv, TicksCurrent
  <2> QED  BY <2>1, <2>2
<1>12. MapCovers'
  <2> SUFFICES ASSUME NEW p \in pending \ evaluating' PROVE Covers(p, inFlight[p])'
    BY DEF MapCovers
  <2>1. PICK c : c = inFlight'[p]
    OBVIOUS
  <2>2. Covers(p, c)'
    BY <1>7, <2>1, CoversSame
  <2> QED  BY <2>1, <2>2 DEF Covers
<1>13. \A k \in Ticks : loop'[k].phase = "answered" => k # h /\ loop'[k] = loop[k]
  BY <1>2, <1>next
<1> QED  BY <1>8, <1>9, <1>10, <1>11, <1>12, <1>13 DEF SlicerInv

-----------------------------------------------------------------------------
(* What a step of the slicer that sends no child does not touch.           *)
LEMMA NothingSent ==
  ASSUME IInv, UNCHANGED <<clock, journal, sent, twap>>
  PROVE  TwapShapes' /\ TwapCovers' /\ OneActive'
<1>1. TwapShapes'
  BY DEF IInv, TwapShapes
<1>2. OneActive'
  <2>1. \A s : Active(s)' <=> Active(s)
    BY DEF Active, IsFilled, Rows
  <2> QED  BY <2>1 DEF IInv, OneActive
<1>3. TwapCovers'
  <2> SUFFICES ASSUME NEW o \in TwapOrders
               PROVE  /\ twap'[o].phase = "idle" => twap'[o].child = None
                      /\ twap'[o].phase # "done" => Covers(o, twap[o].child)'
    BY DEF TwapCovers
  <2>1. PICK c : c = twap[o].child
    OBVIOUS
  <2>2. twap[o].phase # "done" => Covers(o, c)'
    BY <2>1, CoversSame DEF IInv, TwapCovers
  <2> QED  BY <2>1, <2>2 DEF IInv, TwapCovers, Covers
<1> QED  BY <1>1, <1>2, <1>3

LEMMA AnsweredKept ==
  ASSUME IInv, UNCHANGED <<journal, twap>>,
         \A k \in Ticks : loop'[k].phase = "answered" =>
                           \/ loop'[k] = loop[k] /\ Order(loop[k])' = Order(loop[k])
                           \/ loop'[k].progress \in Answers(Order(loop[k])')
  PROVE  Answered'
<1>1. ASSUME NEW k \in Ticks, loop'[k].phase = "answered", loop'[k].progress # None
      PROVE  (loop[k].progress \subseteq Rows(Order(loop[k])))'
  <2>1. PICK o : o = Order(loop[k])'
    OBVIOUS
  <2>2. CASE loop'[k] = loop[k] /\ Order(loop[k])' = Order(loop[k])
    BY <1>1, <2>1, <2>2 DEF IInv, Answered, Rows
  <2>3. CASE loop'[k].progress \in Answers(o)
    BY <1>1, <2>1, <2>3 DEF Answers, Rows
  <2> QED  BY <1>1, <2>1, <2>2, <2>3
<1>2. ASSUME NEW o \in TwapOrders, twap'[o].phase = "answered", twap'[o].progress # None
      PROVE  (twap[o].progress \subseteq Rows(o))'
  BY <1>2 DEF IInv, Answered, Rows
<1> QED  BY <1>1, <1>2 DEF Answered

(* Nothing was ever sent for an order before it is routed.                 *)
LEMMA RoutedOrderInv ==
  ASSUME IInv, NEW o \in Orders, RoutedOrder(o), UNCHANGED twap
  PROVE  IInv'
<1> USE DEF RoutedOrder, progressVars
<1>1. /\ o \notin RoutedOrders /\ Len(routed) \in Nat /\ DOMAIN routed = 1 .. Len(routed)
      /\ routed' \in Seq(Orders) /\ DOMAIN routed' = 1 .. Len(routed) + 1
      /\ \A i \in DOMAIN routed : routed'[i] = routed[i] /\ routed[i] \in Orders
      /\ routed'[Len(routed) + 1] = o
  BY AppendProperties, LenProperties, ElementOfSeq DEF RoutedOrders, IInv, StoreShapes
<1>2. RoutedOrders' = RoutedOrders \cup {o}
  BY <1>1 DEF RoutedOrders
<1>3. StoreShapes'
  BY <1>1, <1>2 DEF IInv, StoreShapes
<1>4. Routing'
  BY <1>1, <1>2 DEF IInv, Routing, RoutedOrders
<1>5. /\ Ticks \subseteq Callbacks
      /\ \A k \in Callbacks : Busy(k)' = Busy(k)
      /\ \A k \in Callbacks : Busy(k) => /\ Order(loop[k])' = Order(loop[k])
                                       /\ Order(loop[k]) \in RoutedOrders
  BY <1>1, OrderOfTick DEF Callbacks, Busy, Order
<1>6. Answered'
  BY <1>5, AnsweredKept DEF Busy
<1>7. LoopShapes'
  BY <1>1 DEF IInv, SlicerInv, LoopShapes, IsRun
<1>8. Claims'
  BY <1>5 DEF IInv, SlicerInv, Claims
<1>9. TicksCover'
  <2> SUFFICES ASSUME NEW k \in Ticks, Busy(k) PROVE Covers(Order(loop[k]), loop[k].child)'
    BY <1>5 DEF TicksCover
  <2>1. PICK p, c : p = Order(loop[k]) /\ c = loop[k].child
    OBVIOUS
  <2>2. Covers(p, c)'
    BY <2>1, CoversSame DEF IInv, SlicerInv, TicksCover
  <2> QED  BY <1>5, <2>1, <2>2 DEF Covers
<1>10. TicksCurrent'
  BY <1>1, <1>5 DEF IInv, SlicerInv, TicksCurrent, Busy
<1>11. MapCovers'
  <2> SUFFICES ASSUME NEW p \in (pending \cup {o}) \ evaluating PROVE Covers(p, inFlight[p])'
    BY DEF MapCovers
  <2>1. PICK c : c = inFlight[p]
    OBVIOUS
  <2>2. Covers(p, c)
    <3>1. CASE p = o
      BY <1>1, <3>1 DEF Covers, IInv, Routing
    <3>2. CASE p # o
      BY <2>1, <3>2 DEF IInv, SlicerInv, MapCovers
    <3> QED  BY <3>1, <3>2
  <2>3. Covers(p, c)'
    BY <2>2, CoversSame
  <2> QED  BY <2>1, <2>3 DEF Covers
<1>12. EndedStays'
  BY <1>1, <1>2 DEF IInv, EndedStays
<1> QED  BY <1>3, <1>4, <1>6, <1>7, <1>8, <1>9, <1>10, <1>11, <1>12, NothingSent
         DEF IInv, SlicerInv

LEMMA OnTickInv ==
  ASSUME IInv, ~CopiesMap, NEW h \in Ticks, OnTick(h), UNCHANGED twap
  PROVE  IInv'
<1> USE DEF OnTick, progressVars
<1>1. PICK run : /\ NextOrder(h, run, evaluating)
                 /\ DOMAIN run = LoopFields /\ run.at \in Nat
  <2>1. PICK triggered \in SUBSET Orders :
          NextOrder(h, [Idle EXCEPT !.now = clock, !.triggered = triggered,
                                    !.copy = IF CopiesMap THEN [o \in pending |-> inFlight[o]]
                                             ELSE <<>>], evaluating)
    OBVIOUS
  <2> DEFINE run == [Idle EXCEPT !.now = clock, !.triggered = triggered,
                                 !.copy = IF CopiesMap THEN [o \in pending |-> inFlight[o]]
                                          ELSE <<>>]
  <2>2. DOMAIN run = LoopFields /\ run.at = 0
    BY DEF Idle, LoopFields
  <2>3. NextOrder(h, run, evaluating)
    BY <2>1
  <2> HIDE DEF run
  <2> QED  BY <2>2, <2>3
<1>2. /\ DOMAIN inFlight = Orders
      /\ \A k \in Ticks \ {h} : Busy(k) => Order(loop[k]) \in evaluating
      /\ \A p \in pending \ evaluating : Covers(p, inFlight[p])
  BY DEF IInv, StoreShapes, SlicerInv, Claims, MapCovers
<1>3. /\ SlicerInv'
      /\ \A k \in Ticks : loop'[k].phase = "answered" => k # h /\ loop'[k] = loop[k]
  BY <1>1, <1>2, NextOrderInv
<1>4. Answered'
  BY <1>3, AnsweredKept DEF Order
<1>5. StoreShapes' /\ Routing' /\ EndedStays'
  BY DEF IInv, StoreShapes, Routing, EndedStays, RoutedOrders
<1> QED  BY <1>3, <1>4, <1>5, NothingSent DEF IInv

-----------------------------------------------------------------------------
(* A tick that gives its order back goes on with what the map says of the  *)
(* others; what the map now says of the order covers it.                   *)
LEMMA GiveBackInv ==
  ASSUME IInv, ~CopiesMap, NEW h \in Ticks, Busy(h),
         NEW o, o = Order(loop[h]),
         NextOrder(h, loop[h], evaluating \ {o}),
         UNCHANGED <<clock, journal, sent, routed, pending, children, outcome, twap>>,
         DOMAIN inFlight' = Orders,
         \A q \in Orders \ {o} : inFlight'[q] = inFlight[q],
         o \in pending => Covers(o, inFlight'[o])
  PROVE  IInv'
<1>1. /\ loop[h].at \in DOMAIN routed /\ o \in Orders /\ o = routed[loop[h].at]
      /\ h \in Callbacks
  BY OrderOfTick DEF Order, Callbacks
<1>2. DOMAIN routed \subseteq Nat /\ \A i \in DOMAIN routed : routed[i] \in Orders
  BY LenProperties, ElementOfSeq DEF IInv, StoreShapes
<1>3. \A i \in DOMAIN routed : i > loop[h].at => inFlight'[routed[i]] = inFlight[routed[i]]
  BY <1>1, <1>2 DEF IInv, Routing
<1>4. \A k \in Ticks \ {h} : Busy(k) => Order(loop[k]) \in evaluating \ {o}
  BY DEF IInv, SlicerInv, Claims
<1>5. \A p \in pending \ (evaluating \ {o}) : Covers(p, inFlight'[p])
  <2>1. ASSUME NEW p \in pending \ evaluating, p # o PROVE Covers(p, inFlight'[p])
    <3>1. p \in Orders
      BY <1>2 DEF IInv, StoreShapes, RoutedOrders
    <3>2. inFlight'[p] = inFlight[p]
      BY <2>1, <3>1
    <3>3. Covers(p, inFlight[p])
      BY <2>1 DEF IInv, SlicerInv, MapCovers
    <3> QED  BY <3>2, <3>3
  <2> QED  BY <2>1
<1>6. DOMAIN loop[h] = LoopFields /\ loop[h].at \in Nat
  BY <1>1, <1>2 DEF IInv, SlicerInv, LoopShapes, IsRun
<1>7. \A q \in (evaluating \ {o}) \cap Orders : inFlight'[q] = inFlight[q]
  OBVIOUS
<1>8. /\ SlicerInv'
      /\ \A k \in Ticks : loop'[k].phase = "answered" => k # h /\ loop'[k] = loop[k]
  <2> DEFINE claimed == evaluating \ {o}
             run == loop[h]
  <2>1. claimed \in SUBSET evaluating /\ NextOrder(h, run, claimed)
    OBVIOUS
  <2>2. /\ DOMAIN run = LoopFields /\ run.at \in Nat
        /\ \A k \in Ticks \ {h} : Busy(k) => Order(loop[k]) \in claimed
        /\ \A q \in claimed \cap Orders : inFlight'[q] = inFlight[q]
        /\ \A i \in DOMAIN routed : i > run.at => inFlight'[routed[i]] = inFlight[routed[i]]
        /\ \A p \in pending \ claimed : Covers(p, inFlight'[p])
    BY <1>3, <1>4, <1>5, <1>6, <1>7
  <2> HIDE DEF claimed, run
  <2> QED  BY <2>1, <2>2, NextOrderInv
<1>9. Answered'
  BY <1>8, AnsweredKept DEF Order
<1>10. StoreShapes' /\ Routing' /\ EndedStays'
  BY DEF IInv, StoreShapes, Routing, EndedStays, RoutedOrders
<1> QED  BY <1>8, <1>9, <1>10, NothingSent DEF IInv

LEMMA SetInFlightFacts ==
  ASSUME DOMAIN inFlight = Orders, NEW o \in Orders, NEW c, SetInFlight(o, c)
  PROVE  /\ DOMAIN inFlight' = Orders /\ UNCHANGED pending
         /\ \A q \in Orders \ {o} : inFlight'[q] = inFlight[q]
         /\ o \in pending => inFlight'[o] = c
BY DEF SetInFlight

LEMMA AfterSendInv ==
  ASSUME IInv, ~CopiesMap, NEW h \in Ticks, AfterSend(h), UNCHANGED twap
  PROVE  IInv'
<1>1. PICK o, c : o = Order(loop[h]) /\ c = loop[h].child
  OBVIOUS
<1>2. Busy(h) /\ h \in Callbacks /\ o \in Orders /\ DOMAIN inFlight = Orders
  BY <1>1, OrderOfTick DEF AfterSend, Busy, Callbacks, IInv, StoreShapes
<1>3. /\ SetInFlight(o, c) /\ NextOrder(h, loop[h], evaluating \ {o})
      /\ UNCHANGED <<routed, children, outcome, clock, journal, sent>>
  BY <1>1 DEF AfterSend, progressVars
<1>4. Covers(o, c)
  BY <1>1, <1>2 DEF IInv, SlicerInv, TicksCover
<1>5. /\ DOMAIN inFlight' = Orders /\ UNCHANGED pending
      /\ \A q \in Orders \ {o} : inFlight'[q] = inFlight[q]
      /\ o \in pending => inFlight'[o] = c
  BY <1>2, <1>3, SetInFlightFacts
<1> QED  BY <1>1, <1>2, <1>3, <1>4, <1>5, GiveBackInv

(* A child is sent when none is in flight; the tick that has sent it knows *)
(* it until the map does.                                                  *)
LEMMA SendChildInv ==
  ASSUME IInv, NoneIsNoChild, NEW h \in Ticks, loop[h].phase = "answered",
         NEW o, o = Order(loop[h]), Covers(o, None), SetInFlight(o, None),
         NEW qty, SendChild(h, loop[h], o, qty),
         UNCHANGED <<routed, outcome, clock, journal, twap>>
  PROVE  IInv'
<1>1. PICK child, run : child = InFlight(children[o] + 1, qty, loop[h].started) /\ run = loop[h]
  OBVIOUS
<1>2. /\ Busy(h) /\ h \in Callbacks /\ o \in Orders /\ o \in RoutedOrders
      /\ DOMAIN inFlight = Orders /\ clock \in Nat
      /\ sent \subseteq [order : AllOrders, slice : Nat, sentAt : Nat]
  BY OrderOfTick DEF Busy, Callbacks, IInv, StoreShapes
<1>3. /\ DOMAIN inFlight' = Orders /\ UNCHANGED pending
      /\ \A q \in Orders \ {o} : inFlight'[q] = inFlight[q]
      /\ o \in pending => inFlight'[o] = None
  BY <1>2, SetInFlightFacts
<1>4. /\ children' = [children EXCEPT ![o] = @ + 1] /\ UNCHANGED evaluating
      /\ sent' = sent \cup {[order |-> o, slice |-> child.slice, sentAt |-> child.sentAt]}
      /\ loop' = [loop EXCEPT ![h] = [run EXCEPT !.phase = "sending", !.child = child,
                                                !.progress = None]]
  BY <1>1 DEF SendChild
<1>5. /\ child.slice \in Nat /\ child.sentAt \in Nat /\ child # None
      /\ run.started \in Nat /\ run.started <= clock
      /\ DOMAIN loop = Callbacks /\ DOMAIN run = LoopFields /\ run.at \in DOMAIN routed
  <2>1. children[o] \in Nat /\ loop[h].started \in Nat
    BY <1>2 DEF IInv, StoreShapes, SlicerInv, LoopShapes, IsRun
  <2>2. child.slice = children[o] + 1 /\ child.sentAt = loop[h].started
    BY <1>1 DEF InFlight
  <2>3. child # None
    BY <1>1 DEF NoneIsNoChild
  <2> QED  BY <1>1, <1>2, <2>1, <2>2, <2>3 DEF IInv, SlicerInv, LoopShapes, IsRun, Busy
<1>6. PICK next : /\ next = loop'[h] /\ DOMAIN next = LoopFields /\ next.phase = "sending"
                  /\ next.child = child /\ next.at = run.at /\ next.started = run.started
  <2> DEFINE r1 == [run EXCEPT !.phase = "sending"]
             r2 == [r1 EXCEPT !.child = child]
             r3 == [r2 EXCEPT !.progress = None]
  <2>1. loop'[h] = r3
    BY <1>2, <1>4, <1>5
  <2>2. /\ DOMAIN r2 = LoopFields /\ r2.phase = "sending" /\ r2.child = child
        /\ r2.at = run.at /\ r2.started = run.started
    BY <1>5 DEF LoopFields
  <2> HIDE DEF r2
  <2>3. /\ DOMAIN r3 = LoopFields /\ r3.phase = "sending" /\ r3.child = child
        /\ r3.at = run.at /\ r3.started = run.started
    BY <2>2 DEF LoopFields
  <2> QED  BY <2>1, <2>3
<1>7. DOMAIN loop' = Callbacks /\ \A k \in Callbacks : k # h => loop'[k] = loop[k]
  BY <1>4, <1>5
<1>8. StoreShapes' /\ Routing' /\ EndedStays'
  <2>1. sent' \subseteq [order : AllOrders, slice : Nat, sentAt : Nat]
    BY <1>2, <1>4, <1>5 DEF AllOrders
  <2>2. children' \in [Orders -> Nat]
    BY <1>2, <1>4 DEF IInv, StoreShapes
  <2> QED  BY <1>2, <1>3, <1>4, <2>1, <2>2
           DEF IInv, StoreShapes, Routing, EndedStays, RoutedOrders
<1>9. LoopShapes'
  BY <1>5, <1>6, <1>7 DEF IInv, SlicerInv, LoopShapes, IsRun
<1>10. \A k \in Ticks : /\ k \in Callbacks
                        /\ Busy(k)' = Busy(k) /\ Order(loop[k])' = Order(loop[k])
  BY <1>1, <1>2, <1>6, <1>7 DEF Busy, Order, Callbacks
<1>11. Claims'
  BY <1>4, <1>10 DEF IInv, SlicerInv, Claims
<1>12. Answered'
  BY <1>6, <1>7, <1>10, AnsweredKept
<1>13. Covers(o, child)' /\ \A s \in sent' : s.order = o /\ Active(s)' =>
                                /\ s.slice = child.slice /\ s.sentAt = child.sentAt
  <2>1. \A s \in sent : s.order = o => ~Active(s)
    BY DEF Covers
  <2>2. \A s : Active(s)' <=> Active(s)
    BY DEF Active, IsFilled, Rows
  <2>3. \A s \in sent' : s.order = o /\ Active(s)' =>
                            /\ s.slice = child.slice /\ s.sentAt = child.sentAt
    BY <1>4, <2>1, <2>2
  <2> QED  BY <1>5, <2>3 DEF Covers
<1>14. ASSUME NEW p, NEW c, p # o, Covers(p, c) PROVE Covers(p, c)'
  BY <1>2, <1>4, <1>14, CoversKept
<1>15. TicksCover'
  <2> SUFFICES ASSUME NEW k \in Ticks, Busy(k)
               PROVE  Covers(Order(loop[k]), loop[k].child)'
    BY <1>10 DEF TicksCover
  <2>1. PICK p, c : p = Order(loop[k])' /\ c = loop'[k].child
    OBVIOUS
  <2>2. CASE k = h
    BY <1>6, <1>10, <1>13, <2>1, <2>2 DEF Covers
  <2>3. CASE k # h
    <3>1. p # o /\ c = loop[k].child /\ p = Order(loop[k])
      BY <1>2, <1>7, <1>10, <2>1, <2>3 DEF IInv, SlicerInv, Claims
    <3>2. Covers(p, c)
      BY <3>1 DEF IInv, SlicerInv, TicksCover
    <3>3. Covers(p, c)'
      BY <1>14, <3>1, <3>2
    <3> QED  BY <2>1, <3>3 DEF Covers
  <2> QED  BY <2>2, <2>3
<1>16. TicksCurrent'
  <2> SUFFICES ASSUME NEW k \in Ticks, loop'[k].phase \in {"reading", "answered"},
                      Order(loop[k])' \in pending
               PROVE  loop'[k].child = inFlight'[Order(loop[k])']
    BY <1>3 DEF TicksCurrent
  <2>1. k # h /\ loop'[k] = loop[k] /\ Busy(k)
    BY <1>6, <1>7, <1>10 DEF Busy
  <2>2. Order(loop[k]) # o /\ Order(loop[k]) \in Orders
    BY <1>2, <1>10, <2>1, OrderOfTick DEF IInv, SlicerInv, Claims
  <2> QED  BY <1>3, <1>10, <2>1, <2>2 DEF IInv, SlicerInv, TicksCurrent
<1>17. MapCovers'
  <2> SUFFICES ASSUME NEW p \in pending \ evaluating PROVE Covers(p, inFlight[p])'
    BY <1>3, <1>4 DEF MapCovers
  <2>1. PICK c : c = inFlight[p]
    OBVIOUS
  <2>2. p # o /\ p \in Orders
    BY <1>2, LenProperties, ElementOfSeq
       DEF IInv, SlicerInv, Claims, StoreShapes, RoutedOrders
  <2>3. Covers(p, c)
    BY <2>1 DEF IInv, SlicerInv, MapCovers
  <2>4. Covers(p, c)'
    BY <1>14, <2>2, <2>3
  <2> QED  BY <1>3, <2>1, <2>2, <2>4 DEF Covers
<1>18. OneActive'
  <2> SUFFICES ASSUME NEW s \in sent', NEW t \in sent', s.order = t.order,
                      Active(s)', Active(t)'
               PROVE  s = t
    BY DEF OneActive
  <2>1. CASE s.order = o
    <3>1. s.slice = t.slice /\ s.sentAt = t.sentAt
      BY <1>13, <2>1
    <3> QED  BY <1>8, <3>1 DEF StoreShapes
  <2>2. CASE s.order # o
    <3>1. s \in sent /\ t \in sent
      BY <1>4, <2>2
    <3>2. Active(s) /\ Active(t)
      BY DEF Active, IsFilled, Rows
    <3> QED  BY <3>1, <3>2 DEF IInv, OneActive
  <2> QED  BY <2>1, <2>2
<1>19. TwapShapes' /\ TwapCovers'
  <2>1. TwapShapes'
    BY DEF IInv, TwapShapes
  <2> SUFFICES ASSUME NEW p \in TwapOrders, twap[p].phase # "done"
               PROVE  Covers(p, twap[p].child)'
    BY <2>1 DEF IInv, TwapCovers
  <2>2. PICK c : c = twap[p].child
    OBVIOUS
  <2>3. Covers(p, c) /\ p # o
    BY <1>2, <2>2, OneStrategy DEF IInv, TwapCovers
  <2>4. Covers(p, c)'
    BY <1>14, <2>3
  <2> QED  BY <2>2, <2>4 DEF Covers
<1> QED  BY <1>8, <1>9, <1>11, <1>12, <1>15, <1>16, <1>17, <1>18, <1>19 DEF IInv, SlicerInv

LEMMA EvaluateInv ==
  ASSUME IInv, NoneIsNoChild, ~CopiesMap, NEW h \in Ticks, Evaluate(h), UNCHANGED twap
  PROVE  IInv'
<1>1. PICK o, run : o = Order(loop[h]) /\ run = loop[h]
  OBVIOUS
<1>2. /\ Busy(h) /\ h \in Callbacks /\ o \in Orders /\ DOMAIN inFlight = Orders
      /\ loop[h].phase = "answered" /\ clock \in Nat
      /\ sent \subseteq [order : AllOrders, slice : Nat, sentAt : Nat]
      /\ UNCHANGED <<routed, outcome, clock, journal>>
  BY <1>1, OrderOfTick DEF Evaluate, Busy, Callbacks, IInv, StoreShapes
<1>3. Covers(o, run.child)
  BY <1>1, <1>2 DEF IInv, SlicerInv, TicksCover
<1>4. CASE run.progress = None
  <2>1. /\ NextOrder(h, loop[h], evaluating \ {o})
        /\ UNCHANGED <<inFlight, pending, children, sent>>
    BY <1>1, <1>4 DEF Evaluate
  <2>2. o \in pending => Covers(o, inFlight'[o])
    BY <1>1, <1>2, <1>3, <2>1 DEF IInv, SlicerInv, TicksCurrent
  <2> QED  BY <1>1, <1>2, <2>1, <2>2, GiveBackInv
<1>5. CASE run.progress # None
  <2>1. PICK settled : settled = SettleInFlight(run.child, run.progress, run.started)
    OBVIOUS
  <2>2. Covers(o, settled)
    <3>1. /\ run.progress \subseteq Rows(o)
          /\ run.started \in Nat /\ run.started <= clock
      BY <1>1, <1>2, <1>5 DEF IInv, Answered, SlicerInv, LoopShapes, IsRun
    <3> QED  BY <1>2, <1>3, <2>1, <3>1, SettleCovers
  <2>3. /\ SetInFlight(o, settled)
        /\ \/ NextOrder(h, loop[h], evaluating \ {o}) /\ UNCHANGED <<children, sent>>
           \/ settled = None /\ \E qty : SendChild(h, loop[h], o, qty)
    BY <1>1, <1>5, <2>1 DEF Evaluate
  <2>4. CASE NextOrder(h, loop[h], evaluating \ {o}) /\ UNCHANGED <<children, sent>>
    <3>1. /\ DOMAIN inFlight' = Orders /\ UNCHANGED pending
          /\ \A q \in Orders \ {o} : inFlight'[q] = inFlight[q]
          /\ o \in pending => inFlight'[o] = settled
      BY <1>2, <2>3, SetInFlightFacts
    <3> QED  BY <1>1, <1>2, <2>2, <2>4, <3>1, GiveBackInv
  <2>5. CASE settled = None /\ \E qty : SendChild(h, loop[h], o, qty)
    BY <1>1, <1>2, <2>2, <2>3, <2>5, SendChildInv
  <2> QED  BY <2>3, <2>4, <2>5
<1> QED  BY <1>4, <1>5

-----------------------------------------------------------------------------
(* A step that changes only what one callback has got to, and removes      *)
(* orders from the map: no tick goes on to another order.                  *)
LEMMA CallbackInv ==
  ASSUME IInv, NEW h \in Callbacks, NEW next,
         DOMAIN loop' = Callbacks,
         \A k \in Callbacks \ {h} : loop'[k] = loop[k],
         loop'[h] = next, DOMAIN next = LoopFields,
         next.phase \in {"idle", "reading", "answered", "sending"},
         next.started \in Nat, next.started <= clock,
         next.phase # "idle" => next.at \in DOMAIN routed,
         h \in Ticks => /\ Busy(h) /\ next.at = loop[h].at /\ next.child = loop[h].child
                        /\ loop[h].phase = "reading" /\ next.phase = "answered"
                        /\ next.progress \in Answers(Order(loop[h])),
         UNCHANGED <<clock, journal, sent, routed, expiresAt, inFlight, evaluating, children,
                     twap>>,
         pending' \subseteq pending, EndedStays', DOMAIN outcome' = Orders
  PROVE  IInv'
<1>1. h \in Ticks => /\ Order(loop[h])' = Order(loop[h]) /\ Busy(h)' /\ Busy(h)
                     /\ loop'[h].child = loop[h].child /\ loop[h].phase = "reading"
  BY DEF Order, Busy
<1>2. \A k \in Ticks : /\ k \in Callbacks /\ Order(loop[k])' = Order(loop[k])
                       /\ Busy(k)' = Busy(k) /\ loop'[k].child = loop[k].child
                       /\ loop'[k].phase \in {"reading", "answered"} =>
                            loop[k].phase \in {"reading", "answered"}
  BY <1>1 DEF Callbacks, Order, Busy
<1>3. LoopShapes'
  BY DEF IInv, SlicerInv, LoopShapes, IsRun
<1>4. Claims'
  BY <1>2 DEF IInv, SlicerInv, Claims
<1>5. TicksCover'
  <2> SUFFICES ASSUME NEW k \in Ticks, Busy(k)
               PROVE  Covers(Order(loop[k]), loop[k].child)'
    BY <1>2 DEF TicksCover
  <2>1. PICK p, c : p = Order(loop[k]) /\ c = loop[k].child
    OBVIOUS
  <2>2. Covers(p, c)'
    BY <2>1, CoversSame DEF IInv, SlicerInv, TicksCover
  <2> QED  BY <1>2, <2>1, <2>2 DEF Covers
<1>6. TicksCurrent'
  BY <1>2 DEF IInv, SlicerInv, TicksCurrent
<1>7. MapCovers'
  <2> SUFFICES ASSUME NEW p \in pending \ evaluating PROVE Covers(p, inFlight[p])'
    BY DEF MapCovers
  <2>1. PICK c : c = inFlight[p]
    OBVIOUS
  <2>2. Covers(p, c)'
    BY <2>1, CoversSame DEF IInv, SlicerInv, MapCovers
  <2> QED  BY <2>1, <2>2 DEF Covers
<1>8. Answered'
  <2>1. \A k \in Ticks : k # h => loop'[k] = loop[k] /\ Order(loop[k])' = Order(loop[k])
    BY <1>2
  <2>2. h \in Ticks => loop'[h].progress \in Answers(Order(loop[h])')
    BY <1>1
  <2>3. \A o : Answers(o)' = Answers(o)
    BY DEF Answers, Rows
  <2> QED  BY <2>1, <2>2, <2>3, AnsweredKept
<1>9. StoreShapes' /\ Routing'
  BY DEF IInv, StoreShapes, Routing, RoutedOrders
<1> QED  BY <1>3, <1>4, <1>5, <1>6, <1>7, <1>8, <1>9, NothingSent DEF IInv, SlicerInv

LEMMA AnswerInv ==
  ASSUME IInv, NEW h \in Callbacks, Answer(h), UNCHANGED twap
  PROVE  IInv'
<1>1. PICK run, progress :
        /\ run = loop[h] /\ progress \in Answers(Order(loop[h]))
        /\ loop' = [loop EXCEPT ![h].phase = "answered", ![h].progress = progress]
  BY DEF Answer
<1>2. /\ DOMAIN loop = Callbacks /\ DOMAIN run = LoopFields /\ run.phase = "reading"
      /\ run.started \in Nat /\ run.started <= clock /\ run.at \in DOMAIN routed
  BY <1>1 DEF IInv, SlicerInv, LoopShapes, IsRun, Answer
<1> DEFINE l1 == [loop EXCEPT ![h].phase = "answered"]
           l2 == [l1 EXCEPT ![h].progress = progress]
<1>3. /\ DOMAIN l1 = Callbacks /\ \A k \in Callbacks \ {h} : l1[k] = loop[k]
      /\ DOMAIN l1[h] = LoopFields /\ l1[h].phase = "answered" /\ l1[h].at = run.at
      /\ l1[h].child = run.child /\ l1[h].started = run.started
  BY <1>1, <1>2 DEF LoopFields
<1>4. loop' = l2
  BY <1>1
<1> HIDE DEF l1
<1>5. /\ DOMAIN l2 = Callbacks /\ \A k \in Callbacks \ {h} : l2[k] = loop[k]
      /\ DOMAIN l2[h] = LoopFields /\ l2[h].phase = "answered" /\ l2[h].at = run.at
      /\ l2[h].child = run.child /\ l2[h].started = run.started
      /\ l2[h].progress = progress
  BY <1>3 DEF LoopFields
<1> HIDE DEF l2
<1>6. PICK next : next = loop'[h]
  OBVIOUS
<1>7. EndedStays' /\ DOMAIN outcome' = Orders
  BY DEF Answer, IInv, EndedStays, StoreShapes, RoutedOrders
<1> QED  BY <1>1, <1>2, <1>4, <1>5, <1>6, <1>7, CallbackInv DEF Answer, Busy, progressVars

(* The sweep goes on to the next order of the keys it began with.          *)
LEMMA NextSweptFacts ==
  ASSUME IInv, NEW run, DOMAIN run = LoopFields, NextSwept(run)
  PROVE  /\ DOMAIN loop' = Callbacks
         /\ \A k \in Callbacks \ {Sweep} : loop'[k] = loop[k]
         /\ DOMAIN loop'[Sweep] = LoopFields /\ loop'[Sweep].phase \in {"idle", "reading"}
         /\ loop'[Sweep].started \in Nat /\ loop'[Sweep].started <= clock
         /\ loop'[Sweep].phase # "idle" => loop'[Sweep].at \in DOMAIN routed
<1> DEFINE left == {i \in DOMAIN routed : i > run.at /\ routed[i] \in run.triggered}
<1>1. /\ DOMAIN loop = Callbacks /\ Sweep \in Callbacks /\ clock \in Nat
      /\ DOMAIN routed \subseteq Nat
  BY LenProperties DEF IInv, SlicerInv, LoopShapes, StoreShapes, Callbacks
<1>2. CASE left = {}
  <2>1. loop' = [loop EXCEPT ![Sweep] = Idle]
    BY <1>2 DEF NextSwept
  <2> QED  BY <1>1, <2>1 DEF Idle, LoopFields
<1>3. CASE left # {}
  <2>1. Min(left) \in left
    <3>1. PICK m \in left : \A n \in left : m <= n
      BY <1>1, <1>3, LeastNat
    <3> QED  BY <3>1 DEF Min
  <2> DEFINE r1 == [run EXCEPT !.phase = "reading"]
             r2 == [r1 EXCEPT !.at = Min(left)]
             r3 == [r2 EXCEPT !.started = clock]
             r4 == [r3 EXCEPT !.progress = None]
  <2>2. loop' = [loop EXCEPT ![Sweep] = r4]
    BY <1>3 DEF NextSwept
  <2>3. DOMAIN r2 = LoopFields /\ r2.phase = "reading" /\ r2.at = Min(left)
    BY DEF LoopFields
  <2> HIDE DEF r2
  <2>4. /\ DOMAIN r4 = LoopFields /\ r4.phase = "reading" /\ r4.at = Min(left)
        /\ r4.started = clock
    BY <2>3 DEF LoopFields
  <2> HIDE DEF r4
  <2> QED  BY <1>1, <2>1, <2>2, <2>4
<1> QED  BY <1>2, <1>3

LEMMA SweepOnInv ==
  ASSUME IInv, NEW run, DOMAIN run = LoopFields, NextSwept(run),
         UNCHANGED <<clock, journal, sent, routed, expiresAt, inFlight, evaluating, children,
                     twap, pending, outcome>>
  PROVE  IInv'
<1>1. Sweep \in Callbacks /\ Sweep \notin Ticks
  BY SlicerAssumption DEF Callbacks
<1>2. EndedStays' /\ DOMAIN outcome' = Orders
  BY DEF IInv, EndedStays, StoreShapes, RoutedOrders
<1>3. PICK next : next = loop'[Sweep]
  OBVIOUS
<1> QED  BY <1>1, <1>2, <1>3, NextSweptFacts, CallbackInv

LEMMA StartSweepInv ==
  ASSUME IInv, StartSweep, UNCHANGED twap
  PROVE  IInv'
<1> DEFINE run == [Idle EXCEPT !.triggered = pending]
<1>1. DOMAIN run = LoopFields
  BY DEF Idle, LoopFields
<1>2. NextSwept(run)
  BY DEF StartSweep
<1> HIDE DEF run
<1> QED  BY <1>1, <1>2, SweepOnInv DEF StartSweep, progressVars

LEMMA SweepRun ==
  ASSUME IInv
  PROVE  /\ DOMAIN loop = Callbacks /\ DOMAIN loop[Sweep] = LoopFields
         /\ loop[Sweep].started \in Nat /\ loop[Sweep].started <= clock
         /\ Sweep \in Callbacks /\ Sweep \notin Ticks
BY SlicerAssumption DEF IInv, SlicerInv, LoopShapes, IsRun, Callbacks

LEMMA AfterOutcomeInv ==
  ASSUME IInv, AfterOutcome, UNCHANGED twap
  PROVE  IInv'
BY SweepRun, SweepOnInv DEF AfterOutcome, progressVars

(* The sweep is the only one to end an order, and takes it from the map.   *)
LEMMA SweepOrderInv ==
  ASSUME IInv, SweepOrder, UNCHANGED twap
  PROVE  IInv'
<1>1. PICK o, run : o = Order(loop[Sweep]) /\ run = loop[Sweep]
  OBVIOUS
<1>2. /\ run.phase = "answered" /\ run.at \in DOMAIN routed
      /\ o \in Orders /\ o \in RoutedOrders
  BY <1>1, SweepRun, OrderOfTick DEF SweepOrder, Busy
<1>3. UNCHANGED <<clock, journal, sent, routed, expiresAt, inFlight, evaluating, children, twap>>
  BY DEF SweepOrder, progressVars
<1>4. CASE NextSwept(run) /\ UNCHANGED <<pending, outcome>>
  BY <1>1, <1>3, <1>4, SweepRun, SweepOnInv
<1>5. CASE /\ pending' = pending \ {o}
           /\ \E found : outcome' = [outcome EXCEPT ![o] = found]
           /\ loop' = [loop EXCEPT ![Sweep].phase = "sending", ![Sweep].progress = None]
  <2> DEFINE l1 == [loop EXCEPT ![Sweep].phase = "sending"]
             l2 == [l1 EXCEPT ![Sweep].progress = None]
  <2>1. loop' = l2
    BY <1>5
  <2>2. /\ DOMAIN l1 = Callbacks /\ \A k \in Callbacks \ {Sweep} : l1[k] = loop[k]
        /\ DOMAIN l1[Sweep] = LoopFields /\ l1[Sweep].phase = "sending"
        /\ l1[Sweep].at = run.at /\ l1[Sweep].started = run.started
    BY <1>1, SweepRun DEF LoopFields
  <2> HIDE DEF l1
  <2>3. /\ DOMAIN l2 = Callbacks /\ \A k \in Callbacks \ {Sweep} : l2[k] = loop[k]
        /\ DOMAIN l2[Sweep] = LoopFields /\ l2[Sweep].phase = "sending"
        /\ l2[Sweep].at = run.at /\ l2[Sweep].started = run.started
    BY <2>2, SweepRun DEF LoopFields
  <2> HIDE DEF l2
  <2>4. EndedStays' /\ DOMAIN outcome' = Orders
    BY <1>2, <1>3, <1>5 DEF IInv, EndedStays, StoreShapes, RoutedOrders
  <2>5. PICK next : next = loop'[Sweep]
    OBVIOUS
  <2> QED  BY <1>1, <1>2, <1>3, <1>5, <2>1, <2>3, <2>4, <2>5, SweepRun, CallbackInv
<1> QED  BY <1>1, <1>4, <1>5 DEF SweepOrder

-----------------------------------------------------------------------------
(* A step of the executeTWAP of o: it sends a child only when none is in   *)
(* flight, and then knows it.                                              *)
LEMMA TwapChange ==
  ASSUME IInv, NEW o \in TwapOrders, NEW next, Goes(o, next),
         DOMAIN next = TwapFields, next.slices \in Nat, next.started \in Nat,
         next.started <= clock, next.phase # "idle",
         next.phase = "answered" /\ next.progress # None => next.progress \subseteq Rows(o),
         UNCHANGED <<clock, journal, slicerVars>>,
         \/ sent' = sent /\ (next.phase # "done" => Covers(o, next.child))
         \/ /\ Covers(o, None) /\ next.child # None
            /\ next.child.slice \in Nat /\ next.child.sentAt \in Nat
            /\ sent' = sent \cup {[order |-> o, slice |-> next.child.slice,
                                   sentAt |-> next.child.sentAt]}
  PROVE  IInv'
<1> USE DEF slicerVars
<1>1. /\ DOMAIN twap = TwapOrders /\ clock \in Nat
      /\ sent \subseteq [order : AllOrders, slice : Nat, sentAt : Nat]
  BY DEF IInv, TwapShapes, StoreShapes
<1>2. /\ DOMAIN twap' = TwapOrders /\ twap'[o] = next
      /\ \A p \in TwapOrders \ {o} : twap'[p] = twap[p]
  BY <1>1 DEF Goes
<1>3. \A s : Active(s)' <=> Active(s)
  BY DEF Active, IsFilled, Rows
<1>4. \A s \in sent' : s \in sent \/ s.order = o
  OBVIOUS
<1>5. ASSUME NEW p, NEW c, p # o, Covers(p, c) PROVE Covers(p, c)'
  BY <1>3, <1>4, <1>5 DEF Covers
<1>6. next.phase # "done" \/ sent' # sent => Covers(o, next.child)'
  BY <1>3 DEF Covers
<1>7. TwapShapes'
  BY <1>2 DEF IInv, TwapShapes
<1>8. TwapCovers'
  <2> SUFFICES ASSUME NEW p \in TwapOrders, p # o
               PROVE  twap'[p].phase # "done" => Covers(p, twap[p].child)'
    BY <1>2, <1>6 DEF IInv, TwapCovers, Covers
  <2>1. PICK c : c = twap[p].child
    OBVIOUS
  <2>2. twap[p].phase # "done" => Covers(p, c)'
    BY <1>5, <2>1 DEF IInv, TwapCovers
  <2> QED  BY <1>2, <2>1, <2>2 DEF Covers
<1>9. \A p \in Orders : p # o
  BY OneStrategy
<1>10. StoreShapes' /\ Routing' /\ EndedStays'
  <2>1. sent' \subseteq [order : AllOrders, slice : Nat, sentAt : Nat]
    BY <1>1 DEF AllOrders
  <2> QED  BY <1>4, <1>9, <2>1 DEF IInv, StoreShapes, Routing, EndedStays, RoutedOrders
<1>11. Answered'
  BY <1>2 DEF IInv, Answered, Rows, Order
<1>12. LoopShapes' /\ Claims' /\ TicksCurrent'
  BY DEF IInv, SlicerInv, LoopShapes, IsRun, Claims, TicksCurrent, Busy, Order
<1>13. TicksCover'
  <2> SUFFICES ASSUME NEW k \in Ticks, Busy(k)
               PROVE  Covers(Order(loop[k]), loop[k].child)'
    BY DEF TicksCover, Busy
  <2>1. PICK p, c : p = Order(loop[k]) /\ c = loop[k].child
    OBVIOUS
  <2>2. Covers(p, c) /\ p # o
    BY <1>9, <2>1, OrderOfTick DEF IInv, SlicerInv, TicksCover, Callbacks
  <2>3. Covers(p, c)'
    BY <1>5, <2>2
  <2> QED  BY <2>1, <2>3 DEF Covers, Order
<1>14. MapCovers'
  <2> SUFFICES ASSUME NEW p \in pending \ evaluating PROVE Covers(p, inFlight[p])'
    BY DEF MapCovers
  <2>1. PICK c : c = inFlight[p]
    OBVIOUS
  <2>2. Covers(p, c) /\ p # o
    BY <1>9, <2>1, LenProperties, ElementOfSeq
       DEF IInv, SlicerInv, MapCovers, StoreShapes, RoutedOrders
  <2>3. Covers(p, c)'
    BY <1>5, <2>2
  <2> QED  BY <2>1, <2>3 DEF Covers
<1>15. OneActive'
  <2> SUFFICES ASSUME NEW s \in sent', NEW t \in sent', s.order = t.order,
                      Active(s), Active(t)
               PROVE  s = t
    BY <1>3 DEF OneActive
  <2>1. CASE s \in sent /\ t \in sent
    BY <2>1 DEF IInv, OneActive
  <2>2. CASE ~(s \in sent /\ t \in sent)
    <3>1. s.order = o /\ sent' # sent
      BY <1>4, <2>2
    <3>2. s.slice = t.slice /\ s.sentAt = t.sentAt
      BY <1>3, <1>6, <3>1 DEF Covers
    <3> QED  BY <1>10, <3>2 DEF StoreShapes
  <2> QED  BY <2>1, <2>2
<1> QED  BY <1>7, <1>8, <1>10, <1>11, <1>12, <1>13, <1>14, <1>15 DEF IInv, SlicerInv

LEMMA WaitFields ==
  ASSUME NEW run, NEW child, NEW slices
  PROVE  /\ DOMAIN Wait(run, child, slices) = TwapFields
         /\ Wait(run, child, slices).phase \in {"waiting", "settling"}
         /\ Wait(run, child, slices).slices = slices
         /\ Wait(run, child, slices).child = child
         /\ Wait(run, child, slices).started = 0
BY DEF Wait, NotStarted, TwapFields

(* The steps that send nothing.                                            *)
LEMMA TwapQuietInv ==
  ASSUME IInv, NEW o \in TwapOrders, UNCHANGED slicerVars,
         TwapRouted(o) \/ TwapRead(o) \/ TwapAnswer(o) \/ TwapSent(o) \/ TwapClose(o)
  PROVE  IInv'
<1>1. PICK run : run = twap[o]
  OBVIOUS
<1>2. /\ DOMAIN run = TwapFields /\ run.slices \in Nat /\ run.started \in Nat
      /\ run.started <= clock /\ clock \in Nat
      /\ run.phase = "idle" => run.child = None
      /\ run.phase # "done" => Covers(o, run.child)
  BY <1>1 DEF IInv, StoreShapes, TwapShapes, TwapCovers
<1>3. UNCHANGED <<clock, journal, sent>>
  BY DEF TwapRouted, TwapRead, TwapAnswer, TwapSent, TwapClose, progressVars
<1>4. CASE TwapRouted(o)
  <2> DEFINE next == [NotStarted EXCEPT !.phase = "waiting", !.due = clock]
  <2>1. /\ DOMAIN next = TwapFields /\ next.slices = 0 /\ next.started = 0
        /\ next.phase = "waiting" /\ next.child = None
    BY DEF NotStarted, TwapFields
  <2>2. Goes(o, next) /\ Covers(o, None)
    BY <1>1, <1>2, <1>4 DEF TwapRouted
  <2> HIDE DEF next
  <2> QED  BY <1>2, <1>3, <2>1, <2>2, TwapChange
<1>5. CASE TwapRead(o)
  <2> DEFINE next == [run EXCEPT !.phase = IF @ = "waiting" THEN "reading" ELSE "closing",
                                 !.started = clock]
  <2>1. /\ DOMAIN next = TwapFields /\ next.slices = run.slices /\ next.started = clock
        /\ next.phase \in {"reading", "closing"} /\ next.child = run.child
    BY <1>2 DEF TwapFields
  <2>2. Goes(o, next) /\ run.phase \in {"waiting", "settling"}
    BY <1>1, <1>5 DEF TwapRead
  <2> HIDE DEF next
  <2> QED  BY <1>2, <1>3, <2>1, <2>2, TwapChange
<1>6. CASE TwapAnswer(o)
  <2>1. PICK progress \in Answers(o) :
          Goes(o, [run EXCEPT !.phase = "answered", !.progress = progress])
    BY <1>1, <1>6 DEF TwapAnswer
  <2> DEFINE next == [run EXCEPT !.phase = "answered", !.progress = progress]
  <2>2. /\ DOMAIN next = TwapFields /\ next.slices = run.slices
        /\ next.started = run.started /\ next.phase = "answered"
        /\ next.child = run.child /\ next.progress = progress
    BY <1>2 DEF TwapFields
  <2>3. Goes(o, next) /\ run.phase = "reading"
    BY <1>1, <1>6, <2>1 DEF TwapAnswer
  <2>4. progress # None => progress \subseteq Rows(o)
    BY DEF Answers
  <2> HIDE DEF next
  <2> QED  BY <1>2, <1>3, <2>2, <2>3, <2>4, TwapChange
<1>7. CASE TwapSent(o)
  <2> DEFINE next == Wait(run, run.child, run.slices + 1)
  <2>1. /\ DOMAIN next = TwapFields /\ next.slices = run.slices + 1 /\ next.started = 0
        /\ next.phase \in {"waiting", "settling"} /\ next.child = run.child
    BY WaitFields
  <2>2. Goes(o, next) /\ run.phase = "sending"
    BY <1>1, <1>7 DEF TwapSent
  <2> HIDE DEF next
  <2> QED  BY <1>2, <1>3, <2>1, <2>2, TwapChange
<1>8. CASE TwapClose(o)
  <2>1. PICK outcome0 : Goes(o, [NotStarted EXCEPT !.phase = "done", !.outcome = outcome0])
    BY <1>8 DEF TwapClose
  <2> DEFINE next == [NotStarted EXCEPT !.phase = "done", !.outcome = outcome0]
  <2>2. /\ DOMAIN next = TwapFields /\ next.slices = 0 /\ next.started = 0
        /\ next.phase = "done"
    BY DEF NotStarted, TwapFields
  <2>3. Goes(o, next)
    BY <2>1
  <2> HIDE DEF next
  <2> QED  BY <1>2, <1>3, <2>2, <2>3, TwapChange
<1> QED  BY <1>4, <1>5, <1>6, <1>7, <1>8

LEMMA TwapSliceInv ==
  ASSUME IInv, NoneIsNoChild, NEW o \in TwapOrders, UNCHANGED slicerVars, TwapSlice(o)
  PROVE  IInv'
<1>1. PICK run : run = twap[o]
  OBVIOUS
<1>2. /\ DOMAIN run = TwapFields /\ run.slices \in Nat /\ run.started \in Nat
      /\ run.started <= clock /\ clock \in Nat /\ run.phase = "answered"
      /\ Covers(o, run.child)
      /\ run.progress # None => run.progress \subseteq Rows(o)
      /\ sent \subseteq [order : AllOrders, slice : Nat, sentAt : Nat]
  BY <1>1 DEF IInv, StoreShapes, TwapShapes, TwapCovers, Answered, TwapSlice
<1>3. UNCHANGED <<clock, journal>>
  BY DEF TwapSlice
<1>4. ASSUME NEW child, Covers(o, child), NEW slices \in Nat,
             Goes(o, Wait(run, child, slices)), UNCHANGED sent
      PROVE  IInv'
  <2> DEFINE next == Wait(run, child, slices)
  <2>1. /\ DOMAIN next = TwapFields /\ next.slices = slices /\ next.started = 0
        /\ next.phase \in {"waiting", "settling"} /\ next.child = child
    BY WaitFields
  <2>2. Goes(o, next)
    BY <1>4
  <2> HIDE DEF next
  <2> QED  BY <1>2, <1>3, <1>4, <2>1, <2>2, TwapChange
<1>5. CASE run.progress = None
  <2>1. Goes(o, Wait(run, run.child, run.slices + 1)) /\ UNCHANGED sent
    BY <1>1, <1>5 DEF TwapSlice
  <2> QED  BY <1>2, <1>4, <2>1
<1>6. CASE run.progress # None
  <2>1. PICK child : child = SettleInFlight(run.child, run.progress, run.started)
    OBVIOUS
  <2>2. Covers(o, child)
    BY <1>2, <1>6, <2>1, SettleCovers
  <2>3. \/ UNCHANGED sent /\ \E slices \in Nat : Goes(o, Wait(run, child, slices))
        \/ /\ child = None
           /\ \E qty : LET sentChild == InFlight(run.slices + 1, qty, run.started)
                       IN /\ Goes(o, [run EXCEPT !.phase = "sending", !.child = sentChild])
                          /\ sent' = sent \cup {[order |-> o, slice |-> run.slices + 1,
                                                 sentAt |-> run.started]}
    <3>1. NumSlices \in Nat /\ run.slices + 1 \in Nat
      BY <1>2, TwapAssumption
    <3> QED  BY <1>1, <1>6, <2>1, <3>1 DEF TwapSlice
  <2>4. CASE UNCHANGED sent /\ \E slices \in Nat : Goes(o, Wait(run, child, slices))
    BY <1>4, <2>2, <2>4
  <2>5. ASSUME child = None, NEW qty,
               Goes(o, [run EXCEPT !.phase = "sending",
                                   !.child = InFlight(run.slices + 1, qty, run.started)]),
               sent' = sent \cup {[order |-> o, slice |-> run.slices + 1,
                                  sentAt |-> run.started]}
        PROVE  IInv'
    <3> DEFINE sentChild == InFlight(run.slices + 1, qty, run.started)
               next == [run EXCEPT !.phase = "sending", !.child = sentChild]
    <3>1. /\ sentChild.slice = run.slices + 1 /\ sentChild.sentAt = run.started
          /\ sentChild # None
      BY DEF InFlight, NoneIsNoChild
    <3>2. /\ DOMAIN next = TwapFields /\ next.slices = run.slices
          /\ next.started = run.started /\ next.phase = "sending" /\ next.child = sentChild
      BY <1>2 DEF TwapFields
    <3>3. Goes(o, next)
      BY <2>5
    <3> HIDE DEF next, sentChild
    <3> QED  BY <1>2, <1>3, <2>2, <2>5, <3>1, <3>2, <3>3, TwapChange
  <2> QED  BY <2>3, <2>4, <2>5
<1> QED  BY <1>5, <1>6

-----------------------------------------------------------------------------
(* The EMS, the journal, the bus and the clock send no child.              *)
LEMMA OutsideInv ==
  ASSUME IInv, UNCHANGED <<slicerVars, twap, sent>>, clock' \in Nat, clock <= clock',
         journal \subseteq journal'
  PROVE  IInv'
<1> USE DEF slicerVars
<1>1. /\ clock \in Nat
      /\ sent \subseteq [order : AllOrders, slice : Nat, sentAt : Nat]
  BY DEF IInv, StoreShapes
<1>2. StoreShapes' /\ Routing' /\ EndedStays' /\ TwapShapes'
  <2>1. \A t \in Nat : t <= clock => t <= clock'
    BY <1>1
  <2> QED  BY <2>1 DEF IInv, StoreShapes, Routing, EndedStays, RoutedOrders, TwapShapes
<1>3. LoopShapes' /\ Claims' /\ TicksCurrent'
  <2>1. \A t \in Nat : t <= clock => t <= clock'
    BY <1>1
  <2>2. LoopShapes'
    BY <2>1 DEF IInv, SlicerInv, LoopShapes, IsRun
  <2> QED  BY <2>2 DEF IInv, SlicerInv, Claims, TicksCurrent, Busy, Order
<1>4. Answered'
  BY DEF IInv, Answered, Rows, Order
<1>5. ASSUME NEW p, NEW c, Covers(p, c) PROVE Covers(p, c)'
  BY <1>1, <1>5, CoversKept
<1>6. TicksCover'
  <2> SUFFICES ASSUME NEW k \in Ticks, Busy(k)
               PROVE  Covers(Order(loop[k]), loop[k].child)'
    BY DEF TicksCover, Busy
  <2>1. PICK p, c : p = Order(loop[k]) /\ c = loop[k].child
    OBVIOUS
  <2>2. Covers(p, c)'
    BY <1>5, <2>1 DEF IInv, SlicerInv, TicksCover
  <2> QED  BY <2>1, <2>2 DEF Covers, Order
<1>7. MapCovers'
  <2> SUFFICES ASSUME NEW p \in pending \ evaluating PROVE Covers(p, inFlight[p])'
    BY DEF MapCovers
  <2>1. PICK c : c = inFlight[p]
    OBVIOUS
  <2>2. Covers(p, c)'
    BY <1>5, <2>1 DEF IInv, SlicerInv, MapCovers
  <2> QED  BY <2>1, <2>2 DEF Covers
<1>8. TwapCovers'
  <2> SUFFICES ASSUME NEW p \in TwapOrders
               PROVE  twap[p].phase # "done" => Covers(p, twap[p].child)'
    BY DEF IInv, TwapCovers
  <2>1. PICK c : c = twap[p].child
    OBVIOUS
  <2>2. twap[p].phase # "done" => Covers(p, c)'
    BY <1>5, <2>1 DEF IInv, TwapCovers
  <2> QED  BY <2>1, <2>2 DEF Covers
<1>9. OneActive'
  BY <1>1, OneActiveKept DEF IInv
<1> QED  BY <1>2, <1>3, <1>4, <1>6, <1>7, <1>8, <1>9 DEF IInv, SlicerInv

LEMMA NextIInv ==
  ASSUME IInv, NoneIsNoChild, ~CopiesMap, [Next]_vars
  PROVE  IInv'
<1>1. clock \in Nat
  BY DEF IInv, StoreShapes
<1>2. CASE UNCHANGED vars
  BY <1>1, <1>2, OutsideInv DEF vars, progressVars
<1>3. CASE Slicing /\ UNCHANGED <<twap, executed>>
  <2>1. Ticks \subseteq Callbacks
    BY DEF Callbacks
  <2> QED  BY <1>3, <2>1, RoutedOrderInv, OnTickInv, AnswerInv, EvaluateInv, AfterSendInv,
              StartSweepInv, SweepOrderInv, AfterOutcomeInv DEF Slicing
<1>4. CASE Twapping /\ UNCHANGED <<slicerVars, executed>>
  BY <1>4, TwapQuietInv, TwapSliceInv DEF Twapping
<1>5. CASE \E m \in bus : JournalFill(m) /\ UNCHANGED <<slicerVars, twap, executed>>
  BY <1>1, <1>5, OutsideInv DEF JournalFill
<1>6. CASE \E m \in bus : HandleChildOrder(m) /\ UNCHANGED <<progressVars, slicerVars, twap>>
  BY <1>1, <1>6, OutsideInv DEF progressVars
<1>7. CASE (Settle \/ Advance) /\ UNCHANGED <<slicerVars, twap, executed>>
  BY <1>1, <1>7, OutsideInv DEF Settle, Advance, progressVars
<1> QED  BY <1>2, <1>3, <1>4, <1>5, <1>6, <1>7 DEF Next

LEMMA Invariant ==
  ASSUME NoneIsNoChild, ~CopiesMap
  PROVE  Spec => []IInv
<1>1. IInv /\ [Next]_vars => IInv'
  BY NextIInv
<1> QED  BY InitIInv, <1>1, PTL DEF Spec

(* VWAP, POV and TWAP never have two children of an order in flight, that  *)
(* is sent within ALGO_CHILD_SETTLE_MS and with no fill in the journal:    *)
(* for any orders, ticks that overlap, delays of the journal, unanswered   *)
(* requests and failed sends.  None is taken to be no reference to a child.*)
THEOREM OneChild ==
  ASSUME NoneIsNoChild, ~CopiesMap
  PROVE  Spec => []OneChildInFlight
<1>1. IInv => OneChildInFlight
  <2> SUFFICES ASSUME IInv, NEW o \in AllOrders,
                      NEW c \in sent, NEW d \in sent, c.order = o, d.order = o,
                      clock < c.sentAt + SettleTime, ~IsFilled(c, Rows(o)),
                      clock < d.sentAt + SettleTime, ~IsFilled(d, Rows(o))
               PROVE  c = d
    BY DEF OneChildInFlight
  <2> QED  BY DEF IInv, OneActive, Active
<1> QED  BY <1>1, Invariant, PTL

(* An order the sweep has ended is not put back by a tick that was         *)
(* evaluating it.                                                          *)
THEOREM NotUndone ==
  ASSUME NoneIsNoChild, ~CopiesMap
  PROVE  Spec => []RemovedForGood
<1>1. IInv => RemovedForGood
  BY DEF IInv, EndedStays, RemovedForGood
<1> QED  BY <1>1, Invariant, PTL

-----------------------------------------------------------------------------
(* The types, also of what a suspended callback holds.                     *)
Refs == {None} \cup [slice : Nat, qty : Nat, sentAt : Nat]
Phases == {"idle", "reading", "answered", "sending"}
TwapRun == [phase : {"idle", "waiting", "reading", "answered", "sending",
                     "settling", "closing", "done"},
            slices : 0 .. NumSlices,
            child : Refs,
            due : Nat, started : Nat,
            progress : {None} \cup SUBSET journal,
            outcome : {"working", "complete", "expired"}]

Messages == \A m \in sending \cup bus : m.order \in AllOrders /\ m.slice \in Nat /\ m.qty \in Nat

ProgressTypes ==
  /\ clock \in 0 .. MaxClock
  /\ journal \subseteq [order : AllOrders, slice : Nat, qty : Nat]
  /\ IsFiniteSet(journal)
  /\ sent \subseteq [order : AllOrders, slice : Nat, sentAt : Nat]
  /\ givenUp \subseteq [order : AllOrders, slice : Nat]
  /\ Messages
  /\ executed \in [AllOrders -> Nat]

MapTypes ==
  /\ routed \in Seq(Orders)
  /\ pending \subseteq Orders
  /\ expiresAt \in [Orders -> Nat]
  /\ inFlight \in [Orders -> Refs]
  /\ evaluating \subseteq Orders
  /\ children \in [Orders -> Nat]
  /\ outcome \in [Orders -> {"working", "complete", "expired"}]

RunTypes(run) ==
  /\ DOMAIN run = LoopFields
  /\ run.phase \in Phases
  /\ run.started \in Nat
  /\ run.child \in Refs
  /\ run.progress \in {None} \cup SUBSET journal
  /\ \A o \in DOMAIN run.copy : run.copy[o] \in Refs
  /\ run.phase # "idle" => run.at \in DOMAIN routed

LoopTypes == DOMAIN loop = Callbacks /\ \A h \in Callbacks : RunTypes(loop[h])

TwapTypes ==
  /\ twap \in [TwapOrders -> TwapRun]
  /\ \A o \in TwapOrders :
       twap[o].phase \in {"waiting", "reading", "answered", "sending"}
         => twap[o].slices < NumSlices

Types == ProgressTypes /\ MapTypes /\ LoopTypes /\ TwapTypes

LEMMA TypesImply == Types => TypeOK
<1> SUFFICES ASSUME Types PROVE TypeOK
  OBVIOUS
<1>1. /\ \A h \in Callbacks : loop[h].phase \in {"idle", "reading", "answered", "sending"}
      /\ inFlight \in [Orders -> {None} \cup [slice : Nat, qty : Nat, sentAt : Nat]]
      /\ \A m \in sending \cup bus : m.order \in AllOrders /\ m.slice \in Nat /\ m.qty \in Nat
  BY DEF Types, MapTypes, LoopTypes, RunTypes, Phases, ProgressTypes, Messages, Refs
<1>2. twap \in [TwapOrders -> [phase : {"idle", "waiting", "reading", "answered", "sending",
                                        "settling", "closing", "done"},
                               slices : 0 .. NumSlices,
                               child : {None} \cup [slice : Nat, qty : Nat, sentAt : Nat],
                               due : Nat, started : Nat,
                               progress : {None} \cup SUBSET journal,
                               outcome : {"working", "complete", "expired"}]]
  BY DEF Types, TwapTypes, TwapRun, Refs
<1> QED  BY <1>1, <1>2 DEF TypeOK, Types, ProgressTypes, MapTypes

LEMMA InitTypes == Init => Types
<1> SUFFICES ASSUME Init PROVE Types
  OBVIOUS
<1> USE DEF Init, ProgressInit, SlicerInit, TwapInit, BusInit
<1>1. ProgressTypes
  BY FS_EmptySet, SettleAssumption DEF ProgressTypes, Messages
<1>2. MapTypes
  BY EmptySeq DEF MapTypes, Refs
<1>3. LoopTypes
  BY DEF LoopTypes, RunTypes, Idle, LoopFields, Phases, Refs
<1>4. NotStarted \in TwapRun /\ NotStarted.phase = "idle"
  BY TwapAssumption DEF NotStarted, TwapRun, Refs
<1>5. TwapTypes
  BY <1>4 DEF TwapTypes
<1> QED  BY <1>1, <1>2, <1>3, <1>5 DEF Types

(* The budget is a number.                                                 *)
LEMMA SumIsTotal ==
  ASSUME NEW S
  PROVE  MapThenSumSet(QtyOf, S) = Total(S)
BY DEF Total, MapThenSumSet, MapThenFoldSet, SumFunctionOnSet, FoldFunctionOnSet, QtyOf

LEMMA FilledNat ==
  ASSUME ProgressTypes, NEW progress \in SUBSET journal
  PROVE  FilledQty(progress) \in Nat
<1>1. IsFiniteSet(progress) /\ \A row \in progress : row.qty \in Nat
  BY FS_Subset DEF ProgressTypes
<1> QED  BY <1>1, SumIsTotal, TotalNat DEF FilledQty

LEMMA BudgetNat ==
  ASSUME ProgressTypes, NEW progress \in SUBSET journal, NEW child \in Refs,
         NEW quantity \in Nat
  PROVE  /\ RemainingQty(quantity, progress, child) \in Nat
         /\ child = None /\ RemainingQty(quantity, progress, child) # 0
              => FilledQty(progress) + RemainingQty(quantity, progress, child) = quantity
<1>1. PICK f : f = FilledQty(progress)
  OBVIOUS
<1>2. f \in Nat /\ (child # None => child.qty \in Nat)
  BY <1>1, FilledNat DEF Refs
<1> QED  BY <1>1, <1>2 DEF RemainingQty, Less

LEMMA SettledRef ==
  ASSUME NEW child \in Refs, NEW progress, NEW now
  PROVE  SettleInFlight(child, progress, now) \in {None, child}
BY DEF SettleInFlight

LEMMA SmallerNat ==
  ASSUME NEW i \in Nat, NEW j \in Nat
  PROVE  Smaller(i, j) \in Nat /\ Smaller(i, j) <= i /\ Smaller(i, j) <= j
BY DEF Smaller

LEMMA ShareNat ==
  ASSUME NEW remaining \in Nat, NEW left \in Nat \ {0}
  PROVE  /\ TwapSliceQty(remaining, left) \in Nat
         /\ TwapSliceQty(remaining, left) <= remaining
<1>1. remaining + left - 1 \in Nat
  OBVIOUS
<1>2. PICK n \in Nat : n = remaining + left - 1
  BY <1>1
<1>3. n \div left \in Nat
  OBVIOUS
<1> QED  BY <1>2, <1>3, SmallerNat DEF TwapSliceQty

-----------------------------------------------------------------------------
LEMMA NextOrderTypes ==
  ASSUME Types, NEW h \in Ticks, NEW run, RunTypes(run), NEW claimed \in SUBSET Orders,
         NextOrder(h, run, claimed), UNCHANGED <<journal, routed>>
  PROVE  LoopTypes' /\ evaluating' \subseteq Orders
<1>0. /\ h \in Callbacks /\ DOMAIN loop = Callbacks /\ clock \in Nat
      /\ DOMAIN run = LoopFields
      /\ inFlight \in [Orders -> Refs] /\ pending \subseteq Orders
      /\ \A i \in DOMAIN routed : routed[i] \in Orders
  BY ElementOfSeq, LenProperties
     DEF Types, ProgressTypes, MapTypes, LoopTypes, RunTypes, Callbacks
<1>1. ASSUME NEW next, RunTypes(next), loop' = [loop EXCEPT ![h] = next]
      PROVE  LoopTypes'
  <2>1. DOMAIN loop' = Callbacks /\ \A k \in Callbacks : RunTypes(loop'[k])
    BY <1>0, <1>1 DEF Types, LoopTypes
  <2> QED  BY <2>1 DEF LoopTypes, RunTypes
<1>2. RunTypes(Idle)
  BY DEF RunTypes, Idle, LoopFields, Phases, Refs
<1>3. CASE evaluating' = claimed /\ loop' = [loop EXCEPT ![h] = Idle]
  BY <1>1, <1>2, <1>3
<1>4. ASSUME NEW i \in Ahead(run), evaluating' = claimed \cup {routed[i]},
             loop' = [loop EXCEPT ![h] =
                        [run EXCEPT !.phase = "reading", !.at = i, !.started = clock,
                                    !.child = Held(run, routed[i]), !.progress = None]]
      PROVE  LoopTypes' /\ evaluating' \subseteq Orders
  <2> DEFINE c == Held(run, routed[i])
             r1 == [run EXCEPT !.phase = "reading"]
             r2 == [r1 EXCEPT !.at = i]
             r3 == [r2 EXCEPT !.started = clock]
             r4 == [r3 EXCEPT !.child = c]
             r5 == [r4 EXCEPT !.progress = None]
  <2>1. c \in Refs /\ i \in DOMAIN routed
    BY <1>0 DEF Held, Ahead, RunTypes
  <2>2. loop' = [loop EXCEPT ![h] = r5]
    BY <1>4
  <2>3. DOMAIN r2 = LoopFields /\ r2.phase = "reading" /\ r2.at = i /\ r2.copy = run.copy
    BY <1>0 DEF LoopFields
  <2> HIDE DEF r2, c
  <2>4. /\ DOMAIN r4 = LoopFields /\ r4.phase = "reading" /\ r4.at = i /\ r4.copy = run.copy
        /\ r4.started = clock /\ r4.child = c
    BY <2>3 DEF LoopFields
  <2> HIDE DEF r4
  <2>5. /\ DOMAIN r5 = LoopFields /\ r5.phase = "reading" /\ r5.at = i /\ r5.copy = run.copy
        /\ r5.started = clock /\ r5.child = c /\ r5.progress = None
    BY <2>4 DEF LoopFields
  <2> HIDE DEF r5
  <2>6. RunTypes(r5)
    BY <1>0, <2>1, <2>5 DEF RunTypes, Phases
  <2> QED  BY <1>0, <1>1, <1>4, <2>1, <2>2, <2>6
<1> QED  BY <1>3, <1>4 DEF NextOrder

(* What a step of the slicer leaves alone keeps its types.                 *)
LEMMA OthersTyped ==
  ASSUME Types, UNCHANGED journal
  PROVE  /\ UNCHANGED twap => TwapTypes'
         /\ UNCHANGED <<clock, sent, givenUp, sending, bus, executed>> => ProgressTypes'
<1>1. UNCHANGED twap => TwapTypes'
  BY DEF Types, TwapTypes, TwapRun
<1>2. UNCHANGED <<clock, sent, givenUp, sending, bus, executed>> => ProgressTypes'
  BY DEF Types, ProgressTypes, Messages
<1> QED  BY <1>1, <1>2

LEMMA TickOrder ==
  ASSUME Types, NEW h \in Callbacks, loop[h].phase # "idle"
  PROVE  /\ RunTypes(loop[h]) /\ loop[h].at \in DOMAIN routed
         /\ Order(loop[h]) \in Orders
BY ElementOfSeq, LenProperties DEF Types, LoopTypes, RunTypes, MapTypes, Order

LEMMA RoutedTypes ==
  ASSUME Types, NEW o \in Orders, RoutedOrder(o), UNCHANGED <<twap, executed>>
  PROVE  Types'
<1> USE DEF RoutedOrder, progressVars
<1>1. /\ routed' \in Seq(Orders) /\ DOMAIN routed \subseteq DOMAIN routed'
  BY AppendProperties, LenProperties DEF Types, MapTypes
<1>2. MapTypes'
  <2>1. clock + Lifetime \in Nat
    BY SlicerAssumption DEF Types, ProgressTypes
  <2> QED  BY <1>1, <2>1 DEF Types, MapTypes
<1>3. LoopTypes'
  BY <1>1 DEF Types, LoopTypes, RunTypes
<1> QED  BY <1>2, <1>3, OthersTyped DEF Types

LEMMA OnTickTypes ==
  ASSUME Types, NEW h \in Ticks, OnTick(h), UNCHANGED <<twap, executed>>
  PROVE  Types'
<1> USE DEF OnTick, progressVars
<1>1. PICK triggered \in SUBSET Orders :
        NextOrder(h, [Idle EXCEPT !.now = clock, !.triggered = triggered,
                                  !.copy = IF CopiesMap THEN [o \in pending |-> inFlight[o]]
                                           ELSE <<>>], evaluating)
  OBVIOUS
<1> DEFINE copy == IF CopiesMap THEN [o \in pending |-> inFlight[o]] ELSE <<>>
           run == [Idle EXCEPT !.now = clock, !.triggered = triggered, !.copy = copy]
<1>2. \A o \in DOMAIN copy : copy[o] \in Refs
  <2>1. \A o \in pending : inFlight[o] \in Refs
    BY DEF Types, MapTypes
  <2> QED  BY <2>1
<1>3. NextOrder(h, run, evaluating)
  BY <1>1
<1> HIDE DEF copy
<1>4. RunTypes(run)
  BY <1>2 DEF RunTypes, Idle, LoopFields, Phases, Refs
<1> HIDE DEF run
<1>5. LoopTypes' /\ evaluating' \subseteq Orders
  BY <1>3, <1>4, NextOrderTypes DEF Types, MapTypes
<1>6. MapTypes'
  BY <1>5 DEF Types, MapTypes
<1> QED  BY <1>5, <1>6, OthersTyped DEF Types

LEMMA AnswerTypes ==
  ASSUME Types, NEW h \in Callbacks, Answer(h), UNCHANGED <<twap, executed>>
  PROVE  Types'
<1> USE DEF Answer, progressVars
<1>1. PICK run, progress :
        /\ run = loop[h] /\ progress \in Answers(Order(loop[h]))
        /\ loop' = [loop EXCEPT ![h].phase = "answered", ![h].progress = progress]
  OBVIOUS
<1>2. RunTypes(run) /\ run.at \in DOMAIN routed /\ DOMAIN loop = Callbacks
  BY <1>1, TickOrder DEF Types, LoopTypes
<1>3. progress \in {None} \cup SUBSET journal
  BY <1>1 DEF Answers, Rows
<1> DEFINE l1 == [loop EXCEPT ![h].phase = "answered"]
           l2 == [l1 EXCEPT ![h].progress = progress]
<1>4. /\ DOMAIN l1 = Callbacks /\ \A k \in Callbacks \ {h} : l1[k] = loop[k]
      /\ DOMAIN l1[h] = LoopFields /\ l1[h].phase = "answered" /\ l1[h].at = run.at
      /\ l1[h].child = run.child /\ l1[h].started = run.started /\ l1[h].copy = run.copy
  BY <1>1, <1>2 DEF RunTypes, LoopFields
<1>5. loop' = l2
  BY <1>1
<1> HIDE DEF l1
<1>6. /\ DOMAIN l2 = Callbacks /\ \A k \in Callbacks \ {h} : l2[k] = loop[k]
      /\ DOMAIN l2[h] = LoopFields /\ l2[h].phase = "answered" /\ l2[h].at = run.at
      /\ l2[h].child = run.child /\ l2[h].started = run.started /\ l2[h].copy = run.copy
      /\ l2[h].progress = progress
  BY <1>4 DEF LoopFields
<1> HIDE DEF l2
<1>7. LoopTypes'
  <2>1. RunTypes(l2[h])
    BY <1>2, <1>3, <1>6 DEF RunTypes, Phases
  <2>2. \A k \in Callbacks : RunTypes(l2[k])
    BY <1>6, <2>1 DEF Types, LoopTypes
  <2> QED  BY <1>5, <1>6, <2>2 DEF LoopTypes, RunTypes
<1>8. MapTypes'
  BY DEF Types, MapTypes
<1> QED  BY <1>7, <1>8, OthersTyped DEF Types

LEMMA SetInFlightTypes ==
  ASSUME MapTypes, NEW o \in Orders, NEW c \in Refs, SetInFlight(o, c)
  PROVE  inFlight' \in [Orders -> Refs] /\ UNCHANGED pending
BY DEF SetInFlight, MapTypes

LEMMA SendTypes ==
  ASSUME Messages, NEW m, Send(m), UNCHANGED bus,
         m.order \in AllOrders, m.slice \in Nat, m.qty \in Nat
  PROVE  Messages'
BY DEF Messages, Send

LEMMA EvaluateTypes ==
  ASSUME Types, NEW h \in Ticks, Evaluate(h), UNCHANGED <<twap, executed>>
  PROVE  Types'
<1>1. PICK o, run : o = Order(loop[h]) /\ run = loop[h]
  OBVIOUS
<1>2. /\ h \in Callbacks /\ o \in Orders /\ RunTypes(run) /\ run.at \in DOMAIN routed
      /\ run.phase = "answered" /\ DOMAIN loop = Callbacks
      /\ UNCHANGED <<routed, expiresAt, outcome, clock, journal, bus>>
      /\ evaluating \ {o} \in SUBSET Orders
  <2>1. h \in Callbacks /\ loop[h].phase = "answered"
    BY DEF Callbacks, Evaluate
  <2> QED  BY <1>1, <2>1, TickOrder DEF Evaluate, Types, LoopTypes, MapTypes
<1>3. CASE run.progress = None
  <2>1. /\ NextOrder(h, run, evaluating \ {o})
        /\ UNCHANGED <<inFlight, pending, children, sent, givenUp, sending>>
    BY <1>1, <1>3 DEF Evaluate
  <2>2. LoopTypes' /\ evaluating' \subseteq Orders
    BY <1>2, <2>1, NextOrderTypes
  <2>3. MapTypes'
    BY <1>2, <2>1, <2>2 DEF Types, MapTypes
  <2> QED  BY <1>2, <2>1, <2>2, <2>3, OthersTyped DEF Types
<1>4. CASE run.progress # None
  <2>1. PICK settled, remaining :
          /\ settled = SettleInFlight(run.child, run.progress, run.started)
          /\ remaining = RemainingQty(Qty[o], run.progress, settled)
    OBVIOUS
  <2>2. settled \in Refs /\ remaining \in Nat
    <3>1. settled \in Refs /\ run.progress \in SUBSET journal
      BY <1>2, <1>4, <2>1, SettledRef DEF RunTypes, Refs
    <3>2. Qty[o] \in Nat
      BY <1>2, SlicerAssumption
    <3> QED  BY <2>1, <3>1, <3>2, BudgetNat DEF Types
  <2>3. /\ SetInFlight(o, settled)
        /\ givenUp' = givenUp \cup GivenUpBy(o, run.child, run.progress, run.started)
        /\ \/ NextOrder(h, run, evaluating \ {o}) /\ UNCHANGED <<children, sent, sending>>
           \/ \E cap \in SliceCaps : SendChild(h, run, o, Smaller(cap, remaining))
    BY <1>1, <1>4, <2>1 DEF Evaluate
  <2>4. inFlight' \in [Orders -> Refs] /\ UNCHANGED pending
    BY <1>2, <2>2, <2>3, SetInFlightTypes DEF Types
  <2>5. givenUp' \subseteq [order : AllOrders, slice : Nat]
    BY <1>2, <2>3 DEF GivenUpBy, RunTypes, Refs, AllOrders, Types, ProgressTypes
  <2>6. CASE NextOrder(h, run, evaluating \ {o}) /\ UNCHANGED <<children, sent, sending>>
    <3>1. LoopTypes' /\ evaluating' \subseteq Orders
      BY <1>2, <2>6, NextOrderTypes
    <3>2. MapTypes'
      BY <1>2, <2>4, <2>6, <3>1 DEF Types, MapTypes
    <3>3. ProgressTypes'
      BY <1>2, <2>5, <2>6 DEF Types, ProgressTypes, Messages
    <3> QED  BY <1>2, <3>1, <3>2, <3>3, OthersTyped DEF Types
  <2>7. ASSUME NEW cap \in SliceCaps, SendChild(h, run, o, Smaller(cap, remaining))
        PROVE  Types'
    <3>1. PICK qty : qty = Smaller(cap, remaining) /\ qty \in Nat
      BY <2>2, SmallerNat, SettleAssumption
    <3>2. PICK child : child = InFlight(children[o] + 1, qty, run.started)
      OBVIOUS
    <3>3. /\ Send(Child(o, child, h))
          /\ children' = [children EXCEPT ![o] = @ + 1] /\ UNCHANGED evaluating
          /\ sent' = sent \cup {[order |-> o, slice |-> child.slice, sentAt |-> child.sentAt]}
          /\ loop' = [loop EXCEPT ![h] = [run EXCEPT !.phase = "sending", !.child = child,
                                                     !.progress = None]]
      BY <2>7, <3>1, <3>2 DEF SendChild
    <3>4. /\ child \in Refs /\ child.slice \in Nat /\ child.sentAt \in Nat
          /\ child.qty = qty /\ o \in AllOrders
      <4>1. children[o] + 1 \in Nat /\ run.started \in Nat
        BY <1>2 DEF Types, MapTypes, RunTypes
      <4> QED  BY <1>2, <3>1, <3>2, <4>1 DEF InFlight, Refs, AllOrders
    <3>5. LoopTypes'
      <4> DEFINE r1 == [run EXCEPT !.phase = "sending"]
                 r2 == [r1 EXCEPT !.child = child]
                 r3 == [r2 EXCEPT !.progress = None]
      <4>1. loop' = [loop EXCEPT ![h] = r3]
        BY <3>3
      <4>2. /\ DOMAIN r2 = LoopFields /\ r2.phase = "sending" /\ r2.child = child
            /\ r2.at = run.at /\ r2.started = run.started /\ r2.copy = run.copy
        BY <1>2 DEF RunTypes, LoopFields
      <4> HIDE DEF r2
      <4>3. /\ DOMAIN r3 = LoopFields /\ r3.phase = "sending" /\ r3.child = child
            /\ r3.at = run.at /\ r3.started = run.started /\ r3.copy = run.copy
            /\ r3.progress = None
        BY <4>2 DEF LoopFields
      <4> HIDE DEF r3
      <4>4. RunTypes(r3)
        BY <1>2, <3>4, <4>3 DEF RunTypes, Phases
      <4>5. DOMAIN loop' = Callbacks /\ \A k \in Callbacks : RunTypes(loop'[k])
        BY <1>2, <4>1, <4>4 DEF Types, LoopTypes
      <4> QED  BY <1>2, <4>5 DEF LoopTypes, RunTypes
    <3>6. MapTypes'
      <4>1. children' \in [Orders -> Nat]
        BY <1>2, <3>3 DEF Types, MapTypes
      <4> QED  BY <1>2, <2>4, <3>3, <4>1 DEF Types, MapTypes
    <3>7. Messages'
      <4>1. PICK m : m = Child(o, child, h)
        OBVIOUS
      <4>2. m.order = o /\ m.slice = child.slice /\ m.qty = qty
        BY <3>4, <4>1 DEF Child
      <4> QED  BY <1>2, <3>1, <3>3, <3>4, <4>1, <4>2, SendTypes DEF Types, ProgressTypes
    <3>8. ProgressTypes'
      <4>1. sent' \subseteq [order : AllOrders, slice : Nat, sentAt : Nat]
        BY <3>3, <3>4 DEF Types, ProgressTypes
      <4> QED  BY <1>2, <2>5, <3>7, <4>1 DEF Types, ProgressTypes
    <3> QED  BY <1>2, <3>5, <3>6, <3>8, OthersTyped DEF Types
  <2> QED  BY <2>3, <2>6, <2>7
<1> QED  BY <1>3, <1>4

LEMMA AfterSendTypes ==
  ASSUME Types, NEW h \in Ticks, AfterSend(h), UNCHANGED <<twap, executed>>
  PROVE  Types'
<1>1. PICK o, run : o = Order(loop[h]) /\ run = loop[h]
  OBVIOUS
<1>2. /\ h \in Callbacks /\ o \in Orders /\ RunTypes(run)
      /\ SetInFlight(o, run.child) /\ NextOrder(h, run, evaluating \ {o})
      /\ UNCHANGED <<routed, expiresAt, children, outcome, clock, journal, sent, givenUp,
                     sending, bus>>
      /\ evaluating \ {o} \in SUBSET Orders
  <2>1. h \in Callbacks /\ loop[h].phase = "sending"
    BY DEF Callbacks, AfterSend
  <2> QED  BY <1>1, <2>1, TickOrder DEF AfterSend, progressVars, Types, MapTypes
<1>3. inFlight' \in [Orders -> Refs] /\ UNCHANGED pending
  <2>1. run.child \in Refs
    BY <1>2 DEF RunTypes
  <2> QED  BY <1>2, <2>1, SetInFlightTypes DEF Types
<1>4. LoopTypes' /\ evaluating' \subseteq Orders
  BY <1>2, NextOrderTypes
<1>5. MapTypes'
  BY <1>2, <1>3, <1>4 DEF Types, MapTypes
<1> QED  BY <1>2, <1>4, <1>5, OthersTyped DEF Types

(* The sweep asks the journal about the next order, or is idle.            *)
LEMMA NextSweptTypes ==
  ASSUME Types, NEW run, RunTypes(run), NextSwept(run), UNCHANGED <<journal, routed>>
  PROVE  LoopTypes'
<1> DEFINE left == {i \in DOMAIN routed : i > run.at /\ routed[i] \in run.triggered}
<1>1. /\ Sweep \in Callbacks /\ DOMAIN loop = Callbacks /\ clock \in Nat
      /\ DOMAIN routed \subseteq Nat /\ DOMAIN run = LoopFields
  BY LenProperties DEF Types, ProgressTypes, MapTypes, LoopTypes, RunTypes, Callbacks
<1>2. ASSUME NEW next, RunTypes(next), loop' = [loop EXCEPT ![Sweep] = next]
      PROVE  LoopTypes'
  <2>1. DOMAIN loop' = Callbacks /\ \A k \in Callbacks : RunTypes(loop'[k])
    BY <1>1, <1>2 DEF Types, LoopTypes
  <2> QED  BY <2>1 DEF LoopTypes, RunTypes
<1>3. CASE left = {}
  <2>1. loop' = [loop EXCEPT ![Sweep] = Idle]
    BY <1>3 DEF NextSwept
  <2>2. RunTypes(Idle)
    BY DEF RunTypes, Idle, LoopFields, Phases, Refs
  <2> QED  BY <1>2, <2>1, <2>2
<1>4. CASE left # {}
  <2>1. PICK i \in left : i = Min(left)
    <3>1. PICK m \in left : \A n \in left : m <= n
      BY <1>1, <1>4, LeastNat
    <3> QED  BY <3>1 DEF Min
  <2> DEFINE r1 == [run EXCEPT !.phase = "reading"]
             r2 == [r1 EXCEPT !.at = i]
             r3 == [r2 EXCEPT !.started = clock]
             r4 == [r3 EXCEPT !.progress = None]
  <2>2. loop' = [loop EXCEPT ![Sweep] = r4]
    BY <1>4, <2>1 DEF NextSwept
  <2>3. /\ DOMAIN r2 = LoopFields /\ r2.phase = "reading" /\ r2.at = i
        /\ r2.copy = run.copy /\ r2.child = run.child
    BY <1>1 DEF LoopFields
  <2> HIDE DEF r2
  <2>4. /\ DOMAIN r4 = LoopFields /\ r4.phase = "reading" /\ r4.at = i /\ r4.progress = None
        /\ r4.started = clock /\ r4.copy = run.copy /\ r4.child = run.child
    BY <2>3 DEF LoopFields
  <2> HIDE DEF r4
  <2>5. RunTypes(r4)
    BY <1>1, <2>1, <2>4 DEF RunTypes, Phases
  <2> QED  BY <1>2, <2>2, <2>5
<1> QED  BY <1>3, <1>4

LEMMA SweepTypes ==
  ASSUME Types, StartSweep \/ SweepOrder \/ AfterOutcome, UNCHANGED <<twap, executed>>
  PROVE  Types'
<1> USE DEF progressVars
<1>1. /\ Sweep \in Callbacks /\ RunTypes(loop[Sweep]) /\ DOMAIN loop = Callbacks
      /\ UNCHANGED <<routed, expiresAt, inFlight, evaluating, children,
                     clock, journal, sent, givenUp, bus>>
  BY DEF Types, LoopTypes, Callbacks, StartSweep, SweepOrder, AfterOutcome
<1>2. ASSUME NEW run, RunTypes(run), NextSwept(run), UNCHANGED <<pending, outcome, sending>>
      PROVE  Types'
  <2>1. LoopTypes'
    BY <1>1, <1>2, NextSweptTypes
  <2>2. MapTypes'
    BY <1>1, <1>2 DEF Types, MapTypes
  <2> QED  BY <1>1, <1>2, <2>1, <2>2, OthersTyped DEF Types
<1>3. CASE StartSweep
  <2> DEFINE run == [Idle EXCEPT !.triggered = pending]
  <2>1. RunTypes(run)
    BY DEF RunTypes, Idle, LoopFields, Phases, Refs
  <2>2. NextSwept(run) /\ UNCHANGED <<pending, outcome, sending>>
    BY <1>3 DEF StartSweep
  <2> HIDE DEF run
  <2> QED  BY <1>2, <2>1, <2>2
<1>4. CASE AfterOutcome
  BY <1>1, <1>2, <1>4 DEF AfterOutcome
<1>5. CASE SweepOrder
  <2>1. PICK o, run : o = Order(loop[Sweep]) /\ run = loop[Sweep]
    OBVIOUS
  <2>2. o \in Orders /\ run.phase = "answered" /\ run.at \in DOMAIN routed
    BY <1>1, <1>5, <2>1, TickOrder DEF SweepOrder
  <2>3. PICK found \in {"working", "complete", "expired"} :
          \/ NextSwept(run) /\ UNCHANGED <<pending, outcome, sending>>
          \/ /\ pending' = pending \ {o}
             /\ outcome' = [outcome EXCEPT ![o] = found]
             /\ Send(Outcome(IF found = "complete" THEN "algo.heartbeat" ELSE "orders.expired",
                             o, Sweep))
             /\ loop' = [loop EXCEPT ![Sweep].phase = "sending", ![Sweep].progress = None]
    <3>1. ClassifyOrder(Qty[o], expiresAt[o], run.progress, run.started)
            \in {"working", "complete", "expired"}
      BY DEF ClassifyOrder
    <3> QED  BY <1>5, <2>1, <3>1 DEF SweepOrder
  <2>4. CASE NextSwept(run) /\ UNCHANGED <<pending, outcome, sending>>
    BY <1>1, <1>2, <2>1, <2>4
  <2>5. CASE /\ pending' = pending \ {o}
             /\ outcome' = [outcome EXCEPT ![o] = found]
             /\ Send(Outcome(IF found = "complete" THEN "algo.heartbeat" ELSE "orders.expired",
                             o, Sweep))
             /\ loop' = [loop EXCEPT ![Sweep].phase = "sending", ![Sweep].progress = None]
    <3>1. MapTypes'
      BY <1>1, <2>2, <2>5 DEF Types, MapTypes
    <3>2. Messages'
      <4>1. PICK m : m = Outcome(IF found = "complete" THEN "algo.heartbeat"
                                 ELSE "orders.expired", o, Sweep)
        OBVIOUS
      <4>2. m.order \in AllOrders /\ m.slice \in Nat /\ m.qty \in Nat /\ Send(m)
        BY <2>2, <2>5, <4>1 DEF Outcome, AllOrders
      <4> QED  BY <1>1, <4>2, SendTypes DEF Types, ProgressTypes
    <3>3. ProgressTypes'
      BY <1>1, <3>2 DEF Types, ProgressTypes
    <3> DEFINE l1 == [loop EXCEPT ![Sweep].phase = "sending"]
               l2 == [l1 EXCEPT ![Sweep].progress = None]
    <3>4. loop' = l2
      BY <2>5
    <3>5. /\ DOMAIN l1 = Callbacks /\ \A k \in Callbacks \ {Sweep} : l1[k] = loop[k]
          /\ DOMAIN l1[Sweep] = LoopFields /\ l1[Sweep].phase = "sending"
          /\ l1[Sweep].at = run.at /\ l1[Sweep].started = run.started
          /\ l1[Sweep].copy = run.copy /\ l1[Sweep].child = run.child
      BY <1>1, <2>1 DEF LoopFields, RunTypes
    <3> HIDE DEF l1
    <3>6. /\ DOMAIN l2 = Callbacks /\ \A k \in Callbacks \ {Sweep} : l2[k] = loop[k]
          /\ DOMAIN l2[Sweep] = LoopFields /\ l2[Sweep].phase = "sending"
          /\ l2[Sweep].at = run.at /\ l2[Sweep].started = run.started
          /\ l2[Sweep].copy = run.copy /\ l2[Sweep].child = run.child
          /\ l2[Sweep].progress = None
      BY <1>1, <3>5 DEF LoopFields
    <3> HIDE DEF l2
    <3>7. LoopTypes'
      <4>1. RunTypes(l2[Sweep])
        BY <1>1, <2>1, <2>2, <3>6 DEF RunTypes, Phases
      <4>2. \A k \in Callbacks : RunTypes(l2[k])
        BY <3>6, <4>1 DEF Types, LoopTypes
      <4> QED  BY <1>1, <3>4, <3>6, <4>2 DEF LoopTypes, RunTypes
    <3> QED  BY <1>1, <3>1, <3>3, <3>7, OthersTyped DEF Types
  <2> QED  BY <2>3, <2>4, <2>5
<1> QED  BY <1>3, <1>4, <1>5

-----------------------------------------------------------------------------
LEMMA WaitTyped ==
  ASSUME Types, NEW run, NEW child \in Refs, NEW slices \in 0 .. NumSlices
  PROVE  /\ Wait(run, child, slices) \in TwapRun
         /\ Wait(run, child, slices).phase = "waiting"
              => Wait(run, child, slices).slices < NumSlices
         /\ Wait(run, child, slices).phase \in {"waiting", "settling"}
<1>1. clock + Interval \in Nat /\ clock + SettleTime \in Nat /\ clock \in Nat
  BY TwapAssumption, SettleAssumption DEF Types, ProgressTypes
<1>2. PICK due \in Nat : due = IF slices < NumSlices THEN clock + Interval
                               ELSE IF child = None THEN clock ELSE clock + SettleTime
  BY <1>1
<1>3. PICK phase \in {"waiting", "settling"} :
        phase = IF slices < NumSlices THEN "waiting" ELSE "settling"
  OBVIOUS
<1>4. Wait(run, child, slices)
        = [phase |-> phase, slices |-> slices, child |-> child, due |-> due,
           started |-> 0, progress |-> None, outcome |-> "working"]
  <2>1. Wait(run, child, slices) = [NotStarted EXCEPT !.phase = phase, !.slices = slices,
                                                      !.child = child, !.due = due]
    BY <1>2, <1>3 DEF Wait
  <2> QED  BY <2>1 DEF NotStarted
<1>5. phase = "waiting" => slices < NumSlices
  BY <1>3
<1> QED  BY <1>4, <1>5 DEF TwapRun

LEMMA TwapRuns ==
  ASSUME Types, NEW o \in TwapOrders
  PROVE  /\ twap[o] \in TwapRun
         /\ twap[o].phase \in {"waiting", "reading", "answered", "sending"}
              => twap[o].slices < NumSlices /\ twap[o].slices + 1 \in 0 .. NumSlices
         /\ DOMAIN twap = TwapOrders
<1>1. twap[o] \in TwapRun /\ DOMAIN twap = TwapOrders
  BY DEF Types, TwapTypes
<1>2. twap[o].slices \in 0 .. NumSlices /\ NumSlices \in Nat
  BY <1>1, TwapAssumption DEF TwapRun
<1> QED  BY <1>1, <1>2 DEF Types, TwapTypes

LEMMA GoesTyped ==
  ASSUME Types, NEW o \in TwapOrders, NEW next \in TwapRun, Goes(o, next), UNCHANGED journal,
         next.phase \in {"waiting", "reading", "answered", "sending"} => next.slices < NumSlices
  PROVE  TwapTypes'
<1>1. /\ DOMAIN twap' = TwapOrders /\ twap'[o] = next
      /\ \A p \in TwapOrders \ {o} : twap'[p] = twap[p]
      /\ twap' \in [TwapOrders -> TwapRun]
  BY DEF Goes, Types, TwapTypes
<1>2. TwapRun' = TwapRun
  BY DEF TwapRun
<1> QED  BY <1>1, <1>2 DEF Types, TwapTypes

LEMMA TwapQuietTypes ==
  ASSUME Types, NEW o \in TwapOrders, UNCHANGED <<slicerVars, executed>>,
         TwapRouted(o) \/ TwapRead(o) \/ TwapAnswer(o) \/ TwapSent(o) \/ TwapClose(o)
  PROVE  Types'
<1> USE DEF progressVars
<1>1. PICK run : run = twap[o]
  OBVIOUS
<1>2. /\ run \in TwapRun /\ clock \in Nat /\ UNCHANGED <<clock, journal, sent, givenUp, bus>>
      /\ run.phase \in {"waiting", "reading", "answered", "sending"}
           => run.slices < NumSlices /\ run.slices + 1 \in 0 .. NumSlices
      /\ NumSlices \in Nat \ {0}
  <2>1. UNCHANGED <<clock, journal, sent, givenUp, bus>>
    BY DEF TwapRouted, TwapRead, TwapAnswer, TwapSent, TwapClose
  <2>2. clock \in Nat
    BY DEF Types, ProgressTypes
  <2> QED  BY <1>1, <2>1, <2>2, TwapRuns, TwapAssumption
<1>3. MapTypes' /\ LoopTypes'
  BY <1>2 DEF slicerVars, Types, MapTypes, LoopTypes, RunTypes
<1>4. CASE TwapRouted(o)
  <2>1. PICK next : next = [NotStarted EXCEPT !.phase = "waiting", !.due = clock]
    OBVIOUS
  <2>2. next = [phase |-> "waiting", slices |-> 0, child |-> None, due |-> clock,
                started |-> 0, progress |-> None, outcome |-> "working"]
    BY <2>1 DEF NotStarted
  <2>3. next \in TwapRun /\ next.slices < NumSlices
    BY <1>2, <2>2 DEF TwapRun, Refs
  <2>4. Goes(o, next) /\ UNCHANGED sending
    BY <1>4, <2>1 DEF TwapRouted
  <2> QED  BY <1>2, <1>3, <2>3, <2>4, GoesTyped, OthersTyped DEF Types
<1>5. CASE TwapRead(o)
  <2>1. PICK phase \in {"reading", "closing"} :
          /\ Goes(o, [run EXCEPT !.phase = phase, !.started = clock])
          /\ phase = "reading" => run.phase = "waiting"
    <3>1. PICK phase : phase = IF run.phase = "waiting" THEN "reading" ELSE "closing"
      OBVIOUS
    <3>2. [run EXCEPT !.phase = IF @ = "waiting" THEN "reading" ELSE "closing",
                      !.started = clock] = [run EXCEPT !.phase = phase, !.started = clock]
      BY <3>1
    <3>3. Goes(o, [run EXCEPT !.phase = phase, !.started = clock])
      BY <1>1, <1>5, <3>2 DEF TwapRead
    <3> QED  BY <3>1, <3>3
  <2> DEFINE next == [run EXCEPT !.phase = phase, !.started = clock]
  <2>2. next \in TwapRun /\ next.phase = phase /\ next.slices = run.slices
    BY <1>2 DEF TwapRun
  <2>3. Goes(o, next) /\ UNCHANGED sending
    BY <1>5, <2>1 DEF TwapRead
  <2> HIDE DEF next
  <2> QED  BY <1>2, <1>3, <2>1, <2>2, <2>3, GoesTyped, OthersTyped DEF Types
<1>6. CASE TwapAnswer(o)
  <2>1. PICK progress \in Answers(o) :
          Goes(o, [run EXCEPT !.phase = "answered", !.progress = progress])
    BY <1>1, <1>6 DEF TwapAnswer
  <2> DEFINE next == [run EXCEPT !.phase = "answered", !.progress = progress]
  <2>2. progress \in {None} \cup SUBSET journal
    BY DEF Answers, Rows
  <2>3. next \in TwapRun /\ next.slices = run.slices
    BY <1>2, <2>2 DEF TwapRun
  <2>4. Goes(o, next) /\ UNCHANGED sending /\ run.phase = "reading"
    BY <1>1, <1>6, <2>1 DEF TwapAnswer
  <2> HIDE DEF next
  <2> QED  BY <1>2, <1>3, <2>3, <2>4, GoesTyped, OthersTyped DEF Types
<1>7. CASE TwapSent(o)
  <2>1. PICK next : next = Wait(run, run.child, run.slices + 1)
    OBVIOUS
  <2>2. run.phase = "sending" /\ Goes(o, next) /\ UNCHANGED sending
    BY <1>1, <1>7, <2>1 DEF TwapSent
  <2>3. run.child \in Refs /\ run.slices + 1 \in 0 .. NumSlices
    BY <1>2, <2>2 DEF TwapRun
  <2>4. /\ next \in TwapRun /\ next.phase \in {"waiting", "settling"}
        /\ next.phase = "waiting" => next.slices < NumSlices
    BY <2>1, <2>3, WaitTyped
  <2> QED  BY <1>2, <1>3, <2>2, <2>4, GoesTyped, OthersTyped DEF Types
<1>8. CASE TwapClose(o)
  <2>1. PICK ended \in {"complete", "expired"}, topic \in {"algo.heartbeat", "orders.expired"} :
          /\ Goes(o, [NotStarted EXCEPT !.phase = "done", !.outcome = ended])
          /\ Send(Outcome(topic, o, o))
    BY <1>8 DEF TwapClose
  <2>2. PICK next : next = [NotStarted EXCEPT !.phase = "done", !.outcome = ended]
    OBVIOUS
  <2>3. next = [phase |-> "done", slices |-> 0, child |-> None, due |-> 0,
                started |-> 0, progress |-> None, outcome |-> ended]
    BY <2>2 DEF NotStarted
  <2>4. next \in TwapRun /\ next.phase = "done"
    BY <1>2, <2>3 DEF TwapRun, Refs
  <2>5. TwapTypes'
    BY <1>2, <2>1, <2>2, <2>4, GoesTyped
  <2>6. PICK m : m = Outcome(topic, o, o)
    OBVIOUS
  <2>7. m.order \in AllOrders /\ m.slice \in Nat /\ m.qty \in Nat /\ Send(m)
    BY <2>1, <2>6 DEF Outcome, AllOrders
  <2>8. Messages'
    BY <1>2, <2>7, SendTypes DEF Types, ProgressTypes
  <2>9. ProgressTypes'
    BY <1>2, <2>8 DEF Types, ProgressTypes
  <2> QED  BY <1>3, <2>5, <2>9 DEF Types
<1> QED  BY <1>4, <1>5, <1>6, <1>7, <1>8

LEMMA TwapSliceTypes ==
  ASSUME Types, NEW o \in TwapOrders, UNCHANGED <<slicerVars, executed>>, TwapSlice(o)
  PROVE  Types'
<1>1. PICK run : run = twap[o]
  OBVIOUS
<1>2. /\ run \in TwapRun /\ run.phase = "answered" /\ UNCHANGED <<clock, journal, bus>>
      /\ run.slices < NumSlices /\ run.slices + 1 \in 0 .. NumSlices
      /\ NumSlices \in Nat \ {0} /\ TwapQty[o] \in Nat
  BY <1>1, TwapRuns, TwapAssumption DEF TwapSlice
<1>3. run.child \in Refs /\ run.started \in Nat /\ run.slices \in Nat
  BY <1>2 DEF TwapRun
<1>4. MapTypes' /\ LoopTypes'
  BY <1>2 DEF slicerVars, Types, MapTypes, LoopTypes, RunTypes
<1>5. ASSUME NEW child \in Refs, NEW slices \in 0 .. NumSlices, Goes(o, Wait(run, child, slices))
      PROVE  TwapTypes'
  <2>1. PICK next : next = Wait(run, child, slices)
    OBVIOUS
  <2>2. /\ next \in TwapRun /\ next.phase \in {"waiting", "settling"}
        /\ next.phase = "waiting" => next.slices < NumSlices
    BY <2>1, WaitTyped
  <2> QED  BY <1>2, <1>5, <2>1, <2>2, GoesTyped
<1>6. CASE run.progress = None
  <2>1. /\ Goes(o, Wait(run, run.child, run.slices + 1))
        /\ UNCHANGED <<sending, sent, givenUp>>
    BY <1>1, <1>6 DEF TwapSlice
  <2>2. TwapTypes'
    BY <1>2, <1>3, <1>5, <2>1
  <2> QED  BY <1>2, <1>4, <2>1, <2>2, OthersTyped DEF Types
<1>7. CASE run.progress # None
  <2>1. PICK child, remaining :
          /\ child = SettleInFlight(run.child, run.progress, run.started)
          /\ remaining = RemainingQty(TwapQty[o], run.progress, child)
    OBVIOUS
  <2>2. child \in Refs /\ remaining \in Nat
    <3>1. child \in Refs /\ run.progress \in SUBSET journal
      BY <1>2, <1>3, <1>7, <2>1, SettledRef DEF TwapRun, Refs
    <3> QED  BY <1>2, <2>1, <3>1, BudgetNat DEF Types
  <2>3. /\ givenUp' = givenUp \cup GivenUpBy(o, run.child, run.progress, run.started)
        /\ \/ /\ \E slices \in 0 .. NumSlices : Goes(o, Wait(run, child, slices))
              /\ UNCHANGED <<sending, sent>>
           \/ \E cap \in SliceCaps :
                LET qty == Smaller(cap, TwapSliceQty(remaining, NumSlices - run.slices))
                    next == InFlight(run.slices + 1, qty, run.started)
                IN /\ Send(Child(o, next, o))
                   /\ sent' = sent \cup {[order |-> o, slice |-> run.slices + 1,
                                          sentAt |-> run.started]}
                   /\ Goes(o, [run EXCEPT !.phase = "sending", !.child = next])
    <3>1. NumSlices \in 0 .. NumSlices
      BY <1>2
    <3> QED  BY <1>1, <1>2, <1>7, <2>1, <3>1 DEF TwapSlice
  <2>4. givenUp' \subseteq [order : AllOrders, slice : Nat]
    <3>1. GivenUpBy(o, run.child, run.progress, run.started) \subseteq
            [order : AllOrders, slice : Nat]
      BY <1>3 DEF GivenUpBy, Refs, AllOrders
    <3> QED  BY <2>3, <3>1 DEF Types, ProgressTypes
  <2>5. CASE /\ \E slices \in 0 .. NumSlices : Goes(o, Wait(run, child, slices))
             /\ UNCHANGED <<sending, sent>>
    <3>1. TwapTypes'
      BY <1>5, <2>2, <2>5
    <3>2. ProgressTypes'
      BY <1>2, <2>4, <2>5 DEF Types, ProgressTypes, Messages
    <3> QED  BY <1>4, <3>1, <3>2 DEF Types
  <2>6. ASSUME NEW cap \in SliceCaps, NEW qty, NEW next,
               qty = Smaller(cap, TwapSliceQty(remaining, NumSlices - run.slices)),
               next = InFlight(run.slices + 1, qty, run.started),
               Send(Child(o, next, o)),
               sent' = sent \cup {[order |-> o, slice |-> run.slices + 1,
                                   sentAt |-> run.started]},
               Goes(o, [run EXCEPT !.phase = "sending", !.child = next])
        PROVE  Types'
    <3>1. qty \in Nat
      <4>1. PICK left \in Nat \ {0} : left = NumSlices - run.slices
        BY <1>2, <1>3
      <4>2. TwapSliceQty(remaining, left) \in Nat
        BY <2>2, ShareNat
      <4> QED  BY <2>6, <4>1, <4>2, SmallerNat, SettleAssumption
    <3>2. next \in Refs /\ next.slice = run.slices + 1 /\ next.qty = qty
      BY <1>3, <2>6, <3>1 DEF InFlight, Refs
    <3>3. TwapTypes'
      <4>1. PICK r : r = [run EXCEPT !.phase = "sending", !.child = next]
        OBVIOUS
      <4>2. r \in TwapRun /\ r.slices = run.slices
        BY <1>2, <3>2, <4>1 DEF TwapRun
      <4> QED  BY <1>2, <2>6, <4>1, <4>2, GoesTyped
    <3>4. Messages'
      <4>1. PICK m : m = Child(o, next, o)
        OBVIOUS
      <4>2. m.order \in AllOrders /\ m.slice \in Nat /\ m.qty \in Nat
        BY <1>3, <3>1, <3>2, <4>1 DEF Child, AllOrders
      <4> QED  BY <1>2, <2>6, <4>1, <4>2, SendTypes DEF Types, ProgressTypes
    <3>5. sent' \subseteq [order : AllOrders, slice : Nat, sentAt : Nat]
      BY <1>3, <2>6 DEF Types, ProgressTypes, AllOrders
    <3>6. ProgressTypes'
      BY <1>2, <2>4, <3>4, <3>5 DEF Types, ProgressTypes
    <3> QED  BY <1>4, <3>3, <3>6 DEF Types
  <2> QED  BY <2>3, <2>5, <2>6
<1> QED  BY <1>6, <1>7

-----------------------------------------------------------------------------
LEMMA SlicerSameTypes ==
  ASSUME Types, UNCHANGED <<slicerVars, twap>>, journal \subseteq journal'
  PROVE  MapTypes' /\ LoopTypes' /\ TwapTypes'
<1>1. MapTypes'
  BY DEF slicerVars, Types, MapTypes
<1>2. LoopTypes'
  <2>1. \A run : RunTypes(run) => RunTypes(run)'
    BY DEF RunTypes, slicerVars
  <2>2. \A h \in Callbacks : RunTypes(loop'[h])
    BY DEF Types, LoopTypes, slicerVars
  <2> QED  BY <2>2 DEF Types, LoopTypes, RunTypes, slicerVars
<1>3. TwapTypes'
  <2>1. TwapRun \subseteq TwapRun'
    BY DEF TwapRun
  <2>2. \A o \in TwapOrders : twap[o] \in TwapRun'
    BY <2>1 DEF Types, TwapTypes
  <2> QED  BY <2>2 DEF Types, TwapTypes
<1> QED  BY <1>1, <1>2, <1>3

LEMMA OutsideTypes ==
  ASSUME Types, UNCHANGED <<slicerVars, twap>>,
         \/ \E m \in bus : JournalFill(m) /\ UNCHANGED executed
         \/ \E m \in bus : HandleChildOrder(m) /\ UNCHANGED progressVars
         \/ (Settle \/ Advance) /\ UNCHANGED executed
  PROVE  Types'
<1> USE DEF progressVars
<1>1. ASSUME NEW m \in bus, JournalFill(m), UNCHANGED executed
      PROVE  ProgressTypes' /\ journal \subseteq journal'
  <2>1. PICK row : /\ row = [order |-> m.order, slice |-> m.slice, qty |-> m.qty]
                   /\ journal' = journal \cup {row}
    BY <1>1 DEF JournalFill
  <2>2. row \in [order : AllOrders, slice : Nat, qty : Nat]
    BY <2>1 DEF Types, ProgressTypes, Messages
  <2>3. IsFiniteSet(journal')
    BY <2>1, FS_AddElement DEF Types, ProgressTypes
  <2>4. Messages'
    BY <1>1 DEF Types, ProgressTypes, Messages, JournalFill
  <2> QED  BY <1>1, <2>1, <2>2, <2>3, <2>4 DEF Types, ProgressTypes, JournalFill
<1>2. ASSUME NEW m \in bus, HandleChildOrder(m), UNCHANGED progressVars
      PROVE  ProgressTypes'
  <2>1. m.order \in AllOrders /\ m.slice \in Nat /\ m.qty \in Nat
    BY DEF Types, ProgressTypes, Messages
  <2>2. CASE bus' = bus \ {m} /\ UNCHANGED executed
    BY <1>2, <2>2 DEF Types, ProgressTypes, Messages, HandleChildOrder
  <2>3. ASSUME NEW q \in 1 .. m.qty, bus' = (bus \ {m}) \cup {Fill(m, q)},
               executed' = [executed EXCEPT ![m.order] = @ + q]
        PROVE  ProgressTypes'
    <3>1. PICK f : f = Fill(m, q)
      OBVIOUS
    <3>2. f.order = m.order /\ f.slice = m.slice /\ f.qty \in Nat
      BY <2>1, <3>1 DEF Fill
    <3>3. Messages'
      BY <1>2, <2>1, <2>3, <3>1, <3>2 DEF Types, ProgressTypes, Messages, HandleChildOrder
    <3>4. executed' \in [AllOrders -> Nat]
      BY <2>1, <2>3 DEF Types, ProgressTypes
    <3> QED  BY <1>2, <3>3, <3>4 DEF Types, ProgressTypes
  <2> QED  BY <1>2, <2>2, <2>3 DEF HandleChildOrder
<1>3. ASSUME Settle \/ Advance, UNCHANGED executed
      PROVE  ProgressTypes' /\ journal' = journal
  <2>1. Messages'
    BY <1>3 DEF Types, ProgressTypes, Messages, Settle, Written, Lost, Advance
  <2>2. clock' \in 0 .. MaxClock
    BY <1>3, SettleAssumption DEF Types, ProgressTypes, Settle, Advance
  <2> QED  BY <1>3, <2>1, <2>2 DEF Types, ProgressTypes, Settle, Advance
<1> QED  BY <1>1, <1>2, <1>3, SlicerSameTypes DEF Types

LEMMA NextTypes ==
  ASSUME Types, [Next]_vars
  PROVE  Types'
<1>1. CASE UNCHANGED vars
  <2>1. UNCHANGED <<slicerVars, twap, clock, journal, sent, givenUp, sending, bus, executed>>
    BY <1>1 DEF vars, progressVars
  <2>2. MapTypes' /\ LoopTypes'
    BY <2>1, SlicerSameTypes
  <2> QED  BY <2>1, <2>2, OthersTyped DEF Types
<1>2. CASE Slicing /\ UNCHANGED <<twap, executed>>
  <2>1. Ticks \subseteq Callbacks
    BY DEF Callbacks
  <2> QED  BY <1>2, <2>1, RoutedTypes, OnTickTypes, AnswerTypes, EvaluateTypes, AfterSendTypes,
              SweepTypes DEF Slicing
<1>3. CASE Twapping /\ UNCHANGED <<slicerVars, executed>>
  BY <1>3, TwapQuietTypes, TwapSliceTypes DEF Twapping
<1>4. CASE \E m \in bus : JournalFill(m) /\ UNCHANGED <<slicerVars, twap, executed>>
  BY <1>4, OutsideTypes
<1>5. CASE \E m \in bus : HandleChildOrder(m) /\ UNCHANGED <<progressVars, slicerVars, twap>>
  BY <1>5, OutsideTypes
<1>6. CASE (Settle \/ Advance) /\ UNCHANGED <<slicerVars, twap, executed>>
  BY <1>6, OutsideTypes
<1> QED  BY <1>1, <1>2, <1>3, <1>4, <1>5, <1>6 DEF Next

LEMMA TypesInvariant == Spec => []Types
<1>1. Types /\ [Next]_vars => Types'
  BY NextTypes
<1> QED  BY InitTypes, <1>1, PTL DEF Spec

(* The variables have their types, LIMIT's loop over a copy of its map     *)
(* included: the budget of every slice is a number, and an executeTWAP     *)
(* that sends a slice has not sent its last one.                           *)
THEOREM TypeCorrect == Spec => []TypeOK
BY TypesImply, TypesInvariant, PTL

-----------------------------------------------------------------------------
(* The quantity.  The shares that are out for an order or were executed    *)
(* for it are those of the child messages, fills and journal rows of the   *)
(* order, but for children that were given up.                             *)
Out == {m \in sending \cup bus : m.topic \in {"orders.child", "orders.filled"}}
Items == Out \cup journal
Live(o) == {m \in Items : m.order = o /\ [order |-> o, slice |-> m.slice] \notin givenUp}

(* A child is at one place at a time, and was sent.                        *)
Carried ==
  /\ IsFiniteSet(Out)
  /\ \A m \in Out : ~(m \in sending /\ m \in bus) /\ m \notin journal
  /\ \A m, n \in Items : m.order = n.order /\ m.slice = n.slice => m = n
  /\ \A m \in Items : \E s \in sent : s.order = m.order /\ s.slice = m.slice

(* Children are numbered upwards.                                          *)
LastSlice(run) == IF run.phase = "sending" THEN run.slices + 1 ELSE run.slices

Numbered ==
  /\ \A o \in TwapOrders : twap[o].phase = "idle" => twap[o].slices = 0
  /\ \A s \in sent : s.order \in Orders => s.slice <= children[s.order]
  /\ \A s \in sent : s.order \in TwapOrders /\ twap[s.order].phase # "done"
                        => s.slice <= LastSlice(twap[s.order])

(* Who holds c and the rows P of order o knows what became of every child  *)
(* of it: it is c, or it was given up, or its fill is in P.                *)
Known(o, c, P) ==
  \A s \in sent : s.order = o =>
    \/ c # None /\ s.slice = c.slice
    \/ [order |-> o, slice |-> s.slice] \in givenUp
    \/ IsFilled(s, P)

(* The journal may be ahead of the answer an evaluation works with.        *)
Knows(o, run) ==
  /\ Known(o, run.child, Rows(o))
  /\ run.phase = "answered" /\ run.progress # None => Known(o, run.child, run.progress)

TicksKnow == \A h \in Ticks : Busy(h) => Knows(Order(loop[h]), loop[h])
MapKnows == \A o \in pending \ evaluating : Known(o, inFlight[o], Rows(o))
TwapKnows == \A o \in TwapOrders : twap[o].phase # "done" => Knows(o, twap[o])
Knowledge == TicksKnow /\ MapKnows /\ TwapKnows

Bounded == \A o \in AllOrders : Total(Live(o)) <= OrderQty(o)

Accounting == Carried /\ Numbered /\ Knowledge /\ Bounded

LEMMA InitAccounting == Init => Accounting
<1> SUFFICES ASSUME Init PROVE Accounting
  OBVIOUS
<1> USE DEF Init, ProgressInit, SlicerInit, TwapInit, BusInit
<1>1. Items = {} /\ Out = {} /\ sent = {}
  BY DEF Items, Out
<1>2. Carried /\ Numbered /\ Knowledge
  BY <1>1, FS_EmptySet
     DEF Carried, Numbered, NotStarted, Knowledge, TicksKnow, MapKnows, TwapKnows, Knows, Known
<1>3. Bounded
  <2> SUFFICES ASSUME NEW o \in AllOrders PROVE Total(Live(o)) <= OrderQty(o)
    BY DEF Bounded
  <2>1. Live(o) = {}
    BY <1>1 DEF Live
  <2>2. OrderQty(o) \in Nat
    BY SlicerAssumption, TwapAssumption DEF OrderQty, AllOrders
  <2> QED  BY <2>1, <2>2, TotalEmpty
<1> QED  BY <1>2, <1>3 DEF Accounting

-----------------------------------------------------------------------------
(* Sums of what is live.                                                   *)
LEMMA LiveTypes ==
  ASSUME Types, Carried, NEW o
  PROVE  IsFiniteSet(Live(o)) /\ \A m \in Live(o) : m.qty \in Nat
<1>1. IsFiniteSet(Items)
  BY FS_Union DEF Carried, Items, Types, ProgressTypes
<1>2. \A m \in Items : m.qty \in Nat
  BY DEF Items, Out, Types, ProgressTypes, Messages
<1>3. Live(o) \in SUBSET Items
  BY DEF Live
<1> QED  BY <1>1, <1>2, <1>3, FS_Subset

LEMMA LiveTotal ==
  ASSUME Types, Carried, NEW o, NEW L \in SUBSET Live(o)
  PROVE  /\ IsFiniteSet(L) /\ \A m \in L : m.qty \in Nat
         /\ Total(L) \in Nat /\ Total(Live(o)) \in Nat /\ Total(L) <= Total(Live(o))
<1>1. IsFiniteSet(Live(o)) /\ \A m \in Live(o) : m.qty \in Nat
  BY LiveTypes
<1>2. IsFiniteSet(L) /\ \A m \in L : m.qty \in Nat
  BY <1>1, FS_Subset
<1> QED  BY <1>1, <1>2, TotalNat, TotalSubset

LEMMA QtyNat == \A o \in AllOrders : OrderQty(o) \in Nat
BY SlicerAssumption, TwapAssumption DEF OrderQty, AllOrders

LEMMA BoundedShrinks ==
  ASSUME Types, Carried, Bounded, NEW o \in AllOrders, NEW L \in SUBSET Live(o)
  PROVE  Total(L) <= OrderQty(o)
<1>1. /\ Total(L) \in Nat /\ Total(Live(o)) \in Nat /\ Total(L) <= Total(Live(o))
      /\ OrderQty(o) \in Nat /\ Total(Live(o)) <= OrderQty(o)
  BY LiveTotal, QtyNat DEF Bounded
<1> QED  BY <1>1

LEMMA BoundedGrows ==
  ASSUME Types, Carried, NEW o \in AllOrders, NEW L \in SUBSET Live(o), NEW x, x.qty \in Nat,
         NEW T \in SUBSET (L \cup {x}), Total(L) + x.qty <= OrderQty(o)
  PROVE  Total(T) <= OrderQty(o)
<1>1. IsFiniteSet(L) /\ (\A m \in L : m.qty \in Nat) /\ Total(L) \in Nat /\ OrderQty(o) \in Nat
  BY LiveTotal, QtyNat
<1>2. IsFiniteSet(L \cup {x}) /\ \A m \in L \cup {x} : m.qty \in Nat
  BY <1>1, FS_AddElement
<1>3. Total(T) <= Total(L \cup {x}) /\ Total(T) \in Nat /\ Total(L \cup {x}) \in Nat
  BY <1>2, TotalSubset, TotalNat, FS_Subset
<1>4. Total(L \cup {x}) <= Total(L) + x.qty
  <2>1. CASE x \in L
    <3>1. L \cup {x} = L
      BY <2>1
    <3>2. Total(L \cup {x}) = Total(L)
      BY <3>1, Zenon
    <3> QED  BY <1>1, <3>2
  <2>2. CASE x \notin L
    <3>1. Total(L \cup {x}) = x.qty + Total(L)
      BY <1>1, <1>2, <2>2, TotalAdd
    <3> QED  BY <1>1, <3>1
  <2> QED  BY <2>1, <2>2
<1> QED  BY <1>1, <1>3, <1>4

(* A step that sends no child leaves the shares alone.                     *)
LEMMA NoChildSent ==
  ASSUME Types, Types', Carried, Bounded, UNCHANGED <<sent, journal, bus>>,
         givenUp \subseteq givenUp',
         \/ UNCHANGED sending
         \/ \E m : Send(m) /\ m.topic \notin {"orders.child", "orders.filled"}
  PROVE  Carried' /\ Bounded'
<1>1. Out' = Out /\ \A m \in Out : m \in sending' <=> m \in sending
  BY DEF Out, Send
<1>2. Items' = Items
  BY <1>1 DEF Items
<1>3. Carried'
  BY <1>1, <1>2 DEF Carried
<1>4. Bounded'
  <2> SUFFICES ASSUME NEW o \in AllOrders PROVE Total(Live(o)') <= OrderQty(o)
    BY DEF Bounded, OrderQty
  <2>1. PICK L : L = Live(o)'
    OBVIOUS
  <2>2. L \in SUBSET Live(o)
    BY <1>2, <2>1 DEF Live
  <2> QED  BY <2>1, <2>2, BoundedShrinks
<1> QED  BY <1>3, <1>4

(* A step that sends child m of order o when every child of o was given up *)
(* or has its fill among the rows P.                                       *)
LEMMA ChildSent ==
  ASSUME Types, Types', Carried, Bounded, UNCHANGED <<journal, bus>>,
         givenUp \subseteq givenUp',
         NEW o \in AllOrders, NEW m, NEW P \in SUBSET Rows(o),
         Send(m), m.topic = "orders.child", m.order = o, "topic" \in DOMAIN m,
         \A s \in sent : s.order = o =>
           /\ [order |-> o, slice |-> s.slice] \in givenUp' \/ IsFilled(s, P)
           /\ s.slice # m.slice,
         sent \subseteq sent', \E s \in sent' : s.order = o /\ s.slice = m.slice,
         m.qty \in Nat, FilledQty(P) + m.qty <= OrderQty(o)
  PROVE  Carried' /\ Bounded'
<1>1. Out' = Out \cup {m} /\ m \notin sending /\ sending' = sending \cup {m}
  BY DEF Out, Send
<1>2. Items' = Items \cup {m}
  BY <1>1 DEF Items
<1>3. \A n \in Items : n.order = o => n.slice # m.slice
  BY DEF Carried
<1>4. m \notin journal /\ m \notin Out
  <2>1. m \notin Items
    BY <1>3
  <2> QED  BY <2>1 DEF Items
<1>5. Carried'
  <2>1. IsFiniteSet(Out')
    BY <1>1, FS_AddElement DEF Carried
  <2>2. \A n \in Out' : ~(n \in sending' /\ n \in bus') /\ n \notin journal'
    <3>1. m \notin bus
      BY <1>4 DEF Out
    <3> QED  BY <1>1, <1>4, <3>1 DEF Carried
  <2>3. \A k, n \in Items' : k.order = n.order /\ k.slice = n.slice => k = n
    BY <1>2, <1>3 DEF Carried
  <2>4. \A n \in Items' : \E s \in sent' : s.order = n.order /\ s.slice = n.slice
    BY <1>2 DEF Carried
  <2> QED  BY <2>1, <2>2, <2>3, <2>4 DEF Carried
<1>6. Bounded'
  <2> SUFFICES ASSUME NEW p \in AllOrders PROVE Total(Live(p)') <= OrderQty(p)
    BY DEF Bounded, OrderQty
  <2>1. PICK T : T = Live(p)'
    OBVIOUS
  <2>2. CASE p # o
    <3>1. T \in SUBSET Live(p)
      BY <1>2, <2>1, <2>2 DEF Live
    <3> QED  BY <2>1, <3>1, BoundedShrinks
  <2>3. CASE p = o
    <3>1. PICK L : L = {n \in Live(o) : [order |-> o, slice |-> n.slice] \notin givenUp'}
      OBVIOUS
    <3>2. L \in SUBSET Live(o) /\ T \in SUBSET (L \cup {m})
      BY <1>2, <2>1, <2>3, <3>1 DEF Live
    <3>3. L \in SUBSET P
      <4> SUFFICES ASSUME NEW n \in L PROVE n \in P
        OBVIOUS
      <4>1. n \in Items /\ n.order = o /\ [order |-> o, slice |-> n.slice] \notin givenUp'
        BY <3>1 DEF Live
      <4>2. PICK s \in sent : s.order = o /\ s.slice = n.slice
        BY <4>1 DEF Carried
      <4>3. PICK row \in P : row.slice = n.slice
        BY <4>1, <4>2 DEF IsFilled
      <4>4. row \in Items /\ row.order = o
        BY <4>3 DEF Rows, Items
      <4> QED  BY <4>1, <4>3, <4>4 DEF Carried
    <3>4. Total(L) <= FilledQty(P) /\ Total(L) \in Nat /\ FilledQty(P) \in Nat
      <4>1. P \in SUBSET journal
        BY DEF Rows
      <4>2. IsFiniteSet(P) /\ \A row \in P : row.qty \in Nat
        BY <4>1, FS_Subset DEF Types, ProgressTypes
      <4>3. FilledQty(P) = Total(P)
        BY SumIsTotal DEF FilledQty
      <4> QED  BY <3>2, <3>3, <4>2, <4>3, TotalSubset, TotalNat, FS_Subset
    <3>5. Total(L) + m.qty <= OrderQty(o)
      BY <3>4, QtyNat
    <3> QED  BY <2>1, <2>3, <3>2, <3>5, BoundedGrows
  <2> QED  BY <2>2, <2>3
<1> QED  BY <1>5, <1>6

-----------------------------------------------------------------------------
(* What is known of the children of an order stays known.                  *)
LEMMA KnownKept ==
  ASSUME givenUp \subseteq givenUp', NEW o, \A s \in sent' : s.order = o => s \in sent,
         NEW c, NEW P, NEW Q, P \subseteq Q, Known(o, c, P)
  PROVE  Known(o, c, Q)'
<1> SUFFICES ASSUME NEW s \in sent', s.order = o
             PROVE  \/ c # None /\ s.slice = c.slice
                    \/ [order |-> o, slice |-> s.slice] \in givenUp'
                    \/ IsFilled(s, Q)
  BY DEF Known
<1>1. \/ c # None /\ s.slice = c.slice
      \/ [order |-> o, slice |-> s.slice] \in givenUp
      \/ IsFilled(s, P)
  BY DEF Known
<1>2. IsFilled(s, P) => IsFilled(s, Q)
  BY DEF IsFilled
<1> QED  BY <1>1, <1>2

(* A child settleInFlight lets go is filled, or given up.                  *)
LEMMA SettleKnown ==
  ASSUME NEW o, NEW c, NEW P, NEW now, Known(o, c, P),
         givenUp \subseteq givenUp', GivenUpBy(o, c, P, now) \subseteq givenUp',
         NEW s \in sent, s.order = o, NEW settled, settled = SettleInFlight(c, P, now)
  PROVE  \/ settled # None /\ s.slice = settled.slice
         \/ [order |-> o, slice |-> s.slice] \in givenUp'
         \/ IsFilled(s, P)
<1>1. CASE c # None /\ s.slice = c.slice
  <2>1. CASE IsFilled(c, P)
    BY <1>1, <2>1 DEF IsFilled
  <2>2. CASE ~IsFilled(c, P) /\ settled = None
    BY <1>1, <2>2 DEF GivenUpBy
  <2>3. CASE ~IsFilled(c, P) /\ settled # None
    BY <1>1, <2>3 DEF SettleInFlight
  <2> QED  BY <2>1, <2>2, <2>3
<1>2. CASE ~(c # None /\ s.slice = c.slice)
  BY <1>2 DEF Known
<1> QED  BY <1>1, <1>2

(* The executeTWAPs know what they knew when another order's child is      *)
(* sent, and so do the ticks.                                              *)
LEMMA KnowsKept ==
  ASSUME givenUp \subseteq givenUp', journal \subseteq journal',
         NEW o, \A s \in sent' : s.order = o => s \in sent, NEW run, Knows(o, run)
  PROVE  Knows(o, run)'
<1>1. PICK P, Q : P = Rows(o) /\ Q = Rows(o)' /\ P \subseteq Q
  BY DEF Rows
<1>2. PICK c, R : c = run.child /\ R = run.progress
  OBVIOUS
<1>3. Known(o, c, Q)'
  BY <1>1, <1>2, KnownKept DEF Knows
<1>4. run.phase = "answered" /\ run.progress # None => Known(o, c, R)'
  BY <1>2, KnownKept DEF Knows
<1> QED  BY <1>1, <1>2, <1>3, <1>4 DEF Knows, Known

LEMMA TwapKnowsKept ==
  ASSUME TwapKnows, UNCHANGED <<journal, twap>>, givenUp \subseteq givenUp',
         \A s \in sent' : s.order \in TwapOrders => s \in sent
  PROVE  TwapKnows'
<1> SUFFICES ASSUME NEW o \in TwapOrders, twap'[o].phase # "done" PROVE Knows(o, twap[o])'
  BY DEF TwapKnows
<1>1. PICK run : run = twap[o]
  OBVIOUS
<1>2. Knows(o, run)'
  BY <1>1, KnowsKept DEF TwapKnows
<1> QED  BY <1>1, <1>2 DEF Knows, Known

(* The rest of the slicer, when h has gone on to its next order.           *)
LEMMA NextOrderKnows ==
  ASSUME IInv, ~CopiesMap, TicksKnow,
         NEW h \in Ticks, NEW run, NEW claimed \in SUBSET evaluating,
         NextOrder(h, run, claimed), DOMAIN run = LoopFields,
         UNCHANGED <<journal, sent, routed, pending>>, givenUp \subseteq givenUp',
         \A i \in DOMAIN routed : i > run.at => inFlight'[routed[i]] = inFlight[routed[i]],
         \A p \in pending \ claimed : Known(p, inFlight[p], Rows(p))'
  PROVE  TicksKnow' /\ MapKnows'
<1>1. PICK next :
        /\ loop'[h] = next
        /\ \/ next = Idle /\ evaluating' = claimed
           \/ /\ next.phase = "reading" /\ next.at \in DOMAIN routed
              /\ routed[next.at] \in pending \ claimed
              /\ evaluating' = claimed \cup {routed[next.at]}
              /\ next.child = inFlight'[routed[next.at]]
  BY NextOrderStep
<1>2. /\ DOMAIN loop = Callbacks /\ h \in Callbacks /\ Ticks \subseteq Callbacks
      /\ \A k \in Callbacks : k # h => loop'[k] = loop[k]
  BY NextOrderStep
<1>3. MapKnows'
  <2> SUFFICES ASSUME NEW p \in pending' \ evaluating' PROVE Known(p, inFlight[p], Rows(p))'
    BY DEF MapKnows
  <2>1. p \in pending \ claimed
    BY <1>1
  <2> QED  BY <2>1
<1>4. TicksKnow'
  <2> SUFFICES ASSUME NEW k \in Ticks, Busy(k)' PROVE Knows(Order(loop[k]), loop[k])'
    BY DEF TicksKnow
  <2>1. PICK p, r : p = Order(loop[k])' /\ r = loop'[k]
    OBVIOUS
  <2>2. CASE k = h
    <3>1. /\ r.phase = "reading" /\ p \in pending \ claimed /\ r.child = inFlight'[p]
      BY <1>1, <2>1, <2>2 DEF Busy, Idle, Order
    <3>2. Known(p, inFlight[p], Rows(p))'
      BY <3>1
    <3>3. Known(p, r.child, Rows(p))'
      BY <3>1, <3>2 DEF Known
    <3> QED  BY <2>1, <3>1, <3>3 DEF Knows, Known, Rows
  <2>3. CASE k # h
    <3>1. r = loop[k] /\ Busy(k) /\ p = Order(loop[k])
      BY <1>2, <2>1, <2>3 DEF Busy, Order
    <3>2. Knows(p, r)'
      BY <3>1, KnowsKept DEF TicksKnow
    <3> QED  BY <2>1, <3>2 DEF Knows, Known, Rows
  <2> QED  BY <2>2, <2>3
<1> QED  BY <1>3, <1>4

(* The loops of the ticks stand still, and no order comes into the map.    *)
LEMMA TicksStand ==
  ASSUME TicksKnow, MapKnows, UNCHANGED <<routed, inFlight, evaluating>>, pending' \subseteq pending,
         journal \subseteq journal', givenUp \subseteq givenUp',
         \A k \in Ticks : loop'[k] = loop[k],
         \A s \in sent' : s.order \in Orders => s \in sent,
         \A k \in Ticks : Busy(k) => Order(loop[k]) \in Orders,
         pending \subseteq Orders
  PROVE  TicksKnow' /\ MapKnows'
<1>1. TicksKnow'
  <2> SUFFICES ASSUME NEW k \in Ticks, Busy(k)' PROVE Knows(Order(loop[k]), loop[k])'
    BY DEF TicksKnow
  <2>1. PICK p, r : p = Order(loop[k]) /\ r = loop[k]
    OBVIOUS
  <2>2. Busy(k) /\ Order(loop[k])' = p /\ loop'[k] = r /\ p \in Orders
    BY <2>1 DEF Busy, Order
  <2>3. Knows(p, r)'
    BY <2>1, <2>2, KnowsKept DEF TicksKnow
  <2> QED  BY <2>2, <2>3 DEF Knows, Known, Rows
<1>2. MapKnows'
  <2> SUFFICES ASSUME NEW p \in pending \ evaluating PROVE Known(p, inFlight[p], Rows(p))'
    BY DEF MapKnows
  <2>1. PICK c, P, Q : c = inFlight[p] /\ P = Rows(p) /\ Q = Rows(p)' /\ P \subseteq Q
    BY DEF Rows
  <2>2. Known(p, c, Q)'
    BY <2>1, KnownKept DEF MapKnows
  <2> QED  BY <2>1, <2>2 DEF Known
<1> QED  BY <1>1, <1>2

-----------------------------------------------------------------------------
(* The steps of the slicer that send no child.                             *)
LEMMA SlicerQuiet ==
  ASSUME Types, Types', Accounting, UNCHANGED <<sent, journal, bus, children, twap>>,
         givenUp \subseteq givenUp',
         \/ UNCHANGED sending
         \/ \E m : Send(m) /\ m.topic \notin {"orders.child", "orders.filled"},
         TicksKnow' /\ MapKnows'
  PROVE  Accounting'
<1>1. Carried' /\ Bounded'
  BY NoChildSent DEF Accounting
<1>2. Numbered'
  BY DEF Accounting, Numbered, LastSlice
<1>3. TwapKnows'
  BY TwapKnowsKept DEF Accounting, Knowledge
<1> QED  BY <1>1, <1>2, <1>3 DEF Accounting, Knowledge

LEMMA TickOrders ==
  ASSUME Types, NEW k \in Ticks, Busy(k)
  PROVE  Order(loop[k]) \in Orders /\ k \in Callbacks
BY TickOrder DEF Busy, Callbacks

LEMMA RoutedAccounts ==
  ASSUME IInv, Types, Types', Accounting, NEW o \in Orders, RoutedOrder(o), UNCHANGED twap
  PROVE  Accounting'
<1> USE DEF RoutedOrder, progressVars
<1>1. /\ DOMAIN routed \subseteq Nat /\ routed \in Seq(Orders)
      /\ \A i \in DOMAIN routed : routed'[i] = routed[i]
      /\ o \notin RoutedOrders /\ \A s \in sent : s.order # o
  <2>1. o \notin RoutedOrders
    BY DEF RoutedOrders
  <2>2. \A s \in sent : s.order # o
    BY <2>1 DEF IInv, Routing
  <2> QED  BY <2>1, <2>2, AppendProperties, LenProperties DEF Types, MapTypes
<1>2. TicksKnow'
  <2> SUFFICES ASSUME NEW k \in Ticks, Busy(k)' PROVE Knows(Order(loop[k]), loop[k])'
    BY DEF TicksKnow
  <2>1. Busy(k) /\ loop[k].at \in DOMAIN routed
    BY TickOrder DEF Busy, Callbacks
  <2>2. PICK p, r : p = Order(loop[k]) /\ r = loop[k]
    OBVIOUS
  <2>3. Order(loop[k])' = p /\ loop'[k] = r
    BY <1>1, <2>1, <2>2 DEF Order
  <2>4. Knows(p, r)'
    BY <2>1, <2>2, KnowsKept DEF Accounting, Knowledge, TicksKnow
  <2> QED  BY <2>3, <2>4 DEF Knows, Known, Rows
<1>3. MapKnows'
  <2> SUFFICES ASSUME NEW p \in pending' \ evaluating PROVE Known(p, inFlight[p], Rows(p))'
    BY DEF MapKnows
  <2>1. PICK c, P : c = inFlight[p] /\ P = Rows(p)
    OBVIOUS
  <2>2. Known(p, c, P)
    <3>1. CASE p = o
      BY <1>1, <3>1 DEF Known
    <3>2. CASE p # o
      BY <2>1, <3>2 DEF Accounting, Knowledge, MapKnows
    <3> QED  BY <3>1, <3>2
  <2>3. Known(p, c, P)'
    BY <2>2, KnownKept
  <2> QED  BY <2>1, <2>3 DEF Known, Rows
<1> QED  BY <1>2, <1>3, SlicerQuiet

LEMMA OnTickAccounts ==
  ASSUME IInv, Types, Types', Accounting, ~CopiesMap, NEW h \in Ticks, OnTick(h), UNCHANGED twap
  PROVE  Accounting'
<1> USE DEF OnTick, progressVars
<1>1. PICK run : NextOrder(h, run, evaluating) /\ DOMAIN run = LoopFields
  <2>1. PICK triggered \in SUBSET Orders :
          NextOrder(h, [Idle EXCEPT !.now = clock, !.triggered = triggered,
                                    !.copy = IF CopiesMap THEN [o \in pending |-> inFlight[o]]
                                             ELSE <<>>], evaluating)
    OBVIOUS
  <2> DEFINE run == [Idle EXCEPT !.now = clock, !.triggered = triggered,
                                 !.copy = IF CopiesMap THEN [o \in pending |-> inFlight[o]]
                                          ELSE <<>>]
  <2>2. DOMAIN run = LoopFields
    BY DEF Idle, LoopFields
  <2>3. NextOrder(h, run, evaluating)
    BY <2>1
  <2> HIDE DEF run
  <2> QED  BY <2>2, <2>3
<1>2. \A p \in pending \ evaluating : Known(p, inFlight[p], Rows(p))'
  <2> SUFFICES ASSUME NEW p \in pending \ evaluating PROVE Known(p, inFlight[p], Rows(p))'
    OBVIOUS
  <2>1. Known(p, inFlight[p], Rows(p))
    BY DEF Accounting, Knowledge, MapKnows
  <2> QED  BY <2>1 DEF Known, Rows
<1>3. TicksKnow' /\ MapKnows'
  BY <1>1, <1>2, NextOrderKnows DEF Accounting, Knowledge
<1> QED  BY <1>3, SlicerQuiet

(* The tick h gives its order o back.                                      *)
LEMMA GiveBackAccounts ==
  ASSUME IInv, Types, Types', Accounting, ~CopiesMap, NEW h \in Ticks, Busy(h),
         NEW o, o = Order(loop[h]), NextOrder(h, loop[h], evaluating \ {o}),
         UNCHANGED <<journal, sent, routed, pending, children, twap, sending, bus>>,
         givenUp \subseteq givenUp',
         \A q \in Orders \ {o} : inFlight'[q] = inFlight[q],
         o \in pending => Known(o, inFlight[o], Rows(o))'
  PROVE  Accounting'
<1>1. /\ loop[h].at \in DOMAIN routed /\ o \in Orders /\ o = routed[loop[h].at]
      /\ DOMAIN routed \subseteq Nat /\ (\A i \in DOMAIN routed : routed[i] \in Orders)
      /\ DOMAIN loop[h] = LoopFields
  <2>1. h \in Callbacks /\ loop[h].at \in DOMAIN routed /\ RunTypes(loop[h])
    BY TickOrder DEF Busy, Callbacks
  <2> QED  BY <2>1, ElementOfSeq, LenProperties DEF Order, Types, MapTypes, RunTypes
<1>2. \A i \in DOMAIN routed : i > loop[h].at => inFlight'[routed[i]] = inFlight[routed[i]]
  BY <1>1 DEF IInv, Routing
<1>3. \A p \in pending \ (evaluating \ {o}) : Known(p, inFlight[p], Rows(p))'
  <2> SUFFICES ASSUME NEW p \in pending \ evaluating, p # o
               PROVE  Known(p, inFlight[p], Rows(p))'
    OBVIOUS
  <2>1. PICK c, P : c = inFlight[p] /\ P = Rows(p)
    OBVIOUS
  <2>2. inFlight'[p] = c /\ Rows(p)' = P
    BY <2>1 DEF Types, MapTypes, Rows
  <2>3. Known(p, c, P)'
    BY <2>1, KnownKept DEF Accounting, Knowledge, MapKnows
  <2> QED  BY <2>2, <2>3 DEF Known
<1>4. TicksKnow' /\ MapKnows'
  <2> DEFINE claimed == evaluating \ {o}
             run == loop[h]
  <2>1. /\ claimed \in SUBSET evaluating /\ NextOrder(h, run, claimed)
        /\ DOMAIN run = LoopFields
        /\ \A i \in DOMAIN routed : i > run.at => inFlight'[routed[i]] = inFlight[routed[i]]
        /\ \A p \in pending \ claimed : Known(p, inFlight[p], Rows(p))'
    BY <1>1, <1>2, <1>3
  <2> HIDE DEF claimed, run
  <2> QED  BY <2>1, NextOrderKnows DEF Accounting, Knowledge
<1> QED  BY <1>4, SlicerQuiet

LEMMA AfterSendAccounts ==
  ASSUME IInv, Types, Types', Accounting, ~CopiesMap, NEW h \in Ticks, AfterSend(h),
         UNCHANGED twap
  PROVE  Accounting'
<1>1. PICK o, c, P : o = Order(loop[h]) /\ c = loop[h].child /\ P = Rows(o)
  OBVIOUS
<1>2. /\ Busy(h) /\ o \in Orders /\ DOMAIN inFlight = Orders
      /\ SetInFlight(o, c) /\ NextOrder(h, loop[h], evaluating \ {o})
      /\ UNCHANGED <<routed, children, clock, journal, sent, givenUp, sending, bus>>
  <2>1. Busy(h)
    BY DEF AfterSend, Busy
  <2> QED  BY <1>1, <2>1, TickOrders DEF AfterSend, progressVars, Types, MapTypes
<1>3. /\ UNCHANGED pending
      /\ \A q \in Orders \ {o} : inFlight'[q] = inFlight[q]
      /\ o \in pending => inFlight'[o] = c
  BY <1>2, SetInFlightFacts
<1>4. Known(o, c, P)'
  BY <1>1, <1>2, KnownKept DEF Accounting, Knowledge, TicksKnow, Knows
<1>5. o \in pending => Known(o, inFlight[o], Rows(o))'
  BY <1>1, <1>2, <1>3, <1>4 DEF Known, Rows
<1> QED  BY <1>1, <1>2, <1>3, <1>5, GiveBackAccounts

LEMMA AnswerAccounts ==
  ASSUME IInv, Types, Types', Accounting, NEW h \in Callbacks, Answer(h), UNCHANGED twap
  PROVE  Accounting'
<1> USE DEF Answer, progressVars
<1>1. PICK run, progress :
        /\ run = loop[h] /\ progress \in Answers(Order(loop[h]))
        /\ loop' = [loop EXCEPT ![h].phase = "answered", ![h].progress = progress]
  OBVIOUS
<1>2. /\ DOMAIN loop = Callbacks /\ DOMAIN run = LoopFields /\ run.phase = "reading"
  BY <1>1 DEF Types, LoopTypes, RunTypes
<1> DEFINE l1 == [loop EXCEPT ![h].phase = "answered"]
           l2 == [l1 EXCEPT ![h].progress = progress]
<1>3. /\ DOMAIN l1 = Callbacks /\ \A k \in Callbacks \ {h} : l1[k] = loop[k]
      /\ DOMAIN l1[h] = LoopFields /\ l1[h].at = run.at /\ l1[h].child = run.child
  BY <1>1, <1>2 DEF LoopFields
<1>4. loop' = l2
  BY <1>1
<1> HIDE DEF l1
<1>5. /\ DOMAIN l2 = Callbacks /\ \A k \in Callbacks \ {h} : l2[k] = loop[k]
      /\ l2[h].at = run.at /\ l2[h].child = run.child /\ l2[h].progress = progress
  BY <1>3 DEF LoopFields
<1> HIDE DEF l2
<1>6. TicksKnow'
  <2> SUFFICES ASSUME NEW k \in Ticks, Busy(k)' PROVE Knows(Order(loop[k]), loop[k])'
    BY DEF TicksKnow
  <2>1. k \in Callbacks
    BY DEF Callbacks
  <2>2. PICK p, r, c, P : p = Order(loop[k]) /\ r = loop'[k] /\ c = loop[k].child /\ P = Rows(p)
    OBVIOUS
  <2>3. /\ Order(loop[k])' = p /\ r.child = c /\ Busy(k) /\ Rows(p)' = P
        /\ \/ r = loop[k]
           \/ r.progress \in Answers(p)
    BY <1>1, <1>2, <1>4, <1>5, <2>1, <2>2 DEF Busy, Order, Rows
  <2>4. Known(p, c, P)'
    BY <2>2, <2>3, KnownKept DEF Accounting, Knowledge, TicksKnow, Knows
  <2>5. CASE r = loop[k]
    <3>1. Knows(p, r)'
      BY <2>2, <2>3, <2>5, KnowsKept DEF Accounting, Knowledge, TicksKnow
    <3> QED  BY <2>2, <2>3, <3>1 DEF Knows, Known, Rows
  <2>6. CASE r.progress \in Answers(p)
    <3>1. r.progress # None => r.progress = P
      BY <2>2, <2>6 DEF Answers
    <3> QED  BY <2>2, <2>3, <2>4, <3>1 DEF Knows, Known, Rows
  <2> QED  BY <2>3, <2>5, <2>6
<1>7. MapKnows'
  BY DEF Accounting, Knowledge, MapKnows, Known, Rows
<1> QED  BY <1>6, <1>7, SlicerQuiet

LEMMA SweepAccounts ==
  ASSUME IInv, Types, Types', Accounting, StartSweep \/ SweepOrder \/ AfterOutcome,
         UNCHANGED twap
  PROVE  Accounting'
<1>1. /\ UNCHANGED <<routed, inFlight, evaluating, children, journal, sent, givenUp, bus>>
      /\ pending' \subseteq pending
  BY DEF StartSweep, SweepOrder, AfterOutcome, progressVars
<1>2. \A k \in Ticks : loop'[k] = loop[k]
  <2>1. DOMAIN loop = Callbacks /\ \A k \in Ticks : k # Sweep /\ k \in Callbacks
    BY SlicerAssumption DEF Types, LoopTypes, Callbacks
  <2>2. \/ \E run : NextSwept(run)
        \/ loop' = [loop EXCEPT ![Sweep].phase = "sending", ![Sweep].progress = None]
    BY DEF StartSweep, SweepOrder, AfterOutcome
  <2>3. CASE \E run : NextSwept(run)
    <3>1. PICK next : loop' = [loop EXCEPT ![Sweep] = next]
      BY <2>3 DEF NextSwept
    <3> QED  BY <2>1, <3>1
  <2>4. CASE loop' = [loop EXCEPT ![Sweep].phase = "sending", ![Sweep].progress = None]
    BY <2>1, <2>4
  <2> QED  BY <2>2, <2>3, <2>4
<1>3. TicksKnow' /\ MapKnows'
  <2>1. pending \subseteq Orders /\ \A k \in Ticks : Busy(k) => Order(loop[k]) \in Orders
    BY TickOrders DEF Types, MapTypes
  <2> QED  BY <1>1, <1>2, <2>1, TicksStand DEF Accounting, Knowledge
<1>4. \/ UNCHANGED sending
      \/ \E m : Send(m) /\ m.topic \notin {"orders.child", "orders.filled"}
  <2>1. \A topic, o : Outcome(topic, o, Sweep).topic = topic
    BY DEF Outcome
  <2> QED  BY <2>1 DEF StartSweep, SweepOrder, AfterOutcome
<1> QED  BY <1>1, <1>3, <1>4, SlicerQuiet

(* A slice is sent when every child of the order was given up, or its fill *)
(* is in the journal's answer, and has at most what the answer leaves.     *)
LEMMA SendChildAccounts ==
  ASSUME IInv, NoneIsNoChild, Types, Types', Accounting,
         NEW h \in Ticks, loop[h].phase = "answered",
         NEW o, o = Order(loop[h]), SetInFlight(o, None),
         NEW P, P = loop[h].progress, P \in SUBSET Rows(o),
         NEW qty \in Nat, SendChild(h, loop[h], o, qty),
         FilledQty(P) + qty <= Qty[o],
         UNCHANGED <<routed, journal, bus, twap>>, givenUp \subseteq givenUp',
         \A s \in sent : s.order = o =>
           [order |-> o, slice |-> s.slice] \in givenUp' \/ IsFilled(s, P)
  PROVE  Accounting'
<1>1. PICK child, run : child = InFlight(children[o] + 1, qty, loop[h].started) /\ run = loop[h]
  OBVIOUS
<1>2. /\ Busy(h) /\ h \in Callbacks /\ o \in Orders /\ o \in AllOrders /\ OrderQty(o) = Qty[o]
      /\ DOMAIN loop = Callbacks /\ DOMAIN run = LoopFields /\ DOMAIN inFlight = Orders
      /\ children[o] \in Nat /\ o \notin TwapOrders
      /\ sent \subseteq [order : AllOrders, slice : Nat, sentAt : Nat]
  <2>1. Busy(h)
    BY DEF Busy
  <2>2. h \in Callbacks /\ o \in Orders
    BY <2>1, TickOrders
  <2>3. DOMAIN loop = Callbacks /\ DOMAIN run = LoopFields
    BY <1>1, <2>2 DEF Types, LoopTypes, RunTypes
  <2> QED  BY <2>1, <2>2, <2>3, OneStrategy
           DEF OrderQty, AllOrders, Types, MapTypes, ProgressTypes
<1>3. /\ UNCHANGED pending
      /\ \A q \in Orders \ {o} : inFlight'[q] = inFlight[q]
  BY <1>2, SetInFlightFacts
<1>4. /\ child.slice = children[o] + 1 /\ child.qty = qty
      /\ Send(Child(o, child, h))
      /\ children' = [children EXCEPT ![o] = @ + 1] /\ UNCHANGED evaluating
      /\ sent' = sent \cup {[order |-> o, slice |-> child.slice, sentAt |-> child.sentAt]}
      /\ loop' = [loop EXCEPT ![h] = [run EXCEPT !.phase = "sending", !.child = child,
                                                !.progress = None]]
  BY <1>1 DEF SendChild, InFlight
<1>5. \A s \in sent : s.order = o => s.slice <= children[o] /\ s.slice \in Nat
  BY <1>2 DEF Accounting, Numbered
<1>6. /\ sent \subseteq sent' /\ \E s \in sent' : s.order = o /\ s.slice = child.slice
      /\ \A s \in sent' : s.order # o => s \in sent
      /\ \A s \in sent' : s.order = o => s \in sent \/ s.slice = child.slice
  <2>1. PICK new : new = [order |-> o, slice |-> child.slice, sentAt |-> child.sentAt]
    OBVIOUS
  <2>2. new.order = o /\ new.slice = child.slice /\ sent' = sent \cup {new}
    BY <1>4, <2>1
  <2> QED  BY <2>2
<1>7. Carried' /\ Bounded'
  <2>1. PICK m : m = Child(o, child, h)
    OBVIOUS
  <2>2. /\ m.topic = "orders.child" /\ m.order = o /\ m.slice = child.slice /\ m.qty = qty
        /\ "topic" \in DOMAIN m /\ Send(m)
    BY <1>4, <2>1 DEF Child
  <2>3. \A s \in sent : s.order = o => s.slice # m.slice
    BY <1>2, <1>4, <1>5, <2>2
  <2> QED  BY <1>2, <1>6, <2>2, <2>3, ChildSent DEF Accounting
<1>8. Numbered'
  <2>1. children'[o] = children[o] + 1 /\ \A p \in Orders : p # o => children'[p] = children[p]
    BY <1>2, <1>4 DEF Types, MapTypes
  <2>2. ASSUME NEW s \in sent', s.order \in Orders PROVE s.slice <= children'[s.order]
    <3>1. CASE s.order = o
      BY <1>2, <1>4, <1>5, <1>6, <2>1, <3>1
    <3>2. CASE s.order # o
      BY <1>6, <2>1, <2>2, <3>2 DEF Accounting, Numbered
    <3> QED  BY <3>1, <3>2
  <2>3. ASSUME NEW s \in sent', s.order \in TwapOrders, twap[s.order].phase # "done"
        PROVE  s.slice <= LastSlice(twap[s.order])
    BY <1>2, <1>6, <2>3 DEF Accounting, Numbered
  <2> QED  BY <2>2, <2>3 DEF Accounting, Numbered, LastSlice
<1>9. PICK next : next = loop'[h] /\ next.phase = "sending" /\ next.child = child
                  /\ next.at = run.at
  <2> DEFINE r1 == [run EXCEPT !.phase = "sending"]
             r2 == [r1 EXCEPT !.child = child]
             r3 == [r2 EXCEPT !.progress = None]
  <2>1. loop'[h] = r3
    BY <1>2, <1>4
  <2>2. DOMAIN r2 = LoopFields /\ r2.phase = "sending" /\ r2.child = child /\ r2.at = run.at
    BY <1>2 DEF LoopFields
  <2> HIDE DEF r2
  <2>3. r3.phase = "sending" /\ r3.child = child /\ r3.at = run.at
    BY <2>2 DEF LoopFields
  <2> QED  BY <2>1, <2>3
<1>10. \A k \in Callbacks : k # h => loop'[k] = loop[k]
  BY <1>2, <1>4
<1>11. Known(o, child, Rows(o))'
  <2> SUFFICES ASSUME NEW s \in sent', s.order = o
               PROVE  \/ child # None /\ s.slice = child.slice
                      \/ [order |-> o, slice |-> s.slice] \in givenUp'
                      \/ IsFilled(s, Rows(o)')
    BY DEF Known
  <2>1. child # None
    BY <1>1 DEF NoneIsNoChild
  <2>2. IsFilled(s, P) => IsFilled(s, Rows(o)')
    BY DEF IsFilled, Rows
  <2> QED  BY <1>6, <2>1, <2>2
<1>12. TicksKnow'
  <2> SUFFICES ASSUME NEW k \in Ticks, Busy(k)' PROVE Knows(Order(loop[k]), loop[k])'
    BY DEF TicksKnow
  <2>1. PICK p, r : p = Order(loop[k])' /\ r = loop'[k]
    OBVIOUS
  <2>2. CASE k = h
    <3>1. p = o /\ r.phase = "sending" /\ r.child = child
      BY <1>1, <1>9, <2>1, <2>2 DEF Order
    <3> QED  BY <1>11, <2>1, <3>1 DEF Knows, Known, Rows
  <2>3. CASE k # h
    <3>1. k \in Callbacks /\ r = loop[k] /\ Busy(k) /\ p = Order(loop[k])
      BY <1>10, <2>1, <2>3 DEF Busy, Order, Callbacks
    <3>2. p # o
      BY <1>2, <2>3, <3>1 DEF IInv, SlicerInv, Claims
    <3>3. Knows(p, r)'
      BY <1>6, <3>1, <3>2, KnowsKept DEF Accounting, Knowledge, TicksKnow
    <3> QED  BY <2>1, <3>3 DEF Knows, Known, Rows
  <2> QED  BY <2>2, <2>3
<1>13. MapKnows'
  <2> SUFFICES ASSUME NEW p \in pending \ evaluating PROVE Known(p, inFlight[p], Rows(p))'
    BY <1>3, <1>4 DEF MapKnows
  <2>1. p # o /\ p \in Orders
    BY <1>2 DEF IInv, SlicerInv, Claims, Types, MapTypes
  <2>2. PICK c, R : c = inFlight[p] /\ R = Rows(p)
    OBVIOUS
  <2>3. Known(p, c, R)'
    BY <1>6, <2>1, <2>2, KnownKept DEF Accounting, Knowledge, MapKnows
  <2>4. inFlight'[p] = c /\ Rows(p)' = R
    BY <1>3, <2>1, <2>2 DEF Rows
  <2> QED  BY <2>3, <2>4 DEF Known
<1>14. TwapKnows'
  <2>1. \A s \in sent' : s.order \in TwapOrders => s \in sent
    BY <1>2, <1>6
  <2> QED  BY <2>1, TwapKnowsKept DEF Accounting, Knowledge
<1> QED  BY <1>7, <1>8, <1>12, <1>13, <1>14 DEF Accounting, Knowledge

LEMMA EvaluateAccounts ==
  ASSUME IInv, NoneIsNoChild, ~CopiesMap, Types, Types', Accounting,
         NEW h \in Ticks, Evaluate(h), UNCHANGED twap
  PROVE  Accounting'
<1>1. PICK o, run, P : o = Order(loop[h]) /\ run = loop[h] /\ P = run.progress
  OBVIOUS
<1>2. /\ Busy(h) /\ h \in Callbacks /\ o \in Orders /\ loop[h].phase = "answered"
      /\ RunTypes(run) /\ DOMAIN inFlight = Orders /\ Qty[o] \in Nat
      /\ UNCHANGED <<routed, outcome, clock, journal, bus>>
  <2>1. Busy(h) /\ loop[h].phase = "answered"
    BY DEF Evaluate, Busy
  <2>2. h \in Callbacks /\ o \in Orders /\ RunTypes(run)
    BY <1>1, <2>1, TickOrders, TickOrder
  <2>3. Qty[o] \in Nat
    BY <2>2, SlicerAssumption
  <2> QED  BY <2>1, <2>2, <2>3 DEF Evaluate, Types, MapTypes
<1>3. /\ Known(o, run.child, Rows(o))
      /\ P # None => Known(o, run.child, P) /\ P \in SUBSET Rows(o)
  BY <1>1, <1>2 DEF Accounting, Knowledge, TicksKnow, Knows, IInv, Answered
<1>4. CASE P = None
  <2>1. /\ NextOrder(h, loop[h], evaluating \ {o})
        /\ UNCHANGED <<inFlight, pending, children, sent, givenUp, sending>>
    BY <1>1, <1>4 DEF Evaluate
  <2>2. o \in pending => Known(o, inFlight[o], Rows(o))'
    <3>1. o \in pending => inFlight'[o] = run.child
      BY <1>1, <1>2, <2>1 DEF IInv, SlicerInv, TicksCurrent
    <3> QED  BY <1>2, <1>3, <2>1, <3>1 DEF Known, Rows
  <2> QED  BY <1>1, <1>2, <2>1, <2>2, GiveBackAccounts
<1>5. CASE P # None
  <2>1. PICK settled, remaining :
          /\ settled = SettleInFlight(run.child, P, run.started)
          /\ remaining = RemainingQty(Qty[o], P, settled)
    OBVIOUS
  <2>2. /\ SetInFlight(o, settled)
        /\ givenUp' = givenUp \cup GivenUpBy(o, run.child, P, run.started)
        /\ \/ NextOrder(h, loop[h], evaluating \ {o}) /\ UNCHANGED <<children, sent, sending>>
           \/ /\ settled = None /\ remaining # 0
              /\ \E cap \in SliceCaps : SendChild(h, loop[h], o, Smaller(cap, remaining))
    BY <1>1, <1>5, <2>1 DEF Evaluate
  <2>3. givenUp \subseteq givenUp' /\ GivenUpBy(o, run.child, P, run.started) \subseteq givenUp'
    BY <2>2
  <2>4. \A s \in sent : s.order = o =>
          \/ settled # None /\ s.slice = settled.slice
          \/ [order |-> o, slice |-> s.slice] \in givenUp'
          \/ IsFilled(s, P)
    BY <1>3, <1>5, <2>1, <2>3, SettleKnown
  <2>5. CASE NextOrder(h, loop[h], evaluating \ {o}) /\ UNCHANGED <<children, sent, sending>>
    <3>1. /\ UNCHANGED pending /\ \A q \in Orders \ {o} : inFlight'[q] = inFlight[q]
          /\ o \in pending => inFlight'[o] = settled
      BY <1>2, <2>2, SetInFlightFacts
    <3>2. o \in pending => Known(o, inFlight[o], Rows(o))'
      <4>1. \A s : IsFilled(s, P) => IsFilled(s, Rows(o)')
        BY <1>2, <1>3, <1>5 DEF IsFilled, Rows
      <4> QED  BY <2>4, <2>5, <3>1, <4>1 DEF Known
    <3> QED  BY <1>1, <1>2, <2>3, <2>5, <3>1, <3>2, GiveBackAccounts
  <2>6. ASSUME settled = None, remaining # 0, NEW cap \in SliceCaps,
               SendChild(h, loop[h], o, Smaller(cap, remaining))
        PROVE  Accounting'
    <3>1. PICK qty : qty = Smaller(cap, remaining)
      OBVIOUS
    <3>2. P \in SUBSET journal /\ None \in Refs /\ remaining = RemainingQty(Qty[o], P, None)
      BY <1>3, <1>5, <2>1, <2>6 DEF Rows, Refs
    <3>3. remaining \in Nat /\ FilledQty(P) + remaining = Qty[o] /\ FilledQty(P) \in Nat
      BY <1>2, <2>6, <3>2, BudgetNat, FilledNat DEF Types
    <3>4. qty \in Nat /\ qty <= remaining
      BY <3>1, <3>3, SmallerNat, SettleAssumption
    <3>5. FilledQty(P) + qty <= Qty[o]
      BY <1>2, <3>3, <3>4
    <3> QED  BY <1>1, <1>2, <1>3, <1>5, <2>2, <2>3, <2>4, <2>6, <3>1, <3>4, <3>5,
                SendChildAccounts
  <2> QED  BY <2>2, <2>5, <2>6
<1> QED  BY <1>4, <1>5

-----------------------------------------------------------------------------
(* A step of the executeTWAP of o.                                         *)
LEMMA TwapAccounts ==
  ASSUME IInv, Types, Types', Accounting, NEW o \in TwapOrders, NEW next, Goes(o, next),
         UNCHANGED <<journal, slicerVars>>, givenUp \subseteq givenUp',
         \A s \in sent' : s \in sent \/ s.order = o,
         next.phase # "idle",
         next.phase # "done" =>
           /\ Knows(o, next)'
           /\ \A s \in sent' : s.order = o => s.slice <= LastSlice(next),
         Carried', Bounded'
  PROVE  Accounting'
<1> USE DEF slicerVars
<1>1. /\ DOMAIN twap = TwapOrders /\ twap'[o] = next
      /\ \A p \in TwapOrders \ {o} : twap'[p] = twap[p]
  BY TwapRuns DEF Goes
<1>2. \A p \in Orders : p # o
  BY OneStrategy
<1>3. TicksKnow' /\ MapKnows'
  <2>1. pending \subseteq Orders /\ \A k \in Ticks : Busy(k) => Order(loop[k]) \in Orders
    BY TickOrders DEF Types, MapTypes
  <2>2. \A s \in sent' : s.order \in Orders => s \in sent
    BY <1>2
  <2> QED  BY <2>1, <2>2, TicksStand DEF Accounting, Knowledge
<1>4. TwapKnows'
  <2> SUFFICES ASSUME NEW p \in TwapOrders, twap'[p].phase # "done" PROVE Knows(p, twap[p])'
    BY DEF TwapKnows
  <2>1. PICK r : r = twap'[p]
    OBVIOUS
  <2>2. CASE p = o
    BY <1>1, <2>1, <2>2 DEF Knows, Known
  <2>3. CASE p # o
    <3>1. r = twap[p] /\ r.phase # "done"
      BY <1>1, <2>1, <2>3
    <3>2. Knows(p, r)'
      BY <2>3, <3>1, KnowsKept DEF Accounting, Knowledge, TwapKnows
    <3> QED  BY <2>1, <3>2 DEF Knows, Known
  <2> QED  BY <2>2, <2>3
<1>5. Numbered'
  <2>1. \A s \in sent' : s.order \in Orders => s.slice <= children'[s.order]
    BY <1>2 DEF Accounting, Numbered
  <2>2. ASSUME NEW s \in sent', s.order \in TwapOrders, twap'[s.order].phase # "done"
        PROVE  s.slice <= LastSlice(twap'[s.order])
    <3>1. CASE s.order = o
      BY <1>1, <2>2, <3>1
    <3>2. CASE s.order # o
      BY <1>1, <2>2, <3>2 DEF Accounting, Numbered
    <3> QED  BY <3>1, <3>2
  <2>3. \A p \in TwapOrders : twap'[p].phase = "idle" => twap'[p].slices = 0
    BY <1>1 DEF Accounting, Numbered
  <2> QED  BY <2>1, <2>2, <2>3 DEF Numbered, LastSlice
<1> QED  BY <1>3, <1>4, <1>5 DEF Accounting, Knowledge

LEMMA TwapRunKnows ==
  ASSUME Types, Accounting, NEW o \in TwapOrders, NEW run, run = twap[o], run.phase # "done"
  PROVE  /\ Known(o, run.child, Rows(o))
         /\ run.phase = "answered" /\ run.progress # None => Known(o, run.child, run.progress)
         /\ \A s \in sent : s.order = o => s.slice \in Nat /\ s.slice <= LastSlice(run)
         /\ run.slices \in 0 .. NumSlices /\ NumSlices \in Nat
<1>1. run.slices \in 0 .. NumSlices /\ NumSlices \in Nat
  BY TwapRuns, TwapAssumption DEF TwapRun
<1>2. \A s \in sent : s.order = o => s.slice \in Nat /\ s.slice <= LastSlice(run)
  BY DEF Types, ProgressTypes, Accounting, Numbered
<1> QED  BY <1>1, <1>2 DEF Accounting, Knowledge, TwapKnows, Knows

(* The steps that send no child.                                           *)
LEMMA TwapQuietStep ==
  ASSUME IInv, Types, Types', Accounting, NEW o \in TwapOrders, NEW next, Goes(o, next),
         UNCHANGED <<journal, sent, bus, slicerVars>>, givenUp \subseteq givenUp',
         \/ UNCHANGED sending
         \/ \E m : Send(m) /\ m.topic \notin {"orders.child", "orders.filled"},
         next.phase # "idle",
         next.phase # "done" =>
           /\ Known(o, next.child, Rows(o))'
           /\ next.phase = "answered" /\ next.progress # None => next.progress = Rows(o)
           /\ \A s \in sent : s.order = o => s.slice <= LastSlice(next)
  PROVE  Accounting'
<1>1. Carried' /\ Bounded'
  BY NoChildSent DEF Accounting
<1>2. next.phase # "done" => Knows(o, next)'
  BY DEF Knows, Known, Rows
<1>3. next.phase # "done" => \A s \in sent' : s.order = o => s.slice <= LastSlice(next)
  OBVIOUS
<1>4. \A s \in sent' : s \in sent \/ s.order = o
  OBVIOUS
<1> QED  BY <1>1, <1>2, <1>3, <1>4, TwapAccounts

LEMMA WaitParts ==
  ASSUME NEW run, NEW child, NEW slices
  PROVE  /\ Wait(run, child, slices).phase \in {"waiting", "settling"}
         /\ Wait(run, child, slices).child = child
         /\ LastSlice(Wait(run, child, slices)) = slices
BY WaitFields DEF LastSlice

LEMMA TwapQuietAccounts ==
  ASSUME IInv, Types, Types', Accounting, NEW o \in TwapOrders, UNCHANGED slicerVars,
         TwapRouted(o) \/ TwapRead(o) \/ TwapAnswer(o) \/ TwapSent(o) \/ TwapClose(o)
  PROVE  Accounting'
<1> USE DEF progressVars
<1>1. PICK run : run = twap[o]
  OBVIOUS
<1>2. UNCHANGED <<journal, sent, givenUp, bus>>
  BY DEF TwapRouted, TwapRead, TwapAnswer, TwapSent, TwapClose
<1>3. DOMAIN run = TwapFields /\ (run.phase = "idle" => run.child = None /\ run.slices = 0)
  BY <1>1 DEF IInv, TwapShapes, TwapCovers, Accounting, Numbered
<1>4. run.phase # "done" => /\ Known(o, run.child, Rows(o))'
                            /\ \A s \in sent : s.order = o => s.slice <= LastSlice(run)
  <2>1. run.phase # "done" => Known(o, run.child, Rows(o))
    BY <1>1, TwapRunKnows
  <2>2. run.phase # "done" => \A s \in sent : s.order = o => s.slice <= LastSlice(run)
    BY <1>1, TwapRunKnows
  <2> QED  BY <1>2, <2>1, <2>2 DEF Known, Rows
<1>5. CASE TwapRouted(o)
  <2>1. PICK next : next = [NotStarted EXCEPT !.phase = "waiting", !.due = clock]
    OBVIOUS
  <2>2. next.slices = 0 /\ next.phase = "waiting" /\ next.child = None /\ LastSlice(next) = 0
    BY <2>1 DEF NotStarted, LastSlice
  <2>3. Goes(o, next) /\ UNCHANGED sending /\ run.phase = "idle"
    BY <1>1, <1>5, <2>1 DEF TwapRouted
  <2>4. Known(o, next.child, Rows(o))' /\ \A s \in sent : s.order = o => s.slice <= LastSlice(next)
    BY <1>3, <1>4, <2>2, <2>3 DEF LastSlice, Known
  <2> QED  BY <1>2, <2>2, <2>3, <2>4, TwapQuietStep
<1>6. CASE TwapRead(o)
  <2>1. PICK next : next = [run EXCEPT !.phase = IF @ = "waiting" THEN "reading" ELSE "closing",
                                       !.started = clock]
    OBVIOUS
  <2>2. /\ next.slices = run.slices /\ next.phase \in {"reading", "closing"}
        /\ next.child = run.child
    BY <1>3, <2>1 DEF TwapFields
  <2>3. Goes(o, next) /\ run.phase \in {"waiting", "settling"} /\ UNCHANGED sending
    BY <1>1, <1>6, <2>1 DEF TwapRead
  <2>4. Known(o, next.child, Rows(o))' /\ \A s \in sent : s.order = o => s.slice <= LastSlice(next)
    BY <1>4, <2>2, <2>3 DEF LastSlice, Known
  <2> QED  BY <1>2, <2>2, <2>3, <2>4, TwapQuietStep
<1>7. CASE TwapAnswer(o)
  <2>0. \E progress \in Answers(o) :
          Goes(o, [run EXCEPT !.phase = "answered", !.progress = progress])
    BY <1>1, <1>7 DEF TwapAnswer
  <2>1. PICK progress, next :
          /\ progress \in Answers(o)
          /\ next = [run EXCEPT !.phase = "answered", !.progress = progress]
          /\ Goes(o, next)
    BY <2>0
  <2>2. /\ next.slices = run.slices /\ next.phase = "answered" /\ next.child = run.child
        /\ next.progress = progress
    BY <1>3, <2>1 DEF TwapFields
  <2>3. run.phase = "reading" /\ UNCHANGED sending /\ (progress # None => progress = Rows(o))
    BY <1>1, <1>7, <2>1 DEF TwapAnswer, Answers
  <2>4. Known(o, next.child, Rows(o))' /\ \A s \in sent : s.order = o => s.slice <= LastSlice(next)
    BY <1>4, <2>2, <2>3 DEF LastSlice, Known
  <2> QED  BY <1>2, <2>1, <2>2, <2>3, <2>4, TwapQuietStep
<1>8. CASE TwapSent(o)
  <2>1. PICK next : next = Wait(run, run.child, run.slices + 1)
    OBVIOUS
  <2>2. /\ next.phase \in {"waiting", "settling"} /\ next.child = run.child
        /\ LastSlice(next) = run.slices + 1
    BY <2>1, WaitParts
  <2>3. Goes(o, next) /\ run.phase = "sending" /\ UNCHANGED sending
    BY <1>1, <1>8, <2>1 DEF TwapSent
  <2>4. Known(o, next.child, Rows(o))' /\ \A s \in sent : s.order = o => s.slice <= LastSlice(next)
    BY <1>4, <2>2, <2>3 DEF LastSlice, Known
  <2> QED  BY <1>2, <2>2, <2>3, <2>4, TwapQuietStep
<1>9. CASE TwapClose(o)
  <2>1. PICK ended \in {"complete", "expired"}, topic \in {"algo.heartbeat", "orders.expired"} :
          /\ Goes(o, [NotStarted EXCEPT !.phase = "done", !.outcome = ended])
          /\ Send(Outcome(topic, o, o))
    BY <1>9 DEF TwapClose
  <2>2. PICK next : next = [NotStarted EXCEPT !.phase = "done", !.outcome = ended]
    OBVIOUS
  <2>3. next.phase = "done"
    BY <2>2 DEF NotStarted
  <2>4. \E m : Send(m) /\ m.topic \notin {"orders.child", "orders.filled"}
    <3>1. Outcome(topic, o, o).topic = topic
      BY DEF Outcome
    <3> QED  BY <2>1, <3>1
  <2> QED  BY <1>2, <2>1, <2>2, <2>3, <2>4, TwapQuietStep
<1> QED  BY <1>5, <1>6, <1>7, <1>8, <1>9

LEMMA TwapSliceAccounts ==
  ASSUME IInv, NoneIsNoChild, Types, Types', Accounting, NEW o \in TwapOrders,
         UNCHANGED slicerVars, TwapSlice(o)
  PROVE  Accounting'
<1>1. PICK run, P : run = twap[o] /\ P = run.progress
  OBVIOUS
<1>2. /\ run.phase = "answered" /\ UNCHANGED <<clock, journal, bus>>
      /\ run.slices \in 0 .. NumSlices /\ run.slices < NumSlices /\ NumSlices \in Nat
      /\ run.child \in Refs /\ DOMAIN run = TwapFields
      /\ TwapQty[o] \in Nat /\ o \in AllOrders /\ OrderQty(o) = TwapQty[o]
  <2>1. run.phase = "answered" /\ UNCHANGED <<clock, journal, bus>>
    BY <1>1 DEF TwapSlice
  <2>2. run \in TwapRun /\ run.slices < NumSlices
    BY <1>1, <2>1, TwapRuns
  <2>3. run.slices \in 0 .. NumSlices /\ NumSlices \in Nat /\ run.child \in Refs
    BY <2>2, TwapAssumption DEF TwapRun
  <2>4. DOMAIN run = TwapFields
    BY <1>1 DEF IInv, TwapShapes
  <2>5. TwapQty[o] \in Nat /\ o \in AllOrders /\ OrderQty(o) = TwapQty[o]
    BY TwapAssumption, OneStrategy DEF AllOrders, OrderQty
  <2> QED  BY <2>1, <2>2, <2>3, <2>4, <2>5
<1>3. /\ Known(o, run.child, Rows(o))
      /\ P # None => Known(o, run.child, P) /\ P \in SUBSET Rows(o)
      /\ \A s \in sent : s.order = o => s.slice \in Nat /\ s.slice <= run.slices
  <2>1. LastSlice(run) = run.slices
    BY <1>2 DEF LastSlice
  <2>2. P # None => P \in SUBSET Rows(o)
    BY <1>1, <1>2 DEF IInv, Answered
  <2> QED  BY <1>1, <1>2, <2>1, <2>2, TwapRunKnows
<1>4. ASSUME NEW child, NEW slices \in 0 .. NumSlices, run.slices <= slices,
             Goes(o, Wait(run, child, slices)), UNCHANGED <<sending, sent>>,
             givenUp \subseteq givenUp', Known(o, child, Rows(o))'
      PROVE  Accounting'
  <2>1. PICK next : next = Wait(run, child, slices)
    OBVIOUS
  <2>2. /\ next.phase \in {"waiting", "settling"} /\ next.child = child
        /\ LastSlice(next) = slices
    BY <2>1, WaitParts
  <2>3. Known(o, next.child, Rows(o))' /\ \A s \in sent : s.order = o => s.slice <= LastSlice(next)
    BY <1>2, <1>3, <1>4, <2>2 DEF Known
  <2> QED  BY <1>2, <1>4, <2>1, <2>2, <2>3, TwapQuietStep
<1>5. CASE P = None
  <2>1. Goes(o, Wait(run, run.child, run.slices + 1)) /\ UNCHANGED <<sending, sent, givenUp>>
    BY <1>1, <1>5 DEF TwapSlice
  <2>2. Known(o, run.child, Rows(o))'
    BY <1>2, <1>3, <2>1 DEF Known, Rows
  <2>3. run.slices + 1 \in 0 .. NumSlices /\ run.slices <= run.slices + 1
    BY <1>2
  <2> QED  BY <1>4, <2>1, <2>2, <2>3
<1>6. CASE P # None
  <2>1. PICK child, remaining :
          /\ child = SettleInFlight(run.child, P, run.started)
          /\ remaining = RemainingQty(TwapQty[o], P, child)
    OBVIOUS
  <2>2. /\ givenUp' = givenUp \cup GivenUpBy(o, run.child, P, run.started)
        /\ \/ /\ \E slices \in {run.slices + 1, NumSlices} : Goes(o, Wait(run, child, slices))
              /\ UNCHANGED <<sending, sent>>
           \/ /\ child = None /\ remaining # 0
              /\ \E cap \in SliceCaps :
                   LET qty == Smaller(cap, TwapSliceQty(remaining, NumSlices - run.slices))
                       next == InFlight(run.slices + 1, qty, run.started)
                   IN /\ Send(Child(o, next, o))
                      /\ sent' = sent \cup {[order |-> o, slice |-> run.slices + 1,
                                             sentAt |-> run.started]}
                      /\ Goes(o, [run EXCEPT !.phase = "sending", !.child = next])
    BY <1>1, <1>6, <2>1 DEF TwapSlice
  <2>3. givenUp \subseteq givenUp' /\ GivenUpBy(o, run.child, P, run.started) \subseteq givenUp'
    BY <2>2
  <2>4. \A s \in sent : s.order = o =>
          \/ child # None /\ s.slice = child.slice
          \/ [order |-> o, slice |-> s.slice] \in givenUp'
          \/ IsFilled(s, P)
    BY <1>3, <1>6, <2>1, <2>3, SettleKnown
  <2>5. \A s : IsFilled(s, P) => IsFilled(s, Rows(o)')
    BY <1>2, <1>3, <1>6 DEF IsFilled, Rows
  <2>6. CASE /\ \E slices \in {run.slices + 1, NumSlices} : Goes(o, Wait(run, child, slices))
             /\ UNCHANGED <<sending, sent>>
    <3>1. PICK slices \in {run.slices + 1, NumSlices} : Goes(o, Wait(run, child, slices))
      BY <2>6
    <3>2. slices \in 0 .. NumSlices /\ run.slices <= slices
      BY <1>2
    <3>3. Known(o, child, Rows(o))'
      BY <2>4, <2>5, <2>6 DEF Known
    <3> QED  BY <1>4, <2>3, <2>6, <3>1, <3>2, <3>3
  <2>7. ASSUME child = None, remaining # 0, NEW cap \in SliceCaps, NEW qty, NEW ref,
               qty = Smaller(cap, TwapSliceQty(remaining, NumSlices - run.slices)),
               ref = InFlight(run.slices + 1, qty, run.started),
               Send(Child(o, ref, o)),
               sent' = sent \cup {[order |-> o, slice |-> run.slices + 1,
                                   sentAt |-> run.started]},
               Goes(o, [run EXCEPT !.phase = "sending", !.child = ref])
        PROVE  Accounting'
    <3>1. /\ remaining \in Nat /\ FilledQty(P) + remaining = TwapQty[o]
          /\ FilledQty(P) \in Nat
      <4>1. P \in SUBSET journal /\ None \in Refs /\ remaining = RemainingQty(TwapQty[o], P, None)
        BY <1>3, <1>6, <2>1, <2>7 DEF Rows, Refs
      <4> QED  BY <1>2, <2>7, <4>1, BudgetNat, FilledNat DEF Types
    <3>2. qty \in Nat /\ FilledQty(P) + qty <= OrderQty(o)
      <4>1. PICK left \in Nat \ {0} : left = NumSlices - run.slices
        BY <1>2
      <4>2. TwapSliceQty(remaining, left) \in Nat /\ TwapSliceQty(remaining, left) <= remaining
        BY <3>1, ShareNat
      <4>3. PICK share \in Nat : share = TwapSliceQty(remaining, left) /\ share <= remaining
        BY <4>2
      <4>4. qty \in Nat /\ qty <= share
        BY <2>7, <4>1, <4>3, SmallerNat, SettleAssumption
      <4> QED  BY <1>2, <3>1, <4>3, <4>4
    <3>3. ref.slice = run.slices + 1 /\ ref.qty = qty /\ ref # None
      BY <2>7 DEF InFlight, NoneIsNoChild
    <3>4. /\ sent \subseteq sent' /\ \E s \in sent' : s.order = o /\ s.slice = ref.slice
          /\ \A s \in sent' : s \in sent \/ (s.order = o /\ s.slice = ref.slice)
      <4>1. PICK new : new = [order |-> o, slice |-> run.slices + 1, sentAt |-> run.started]
        OBVIOUS
      <4>2. new.order = o /\ new.slice = ref.slice /\ sent' = sent \cup {new}
        BY <2>7, <3>3, <4>1
      <4> QED  BY <4>2
    <3>5. Carried' /\ Bounded'
      <4>1. PICK m : m = Child(o, ref, o)
        OBVIOUS
      <4>2. /\ m.topic = "orders.child" /\ m.order = o /\ m.slice = ref.slice /\ m.qty = qty
            /\ "topic" \in DOMAIN m /\ Send(m)
        BY <2>7, <3>3, <4>1 DEF Child
      <4>3. \A s \in sent : s.order = o => s.slice # m.slice
        BY <1>2, <1>3, <3>3, <4>2
      <4> QED  BY <1>2, <1>3, <1>6, <2>3, <2>4, <2>7, <3>2, <3>4, <4>2, <4>3, ChildSent
               DEF Accounting
    <3>6. PICK next : /\ Goes(o, next) /\ next.phase = "sending" /\ next.child = ref
                      /\ LastSlice(next) = ref.slice
      <4>1. PICK next : next = [run EXCEPT !.phase = "sending", !.child = ref]
        OBVIOUS
      <4>2. next.phase = "sending" /\ next.child = ref /\ next.slices = run.slices
        BY <1>2, <4>1 DEF TwapFields
      <4> QED  BY <2>7, <3>3, <4>1, <4>2 DEF LastSlice
    <3>7. Knows(o, next)'
      <4>1. Known(o, ref, Rows(o))'
        BY <2>4, <2>5, <2>7, <3>3, <3>4 DEF Known
      <4> QED  BY <3>6, <4>1 DEF Knows, Known, Rows
    <3>8. \A s \in sent' : s.order = o => s.slice <= LastSlice(next)
      BY <1>2, <1>3, <3>3, <3>4, <3>6
    <3>9. (\A s \in sent' : s \in sent \/ s.order = o) /\ next.phase # "idle"
      BY <3>4, <3>6
    <3> QED  BY <1>2, <2>3, <3>5, <3>6, <3>7, <3>8, <3>9, TwapAccounts
  <2> QED  BY <2>2, <2>6, <2>7
<1> QED  BY <1>5, <1>6

-----------------------------------------------------------------------------
(* The EMS fills a child with at most its quantity, the journal writes a   *)
(* fill down as it is: item x becomes item y of the same child.            *)
LEMMA Replaced ==
  ASSUME Types, Types', Carried, Bounded, UNCHANGED <<sent, givenUp>>,
         NEW x, NEW y, x \in Items, y.order = x.order, y.slice = x.slice,
         y.qty \in Nat, y.qty <= x.qty, Items' \subseteq (Items \ {x}) \cup {y}
  PROVE  /\ \A m, n \in Items' : m.order = n.order /\ m.slice = n.slice => m = n
         /\ \A m \in Items' : \E s \in sent' : s.order = m.order /\ s.slice = m.slice
         /\ Bounded'
<1>1. \A m, n \in Items' : m.order = n.order /\ m.slice = n.slice => m = n
  BY DEF Carried
<1>2. \A m \in Items' : \E s \in sent' : s.order = m.order /\ s.slice = m.slice
  BY DEF Carried
<1>3. Bounded'
  <2> SUFFICES ASSUME NEW p \in AllOrders PROVE Total(Live(p)') <= OrderQty(p)
    BY DEF Bounded, OrderQty
  <2>1. PICK T, L : T = Live(p)' /\ L = Live(p) \ {x}
    OBVIOUS
  <2>2. CASE x \in Live(p)
    <3>1. L \in SUBSET Live(p) /\ T \in SUBSET (L \cup {y})
      BY <2>1, <2>2 DEF Live
    <3>2. /\ Total(Live(p)) = x.qty + Total(L) /\ Total(L) \in Nat
          /\ x.qty \in Nat /\ Total(Live(p)) <= OrderQty(p)
      BY <2>1, <2>2, LiveTypes, TotalRemove DEF Bounded
    <3>3. Total(L) + y.qty <= OrderQty(p)
      BY <3>2, QtyNat
    <3> QED  BY <2>1, <3>1, <3>3, BoundedGrows
  <2>3. CASE x \notin Live(p)
    <3>1. T \in SUBSET Live(p)
      BY <2>1, <2>3 DEF Live
    <3> QED  BY <2>1, <3>1, BoundedShrinks
  <2> QED  BY <2>2, <2>3
<1> QED  BY <1>1, <1>2, <1>3

(* Items that go, without another coming.                                  *)
LEMMA Dropped ==
  ASSUME Types, Types', Carried, Bounded, UNCHANGED <<sent, givenUp>>, Items' \subseteq Items
  PROVE  /\ \A m, n \in Items' : m.order = n.order /\ m.slice = n.slice => m = n
         /\ \A m \in Items' : \E s \in sent' : s.order = m.order /\ s.slice = m.slice
         /\ Bounded'
<1>1. /\ \A m, n \in Items' : m.order = n.order /\ m.slice = n.slice => m = n
      /\ \A m \in Items' : \E s \in sent' : s.order = m.order /\ s.slice = m.slice
  BY DEF Carried
<1>2. Bounded'
  <2> SUFFICES ASSUME NEW p \in AllOrders PROVE Total(Live(p)') <= OrderQty(p)
    BY DEF Bounded, OrderQty
  <2>1. PICK T : T = Live(p)' /\ T \in SUBSET Live(p)
    BY DEF Live
  <2> QED  BY <2>1, BoundedShrinks
<1> QED  BY <1>1, <1>2

LEMMA OutsideKnowledge ==
  ASSUME Types, Accounting, UNCHANGED <<slicerVars, twap, sent, givenUp>>,
         journal \subseteq journal'
  PROVE  Numbered' /\ Knowledge'
<1> USE DEF slicerVars
<1>1. Numbered'
  BY DEF Accounting, Numbered, LastSlice
<1>2. TicksKnow' /\ MapKnows'
  <2>1. pending \subseteq Orders /\ \A k \in Ticks : Busy(k) => Order(loop[k]) \in Orders
    BY TickOrders DEF Types, MapTypes
  <2> QED  BY <2>1, TicksStand DEF Accounting, Knowledge
<1>3. TwapKnows'
  <2> SUFFICES ASSUME NEW o \in TwapOrders, twap[o].phase # "done" PROVE Knows(o, twap[o])'
    BY DEF TwapKnows
  <2>1. PICK run : run = twap[o]
    OBVIOUS
  <2>2. Knows(o, run)'
    BY <2>1, KnowsKept DEF Accounting, Knowledge, TwapKnows
  <2> QED  BY <2>1, <2>2 DEF Knows, Known
<1> QED  BY <1>1, <1>2, <1>3 DEF Knowledge

LEMMA JournalAccounts ==
  ASSUME Types, Types', Accounting, NEW m \in bus, JournalFill(m),
         UNCHANGED <<slicerVars, twap>>
  PROVE  Accounting'
<1>1. PICK row : row = [order |-> m.order, slice |-> m.slice, qty |-> m.qty]
  OBVIOUS
<1>2. /\ m.topic = "orders.filled" /\ bus' = bus \ {m} /\ journal' = journal \cup {row}
      /\ UNCHANGED <<clock, sent, givenUp, sending>>
      /\ row.order = m.order /\ row.slice = m.slice /\ row.qty = m.qty /\ m.qty \in Nat
  BY <1>1 DEF JournalFill, Types, ProgressTypes, Messages
<1>3. m \in Out /\ m \in Items /\ m \notin sending
  BY <1>2 DEF Accounting, Carried, Out, Items
<1>4. Out' = Out \ {m}
  BY <1>2, <1>3 DEF Out
<1>5. Items' \subseteq (Items \ {m}) \cup {row}
  BY <1>2, <1>3, <1>4 DEF Items, Accounting, Carried
<1>6. /\ \A k, n \in Items' : k.order = n.order /\ k.slice = n.slice => k = n
      /\ \A n \in Items' : \E s \in sent' : s.order = n.order /\ s.slice = n.slice
      /\ Bounded'
  BY <1>2, <1>3, <1>5, Replaced DEF Accounting
<1>7. IsFiniteSet(Out') /\ \A n \in Out' : ~(n \in sending' /\ n \in bus') /\ n \notin journal'
  <2>1. IsFiniteSet(Out')
    BY <1>4, FS_Subset DEF Accounting, Carried
  <2>2. row \notin Out'
    BY <1>2, <1>3, <1>4 DEF Accounting, Carried, Items
  <2> QED  BY <1>2, <1>4, <2>1, <2>2 DEF Accounting, Carried
<1>8. Numbered' /\ Knowledge'
  BY <1>2, OutsideKnowledge
<1> QED  BY <1>6, <1>7, <1>8 DEF Accounting, Carried

LEMMA EmsAccounts ==
  ASSUME Types, Types', Accounting, NEW c \in bus, HandleChildOrder(c),
         UNCHANGED <<progressVars, slicerVars, twap>>
  PROVE  Accounting'
<1>1. /\ c.topic = "orders.child" /\ UNCHANGED <<sending, journal, sent, givenUp>>
      /\ c \in Out /\ c \in Items /\ c \notin sending /\ c \notin journal /\ c.qty \in Nat
  BY DEF HandleChildOrder, progressVars, Accounting, Carried, Out, Items,
         Types, ProgressTypes, Messages
<1>2. Numbered' /\ Knowledge'
  BY <1>1, OutsideKnowledge
<1>3. CASE bus' = bus \ {c}
  <2>1. Out' = Out \ {c}
    BY <1>1, <1>3 DEF Out
  <2>2. Items' \subseteq Items
    BY <1>1, <2>1 DEF Items
  <2>3. IsFiniteSet(Out') /\ \A n \in Out' : ~(n \in sending' /\ n \in bus') /\ n \notin journal'
    BY <1>1, <1>3, <2>1, FS_Subset DEF Accounting, Carried
  <2> QED  BY <1>1, <1>2, <2>2, <2>3, Dropped DEF Accounting, Carried
<1>4. ASSUME NEW q \in 1 .. c.qty, bus' = (bus \ {c}) \cup {Fill(c, q)}
      PROVE  Accounting'
  <2>1. PICK f : f = Fill(c, q)
    OBVIOUS
  <2>2. /\ f.topic = "orders.filled" /\ f.order = c.order /\ f.slice = c.slice /\ f.qty = q
        /\ q \in Nat /\ q <= c.qty
    BY <1>1, <2>1 DEF Fill
  <2>3. f # c /\ f \notin Items
    <3>1. f # c
      BY <1>1, <2>2
    <3> QED  BY <1>1, <2>2, <3>1 DEF Accounting, Carried
  <2>4. Out' = (Out \ {c}) \cup {f}
    BY <1>1, <1>4, <2>1, <2>2 DEF Out
  <2>5. Items' \subseteq (Items \ {c}) \cup {f}
    BY <1>1, <2>4 DEF Items
  <2>6. IsFiniteSet(Out')
    BY <2>4, FS_Subset, FS_AddElement DEF Accounting, Carried
  <2>7. \A n \in Out' : ~(n \in sending' /\ n \in bus') /\ n \notin journal'
    <3>1. f \notin sending /\ f \notin journal
      BY <2>2, <2>3 DEF Items, Out
    <3> QED  BY <1>1, <1>4, <2>1, <2>4, <3>1 DEF Accounting, Carried
  <2>8. /\ \A k, n \in Items' : k.order = n.order /\ k.slice = n.slice => k = n
        /\ \A n \in Items' : \E s \in sent' : s.order = n.order /\ s.slice = n.slice
        /\ Bounded'
    BY <1>1, <2>2, <2>5, Replaced DEF Accounting
  <2> QED  BY <1>2, <2>6, <2>7, <2>8 DEF Accounting, Carried
<1> QED  BY <1>3, <1>4 DEF HandleChildOrder

LEMMA BusAccounts ==
  ASSUME Types, Types', Accounting, Settle \/ Advance, UNCHANGED <<slicerVars, twap>>
  PROVE  Accounting'
<1>1. UNCHANGED <<journal, sent, givenUp>>
  BY DEF Settle, Advance, progressVars
<1>2. Numbered' /\ Knowledge'
  BY <1>1, OutsideKnowledge
<1>3. /\ Out' \subseteq Out
      /\ \A n \in Out' : ~(n \in sending' /\ n \in bus')
  BY DEF Settle, Advance, Written, Lost, Out, Accounting, Carried
<1>4. Items' \subseteq Items
  BY <1>1, <1>3 DEF Items
<1>5. IsFiniteSet(Out') /\ \A n \in Out' : ~(n \in sending' /\ n \in bus') /\ n \notin journal'
  BY <1>1, <1>3, FS_Subset DEF Accounting, Carried
<1> QED  BY <1>1, <1>2, <1>4, <1>5, Dropped DEF Accounting, Carried

LEMMA NextAccounting ==
  ASSUME IInv, NoneIsNoChild, ~CopiesMap, Types, Types', Accounting, [Next]_vars
  PROVE  Accounting'
<1>1. CASE UNCHANGED vars
  <2>1. UNCHANGED <<slicerVars, twap, sent, givenUp, journal, sending, bus>>
    BY <1>1 DEF vars, progressVars
  <2>2. Numbered' /\ Knowledge'
    BY <2>1, OutsideKnowledge
  <2> QED  BY <2>1, <2>2, NoChildSent DEF Accounting
<1>2. CASE Slicing /\ UNCHANGED <<twap, executed>>
  <2>1. Ticks \subseteq Callbacks
    BY DEF Callbacks
  <2> QED  BY <1>2, <2>1, RoutedAccounts, OnTickAccounts, AnswerAccounts, EvaluateAccounts,
              AfterSendAccounts, SweepAccounts DEF Slicing
<1>3. CASE Twapping /\ UNCHANGED <<slicerVars, executed>>
  BY <1>3, TwapQuietAccounts, TwapSliceAccounts DEF Twapping
<1>4. CASE \E m \in bus : JournalFill(m) /\ UNCHANGED <<slicerVars, twap, executed>>
  BY <1>4, JournalAccounts
<1>5. CASE \E m \in bus : HandleChildOrder(m) /\ UNCHANGED <<progressVars, slicerVars, twap>>
  BY <1>5, EmsAccounts
<1>6. CASE (Settle \/ Advance) /\ UNCHANGED <<slicerVars, twap, executed>>
  BY <1>6, BusAccounts
<1> QED  BY <1>1, <1>2, <1>3, <1>4, <1>5, <1>6 DEF Next

(* VWAP, POV and TWAP never have more out and executed than the order's    *)
(* quantity, but for children that were given up before their fill was     *)
(* journalled: for any orders, quantities, ticks that overlap, delays of   *)
(* the journal, unanswered requests and failed sends.                      *)
THEOREM QuantityKept ==
  ASSUME NoneIsNoChild, ~CopiesMap
  PROVE  Spec => []WithinQuantity
<1>1. IInv /\ Types /\ Types' /\ Accounting /\ [Next]_vars => Accounting'
  BY NextAccounting
<1>2. Spec => []Accounting
  BY <1>1, InitAccounting, Invariant, TypesInvariant, PTL DEF Spec
<1>3. Accounting => WithinQuantity
  <2> SUFFICES ASSUME Accounting, NEW o \in AllOrders
               PROVE  MapThenSumSet(QtyOf, {m \in Out \cup journal :
                        /\ m.order = o
                        /\ [order |-> o, slice |-> m.slice] \notin givenUp}) <= OrderQty(o)
    BY DEF WithinQuantity, Out
  <2>1. Live(o) = {m \in Out \cup journal :
                     /\ m.order = o
                     /\ [order |-> o, slice |-> m.slice] \notin givenUp}
    BY DEF Live, Items
  <2> QED  BY <2>1, SumIsTotal DEF Accounting, Bounded
<1> QED  BY <1>2, <1>3, PTL
=============================================================================
