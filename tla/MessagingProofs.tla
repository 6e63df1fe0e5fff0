--------------------------- MODULE MessagingProofs --------------------------
(***************************************************************************)
(* Theorems about the bus client, for every set of sends, every number of  *)
(* slots, every window and any number of repeats and crashes.              *)
(*                                                                         *)
(* The invariant is the conjunction of three parts that hardly depend on   *)
(* each other: the slots of the producer, its connection, and what the     *)
(* consumer has done with the log.                                         *)
(***************************************************************************)
EXTENDS Messaging, FiniteSetTheorems, TLAPS

USE SendsAssumption, BoundsAssumption

ProducerType ==
  /\ phase \in [Sends -> Phases]
  /\ inFlight \in Nat
  /\ slotWaiters \in Seq(Sends)

(* The queue holds each waiting send once, and nobody waits once stopped.  *)
Queue ==
  /\ WaitersJustified
  /\ \A i, j \in DOMAIN slotWaiters : slotWaiters[i] = slotWaiters[j] => i = j

Slots == ProducerType /\ SlotsAccounted /\ Queue /\ InFlightBounded

(* Before the first connection was made the flag `reconnecting` is down    *)
(* though a loop is at work; no send can fail then, for none is resolved   *)
(* unless the producer was stopped.                                        *)
Connection ==
  /\ connected \in BOOLEAN /\ reconnecting \in BOOLEAN
  /\ loops \in Nat /\ stopped \in BOOLEAN
  /\ connected => ~reconnecting
  /\ (~connected /\ ~reconnecting) =>
       \A s \in Sends : phase[s] # "sending" /\ (phase[s] = "resolved" => stopped)
  /\ AlwaysReconnecting

LogType ==
  /\ log \in Seq(Sends) /\ repeats \in 0 .. MaxRepeats

(* The window is the end of what was handled, the oldest first.            *)
WindowIsTail ==
  /\ Len(seen) <= Window
  /\ Len(seen) <= Len(handled)
  /\ Len(seen) < Window => Len(seen) = Len(handled)
  /\ \A k \in 1 .. Len(seen) : seen[k] = handled[Len(handled) - Len(seen) + k]

(* All that was resolved was handled, as is what a handler works at.       *)
PositionHandled ==
  /\ committed <= position
  /\ busy => /\ link /\ position < Len(log)
             /\ log[position + 1] \in Entries(handled)
  /\ \A n \in 1 .. position : log[n] \in Entries(handled)

Consumed ==
  /\ link \in BOOLEAN /\ busy \in BOOLEAN
  /\ position \in 0 .. Len(log) /\ committed \in 0 .. Len(log)
  /\ seen \in Seq(Sends) /\ handled \in Seq(Sends)
  /\ crashes \in 0 .. MaxCrashes
  /\ WindowIsTail /\ PositionHandled /\ HandledOncePerWindow

IInv == Slots /\ Connection /\ LogType /\ Consumed

-----------------------------------------------------------------------------
LEMMA InitIInv == Init => IInv
  <1> SUFFICES ASSUME Init PROVE IInv
    OBVIOUS
  <1>1. \A phases : "idle" \notin phases => In(phases) = {}
    BY DEF Init, In
  <1>2. /\ In(HoldsSlot) = {} /\ In({"sending"}) = {} /\ In({"slot"}) = {}
    BY <1>1 DEF HoldsSlot
  <1>3. Slots
    <2>1. Entries(slotWaiters) = {} /\ Len(slotWaiters) = 0 /\ DOMAIN slotWaiters = {}
      BY DEF Init, Entries
    <2>2. ProducerType
      BY DEF Init, ProducerType, Phases
    <2>3. Queue
      <3>1. Cardinality(In({"slot"})) = 0
        BY <1>2, FS_EmptySet
      <3>2. slotWaiters = <<>>
        BY DEF Init
      <3> QED
        BY <1>2, <2>1, <3>1, <3>2 DEF Queue, WaitersJustified
    <2>4. SlotsAccounted /\ InFlightBounded
      <3>1. Cardinality(In(HoldsSlot)) = 0 /\ Cardinality(In({"sending"})) = 0
        BY <1>2, FS_EmptySet
      <3> QED
        BY <3>1 DEF Init, SlotsAccounted, InFlightBounded
    <2> QED
      BY <2>2, <2>3, <2>4 DEF Slots
  <1>4. Connection
    BY DEF Init, Connection, AlwaysReconnecting
  <1>5. LogType /\ Consumed
    <2>1. /\ log \in Seq(Sends) /\ seen \in Seq(Sends) /\ handled \in Seq(Sends)
          /\ Len(log) = 0 /\ Len(seen) = 0 /\ Len(handled) = 0 /\ DOMAIN handled = {}
      BY DEF Init
    <2>2. WindowIsTail /\ PositionHandled /\ HandledOncePerWindow
      BY <2>1 DEF Init, WindowIsTail, PositionHandled, HandledOncePerWindow
    <2>3. link \in BOOLEAN /\ busy \in BOOLEAN
      BY DEF Init
    <2> QED
      BY <2>1, <2>2, <2>3 DEF Init, LogType, Consumed
  <1> QED
    BY <1>3, <1>4, <1>5 DEF IInv

-----------------------------------------------------------------------------
(* The connection.                                                         *)

LEMMA ReleaseSlotPhases ==
  ASSUME ProducerType, Queue, NEW s \in Sends, ReleaseSlot(s)
  PROVE  /\ phase' \in [Sends -> Phases]
         /\ \A t \in Sends : phase'[t] \in {phase[t], "settled", "granted"}
  <1>1. CASE slotWaiters = <<>>
    BY <1>1 DEF ReleaseSlot, Becomes, ProducerType, Phases
  <1>2. CASE slotWaiters # <<>>
    <2>1. Head(slotWaiters) \in Sends
      BY <1>2 DEF ProducerType
    <2> QED
      BY <1>2, <2>1 DEF ReleaseSlot, ProducerType, Phases
  <1> QED
    BY <1>1, <1>2

LEMMA StepConnection ==
  ASSUME IInv, Next
  PROVE  Connection'
  <1> USE DEF IInv, Slots
  <1>1. ASSUME NEW s \in Sends, CallSend(s)
        PROVE  Connection'
    <2>1. \A t \in Sends : phase'[t] \in {phase[t], "settled", "granted", "slot"}
      BY <1>1 DEF CallSend, AcquireSlot, Becomes, ProducerType
    <2> QED
      BY <1>1, <2>1 DEF CallSend, Connection, AlwaysReconnecting
  <1>2. ASSUME NEW s \in Sends, WaitForConnection(s)
        PROVE  Connection'
    BY <1>2 DEF WaitForConnection, Becomes, Connection, AlwaysReconnecting, ProducerType
  <1>3. ASSUME NEW s \in Sends, Proceed(s)
        PROVE  Connection'
    <2>1. CASE stopped
      <3>1. \A t \in Sends : phase'[t] \in {phase[t], "settled", "granted"}
        BY <1>3, <2>1, ReleaseSlotPhases DEF Proceed
      <3> QED
        BY <1>3, <3>1 DEF Proceed, Connection, AlwaysReconnecting
    <2>2. CASE ~stopped
      BY <1>3, <2>2 DEF Proceed, Becomes, Connection, AlwaysReconnecting, ProducerType
    <2> QED
      BY <2>1, <2>2
  <1>4. ASSUME NEW s \in Sends, SendAcknowledged(s)
        PROVE  Connection'
    <2>1. \A t \in Sends : phase'[t] \in {phase[t], "settled", "granted"}
      BY <1>4, ReleaseSlotPhases DEF SendAcknowledged
    <2> QED
      BY <1>4, <2>1 DEF SendAcknowledged, Connection, AlwaysReconnecting
  <1>5. ASSUME NEW s \in Sends, SendFailed(s)
        PROVE  Connection'
    <2>1. connected' = FALSE /\ reconnecting' = TRUE /\ stopped' = stopped
      BY <1>5 DEF SendFailed, Reconnect
    <2>2. phase[s] = "sending"
      BY <1>5 DEF SendFailed
    <2>3. stopped \in BOOLEAN /\ loops \in Nat
      BY DEF Connection
    <2>4. loops' \in Nat
      BY <1>5, <2>3 DEF SendFailed, Reconnect
    <2>5. ASSUME ~stopped
          PROVE  loops' = 1
      <3>1. CASE reconnecting
        <4>1. ~connected
          BY <3>1 DEF Connection
        <4>2. loops = 1
          BY <2>5, <4>1 DEF Connection, AlwaysReconnecting
        <4> QED
          BY <1>5, <3>1, <4>2 DEF SendFailed, Reconnect
      <3>2. CASE ~reconnecting
        <4>1. connected
          BY <2>2, <3>2 DEF Connection
        <4>2. loops = 0
          BY <2>5, <4>1 DEF Connection, AlwaysReconnecting
        <4> QED
          BY <1>5, <2>5, <3>2, <4>2 DEF SendFailed, Reconnect
      <3> QED
        BY <3>1, <3>2
    <2> QED
      BY <2>1, <2>3, <2>4, <2>5, Zenon DEF Connection, AlwaysReconnecting
  <1>6. CASE Connected
    <2>1. loops' \in Nat
      BY <1>6 DEF Connected, Connection
    <2>2. ~stopped => loops' = 0
      <3> SUFFICES ASSUME ~stopped PROVE loops' = 0
        OBVIOUS
      <3>1. loops = 0 \/ loops = 1
        BY DEF Connection, AlwaysReconnecting
      <3> QED
        BY <1>6, <3>1 DEF Connected
    <2>3. connected' = TRUE /\ reconnecting' = FALSE /\ stopped' = stopped
      BY <1>6 DEF Connected
    <2>4. stopped \in BOOLEAN
      BY DEF Connection
    <2> QED
      BY <2>1, <2>2, <2>3, <2>4, Zenon DEF Connection, AlwaysReconnecting
  <1>7. CASE LoopEnds
    <2>1. loops' \in Nat
      BY <1>7 DEF LoopEnds, Connection
    <2>2. stopped /\ UNCHANGED <<phase, connected, reconnecting, stopped>>
      BY <1>7 DEF LoopEnds
    <2> QED
      BY <2>1, <2>2, Zenon DEF Connection, AlwaysReconnecting
  <1>8. CASE Disconnect
    <2>1. \A t \in Sends : phase'[t] = "sending" => phase[t] = "sending"
      BY <1>8 DEF Disconnect, ProducerType
    <2> QED
      BY <1>8, <2>1 DEF Disconnect, Connection, AlwaysReconnecting
  <1>9. ASSUME UNCHANGED producerVars
        PROVE  Connection'
    BY <1>9 DEF producerVars, Connection, AlwaysReconnecting
  <1>10. ASSUME \/ \E s \in Sends : Write(s)
                \/ ConsumerConnects \/ Deliver \/ HandlerLeft \/ Commit \/ ConsumerCrash
         PROVE  UNCHANGED producerVars
    BY <1>10 DEF Write, ConsumerConnects, Deliver, HandlerLeft, Commit, ConsumerCrash
  <1> QED
    BY <1>1, <1>2, <1>3, <1>4, <1>5, <1>6, <1>7, <1>8, <1>9, <1>10 DEF Next

-----------------------------------------------------------------------------
(* Sequences.                                                              *)

LEMMA AppendFacts ==
  ASSUME NEW S, NEW q \in Seq(S), NEW e \in S
  PROVE  /\ Append(q, e) \in Seq(S)
         /\ Len(Append(q, e)) = Len(q) + 1
         /\ \A i \in 1 .. Len(q) : Append(q, e)[i] = q[i]
         /\ Append(q, e)[Len(q) + 1] = e
         /\ Entries(Append(q, e)) = Entries(q) \cup {e}
  <1>1. /\ Append(q, e) \in Seq(S)
        /\ Len(Append(q, e)) = Len(q) + 1
        /\ \A i \in 1 .. Len(q) : Append(q, e)[i] = q[i]
        /\ Append(q, e)[Len(q) + 1] = e
        /\ Len(q) \in Nat
        /\ DOMAIN q = 1 .. Len(q)
        /\ DOMAIN Append(q, e) = 1 .. Len(q) + 1
    OBVIOUS
  <1>2. Entries(Append(q, e)) \subseteq Entries(q) \cup {e}
    BY <1>1 DEF Entries
  <1>3. Entries(q) \cup {e} \subseteq Entries(Append(q, e))
    BY <1>1 DEF Entries
  <1> QED
    BY <1>1, <1>2, <1>3

LEMMA TailFacts ==
  ASSUME NEW S, NEW q \in Seq(S), q # <<>>
  PROVE  /\ Tail(q) \in Seq(S) /\ Head(q) \in S
         /\ Len(q) \in Nat \ {0} /\ Len(Tail(q)) = Len(q) - 1
         /\ Head(q) = q[1]
         /\ \A i \in 1 .. Len(q) - 1 : Tail(q)[i] = q[i + 1]
         /\ DOMAIN q = 1 .. Len(q) /\ DOMAIN Tail(q) = 1 .. Len(q) - 1
  OBVIOUS

-----------------------------------------------------------------------------
(* The slots.                                                              *)

LEMMA InFinite ==
  ASSUME NEW phases
  PROVE  /\ IsFiniteSet(In(phases)) /\ Cardinality(In(phases)) \in Nat
         /\ IsFiniteSet(In(phases)') /\ Cardinality(In(phases)') \in Nat
  BY FS_Subset, FS_CardinalityType DEF In

(* A send without a slot sends nothing.                                    *)
LEMMA SendingBounded ==
  ASSUME SlotsAccounted', inFlight' <= MaxInFlight, inFlight' \in Nat
  PROVE  Cardinality(In({"sending"}))' <= MaxInFlight
  <1>1. In({"sending"})' \subseteq In(HoldsSlot)'
    BY DEF In, HoldsSlot
  <1>2. Cardinality(In({"sending"})') <= Cardinality(In(HoldsSlot)')
    BY <1>1, InFinite, FS_Subset
  <1> QED
    BY <1>2, InFinite DEF SlotsAccounted

LEMMA UnmovedSlots ==
  ASSUME Slots, phase' \in [Sends -> Phases],
         UNCHANGED <<inFlight, slotWaiters, stopped>>,
         In(HoldsSlot)' = In(HoldsSlot), In({"slot"})' = In({"slot"}),
         ~stopped \/ In({"sending"})' \subseteq In({"sending"})
  PROVE  Slots'
  <1>1. ProducerType' /\ SlotsAccounted'
    BY DEF Slots, ProducerType, SlotsAccounted
  <1>2. Queue'
    BY DEF Slots, Queue, WaitersJustified, Entries
  <1>3. Cardinality(In({"sending"}))' <= MaxInFlight
    <2>1. CASE ~stopped
      BY <1>1, <2>1, SendingBounded DEF Slots, InFlightBounded, ProducerType
    <2>2. CASE In({"sending"})' \subseteq In({"sending"})
      <3>1. Cardinality(In({"sending"})') <= Cardinality(In({"sending"}))
        BY <2>2, InFinite, FS_Subset
      <3> QED
        BY <3>1, InFinite DEF Slots, InFlightBounded
    <2> QED
      BY <2>1, <2>2
  <1> QED
    BY <1>1, <1>2, <1>3 DEF Slots, InFlightBounded

LEMMA ReleaseSlotSlots ==
  ASSUME Slots, NEW s \in Sends, phase[s] \in HoldsSlot, ReleaseSlot(s),
         stopped' = stopped
  PROVE  Slots'
  <1> USE DEF Slots
  <1>1. /\ phase' \in [Sends -> Phases]
        /\ In({"sending"})' \subseteq In({"sending"})
    <2>1. phase' \in [Sends -> Phases] /\ \A t \in Sends : phase'[t] \in {phase[t], "settled", "granted"}
      BY ReleaseSlotPhases
    <2> QED
      BY <2>1 DEF In
  <1>2. Cardinality(In({"sending"})') <= MaxInFlight
    <2>1. Cardinality(In({"sending"})') <= Cardinality(In({"sending"}))
      BY <1>1, InFinite, FS_Subset
    <2> QED
      BY <2>1, InFinite DEF InFlightBounded
  <1>3. s \in In(HoldsSlot) /\ inFlight \in Nat \ {0}
    <2>1. s \in In(HoldsSlot)
      BY DEF In
    <2>2. Cardinality(In(HoldsSlot)) # 0
      BY <2>1, InFinite, FS_EmptySet
    <2> QED
      BY <2>1, <2>2, InFinite DEF SlotsAccounted
  <1>4. CASE slotWaiters = <<>>
    <2>1. In(HoldsSlot)' = In(HoldsSlot) \ {s} /\ In({"slot"})' = In({"slot"})
      BY <1>4 DEF ReleaseSlot, Becomes, In, HoldsSlot, ProducerType
    <2>2. Cardinality(In(HoldsSlot)') = Cardinality(In(HoldsSlot)) - 1
      <3>1. Cardinality(In(HoldsSlot) \ {s}) = Cardinality(In(HoldsSlot)) - 1
        BY <1>3, InFinite, FS_RemoveElement
      <3> QED
        BY <2>1, <3>1
    <2>3. inFlight' = inFlight - 1 /\ slotWaiters' = slotWaiters
      BY <1>4 DEF ReleaseSlot
    <2>4. SlotsAccounted' /\ ProducerType'
      BY <1>1, <1>3, <2>2, <2>3 DEF SlotsAccounted, ProducerType
    <2>5. Queue'
      BY <1>4, <2>1, <2>3 DEF Queue, WaitersJustified, Entries
    <2>6. InFlightBounded'
      BY <1>2, <1>3, <2>3 DEF InFlightBounded
    <2> QED
      BY <2>4, <2>5, <2>6
  <1>5. CASE slotWaiters # <<>>
    <2> DEFINE w == Head(slotWaiters)
    <2>1. /\ phase' = [phase EXCEPT ![s] = "settled", ![w] = "granted"]
          /\ slotWaiters' = Tail(slotWaiters) /\ inFlight' = inFlight
      BY <1>5 DEF ReleaseSlot
    <2>2. /\ w \in Sends /\ w = slotWaiters[1] /\ DOMAIN slotWaiters = 1 .. Len(slotWaiters)
          /\ Len(slotWaiters) \in Nat \ {0}
      BY <1>5, TailFacts DEF ProducerType
    <2>3. w \in In({"slot"})
      BY <2>2 DEF Queue, WaitersJustified, Entries
    <2>4. w # s /\ phase[w] = "slot"
      BY <2>3 DEF In, HoldsSlot
    <2>5. /\ In(HoldsSlot)' = (In(HoldsSlot) \ {s}) \cup {w}
          /\ In({"slot"})' = In({"slot"}) \ {w}
      BY <2>1, <2>2, <2>4 DEF In, HoldsSlot, ProducerType
    <2>6. Cardinality(In(HoldsSlot)') = Cardinality(In(HoldsSlot))
      <3>1. /\ IsFiniteSet(In(HoldsSlot) \ {s})
            /\ Cardinality(In(HoldsSlot) \ {s}) = Cardinality(In(HoldsSlot)) - 1
        BY <1>3, InFinite, FS_RemoveElement
      <3>2. w \notin In(HoldsSlot) \ {s}
        BY <2>4 DEF In, HoldsSlot
      <3>3. Cardinality((In(HoldsSlot) \ {s}) \cup {w}) = Cardinality(In(HoldsSlot) \ {s}) + 1
        BY <3>1, <3>2, FS_AddElement
      <3> QED
        BY <2>5, <3>1, <3>3, InFinite
    <2>7. Cardinality(In({"slot"})') = Cardinality(In({"slot"})) - 1
      BY <2>3, <2>5, InFinite, FS_RemoveElement
    <2>8. SlotsAccounted' /\ ProducerType' /\ InFlightBounded'
      BY <1>1, <1>2, <1>5, <2>1, <2>6, TailFacts
         DEF SlotsAccounted, ProducerType, InFlightBounded
    <2>9. Entries(slotWaiters') = In({"slot"})'
      <3>1. Entries(slotWaiters') = Entries(slotWaiters) \ {w}
        <4>1. /\ DOMAIN slotWaiters' = 1 .. Len(slotWaiters) - 1
              /\ \A i \in 1 .. Len(slotWaiters) - 1 : slotWaiters'[i] = slotWaiters[i + 1]
          BY <1>5, <2>1, TailFacts DEF ProducerType
        <4>2. Entries(slotWaiters') \subseteq Entries(slotWaiters) \ {w}
          BY <2>2, <4>1 DEF Entries, Queue
        <4>3. ASSUME NEW i \in 2 .. Len(slotWaiters)
              PROVE  slotWaiters[i] \in Entries(slotWaiters')
          <5>1. i - 1 \in DOMAIN slotWaiters' /\ slotWaiters'[i - 1] = slotWaiters[i]
            BY <2>2, <4>1
          <5> QED
            BY <5>1 DEF Entries
        <4>4. Entries(slotWaiters) \ {w} \subseteq Entries(slotWaiters')
          <5> SUFFICES ASSUME NEW e \in Entries(slotWaiters), e # w
                       PROVE  e \in Entries(slotWaiters')
            OBVIOUS
          <5>1. PICK i \in 1 .. Len(slotWaiters) : e = slotWaiters[i]
            BY <2>2 DEF Entries
          <5>2. i \in 2 .. Len(slotWaiters)
            BY <2>2, <5>1
          <5> QED
            BY <4>3, <5>1, <5>2
        <4> QED
          BY <4>2, <4>4
      <3> QED
        BY <2>5, <3>1 DEF Queue, WaitersJustified
    <2>10. Queue'
      <3>1. /\ Len(slotWaiters') = Len(slotWaiters) - 1
            /\ DOMAIN slotWaiters' = 1 .. Len(slotWaiters) - 1
            /\ \A i \in 1 .. Len(slotWaiters) - 1 : slotWaiters'[i] = slotWaiters[i + 1]
        BY <1>5, <2>1, TailFacts DEF ProducerType
      <3>2. \A i, j \in DOMAIN slotWaiters' : slotWaiters'[i] = slotWaiters'[j] => i = j
        <4> SUFFICES ASSUME NEW i \in DOMAIN slotWaiters', NEW j \in DOMAIN slotWaiters',
                            slotWaiters'[i] = slotWaiters'[j]
                     PROVE  i = j
          OBVIOUS
        <4>1. slotWaiters[i + 1] = slotWaiters[j + 1] /\ i + 1 \in DOMAIN slotWaiters
                /\ j + 1 \in DOMAIN slotWaiters
          BY <2>2, <3>1
        <4>2. i + 1 = j + 1
          BY <4>1 DEF Queue
        <4> QED
          BY <2>2, <3>1, <4>2
      <3>3. Len(slotWaiters') <= MaxInFlight /\ Len(slotWaiters') = Cardinality(In({"slot"})')
        BY <2>2, <2>7, <3>1 DEF Queue, WaitersJustified
      <3>4. inFlight' >= MaxInFlight
        BY <1>5, <2>1 DEF Queue, WaitersJustified
      <3> QED
        BY <2>9, <3>2, <3>3, <3>4 DEF Queue, WaitersJustified
    <2> QED
      BY <2>8, <2>10
  <1> QED
    BY <1>4, <1>5

LEMMA CallSendSlots ==
  ASSUME Slots, NEW s \in Sends, CallSend(s)
  PROVE  Slots'
  <1> USE DEF Slots
  <1>1. phase[s] = "idle" /\ stopped' = stopped
    BY DEF CallSend
  <1>2. CASE Becomes(s, "settled") /\ UNCHANGED <<inFlight, slotWaiters>>
    <2>1. /\ phase' \in [Sends -> Phases]
          /\ In(HoldsSlot)' = In(HoldsSlot) /\ In({"slot"})' = In({"slot"})
          /\ In({"sending"})' \subseteq In({"sending"})
      BY <1>1, <1>2 DEF Becomes, In, HoldsSlot, ProducerType, Phases
    <2> QED
      BY <1>1, <1>2, <2>1, UnmovedSlots
  <1>3. CASE /\ inFlight < MaxInFlight
             /\ Becomes(s, "granted") /\ inFlight' = inFlight + 1 /\ UNCHANGED slotWaiters
    <2>1. /\ phase' \in [Sends -> Phases]
          /\ In(HoldsSlot)' = In(HoldsSlot) \cup {s} /\ In({"slot"})' = In({"slot"})
          /\ s \notin In(HoldsSlot)
      BY <1>1, <1>3 DEF Becomes, In, HoldsSlot, ProducerType, Phases
    <2>2. Cardinality(In(HoldsSlot)') = Cardinality(In(HoldsSlot)) + 1
      BY <2>1, InFinite, FS_AddElement
    <2>3. SlotsAccounted' /\ ProducerType' /\ inFlight' <= MaxInFlight
      BY <1>3, <2>1, <2>2 DEF SlotsAccounted, ProducerType
    <2>4. InFlightBounded'
      BY <2>3, SendingBounded DEF InFlightBounded, ProducerType
    <2>5. slotWaiters = <<>>
      BY <1>3 DEF Queue, WaitersJustified, ProducerType
    <2>6. Queue'
      BY <1>3, <2>1, <2>5 DEF Queue, WaitersJustified, Entries
    <2> QED
      BY <2>3, <2>4, <2>6
  <1>4. CASE /\ ~(inFlight < MaxInFlight) /\ ~(Len(slotWaiters) >= MaxInFlight)
             /\ Becomes(s, "slot") /\ slotWaiters' = Append(slotWaiters, s) /\ UNCHANGED inFlight
    <2>1. /\ phase' \in [Sends -> Phases]
          /\ In(HoldsSlot)' = In(HoldsSlot) /\ In({"slot"})' = In({"slot"}) \cup {s}
          /\ In({"sending"})' = In({"sending"})
          /\ s \notin In({"slot"})
      BY <1>1, <1>4 DEF Becomes, In, HoldsSlot, ProducerType, Phases
    <2>2. Cardinality(In({"slot"})') = Cardinality(In({"slot"})) + 1
      BY <2>1, InFinite, FS_AddElement
    <2>3. /\ slotWaiters' \in Seq(Sends)
          /\ Len(slotWaiters') = Len(slotWaiters) + 1
          /\ Entries(slotWaiters') = Entries(slotWaiters) \cup {s}
          /\ \A i \in 1 .. Len(slotWaiters) : slotWaiters'[i] = slotWaiters[i]
          /\ slotWaiters'[Len(slotWaiters) + 1] = s
          /\ DOMAIN slotWaiters' = 1 .. Len(slotWaiters) + 1
      BY <1>4, AppendFacts DEF ProducerType
    <2>4. Len(slotWaiters) \in Nat /\ DOMAIN slotWaiters = 1 .. Len(slotWaiters)
      BY DEF ProducerType
    <2>5. \A i, j \in DOMAIN slotWaiters' : slotWaiters'[i] = slotWaiters'[j] => i = j
      <3>1. \A i \in 1 .. Len(slotWaiters) : slotWaiters[i] # s
        BY <2>1, <2>4 DEF Queue, WaitersJustified, Entries
      <3> QED
        BY <2>3, <2>4, <3>1 DEF Queue
    <2>6. Queue'
      BY <1>4, <2>1, <2>2, <2>3, <2>4, <2>5 DEF Queue, WaitersJustified, ProducerType
    <2>7. ProducerType' /\ SlotsAccounted' /\ InFlightBounded'
      BY <1>1, <1>4, <2>1, <2>3 DEF ProducerType, SlotsAccounted, InFlightBounded
    <2> QED
      BY <2>6, <2>7
  <1> QED
    BY <1>2, <1>3, <1>4 DEF CallSend, AcquireSlot

LEMMA DisconnectSlots ==
  ASSUME Slots, Disconnect
  PROVE  Slots'
  <1> USE DEF Slots
  <1>1. /\ phase' \in [Sends -> Phases]
        /\ In(HoldsSlot)' = In(HoldsSlot) \cup In({"slot"})
        /\ In({"slot"})' = {}
        /\ In({"sending"})' = In({"sending"})
        /\ In(HoldsSlot) \cap In({"slot"}) = {}
    BY DEF Disconnect, In, HoldsSlot, ProducerType, Phases
  <1>2. Cardinality(In(HoldsSlot)') = Cardinality(In(HoldsSlot)) + Cardinality(In({"slot"}))
    <2>1. Cardinality(In(HoldsSlot) \cup In({"slot"}))
            = Cardinality(In(HoldsSlot)) + Cardinality(In({"slot"}))
                - Cardinality(In(HoldsSlot) \cap In({"slot"}))
      BY InFinite, FS_Union
    <2>2. Cardinality(In(HoldsSlot) \cap In({"slot"})) = 0
      BY <1>1, FS_EmptySet
    <2> QED
      BY <1>1, <2>1, <2>2, InFinite
  <1>3. ProducerType' /\ SlotsAccounted'
    BY <1>1, <1>2, InFinite DEF Disconnect, ProducerType, SlotsAccounted, Queue, WaitersJustified
  <1>4. Queue'
    <2>1. slotWaiters' = <<>> /\ Len(slotWaiters') = 0 /\ DOMAIN slotWaiters' = {}
      BY DEF Disconnect
    <2>2. Cardinality(In({"slot"})') = 0
      BY <1>1, FS_EmptySet
    <2> QED
      BY <1>1, <2>1, <2>2 DEF Queue, WaitersJustified, Entries
  <1>5. InFlightBounded'
    BY <1>1 DEF Disconnect, InFlightBounded
  <1> QED
    BY <1>3, <1>4, <1>5

LEMMA StepSlots ==
  ASSUME IInv, Next
  PROVE  Slots'
  <1>0. Slots
    BY DEF IInv
  <1>1. ASSUME NEW s \in Sends, WaitForConnection(s)
        PROVE  Slots'
    <2>1. /\ phase' \in [Sends -> Phases]
          /\ In(HoldsSlot)' = In(HoldsSlot) /\ In({"slot"})' = In({"slot"})
          /\ In({"sending"})' \subseteq In({"sending"})
      BY <1>0, <1>1 DEF WaitForConnection, Becomes, In, HoldsSlot, Slots, ProducerType, Phases
    <2> QED
      BY <1>0, <1>1, <2>1, UnmovedSlots DEF WaitForConnection
  <1>2. ASSUME NEW s \in Sends, Proceed(s)
        PROVE  Slots'
    <2>1. CASE stopped
      BY <1>0, <1>2, <2>1, ReleaseSlotSlots DEF Proceed, HoldsSlot
    <2>2. CASE ~stopped
      <3>1. /\ phase' \in [Sends -> Phases]
            /\ In(HoldsSlot)' = In(HoldsSlot) /\ In({"slot"})' = In({"slot"})
        BY <1>0, <1>2, <2>2 DEF Proceed, Becomes, In, HoldsSlot, Slots, ProducerType, Phases
      <3> QED
        BY <1>0, <1>2, <2>2, <3>1, UnmovedSlots DEF Proceed
    <2> QED
      BY <2>1, <2>2
  <1>3. ASSUME NEW s \in Sends, SendAcknowledged(s)
        PROVE  Slots'
    BY <1>0, <1>3, ReleaseSlotSlots DEF SendAcknowledged, HoldsSlot
  <1>4. ASSUME NEW s \in Sends, SendFailed(s)
        PROVE  Slots'
    BY <1>0, <1>4, ReleaseSlotSlots DEF SendFailed, HoldsSlot
  <1>5. CASE Connected
    <2>1. /\ phase' \in [Sends -> Phases]
          /\ In(HoldsSlot)' = In(HoldsSlot) /\ In({"slot"})' = In({"slot"})
          /\ In({"sending"})' \subseteq In({"sending"})
      BY <1>0, <1>5 DEF Connected, In, HoldsSlot, Slots, ProducerType, Phases
    <2> QED
      BY <1>0, <1>5, <2>1, UnmovedSlots DEF Connected
  <1>6. ASSUME UNCHANGED <<phase, inFlight, slotWaiters, stopped>>
        PROVE  Slots'
    BY <1>0, <1>6 DEF Slots, ProducerType, SlotsAccounted, Queue, WaitersJustified, Entries,
                      InFlightBounded, In
  <1>7. ASSUME \/ LoopEnds \/ \E s \in Sends : Write(s)
               \/ ConsumerConnects \/ Deliver \/ HandlerLeft \/ Commit \/ ConsumerCrash
        PROVE  UNCHANGED <<phase, inFlight, slotWaiters, stopped>>
    BY <1>7 DEF LoopEnds, Write, ConsumerConnects, Deliver, HandlerLeft, Commit,
                ConsumerCrash, producerVars
  <1> QED
    BY <1>0, <1>1, <1>2, <1>3, <1>4, <1>5, <1>6, <1>7, CallSendSlots, DisconnectSlots DEF Next

-----------------------------------------------------------------------------
(* The log and the consumer.                                               *)

LEMMA StepLog == IInv /\ Next => LogType'
  <1> SUFFICES ASSUME IInv, Next
               PROVE  LogType'
    OBVIOUS
  <1>1. ASSUME NEW s \in Sends, Write(s)
        PROVE  LogType'
    <2>1. log' \in Seq(Sends)
      BY <1>1, AppendFacts DEF IInv, LogType, Write
    <2>2. repeats' \in 0 .. MaxRepeats
      BY <1>1 DEF IInv, LogType, Write
    <2> QED
      BY <2>1, <2>2 DEF LogType
  <1>2. ASSUME UNCHANGED <<log, repeats>>
        PROVE  LogType'
    BY <1>2 DEF IInv, LogType
  <1>3. ASSUME ~ \E s \in Sends : Write(s)
        PROVE  UNCHANGED <<log, repeats>>
    BY <1>3 DEF Next, CallSend, WaitForConnection, Proceed, SendAcknowledged, SendFailed,
                Connected, LoopEnds, Disconnect, ConsumerConnects, Deliver, HandlerLeft,
                Commit, ConsumerCrash
  <1> QED
    BY <1>1, <1>2, <1>3

(* The window slides by one when id is added at both ends; `longer` is the *)
(* window before its oldest is dropped.                                    *)
LEMMA WindowSlides ==
  ASSUME WindowIsTail, Len(seen) \in Nat, Len(handled) \in Nat, Len(seen') \in Nat,
         NEW id, NEW longer,
         Len(handled') = Len(handled) + 1,
         \A i \in 1 .. Len(handled) : handled'[i] = handled[i],
         handled'[Len(handled) + 1] = id,
         \A k \in 1 .. Len(seen) : longer[k] = seen[k],
         longer[Len(seen) + 1] = id,
         Len(seen) + 1 > Window =>
           Len(seen') = Len(seen) /\ \A k \in 1 .. Len(seen) : seen'[k] = longer[k + 1],
         ~(Len(seen) + 1 > Window) => Len(seen') = Len(seen) + 1 /\ seen' = longer
  PROVE  WindowIsTail'
  <1> DEFINE l == Len(handled)
             n == Len(seen)
             n1 == Len(seen')
  <1>1. /\ l \in Nat /\ n \in Nat /\ n1 \in Nat /\ Window \in Nat \ {0}
        /\ n <= l /\ n <= Window /\ (n < Window => n = l)
        /\ Len(handled') = l + 1
    BY DEF WindowIsTail
  <1>2. \A k \in 1 .. n + 1 : longer[k] = handled'[l - n + k]
    <2> SUFFICES ASSUME NEW k \in 1 .. n + 1
                 PROVE  longer[k] = handled'[l - n + k]
      OBVIOUS
    <2>1. CASE k = n + 1
      <3>1. l - n + k = l + 1
        BY <1>1, <2>1
      <3> QED
        BY <2>1, <3>1
    <2>2. CASE k \in 1 .. n
      <3>1. l - n + k \in 1 .. l
        BY <1>1, <2>2
      <3>2. seen[k] = handled[l - n + k]
        BY <2>2 DEF WindowIsTail
      <3> QED
        BY <2>2, <3>1, <3>2
    <2> QED
      BY <1>1, <2>1, <2>2
  <1>3. CASE n + 1 > Window
    <2>1. n = Window /\ n1 = n
      BY <1>1, <1>3
    <2>2. ASSUME NEW k \in 1 .. n1
          PROVE  seen'[k] = handled'[l + 1 - n1 + k]
      <3>0. k \in 1 .. n /\ k \in Nat
        BY <1>1, <2>1
      <3>1. k + 1 \in 1 .. n + 1 /\ l - n + (k + 1) = l + 1 - n1 + k
        <4> HIDE DEF l, n, n1
        <4>1. k + 1 \in 1 .. n + 1
          BY <1>1, <3>0
        <4>2. l - n + (k + 1) = l + 1 - n + k
          BY <1>1, <3>0
        <4> QED
          BY <2>1, <4>1, <4>2
      <3>2. seen'[k] = longer[k + 1]
        BY <1>3, <2>1
      <3> QED
        BY <1>2, <3>1, <3>2
    <2> QED
      BY <1>1, <2>1, <2>2 DEF WindowIsTail
  <1>4. CASE ~(n + 1 > Window)
    <2>1. n = l /\ n1 = n + 1 /\ seen' = longer
      BY <1>1, <1>4
    <2>2. ASSUME NEW k \in 1 .. n1
          PROVE  seen'[k] = handled'[l + 1 - n1 + k]
      <3>1. k \in 1 .. n + 1 /\ l + 1 - n1 + k = l - n + k
        BY <1>1, <2>1
      <3> QED
        BY <1>2, <2>1, <3>1
    <2> QED
      BY <1>1, <1>4, <2>1, <2>2 DEF WindowIsTail
  <1> QED
    BY <1>3, <1>4

LEMMA OutsideWindow ==
  ASSUME WindowIsTail, Len(seen) \in Nat, Len(handled) \in Nat, NEW id,
         \A k \in 1 .. Len(seen) : seen[k] # id
  PROVE  \A i \in 1 .. Len(handled) : handled[i] = id => Len(handled) + 1 - i > Window
  <1> SUFFICES ASSUME NEW i \in 1 .. Len(handled), handled[i] = id,
                      ~(Len(handled) + 1 - i > Window)
               PROVE  FALSE
    OBVIOUS
  <1>1. /\ i - (Len(handled) - Len(seen)) \in 1 .. Len(seen)
        /\ Len(handled) - Len(seen) + (i - (Len(handled) - Len(seen))) = i
    BY DEF WindowIsTail
  <1>2. seen[i - (Len(handled) - Len(seen))] = handled[i]
    BY <1>1 DEF WindowIsTail
  <1> QED
    BY <1>1, <1>2

LEMMA RepeatsStayApart ==
  ASSUME NEW h, NEW h1, NEW id, NEW l \in Nat, NEW size \in Nat,
         \A i, j \in 1 .. l : (i < j /\ h[i] = h[j]) => j - i > size,
         \A i \in 1 .. l : h[i] = id => l + 1 - i > size,
         \A i \in 1 .. l : h1[i] = h[i],
         h1[l + 1] = id
  PROVE  \A i, j \in 1 .. l + 1 : (i < j /\ h1[i] = h1[j]) => j - i > size
  <1> SUFFICES ASSUME NEW i \in 1 .. l + 1, NEW j \in 1 .. l + 1, i < j, h1[i] = h1[j]
               PROVE  j - i > size
    OBVIOUS
  <1>1. i \in 1 .. l
    OBVIOUS
  <1>2. CASE j = l + 1
    BY <1>1, <1>2
  <1>3. CASE j \in 1 .. l
    BY <1>1, <1>3
  <1> QED
    BY <1>2, <1>3

(* A message that is not in the window was last handled more than Window   *)
(* messages ago.                                                           *)
LEMMA RememberWindow ==
  ASSUME Consumed, NEW id \in Sends, id \notin Entries(seen),
         Remember(id), handled' = Append(handled, id)
  PROVE  /\ seen' \in Seq(Sends) /\ handled' \in Seq(Sends)
         /\ WindowIsTail' /\ HandledOncePerWindow'
  <1>0. seen \in Seq(Sends) /\ handled \in Seq(Sends) /\ WindowIsTail /\ HandledOncePerWindow
    BY DEF Consumed
  <1>1. /\ Len(seen) \in Nat /\ DOMAIN seen = 1 .. Len(seen)
        /\ Len(handled) \in Nat /\ DOMAIN handled = 1 .. Len(handled)
    BY <1>0
  <1>2. /\ handled' \in Seq(Sends) /\ Len(handled') = Len(handled) + 1
        /\ \A i \in 1 .. Len(handled) : handled'[i] = handled[i]
        /\ handled'[Len(handled) + 1] = id
        /\ DOMAIN handled' = 1 .. Len(handled) + 1
    BY <1>0, AppendFacts
  <1> DEFINE longer == Append(seen, id)
  <1>3. /\ longer \in Seq(Sends) /\ longer # <<>> /\ Len(longer) = Len(seen) + 1
        /\ \A k \in 1 .. Len(seen) : longer[k] = seen[k]
        /\ longer[Len(seen) + 1] = id
    BY <1>0, AppendFacts
  <1>4. /\ Tail(longer) \in Seq(Sends) /\ Len(Tail(longer)) = Len(seen)
        /\ \A k \in 1 .. Len(seen) : Tail(longer)[k] = longer[k + 1]
    <2>1. /\ Tail(longer) \in Seq(Sends) /\ Len(Tail(longer)) = Len(longer) - 1
          /\ \A k \in 1 .. Len(longer) - 1 : Tail(longer)[k] = longer[k + 1]
      BY <1>3, TailFacts
    <2> HIDE DEF longer
    <2>2. \A n \in Nat : n + 1 - 1 = n
      OBVIOUS
    <2>3. Len(longer) - 1 = Len(seen)
      BY <1>1, <1>3, <2>2
    <2> QED
      BY <2>1, <2>3
  <1> HIDE DEF longer
  <1>5. /\ seen' \in Seq(Sends) /\ Len(seen') \in Nat
        /\ Len(seen) + 1 > Window =>
             Len(seen') = Len(seen) /\ \A k \in 1 .. Len(seen) : seen'[k] = longer[k + 1]
        /\ ~(Len(seen) + 1 > Window) => Len(seen') = Len(seen) + 1 /\ seen' = longer
    <2>1. seen' = IF Len(seen) + 1 > Window THEN Tail(longer) ELSE longer
      BY DEF Remember, longer
    <2> QED
      BY <1>3, <1>4, <2>1
  <1>6. WindowIsTail'
    BY <1>0, <1>1, <1>2, <1>3, <1>5, WindowSlides
  <1>7. \A i \in 1 .. Len(handled) : handled[i] = id => Len(handled) + 1 - i > Window
    <2>1. \A k \in 1 .. Len(seen) : seen[k] # id
      BY <1>1 DEF Entries
    <2> QED
      BY <1>0, <1>1, <2>1, OutsideWindow
  <1>8. HandledOncePerWindow'
    <2>1. \A i, j \in 1 .. Len(handled) : (i < j /\ handled[i] = handled[j]) => j - i > Window
      BY <1>0, <1>1 DEF HandledOncePerWindow
    <2>2. \A i, j \in 1 .. Len(handled) + 1 :
             (i < j /\ handled'[i] = handled'[j]) => j - i > Window
      BY <1>1, <1>2, <1>7, <2>1, RepeatsStayApart
    <2> QED
      BY <1>2, <2>2 DEF HandledOncePerWindow
  <1> QED
    BY <1>2, <1>5, <1>6, <1>8

LEMMA WriteConsumed ==
  ASSUME IInv, NEW s \in Sends, Write(s)
  PROVE  Consumed'
  <1> USE DEF IInv, LogType
  <1>1. /\ Len(log) \in Nat /\ Len(log') = Len(log) + 1
        /\ \A n \in 1 .. Len(log) : log'[n] = log[n]
    BY AppendFacts DEF Write
  <1>2. UNCHANGED consumerVars
    BY DEF Write
  <1>3. /\ position \in 0 .. Len(log) /\ committed \in 0 .. Len(log)
        /\ PositionHandled /\ WindowIsTail /\ HandledOncePerWindow
    BY DEF Consumed
  <1>4. UNCHANGED <<link, position, committed, busy, seen, handled, crashes>>
    BY <1>2 DEF consumerVars
  <1>5. position' \in 0 .. Len(log') /\ committed' \in 0 .. Len(log')
    BY <1>1, <1>3, <1>4
  <1>6. PositionHandled'
    <2>1. \A n \in 1 .. position : log'[n] = log[n]
      BY <1>1, <1>3
    <2>2. position < Len(log) => /\ log'[position + 1] = log[position + 1]
                                 /\ position < Len(log')
      BY <1>1, <1>3
    <2> QED
      BY <1>3, <1>4, <2>1, <2>2 DEF PositionHandled, Entries
  <1>7. WindowIsTail' /\ HandledOncePerWindow'
    BY <1>3, <1>4 DEF WindowIsTail, HandledOncePerWindow
  <1> QED
    BY <1>4, <1>5, <1>6, <1>7 DEF Consumed

LEMMA SeenWasHandled ==
  ASSUME WindowIsTail, seen \in Seq(Sends), handled \in Seq(Sends)
  PROVE  Entries(seen) \subseteq Entries(handled)
  <1>1. /\ Len(seen) \in Nat /\ DOMAIN seen = 1 .. Len(seen)
        /\ Len(handled) \in Nat /\ DOMAIN handled = 1 .. Len(handled)
    OBVIOUS
  <1>2. ASSUME NEW k \in 1 .. Len(seen)
        PROVE  seen[k] \in Entries(handled)
    <2>1. Len(handled) - Len(seen) + k \in 1 .. Len(handled)
      <3> DEFINE l == Len(handled)
                 n == Len(seen)
      <3>1. l \in Nat /\ n \in Nat /\ n <= l /\ k \in 1 .. n
        BY <1>1 DEF WindowIsTail
      <3> HIDE DEF l, n
      <3>2. l - n + k \in 1 .. l
        BY <3>1
      <3> QED
        BY <3>2 DEF l, n
    <2>2. seen[k] = handled[Len(handled) - Len(seen) + k]
      BY DEF WindowIsTail
    <2> QED
      BY <1>1, <2>1, <2>2 DEF Entries
  <1> QED
    BY <1>1, <1>2 DEF Entries

LEMMA DeliverConsumed ==
  ASSUME IInv, Deliver
  PROVE  Consumed'
  <1> DEFINE id == log[position + 1]
  <1>1. /\ Len(log) \in Nat /\ position \in 0 .. Len(log) /\ position < Len(log)
        /\ committed \in 0 .. Len(log) /\ PositionHandled
        /\ id \in Sends /\ link /\ ~busy
        /\ UNCHANGED <<log, link, committed, crashes>>
    <2>1. /\ log \in Seq(Sends) /\ position \in 0 .. Len(log) /\ position < Len(log)
      BY DEF IInv, LogType, Consumed, Deliver
    <2>2. Len(log) \in Nat /\ position + 1 \in 1 .. Len(log)
      BY <2>1
    <2>3. log[position + 1] \in Sends
      BY <2>1, <2>2
    <2> QED
      BY <2>1, <2>2, <2>3 DEF IInv, Consumed, Deliver
  <1>2. CASE id \in Entries(seen)
    <2>1. position' = position + 1 /\ UNCHANGED <<busy, seen, handled>>
      BY <1>2 DEF Deliver
    <2>2. id \in Entries(handled)
      BY <1>2, SeenWasHandled DEF IInv, Consumed
    <2>3. PositionHandled'
      <3>1. \A n \in 1 .. position + 1 : n \in 1 .. position \/ n = position + 1
        BY <1>1
      <3>2. committed <= position + 1
        BY <1>1 DEF PositionHandled
      <3> QED
        BY <1>1, <2>1, <2>2, <3>1, <3>2 DEF PositionHandled, Entries
    <2>4. position' \in 0 .. Len(log')
      BY <1>1, <2>1
    <2> QED
      BY <1>1, <2>1, <2>3, <2>4
         DEF IInv, Consumed, WindowIsTail, HandledOncePerWindow
  <1>3. CASE id \notin Entries(seen)
    <2>1. /\ Remember(id) /\ handled' = Append(handled, id)
          /\ busy' = TRUE /\ UNCHANGED position
      BY <1>3 DEF Deliver
    <2>2. /\ seen' \in Seq(Sends) /\ handled' \in Seq(Sends)
          /\ WindowIsTail' /\ HandledOncePerWindow'
      <3> HIDE DEF id
      <3> QED
        BY <1>1, <1>3, <2>1, RememberWindow DEF IInv
    <2>3. Entries(handled') = Entries(handled) \cup {id}
      BY <1>1, <2>1, AppendFacts DEF IInv, Consumed
    <2>4. PositionHandled'
      BY <1>1, <2>1, <2>3 DEF PositionHandled, Entries
    <2> QED
      BY <1>1, <2>1, <2>2, <2>4 DEF IInv, Consumed
  <1> QED
    BY <1>2, <1>3

LEMMA StepConsumed ==
  ASSUME IInv, Next
  PROVE  Consumed'
  <1> DEFINE history == <<log, seen, handled>>
  <1>0. /\ Consumed /\ Len(log) \in Nat
        /\ position \in 0 .. Len(log) /\ committed \in 0 .. Len(log)
        /\ committed <= position
    BY DEF IInv, LogType, Consumed, PositionHandled
  <1>1. ASSUME UNCHANGED history, link' \in BOOLEAN, busy' \in BOOLEAN,
               position' \in 0 .. Len(log), committed' \in 0 .. Len(log),
               crashes' \in 0 .. MaxCrashes, PositionHandled'
        PROVE  Consumed'
    BY <1>0, <1>1 DEF Consumed, WindowIsTail, HandledOncePerWindow
  <1>2. CASE ConsumerConnects
    <2>1. PositionHandled'
      <3>1. \A n \in 1 .. committed : n \in 1 .. position
        BY <1>0
      <3> QED
        BY <1>0, <1>2, <3>1 DEF ConsumerConnects, Consumed, PositionHandled, Entries
    <2> QED
      BY <1>0, <1>1, <1>2, <2>1 DEF ConsumerConnects, Consumed
  <1>3. CASE HandlerLeft
    <2>1. position < Len(log) /\ log[position + 1] \in Entries(handled)
      BY <1>0, <1>3 DEF HandlerLeft, Consumed, PositionHandled
    <2>2. PositionHandled'
      <3>1. \A n \in 1 .. position + 1 : n \in 1 .. position \/ n = position + 1
        BY <1>0
      <3>2. committed <= position + 1
        BY <1>0
      <3> QED
        BY <1>0, <1>3, <2>1, <3>1, <3>2 DEF HandlerLeft, Consumed, PositionHandled, Entries
    <2>3. position' \in 0 .. Len(log)
      BY <1>0, <1>3, <2>1 DEF HandlerLeft
    <2> QED
      BY <1>0, <1>1, <1>3, <2>2, <2>3 DEF HandlerLeft, Consumed
  <1>4. CASE Commit
    <2>1. PositionHandled'
      BY <1>0, <1>4 DEF Commit, Consumed, PositionHandled, Entries
    <2> QED
      BY <1>0, <1>1, <1>4, <2>1 DEF Commit, Consumed
  <1>5. CASE ConsumerCrash
    <2>1. PositionHandled'
      BY <1>0, <1>5 DEF ConsumerCrash, Consumed, PositionHandled, Entries
    <2>2. crashes' \in 0 .. MaxCrashes
      BY <1>0, <1>5 DEF ConsumerCrash, Consumed
    <2> QED
      BY <1>0, <1>1, <1>5, <2>1, <2>2 DEF ConsumerCrash, Consumed
  <1>6. ASSUME UNCHANGED <<log, consumerVars>>
        PROVE  Consumed'
    BY <1>0, <1>6 DEF consumerVars, Consumed, WindowIsTail, HandledOncePerWindow,
                      PositionHandled, Entries
  <1>7. ASSUME \/ \E s \in Sends : \/ CallSend(s) \/ WaitForConnection(s) \/ Proceed(s)
                                   \/ SendAcknowledged(s) \/ SendFailed(s)
               \/ Connected \/ LoopEnds \/ Disconnect
        PROVE  UNCHANGED <<log, consumerVars>>
    BY <1>7 DEF CallSend, WaitForConnection, Proceed, SendAcknowledged, SendFailed,
                Connected, LoopEnds, Disconnect, consumerVars
  <1> QED
    BY <1>2, <1>3, <1>4, <1>5, <1>6, <1>7, WriteConsumed, DeliverConsumed DEF Next

-----------------------------------------------------------------------------
LEMMA NextIInv == IInv /\ [Next]_vars => IInv'
  <1> SUFFICES ASSUME IInv, [Next]_vars
               PROVE  IInv'
    OBVIOUS
  <1>1. CASE Next
    BY <1>1, StepSlots, StepConnection, StepLog, StepConsumed DEF IInv
  <1>2. CASE UNCHANGED vars
    <2>1. /\ UNCHANGED <<phase, inFlight, slotWaiters, stopped>>
          /\ UNCHANGED <<connected, reconnecting, loops>>
          /\ UNCHANGED <<log, repeats>>
          /\ UNCHANGED <<link, position, committed, busy, seen, handled, crashes>>
      BY <1>2 DEF vars, producerVars, consumerVars
    <2>2. Slots'
      BY <2>1 DEF IInv, Slots, ProducerType, SlotsAccounted, Queue, WaitersJustified, Entries,
                  InFlightBounded, In
    <2>3. Connection'
      BY <2>1 DEF IInv, Connection, AlwaysReconnecting
    <2>4. LogType'
      BY <2>1 DEF IInv, LogType
    <2>5. Consumed'
      BY <2>1 DEF IInv, Consumed, WindowIsTail, PositionHandled, HandledOncePerWindow, Entries
    <2> QED
      BY <2>2, <2>3, <2>4, <2>5 DEF IInv
  <1> QED
    BY <1>1, <1>2

LEMMA Invariant == Spec => []IInv
  BY InitIInv, NextIInv, PTL DEF Spec

(* Every variable of the bus client stays in its type.                     *)
THEOREM ClientTypeCorrect == Spec => []TypeOK
  <1>1. IInv => TypeOK
    BY DEF IInv, Slots, ProducerType, Connection, LogType, Consumed, TypeOK
  <1> QED
    BY <1>1, Invariant, PTL

(* The counter of sends in flight is the number of sends that hold a slot, *)
(* however slots are taken, handed over, released or given out, and at     *)
(* most MaxInFlight messages are on their way to the broker at once.       *)
THEOREM SlotsNeverLost == Spec => []SlotsHeld
  <1>1. IInv => SlotsHeld
    BY DEF IInv, Slots, SlotsHeld
  <1> QED
    BY <1>1, Invariant, PTL

(* A send waits for a slot only while none is free, in a queue without     *)
(* holes or doubles.                                                       *)
THEOREM WaitersHaveCause == Spec => []WaitersJustified
  <1>1. IInv => WaitersJustified
    BY DEF IInv, Slots, Queue
  <1> QED
    BY <1>1, Invariant, PTL

(* Until disconnect exactly one connectLoop is at work while there is no   *)
(* connection, and none while there is one.                                *)
THEOREM OneConnectLoop == Spec => []AlwaysReconnecting
  <1>1. IInv => AlwaysReconnecting
    BY DEF IInv, Connection
  <1> QED
    BY <1>1, Invariant, PTL

(* No message is handled twice within a window, whatever is written or     *)
(* read again.                                                             *)
THEOREM NoEarlyRepeat == Spec => []HandledOncePerWindow
  <1>1. IInv => HandledOncePerWindow
    BY DEF IInv, Consumed
  <1> QED
    BY <1>1, Invariant, PTL

(* Whatever the group has committed was given to the handlers.             *)
THEOREM NothingSkipped == Spec => []CommittedWasHandled
  <1>1. IInv => CommittedWasHandled
    <2> SUFFICES ASSUME IInv, NEW n \in 1 .. committed
                 PROVE  log[n] \in Entries(handled)
      BY DEF CommittedWasHandled
    <2>1. n \in 1 .. position
      BY DEF IInv, LogType, Consumed, PositionHandled
    <2> QED
      BY <2>1 DEF IInv, Consumed, PositionHandled
  <1> QED
    BY <1>1, Invariant, PTL
=============================================================================
