------------------------------- MODULE Messaging -------------------------------
(***************************************************************************)
(* The bus client every service uses (lib/messaging.ts): createProducer    *)
(* with its bounded number of sends in flight and its connection loop, and *)
(* one createConsumer with its dedupe window, on one topic of the broker.  *)
(*                                                                         *)
(* One action is one uninterrupted stretch of JavaScript: from a call, or  *)
(* from the end of an await, to the next await or the end.  The backoff    *)
(* between attempts to connect only takes time, and a failed attempt is    *)
(* followed by the next: neither is a step.                                *)
(***************************************************************************)
EXTENDS Naturals, Sequences, FiniteSets

CONSTANTS Sends,        \* calls of producer.send the application may make
          MaxInFlight,  \* options.maxInFlight, also the limit of waiting sends
          Window,       \* DEDUPE_WINDOW_SIZE
          MaxRepeats,   \* bound: messages written twice (kafkajs retries a send)
          MaxCrashes    \* bound: crashes of the consumer's connection

ASSUME SendsAssumption == IsFiniteSet(Sends)
ASSUME BoundsAssumption == /\ MaxInFlight \in Nat \ {0}
                           /\ Window \in Nat \ {0}
                           /\ MaxRepeats \in Nat
                           /\ MaxCrashes \in Nat

VARIABLES
  phase,         \* per send, the await it is suspended at
  inFlight,      \* the producer's counter
  slotWaiters,   \* sends waiting for a slot, first come first served
  connected,     \* activeProducer is not null
  reconnecting,
  loops,         \* connectLoop invocations that have not returned
  stopped,       \* disconnect was called
  log,           \* the broker's topic: the messages written, in order
  repeats,       \* entries of the log that repeat an earlier one
  link,          \* the consumer is connected
  position,      \* entries of the log the consumer has resolved
  committed,     \* those the group committed
  busy,          \* a handler is awaited
  seen,          \* the dedupe window, oldest first
  handled,       \* the messages given to the handlers, in order
  crashes

producerVars == <<phase, inFlight, slotWaiters, connected, reconnecting, loops, stopped>>
consumerVars == <<link, position, committed, busy, seen, handled, crashes>>
vars == <<producerVars, log, repeats, consumerVars>>

Phases == {"idle", "slot", "granted", "connection", "resolved", "sending", "settled"}
HoldsSlot == {"granted", "connection", "resolved", "sending"}

Entries(sequence) == {sequence[i] : i \in DOMAIN sequence}

In(phases) == {s \in Sends : phase[s] \in phases}

Init ==
  /\ phase = [s \in Sends |-> "idle"]
  /\ inFlight = 0
  /\ slotWaiters = <<>>
  /\ connected = FALSE
  /\ reconnecting = FALSE
  /\ loops = 1
  /\ stopped = FALSE
  /\ log = <<>>
  /\ repeats = 0
  /\ link = FALSE
  /\ position = 0
  /\ committed = 0
  /\ busy = FALSE
  /\ seen = <<>>
  /\ handled = <<>>
  /\ crashes = 0

-----------------------------------------------------------------------------
(* The producer.                                                           *)

Becomes(s, next) == phase' = [phase EXCEPT ![s] = next]

AcquireSlot(s, droppable) ==
  IF inFlight < MaxInFlight
  THEN Becomes(s, "granted") /\ inFlight' = inFlight + 1 /\ UNCHANGED slotWaiters
  ELSE IF droppable
  THEN Becomes(s, "settled") /\ UNCHANGED <<inFlight, slotWaiters>>
  ELSE IF Len(slotWaiters) >= MaxInFlight
  THEN Becomes(s, "settled") /\ UNCHANGED <<inFlight, slotWaiters>>
  ELSE Becomes(s, "slot") /\ slotWaiters' = Append(slotWaiters, s) /\ UNCHANGED inFlight

(* The call of send up to its first await, on a topic that isDroppableTopic *)
(* accepts or not.                                                         *)
CallSend(s) ==
  /\ phase[s] = "idle"
  /\ \E droppable \in BOOLEAN :
       IF stopped \/ (~connected /\ droppable)
       THEN Becomes(s, "settled") /\ UNCHANGED <<inFlight, slotWaiters>>
       ELSE AcquireSlot(s, droppable)
  /\ UNCHANGED <<connected, reconnecting, loops, stopped, log, repeats, consumerVars>>

(* The send that has its slot asks for the connection.                     *)
WaitForConnection(s) ==
  /\ phase[s] = "granted"
  /\ Becomes(s, IF connected \/ stopped THEN "resolved" ELSE "connection")
  /\ UNCHANGED <<inFlight, slotWaiters, connected, reconnecting, loops, stopped,
                 log, repeats, consumerVars>>

(* Mutants: a slot that is handed over is also given back; a waiter is     *)
(* woken but nobody counts its slot.                                       *)
ReleaseSlotTwice(s) ==
  IF slotWaiters = <<>>
  THEN /\ Becomes(s, "settled")
       /\ inFlight' = inFlight - 1
       /\ UNCHANGED slotWaiters
  ELSE /\ phase' = [phase EXCEPT ![s] = "settled", ![Head(slotWaiters)] = "granted"]
       /\ slotWaiters' = Tail(slotWaiters)
       /\ inFlight' = inFlight - 1
ReleaseSlotUnshared(s) ==
  /\ Becomes(s, "settled")
  /\ inFlight' = inFlight - 1
  /\ UNCHANGED slotWaiters

(* The send s settles and its slot goes to the first waiter, if any.       *)
ReleaseSlot(s) ==
  IF slotWaiters = <<>>
  THEN /\ Becomes(s, "settled")
       /\ inFlight' = inFlight - 1
       /\ UNCHANGED slotWaiters
  ELSE /\ phase' = [phase EXCEPT ![s] = "settled", ![Head(slotWaiters)] = "granted"]
       /\ slotWaiters' = Tail(slotWaiters)
       /\ UNCHANGED inFlight

(* waitForConnection has answered.  It answers null only when stopped.     *)
Proceed(s) ==
  /\ phase[s] = "resolved"
  /\ IF stopped
     THEN ReleaseSlot(s)
     ELSE Becomes(s, "sending") /\ UNCHANGED <<inFlight, slotWaiters>>
  /\ UNCHANGED <<connected, reconnecting, loops, stopped, log, repeats, consumerVars>>

SendAcknowledged(s) ==
  /\ phase[s] = "sending"
  /\ s \in Entries(log)
  /\ ReleaseSlot(s)
  /\ UNCHANGED <<connected, reconnecting, loops, stopped, log, repeats, consumerVars>>

(* Mutant: every failed send starts a loop.                                *)
ReconnectEach ==
  /\ connected' = FALSE
  /\ reconnecting' = TRUE
  /\ loops' = IF stopped THEN loops ELSE loops + 1

(* A failed send takes the connection to be lost.  The loop it starts ends *)
(* at once when stopped.                                                   *)
Reconnect ==
  /\ connected' = FALSE
  /\ reconnecting' = TRUE
  /\ loops' = IF reconnecting \/ stopped THEN loops ELSE loops + 1

SendFailed(s) ==
  /\ phase[s] = "sending"
  /\ Reconnect
  /\ ReleaseSlot(s)
  /\ UNCHANGED <<stopped, log, repeats, consumerVars>>

(* connectLoop succeeds, also after a disconnect it was too late for.      *)
Connected ==
  /\ loops > 0
  /\ loops' = loops - 1
  /\ connected' = TRUE
  /\ reconnecting' = FALSE
  /\ phase' = [s \in Sends |-> IF phase[s] = "connection" THEN "resolved" ELSE phase[s]]
  /\ UNCHANGED <<inFlight, slotWaiters, stopped, log, repeats, consumerVars>>

LoopEnds ==
  /\ stopped
  /\ loops > 0
  /\ loops' = loops - 1
  /\ UNCHANGED <<phase, inFlight, slotWaiters, connected, reconnecting, stopped,
                 log, repeats, consumerVars>>

(* Mutant: the sends that wait for a slot are forgotten.                   *)
DisconnectForgetting ==
  /\ ~stopped
  /\ stopped' = TRUE
  /\ phase' = [s \in Sends |-> IF phase[s] = "connection" THEN "resolved" ELSE phase[s]]
  /\ slotWaiters' = <<>>
  /\ UNCHANGED <<inFlight, connected, reconnecting, loops, log, repeats, consumerVars>>
DisconnectUncounted ==
  /\ ~stopped
  /\ stopped' = TRUE
  /\ phase' = [s \in Sends |-> CASE phase[s] = "slot" -> "granted"
                                 [] phase[s] = "connection" -> "resolved"
                                 [] OTHER -> phase[s]]
  /\ slotWaiters' = <<>>
  /\ UNCHANGED <<inFlight, connected, reconnecting, loops, log, repeats, consumerVars>>

(* disconnect gives every waiting send a slot of its own and wakes it.     *)
Disconnect ==
  /\ ~stopped
  /\ stopped' = TRUE
  /\ phase' = [s \in Sends |-> CASE phase[s] = "slot" -> "granted"
                                 [] phase[s] = "connection" -> "resolved"
                                 [] OTHER -> phase[s]]
  /\ inFlight' = inFlight + Len(slotWaiters)
  /\ slotWaiters' = <<>>
  /\ UNCHANGED <<connected, reconnecting, loops, log, repeats, consumerVars>>

-----------------------------------------------------------------------------
(* The broker writes a message that is being sent, once or, when an        *)
(* acknowledgement is lost and kafkajs retries, again.                     *)
Write(s) ==
  /\ phase[s] = "sending"
  /\ IF s \in Entries(log)
     THEN repeats < MaxRepeats /\ repeats' = repeats + 1
     ELSE UNCHANGED repeats
  /\ log' = Append(log, s)
  /\ UNCHANGED <<producerVars, consumerVars>>

-----------------------------------------------------------------------------
(* The consumer.  It starts after the last entry its group committed; the  *)
(* window is that of createConsumer and survives the connection.  The      *)
(* group is not new: a group that never committed starts at the end of the *)
(* topic (fromBeginning: false) and misses what was written before.        *)

(* Mutant: the window holds one id less than its capacity.                 *)
RememberShort(id) ==
  seen' = IF Len(seen) + 1 >= Window THEN Tail(Append(seen, id)) ELSE Append(seen, id)

(* createDedupeWindow forgets the id that was added first.                 *)
Remember(id) ==
  seen' = IF Len(seen) + 1 > Window THEN Tail(Append(seen, id)) ELSE Append(seen, id)

ConsumerConnects ==
  /\ ~link
  /\ link' = TRUE
  /\ position' = committed
  /\ UNCHANGED <<producerVars, log, repeats, committed, busy, seen, handled, crashes>>

(* eachMessage: a duplicate is skipped, any other goes to the handlers.    *)
Deliver ==
  /\ link /\ ~busy
  /\ position < Len(log)
  /\ LET id == log[position + 1]
     IN IF id \in Entries(seen)
        THEN position' = position + 1 /\ UNCHANGED <<busy, seen, handled>>
        ELSE /\ Remember(id)
             /\ handled' = Append(handled, id)
             /\ busy' = TRUE
             /\ UNCHANGED position
  /\ UNCHANGED <<producerVars, log, repeats, link, committed, crashes>>

(* The handler returned or fails, or 5 s passed and it is left running.    *)
HandlerLeft ==
  /\ busy
  /\ busy' = FALSE
  /\ position' = position + 1
  /\ UNCHANGED <<producerVars, log, repeats, link, committed, seen, handled, crashes>>

(* Mutant: what is being handled is committed too.                         *)
CommitAhead ==
  /\ link
  /\ position < Len(log)
  /\ committed' = position + 1
  /\ UNCHANGED <<producerVars, log, repeats, link, position, busy, seen, handled, crashes>>

Commit ==
  /\ link
  /\ committed < position
  /\ committed' = position
  /\ UNCHANGED <<producerVars, log, repeats, link, position, busy, seen, handled, crashes>>

(* consumer.crash: the connection goes, a handler that runs is not awaited *)
(* any longer, and what was not committed will come again.                 *)
ConsumerCrash ==
  /\ link
  /\ crashes < MaxCrashes
  /\ crashes' = crashes + 1
  /\ link' = FALSE
  /\ busy' = FALSE
  /\ UNCHANGED <<producerVars, log, repeats, position, committed, seen, handled>>

Next ==
  \/ \E s \in Sends : \/ CallSend(s) \/ WaitForConnection(s) \/ Proceed(s)
                      \/ SendAcknowledged(s) \/ SendFailed(s) \/ Write(s)
  \/ Connected \/ LoopEnds \/ Disconnect
  \/ ConsumerConnects \/ Deliver \/ HandlerLeft \/ Commit \/ ConsumerCrash

Spec == Init /\ [][Next]_vars

(* Continuations run, the broker answers a send one way or the other, a    *)
(* connectLoop succeeds in the end, the consumer reconnects and hands over *)
(* what is there, and no handler is awaited for more than 5 s.             *)
FairSpec ==
  /\ Spec
  /\ \A s \in Sends : /\ WF_vars(WaitForConnection(s))
                      /\ WF_vars(Proceed(s))
                      /\ WF_vars(SendAcknowledged(s) \/ SendFailed(s))
  /\ WF_vars(Connected)
  /\ WF_vars(ConsumerConnects)
  /\ WF_vars(Deliver)
  /\ WF_vars(HandlerLeft)

-----------------------------------------------------------------------------
(* Every variable stays in its type.                                       *)
TypeOK ==
  /\ phase \in [Sends -> Phases]
  /\ inFlight \in Nat
  /\ slotWaiters \in Seq(Sends)
  /\ connected \in BOOLEAN
  /\ reconnecting \in BOOLEAN
  /\ loops \in Nat
  /\ stopped \in BOOLEAN
  /\ log \in Seq(Sends)
  /\ repeats \in 0 .. MaxRepeats
  /\ link \in BOOLEAN
  /\ position \in 0 .. Len(log)
  /\ committed \in 0 .. Len(log)
  /\ busy \in BOOLEAN
  /\ seen \in Seq(Sends)
  /\ handled \in Seq(Sends)
  /\ crashes \in 0 .. MaxCrashes

(* No slot is lost or counted twice, whether it is released, handed to a   *)
(* waiter or given out by disconnect: the counter is the number of sends   *)
(* that have one.                                                          *)
SlotsAccounted == inFlight = Cardinality(In(HoldsSlot))

(* Until disconnect there are at most MaxInFlight slots, and no more       *)
(* messages than that are ever on their way to the broker, even while      *)
(* disconnect lets the waiting sends go.                                   *)
InFlightBounded ==
  /\ stopped \/ inFlight <= MaxInFlight
  /\ Cardinality(In({"sending"})) <= MaxInFlight

(* Both: slots are neither lost nor given twice.                           *)
SlotsHeld == SlotsAccounted /\ InFlightBounded

(* A send waits for a slot only while all slots are taken, so a new send   *)
(* cannot overtake one that waits, and the queue holds exactly the sends   *)
(* that wait, each once.                                                   *)
WaitersJustified ==
  /\ slotWaiters # <<>> => inFlight >= MaxInFlight
  /\ Len(slotWaiters) <= MaxInFlight
  /\ Entries(slotWaiters) = In({"slot"})
  /\ Len(slotWaiters) = Cardinality(In({"slot"}))

(* While the producer is not connected exactly one connectLoop is at work, *)
(* however many sends of however old a connection fail: never none, which  *)
(* would strand the waiting sends, and never two.                          *)
AlwaysReconnecting == ~stopped => loops = (IF connected THEN 0 ELSE 1)

(* A message is handled again only when more than Window others were       *)
(* handled since, whatever the broker repeats: a copy written by a retry   *)
(* or an entry read again after a crash.                                   *)
HandledOncePerWindow ==
  \A i, j \in DOMAIN handled :
    (i < j /\ handled[i] = handled[j]) => j - i > Window

(* What the group has committed was handled: a crash skips no message.     *)
CommittedWasHandled ==
  \A n \in 1 .. committed : log[n] \in Entries(handled)

(* Every send comes to an end, connected or not, waiting or not, also when *)
(* the producer is disconnected.                                           *)
SendsSettle ==
  \A s \in Sends : phase[s] # "idle" ~> phase[s] = "settled"

(* Every message in the log reaches the handlers, even if each handler     *)
(* before it hangs and the consumer's connection crashes in between.       *)
WrittenIsHandled ==
  \A s \in Sends : s \in Entries(log) ~> s \in Entries(handled)
=============================================================================
