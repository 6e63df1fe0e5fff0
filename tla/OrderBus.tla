------------------------------ MODULE OrderBus ------------------------------
(***************************************************************************)
(* The message bus as the order services see it through lib/messaging.ts.  *)
(*                                                                         *)
(* `await producer.send(topic, msg)' hands a message to the producer and   *)
(* suspends the caller.  Some time later the broker has the message, or    *)
(* the send has failed; only then does the caller go on.  Between those    *)
(* two moments every other handler of the process may run: the producer    *)
(* waits for a free slot, and for a lost connection to come back, for as   *)
(* long as it takes.                                                       *)
(*                                                                         *)
(* A message on a topic is delivered at most once, in no fixed order with  *)
(* respect to the messages of other sends: the consumer's dedupe window    *)
(* (messaging.ts:39-50) skips the copies a producer retry leaves behind.   *)
(***************************************************************************)

VARIABLES sending,   \* handed to a producer whose promise is still pending
          bus        \* on a topic, not consumed yet

BusInit == sending = {} /\ bus = {}

(* The caller of send(m) suspends until Written(m) or Lost(m) happened.    *)
Send(m) == /\ m \notin sending
           /\ sending' = sending \cup {m}

(* The broker takes the message: consumers may see it before the sender    *)
(* has its answer.  The answer may still be a rejection, of a connection   *)
(* or a request that timed out after the broker wrote the message          *)
(* (messaging.ts:229-247).  Senders that swallow a rejection with          *)
(* .catch(() => {}) go on the same way either way, so for them this is one *)
(* outcome; a sender that acts on it (sniper-strategy.ts:263) tells the    *)
(* two apart in its own Settle.                                            *)
Written(m) == /\ m \in sending
              /\ sending' = sending \ {m}
              /\ bus' = bus \cup {m}

(* The send rejects and the broker never gets the message.                 *)
Lost(m) == /\ m \in sending
           /\ sending' = sending \ {m}
           /\ UNCHANGED bus

(* A handler invocation named `by' has no send it is still waiting for.    *)
Settled(by) == \A m \in sending : m.by # by
=============================================================================
