---------------------------- MODULE ParentOrder -----------------------------
(***************************************************************************)
(* What an execution algorithm promises about a parent order, told without *)
(* its callbacks, its bookkeeping and its messages: how much of the order  *)
(* is working in a child order at the venue, and how much was executed.    *)
(*                                                                         *)
(* While an order is live its slices come one at a time and never commit   *)
(* more than the order has left.  Once it has been retired (completed,     *)
(* expired, or forgotten by a restart of the algorithm) the promise        *)
(* weakens: one straggling slice, of at most the order's slice size, may   *)
(* still go out.                                                           *)
(***************************************************************************)
EXTENDS Naturals

CONSTANTS Orders, Qty, SliceSize

VARIABLES stage,      \* idle, live, retired, spent (no slice can follow)
          working,    \* quantity of the child order the venue has not answered
          executed    \* quantity the venue has executed

vars == <<stage, working, executed>>

Init == /\ stage    = [o \in Orders |-> "idle"]
        /\ working  = [o \in Orders |-> 0]
        /\ executed = [o \in Orders |-> 0]

Accept(o) == /\ stage[o] = "idle"
             /\ stage' = [stage EXCEPT ![o] = "live"]
             /\ UNCHANGED <<working, executed>>

Work(o) == /\ stage[o] = "live"
           /\ working[o] = 0
           /\ \E q \in 1..SliceSize[o] :
                /\ executed[o] + q <= Qty[o]
                /\ working' = [working EXCEPT ![o] = q]
           /\ UNCHANGED <<stage, executed>>

(* The venue answers a child order: it executes some of it, maybe nothing, *)
(* and the rest of the child is dropped.                                   *)
Answer(o) == /\ working[o] > 0
             /\ \E f \in 0..working[o] :
                  executed' = [executed EXCEPT ![o] = @ + f]
             /\ working' = [working EXCEPT ![o] = 0]
             /\ UNCHANGED stage

(* Retired with a slice unaccounted for, an order is spent at once.        *)
Retire(o) == /\ stage[o] = "live"
             /\ \E s \in {"retired", "spent"} :
                  stage' = [stage EXCEPT ![o] = s]
             /\ UNCHANGED <<working, executed>>

Straggle(o) == /\ stage[o] = "retired"
               /\ working[o] = 0
               /\ \E q \in 1..SliceSize[o] :
                    working' = [working EXCEPT ![o] = q]
               /\ stage' = [stage EXCEPT ![o] = "spent"]
               /\ UNCHANGED executed

(* A restart of the algorithm forgets every live order at once.            *)
RetireAll == /\ \E Spent \in SUBSET {o \in Orders : stage[o] = "live"} :
                  stage' = [o \in Orders |->
                              CASE stage[o] # "live" -> stage[o]
                                [] o \in Spent      -> "spent"
                                [] OTHER            -> "retired"]
             /\ UNCHANGED <<working, executed>>

Next == \/ \E o \in Orders : \/ Accept(o) \/ Work(o) \/ Answer(o)
                             \/ Retire(o) \/ Straggle(o)
        \/ RetireAll

Spec == Init /\ [][Next]_vars
=============================================================================
