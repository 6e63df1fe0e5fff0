------------------------- MODULE AdvisoryOrchestrator -----------------------
(***************************************************************************)
(* The advisory orchestrator (llm-advisory/orchestrator.ts, dedupe.ts): a  *)
(* signal, a changed recommendation, a stale note or a request of a user   *)
(* becomes a candidate, and the candidate a job unless its context had one *)
(* lately; users may cancel queued jobs; a start of the process frees jobs *)
(* that have been running for too long.                                    *)
(*                                                                         *)
(* Left out: what makes a candidate (trigger-rules.ts, policy.ts), and the *)
(* status broadcasts.  A candidate that is refused changes nothing.        *)
(***************************************************************************)
EXTENDS JobStore, FiniteSets

CONSTANTS Triggers,    \* enqueueIfAllowed calls that can overlap
          Cancels,     \* PUT /jobs/:id/cancel requests users make
          Window,      \* dedupeWindowMs, in units of the clock
          StuckAge,    \* ten minutes
          MaxStarts,   \* bound: restarts of the process
          NoContext

ASSUME OrchestratorAssumption == /\ NoContext \notin Contexts
                                 /\ Window \in Nat /\ StuckAge \in Nat
                                 /\ MaxStarts \in Nat

VARIABLES
  candidate,  \* per trigger, the context it was allowed to enqueue
  cancelling, \* per cancel, how far it is, and the job it has seen queued
  starts,
  doubled     \* history: contexts allowed to two triggers at once, or with
              \*   an insert that was retried

orchestratorVars == <<candidate, cancelling, starts, doubled>>

OrchestratorInit ==
  /\ candidate = [t \in Triggers |-> NoContext]
  /\ cancelling = [k \in Cancels |-> [phase |-> "new", job |-> 0]]
  /\ starts = 0
  /\ doubled = {}

(* Mutant: no look at the recent jobs.                                     *)
AllowedAlways(c) == c \in Contexts

(* shouldEnqueueJob                                                        *)
Allowed(c) == c \in Contexts /\ ~HasRecentJob(c, Window)

(* The rows there are and will be.                                         *)
Rows == Len(jobs) + Cardinality({t \in Triggers : candidate[t] # NoContext})

(* enqueueIfAllowed finds no recent job and awaits its insert.             *)
Allow(t, c) ==
  /\ candidate[t] = NoContext
  /\ Rows < MaxJobs
  /\ Allowed(c)
  /\ candidate' = [candidate EXCEPT ![t] = c]
  /\ UNCHANGED <<storeVars, cancelling, starts, doubled>>

(* insertJob: a retry after a broken connection makes a second row.        *)
EnqueueJob(t) ==
  LET c == candidate[t]
  IN /\ c # NoContext
     /\ \/ Sound /\ Insert(c, 1)
           /\ doubled' = IF \E s \in Triggers \ {t} : candidate[s] = c
                         THEN doubled \cup {c} ELSE doubled
        \/ /\ Fault
           /\ \E rows \in 0 .. 2 : Rows + rows <= MaxJobs + 1 /\ Insert(c, rows)
           /\ doubled' = doubled \cup {c}
     /\ candidate' = [candidate EXCEPT ![t] = NoContext]
     /\ UNCHANGED <<clock, mistreated, cancelling, starts>>

(* PUT /jobs/:id/cancel finds the job queued and awaits its update.        *)
CheckCancel(k, j) ==
  /\ cancelling[k].phase = "new"
  /\ jobs[j].status = "queued"
  /\ cancelling' = [cancelling EXCEPT ![k] = [phase |-> "checked", job |-> j]]
  /\ UNCHANGED <<storeVars, candidate, starts, doubled>>

CancelJob(k) ==
  LET j == cancelling[k].job
  IN /\ cancelling[k].phase = "checked"
     /\ \/ Sound /\ UpdateJobStatus(j, "cancelled", jobs[j].retryCount)
        \/ Fault /\ (UpdateJobStatus(j, "cancelled", jobs[j].retryCount) \/ UNCHANGED jobs)
     /\ mistreated' = IF jobs[j].status \notin {"queued", "cancelled"}
                      THEN mistreated \cup {j} ELSE mistreated
     /\ cancelling' = [cancelling EXCEPT ![k] = [phase |-> "over", job |-> 0]]
     /\ UNCHANGED <<clock, notes, candidate, starts, doubled>>

(* The process is started again: what its handlers had begun is forgotten, *)
(* and stuck jobs are freed.                                               *)
StartOrchestrator ==
  /\ starts < MaxStarts
  /\ starts' = starts + 1
  /\ SweepStuckJobs(StuckAge)
  /\ mistreated' = mistreated \cup {j \in DOMAIN jobs : /\ jobs[j].status = "running"
                                                        /\ Stuck(jobs[j], StuckAge)}
  /\ candidate' = [t \in Triggers |-> NoContext]
  /\ cancelling' = [k \in Cancels |-> IF cancelling[k].phase = "new" THEN cancelling[k]
                                    ELSE [phase |-> "over", job |-> 0]]
  /\ UNCHANGED <<clock, notes, faults, doubled>>

OrchestratorStep ==
  \/ \E t \in Triggers : EnqueueJob(t) \/ \E c \in Contexts : Allow(t, c)
  \/ \E k \in Cancels : CancelJob(k) \/ \E j \in DOMAIN jobs : CheckCancel(k, j)
  \/ StartOrchestrator
=============================================================================
