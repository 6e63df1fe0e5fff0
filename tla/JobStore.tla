------------------------------- MODULE JobStore -----------------------------
(***************************************************************************)
(* The queue of advisory jobs (llm-advisory/job-store.ts) in Postgres.     *)
(*                                                                         *)
(* A statement is atomic.  The connection may break around it: a read then *)
(* throws, and a write throws with or without having taken effect, or the  *)
(* retry of withPgRetry makes it take effect twice.  Rows keep the order   *)
(* of their insertion, created_at does not decrease along it.              *)
(*                                                                         *)
(* Left out: the audit tables, worker sessions, and the pruning of rows    *)
(* that are a week old.                                                    *)
(***************************************************************************)
EXTENDS Naturals, Sequences

CONSTANTS Contexts,   \* context hashes of the candidates
          Priority,   \* of a context's candidates, plus one
          Workers,    \* worker processes
          MaxRetries, \* MAX_RETRIES
          MaxJobs,    \* bound: rows of the table
          MaxFaults,  \* bound: broken connections and crashed workers
          MaxClock    \* bound of the clock

ASSUME JobsAssumption == /\ Priority \in [Contexts -> Nat]
                         /\ MaxRetries \in Nat \ {0}
                         /\ MaxJobs \in Nat /\ MaxFaults \in Nat /\ MaxClock \in Nat

VARIABLES
  clock,
  jobs,       \* llm_advisory.jobs
  notes,      \* per job, its rows in llm_advisory.advisory_notes
  faults,     \* connections that broke and workers that crashed
  mistreated  \* history: jobs a fault, a sweep or a late cancel got at

storeVars == <<clock, jobs, notes, faults, mistreated>>

StoreInit == /\ clock = 0
             /\ jobs = <<>>
             /\ notes = <<>>
             /\ faults = 0
             /\ mistreated = {}

Final == {"done", "failed", "cancelled"}

Fault == faults < MaxFaults /\ faults' = faults + 1
Sound == UNCHANGED faults

Row(c) == [context |-> c, status |-> "queued", retryCount |-> 0,
           createdAt |-> clock, claimedAt |-> 0]

(* n rows for one candidate.                                               *)
Insert(c, n) ==
  /\ jobs' = jobs \o [i \in 1 .. n |-> Row(c)]
  /\ notes' = notes \o [i \in 1 .. n |-> 0]

(* ORDER BY priority DESC, created_at ASC                                  *)
Before(i, k) == \/ Priority[jobs[i].context] > Priority[jobs[k].context]
                \/ Priority[jobs[i].context] = Priority[jobs[k].context] /\ i < k

Queued == {i \in DOMAIN jobs : jobs[i].status = "queued"}

(* The row the next claim gets.                                            *)
IsNext(j) == j \in Queued /\ \A i \in Queued \ {j} : Before(j, i)

(* The row after its claim; which worker has it is for the record only.    *)
ClaimOf(job) == [job EXCEPT !.status = "running", !.claimedAt = clock]

(* updateJobStatus, whatever the status was.                               *)
UpdateJobStatus(j, status, retryCount) ==
  jobs' = [jobs EXCEPT ![j].status = status, ![j].retryCount = retryCount]

HasRecentJob(c, window) ==
  \E i \in DOMAIN jobs : /\ jobs[i].context = c
                         /\ jobs[i].createdAt + window > clock
                         /\ jobs[i].status # "cancelled"

(* Mutant: whatever was claimed long ago.                                  *)
StuckAny(job, age) == job.claimedAt + age < clock

Stuck(job, age) == job.status = "running" /\ job.claimedAt + age < clock

(* sweepStuckJobs                                                          *)
SweepStuckJobs(age) ==
  jobs' = [j \in DOMAIN jobs |->
             IF Stuck(jobs[j], age)
             THEN [jobs[j] EXCEPT !.status = "queued", !.claimedAt = 0]
             ELSE jobs[j]]
=============================================================================
