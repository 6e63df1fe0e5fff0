---------------------------- MODULE AdvisoryWorker --------------------------
(***************************************************************************)
(* The advisory worker (llm-advisory/worker.ts): it claims a job, asks the *)
(* model for a note, stores the note, marks the job done and counts it;    *)
(* whatever throws on the way sends the job back to the queue, or fails it *)
(* for good after MAX_RETRIES.  One action is one statement at the store,  *)
(* with what the worker does of itself before the next one.                *)
(*                                                                         *)
(* A throw outside of processJob's try ends the process; it is started     *)
(* again, as after a crash, and begins at the queue.  A worker that ends   *)
(* its session for want of jobs, or after enough of them, is as one that   *)
(* is idle.                                                                *)
(***************************************************************************)
EXTENDS JobStore

VARIABLE work   \* per worker, where it is and with which job; the retryCount
                \*   is that of the row it has read

AtQueue == [phase |-> "queue", job |-> 0, retryCount |-> 0]

WorkerInit == work = [w \in Workers |-> AtQueue]

Goes(w, phase) == work' = [work EXCEPT ![w].phase = phase]

Holds(w, j) == work[w].job = j

(* claimNextJob.  If the answer to the COMMIT is lost, the job is running  *)
(* and nobody knows: the retry claims the next job, or finds none.         *)
Claim(w) ==
  /\ work[w].phase = "queue"
  /\ \E j \in Queued :
       /\ IsNext(j)
       /\ \/ /\ Sound
             /\ jobs' = [jobs EXCEPT ![j] = ClaimOf(@)]
             /\ work' = [work EXCEPT ![w] = [phase |-> "read", job |-> j, retryCount |-> 0]]
             /\ UNCHANGED mistreated
          \/ /\ Fault
             /\ mistreated' = mistreated \cup {j}
             /\ jobs' = [jobs EXCEPT ![j] = ClaimOf(@)]
             /\ UNCHANGED work
  /\ UNCHANGED <<clock, notes>>

(* getJob, outside of the try.                                             *)
ReadJob(w) ==
  /\ work[w].phase = "read"
  /\ \/ /\ Sound
        /\ work' = [work EXCEPT ![w].phase = "generate",
                                ![w].retryCount = jobs[work[w].job].retryCount]
        /\ UNCHANGED mistreated
     \/ /\ Fault
        /\ mistreated' = mistreated \cup {work[w].job}
        /\ work' = [work EXCEPT ![w] = AtQueue]
  /\ UNCHANGED <<clock, jobs, notes>>

(* The audits or the model throw.                                          *)
GenerateFails(w) ==
  /\ work[w].phase = "generate"
  /\ Goes(w, "catch")
  /\ UNCHANGED storeVars

(* The model's answer is stored: insertNote.                               *)
InsertNote(w) ==
  LET j == work[w].job
  IN /\ work[w].phase = "generate"
     /\ \/ /\ Sound
           /\ Goes(w, "done")
           /\ notes' = [notes EXCEPT ![j] = @ + 1]
           /\ UNCHANGED mistreated
        \/ /\ Fault
           /\ mistreated' = mistreated \cup {j}
           /\ \E rows \in 0 .. 2 :
                /\ notes' = [notes EXCEPT ![j] = @ + rows]
                /\ IF rows = 2 THEN Goes(w, "done") ELSE Goes(w, "catch")
     /\ UNCHANGED <<clock, jobs>>

(* updateJobStatus(done)                                                   *)
MarkDone(w) ==
  LET j == work[w].job
  IN /\ work[w].phase = "done"
     /\ \/ /\ Sound
           /\ UpdateJobStatus(j, "done", jobs[j].retryCount)
           /\ Goes(w, "session")
           /\ UNCHANGED mistreated
        \/ /\ Fault
           /\ mistreated' = mistreated \cup {j}
           /\ UpdateJobStatus(j, "done", jobs[j].retryCount) \/ UNCHANGED jobs
           /\ Goes(w, "catch")
     /\ UNCHANGED <<clock, notes>>

(* updateWorkerSession, still inside of the try.                           *)
CountJob(w) ==
  /\ work[w].phase = "session"
  /\ \/ Sound /\ work' = [work EXCEPT ![w] = AtQueue] /\ UNCHANGED mistreated
     \/ /\ Fault
        /\ mistreated' = mistreated \cup {work[w].job}
        /\ Goes(w, "catch")
  /\ UNCHANGED <<clock, jobs, notes>>

(* Mutant: there is always another attempt.                                *)
StatusAfterNever(retryCount) == <<"queued", retryCount + 1>>

(* Mutant: a failed attempt is not counted.                                *)
StatusAfterUncounted(retryCount) == <<"queued", retryCount>>

(* What the catch block makes of a job.                                    *)
StatusAfter(retryCount) ==
  <<IF retryCount + 1 >= MaxRetries THEN "failed" ELSE "queued", retryCount + 1>>

(* updateJobStatus in the catch block; if it throws, so does processJob.   *)
GiveBack(w) ==
  LET j == work[w].job
      after == StatusAfter(work[w].retryCount)
  IN /\ work[w].phase = "catch"
     /\ \/ Sound /\ UpdateJobStatus(j, after[1], after[2]) /\ UNCHANGED mistreated
        \/ /\ Fault
           /\ mistreated' = mistreated \cup {j}
           /\ UpdateJobStatus(j, after[1], after[2]) \/ UNCHANGED jobs
     /\ work' = [work EXCEPT ![w] = AtQueue]
     /\ UNCHANGED <<clock, notes>>

(* The process ends and is started again; its job stays running.           *)
WorkerCrash(w) ==
  /\ Fault
  /\ work[w] # AtQueue
  /\ mistreated' = mistreated \cup {work[w].job}
  /\ work' = [work EXCEPT ![w] = AtQueue]
  /\ UNCHANGED <<clock, jobs, notes>>

WorkerStep(w) == \/ Claim(w) \/ ReadJob(w) \/ GenerateFails(w) \/ InsertNote(w)
                 \/ MarkDone(w) \/ CountJob(w) \/ GiveBack(w)
=============================================================================
