-------------------------------- MODULE Advisory ------------------------------
(***************************************************************************)
(* The advisory orchestrator and its workers over the job store.           *)
(***************************************************************************)
EXTENDS AdvisoryWorker, AdvisoryOrchestrator

vars == <<storeVars, work, orchestratorVars>>

Init == StoreInit /\ WorkerInit /\ OrchestratorInit

Tick == /\ clock < MaxClock
        /\ clock' = clock + 1
        /\ UNCHANGED <<jobs, notes, faults, mistreated, work, orchestratorVars>>

Next == \/ \E w \in Workers : (WorkerStep(w) \/ WorkerCrash(w)) /\ UNCHANGED orchestratorVars
        \/ OrchestratorStep /\ UNCHANGED work
        \/ Tick

Spec == Init /\ [][Next]_vars

(* Workers go on, and are started again when they end.  Nothing is assumed *)
(* of triggers, of cancels, and of restarts of the orchestrator.           *)
FairSpec == Spec /\ \A w \in Workers : WF_vars(WorkerStep(w) /\ UNCHANGED orchestratorVars)

-----------------------------------------------------------------------------
(* Each start of the orchestrator may free a job whose worker goes on; the *)
(* worker that claims it anew may then count the failure of the other's    *)
(* last attempt as one more.                                               *)
Attempts == 0 .. MaxRetries + starts

TypeOK ==
  /\ clock \in 0 .. MaxClock
  /\ jobs \in Seq([context : Contexts, status : {"queued", "running"} \cup Final,
                   retryCount : Attempts, createdAt : 0 .. clock,
                   claimedAt : 0 .. clock])
  /\ Len(jobs) <= MaxJobs
  /\ notes \in [DOMAIN jobs -> Nat]
  /\ faults \in 0 .. MaxFaults
  /\ mistreated \subseteq DOMAIN jobs
  /\ \A w \in Workers :
       /\ work[w].phase \in {"queue", "read", "generate", "done", "session", "catch"}
       /\ work[w].job \in {0} \cup DOMAIN jobs
       /\ work[w].retryCount \in Attempts
       /\ work[w].job = 0 <=> work[w] = AtQueue
  /\ candidate \in [Triggers -> Contexts \cup {NoContext}]
  /\ cancelling \in [Cancels -> [phase : {"new", "checked", "over"},
                               job : {0} \cup DOMAIN jobs]]
  /\ starts \in 0 .. MaxStarts
  /\ doubled \subseteq Contexts

(* The model is asked about a context once in a window: one job for it,    *)
(* unless two triggers were between their look and their insert, or an     *)
(* insert was retried; one worker at a time on the job, one note of it,    *)
(* MAX_RETRIES attempts, unless a connection broke, a worker crashed, a    *)
(* sweep freed the job or a cancel came after its claim.  A job that is    *)
(* done always has a note.                                                 *)
EachContextOnce ==
  /\ \A i, k \in DOMAIN jobs :
       /\ i < k
       /\ jobs[i].context = jobs[k].context
       /\ jobs[k].createdAt < jobs[i].createdAt + Window
       => jobs[i].status = "cancelled" \/ i \in mistreated \/ jobs[i].context \in doubled
  /\ \A v, w \in Workers :
       v # w /\ work[v].job # 0 /\ Holds(w, work[v].job) => work[v].job \in mistreated
  /\ \A j \in DOMAIN jobs : /\ notes[j] <= 1 \/ j \in mistreated
                            /\ jobs[j].retryCount <= MaxRetries \/ j \in mistreated
                            /\ jobs[j].status = "done" => notes[j] >= 1

(* "Only queued jobs may be cancelled" (orchestrator.ts:441), and a job    *)
(* that is done, failed or cancelled stays so, but for the same mishaps:   *)
(* no other order of claims, failures, sweeps and cancels undoes it.       *)
FinalStays ==
  [][\A j \in DOMAIN jobs \ mistreated' :
       jobs[j].status \in Final => jobs'[j].status = jobs[j].status]_vars

(* Nobody works on the job, and only a restart of the orchestrator, ten    *)
(* minutes later, sees that.                                               *)
Orphaned(j) == jobs[j].status = "running" /\ \A w \in Workers : ~Holds(w, j)

(* A queued job is done, failed or cancelled in the end, unless its claim  *)
(* or its worker was lost.                                                 *)
EveryJobEnds ==
  \A j \in 1 .. MaxJobs :
    j \in DOMAIN jobs ~> j \in DOMAIN jobs /\ (jobs[j].status \in Final \/ Orphaned(j))
=============================================================================
