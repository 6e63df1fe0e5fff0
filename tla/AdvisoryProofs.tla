--------------------------- MODULE AdvisoryProofs ---------------------------
(***************************************************************************)
(* Proofs about the advisory queue for any number of workers, contexts,    *)
(* overlapping triggers and cancels, and any number of faults: what a      *)
(* context and a job may come to, that a final state stays, and the types, *)
(* with the bound of a job's attempts.                                     *)
(***************************************************************************)
EXTENDS Advisory, SequenceTheorems, FiniteSetTheorems, TLAPS

-----------------------------------------------------------------------------
(* The inductive invariant.                                                *)

Statuses == {"queued", "running"} \cup Final
Phases   == {"queue", "read", "generate", "done", "session", "catch"}

JobRow  == [context : Contexts, status : Statuses, retryCount : Nat,
            createdAt : Nat, claimedAt : Nat]
WorkRow == [phase : Phases, job : Nat, retryCount : Nat]

Types ==
  /\ clock \in Nat
  /\ jobs \in Seq(JobRow)
  /\ notes \in Seq(Nat) /\ Len(notes) = Len(jobs)
  /\ mistreated \subseteq DOMAIN jobs
  /\ work \in [Workers -> WorkRow]
  /\ \A w \in Workers : IF work[w].phase = "queue" THEN work[w] = AtQueue
                                                    ELSE work[w].job \in DOMAIN jobs
  /\ candidate \in [Triggers -> Contexts \cup {NoContext}]
  /\ DOMAIN cancelling = Cancels
  /\ \A k \in Cancels :
       cancelling[k].phase = "checked" => cancelling[k].job \in DOMAIN jobs

(* A job that met no mishap has at most one note and MAX_RETRIES attempts; *)
(* while it is queued it has no note and an attempt left.                  *)
Orderly(j) ==
  j \notin mistreated =>
    /\ notes[j] <= 1
    /\ jobs[j].retryCount <= MaxRetries
    /\ jobs[j].status = "queued" => notes[j] = 0
    /\ jobs[j].status \in {"queued", "running"} => jobs[j].retryCount < MaxRetries

(* What a worker knows of its job holds unless the job met a mishap; that  *)
(* it has stored a note before it marks the job done holds always.         *)
Knows(w) ==
  LET j == work[w].job
      p == work[w].phase
  IN /\ p = "done" => notes[j] >= 1
     /\ p # "queue" /\ j \notin mistreated =>
          /\ jobs[j].status = IF p = "session" THEN "done" ELSE "running"
          /\ notes[j] = IF p \in {"done", "session"} THEN 1 ELSE 0
          /\ p \in {"generate", "done", "catch"} =>
               work[w].retryCount = jobs[j].retryCount

OneWorker ==
  \A v, w \in Workers :
    v # w /\ work[v].job # 0 /\ work[w].job = work[v].job => work[v].job \in mistreated

DoneHasNote == \A j \in DOMAIN jobs : jobs[j].status = "done" => notes[j] >= 1

(* Row i does not stand in the way of another job for its context.         *)
Excused(i) == \/ jobs[i].status = "cancelled"
              \/ i \in mistreated
              \/ jobs[i].context \in doubled

OneJob ==
  \A i, k \in DOMAIN jobs :
    /\ i < k
    /\ jobs[i].context = jobs[k].context
    /\ jobs[k].createdAt < jobs[i].createdAt + Window
    => Excused(i)

(* A trigger that was allowed to enqueue is still right to.                *)
StillAllowed ==
  \A t \in Triggers : \A i \in DOMAIN jobs :
    /\ jobs[i].context = candidate[t]
    /\ jobs[i].createdAt + Window > clock
    => Excused(i)

IInv ==
  /\ Types
  /\ \A j \in DOMAIN jobs : Orderly(j)
  /\ \A w \in Workers : Knows(w)
  /\ OneWorker
  /\ DoneHasNote
  /\ OneJob
  /\ StillAllowed

-----------------------------------------------------------------------------
LEMMA InitIInv == Init => IInv
<1> SUFFICES ASSUME Init PROVE IInv
  OBVIOUS
<1> USE DEF Init, StoreInit, WorkerInit, OrchestratorInit, AtQueue
<1>1. Types
  BY DEF Types, WorkRow, Phases
<1>2. DOMAIN jobs = {}
  OBVIOUS
<1>3. \A w \in Workers : Knows(w)
  BY DEF Knows
<1>4. OneWorker
  BY DEF OneWorker
<1>. QED
  BY <1>1, <1>2, <1>3, <1>4 DEF IInv, DoneHasNote, OneJob, StillAllowed

-----------------------------------------------------------------------------
(* What may become of the rows without hurting the claims about contexts:  *)
(* rows keep their context and time, and excuses are kept.                 *)
LEMMA ContextsKept ==
  ASSUME IInv, DOMAIN jobs' = DOMAIN jobs,
         \A i \in DOMAIN jobs : /\ jobs'[i].context = jobs[i].context
                                /\ jobs'[i].createdAt = jobs[i].createdAt
                                /\ Excused(i) => Excused(i)',
         UNCHANGED <<clock, candidate>>
  PROVE  OneJob' /\ StillAllowed'
<1>1. OneJob'
  BY DEF IInv, OneJob
<1>2. StillAllowed'
  BY DEF IInv, StillAllowed
<1>. QED
  BY <1>1, <1>2

(* A statement about one job j, by a worker or a cancel.                   *)
LEMMA StatementIInv ==
  ASSUME IInv, Types', NEW j \in DOMAIN jobs,
         Len(jobs') = Len(jobs),
         \A i \in DOMAIN jobs \ {j} : jobs'[i] = jobs[i] /\ notes'[i] = notes[i],
         jobs'[j].context = jobs[j].context, jobs'[j].createdAt = jobs[j].createdAt,
         notes'[j] >= notes[j],
         mistreated \subseteq mistreated', mistreated' \subseteq mistreated \cup {j},
         Orderly(j)',
         jobs[j].status = "cancelled" => jobs'[j].status = "cancelled" \/ j \in mistreated',
         jobs'[j].status = "done" => notes'[j] >= 1,
         \A v \in Workers : \/ /\ work'[v] = work[v]
                               /\ work[v].job = j => j \in mistreated'
                            \/ Knows(v)',
         OneWorker',
         UNCHANGED <<clock, candidate, doubled>>
  PROVE  IInv'
<1>1. /\ DOMAIN jobs' = DOMAIN jobs /\ notes \in Seq(Nat) /\ notes' \in Seq(Nat)
      /\ DOMAIN notes = DOMAIN jobs /\ DOMAIN notes' = DOMAIN jobs
  BY DEF IInv, Types
<1>2. \A i \in DOMAIN jobs' : Orderly(i)'
  BY <1>1 DEF IInv, Orderly
<1>3. \A v \in Workers : Knows(v)'
  <2> SUFFICES ASSUME NEW v \in Workers, work'[v] = work[v],
                      work[v].job = j => j \in mistreated'
               PROVE  Knows(v)'
    OBVIOUS
  <2>1. CASE work[v].phase = "queue"
    BY <2>1 DEF Knows
  <2>2. CASE work[v].phase # "queue" /\ work[v].job # j
    <3>1. work[v].job \in DOMAIN jobs \ {j} /\ Knows(v)
      BY <2>2 DEF IInv, Types
    <3>. QED
      BY <3>1 DEF Knows
  <2>3. CASE work[v].phase # "queue" /\ work[v].job = j
    <3>1. Knows(v) /\ j \in mistreated'
      BY <2>3 DEF IInv
    <3>2. notes[j] \in Nat /\ notes'[j] \in Nat
      BY <1>1, ElementOfSeq, LenProperties
    <3>. QED
      BY <2>3, <3>1, <3>2 DEF Knows
  <2>. QED
    BY <2>1, <2>2, <2>3
<1>4. DoneHasNote'
  BY <1>1 DEF IInv, DoneHasNote
<1>5. OneJob' /\ StillAllowed'
  <2>1. \A i \in DOMAIN jobs : Excused(i) => Excused(i)'
    BY DEF Excused
  <2>2. \A i \in DOMAIN jobs : /\ jobs'[i].context = jobs[i].context
                               /\ jobs'[i].createdAt = jobs[i].createdAt
    OBVIOUS
  <2>. QED
    BY <1>1, <2>1, <2>2, ContextsKept
<1>. QED
  BY <1>2, <1>3, <1>4, <1>5 DEF IInv

-----------------------------------------------------------------------------
(* The workers.                                                            *)

LEMMA RowFacts ==
  ASSUME Types
  PROVE  \A i \in DOMAIN jobs : jobs[i] \in JobRow /\ notes[i] \in Nat
BY ElementOfSeq, LenProperties DEF Types

LEMMA UpdateFacts ==
  ASSUME Types, NEW j \in DOMAIN jobs, NEW s \in Statuses, NEW r \in Nat,
         UpdateJobStatus(j, s, r)
  PROVE  /\ jobs' \in Seq(JobRow) /\ Len(jobs') = Len(jobs)
         /\ \A i \in DOMAIN jobs \ {j} : jobs'[i] = jobs[i]
         /\ jobs'[j].status = s /\ jobs'[j].retryCount = r
         /\ jobs'[j].context = jobs[j].context
         /\ jobs'[j].createdAt = jobs[j].createdAt
         /\ jobs'[j].claimedAt = jobs[j].claimedAt
<1> DEFINE row == [jobs[j] EXCEPT !.status = s, !.retryCount = r]
<1>1. jobs[j] \in JobRow
  BY RowFacts
<1>2. /\ row \in JobRow /\ row.status = s /\ row.retryCount = r
      /\ row.context = jobs[j].context /\ row.createdAt = jobs[j].createdAt
      /\ row.claimedAt = jobs[j].claimedAt
  BY <1>1 DEF JobRow
<1>3. jobs' = [jobs EXCEPT ![j] = row]
  BY DEF UpdateJobStatus, Types
<1> HIDE DEF row
<1>4. jobs \in Seq(JobRow) /\ j \in 1 .. Len(jobs)
  BY LenProperties DEF Types
<1>5. jobs' \in Seq(JobRow) /\ Len(jobs') = Len(jobs)
  BY <1>2, <1>3, <1>4, ExceptSeq
<1>6. jobs'[j] = row /\ \A i \in DOMAIN jobs \ {j} : jobs'[i] = jobs[i]
  BY <1>3, <1>4
<1>. QED
  BY <1>2, <1>5, <1>6

(* A step of worker w about the job it has.                                *)
LEMMA WorkerIInv ==
  ASSUME IInv, NEW w \in Workers, NEW x \in WorkRow,
         NEW j \in DOMAIN jobs, j = work[w].job, work[w].phase # "queue",
         work' = [work EXCEPT ![w] = x],
         IF x.phase = "queue" THEN x = AtQueue ELSE x.job = j,
         jobs' \in Seq(JobRow), Len(jobs') = Len(jobs),
         notes' \in Seq(Nat), Len(notes') = Len(notes),
         \A i \in DOMAIN jobs \ {j} : jobs'[i] = jobs[i] /\ notes'[i] = notes[i],
         jobs'[j].context = jobs[j].context, jobs'[j].createdAt = jobs[j].createdAt,
         notes'[j] >= notes[j],
         mistreated \subseteq mistreated', mistreated' \subseteq mistreated \cup {j},
         Orderly(j)', Knows(w)',
         jobs'[j].status = "done" => notes'[j] >= 1,
         UNCHANGED <<clock, orchestratorVars>>
  PROVE  IInv'
<1>1. Types'
  <2>1. DOMAIN jobs' = DOMAIN jobs
    BY DEF IInv, Types
  <2>2. work' \in [Workers -> WorkRow]
    BY DEF IInv, Types
  <2>3. \A v \in Workers : IF work'[v].phase = "queue" THEN work'[v] = AtQueue
                                                      ELSE work'[v].job \in DOMAIN jobs'
    BY <2>1 DEF IInv, Types
  <2>4. Len(notes') = Len(jobs') /\ mistreated' \subseteq DOMAIN jobs'
    BY <2>1 DEF IInv, Types
  <2>. QED
    BY <2>1, <2>2, <2>3, <2>4 DEF IInv, Types, orchestratorVars
<1>2. \A v \in Workers \ {w} : work'[v] = work[v] /\ (work[v].job = j => j \in mistreated')
  <2>1. j # 0
    BY LenProperties DEF IInv, Types
  <2>. QED
    BY <2>1 DEF IInv, OneWorker, Types
<1>3. OneWorker'
  <2>1. work'[w] = x /\ x.job \in {0, j}
    BY DEF IInv, Types, AtQueue
  <2>. QED
    BY <1>2, <2>1 DEF IInv, OneWorker
<1>4. jobs[j].status = "cancelled" => j \in mistreated
  BY DEF IInv, Knows
<1>. QED
  BY <1>1, <1>2, <1>3, <1>4, StatementIInv DEF orchestratorVars

(* A worker that holds a job.                                              *)
LEMMA HolderFacts ==
  ASSUME IInv, NEW w \in Workers, work[w].phase # "queue"
  PROVE  /\ work[w].job \in DOMAIN jobs
         /\ jobs[work[w].job] \in JobRow
         /\ notes[work[w].job] \in Nat
         /\ work[w] \in WorkRow
         /\ Knows(w) /\ Orderly(work[w].job)
<1>1. work[w].job \in DOMAIN jobs /\ work[w] \in WorkRow
  BY DEF IInv, Types
<1>. QED
  BY <1>1, RowFacts DEF IInv

(* Steps that change neither the row nor the notes of the job.             *)
LEMMA WorkerQuietIInv ==
  ASSUME IInv, NEW w \in Workers, NEW x \in WorkRow, work[w].phase # "queue",
         work' = [work EXCEPT ![w] = x],
         IF x.phase = "queue" THEN x = AtQueue ELSE x.job = work[w].job,
         UNCHANGED <<clock, jobs, notes, orchestratorVars>>,
         mistreated' \in {mistreated, mistreated \cup {work[w].job}},
         Knows(w)'
  PROVE  IInv'
<1>1. PICK j \in DOMAIN jobs : j = work[w].job
  BY HolderFacts
<1>2. Orderly(j) /\ notes[j] \in Nat
  BY <1>1, HolderFacts
<1>3. Orderly(j)'
  BY <1>1, <1>2 DEF Orderly
<1>4. jobs[j].status = "done" => notes[j] >= 1
  BY <1>1 DEF IInv, DoneHasNote
<1>5. jobs' \in Seq(JobRow) /\ notes' \in Seq(Nat)
  BY DEF IInv, Types
<1>6. /\ Len(jobs') = Len(jobs) /\ Len(notes') = Len(notes)
      /\ \A i \in DOMAIN jobs \ {j} : jobs'[i] = jobs[i] /\ notes'[i] = notes[i]
      /\ jobs'[j].context = jobs[j].context /\ jobs'[j].createdAt = jobs[j].createdAt
      /\ notes'[j] >= notes[j]
      /\ jobs'[j].status = "done" => notes'[j] >= 1
  BY <1>2, <1>4
<1>7. mistreated \subseteq mistreated' /\ mistreated' \subseteq mistreated \cup {j}
  BY <1>1
<1>8. IF x.phase = "queue" THEN x = AtQueue ELSE x.job = j
  BY <1>1
<1>9. UNCHANGED <<clock, orchestratorVars>>
  OBVIOUS
<1>. QED
  BY <1>1, <1>3, <1>5, <1>6, <1>7, <1>8, <1>9, WorkerIInv

(* The worker goes back to the queue, whatever becomes of its job.         *)
LEMMA ToQueue ==
  ASSUME IInv, NEW w \in Workers, work' = [work EXCEPT ![w] = AtQueue]
  PROVE  /\ AtQueue \in WorkRow /\ AtQueue.phase = "queue" /\ AtQueue.job = 0
         /\ Knows(w)'
<1>1. AtQueue \in WorkRow /\ AtQueue.phase = "queue" /\ AtQueue.job = 0
  BY DEF AtQueue, WorkRow, Phases
<1>2. work'[w] = AtQueue
  BY DEF IInv, Types
<1>3. Knows(w)'
  BY <1>1, <1>2 DEF Knows
<1>. QED
  BY <1>1, <1>3

(* The worker goes on with its job.                                        *)
LEMMA ToPhase ==
  ASSUME IInv, NEW w \in Workers, work[w].phase # "queue",
         NEW phase \in Phases, Goes(w, phase)
  PROVE  \E x \in WorkRow : /\ x.phase = phase /\ x.job = work[w].job
                            /\ x.retryCount = work[w].retryCount
                            /\ work' = [work EXCEPT ![w] = x]
                            /\ work'[w] = x
<1> DEFINE x == [work[w] EXCEPT !.phase = phase]
<1>1. work[w] \in WorkRow
  BY HolderFacts
<1>2. x \in WorkRow /\ x.phase = phase /\ x.job = work[w].job
      /\ x.retryCount = work[w].retryCount
  BY <1>1 DEF WorkRow
<1>3. work' = [work EXCEPT ![w] = x] /\ work'[w] = x
  BY DEF Goes, IInv, Types
<1>. QED
  BY <1>2, <1>3

LEMMA ReadJobIInv ==
  ASSUME IInv, NEW w \in Workers, ReadJob(w), UNCHANGED orchestratorVars
  PROVE  IInv'
<1> DEFINE j == work[w].job
<1>1. work[w].phase # "queue" /\ UNCHANGED <<clock, jobs, notes, orchestratorVars>>
  BY DEF ReadJob
<1>2. /\ j \in DOMAIN jobs /\ jobs[j] \in JobRow /\ notes[j] \in Nat
      /\ work[w] \in WorkRow /\ Knows(w)
  BY <1>1, HolderFacts
<1>3. CASE work' = [work EXCEPT ![w].phase = "generate", ![w].retryCount = jobs[j].retryCount]
           /\ mistreated' = mistreated
  <2> DEFINE x == [work[w] EXCEPT !.phase = "generate", !.retryCount = jobs[j].retryCount]
  <2>1. /\ x \in WorkRow /\ x.phase = "generate" /\ x.job = j
        /\ x.retryCount = jobs[j].retryCount
    BY <1>2 DEF WorkRow, JobRow, Phases
  <2>2. work' = [work EXCEPT ![w] = x] /\ work'[w] = x
    BY <1>3 DEF IInv, Types
  <2> HIDE DEF x
  <2>3. Knows(w)'
    BY <1>1, <1>2, <1>3, <2>1, <2>2 DEF Knows, ReadJob
  <2>. QED
    BY <1>1, <1>3, <2>1, <2>2, <2>3, WorkerQuietIInv
<1>4. CASE work' = [work EXCEPT ![w] = AtQueue] /\ mistreated' = mistreated \cup {j}
  BY <1>1, <1>4, ToQueue, WorkerQuietIInv
<1>. QED
  BY <1>3, <1>4 DEF ReadJob

LEMMA GenerateFailsIInv ==
  ASSUME IInv, NEW w \in Workers, GenerateFails(w), UNCHANGED orchestratorVars
  PROVE  IInv'
<1>1. /\ work[w].phase = "generate" /\ Goes(w, "catch")
      /\ UNCHANGED <<clock, jobs, notes, mistreated, orchestratorVars>>
  BY DEF GenerateFails, storeVars
<1>2. PICK x \in WorkRow : /\ x.phase = "catch" /\ x.job = work[w].job
                           /\ x.retryCount = work[w].retryCount
                           /\ work' = [work EXCEPT ![w] = x]
                           /\ work'[w] = x
  BY <1>1, ToPhase DEF Phases
<1>3. Knows(w)
  BY <1>1, HolderFacts
<1>4. Knows(w)'
  BY <1>1, <1>2, <1>3 DEF Knows
<1>. QED
  BY <1>1, <1>2, <1>4, WorkerQuietIInv

LEMMA CountJobIInv ==
  ASSUME IInv, NEW w \in Workers, CountJob(w), UNCHANGED orchestratorVars
  PROVE  IInv'
<1>1. /\ work[w].phase = "session"
      /\ UNCHANGED <<clock, jobs, notes, orchestratorVars>>
  BY DEF CountJob
<1>2. CASE work' = [work EXCEPT ![w] = AtQueue] /\ mistreated' = mistreated
  BY <1>1, <1>2, ToQueue, WorkerQuietIInv
<1>3. CASE Goes(w, "catch") /\ mistreated' = mistreated \cup {work[w].job}
  <2>1. PICK x \in WorkRow : /\ x.phase = "catch" /\ x.job = work[w].job
                             /\ x.retryCount = work[w].retryCount
                             /\ work' = [work EXCEPT ![w] = x]
                             /\ work'[w] = x
    BY <1>1, <1>3, ToPhase DEF Phases
  <2>2. Knows(w)'
    BY <1>3, <2>1 DEF Knows
  <2>. QED
    BY <1>1, <1>3, <2>1, <2>2, WorkerQuietIInv
<1>. QED
  BY <1>2, <1>3 DEF CountJob

LEMMA WorkerCrashIInv ==
  ASSUME IInv, NEW w \in Workers, WorkerCrash(w), UNCHANGED orchestratorVars
  PROVE  IInv'
<1>1. /\ work' = [work EXCEPT ![w] = AtQueue]
      /\ mistreated' = mistreated \cup {work[w].job}
      /\ UNCHANGED <<clock, jobs, notes, orchestratorVars>>
  BY DEF WorkerCrash
<1>2. CASE work[w].phase # "queue"
  BY <1>1, <1>2, ToQueue, WorkerQuietIInv
<1>3. work[w].phase # "queue"
  BY DEF WorkerCrash, IInv, Types
<1>. QED
  BY <1>2, <1>3

(* n more notes of job j.                                                  *)
LEMMA NotesFacts ==
  ASSUME Types, NEW j \in DOMAIN jobs, NEW n \in Nat,
         notes' = [notes EXCEPT ![j] = @ + n]
  PROVE  /\ notes' \in Seq(Nat) /\ Len(notes') = Len(notes)
         /\ \A i \in DOMAIN jobs \ {j} : notes'[i] = notes[i]
         /\ notes'[j] = notes[j] + n /\ notes[j] \in Nat
<1>1. notes \in Seq(Nat) /\ j \in 1 .. Len(notes) /\ DOMAIN notes = DOMAIN jobs
  BY LenProperties DEF Types
<1>2. notes[j] \in Nat
  BY RowFacts
<1>3. notes[j] + n \in Nat /\ notes' = [notes EXCEPT ![j] = notes[j] + n]
  BY <1>2
<1>4. notes' \in Seq(Nat) /\ Len(notes') = Len(notes)
  BY <1>1, <1>3, ExceptSeq
<1>. QED
  BY <1>1, <1>2, <1>3, <1>4

LEMMA NotesStoredIInv ==
  ASSUME IInv, NEW w \in Workers, work[w].phase = "generate",
         NEW n \in 0 .. 2, NEW phase \in {"done", "catch"},
         notes' = [notes EXCEPT ![work[w].job] = @ + n],
         Goes(w, phase),
         phase = "done" => n >= 1,
         \/ n = 1 /\ phase = "done" /\ mistreated' = mistreated
         \/ mistreated' = mistreated \cup {work[w].job},
         UNCHANGED <<clock, jobs, orchestratorVars>>
  PROVE  IInv'
<1>1. PICK j \in DOMAIN jobs : j = work[w].job
  BY HolderFacts
<1>2. /\ Knows(w) /\ Orderly(j) /\ jobs \in Seq(JobRow) /\ n \in Nat /\ Types
      /\ jobs[j].status \in Statuses
  <2>1. Knows(w) /\ Orderly(j) /\ jobs[j] \in JobRow
    BY <1>1, HolderFacts
  <2>2. Types /\ jobs \in Seq(JobRow) /\ n \in Nat
    BY DEF IInv, Types
  <2>. QED
    BY <2>1, <2>2 DEF JobRow
<1>3. PICK x \in WorkRow : /\ x.phase = phase /\ x.job = work[w].job
                           /\ x.retryCount = work[w].retryCount
                           /\ work' = [work EXCEPT ![w] = x]
                           /\ work'[w] = x
  BY ToPhase DEF Phases
<1>4. /\ notes' \in Seq(Nat) /\ Len(notes') = Len(notes)
      /\ \A i \in DOMAIN jobs \ {j} : notes'[i] = notes[i]
      /\ notes'[j] = notes[j] + n /\ notes[j] \in Nat
  BY <1>1, <1>2, NotesFacts
<1>5. j \notin mistreated' => /\ n = 1 /\ phase = "done" /\ j \notin mistreated
                             /\ jobs[j].status = "running" /\ notes[j] = 0
  BY <1>1, <1>2 DEF Knows
<1>6. Orderly(j)'
  BY <1>2, <1>4, <1>5 DEF Orderly
<1>7. Knows(w)'
  <2>1. work'[w].phase = phase /\ work'[w].job = j
    BY <1>1, <1>3
  <2>2. phase = "done" => notes'[j] >= 1
    BY <1>4
  <2>3. j \notin mistreated' =>
          /\ jobs'[j].status = "running" /\ notes'[j] = 1
          /\ work'[w].retryCount = jobs'[j].retryCount
    BY <1>1, <1>2, <1>3, <1>4, <1>5 DEF Knows
  <2>. QED
    BY <1>5, <2>1, <2>2, <2>3 DEF Knows
<1>8. /\ notes'[j] >= notes[j]
      /\ jobs'[j].status = "done" => notes'[j] >= 1
  <2>1. jobs[j].status = "done" => notes[j] >= 1
    BY <1>2 DEF IInv, DoneHasNote
  <2>. QED
    BY <1>2, <1>4, <2>1
<1>9. /\ mistreated \subseteq mistreated' /\ mistreated' \subseteq mistreated \cup {j}
      /\ \A i \in DOMAIN jobs \ {j} : jobs'[i] = jobs[i] /\ notes'[i] = notes[i]
      /\ IF x.phase = "queue" THEN x = AtQueue ELSE x.job = j
      /\ UNCHANGED <<clock, orchestratorVars>>
      /\ jobs' \in Seq(JobRow) /\ Len(jobs') = Len(jobs)
      /\ jobs'[j].context = jobs[j].context /\ jobs'[j].createdAt = jobs[j].createdAt
  BY <1>1, <1>2, <1>3, <1>4
<1>. QED
  BY <1>1, <1>3, <1>4, <1>6, <1>7, <1>8, <1>9, WorkerIInv

LEMMA InsertNoteIInv ==
  ASSUME IInv, NEW w \in Workers, InsertNote(w), UNCHANGED orchestratorVars
  PROVE  IInv'
<1>1. work[w].phase = "generate" /\ UNCHANGED <<clock, jobs, orchestratorVars>>
  BY DEF InsertNote
<1>2. CASE /\ Goes(w, "done")
           /\ notes' = [notes EXCEPT ![work[w].job] = @ + 1]
           /\ mistreated' = mistreated
  <2>1. 1 \in 0 .. 2 /\ 1 >= 1 /\ "done" \in {"done", "catch"}
    OBVIOUS
  <2>. QED
    BY <1>1, <1>2, <2>1, NotesStoredIInv
<1>3. ASSUME mistreated' = mistreated \cup {work[w].job}, NEW rows \in 0 .. 2,
             notes' = [notes EXCEPT ![work[w].job] = @ + rows],
             IF rows = 2 THEN Goes(w, "done") ELSE Goes(w, "catch")
      PROVE  IInv'
  <2>1. CASE rows = 2
    <3>1. rows >= 1 /\ "done" \in {"done", "catch"} /\ Goes(w, "done")
      BY <1>3, <2>1
    <3>. QED
      BY <1>1, <1>3, <3>1, NotesStoredIInv
  <2>2. CASE rows # 2
    <3>1. "catch" # "done" /\ "catch" \in {"done", "catch"} /\ Goes(w, "catch")
      BY <1>3, <2>2
    <3>. QED
      BY <1>1, <1>3, <3>1, NotesStoredIInv
  <2>. QED
    BY <2>1, <2>2
<1>. QED
  BY <1>2, <1>3 DEF InsertNote

(* A new status of worker w's job.                                         *)
LEMMA RowUpdatedIInv ==
  ASSUME IInv, NEW w \in Workers, work[w].phase # "queue", NEW x \in WorkRow,
         NEW s \in Statuses, NEW r \in Nat,
         UpdateJobStatus(work[w].job, s, r),
         work' = [work EXCEPT ![w] = x],
         IF x.phase = "queue" THEN x = AtQueue ELSE x.job = work[w].job,
         mistreated' \in {mistreated, mistreated \cup {work[w].job}},
         work[w].job \notin mistreated' =>
           /\ r <= MaxRetries
           /\ s = "queued" => notes[work[w].job] = 0
           /\ s \in {"queued", "running"} => r < MaxRetries,
         s = "done" => notes[work[w].job] >= 1,
         Knows(w)',
         UNCHANGED <<clock, notes, orchestratorVars>>
  PROVE  IInv'
<1>1. PICK j \in DOMAIN jobs : j = work[w].job
  BY HolderFacts
<1>2. /\ jobs' \in Seq(JobRow) /\ Len(jobs') = Len(jobs)
      /\ \A i \in DOMAIN jobs \ {j} : jobs'[i] = jobs[i]
      /\ jobs'[j].status = s /\ jobs'[j].retryCount = r
      /\ jobs'[j].context = jobs[j].context
      /\ jobs'[j].createdAt = jobs[j].createdAt
  BY <1>1, UpdateFacts DEF IInv
<1>3. Orderly(j) /\ notes[j] \in Nat /\ notes \in Seq(Nat)
  BY <1>1, HolderFacts DEF IInv, Types
<1>4. mistreated \subseteq mistreated' /\ mistreated' \subseteq mistreated \cup {j}
  BY <1>1
<1>5. Orderly(j)'
  <2>1. j \notin mistreated' => notes[j] <= 1
    BY <1>3, <1>4 DEF Orderly
  <2>. QED
    BY <1>1, <1>2, <2>1 DEF Orderly
<1>6. /\ \A i \in DOMAIN jobs \ {j} : jobs'[i] = jobs[i] /\ notes'[i] = notes[i]
      /\ IF x.phase = "queue" THEN x = AtQueue ELSE x.job = j
      /\ UNCHANGED <<clock, orchestratorVars>>
      /\ notes'[j] >= notes[j] /\ Len(notes') = Len(notes) /\ notes' \in Seq(Nat)
      /\ jobs'[j].status = "done" => notes'[j] >= 1
  BY <1>1, <1>2, <1>3
<1>. QED
  BY <1>1, <1>2, <1>4, <1>5, <1>6, WorkerIInv

LEMMA MarkDoneIInv ==
  ASSUME IInv, NEW w \in Workers, MarkDone(w), UNCHANGED orchestratorVars
  PROVE  IInv'
<1>1. work[w].phase = "done" /\ UNCHANGED <<clock, notes, orchestratorVars>>
  BY DEF MarkDone
<1>2. PICK j \in DOMAIN jobs : j = work[w].job
  BY <1>1, HolderFacts
<1>3. /\ Knows(w) /\ Orderly(j) /\ notes[j] >= 1
      /\ jobs[j].retryCount \in Nat
  <2>1. Knows(w) /\ Orderly(j) /\ jobs[j] \in JobRow
    BY <1>1, <1>2, HolderFacts
  <2>. QED
    BY <1>1, <1>2, <2>1 DEF Knows, JobRow
<1>4. CASE /\ UpdateJobStatus(work[w].job, "done", jobs[work[w].job].retryCount)
           /\ Goes(w, "session") /\ mistreated' = mistreated
  <2>1. PICK x \in WorkRow : /\ x.phase = "session" /\ x.job = work[w].job
                             /\ x.retryCount = work[w].retryCount
                             /\ work' = [work EXCEPT ![w] = x]
                             /\ work'[w] = x
    BY <1>1, <1>4, ToPhase DEF Phases
  <2>2. jobs'[j].status = "done" /\ jobs'[j].retryCount = jobs[j].retryCount
    BY <1>2, <1>3, <1>4, UpdateFacts DEF IInv, Statuses, Final
  <2>3. Knows(w)'
    BY <1>1, <1>2, <1>3, <1>4, <2>1, <2>2 DEF Knows
  <2>4. j \notin mistreated' => jobs[j].retryCount <= MaxRetries
    BY <1>3, <1>4 DEF Orderly
  <2>5. "done" \in Statuses /\ "done" \notin {"queued", "running"}
    BY DEF Statuses, Final
  <2>6. /\ work[w].phase # "queue"
        /\ IF x.phase = "queue" THEN x = AtQueue ELSE x.job = work[w].job
    BY <1>1, <2>1
  <2>. QED
    BY <1>1, <1>2, <1>3, <1>4, <2>1, <2>3, <2>4, <2>5, <2>6, RowUpdatedIInv
<1>5. CASE /\ mistreated' = mistreated \cup {work[w].job} /\ Goes(w, "catch")
           /\ \/ UpdateJobStatus(work[w].job, "done", jobs[work[w].job].retryCount)
              \/ UNCHANGED jobs
  <2>1. PICK x \in WorkRow : /\ x.phase = "catch" /\ x.job = work[w].job
                             /\ x.retryCount = work[w].retryCount
                             /\ work' = [work EXCEPT ![w] = x]
                             /\ work'[w] = x
    BY <1>1, <1>5, ToPhase DEF Phases
  <2>2. Knows(w)'
    BY <1>5, <2>1 DEF Knows
  <2>3. /\ work[w].phase # "queue"
        /\ IF x.phase = "queue" THEN x = AtQueue ELSE x.job = work[w].job
    BY <1>1, <2>1
  <2>4. CASE UNCHANGED jobs
    BY <1>1, <1>5, <2>1, <2>2, <2>3, <2>4, WorkerQuietIInv
  <2>5. CASE UpdateJobStatus(work[w].job, "done", jobs[work[w].job].retryCount)
    <3>1. "done" \in Statuses /\ work[w].job \in mistreated'
      BY <1>5 DEF Statuses, Final
    <3>. QED
      BY <1>1, <1>2, <1>3, <1>5, <2>1, <2>2, <2>3, <2>5, <3>1, RowUpdatedIInv
  <2>. QED
    BY <1>5, <2>4, <2>5
<1>. QED
  BY <1>4, <1>5 DEF MarkDone

LEMMA GiveBackIInv ==
  ASSUME IInv, NEW w \in Workers, GiveBack(w), UNCHANGED orchestratorVars
  PROVE  IInv'
<1>1. /\ work[w].phase = "catch" /\ work' = [work EXCEPT ![w] = AtQueue]
      /\ UNCHANGED <<clock, notes, orchestratorVars>>
  BY DEF GiveBack
<1>2. PICK j \in DOMAIN jobs : j = work[w].job
  BY <1>1, HolderFacts
<1>3. /\ AtQueue \in WorkRow /\ AtQueue.phase = "queue" /\ Knows(w)'
      /\ IF AtQueue.phase = "queue" THEN AtQueue = AtQueue ELSE AtQueue.job = work[w].job
  BY <1>1, ToQueue
<1>4. PICK s, r : s = StatusAfter(work[w].retryCount)[1] /\ r = StatusAfter(work[w].retryCount)[2]
  OBVIOUS
<1>5. /\ work[w].retryCount \in Nat
      /\ s = IF work[w].retryCount + 1 >= MaxRetries THEN "failed" ELSE "queued"
      /\ r = work[w].retryCount + 1
  <2>1. work[w] \in WorkRow
    BY <1>1, HolderFacts
  <2>. QED
    BY <1>4, <2>1 DEF StatusAfter, WorkRow
<1>6. s \in {"failed", "queued"} /\ s \in Statuses /\ r \in Nat
  BY <1>5 DEF Statuses, Final
<1>7. j \notin mistreated => /\ notes[j] = 0
                            /\ jobs[j].status = "running"
                            /\ work[w].retryCount = jobs[j].retryCount
                            /\ jobs[j].retryCount < MaxRetries
  <2>1. Knows(w) /\ Orderly(j)
    BY <1>1, <1>2, HolderFacts
  <2>. QED
    BY <1>1, <1>2, <2>1 DEF Knows, Orderly
<1> DEFINE Allows(i) == /\ r <= MaxRetries
                        /\ s = "queued" => notes[i] = 0
                        /\ s \in {"queued", "running"} => r < MaxRetries
<1>8. j \notin mistreated => Allows(j)
  BY <1>5, <1>7, JobsAssumption
<1>9. ASSUME UpdateJobStatus(work[w].job, s, r),
             mistreated' \in {mistreated, mistreated \cup {work[w].job}}
      PROVE  IInv'
  <2>1. s # "done" /\ work[w].phase # "queue"
    BY <1>1, <1>6
  <2>2. work[w].job \notin mistreated' => Allows(work[w].job)
    <3>1. j \notin mistreated' => j \notin mistreated
      BY <1>9
    <3> HIDE DEF Allows
    <3>. QED
      BY <1>2, <1>8, <3>1, Zenon
  <2>. QED
    BY <1>1, <1>3, <1>6, <1>9, <2>1, <2>2, RowUpdatedIInv
<1>10. CASE UNCHANGED jobs /\ mistreated' = mistreated \cup {work[w].job}
  BY <1>1, <1>3, <1>10, WorkerQuietIInv
<1>. QED
  BY <1>4, <1>9, <1>10 DEF GiveBack

LEMMA ClaimFacts ==
  ASSUME Types, NEW j \in DOMAIN jobs, jobs' = [jobs EXCEPT ![j] = ClaimOf(@)]
  PROVE  /\ jobs' \in Seq(JobRow) /\ Len(jobs') = Len(jobs)
         /\ \A i \in DOMAIN jobs \ {j} : jobs'[i] = jobs[i]
         /\ jobs'[j].status = "running" /\ jobs'[j].retryCount = jobs[j].retryCount
         /\ jobs'[j].context = jobs[j].context
         /\ jobs'[j].createdAt = jobs[j].createdAt
         /\ jobs'[j].claimedAt = clock
<1> DEFINE row == ClaimOf(jobs[j])
<1>1. jobs[j] \in JobRow
  BY RowFacts
<1>2. /\ row \in JobRow /\ row.status = "running" /\ row.retryCount = jobs[j].retryCount
      /\ row.context = jobs[j].context /\ row.createdAt = jobs[j].createdAt
      /\ row.claimedAt = clock
  BY <1>1 DEF JobRow, ClaimOf, Statuses, Types
<1>3. jobs' = [jobs EXCEPT ![j] = row]
  OBVIOUS
<1> HIDE DEF row
<1>4. jobs \in Seq(JobRow) /\ j \in 1 .. Len(jobs)
  BY LenProperties DEF Types
<1>5. jobs' \in Seq(JobRow) /\ Len(jobs') = Len(jobs)
  BY <1>2, <1>3, <1>4, ExceptSeq
<1>6. jobs'[j] = row /\ \A i \in DOMAIN jobs \ {j} : jobs'[i] = jobs[i]
  BY <1>3, <1>4
<1>. QED
  BY <1>2, <1>5, <1>6

(* A queued job that met no mishap is in nobody's hands when it is claimed.*)
LEMMA ClaimIInv ==
  ASSUME IInv, NEW w \in Workers, Claim(w), UNCHANGED orchestratorVars
  PROVE  IInv'
<1>1. /\ work[w].phase = "queue" /\ UNCHANGED <<clock, notes, orchestratorVars>>
  BY DEF Claim
<1>2. PICK j \in Queued :
        /\ jobs' = [jobs EXCEPT ![j] = ClaimOf(@)]
        /\ \/ /\ work' = [work EXCEPT ![w] = [phase |-> "read", job |-> j, retryCount |-> 0]]
              /\ mistreated' = mistreated
           \/ /\ mistreated' = mistreated \cup {j}
              /\ work' = work
  BY DEF Claim
<1>3. j \in DOMAIN jobs /\ jobs[j].status = "queued" /\ Types
  BY DEF Queued, IInv
<1>4. /\ jobs' \in Seq(JobRow) /\ Len(jobs') = Len(jobs)
      /\ \A i \in DOMAIN jobs \ {j} : jobs'[i] = jobs[i]
      /\ jobs'[j].status = "running" /\ jobs'[j].retryCount = jobs[j].retryCount
      /\ jobs'[j].context = jobs[j].context
      /\ jobs'[j].createdAt = jobs[j].createdAt
  BY <1>2, <1>3, ClaimFacts
<1>5. DOMAIN jobs' = DOMAIN jobs /\ notes[j] \in Nat /\ j \in Nat /\ j # 0
  BY <1>3, <1>4, RowFacts, LenProperties DEF Types
<1>6. mistreated \subseteq mistreated' /\ mistreated' \subseteq mistreated \cup {j}
  BY <1>2
<1>7. Orderly(j)'
  <2>1. Orderly(j)
    BY <1>3 DEF IInv
  <2>. QED
    BY <1>1, <1>3, <1>4, <1>6, <2>1 DEF Orderly
<1>8. \A v \in Workers : work[v].job = j => j \in mistreated
  <2> SUFFICES ASSUME NEW v \in Workers, work[v].job = j, j \notin mistreated PROVE FALSE
    OBVIOUS
  <2>1. work[v].phase # "queue" /\ Knows(v)
    BY <1>5 DEF IInv, Types, AtQueue
  <2>. QED
    BY <1>3, <2>1 DEF Knows
<1>9. CASE work' = work
  <2>1. Types'
    BY <1>1, <1>3, <1>4, <1>5, <1>6, <1>9 DEF Types, orchestratorVars
  <2>2. OneWorker'
    BY <1>6, <1>9 DEF IInv, OneWorker
  <2>3. \A v \in Workers : work'[v] = work[v] /\ (work[v].job = j => j \in mistreated')
    BY <1>6, <1>8, <1>9
  <2>4. /\ notes'[j] >= notes[j] /\ jobs'[j].status # "done"
        /\ jobs[j].status # "cancelled"
        /\ \A i \in DOMAIN jobs \ {j} : jobs'[i] = jobs[i] /\ notes'[i] = notes[i]
    BY <1>1, <1>3, <1>4, <1>5
  <2>. QED
    BY <1>1, <1>3, <1>4, <1>6, <1>7, <2>1, <2>2, <2>3, <2>4, StatementIInv
    DEF orchestratorVars
<1>10. CASE /\ work' = [work EXCEPT ![w] = [phase |-> "read", job |-> j, retryCount |-> 0]]
            /\ mistreated' = mistreated
  <2> DEFINE x == [phase |-> "read", job |-> j, retryCount |-> 0]
  <2>1. x \in WorkRow /\ x.phase = "read" /\ x.job = j
    BY <1>5 DEF WorkRow, Phases
  <2>2. work' = [work EXCEPT ![w] = x]
    BY <1>10
  <2> HIDE DEF x
  <2>3. /\ work'[w] = x /\ work' \in [Workers -> WorkRow]
        /\ \A v \in Workers \ {w} : work'[v] = work[v]
    BY <1>3, <2>1, <2>2 DEF Types
  <2>4. Types'
    <3>1. \A v \in Workers : IF work'[v].phase = "queue" THEN work'[v] = AtQueue
                                                        ELSE work'[v].job \in DOMAIN jobs'
      BY <1>3, <1>5, <2>1, <2>3 DEF Types
    <3>. QED
      BY <1>1, <1>3, <1>4, <1>5, <1>10, <2>3, <3>1 DEF Types, orchestratorVars
  <2>5. OneWorker'
    BY <1>8, <1>10, <2>1, <2>3 DEF IInv, OneWorker
  <2>6. Knows(w)'
    <3>1. j \notin mistreated => notes[j] = 0
      BY <1>3 DEF IInv, Orderly
    <3>. QED
      BY <1>1, <1>4, <1>10, <2>1, <2>3, <3>1 DEF Knows
  <2>7. \A v \in Workers \ {w} : /\ work'[v] = work[v]
                                 /\ work[v].job = j => j \in mistreated'
    BY <1>6, <1>8, <2>3
  <2>8. /\ notes'[j] >= notes[j] /\ jobs'[j].status # "done"
        /\ jobs[j].status # "cancelled"
        /\ \A i \in DOMAIN jobs \ {j} : jobs'[i] = jobs[i] /\ notes'[i] = notes[i]
    BY <1>1, <1>3, <1>4, <1>5
  <2>9. UNCHANGED <<clock, candidate, doubled>>
    BY <1>1 DEF orchestratorVars
  <2>. QED
    BY <1>3, <1>4, <1>6, <1>7, <2>4, <2>5, <2>6, <2>7, <2>8, <2>9, StatementIInv
<1>. QED
  BY <1>2, <1>9, <1>10

LEMMA WorkerStepIInv ==
  ASSUME IInv, NEW w \in Workers, WorkerStep(w) \/ WorkerCrash(w),
         UNCHANGED orchestratorVars
  PROVE  IInv'
BY ClaimIInv, ReadJobIInv, GenerateFailsIInv, InsertNoteIInv, MarkDoneIInv,
   CountJobIInv, GiveBackIInv, WorkerCrashIInv DEF WorkerStep

-----------------------------------------------------------------------------
(* The orchestrator.                                                       *)

(* What the step leaves alone when the queue and the workers rest.         *)
LEMMA QueueRests ==
  ASSUME IInv, Types', UNCHANGED <<jobs, notes, mistreated, work, doubled>>, StillAllowed'
  PROVE  IInv'
<1>1. \A j \in DOMAIN jobs' : Orderly(j)'
  BY DEF IInv, Orderly
<1>2. \A w \in Workers : Knows(w)'
  BY DEF IInv, Knows
<1>3. OneWorker' /\ DoneHasNote'
  BY DEF IInv, OneWorker, DoneHasNote
<1>4. OneJob'
  <2>1. \A i : Excused(i)' <=> Excused(i)
    BY DEF Excused
  <2>. QED
    BY <2>1 DEF IInv, OneJob
<1>. QED
  BY <1>1, <1>2, <1>3, <1>4 DEF IInv

LEMMA AllowIInv ==
  ASSUME IInv, NEW t \in Triggers, NEW c \in Contexts, Allow(t, c), UNCHANGED work
  PROVE  IInv'
<1>1. /\ UNCHANGED <<clock, jobs, notes, mistreated, work, cancelling, doubled>>
      /\ candidate' = [candidate EXCEPT ![t] = c]
      /\ ~HasRecentJob(c, Window)
  BY DEF Allow, Allowed, storeVars
<1>2. Types'
  BY <1>1 DEF IInv, Types
<1>3. StillAllowed'
  <2> SUFFICES ASSUME NEW s \in Triggers, NEW i \in DOMAIN jobs,
                      jobs[i].context = candidate'[s],
                      jobs[i].createdAt + Window > clock
               PROVE  Excused(i)
    BY <1>1 DEF StillAllowed, Excused
  <2>1. CASE s = t
    BY <1>1, <2>1 DEF IInv, Types, HasRecentJob, Excused
  <2>2. CASE s # t
    BY <1>1, <2>2 DEF IInv, Types, StillAllowed
  <2>. QED
    BY <2>1, <2>2
<1>. QED
  BY <1>1, <1>2, <1>3, QueueRests

LEMMA TickIInv ==
  ASSUME IInv, Tick
  PROVE  IInv'
<1>1. /\ UNCHANGED <<jobs, notes, mistreated, work, candidate, cancelling, doubled>>
      /\ clock' = clock + 1
  BY DEF Tick, orchestratorVars
<1>2. Types'
  BY <1>1 DEF IInv, Types
<1>3. StillAllowed'
  <2> SUFFICES ASSUME NEW s \in Triggers, NEW i \in DOMAIN jobs,
                      jobs[i].context = candidate[s],
                      jobs[i].createdAt + Window > clock + 1
               PROVE  Excused(i)
    BY <1>1 DEF StillAllowed, Excused
  <2>1. jobs[i].createdAt \in Nat /\ clock \in Nat /\ Window \in Nat
    BY RowFacts, OrchestratorAssumption DEF IInv, Types, JobRow
  <2>2. jobs[i].createdAt + Window > clock
    BY <2>1
  <2>. QED
    BY <2>2 DEF IInv, StillAllowed
<1>. QED
  BY <1>1, <1>2, <1>3, QueueRests

LEMMA CheckCancelIInv ==
  ASSUME IInv, NEW k \in Cancels, NEW j \in DOMAIN jobs, CheckCancel(k, j), UNCHANGED work
  PROVE  IInv'
<1>1. /\ UNCHANGED <<clock, jobs, notes, mistreated, work, candidate, doubled>>
      /\ cancelling' = [cancelling EXCEPT ![k] = [phase |-> "checked", job |-> j]]
  BY DEF CheckCancel, storeVars
<1>2. Types'
  BY <1>1 DEF IInv, Types
<1>3. StillAllowed'
  BY <1>1 DEF IInv, StillAllowed, Excused
<1>. QED
  BY <1>1, <1>2, <1>3, QueueRests

LEMMA CancelJobIInv ==
  ASSUME IInv, NEW k \in Cancels, CancelJob(k), UNCHANGED work
  PROVE  IInv'
<1>1. /\ cancelling[k].phase = "checked"
      /\ UNCHANGED <<clock, notes, work, candidate, doubled>>
      /\ cancelling' = [cancelling EXCEPT ![k] = [phase |-> "over", job |-> 0]]
  BY DEF CancelJob
<1>2. PICK j \in DOMAIN jobs : j = cancelling[k].job
  BY <1>1 DEF IInv, Types
<1>3. /\ UpdateJobStatus(j, "cancelled", jobs[j].retryCount) \/ UNCHANGED jobs
      /\ mistreated' = IF jobs[j].status \notin {"queued", "cancelled"}
                       THEN mistreated \cup {j} ELSE mistreated
  BY <1>2 DEF CancelJob
<1>4. /\ jobs[j] \in JobRow /\ notes[j] \in Nat /\ Types /\ Orderly(j)
  BY RowFacts DEF IInv
<1>5. /\ jobs' \in Seq(JobRow) /\ Len(jobs') = Len(jobs) /\ DOMAIN jobs' = DOMAIN jobs
      /\ \A i \in DOMAIN jobs \ {j} : jobs'[i] = jobs[i]
      /\ jobs'[j].context = jobs[j].context /\ jobs'[j].createdAt = jobs[j].createdAt
      /\ jobs'[j].retryCount = jobs[j].retryCount
      /\ jobs'[j].status \in {"cancelled", jobs[j].status}
  <2>1. CASE UNCHANGED jobs
    BY <1>4, <2>1 DEF Types
  <2>2. CASE UpdateJobStatus(j, "cancelled", jobs[j].retryCount)
    <3>1. "cancelled" \in Statuses /\ jobs[j].retryCount \in Nat
      BY <1>4 DEF Statuses, Final, JobRow
    <3>2. /\ jobs' \in Seq(JobRow) /\ Len(jobs') = Len(jobs)
          /\ \A i \in DOMAIN jobs \ {j} : jobs'[i] = jobs[i]
          /\ jobs'[j].status = "cancelled" /\ jobs'[j].retryCount = jobs[j].retryCount
          /\ jobs'[j].context = jobs[j].context
          /\ jobs'[j].createdAt = jobs[j].createdAt
      BY <1>4, <2>2, <3>1, UpdateFacts
    <3>. QED
      BY <1>4, <3>2 DEF Types
  <2>. QED
    BY <1>3, <2>1, <2>2
<1>6. mistreated \subseteq mistreated' /\ mistreated' \subseteq mistreated \cup {j}
  BY <1>3
<1>7. Types'
  BY <1>1, <1>4, <1>5, <1>6 DEF Types
<1>8. Orderly(j)'
  BY <1>1, <1>4, <1>5, <1>6 DEF Orderly
<1>9. \A v \in Workers : work[v].job = j => j \in mistreated'
  <2> SUFFICES ASSUME NEW v \in Workers, work[v].job = j, j \notin mistreated'
               PROVE  FALSE
    OBVIOUS
  <2>1. work[v].phase # "queue" /\ Knows(v)
    BY LenProperties DEF IInv, Types, AtQueue
  <2>. QED
    BY <1>3, <1>6, <2>1 DEF Knows
<1>10. \A v \in Workers : work'[v] = work[v] /\ (work[v].job = j => j \in mistreated')
  BY <1>1, <1>9
<1>11. OneWorker'
  BY <1>1, <1>6 DEF IInv, OneWorker
<1>12. /\ notes'[j] >= notes[j]
       /\ jobs[j].status = "cancelled" => jobs'[j].status = "cancelled"
       /\ jobs'[j].status = "done" => notes'[j] >= 1
       /\ \A i \in DOMAIN jobs \ {j} : jobs'[i] = jobs[i] /\ notes'[i] = notes[i]
  BY <1>1, <1>4, <1>5 DEF IInv, DoneHasNote
<1>13. UNCHANGED <<clock, candidate, doubled>>
  BY <1>1
<1>. QED
  BY <1>5, <1>6, <1>7, <1>8, <1>10, <1>11, <1>12, <1>13, StatementIInv

(* The sweep frees running jobs only, and every job it frees is one that   *)
(* met a mishap.                                                           *)
LEMMA SweepFacts ==
  ASSUME Types, SweepStuckJobs(StuckAge)
  PROVE  /\ jobs' \in Seq(JobRow) /\ Len(jobs') = Len(jobs) /\ DOMAIN jobs' = DOMAIN jobs
         /\ \A i \in DOMAIN jobs :
              /\ jobs'[i].context = jobs[i].context
              /\ jobs'[i].createdAt = jobs[i].createdAt
              /\ jobs'[i].retryCount = jobs[i].retryCount
              /\ jobs'[i].claimedAt \in {0, jobs[i].claimedAt}
              /\ IF Stuck(jobs[i], StuckAge)
                 THEN jobs[i].status = "running" /\ jobs'[i].status = "queued"
                 ELSE jobs'[i] = jobs[i]
<1> DEFINE row(i) == IF Stuck(jobs[i], StuckAge)
                     THEN [jobs[i] EXCEPT !.status = "queued", !.claimedAt = 0]
                     ELSE jobs[i]
<1>1. \A i \in DOMAIN jobs :
        /\ row(i) \in JobRow
        /\ row(i).context = jobs[i].context /\ row(i).createdAt = jobs[i].createdAt
        /\ row(i).retryCount = jobs[i].retryCount
        /\ row(i).claimedAt \in {0, jobs[i].claimedAt}
        /\ IF Stuck(jobs[i], StuckAge)
           THEN jobs[i].status = "running" /\ row(i).status = "queued"
           ELSE row(i) = jobs[i]
  BY RowFacts DEF JobRow, Stuck, Statuses
<1>2. jobs' = [i \in DOMAIN jobs |-> row(i)]
  BY DEF SweepStuckJobs
<1> HIDE DEF row
<1>3. DOMAIN jobs = 1 .. Len(jobs) /\ Len(jobs) \in Nat
  BY LenProperties DEF Types
<1>4. jobs' \in Seq(JobRow) /\ Len(jobs') = Len(jobs)
  <2>1. jobs' \in Seq(JobRow)
    BY <1>1, <1>2, <1>3, IsASeq
  <2>2. DOMAIN jobs' = 1 .. Len(jobs)
    BY <1>2, <1>3
  <2>. QED
    BY <1>3, <2>1, <2>2, LenProperties
<1>5. DOMAIN jobs' = DOMAIN jobs /\ \A i \in DOMAIN jobs : jobs'[i] = row(i)
  BY <1>2
<1>. QED
  BY <1>1, <1>4, <1>5

LEMMA StartOrchestratorIInv ==
  ASSUME IInv, StartOrchestrator, UNCHANGED work
  PROVE  IInv'
<1>1. /\ UNCHANGED <<clock, notes, work, doubled>>
      /\ mistreated' = mistreated \cup {j \in DOMAIN jobs : /\ jobs[j].status = "running"
                                                           /\ Stuck(jobs[j], StuckAge)}
      /\ candidate' = [t \in Triggers |-> NoContext]
      /\ cancelling' = [k \in Cancels |-> IF cancelling[k].phase = "new" THEN cancelling[k]
                                         ELSE [phase |-> "over", job |-> 0]]
      /\ SweepStuckJobs(StuckAge) /\ Types
  BY DEF StartOrchestrator, IInv
<1>2. /\ jobs' \in Seq(JobRow) /\ Len(jobs') = Len(jobs) /\ DOMAIN jobs' = DOMAIN jobs
      /\ \A i \in DOMAIN jobs :
           /\ jobs'[i].context = jobs[i].context
           /\ jobs'[i].createdAt = jobs[i].createdAt
           /\ jobs'[i].status \in {"queued", jobs[i].status}
           /\ jobs[i].status = "cancelled" => jobs'[i].status = "cancelled"
           /\ i \notin mistreated' => jobs'[i] = jobs[i] /\ i \notin mistreated
  BY <1>1, SweepFacts
<1>3. mistreated \subseteq mistreated' /\ mistreated' \subseteq DOMAIN jobs
  BY <1>1 DEF Types
<1>4. Types'
  BY <1>1, <1>2, <1>3 DEF Types
<1>5. \A j \in DOMAIN jobs' : Orderly(j)'
  BY <1>1, <1>2 DEF IInv, Orderly
<1>6. \A w \in Workers : Knows(w)'
  <2> SUFFICES ASSUME NEW w \in Workers PROVE Knows(w)'
    OBVIOUS
  <2>1. CASE work[w].phase = "queue"
    BY <1>1, <2>1 DEF Knows
  <2>2. CASE work[w].phase # "queue"
    <3>1. work[w].job \in DOMAIN jobs /\ Knows(w)
      BY <2>2, HolderFacts
    <3>. QED
      BY <1>1, <1>2, <2>2, <3>1 DEF Knows
  <2>. QED
    BY <2>1, <2>2
<1>7. OneWorker'
  BY <1>1, <1>3 DEF IInv, OneWorker
<1>8. DoneHasNote'
  BY <1>1, <1>2 DEF IInv, DoneHasNote
<1>9. \A i \in DOMAIN jobs : Excused(i) => Excused(i)'
  BY <1>1, <1>2, <1>3 DEF Excused
<1>10. OneJob'
  BY <1>2, <1>9 DEF IInv, OneJob
<1>11. StillAllowed'
  <2>1. \A i \in DOMAIN jobs' : jobs'[i].context \in Contexts
    BY <1>2, RowFacts DEF IInv, JobRow
  <2>. QED
    BY <1>1, <2>1, OrchestratorAssumption DEF StillAllowed
<1>. QED
  BY <1>4, <1>5, <1>6, <1>7, <1>8, <1>10, <1>11 DEF IInv

LEMMA InsertFacts ==
  ASSUME Types, NEW c \in Contexts, NEW n \in Nat, Insert(c, n)
  PROVE  /\ jobs' \in Seq(JobRow) /\ Len(jobs') = Len(jobs) + n
         /\ notes' \in Seq(Nat) /\ Len(notes') = Len(jobs) + n
         /\ DOMAIN jobs = 1 .. Len(jobs) /\ DOMAIN jobs' = 1 .. Len(jobs) + n
         /\ Len(jobs) \in Nat
         /\ \A i \in DOMAIN jobs : jobs'[i] = jobs[i] /\ notes'[i] = notes[i]
         /\ \A i \in DOMAIN jobs' \ DOMAIN jobs : jobs'[i] = Row(c) /\ notes'[i] = 0
<1> DEFINE rows == [i \in 1 .. n |-> Row(c)]
           none == [i \in 1 .. n |-> 0]
           l == Len(jobs)
<1>1. Row(c) \in JobRow
  BY DEF Row, JobRow, Statuses, Types
<1>2. /\ rows \in Seq(JobRow) /\ Len(rows) = n /\ \A i \in 1 .. n : rows[i] = Row(c)
  BY <1>1, IsASeq, LenProperties
<1>3. /\ none \in Seq(Nat) /\ Len(none) = n /\ \A i \in 1 .. n : none[i] = 0
  BY IsASeq, LenProperties
<1>4. jobs' = jobs \o rows /\ notes' = notes \o none
  BY DEF Insert
<1> HIDE DEF rows, none
<1>5. /\ jobs \in Seq(JobRow) /\ notes \in Seq(Nat) /\ Len(notes) = l
      /\ l \in Nat /\ DOMAIN jobs = 1 .. l
  BY LenProperties DEF Types
<1>6. /\ jobs' \in Seq(JobRow) /\ Len(jobs') = l + n
      /\ \A i \in 1 .. l + n : jobs'[i] = IF i <= l THEN jobs[i] ELSE rows[i - l]
  BY <1>2, <1>4, <1>5, ConcatProperties
<1>7. /\ notes' \in Seq(Nat) /\ Len(notes') = l + n
      /\ \A i \in 1 .. l + n : notes'[i] = IF i <= l THEN notes[i] ELSE none[i - l]
  <2> DEFINE m == Len(notes)
  <2>1. /\ notes' \in Seq(Nat) /\ Len(notes') = m + n
        /\ \A i \in 1 .. m + n : notes'[i] = IF i <= m THEN notes[i] ELSE none[i - m]
    BY <1>3, <1>4, <1>5, ConcatProperties
  <2>2. m = l
    BY <1>5
  <2> HIDE DEF m, l
  <2>. QED
    BY <2>1, <2>2
<1>8. DOMAIN jobs' = 1 .. l + n
  BY <1>6, LenProperties
<1> HIDE DEF l
<1>9. \A i \in 1 .. l : i \in 1 .. l + n /\ i <= l
  BY <1>5
<1>10. \A i \in (1 .. l + n) \ (1 .. l) : ~(i <= l) /\ i - l \in 1 .. n
  BY <1>5
<1>11. \A i \in DOMAIN jobs : jobs'[i] = jobs[i] /\ notes'[i] = notes[i]
  BY <1>5, <1>6, <1>7, <1>9
<1>12. \A i \in DOMAIN jobs' \ DOMAIN jobs : jobs'[i] = Row(c) /\ notes'[i] = 0
  BY <1>2, <1>3, <1>5, <1>6, <1>7, <1>8, <1>10
<1>. QED
  BY <1>5, <1>6, <1>7, <1>8, <1>11, <1>12 DEF l

(* n rows for the candidate of trigger t.  More than one, or one while     *)
(* another trigger has the same candidate, is recorded in doubled.         *)
LEMMA InsertIInv ==
  ASSUME IInv, NEW t \in Triggers, NEW c \in Contexts, c = candidate[t],
         NEW n \in Nat, Insert(c, n),
         candidate' = [candidate EXCEPT ![t] = NoContext],
         doubled \subseteq doubled',
         \/ c \in doubled'
         \/ n = 1 /\ \A s \in Triggers \ {t} : candidate[s] # c,
         UNCHANGED <<clock, mistreated, work, cancelling>>
  PROVE  IInv'
<1>1. Types /\ Row(c).context = c /\ Row(c).status = "queued"
      /\ Row(c).retryCount = 0 /\ Row(c).createdAt = clock
  BY DEF IInv, Row
<1>2. /\ jobs' \in Seq(JobRow) /\ Len(jobs') = Len(jobs) + n
      /\ notes' \in Seq(Nat) /\ Len(notes') = Len(jobs) + n
      /\ DOMAIN jobs = 1 .. Len(jobs) /\ DOMAIN jobs' = 1 .. Len(jobs) + n
      /\ Len(jobs) \in Nat
      /\ \A i \in DOMAIN jobs : jobs'[i] = jobs[i] /\ notes'[i] = notes[i]
      /\ \A i \in DOMAIN jobs' \ DOMAIN jobs : jobs'[i] = Row(c) /\ notes'[i] = 0
  BY <1>1, InsertFacts
<1>3. DOMAIN jobs \subseteq DOMAIN jobs'
  BY <1>2
<1>4. Types'
  <2>1. candidate' \in [Triggers -> Contexts \cup {NoContext}]
    BY <1>1 DEF Types
  <2>. QED
    BY <1>1, <1>2, <1>3, <2>1 DEF Types
<1>5. \A j \in DOMAIN jobs' : Orderly(j)'
  <2>1. \A j \in DOMAIN jobs : Orderly(j)'
    BY <1>2 DEF IInv, Orderly
  <2>2. \A j \in DOMAIN jobs' \ DOMAIN jobs : Orderly(j)'
    BY <1>1, <1>2, JobsAssumption DEF Orderly
  <2>. QED
    BY <2>1, <2>2
<1>6. \A w \in Workers : Knows(w)'
  <2> SUFFICES ASSUME NEW w \in Workers PROVE Knows(w)'
    OBVIOUS
  <2>1. CASE work[w].phase = "queue"
    BY <2>1 DEF Knows
  <2>2. CASE work[w].phase # "queue"
    <3>1. work[w].job \in DOMAIN jobs /\ Knows(w)
      BY <2>2, HolderFacts
    <3>. QED
      BY <1>2, <2>2, <3>1 DEF Knows
  <2>. QED
    BY <2>1, <2>2
<1>7. OneWorker'
  BY DEF IInv, OneWorker
<1>8. DoneHasNote'
  <2>1. \A j \in DOMAIN jobs' \ DOMAIN jobs : jobs'[j].status # "done"
    BY <1>1, <1>2
  <2>. QED
    BY <1>2, <2>1 DEF IInv, DoneHasNote
<1>9. \A i \in DOMAIN jobs : Excused(i) => Excused(i)'
  BY <1>2 DEF Excused
<1>10. \A i \in DOMAIN jobs' \ DOMAIN jobs :
         jobs'[i].context = c /\ jobs'[i].createdAt = clock
  BY <1>1, <1>2
<1>11. OneJob'
  <2> SUFFICES ASSUME NEW i \in DOMAIN jobs', NEW k \in DOMAIN jobs', i < k,
                      jobs'[i].context = jobs'[k].context,
                      jobs'[k].createdAt < jobs'[i].createdAt + Window
               PROVE  Excused(i)'
    BY DEF OneJob
  <2>1. CASE k \in DOMAIN jobs
    <3>1. i \in DOMAIN jobs
      BY <1>2, <2>1
    <3>. QED
      BY <1>2, <1>9, <2>1, <3>1 DEF IInv, OneJob
  <2>2. CASE k \notin DOMAIN jobs /\ i \in DOMAIN jobs
    <3>1. /\ jobs[i].context = candidate[t] /\ clock < jobs[i].createdAt + Window
          /\ jobs[i] \in JobRow /\ clock \in Nat
      BY <1>1, <1>2, <1>10, <2>2, RowFacts DEF Types
    <3>2. jobs[i].createdAt + Window > clock
      BY <3>1, OrchestratorAssumption DEF JobRow
    <3>. QED
      BY <1>9, <2>2, <3>1, <3>2 DEF IInv, StillAllowed
  <2>3. CASE k \notin DOMAIN jobs /\ i \notin DOMAIN jobs
    <3>1. n # 1
      BY <1>2, <2>3
    <3>. QED
      BY <1>10, <2>3, <3>1 DEF Excused
  <2>. QED
    BY <2>1, <2>2, <2>3
<1>12. StillAllowed'
  <2> SUFFICES ASSUME NEW s \in Triggers, NEW i \in DOMAIN jobs',
                      jobs'[i].context = candidate'[s],
                      jobs'[i].createdAt + Window > clock
               PROVE  Excused(i)'
    BY DEF StillAllowed
  <2>1. jobs'[i].context \in Contexts
    <3>1. i \in 1 .. Len(jobs') /\ jobs' \in Seq(JobRow)
      BY <1>2
    <3>2. jobs'[i] \in JobRow
      BY <3>1, ElementOfSeq
    <3>. QED
      BY <3>2 DEF JobRow
  <2>2. s # t /\ candidate'[s] = candidate[s]
    BY <1>1, <2>1, OrchestratorAssumption DEF Types
  <2>3. CASE i \in DOMAIN jobs
    BY <1>2, <1>9, <2>2, <2>3 DEF IInv, StillAllowed
  <2>4. CASE i \notin DOMAIN jobs
    BY <1>10, <2>2, <2>4 DEF Excused
  <2>. QED
    BY <2>3, <2>4
<1>. QED
  BY <1>4, <1>5, <1>6, <1>7, <1>8, <1>11, <1>12 DEF IInv

LEMMA EnqueueJobIInv ==
  ASSUME IInv, NEW t \in Triggers, EnqueueJob(t), UNCHANGED work
  PROVE  IInv'
<1>1. PICK c \in Contexts : c = candidate[t]
  BY DEF EnqueueJob, IInv, Types
<1>2. /\ UNCHANGED <<clock, mistreated, cancelling>>
      /\ candidate' = [candidate EXCEPT ![t] = NoContext]
  BY DEF EnqueueJob
<1>3. CASE /\ Insert(c, 1)
           /\ doubled' = IF \E s \in Triggers \ {t} : candidate[s] = c
                         THEN doubled \cup {c} ELSE doubled
  <2>1. /\ doubled \subseteq doubled' /\ 1 \in Nat
        /\ c \in doubled' \/ (1 = 1 /\ \A s \in Triggers \ {t} : candidate[s] # c)
    BY <1>3
  <2>. QED
    BY <1>1, <1>2, <1>3, <2>1, InsertIInv
<1>4. ASSUME NEW rows \in 0 .. 2, Insert(c, rows), doubled' = doubled \cup {c}
      PROVE  IInv'
  <2>1. doubled \subseteq doubled' /\ rows \in Nat /\ c \in doubled'
    BY <1>4
  <2>. QED
    BY <1>1, <1>2, <1>4, <2>1, InsertIInv
<1>. QED
  BY <1>1, <1>3, <1>4 DEF EnqueueJob

-----------------------------------------------------------------------------
LEMMA NextIInv == IInv /\ [Next]_vars => IInv'
<1> SUFFICES ASSUME IInv, [Next]_vars PROVE IInv'
  OBVIOUS
<1>1. CASE UNCHANGED vars
  <2>1. UNCHANGED <<clock, jobs, notes, mistreated, work, candidate, cancelling, doubled>>
    BY <1>1 DEF vars, storeVars, orchestratorVars
  <2>2. Types'
    BY <2>1 DEF IInv, Types
  <2>3. StillAllowed'
    BY <2>1 DEF IInv, StillAllowed, Excused
  <2>. QED
    BY <2>1, <2>2, <2>3, QueueRests
<1>2. ASSUME NEW w \in Workers, WorkerStep(w) \/ WorkerCrash(w), UNCHANGED orchestratorVars
      PROVE  IInv'
  BY <1>2, WorkerStepIInv
<1>3. CASE OrchestratorStep /\ UNCHANGED work
  BY <1>3, EnqueueJobIInv, AllowIInv, CancelJobIInv, CheckCancelIInv, StartOrchestratorIInv
  DEF OrchestratorStep
<1>4. CASE Tick
  BY <1>4, TickIInv
<1>. QED
  BY <1>1, <1>2, <1>3, <1>4 DEF Next

LEMMA Invariance == Spec => []IInv
<1>. QED
  BY InitIInv, NextIInv, PTL DEF Spec

(* The only statements about a row that is final are those of a worker or  *)
(* a cancel that has lost it, which makes the job one that met a mishap.   *)
LEMMA FinalKept ==
  ASSUME IInv, [Next]_vars, NEW j \in DOMAIN jobs \ mistreated', jobs[j].status \in Final
  PROVE  jobs'[j].status = jobs[j].status
<1>1. Types
  BY DEF IInv
<1>2. \A i \in DOMAIN jobs : i # j =>
        \A s, n : UpdateJobStatus(i, s, n) => jobs'[j] = jobs[j]
  BY DEF UpdateJobStatus, IInv, Types
<1>3. ASSUME NEW w \in Workers, work[w].phase \in {"done", "catch"},
             mistreated \subseteq mistreated'
      PROVE  work[w].job \in DOMAIN jobs /\ work[w].job # j
  <2>1. work[w].job \in DOMAIN jobs /\ Knows(w)
    BY <1>3, HolderFacts
  <2>2. work[w].job \in mistreated \/ jobs[work[w].job].status = "running"
    BY <1>3, <2>1 DEF Knows
  <2>. QED
    BY <1>3, <2>1, <2>2 DEF Final
<1>4. CASE UNCHANGED jobs
  BY <1>4
<1>5. ASSUME NEW w \in Workers, Claim(w) PROVE jobs'[j].status = jobs[j].status
  <2>1. PICK i \in Queued : jobs' = [jobs EXCEPT ![i] = ClaimOf(@)]
    BY <1>5 DEF Claim
  <2>2. i # j
    BY DEF Queued, Final
  <2>. QED
    BY <2>1, <2>2 DEF IInv, Types
<1>6. ASSUME NEW w \in Workers, MarkDone(w) PROVE jobs'[j].status = jobs[j].status
  <2>1. work[w].phase = "done" /\ mistreated \subseteq mistreated'
    BY <1>6 DEF MarkDone
  <2>2. work[w].job \in DOMAIN jobs /\ work[w].job # j
    BY <1>3, <2>1
  <2>3. \/ UpdateJobStatus(work[w].job, "done", jobs[work[w].job].retryCount)
        \/ UNCHANGED jobs
    BY <1>6 DEF MarkDone
  <2>. QED
    BY <1>2, <1>4, <2>2, <2>3
<1>7. ASSUME NEW w \in Workers, GiveBack(w) PROVE jobs'[j].status = jobs[j].status
  <2>1. work[w].phase = "catch" /\ mistreated \subseteq mistreated'
    BY <1>7 DEF GiveBack
  <2>2. work[w].job \in DOMAIN jobs /\ work[w].job # j
    BY <1>3, <2>1
  <2>3. \/ \E s, n : UpdateJobStatus(work[w].job, s, n)
        \/ UNCHANGED jobs
    BY <1>7 DEF GiveBack
  <2>. QED
    BY <1>2, <1>4, <2>2, <2>3
<1>8. ASSUME NEW w \in Workers, WorkerStep(w) \/ WorkerCrash(w)
      PROVE  jobs'[j].status = jobs[j].status
  <2>1. Claim(w) \/ MarkDone(w) \/ GiveBack(w) \/ UNCHANGED jobs
    BY <1>8 DEF WorkerStep, WorkerCrash, ReadJob, GenerateFails, InsertNote, CountJob, storeVars
  <2>. QED
    BY <1>4, <1>5, <1>6, <1>7, <2>1
<1>9. ASSUME NEW k \in Cancels, CancelJob(k) PROVE jobs'[j].status = jobs[j].status
  <2>1. PICK i \in DOMAIN jobs : i = cancelling[k].job
    BY <1>9 DEF CancelJob, IInv, Types
  <2>2. /\ UpdateJobStatus(i, "cancelled", jobs[i].retryCount) \/ UNCHANGED jobs
        /\ mistreated' = IF jobs[i].status \notin {"queued", "cancelled"}
                         THEN mistreated \cup {i} ELSE mistreated
    BY <1>9, <2>1 DEF CancelJob
  <2>3. CASE i # j
    BY <1>2, <1>4, <2>2, <2>3
  <2>4. CASE i = j /\ UpdateJobStatus(i, "cancelled", jobs[i].retryCount)
    <3>1. jobs[j].status = "cancelled"
      BY <2>2, <2>4 DEF Final
    <3>2. jobs[i].retryCount \in Nat /\ "cancelled" \in Statuses
      BY <1>1, RowFacts DEF JobRow, Statuses, Final
    <3>3. jobs'[i].status = "cancelled"
      BY <1>1, <2>4, <3>2, UpdateFacts
    <3>. QED
      BY <2>4, <3>1, <3>3
  <2>. QED
    BY <1>4, <2>2, <2>3, <2>4
<1>10. CASE StartOrchestrator
  <2>1. SweepStuckJobs(StuckAge)
    BY <1>10 DEF StartOrchestrator
  <2>. QED
    BY <1>1, <2>1, SweepFacts DEF Final
<1>11. ASSUME NEW t \in Triggers, EnqueueJob(t) PROVE jobs'[j].status = jobs[j].status
  <2>1. PICK c \in Contexts : c = candidate[t]
    BY <1>11 DEF EnqueueJob, IInv, Types
  <2>2. PICK n \in Nat : Insert(c, n)
    <3>1. \/ Insert(c, 1) \/ \E rows \in 0 .. 2 : Insert(c, rows)
      BY <1>11, <2>1 DEF EnqueueJob
    <3>. QED
      BY <3>1
  <2>. QED
    BY <1>1, <2>2, InsertFacts
<1>12. ASSUME OrchestratorStep PROVE jobs'[j].status = jobs[j].status
  <2>1. \/ \E t \in Triggers : EnqueueJob(t)
        \/ \E k \in Cancels : CancelJob(k)
        \/ StartOrchestrator \/ UNCHANGED jobs
    BY <1>12 DEF OrchestratorStep, Allow, CheckCancel, storeVars
  <2>. QED
    BY <1>4, <1>9, <1>10, <1>11, <2>1
<1>13. CASE Tick \/ UNCHANGED vars
  BY <1>4, <1>13 DEF Tick, vars, storeVars
<1>. QED
  BY <1>8, <1>12, <1>13 DEF Next

-----------------------------------------------------------------------------
(* Unless a mishap the property names came between, a context has one job  *)
(* in a window, a job one worker, one note and MAX_RETRIES attempts; and a *)
(* job that is done has a note in any case (worker.ts, orchestrator.ts).   *)
THEOREM OnceEach == Spec => []EachContextOnce
<1>1. IInv => EachContextOnce
  <2> SUFFICES ASSUME IInv PROVE EachContextOnce
    OBVIOUS
  <2>1. \A v, w \in Workers :
          v # w /\ work[v].job # 0 /\ Holds(w, work[v].job) => work[v].job \in mistreated
    BY DEF IInv, OneWorker, Holds
  <2>2. \A j \in DOMAIN jobs : /\ notes[j] <= 1 \/ j \in mistreated
                               /\ jobs[j].retryCount <= MaxRetries \/ j \in mistreated
    BY DEF IInv, Orderly
  <2>3. \A j \in DOMAIN jobs : jobs[j].status = "done" => notes[j] >= 1
    BY DEF IInv, DoneHasNote
  <2>4. \A i, k \in DOMAIN jobs :
          /\ i < k
          /\ jobs[i].context = jobs[k].context
          /\ jobs[k].createdAt < jobs[i].createdAt + Window
          => jobs[i].status = "cancelled" \/ i \in mistreated \/ jobs[i].context \in doubled
    BY DEF IInv, OneJob, Excused
  <2>. QED
    BY <2>1, <2>2, <2>3, <2>4 DEF EachContextOnce
<1>. QED
  BY <1>1, Invariance, PTL

(* A job that is done, failed or cancelled stays so, unless a connection   *)
(* broke, a worker crashed or a sweep or a late cancel got at it.          *)
THEOREM FinalIsFinal == Spec => FinalStays
<1>1. IInv /\ [Next]_vars =>
        [\A j \in DOMAIN jobs \ mistreated' :
           jobs[j].status \in Final => jobs'[j].status = jobs[j].status]_vars
  BY FinalKept
<1>. QED
  BY <1>1, Invariance, PTL DEF Spec, FinalStays

-----------------------------------------------------------------------------
(* Types.  What bounds the attempts of a job that met mishaps is that each *)
(* start of the orchestrator frees it once: whoever may yet lower its      *)
(* retryCount below MAX_RETRIES, or the queue that will hand it to such a  *)
(* worker, has one of these starts, or its insert, to itself; the worker   *)
(* that raises the count further is one that loses its own.                *)

Has(v, j) == work[v].phase # "queue" /\ work[v].job = j

(* A worker that will read the row, or will queue the job if it fails.     *)
Fresh(v) == work[v].phase = "read" \/ work[v].retryCount + 1 < MaxRetries

Low(j) == {v \in Workers : Has(v, j) /\ Fresh(v)}

InQueue(j) == IF jobs[j].status = "queued" THEN 1 ELSE 0

Load(j) == Cardinality(Low(j)) + InQueue(j)

(* A count of n leaves room for as many attempts as the load begins.       *)
Room(n, load, s) == n >= MaxRetries => n + load <= MaxRetries + s

Attempted(j) ==
  /\ IsFiniteSet(Low(j))
  /\ Load(j) <= 1 + starts
  /\ Room(jobs[j].retryCount, Load(j), starts)
  /\ \A v \in Workers : Has(v, j) /\ work[v].phase # "read" =>
       Room(work[v].retryCount + 1, Load(j), starts)

Pending == {t \in Triggers : candidate[t] # NoContext}

Steps == [phase : {"new", "checked", "over"}, job : Nat]

Bounded ==
  /\ clock <= MaxClock
  /\ faults \in 0 .. MaxFaults
  /\ starts \in 0 .. MaxStarts
  /\ doubled \subseteq Contexts
  /\ \A j \in DOMAIN jobs : jobs[j].createdAt <= clock /\ jobs[j].claimedAt <= clock
  /\ \A v \in Workers : work[v].phase = "read" => work[v].retryCount = 0
  /\ cancelling \in [Cancels -> Steps]
  /\ \A k \in Cancels : cancelling[k].job \in {0} \cup DOMAIN jobs
  /\ IsFiniteSet(Pending)
  /\ Len(jobs) + Cardinality(Pending) <= MaxJobs

TypeInv == IInv /\ Bounded /\ \A j \in DOMAIN jobs : Attempted(j)

LEMMA InitTypeInv == Init => TypeInv
<1> SUFFICES ASSUME Init PROVE TypeInv
  OBVIOUS
<1>1. IInv
  BY InitIInv
<1> USE DEF Init, StoreInit, WorkerInit, OrchestratorInit, AtQueue
<1>2. DOMAIN jobs = {} /\ Len(jobs) = 0
  OBVIOUS
<1>3. Pending = {}
  BY DEF Pending
<1>4. IsFiniteSet(Pending) /\ Cardinality(Pending) = 0
  BY <1>3, FS_EmptySet
<1>5. Bounded
  BY <1>2, <1>4, JobsAssumption, OrchestratorAssumption DEF Bounded, Steps
<1>. QED
  BY <1>1, <1>2, <1>5 DEF TypeInv

(* The load of a job after a step of worker w.                             *)
LEMMA LoadFacts ==
  ASSUME NEW w \in Workers, NEW j, IsFiniteSet(Low(j)),
         \A v \in Workers : v # w => work'[v] = work[v]
  PROVE  /\ IsFiniteSet(Low(j)')
         /\ Cardinality(Low(j)) \in Nat /\ Cardinality(Low(j)') \in Nat
         /\ Cardinality(Low(j)') = Cardinality(Low(j)) - (IF w \in Low(j) THEN 1 ELSE 0)
                                                       + (IF w \in Low(j)' THEN 1 ELSE 0)
<1> DEFINE L == Low(j)
           M == L \ {w}
           N == Low(j)'
<1>1. \A v \in Workers : v # w => (v \in N <=> v \in L)
  BY DEF Low, Has, Fresh
<1>2. N \subseteq Workers /\ L \subseteq Workers
  BY DEF Low
<1>3. N = IF w \in N THEN M \cup {w} ELSE M
  BY <1>1, <1>2
<1> HIDE DEF N, L
<1>4. /\ IsFiniteSet(M) /\ Cardinality(M) \in Nat /\ Cardinality(L) \in Nat
      /\ Cardinality(M) = Cardinality(L) - (IF w \in L THEN 1 ELSE 0)
  <2>1. IsFiniteSet(L)
    BY DEF L
  <2>2. /\ IsFiniteSet(M) /\ Cardinality(L) \in Nat
        /\ Cardinality(M) = IF w \in L THEN Cardinality(L) - 1 ELSE Cardinality(L)
    BY <2>1, FS_RemoveElement, FS_CardinalityType
  <2>3. Cardinality(M) \in Nat
    BY <2>2, FS_CardinalityType
  <2>. QED
    BY <2>2, <2>3
<1>5. w \notin M
  OBVIOUS
<1> HIDE DEF M
<1>6. /\ IsFiniteSet(N) /\ Cardinality(N) \in Nat
      /\ Cardinality(N) = Cardinality(M) + (IF w \in N THEN 1 ELSE 0)
  <2>1. CASE w \in N
    <3>1. N = M \cup {w}
      BY <1>3, <2>1
    <3>2. IsFiniteSet(N) /\ Cardinality(N) = Cardinality(M) + 1
      BY <1>4, <1>5, <3>1, FS_AddElement
    <3>. QED
      BY <1>4, <2>1, <3>2
  <2>2. CASE w \notin N
    <3>1. N = M
      BY <1>3, <2>2
    <3>. QED
      BY <1>4, <2>2, <3>1
  <2>. QED
    BY <2>1, <2>2
<1>7. Cardinality(N) = Cardinality(L) - (IF w \in L THEN 1 ELSE 0) + (IF w \in N THEN 1 ELSE 0)
  BY <1>4, <1>6
<1>. QED
  BY <1>4, <1>6, <1>7 DEF L, N

(* Room stays where the load grows no more than the starts.                *)
LEMMA RoomKept ==
  ASSUME NEW n \in Nat, NEW load \in Nat, NEW more \in Nat, NEW s \in Nat, NEW t \in Nat,
         Room(n, load, s), more + s <= load + t
  PROVE  Room(n, more, t)
BY JobsAssumption DEF Room

(* A step that loads job j no more than the starts allow keeps its claim,  *)
(* but for what it counts anew.                                            *)
LEMMA AttemptedKept ==
  ASSUME IInv, starts \in Nat, starts' \in Nat,
         NEW j \in DOMAIN jobs, Attempted(j), IsFiniteSet(Low(j)'),
         Load(j) \in Nat, Load(j)' \in Nat,
         Load(j)' + starts <= Load(j) + starts',
         \/ jobs'[j].retryCount = jobs[j].retryCount
         \/ Room(jobs'[j].retryCount, Load(j)', starts'),
         \A v \in Workers : Has(v, j)' /\ work'[v].phase # "read" =>
           \/ /\ Has(v, j) /\ work[v].phase # "read"
              /\ work'[v].retryCount = work[v].retryCount
           \/ Room(work'[v].retryCount + 1, Load(j)', starts')
  PROVE  Attempted(j)'
<1> DEFINE l == Load(j)
           m == Load(j)'
<1>1. l \in Nat /\ m \in Nat /\ m + starts <= l + starts' /\ l <= 1 + starts
  BY DEF Attempted
<1>2. Room(jobs[j].retryCount, l, starts) /\ jobs[j].retryCount \in Nat
  <2>1. jobs[j] \in JobRow
    BY RowFacts DEF IInv
  <2>. QED
    BY <2>1 DEF Attempted, JobRow
<1>3. \A v \in Workers : Has(v, j) /\ work[v].phase # "read" =>
        Room(work[v].retryCount + 1, l, starts) /\ work[v].retryCount + 1 \in Nat
  <2>1. \A v \in Workers : work[v].retryCount \in Nat
    BY DEF IInv, Types, WorkRow
  <2>. QED
    BY <2>1 DEF Attempted
<1>4. Room(jobs'[j].retryCount, m, starts')
  <2>1. jobs'[j].retryCount = jobs[j].retryCount \/ Room(jobs'[j].retryCount, m, starts')
    OBVIOUS
  <2> HIDE DEF l, m
  <2>. QED
    BY <1>1, <1>2, <2>1, RoomKept
<1>5. ASSUME NEW v \in Workers, Has(v, j)', work'[v].phase # "read"
      PROVE  Room(work'[v].retryCount + 1, m, starts')
  <2>1. CASE /\ Has(v, j) /\ work[v].phase # "read"
             /\ work'[v].retryCount = work[v].retryCount
    <3>1. Room(work[v].retryCount + 1, l, starts) /\ work[v].retryCount + 1 \in Nat
      BY <1>3, <2>1
    <3> HIDE DEF l, m
    <3>2. Room(work[v].retryCount + 1, m, starts')
      BY <1>1, <3>1, RoomKept
    <3>. QED
      BY <2>1, <3>2
  <2>. QED
    BY <1>5, <2>1
<1>6. m <= 1 + starts'
  <2>1. \A a, b, c, d \in Nat : b + c <= a + d /\ a <= 1 + c => b <= 1 + d
    OBVIOUS
  <2> HIDE DEF l, m
  <2>. QED
    BY <1>1, <2>1
<1>. QED
  BY <1>4, <1>5, <1>6 DEF Attempted

(* A step in which neither the workers nor the starts are concerned.       *)
LEMMA AttemptedLowered ==
  ASSUME TypeInv, NEW j \in DOMAIN jobs, UNCHANGED work, starts' \in Nat,
         jobs'[j].retryCount = jobs[j].retryCount,
         starts' >= starts,
         jobs'[j].status = "queued" => jobs[j].status = "queued" \/ starts' > starts
  PROVE  Attempted(j)'
<1>1. Attempted(j) /\ IInv /\ starts \in Nat
  BY DEF TypeInv, Bounded
<1>2. Low(j)' = Low(j)
  BY DEF Low, Has, Fresh
<1>3. IsFiniteSet(Low(j)) /\ Cardinality(Low(j)) \in Nat
  BY <1>1, FS_CardinalityType DEF Attempted
<1>4. /\ InQueue(j) \in Nat /\ InQueue(j)' \in Nat
      /\ InQueue(j)' + starts <= InQueue(j) + starts'
  <2>1. starts' >= starts /\ (InQueue(j) = 0 /\ InQueue(j)' = 1 => starts' > starts)
    BY DEF InQueue
  <2>2. InQueue(j) \in {0, 1} /\ InQueue(j)' \in {0, 1}
    BY DEF InQueue
  <2>. QED
    BY <1>1, <2>1, <2>2
<1>5. IsFiniteSet(Low(j)') /\ Cardinality(Low(j)') = Cardinality(Low(j))
  BY <1>2, <1>3
<1>6. Load(j) = Cardinality(Low(j)) + InQueue(j)
  BY DEF Load
<1>7. Load(j)' = Cardinality(Low(j)) + InQueue(j)'
  BY <1>5 DEF Load
<1>8. Load(j) \in Nat /\ Load(j)' \in Nat /\ Load(j)' + starts <= Load(j) + starts'
  BY <1>1, <1>3, <1>4, <1>6, <1>7
<1>9. \A v \in Workers : Has(v, j)' /\ work'[v].phase # "read" =>
         /\ Has(v, j) /\ work[v].phase # "read" /\ work'[v].retryCount = work[v].retryCount
  BY DEF Has
<1>. QED
  BY <1>1, <1>5, <1>8, <1>9, AttemptedKept

(* A step of worker w about job j leaves the others as they were.          *)
LEMMA OthersKept ==
  ASSUME TypeInv, NEW w \in Workers, NEW j, NEW i \in DOMAIN jobs, i # j,
         \A v \in Workers : v # w => work'[v] = work[v],
         ~Has(w, i), ~Has(w, i)',
         jobs'[i] = jobs[i], UNCHANGED starts
  PROVE  Attempted(i)'
<1>1. Attempted(i)
  BY DEF TypeInv
<1>2. \A v \in Workers : Has(v, i)' <=> Has(v, i)
  BY DEF Has
<1>3. \A v \in Workers : Has(v, i) => work'[v] = work[v]
  BY DEF Has
<1>4. Low(i)' = Low(i)
  BY <1>2, <1>3 DEF Low, Fresh
<1>5. Load(i)' = Load(i)
  BY <1>4 DEF Load, InQueue
<1>. QED
  BY <1>1, <1>2, <1>3, <1>4, <1>5 DEF Attempted

(* What the load of the job of worker w comes to.                          *)
LEMMA StepLoad ==
  ASSUME TypeInv, NEW w \in Workers, NEW j \in DOMAIN jobs,
         \A v \in Workers : v # w => work'[v] = work[v]
  PROVE  /\ IInv /\ Attempted(j) /\ IsFiniteSet(Low(j)')
         /\ starts \in Nat
         /\ Load(j) \in Nat /\ Load(j)' \in Nat
         /\ Load(j)' = Load(j) - InQueue(j) - (IF w \in Low(j) THEN 1 ELSE 0)
                     + InQueue(j)' + (IF w \in Low(j)' THEN 1 ELSE 0)
<1>1. IInv /\ Attempted(j) /\ IsFiniteSet(Low(j)) /\ starts \in Nat
  BY DEF TypeInv, Attempted, Bounded
<1>2. /\ IsFiniteSet(Low(j)')
      /\ Cardinality(Low(j)) \in Nat /\ Cardinality(Low(j)') \in Nat
      /\ Cardinality(Low(j)') = Cardinality(Low(j)) - (IF w \in Low(j) THEN 1 ELSE 0)
                                                    + (IF w \in Low(j)' THEN 1 ELSE 0)
  BY <1>1, LoadFacts
<1>3. InQueue(j) \in Nat /\ InQueue(j)' \in Nat
  BY DEF InQueue
<1>4. Load(j) = Cardinality(Low(j)) + InQueue(j) /\ Load(j)' = Cardinality(Low(j)') + InQueue(j)'
  BY DEF Load
<1>5. Load(j) \in Nat /\ Load(j)' \in Nat
  BY <1>2, <1>3, <1>4
<1>6. Load(j)' = Load(j) - InQueue(j) - (IF w \in Low(j) THEN 1 ELSE 0)
               + InQueue(j)' + (IF w \in Low(j)' THEN 1 ELSE 0)
  BY <1>2, <1>3, <1>4
<1>. QED
  BY <1>1, <1>2, <1>5, <1>6

(* A step of worker w, which has job j or none, before and after it.       *)
LEMMA WorkerAttempts ==
  ASSUME TypeInv, NEW w \in Workers, NEW j \in DOMAIN jobs, NEW x \in WorkRow,
         work' = [work EXCEPT ![w] = x],
         work[w].phase = "queue" \/ work[w].job = j,
         x.phase = "queue" \/ x.job = j,
         \A i \in DOMAIN jobs : i # j => jobs'[i] = jobs[i],
         UNCHANGED starts,
         Load(j)' <= Load(j),
         \/ jobs'[j].retryCount = jobs[j].retryCount
         \/ Room(jobs'[j].retryCount, Load(j)', starts),
         \/ x.phase \in {"queue", "read"}
         \/ work[w].phase \notin {"queue", "read"} /\ x.retryCount = work[w].retryCount
         \/ Room(x.retryCount + 1, Load(j)', starts)
  PROVE  \A i \in DOMAIN jobs : Attempted(i)'
<1>1. work'[w] = x /\ \A v \in Workers : v # w => work'[v] = work[v]
  BY DEF TypeInv, IInv, Types
<1>2. /\ IInv /\ Attempted(j) /\ IsFiniteSet(Low(j)')
      /\ starts \in Nat /\ Load(j) \in Nat /\ Load(j)' \in Nat
  BY <1>1, StepLoad
<1>3. ASSUME NEW i \in DOMAIN jobs, i # j PROVE Attempted(i)'
  <2>1. ~Has(w, i) /\ ~Has(w, i)'
    BY <1>1, <1>3 DEF Has
  <2>2. jobs'[i] = jobs[i]
    BY <1>3
  <2>. QED
    BY <1>1, <1>3, <2>1, <2>2, OthersKept
<1>4. \A v \in Workers : Has(v, j)' /\ work'[v].phase # "read" =>
        \/ /\ Has(v, j) /\ work[v].phase # "read"
           /\ work'[v].retryCount = work[v].retryCount
        \/ Room(work'[v].retryCount + 1, Load(j)', starts')
  <2> SUFFICES ASSUME NEW v \in Workers, Has(v, j)', work'[v].phase # "read"
               PROVE  \/ /\ Has(v, j) /\ work[v].phase # "read"
                         /\ work'[v].retryCount = work[v].retryCount
                      \/ Room(work'[v].retryCount + 1, Load(j)', starts')
    OBVIOUS
  <2>1. CASE v # w
    BY <1>1, <2>1 DEF Has
  <2>2. CASE v = w
    BY <1>1, <2>2 DEF Has
  <2>. QED
    BY <2>1, <2>2
<1>5. starts' = starts /\ starts' \in Nat
  BY <1>2
<1>6. Load(j)' + starts <= Load(j) + starts'
  <2>1. \A a, b, c, d \in Nat : a <= b /\ d = c => a + c <= b + d
    OBVIOUS
  <2>. QED
    BY <1>2, <1>5, <2>1
<1>7. \/ jobs'[j].retryCount = jobs[j].retryCount
      \/ Room(jobs'[j].retryCount, Load(j)', starts')
  BY <1>5
<1>8. Attempted(j)'
  BY <1>2, <1>4, <1>5, <1>6, <1>7, AttemptedKept
<1>. QED
  BY <1>3, <1>8

(* The worker goes on with the job, or leaves it.                          *)
LEMMA Relieved ==
  ASSUME TypeInv, NEW w \in Workers, work[w].phase # "queue",
         NEW j \in DOMAIN jobs, j = work[w].job,
         NEW x \in WorkRow, work' = [work EXCEPT ![w] = x],
         \/ x.phase = "queue"
         \/ /\ x.phase # "read" /\ work[w].phase # "read"
            /\ x.job = j /\ x.retryCount = work[w].retryCount,
         \A i \in DOMAIN jobs : i # j => jobs'[i] = jobs[i],
         jobs'[j].retryCount = jobs[j].retryCount,
         jobs'[j].status = "queued" => jobs[j].status = "queued",
         UNCHANGED starts
  PROVE  \A i \in DOMAIN jobs : Attempted(i)'
<1>1. work'[w] = x /\ \A v \in Workers : v # w => work'[v] = work[v]
  BY DEF TypeInv, IInv, Types
<1>2. /\ Load(j) \in Nat /\ Load(j)' \in Nat
      /\ Load(j)' = Load(j) - InQueue(j) - (IF w \in Low(j) THEN 1 ELSE 0)
                  + InQueue(j)' + (IF w \in Low(j)' THEN 1 ELSE 0)
  BY <1>1, StepLoad
<1>3. w \in Low(j)' => w \in Low(j)
  BY <1>1 DEF Low, Has, Fresh
<1>4. InQueue(j) \in {0, 1} /\ InQueue(j)' \in {0, 1} /\ InQueue(j)' <= InQueue(j)
  BY DEF InQueue
<1>5. Load(j)' <= Load(j)
  BY <1>2, <1>3, <1>4
<1>. QED
  BY <1>5, WorkerAttempts

LEMMA ReadJobAttempts ==
  ASSUME TypeInv, NEW w \in Workers, ReadJob(w), UNCHANGED orchestratorVars
  PROVE  \A i \in DOMAIN jobs : Attempted(i)'
<1>1. /\ work[w].phase = "read" /\ UNCHANGED <<jobs, starts>> /\ IInv
  BY DEF ReadJob, orchestratorVars, TypeInv
<1>2. PICK j \in DOMAIN jobs : j = work[w].job /\ jobs[j] \in JobRow /\ work[w] \in WorkRow
  BY <1>1, HolderFacts
<1>3. CASE work' = [work EXCEPT ![w] = AtQueue]
  <2>1. AtQueue \in WorkRow /\ AtQueue.phase = "queue"
    BY DEF AtQueue, WorkRow, Phases
  <2>. QED
    BY <1>1, <1>2, <1>3, <2>1, Relieved
<1>4. CASE work' = [work EXCEPT ![w].phase = "generate",
                                ![w].retryCount = jobs[work[w].job].retryCount]
  <2> DEFINE r == jobs[j].retryCount
             x == [work[w] EXCEPT !.phase = "generate", !.retryCount = r]
  <2>1. x \in WorkRow /\ x.phase = "generate" /\ x.job = j /\ x.retryCount = r /\ r \in Nat
    BY <1>2 DEF WorkRow, JobRow, Phases
  <2>2. work' = [work EXCEPT ![w] = x] /\ work'[w] = x
        /\ \A v \in Workers : v # w => work'[v] = work[v]
    BY <1>1, <1>2, <1>4 DEF IInv, Types
  <2> HIDE DEF x
  <2>3. /\ Attempted(j) /\ starts \in Nat /\ Load(j) \in Nat /\ Load(j)' \in Nat
        /\ Load(j)' = Load(j) - InQueue(j) - (IF w \in Low(j) THEN 1 ELSE 0)
                    + InQueue(j)' + (IF w \in Low(j)' THEN 1 ELSE 0)
    BY <2>2, StepLoad
  <2>4. w \in Low(j) /\ (w \in Low(j)' <=> r + 1 < MaxRetries)
    BY <1>1, <1>2, <2>1, <2>2 DEF Low, Has, Fresh
  <2>5. InQueue(j)' = InQueue(j) /\ InQueue(j) \in Nat
    BY <1>1 DEF InQueue
  <2>6. Load(j)' = IF r + 1 < MaxRetries THEN Load(j) ELSE Load(j) - 1
    BY <2>3, <2>4, <2>5
  <2>7. Room(r, Load(j), starts) /\ Load(j) <= 1 + starts
    BY <2>3 DEF Attempted
  <2>8. Room(r + 1, Load(j)', starts)
    <3>1. \A a, b, s, n \in Nat :
            Room(n, a, s) /\ a <= 1 + s /\ (b = IF n + 1 < MaxRetries THEN a ELSE a - 1)
            => Room(n + 1, b, s)
      BY JobsAssumption DEF Room
    <3>. QED
      BY <2>1, <2>3, <2>6, <2>7, <3>1
  <2>9. Load(j)' <= Load(j)
    BY <2>3, <2>6
  <2>10. /\ \A i \in DOMAIN jobs : i # j => jobs'[i] = jobs[i]
         /\ jobs'[j].retryCount = jobs[j].retryCount
    BY <1>1
  <2>11. Room(x.retryCount + 1, Load(j)', starts)
    BY <2>1, <2>8
  <2>. QED
    BY <1>1, <1>2, <2>1, <2>2, <2>9, <2>10, <2>11, WorkerAttempts
<1>. QED
  BY <1>3, <1>4 DEF ReadJob

LEMMA GiveBackAttempts ==
  ASSUME TypeInv, NEW w \in Workers, GiveBack(w), UNCHANGED orchestratorVars
  PROVE  \A i \in DOMAIN jobs : Attempted(i)'
<1>1. /\ work[w].phase = "catch" /\ work' = [work EXCEPT ![w] = AtQueue]
      /\ UNCHANGED starts /\ IInv
  BY DEF GiveBack, orchestratorVars, TypeInv
<1>2. PICK j \in DOMAIN jobs : j = work[w].job /\ work[w] \in WorkRow
  BY <1>1, HolderFacts
<1>3. AtQueue \in WorkRow /\ AtQueue.phase = "queue" /\ work[w].retryCount \in Nat
  BY <1>2 DEF AtQueue, WorkRow, Phases
<1>4. CASE UNCHANGED jobs
  BY <1>1, <1>2, <1>3, <1>4, Relieved
<1>5. CASE UpdateJobStatus(j, StatusAfter(work[w].retryCount)[1],
                              StatusAfter(work[w].retryCount)[2])
  <2> DEFINE r == work[w].retryCount + 1
  <2>1. PICK s : s = IF r >= MaxRetries THEN "failed" ELSE "queued"
    OBVIOUS
  <2>2. UpdateJobStatus(j, s, r) /\ s \in Statuses /\ r \in Nat
    BY <1>3, <1>5, <2>1 DEF StatusAfter, Statuses, Final
  <2>3. /\ jobs'[j].status = s /\ jobs'[j].retryCount = r
        /\ \A i \in DOMAIN jobs \ {j} : jobs'[i] = jobs[i]
    BY <1>1, <2>2, UpdateFacts DEF IInv
  <2>4. work'[w] = AtQueue /\ \A v \in Workers : v # w => work'[v] = work[v]
    BY <1>1 DEF IInv, Types
  <2>5. /\ Attempted(j) /\ starts \in Nat /\ Load(j) \in Nat /\ Load(j)' \in Nat
        /\ Load(j)' = Load(j) - InQueue(j) - (IF w \in Low(j) THEN 1 ELSE 0)
                    + InQueue(j)' + (IF w \in Low(j)' THEN 1 ELSE 0)
    BY <2>4, StepLoad
  <2>6. w \notin Low(j)' /\ (w \in Low(j) <=> r < MaxRetries)
    BY <1>1, <1>2, <1>3, <2>4 DEF Low, Has, Fresh
  <2>7. InQueue(j)' = (IF r < MaxRetries THEN 1 ELSE 0) /\ InQueue(j) \in {0, 1}
    BY <2>1, <2>2, <2>3, JobsAssumption DEF InQueue
  <2>8. Load(j)' <= Load(j)
    BY <2>5, <2>6, <2>7
  <2>9. Room(r, Load(j), starts)
    BY <1>1, <1>2, <2>5 DEF Attempted, Has
  <2>10. Room(r, Load(j)', starts)
    <3>1. Load(j)' + starts <= Load(j) + starts
      BY <2>5, <2>8
    <3>. QED
      BY <2>2, <2>5, <2>9, <3>1, RoomKept
  <2>11. Room(jobs'[j].retryCount, Load(j)', starts)
    BY <2>3, <2>10
  <2>. QED
    BY <1>1, <1>2, <1>3, <2>3, <2>8, <2>11, WorkerAttempts
<1>. QED
  BY <1>2, <1>4, <1>5 DEF GiveBack

LEMMA ClaimAttempts ==
  ASSUME TypeInv, NEW w \in Workers, Claim(w), UNCHANGED orchestratorVars
  PROVE  \A i \in DOMAIN jobs : Attempted(i)'
<1>1. work[w].phase = "queue" /\ UNCHANGED starts /\ starts \in Nat /\ Types
  BY DEF Claim, orchestratorVars, TypeInv, IInv, Bounded
<1>2. PICK j \in Queued :
        /\ jobs' = [jobs EXCEPT ![j] = ClaimOf(@)]
        /\ \/ work' = [work EXCEPT ![w] = [phase |-> "read", job |-> j, retryCount |-> 0]]
           \/ work' = work
  BY DEF Claim
<1>3. j \in DOMAIN jobs /\ jobs[j].status = "queued" /\ j \in Nat
  BY <1>1, LenProperties DEF Queued, Types
<1>4. /\ \A i \in DOMAIN jobs : i # j => jobs'[i] = jobs[i]
      /\ jobs'[j].status = "running" /\ jobs'[j].retryCount = jobs[j].retryCount
  <2>1. /\ \A i \in DOMAIN jobs \ {j} : jobs'[i] = jobs[i]
        /\ jobs'[j].status = "running" /\ jobs'[j].retryCount = jobs[j].retryCount
    BY <1>1, <1>2, <1>3, ClaimFacts
  <2>. QED
    BY <2>1
<1>5. CASE work' = work
  <2>1. ASSUME NEW i \in DOMAIN jobs PROVE Attempted(i)'
    <3>1. /\ jobs'[i].retryCount = jobs[i].retryCount
          /\ jobs'[i].status = "queued" => jobs[i].status = "queued"
      BY <1>4
    <3>2. starts' \in Nat /\ starts' >= starts
      BY <1>1
    <3>. QED
      BY <1>5, <3>1, <3>2, AttemptedLowered
  <2>. QED
    BY <2>1
<1>6. CASE work' = [work EXCEPT ![w] = [phase |-> "read", job |-> j, retryCount |-> 0]]
  <2> DEFINE x == [phase |-> "read", job |-> j, retryCount |-> 0]
  <2>1. x \in WorkRow /\ x.phase = "read" /\ x.job = j
    BY <1>3 DEF WorkRow, Phases
  <2>2. work' = [work EXCEPT ![w] = x]
    BY <1>6
  <2> HIDE DEF x
  <2>3. work'[w] = x /\ \A v \in Workers : v # w => work'[v] = work[v]
    BY <1>1, <2>2 DEF Types
  <2>4. /\ Load(j) \in Nat /\ Load(j)' \in Nat
        /\ Load(j)' = Load(j) - InQueue(j) - (IF w \in Low(j) THEN 1 ELSE 0)
                    + InQueue(j)' + (IF w \in Low(j)' THEN 1 ELSE 0)
    BY <1>3, <2>3, StepLoad
  <2>5. InQueue(j) = 1 /\ InQueue(j)' = 0 /\ w \notin Low(j)
    BY <1>1, <1>3, <1>4 DEF InQueue, Low, Has
  <2>6. Load(j)' <= Load(j)
    BY <2>4, <2>5
  <2>. QED
    BY <1>1, <1>3, <1>4, <2>1, <2>2, <2>6, WorkerAttempts
<1>. QED
  BY <1>2, <1>5, <1>6

LEMMA MarkDoneAttempts ==
  ASSUME TypeInv, NEW w \in Workers, MarkDone(w), UNCHANGED orchestratorVars
  PROVE  \A i \in DOMAIN jobs : Attempted(i)'
<1>1. /\ work[w].phase = "done" /\ UNCHANGED starts /\ IInv
      /\ Goes(w, "session") \/ Goes(w, "catch")
  BY DEF MarkDone, orchestratorVars, TypeInv
<1>2. PICK j \in DOMAIN jobs : j = work[w].job /\ jobs[j] \in JobRow
  BY <1>1, HolderFacts
<1>3. PICK x \in WorkRow : /\ x.phase \in {"session", "catch"} /\ x.job = work[w].job
                           /\ x.retryCount = work[w].retryCount
                           /\ work' = [work EXCEPT ![w] = x]
  BY <1>1, ToPhase DEF Phases
<1>4. /\ \A i \in DOMAIN jobs : i # j => jobs'[i] = jobs[i]
      /\ jobs'[j].retryCount = jobs[j].retryCount
      /\ jobs'[j].status = "queued" => jobs[j].status = "queued"
  <2>1. UNCHANGED jobs \/ UpdateJobStatus(j, "done", jobs[j].retryCount)
    BY <1>2 DEF MarkDone
  <2>2. CASE UpdateJobStatus(j, "done", jobs[j].retryCount)
    <3>1. "done" \in Statuses /\ jobs[j].retryCount \in Nat
      BY <1>2 DEF Statuses, Final, JobRow
    <3>2. /\ \A i \in DOMAIN jobs \ {j} : jobs'[i] = jobs[i]
          /\ jobs'[j].status = "done" /\ jobs'[j].retryCount = jobs[j].retryCount
      BY <1>1, <2>2, <3>1, UpdateFacts DEF IInv
    <3>. QED
      BY <3>2
  <2>. QED
    BY <2>1, <2>2
<1>. QED
  BY <1>1, <1>2, <1>3, <1>4, Relieved

(* Every step of a worker.                                                 *)
LEMMA WorkerStepAttempts ==
  ASSUME TypeInv, NEW w \in Workers, WorkerStep(w) \/ WorkerCrash(w),
         UNCHANGED orchestratorVars
  PROVE  \A i \in DOMAIN jobs : Attempted(i)'
<1>1. UNCHANGED starts /\ IInv
  BY DEF orchestratorVars, TypeInv
<1>2. AtQueue \in WorkRow /\ AtQueue.phase = "queue"
  BY DEF AtQueue, WorkRow, Phases
<1>3. CASE Claim(w) \/ ReadJob(w) \/ MarkDone(w) \/ GiveBack(w)
  BY <1>3, ClaimAttempts, ReadJobAttempts, MarkDoneAttempts, GiveBackAttempts
<1>4. ASSUME work[w].phase \notin {"queue", "read"}, UNCHANGED jobs,
             Goes(w, "catch") \/ Goes(w, "done")
      PROVE  \A i \in DOMAIN jobs : Attempted(i)'
  <2>1. PICK x \in WorkRow : /\ x.phase \in {"catch", "done"} /\ x.job = work[w].job
                             /\ x.retryCount = work[w].retryCount
                             /\ work' = [work EXCEPT ![w] = x]
    BY <1>1, <1>4, ToPhase DEF Phases
  <2>2. PICK j \in DOMAIN jobs : j = work[w].job
    BY <1>1, <1>4, HolderFacts
  <2>. QED
    BY <1>1, <1>4, <2>1, <2>2, Relieved
<1>5. ASSUME work[w].phase # "queue", UNCHANGED jobs, work' = [work EXCEPT ![w] = AtQueue]
      PROVE  \A i \in DOMAIN jobs : Attempted(i)'
  <2>1. PICK j \in DOMAIN jobs : j = work[w].job
    BY <1>1, <1>5, HolderFacts
  <2>. QED
    BY <1>1, <1>2, <1>5, <2>1, Relieved
<1>6. CASE GenerateFails(w) \/ InsertNote(w)
  <2>1. /\ work[w].phase = "generate" /\ UNCHANGED jobs
        /\ Goes(w, "catch") \/ Goes(w, "done")
    BY <1>6 DEF GenerateFails, InsertNote, storeVars
  <2>. QED
    BY <1>4, <2>1
<1>7. CASE CountJob(w)
  BY <1>4, <1>5, <1>7 DEF CountJob
<1>8. CASE WorkerCrash(w)
  <2>1. work[w].phase # "queue"
    BY <1>1, <1>8 DEF WorkerCrash, IInv, Types
  <2>. QED
    BY <1>5, <1>8, <2>1 DEF WorkerCrash
<1>. QED
  BY <1>3, <1>6, <1>7, <1>8 DEF WorkerStep

(* No step of a worker makes a row, or a time that is yet to come.         *)
LEMMA RowCount ==
  ASSUME TypeInv, NEW w \in Workers, WorkerStep(w) \/ WorkerCrash(w),
         UNCHANGED orchestratorVars
  PROVE  /\ Len(jobs') = Len(jobs) /\ DOMAIN jobs' = DOMAIN jobs
         /\ \A i \in DOMAIN jobs : /\ jobs'[i].createdAt = jobs[i].createdAt
                                   /\ jobs'[i].claimedAt \in {clock, jobs[i].claimedAt}
<1>1. IInv /\ Types /\ UNCHANGED starts
  BY DEF TypeInv, IInv, orchestratorVars
<1>2. CASE UNCHANGED jobs
  BY <1>2
<1>3. ASSUME NEW j \in DOMAIN jobs, NEW s \in Statuses, NEW r \in Nat, UpdateJobStatus(j, s, r)
      PROVE  /\ Len(jobs') = Len(jobs) /\ DOMAIN jobs' = DOMAIN jobs
             /\ \A i \in DOMAIN jobs : /\ jobs'[i].createdAt = jobs[i].createdAt
                                       /\ jobs'[i].claimedAt \in {clock, jobs[i].claimedAt}
  <2>1. /\ jobs' \in Seq(JobRow) /\ Len(jobs') = Len(jobs)
        /\ \A i \in DOMAIN jobs \ {j} : jobs'[i] = jobs[i]
        /\ jobs'[j].createdAt = jobs[j].createdAt
        /\ jobs'[j].claimedAt = jobs[j].claimedAt
    BY <1>1, <1>3, UpdateFacts
  <2>2. DOMAIN jobs' = DOMAIN jobs
    BY <1>1, <2>1 DEF Types
  <2>. QED
    BY <2>1, <2>2
<1>4. CASE Claim(w)
  <2>1. PICK j \in DOMAIN jobs : jobs' = [jobs EXCEPT ![j] = ClaimOf(@)]
    BY <1>4 DEF Claim, Queued
  <2>2. /\ jobs' \in Seq(JobRow) /\ Len(jobs') = Len(jobs)
        /\ \A i \in DOMAIN jobs \ {j} : jobs'[i] = jobs[i]
        /\ jobs'[j].createdAt = jobs[j].createdAt
        /\ jobs'[j].claimedAt = clock
    BY <1>1, <2>1, ClaimFacts
  <2>3. DOMAIN jobs' = DOMAIN jobs
    BY <1>1, <2>2 DEF Types
  <2>. QED
    BY <2>2, <2>3
<1>5. CASE MarkDone(w)
  <2>1. PICK j \in DOMAIN jobs : j = work[w].job /\ jobs[j] \in JobRow
    BY <1>1, <1>5, HolderFacts DEF MarkDone
  <2>2. "done" \in Statuses /\ jobs[j].retryCount \in Nat
    BY <2>1 DEF Statuses, Final, JobRow
  <2>3. UNCHANGED jobs \/ UpdateJobStatus(j, "done", jobs[j].retryCount)
    BY <1>5, <2>1 DEF MarkDone
  <2>. QED
    BY <1>2, <1>3, <2>2, <2>3
<1>6. CASE GiveBack(w)
  <2>1. PICK j \in DOMAIN jobs : j = work[w].job /\ work[w] \in WorkRow
    BY <1>1, <1>6, HolderFacts DEF GiveBack
  <2>2. PICK s, r : /\ s = StatusAfter(work[w].retryCount)[1]
                    /\ r = StatusAfter(work[w].retryCount)[2]
    OBVIOUS
  <2>3. s \in Statuses /\ r \in Nat
    <3>1. work[w].retryCount \in Nat
      BY <2>1 DEF WorkRow
    <3>2. s \in {"failed", "queued"} /\ r = work[w].retryCount + 1
      BY <2>2 DEF StatusAfter
    <3>. QED
      BY <3>1, <3>2 DEF Statuses, Final
  <2>4. UNCHANGED jobs \/ UpdateJobStatus(j, s, r)
    BY <1>6, <2>1, <2>2 DEF GiveBack
  <2>. QED
    BY <1>2, <1>3, <2>3, <2>4
<1>. QED
  BY <1>2, <1>4, <1>5, <1>6
  DEF WorkerStep, WorkerCrash, ReadJob, GenerateFails, InsertNote, CountJob, storeVars

(* A new row is in the queue, and in nobody's hands.                       *)
LEMMA EnqueueJobAttempts ==
  ASSUME TypeInv, NEW t \in Triggers, EnqueueJob(t), UNCHANGED work
  PROVE  \A i \in DOMAIN jobs' : Attempted(i)'
<1>1. PICK c \in Contexts : c = candidate[t]
  BY DEF EnqueueJob, TypeInv, IInv, Types
<1>2. Types /\ UNCHANGED starts /\ starts \in Nat
  BY DEF EnqueueJob, TypeInv, IInv, Bounded
<1>3. PICK n \in Nat : Insert(c, n)
  <2>1. Insert(c, 1) \/ \E rows \in 0 .. 2 : Insert(c, rows)
    BY <1>1 DEF EnqueueJob
  <2>. QED
    BY <2>1
<1>4. /\ \A i \in DOMAIN jobs : jobs'[i] = jobs[i]
      /\ \A i \in DOMAIN jobs' \ DOMAIN jobs : jobs'[i] = Row(c)
  BY <1>2, <1>3, InsertFacts
<1>5. ASSUME NEW i \in DOMAIN jobs PROVE Attempted(i)'
  <2>1. jobs'[i] = jobs[i] /\ starts' \in Nat /\ starts' >= starts
    BY <1>2, <1>4
  <2>. QED
    BY <2>1, AttemptedLowered
<1>6. ASSUME NEW i \in DOMAIN jobs' \ DOMAIN jobs PROVE Attempted(i)'
  <2>1. jobs'[i].status = "queued" /\ jobs'[i].retryCount = 0
    BY <1>4, <1>6 DEF Row
  <2>2. \A v \in Workers : ~Has(v, i)'
    BY <1>2, <1>6 DEF Has, Types
  <2>3. Low(i)' = {}
    BY <2>2 DEF Low
  <2>4. IsFiniteSet(Low(i)') /\ Cardinality(Low(i)') = 0
    BY <2>3, FS_EmptySet
  <2>5. Load(i)' = 1
    BY <2>1, <2>4 DEF Load, InQueue
  <2>6. Room(jobs'[i].retryCount, Load(i)', starts') /\ Load(i)' <= 1 + starts'
    BY <1>2, <2>1, <2>5, JobsAssumption DEF Room
  <2>. QED
    BY <2>2, <2>4, <2>6 DEF Attempted
<1>. QED
  BY <1>5, <1>6

LEMMA OrchestratorAttempts ==
  ASSUME TypeInv, OrchestratorStep, UNCHANGED work
  PROVE  \A i \in DOMAIN jobs' : Attempted(i)'
<1>1. Types /\ starts \in Nat
  BY DEF TypeInv, IInv, Bounded
<1>2. ASSUME UNCHANGED <<jobs, starts>> PROVE \A i \in DOMAIN jobs' : Attempted(i)'
  <2>1. starts' \in Nat /\ starts' >= starts
    BY <1>1, <1>2
  <2>. QED
    BY <1>2, <2>1, AttemptedLowered
<1>3. ASSUME NEW k \in Cancels, CancelJob(k) PROVE \A i \in DOMAIN jobs' : Attempted(i)'
  <2>1. PICK j \in DOMAIN jobs : j = cancelling[k].job
    BY <1>3 DEF CancelJob, TypeInv, IInv, Types
  <2>2. UNCHANGED jobs \/ UpdateJobStatus(j, "cancelled", jobs[j].retryCount)
    BY <1>3, <2>1 DEF CancelJob
  <2>3. UNCHANGED starts
    BY <1>3 DEF CancelJob
  <2>4. CASE UpdateJobStatus(j, "cancelled", jobs[j].retryCount)
    <3>1. "cancelled" \in Statuses /\ jobs[j].retryCount \in Nat
      BY <1>1, RowFacts DEF Statuses, Final, JobRow
    <3>2. /\ jobs' \in Seq(JobRow) /\ Len(jobs') = Len(jobs)
          /\ \A i \in DOMAIN jobs \ {j} : jobs'[i] = jobs[i]
          /\ jobs'[j].status = "cancelled" /\ jobs'[j].retryCount = jobs[j].retryCount
      BY <1>1, <2>4, <3>1, UpdateFacts
    <3>3. DOMAIN jobs' = DOMAIN jobs /\ starts' \in Nat /\ starts' >= starts
      BY <1>1, <2>3, <3>2 DEF Types
    <3>4. ASSUME NEW i \in DOMAIN jobs PROVE Attempted(i)'
      <4>1. /\ jobs'[i].retryCount = jobs[i].retryCount
            /\ jobs'[i].status = "queued" => jobs[i].status = "queued"
        BY <3>2
      <4>. QED
        BY <3>3, <4>1, AttemptedLowered
    <3>. QED
      BY <3>3, <3>4
  <2>. QED
    BY <1>2, <2>2, <2>3, <2>4
<1>4. CASE StartOrchestrator
  <2>1. SweepStuckJobs(StuckAge) /\ starts' = starts + 1
    BY <1>4 DEF StartOrchestrator
  <2>2. /\ DOMAIN jobs' = DOMAIN jobs
        /\ \A i \in DOMAIN jobs : jobs'[i].retryCount = jobs[i].retryCount
    BY <1>1, <2>1, SweepFacts
  <2>3. starts' \in Nat /\ starts' >= starts /\ starts' > starts
    BY <1>1, <2>1
  <2>. QED
    BY <2>2, <2>3, AttemptedLowered
<1>5. ASSUME NEW t \in Triggers, NEW c \in Contexts, Allow(t, c)
      PROVE  \A i \in DOMAIN jobs' : Attempted(i)'
  BY <1>2, <1>5 DEF Allow, storeVars
<1>6. ASSUME NEW k \in Cancels, NEW j \in DOMAIN jobs, CheckCancel(k, j)
      PROVE  \A i \in DOMAIN jobs' : Attempted(i)'
  BY <1>2, <1>6 DEF CheckCancel, storeVars
<1>. QED
  BY <1>3, <1>4, <1>5, <1>6, EnqueueJobAttempts DEF OrchestratorStep

LEMMA AttemptsNext ==
  ASSUME TypeInv, [Next]_vars
  PROVE  \A i \in DOMAIN jobs' : Attempted(i)'
<1>1. ASSUME UNCHANGED <<jobs, work, starts>> PROVE \A i \in DOMAIN jobs' : Attempted(i)'
  <2>1. starts' \in Nat /\ starts' >= starts
    BY <1>1 DEF TypeInv, Bounded
  <2>. QED
    BY <1>1, <2>1, AttemptedLowered
<1>2. ASSUME NEW w \in Workers, WorkerStep(w) \/ WorkerCrash(w), UNCHANGED orchestratorVars
      PROVE  \A i \in DOMAIN jobs' : Attempted(i)'
  <2>1. Len(jobs') = Len(jobs) /\ DOMAIN jobs' = DOMAIN jobs
    BY <1>2, RowCount
  <2>. QED
    BY <1>2, <2>1, WorkerStepAttempts
<1>3. CASE OrchestratorStep /\ UNCHANGED work
  BY <1>3, OrchestratorAttempts
<1>4. CASE Tick \/ UNCHANGED vars
  BY <1>1, <1>4 DEF Tick, vars, storeVars, orchestratorVars
<1>. QED
  BY <1>2, <1>3, <1>4 DEF Next

-----------------------------------------------------------------------------
(* The bounds.                                                             *)

LEMMA FaultCounted ==
  ASSUME TypeInv, [Next]_vars
  PROVE  faults' \in 0 .. MaxFaults
<1>1. Fault \/ Sound \/ faults' = faults
  <2>1. ASSUME NEW w \in Workers, WorkerStep(w) \/ WorkerCrash(w)
        PROVE  Fault \/ Sound \/ faults' = faults
    BY <2>1 DEF WorkerStep, WorkerCrash, Claim, ReadJob, GenerateFails, InsertNote,
                MarkDone, CountJob, GiveBack, storeVars
  <2>2. CASE OrchestratorStep
    BY <2>2 DEF OrchestratorStep, EnqueueJob, Allow, CancelJob, CheckCancel,
                StartOrchestrator, storeVars
  <2>3. CASE Tick \/ UNCHANGED vars
    BY <2>3 DEF Tick, vars, storeVars
  <2>. QED
    BY <2>1, <2>2, <2>3 DEF Next
<1>2. faults \in 0 .. MaxFaults
  BY DEF TypeInv, Bounded
<1>. QED
  BY <1>1, <1>2, JobsAssumption DEF Fault, Sound

(* Only a claim brings a worker to its row.                                *)
LEMMA FirstRead ==
  ASSUME TypeInv, [Next]_vars, NEW v \in Workers, work'[v].phase = "read"
  PROVE  work'[v].retryCount = 0
<1>1. work[v].phase = "read" => work[v].retryCount = 0
  BY DEF TypeInv, Bounded
<1>2. work \in [Workers -> WorkRow]
  BY DEF TypeInv, IInv, Types
<1>3. ASSUME NEW w \in Workers, NEW x, work' = [work EXCEPT ![w] = x],
             x.phase # "read" \/ x.retryCount = 0
      PROVE  work'[v].retryCount = 0
  BY <1>1, <1>2, <1>3
<1>4. ASSUME NEW w \in Workers, NEW phase, Goes(w, phase), phase # "read"
      PROVE  work'[v].retryCount = 0
  <2>1. work' = [work EXCEPT ![w] = [work[w] EXCEPT !.phase = phase]]
    BY <1>4 DEF Goes
  <2>2. [work[w] EXCEPT !.phase = phase].phase # "read"
    BY <1>2, <1>4 DEF WorkRow
  <2>. QED
    BY <1>3, <2>1, <2>2
<1>5. ASSUME NEW w \in Workers, work' = [work EXCEPT ![w] = AtQueue]
      PROVE  work'[v].retryCount = 0
  BY <1>3, <1>5 DEF AtQueue
<1>6. ASSUME NEW w \in Workers, WorkerStep(w) \/ WorkerCrash(w)
      PROVE  work'[v].retryCount = 0
  <2>1. CASE Claim(w)
    <3>1. CASE work' = work
      BY <1>1, <3>1
    <3>2. ASSUME NEW j, work' = [work EXCEPT ![w] = [phase |-> "read", job |-> j, retryCount |-> 0]]
          PROVE  work'[v].retryCount = 0
      <4>1. [phase |-> "read", job |-> j, retryCount |-> 0].retryCount = 0
        OBVIOUS
      <4>. QED
        BY <1>3, <3>2, <4>1
    <3>. QED
      BY <2>1, <3>1, <3>2 DEF Claim
  <2>2. CASE ReadJob(w)
    <3>1. CASE work' = [work EXCEPT ![w].phase = "generate",
                                    ![w].retryCount = jobs[work[w].job].retryCount]
      <4>1. PICK x : x = [work[w] EXCEPT !.phase = "generate",
                                         !.retryCount = jobs[work[w].job].retryCount]
        OBVIOUS
      <4>2. work' = [work EXCEPT ![w] = x] /\ x.phase # "read"
        BY <1>2, <3>1, <4>1 DEF WorkRow
      <4>. QED
        BY <1>3, <4>2
    <3>. QED
      BY <1>5, <2>2, <3>1 DEF ReadJob
  <2>3. CASE GenerateFails(w) \/ InsertNote(w)
    <3>1. Goes(w, "catch") \/ Goes(w, "done")
      BY <2>3 DEF GenerateFails, InsertNote
    <3>. QED
      BY <1>4, <3>1
  <2>4. CASE MarkDone(w) \/ CountJob(w)
    <3>1. Goes(w, "catch") \/ Goes(w, "session") \/ work' = [work EXCEPT ![w] = AtQueue]
      BY <2>4 DEF MarkDone, CountJob
    <3>. QED
      BY <1>4, <1>5, <3>1
  <2>5. CASE GiveBack(w) \/ WorkerCrash(w)
    BY <1>5, <2>5 DEF GiveBack, WorkerCrash
  <2>. QED
    BY <1>6, <2>1, <2>2, <2>3, <2>4, <2>5 DEF WorkerStep
<1>7. CASE UNCHANGED work
  BY <1>1, <1>7
<1>. QED
  BY <1>6, <1>7 DEF Next, Tick, vars

(* The rows that overlapping triggers may still insert find place.         *)
LEMMA PendingKept ==
  ASSUME Types, IsFiniteSet(Pending), Len(jobs) + Cardinality(Pending) <= MaxJobs,
         NEW t \in Triggers, NEW c \in Contexts \cup {NoContext},
         candidate' = [candidate EXCEPT ![t] = c]
  PROVE  /\ IsFiniteSet(Pending') /\ Cardinality(Pending) \in Nat
         /\ Cardinality(Pending') = Cardinality(Pending)
              - (IF candidate[t] # NoContext THEN 1 ELSE 0)
              + (IF c # NoContext THEN 1 ELSE 0)
<1> DEFINE P == Pending
           M == P \ {t}
           N == Pending'
<1>1. /\ candidate'[t] = c /\ \A s \in Triggers : s # t => candidate'[s] = candidate[s]
  BY DEF Types
<1>2. t \in P <=> candidate[t] # NoContext
  BY DEF Pending
<1>3. N = IF c # NoContext THEN M \cup {t} ELSE M
  BY <1>1 DEF Pending
<1> HIDE DEF P, N
<1>4. /\ IsFiniteSet(M) /\ Cardinality(P) \in Nat /\ Cardinality(M) \in Nat
      /\ Cardinality(M) = Cardinality(P) - (IF candidate[t] # NoContext THEN 1 ELSE 0)
  <2>1. IsFiniteSet(P)
    BY DEF P
  <2>2. /\ IsFiniteSet(M) /\ Cardinality(P) \in Nat
        /\ Cardinality(M) = IF t \in P THEN Cardinality(P) - 1 ELSE Cardinality(P)
    BY <2>1, FS_RemoveElement, FS_CardinalityType
  <2>3. Cardinality(M) \in Nat
    BY <2>2, FS_CardinalityType
  <2>. QED
    BY <1>2, <2>2, <2>3
<1>5. t \notin M
  OBVIOUS
<1> HIDE DEF M
<1>6. /\ IsFiniteSet(N)
      /\ Cardinality(N) = Cardinality(M) + (IF c # NoContext THEN 1 ELSE 0)
  <2>1. CASE c # NoContext
    <3>1. N = M \cup {t}
      BY <1>3, <2>1
    <3>2. IsFiniteSet(N) /\ Cardinality(N) = Cardinality(M) + 1
      BY <1>4, <1>5, <3>1, FS_AddElement
    <3>. QED
      BY <1>4, <2>1, <3>2
  <2>2. CASE c = NoContext
    <3>1. N = M
      BY <1>3, <2>2
    <3>. QED
      BY <1>4, <2>2, <3>1
  <2>. QED
    BY <2>1, <2>2
<1>7. Cardinality(N) = Cardinality(P) - (IF candidate[t] # NoContext THEN 1 ELSE 0)
                     + (IF c # NoContext THEN 1 ELSE 0)
  BY <1>4, <1>6
<1>. QED
  BY <1>4, <1>6, <1>7 DEF P, N

LEMMA WorkerStepBounded ==
  ASSUME TypeInv, [Next]_vars, NEW w \in Workers, WorkerStep(w) \/ WorkerCrash(w),
         UNCHANGED orchestratorVars
  PROVE  Bounded'
<1>1. /\ Bounded /\ UNCHANGED clock /\ IInv
      /\ UNCHANGED <<candidate, cancelling, starts, doubled>>
  BY DEF TypeInv, WorkerStep, WorkerCrash, Claim, ReadJob, GenerateFails, InsertNote,
         MarkDone, CountJob, GiveBack, storeVars, orchestratorVars
<1>2. /\ Len(jobs') = Len(jobs) /\ DOMAIN jobs' = DOMAIN jobs
      /\ \A i \in DOMAIN jobs : /\ jobs'[i].createdAt = jobs[i].createdAt
                                /\ jobs'[i].claimedAt \in {clock, jobs[i].claimedAt}
  BY RowCount
<1>3. /\ faults' \in 0 .. MaxFaults
      /\ \A v \in Workers : work'[v].phase = "read" => work'[v].retryCount = 0
  BY FaultCounted, FirstRead
<1>4. \A i \in DOMAIN jobs' : jobs'[i].createdAt <= clock' /\ jobs'[i].claimedAt <= clock'
  <2>1. clock \in Nat /\ clock <= clock
    BY <1>1 DEF IInv, Types
  <2>. QED
    BY <1>1, <1>2, <2>1 DEF Bounded
<1>5. Pending' = Pending
  BY <1>1 DEF Pending
<1>6. clock' <= MaxClock /\ starts' \in 0 .. MaxStarts /\ doubled' \subseteq Contexts
  BY <1>1 DEF Bounded
<1>7. /\ cancelling' \in [Cancels -> Steps]
      /\ \A k \in Cancels : cancelling'[k].job \in {0} \cup DOMAIN jobs'
  BY <1>1, <1>2 DEF Bounded
<1>8. IsFiniteSet(Pending') /\ Len(jobs') + Cardinality(Pending') <= MaxJobs
  BY <1>1, <1>2, <1>5 DEF Bounded
<1>. QED
  BY <1>3, <1>4, <1>6, <1>7, <1>8 DEF Bounded

LEMMA EnqueueJobBounded ==
  ASSUME TypeInv, [Next]_vars, NEW t \in Triggers, EnqueueJob(t), UNCHANGED work
  PROVE  Bounded'
<1>1. PICK c \in Contexts : c = candidate[t]
  BY DEF EnqueueJob, TypeInv, IInv, Types
<1>2. /\ Types /\ Bounded /\ UNCHANGED <<clock, cancelling, starts>>
      /\ candidate' = [candidate EXCEPT ![t] = NoContext]
      /\ clock \in Nat /\ c # NoContext
  BY <1>1 DEF EnqueueJob, TypeInv, IInv, Types
<1>3. /\ IsFiniteSet(Pending') /\ Cardinality(Pending) \in Nat
      /\ Cardinality(Pending') = Cardinality(Pending) - 1
  <2>1. NoContext \in Contexts \cup {NoContext}
    OBVIOUS
  <2>2. /\ IsFiniteSet(Pending') /\ Cardinality(Pending) \in Nat
        /\ Cardinality(Pending') = Cardinality(Pending)
             - (IF candidate[t] # NoContext THEN 1 ELSE 0)
             + (IF NoContext # NoContext THEN 1 ELSE 0)
    BY <1>2, <2>1, PendingKept DEF Bounded
  <2>. QED
    BY <1>1, <1>2, <2>2
<1>4. PICK n \in Nat : /\ Insert(c, n)
                       /\ Len(jobs) + Cardinality(Pending) + n <= MaxJobs + 1
                       /\ doubled' \in {doubled, doubled \cup {c}}
  <2>1. CASE Insert(c, 1) /\ doubled' \in {doubled, doubled \cup {c}}
    <3>1. Len(jobs) \in Nat /\ Len(jobs) + Cardinality(Pending) <= MaxJobs
      BY <1>2, LenProperties DEF Types, Bounded
    <3>2. Len(jobs) + Cardinality(Pending) + 1 <= MaxJobs + 1
      BY <1>3, <3>1, JobsAssumption
    <3>. QED
      BY <2>1, <3>2
  <2>2. ASSUME NEW rows \in 0 .. 2, Rows + rows <= MaxJobs + 1, Insert(c, rows),
               doubled' = doubled \cup {c}
        PROVE  \E n \in Nat : /\ Insert(c, n)
                              /\ Len(jobs) + Cardinality(Pending) + n <= MaxJobs + 1
                              /\ doubled' \in {doubled, doubled \cup {c}}
    <3>1. Rows = Len(jobs) + Cardinality(Pending) /\ rows \in Nat
      BY DEF Rows, Pending
    <3>2. Len(jobs) + Cardinality(Pending) + rows <= MaxJobs + 1
      BY <2>2, <3>1
    <3>. QED
      BY <2>2, <3>1, <3>2
  <2>. QED
    BY <1>1, <2>1, <2>2 DEF EnqueueJob
<1>5. /\ jobs' \in Seq(JobRow) /\ Len(jobs') = Len(jobs) + n /\ Len(jobs) \in Nat
      /\ DOMAIN jobs = 1 .. Len(jobs) /\ DOMAIN jobs' = 1 .. Len(jobs) + n
      /\ \A i \in DOMAIN jobs : jobs'[i] = jobs[i]
      /\ \A i \in DOMAIN jobs' \ DOMAIN jobs : jobs'[i] = Row(c)
  BY <1>2, <1>4, InsertFacts
<1>6. \A i \in DOMAIN jobs' : jobs'[i].createdAt <= clock' /\ jobs'[i].claimedAt <= clock'
  <2>1. \A i \in DOMAIN jobs : jobs'[i].createdAt <= clock' /\ jobs'[i].claimedAt <= clock'
    BY <1>2, <1>5 DEF Bounded
  <2>2. Row(c).createdAt = clock /\ Row(c).claimedAt = 0
    BY DEF Row
  <2>3. \A i \in DOMAIN jobs' \ DOMAIN jobs : jobs'[i].createdAt = clock /\ jobs'[i].claimedAt = 0
    BY <1>5, <2>2
  <2>. QED
    BY <1>2, <2>1, <2>3
<1>7. Len(jobs') + Cardinality(Pending') <= MaxJobs
  <2>1. \A l, p, m, k \in Nat : l + p + k <= m + 1 => (l + k) + (p - 1) <= m
    OBVIOUS
  <2>. QED
    BY <1>3, <1>4, <1>5, <2>1, JobsAssumption
<1>8. doubled' \subseteq Contexts /\ clock' <= MaxClock /\ starts' \in 0 .. MaxStarts
  BY <1>2, <1>4 DEF Bounded
<1>9. /\ cancelling' \in [Cancels -> Steps]
      /\ \A k \in Cancels : cancelling'[k].job \in {0} \cup DOMAIN jobs'
  <2>1. DOMAIN jobs \subseteq DOMAIN jobs'
    BY <1>5
  <2>. QED
    BY <1>2, <2>1 DEF Bounded
<1>10. /\ faults' \in 0 .. MaxFaults
       /\ \A v \in Workers : work'[v].phase = "read" => work'[v].retryCount = 0
  BY FaultCounted, FirstRead
<1>. QED
  BY <1>3, <1>6, <1>7, <1>8, <1>9, <1>10 DEF Bounded

LEMMA AllowBounded ==
  ASSUME TypeInv, [Next]_vars, NEW t \in Triggers, NEW c \in Contexts, Allow(t, c), UNCHANGED work
  PROVE  Bounded'
<1>1. /\ Types /\ Bounded /\ UNCHANGED <<clock, jobs, cancelling, starts, doubled>>
      /\ candidate[t] = NoContext /\ candidate' = [candidate EXCEPT ![t] = c]
      /\ Rows < MaxJobs
  BY DEF Allow, storeVars, TypeInv, IInv
<1>2. /\ IsFiniteSet(Pending') /\ Cardinality(Pending) \in Nat
      /\ Cardinality(Pending') = Cardinality(Pending)
           - (IF candidate[t] # NoContext THEN 1 ELSE 0)
           + (IF c # NoContext THEN 1 ELSE 0)
  <2>1. c \in Contexts \cup {NoContext}
    OBVIOUS
  <2>. QED
    BY <1>1, <2>1, PendingKept DEF Bounded
<1>3. Len(jobs') + Cardinality(Pending') <= MaxJobs
  <2>1. Rows = Len(jobs) + Cardinality(Pending) /\ Len(jobs) \in Nat
    BY <1>1, LenProperties DEF Rows, Pending, Types
  <2>2. Cardinality(Pending') = Cardinality(Pending) + (IF c # NoContext THEN 1 ELSE 0)
    BY <1>1, <1>2
  <2>. QED
    BY <1>1, <1>2, <2>1, <2>2, JobsAssumption
<1>4. /\ faults' \in 0 .. MaxFaults
      /\ \A v \in Workers : work'[v].phase = "read" => work'[v].retryCount = 0
  BY FaultCounted, FirstRead
<1>. QED
  BY <1>1, <1>2, <1>3, <1>4 DEF Bounded

LEMMA CancelBounded ==
  ASSUME TypeInv, [Next]_vars, NEW k \in Cancels,
         CancelJob(k) \/ \E j \in DOMAIN jobs : CheckCancel(k, j), UNCHANGED work
  PROVE  Bounded'
<1>1. /\ Types /\ Bounded /\ UNCHANGED <<clock, candidate, starts, doubled>>
  BY DEF CancelJob, CheckCancel, storeVars, TypeInv, IInv
<1>2. /\ Len(jobs') = Len(jobs) /\ DOMAIN jobs' = DOMAIN jobs
      /\ \A i \in DOMAIN jobs : /\ jobs'[i].createdAt = jobs[i].createdAt
                                /\ jobs'[i].claimedAt = jobs[i].claimedAt
  <2>1. CASE UNCHANGED jobs
    BY <2>1
  <2>2. CASE CancelJob(k)
    <3>1. PICK j \in DOMAIN jobs : j = cancelling[k].job
      BY <1>1, <2>2 DEF CancelJob, Types
    <3>2. UNCHANGED jobs \/ UpdateJobStatus(j, "cancelled", jobs[j].retryCount)
      BY <2>2, <3>1 DEF CancelJob
    <3>3. CASE UpdateJobStatus(j, "cancelled", jobs[j].retryCount)
      <4>1. "cancelled" \in Statuses /\ jobs[j].retryCount \in Nat
        BY <1>1, RowFacts DEF Statuses, Final, JobRow
      <4>2. /\ jobs' \in Seq(JobRow) /\ Len(jobs') = Len(jobs)
            /\ \A i \in DOMAIN jobs \ {j} : jobs'[i] = jobs[i]
            /\ jobs'[j].createdAt = jobs[j].createdAt
            /\ jobs'[j].claimedAt = jobs[j].claimedAt
        BY <1>1, <3>3, <4>1, UpdateFacts
      <4>3. DOMAIN jobs' = DOMAIN jobs
        BY <1>1, <4>2 DEF Types
      <4>. QED
        BY <4>2, <4>3
    <3>. QED
      BY <2>1, <3>2, <3>3
  <2>. QED
    BY <2>1, <2>2 DEF CheckCancel, storeVars
<1>3. PICK n \in {0} \cup DOMAIN jobs, p \in {"checked", "over"} :
        cancelling' = [cancelling EXCEPT ![k] = [phase |-> p, job |-> n]]
  BY DEF CancelJob, CheckCancel
<1>4. /\ cancelling' \in [Cancels -> Steps]
      /\ \A i \in Cancels : cancelling'[i].job \in {0} \cup DOMAIN jobs'
  <2> DEFINE x == [phase |-> p, job |-> n]
  <2>1. n \in Nat
    BY <1>1, LenProperties DEF Types
  <2>2. x \in Steps /\ x.job = n
    BY <2>1 DEF Steps
  <2>3. cancelling' = [cancelling EXCEPT ![k] = x]
    BY <1>3
  <2> HIDE DEF x
  <2>. QED
    BY <1>1, <1>2, <2>2, <2>3 DEF Bounded
<1>5. Pending' = Pending
  BY <1>1 DEF Pending
<1>6. /\ faults' \in 0 .. MaxFaults
      /\ \A v \in Workers : work'[v].phase = "read" => work'[v].retryCount = 0
  BY FaultCounted, FirstRead
<1>. QED
  BY <1>1, <1>2, <1>4, <1>5, <1>6 DEF Bounded

LEMMA StartOrchestratorBounded ==
  ASSUME TypeInv, [Next]_vars, StartOrchestrator, UNCHANGED work
  PROVE  Bounded'
<1>1. /\ Types /\ Bounded /\ UNCHANGED <<clock, doubled>>
      /\ starts < MaxStarts /\ starts' = starts + 1
      /\ candidate' = [t \in Triggers |-> NoContext]
      /\ cancelling' = [k \in Cancels |-> IF cancelling[k].phase = "new" THEN cancelling[k]
                                         ELSE [phase |-> "over", job |-> 0]]
      /\ SweepStuckJobs(StuckAge)
  BY DEF StartOrchestrator, TypeInv, IInv
<1>2. /\ Len(jobs') = Len(jobs) /\ DOMAIN jobs' = DOMAIN jobs
      /\ \A i \in DOMAIN jobs : /\ jobs'[i].createdAt = jobs[i].createdAt
                                /\ jobs'[i].claimedAt \in {0, jobs[i].claimedAt}
  BY <1>1, SweepFacts
<1>3. \A i \in DOMAIN jobs' : jobs'[i].createdAt <= clock' /\ jobs'[i].claimedAt <= clock'
  <2>1. clock \in Nat /\ 0 <= clock
    BY <1>1 DEF Types
  <2>. QED
    BY <1>1, <1>2, <2>1 DEF Bounded
<1>4. /\ cancelling' \in [Cancels -> Steps]
      /\ \A k \in Cancels : cancelling'[k].job \in {0} \cup DOMAIN jobs'
  <2> DEFINE x == [phase |-> "over", job |-> 0]
  <2>1. x \in Steps /\ x.job = 0
    BY DEF Steps
  <2>2. cancelling' = [k \in Cancels |-> IF cancelling[k].phase = "new" THEN cancelling[k] ELSE x]
    BY <1>1
  <2> HIDE DEF x
  <2>. QED
    BY <1>1, <1>2, <2>1, <2>2 DEF Bounded
<1>5. IsFiniteSet(Pending') /\ Cardinality(Pending') = 0
  <2>1. Pending' = {}
    BY <1>1 DEF Pending
  <2>. QED
    BY <2>1, FS_EmptySet
<1>6. Len(jobs') + Cardinality(Pending') <= MaxJobs
  <2>1. Cardinality(Pending) \in Nat /\ Len(jobs) \in Nat
    BY <1>1, FS_CardinalityType, LenProperties DEF Bounded, Types
  <2>. QED
    BY <1>1, <1>2, <1>5, <2>1, JobsAssumption DEF Bounded
<1>7. starts' \in 0 .. MaxStarts
  BY <1>1, OrchestratorAssumption DEF Bounded
<1>8. /\ faults' \in 0 .. MaxFaults
      /\ \A v \in Workers : work'[v].phase = "read" => work'[v].retryCount = 0
  BY FaultCounted, FirstRead
<1>. QED
  BY <1>1, <1>3, <1>4, <1>5, <1>6, <1>7, <1>8 DEF Bounded

LEMMA RestBounded ==
  ASSUME TypeInv, [Next]_vars, Tick \/ UNCHANGED vars
  PROVE  Bounded'
<1>1. /\ Types /\ Bounded
      /\ UNCHANGED <<jobs, cancelling, candidate, starts, doubled>>
      /\ clock' = clock \/ (clock < MaxClock /\ clock' = clock + 1)
  <2>1. Types /\ Bounded
    BY DEF TypeInv, IInv
  <2>2. CASE Tick
    BY <2>1, <2>2 DEF Tick, orchestratorVars
  <2>3. CASE UNCHANGED vars
    BY <2>1, <2>3 DEF vars, storeVars, orchestratorVars
  <2>. QED
    BY <2>2, <2>3
<1>2. clock' >= clock /\ clock' <= MaxClock /\ clock' \in Nat /\ clock \in Nat
  BY <1>1, JobsAssumption DEF Types, Bounded
<1>3. \A i \in DOMAIN jobs' : jobs'[i].createdAt <= clock' /\ jobs'[i].claimedAt <= clock'
  <2>1. \A i \in DOMAIN jobs : jobs[i] \in JobRow
    BY <1>1, RowFacts
  <2>. QED
    BY <1>1, <1>2, <2>1 DEF Bounded, JobRow
<1>4. Pending' = Pending
  BY <1>1 DEF Pending
<1>5. /\ faults' \in 0 .. MaxFaults
      /\ \A v \in Workers : work'[v].phase = "read" => work'[v].retryCount = 0
  BY FaultCounted, FirstRead
<1>. QED
  BY <1>1, <1>2, <1>3, <1>4, <1>5 DEF Bounded

LEMMA TypeInvariance == Spec => []TypeInv
<1>1. TypeInv /\ [Next]_vars => TypeInv'
  <2> SUFFICES ASSUME TypeInv, [Next]_vars PROVE TypeInv'
    OBVIOUS
  <2>1. IInv'
    BY NextIInv DEF TypeInv
  <2>2. \A i \in DOMAIN jobs' : Attempted(i)'
    BY AttemptsNext
  <2>3. Bounded'
    BY WorkerStepBounded, EnqueueJobBounded, AllowBounded, CancelBounded,
       StartOrchestratorBounded, RestBounded DEF Next, OrchestratorStep
  <2>. QED
    BY <2>1, <2>2, <2>3 DEF TypeInv
<1>. QED
  BY <1>1, InitTypeInv, PTL DEF Spec

-----------------------------------------------------------------------------
(* Types, and that a job is attempted MAX_RETRIES times and once more for  *)
(* each start of the orchestrator at most, whatever breaks (job-store.ts,  *)
(* worker.ts).                                                             *)
THEOREM TypeCorrect == Spec => []TypeOK
<1>1. TypeInv => TypeOK
  <2> SUFFICES ASSUME TypeInv PROVE TypeOK
    OBVIOUS
  <2>1. /\ Types /\ Bounded /\ \A j \in DOMAIN jobs : Attempted(j)
        /\ starts \in Nat /\ starts \in 0 .. MaxStarts /\ clock \in 0 .. MaxClock
    BY JobsAssumption DEF TypeInv, IInv, Bounded, Types
  <2>2. DOMAIN jobs = 1 .. Len(jobs) /\ Len(jobs) \in Nat
    BY <2>1, LenProperties DEF Types
  <2>3. ASSUME NEW n \in Nat, NEW load \in Nat, Room(n, load, starts) PROVE n \in Attempts
    BY <2>1, <2>3, JobsAssumption DEF Room, Attempts
  <2>4. \A j \in DOMAIN jobs : Load(j) \in Nat
    <3>1. \A j \in DOMAIN jobs : Cardinality(Low(j)) \in Nat
      BY <2>1, FS_CardinalityType DEF Attempted
    <3>. QED
      BY <3>1 DEF Load, InQueue
  <2>5. \A j \in DOMAIN jobs : jobs[j].retryCount \in Attempts
    BY <2>1, <2>3, <2>4, RowFacts DEF Attempted, JobRow
  <2> DEFINE R == [context : Contexts, status : {"queued", "running"} \cup Final,
                   retryCount : Attempts, createdAt : 0 .. clock, claimedAt : 0 .. clock]
  <2>6. \A j \in DOMAIN jobs : jobs[j] \in R
    <3> SUFFICES ASSUME NEW j \in DOMAIN jobs PROVE jobs[j] \in R
      OBVIOUS
    <3>1. jobs[j] \in JobRow /\ jobs[j].retryCount \in Attempts
      BY <2>1, <2>5, RowFacts
    <3>2. jobs[j].createdAt \in 0 .. clock /\ jobs[j].claimedAt \in 0 .. clock
      BY <2>1, <3>1 DEF Bounded, JobRow
    <3>. QED
      BY <3>1, <3>2 DEF JobRow, Statuses
  <2>7. jobs \in Seq(R)
    <3> HIDE DEF R
    <3>1. jobs = [i \in 1 .. Len(jobs) |-> jobs[i]]
      BY <2>1, <2>2, LenProperties DEF Types
    <3>. QED
      BY <2>2, <2>6, <3>1, IsASeq
  <2>8. Len(jobs) <= MaxJobs
    BY <2>1, <2>2, FS_CardinalityType, JobsAssumption DEF Bounded
  <2>9. notes \in [DOMAIN jobs -> Nat]
    BY <2>1, <2>2, LenProperties DEF Types
  <2>10. ASSUME NEW w \in Workers
         PROVE  /\ work[w].phase \in {"queue", "read", "generate", "done", "session", "catch"}
                /\ work[w].job \in {0} \cup DOMAIN jobs
                /\ work[w].retryCount \in Attempts
                /\ work[w].job = 0 <=> work[w] = AtQueue
    <3>1. work[w] \in WorkRow /\ 0 \in Attempts
      BY <2>1, JobsAssumption DEF Types, Attempts
    <3>2. CASE work[w].phase = "queue"
      BY <2>1, <3>1, <3>2 DEF Types, AtQueue
    <3>3. CASE work[w].phase # "queue"
      <4>1. work[w].job \in DOMAIN jobs /\ work[w].job # 0 /\ work[w] # AtQueue
        BY <2>1, <2>2, <3>3 DEF Types, AtQueue
      <4>2. work[w].retryCount \in Attempts
        <5>1. CASE work[w].phase = "read"
          BY <2>1, <3>1, <5>1 DEF Bounded
        <5>2. CASE work[w].phase # "read"
          <6>1. Room(work[w].retryCount + 1, Load(work[w].job), starts)
            BY <2>1, <3>3, <4>1, <5>2 DEF Attempted, Has
          <6>2. work[w].retryCount + 1 \in Attempts /\ work[w].retryCount \in Nat
            BY <2>3, <2>4, <3>1, <4>1, <6>1 DEF WorkRow
          <6>. QED
            BY <2>1, <6>2, JobsAssumption DEF Attempts
        <5>. QED
          BY <5>1, <5>2
      <4>. QED
        BY <3>1, <4>1, <4>2 DEF WorkRow, Phases
    <3>. QED
      BY <3>2, <3>3
  <2>11. cancelling \in [Cancels -> [phase : {"new", "checked", "over"},
                                    job : {0} \cup DOMAIN jobs]]
    <3>1. \A k \in Cancels : cancelling[k] \in [phase : {"new", "checked", "over"},
                                               job : {0} \cup DOMAIN jobs]
      BY <2>1 DEF Bounded, Steps
    <3>. QED
      BY <2>1, <3>1 DEF Bounded
  <2>. QED
    BY <2>1, <2>7, <2>8, <2>9, <2>10, <2>11 DEF TypeOK, Types, Bounded
<1>. QED
  BY <1>1, TypeInvariance, PTL
=============================================================================
