-------------------------- MODULE MediaQueueProofs --------------------------
(***************************************************************************)
(* Proofs about MediaQueue, for every number of recordings and jobs and    *)
(* every setting of the queue, in four parts:                              *)
(*   1. type correctness, with any number of drainers;                     *)
(*   2. what a single drainer guarantees: the inductive invariant QueueInv,*)
(*      and from it AttemptsAccounted, RetryBudget, the refinement of      *)
(*      JobLedger and what may reopen a completed job;                     *)
(*   3. what becomes of a recording: the inductive invariant LifeInv, and  *)
(*      from it AnalysisChained (any number of drainers) and               *)
(*      NoStrandedRecording (a single one);                                *)
(*   4. which web process drains: LockInv and OneElected, of               *)
(*      WorkerElection.                                                    *)
(***************************************************************************)
EXTENDS MediaQueue, WorkerElection, TLAPS

-----------------------------------------------------------------------------
(* What the operators of MediaQueue return                                 *)

\* Job numbers are positive, so that NoJob is none of them.
LEMMA JobsAreNaturals == Jobs \subseteq Nat \ {0}
  BY BoundsAssumption DEF Jobs

\* The retry delay is a number.
LEMMA RetryDelayType == \A a \in Nat : RetryDelay(a) \in Int
  <1> TAKE a \in Nat
  <1>1. MaxOf(a - 1, 0) \in Nat
    BY DEF MaxOf
  <1>2. 2 ^ MaxOf(a - 1, 0) \in Int
    BY <1>1
  <1> QED
    BY <1>2, SettingsAssumption DEF RetryDelay, MinOf

\* A drainer between two iterations is in a legal state.
LEMMA IdleWorkerType == IdleWorker \in WorkerState
  BY DEF IdleWorker, WorkerState, WorkerRecord, BetweenPc, PcSet, IdlePc

\* A freshly created row is a legal row.
LEMMA NewJobType ==
  ASSUME NEW type \in Providers, NEW r \in Recordings
  PROVE  NewJob(type, r) \in JobRow
  BY DEF NewJob, JobRow, Providers, JobStatus

\* Releasing a row's lock keeps it a legal row.
LEMMA UnlockedType ==
  ASSUME TypeOK, NEW j \in Jobs, NEW status \in JobStatus
  PROVE  Unlocked(j, status) \in JobRow
  BY DEF TypeOK, Unlocked, JobRow

\* So does locking it, and writing the other columns.
LEMMA LockedRowType ==
  ASSUME NEW row \in JobRow, NEW w \in Workers, NEW n \in Nat
  PROVE  [row EXCEPT !.status = "PROCESSING", !.lockedBy = w, !.age = 0,
                     !.attempts = n] \in JobRow
  BY DEF JobRow, JobStatus

\* A requeue that writes the timer and gives an attempt back keeps it legal too.
LEMMA RewrittenRowType ==
  ASSUME NEW row \in JobRow, NEW n \in Nat, NEW d \in Int
  PROVE  /\ [row EXCEPT !.wait = d] \in JobRow
         /\ [row EXCEPT !.attempts = n, !.wait = d] \in JobRow
         /\ [row EXCEPT !.wait = d, !.age = n] \in JobRow
  BY DEF JobRow

\* The columns of a row.
LEMMA JobColumns ==
  ASSUME NEW row \in JobRow
  PROVE  /\ row.attempts \in Nat /\ row.wait \in Int /\ row.age \in Nat
         /\ row.type \in Providers /\ row.rec \in Recordings
         /\ row.status \in JobStatus
  BY DEF JobRow

-----------------------------------------------------------------------------
(* The writes keep the tables and the drainers well-typed                  *)

\* A job update.
LEMMA UpdateJobType ==
  ASSUME TypeOK, NEW j \in Jobs, NEW row \in JobRow, UpdateJob(j, row)
  PROVE  job' \in [Jobs -> JobRow]
  BY DEF TypeOK, UpdateJob

\* A recording update.
LEMMA UpdateRecType ==
  ASSUME TypeOK, NEW r \in Recordings, NEW row \in RecRow, UpdateRec(r, row)
  PROVE  rec' \in [Recordings -> RecRow]
  BY DEF TypeOK, UpdateRec

\* An enqueue.
LEMMA CreateJobType ==
  ASSUME TypeOK, NEW type \in Providers, NEW r \in Recordings, CreateJob(type, r)
  PROVE  job' \in [Jobs -> JobRow] /\ created' \in 0..MaxJobs
  BY NewJobType, BoundsAssumption DEF TypeOK, CreateJob, Jobs

\* A drainer's step.
LEMMA BecomeType ==
  ASSUME TypeOK, NEW w \in Workers, NEW state \in WorkerState, Become(w, state)
  PROVE  worker' \in [Workers -> WorkerState]
  BY DEF TypeOK, Become

\* A drainer's jump, from one step of a job to another.
LEMMA GotoType ==
  ASSUME TypeOK, NEW w \in Workers, NEW pc \in PcSet, Goto(w, pc),
         worker[w].pc \notin BetweenPc
  PROVE  worker' \in [Workers -> WorkerState]
  <1>1. worker[w] \in WorkerRecord /\ worker[w].job \in Jobs
    BY DEF TypeOK, WorkerState
  <1>2. [worker[w] EXCEPT !.pc = pc] \in WorkerState
    BY <1>1 DEF WorkerState, WorkerRecord
  <1> QED
    BY <1>2, BecomeType DEF Goto

\* Going on with the batch.
LEMMA NextInBatchType ==
  ASSUME TypeOK, NEW w \in Workers, NextInBatch(w)
  PROVE  worker' \in [Workers -> WorkerState]
  <1>1. worker[w] \in WorkerRecord
    BY DEF TypeOK, WorkerState
  <1>2. [IdleWorker EXCEPT !.pc = "next", !.batch = worker[w].batch,
                           !.seen = worker[w].seen] \in WorkerState
    BY <1>1 DEF IdleWorker, WorkerState, WorkerRecord, PcSet, BetweenPc
  <1> QED
    BY <1>2, BecomeType DEF NextInBatch

\* Giving up an iteration.
LEMMA AbandonBatchType ==
  ASSUME TypeOK, NEW w \in Workers, AbandonBatch(w)
  PROVE  worker' \in [Workers -> WorkerState]
  BY IdleWorkerType, BecomeType DEF AbandonBatch

\* A drainer at one of a job's steps has a job, with a recording.
LEMMA MyJobType ==
  ASSUME TypeOK, NEW w \in Workers, worker[w].pc \notin BetweenPc
  PROVE  MyJob(w) \in Jobs /\ job[MyJob(w)] \in JobRow /\ MyRec(w) \in Recordings
  <1>1. MyJob(w) \in Jobs
    BY DEF TypeOK, WorkerState, MyJob
  <1>2. job[MyJob(w)] \in JobRow
    BY <1>1 DEF TypeOK
  <1> QED
    BY <1>1, <1>2 DEF JobRow, MyRec

\* An update of columns of the current recording.
LEMMA RecRowType ==
  ASSUME TypeOK, NEW r \in Recordings,
         NEW s \in RecStatus, NEW t \in TranscriptStatus, NEW o \in BOOLEAN
  PROVE  /\ [rec[r] EXCEPT !.tstatus = t] \in RecRow
         /\ [rec[r] EXCEPT !.tstatus = t, !.status = s] \in RecRow
         /\ [rec[r] EXCEPT !.tstatus = t, !.status = s, !.overtaken = o] \in RecRow
  BY DEF TypeOK, RecRow

-----------------------------------------------------------------------------
(* Type correctness                                                        *)

\* The empty queue is well-typed.
LEMMA TypeInit == Init => TypeOK
  <1> SUFFICES ASSUME Init PROVE TypeOK
    OBVIOUS
  <1>1. job \in [Jobs -> JobRow]
    <2>1. (CHOOSE r \in Recordings : TRUE) \in Recordings
      BY BoundsAssumption
    <2> QED
      BY <2>1 DEF Init, JobRow, Providers, JobStatus
  <1>2. rec \in [Recordings -> RecRow]
    BY DEF Init, RecRow, RecStatus, TranscriptStatus
  <1>3. worker \in [Workers -> WorkerState]
    BY IdleWorkerType DEF Init
  <1> QED
    BY <1>1, <1>2, <1>3, BoundsAssumption, SettingsAssumption DEF Init, TypeOK

\* What the steps of a drainer leave alone is still of its type.
LEMMA TypeWorkerStep ==
  ASSUME TypeOK, NEW w \in Workers, WorkerStep(w)
  PROVE  TypeOK'
  <1> USE DEF dbVars, throttleVars, envVars, historyVars, At
  <1>0. /\ worker[w] \in WorkerState /\ worker[w] \in WorkerRecord
        /\ worker[w].pc \notin BetweenPc => worker[w].job \in Jobs
    BY DEF TypeOK, WorkerState
  <1>1. CASE RecoverFind(w)
    <2>1. [worker[w] EXCEPT !.pc = "recover", !.batch = {j \in Jobs : Stale(j)}]
            \in WorkerState
      BY <1>0 DEF WorkerState, WorkerRecord, PcSet, BetweenPc
    <2> QED
      BY <1>1, <2>1, BecomeType DEF RecoverFind, TypeOK
  <1>2. CASE RecoverOne(w)
    <2>1. PICK j \in worker[w].batch :
            /\ UpdateJob(j, [Unlocked(j, "QUEUED") EXCEPT !.wait = 0])
            /\ Become(w, [worker[w] EXCEPT !.batch = @ \ {j}])
            /\ recovered' = [recovered EXCEPT ![j] = @ + 1]
      BY <1>2 DEF RecoverOne
    <2>2. j \in Jobs
      BY <1>0, <2>1 DEF WorkerRecord
    <2>3. [Unlocked(j, "QUEUED") EXCEPT !.wait = 0] \in JobRow
      BY <2>2, UnlockedType DEF JobRow, JobStatus
    <2>4. [worker[w] EXCEPT !.batch = @ \ {j}] \in WorkerState
      BY <1>0, <1>2 DEF RecoverOne, WorkerState, WorkerRecord, BetweenPc
    <2> QED
      BY <1>2, <2>1, <2>2, <2>3, <2>4, UpdateJobType, BecomeType DEF RecoverOne, TypeOK
  <1>3. CASE SelectBatch(w)
    <2>1. PICK S \in SUBSET Eligible(w) :
            Become(w, [worker[w] EXCEPT !.pc = "next", !.batch = S,
              !.seen = [j \in Jobs |-> IF j \in S THEN job[j].attempts ELSE 0]])
      BY <1>3 DEF SelectBatch
    <2>2. S \subseteq Jobs
      BY DEF Eligible
    <2>3. [j \in Jobs |-> IF j \in S THEN job[j].attempts ELSE 0] \in [Jobs -> Nat]
      BY DEF TypeOK, JobRow
    <2>4. [worker[w] EXCEPT !.pc = "next", !.batch = S,
              !.seen = [j \in Jobs |-> IF j \in S THEN job[j].attempts ELSE 0]]
            \in WorkerState
      BY <1>0, <2>2, <2>3 DEF WorkerState, WorkerRecord, PcSet, BetweenPc
    <2> QED
      BY <1>3, <2>1, <2>4, BecomeType DEF SelectBatch, TypeOK
  <1>4. CASE EndBatch(w)
    BY <1>4, AbandonBatchType DEF EndBatch, TypeOK
  <1>5. CASE LockRead(w)
    <2>1. PICK j \in Jobs :
            IF job[j].status = "QUEUED"
            THEN Become(w, [worker[w] EXCEPT !.pc = "lock", !.batch = @ \ {j},
                            !.job = j, !.read = job[j].attempts])
            ELSE Become(w, [worker[w] EXCEPT !.batch = @ \ {j}])
      BY <1>5 DEF LockRead
    <2>2. [worker[w] EXCEPT !.pc = "lock", !.batch = @ \ {j},
                            !.job = j, !.read = job[j].attempts] \in WorkerState
      BY <1>0 DEF TypeOK, JobRow, WorkerState, WorkerRecord, PcSet
    <2>3. [worker[w] EXCEPT !.batch = @ \ {j}] \in WorkerState
      BY <1>0, <1>5 DEF LockRead, WorkerState, WorkerRecord, BetweenPc
    <2> QED
      BY <1>5, <2>1, <2>2, <2>3, BecomeType DEF LockRead, TypeOK
  <1>6. CASE LockWrite(w)
    <2>1. worker[w].pc \notin BetweenPc
      BY <1>6 DEF LockWrite, BetweenPc
    <2>2. Locked(w, MyJob(w)) \in JobRow
      <3>1. worker[w].read \in Nat
        BY <1>0 DEF WorkerRecord
      <3>2. worker[w].read + 1 \in Nat
        BY <3>1
      <3> QED
        BY <2>1, <3>2, MyJobType, LockedRowType DEF Locked
    <2>3. job' \in [Jobs -> JobRow]
      BY <1>6, <2>1, <2>2, MyJobType, UpdateJobType DEF LockWrite
    <2>4. worker' \in [Workers -> WorkerState]
      BY <1>6, <2>1, NextInBatchType, GotoType DEF LockWrite, PcSet
    <2> QED
      BY <1>6, <2>3, <2>4 DEF LockWrite, TypeOK
  <1>7. CASE MarkProcessing(w)
    <2>1. worker[w].pc \notin BetweenPc
      BY <1>7 DEF MarkProcessing, BetweenPc
    <2>2. rec' \in [Recordings -> RecRow]
      BY <1>7, <2>1, MyJobType, RecRowType, UpdateRecType
         DEF MarkProcessing, RecStatus, TranscriptStatus
    <2> QED
      BY <1>7, <2>1, <2>2, GotoType DEF MarkProcessing, PcSet, TypeOK
  <1>8. CASE TranscribeOk(w)
    <2>1. PICK answer \in {"COMPLETED", "EMPTY"} :
            Become(w, [worker[w] EXCEPT !.pc = "store", !.answer = answer])
      BY <1>8 DEF TranscribeOk
    <2>2. [worker[w] EXCEPT !.pc = "store", !.answer = answer] \in WorkerState
      BY <1>0, <1>8 DEF TranscribeOk, WorkerState, WorkerRecord, PcSet, BetweenPc
    <2> QED
      BY <1>8, <2>1, <2>2, BecomeType DEF TranscribeOk, TypeOK
  <1>9. CASE TranscribeRateLimited(w)
    <2>1. worker[w].pc \notin BetweenPc
      BY <1>9 DEF TranscribeRateLimited, BetweenPc
    <2>2. PICK hint \in RetryHints :
            Become(w, [worker[w] EXCEPT !.pc = "defer", !.hint = hint])
      BY <1>9 DEF TranscribeRateLimited
    <2>3. [worker[w] EXCEPT !.pc = "defer", !.hint = hint] \in WorkerState
      BY <1>0, <2>1, SettingsAssumption DEF WorkerState, WorkerRecord, PcSet
    <2>4. rec' \in [Recordings -> RecRow]
      BY <1>9, <2>1, MyJobType, RecRowType, UpdateRecType
         DEF TranscribeRateLimited, RecStatus, TranscriptStatus
    <2> QED
      BY <1>9, <2>2, <2>3, <2>4, BecomeType DEF TranscribeRateLimited, TypeOK
  <1>10. CASE TranscribeUnavailable(w)
    <2>1. worker[w].pc \notin BetweenPc
      BY <1>10 DEF TranscribeUnavailable, BetweenPc
    <2>2. rec' \in [Recordings -> RecRow]
      BY <1>10, <2>1, MyJobType, RecRowType, UpdateRecType
         DEF TranscribeUnavailable, RecStatus, TranscriptStatus
    <2> QED
      BY <1>10, <2>1, <2>2, GotoType DEF TranscribeUnavailable, PcSet, TypeOK
  <1>11. CASE TranscribeFailed(w)
    <2>1. worker[w].pc \notin BetweenPc
      BY <1>11 DEF TranscribeFailed, BetweenPc
    <2>2. rec' \in [Recordings -> RecRow]
      <3>1. CASE UNCHANGED rec
        BY <3>1 DEF TypeOK
      <3>2. CASE UpdateRec(MyRec(w), FailedRec(MyRec(w)))
        BY <3>2, <2>1, MyJobType, RecRowType, UpdateRecType
           DEF FailedRec, RecStatus, TranscriptStatus
      <3> QED
        BY <1>11, <3>1, <3>2 DEF TranscribeFailed
    <2> QED
      BY <1>11, <2>1, <2>2, GotoType DEF TranscribeFailed, PcSet, TypeOK
  <1>12. CASE StoreText(w)
    <2>1. worker[w].pc \notin BetweenPc
      BY <1>12 DEF StoreText, BetweenPc
    <2>2. rec' \in [Recordings -> RecRow]
      BY <1>12, <2>1, MyJobType DEF StoreText, TypeOK, RecRow
    <2>3. worker' \in [Workers -> WorkerState]
      BY <1>12, <2>1, GotoType DEF StoreText, PcSet
    <2> QED
      BY <1>12, <2>2, <2>3 DEF StoreText, TypeOK
  <1>13. CASE StoreRecording(w)
    <2>1. worker[w].pc \notin BetweenPc
      BY <1>13 DEF StoreRecording, BetweenPc
    <2>2. rec' \in [Recordings -> RecRow]
      BY <1>13, <2>1, MyJobType, RecRowType, UpdateRecType
         DEF StoreRecording, RecStatus, TranscriptStatus
    <2> QED
      BY <1>13, <2>1, <2>2, GotoType DEF StoreRecording, PcSet, TypeOK
  <1>14. CASE Finalize(w)
    <2>1. worker[w].pc \notin BetweenPc
      BY <1>14 DEF Finalize, BetweenPc
    <2>2. job' \in [Jobs -> JobRow]
      BY <1>14, <2>1, MyJobType, UnlockedType, UpdateJobType DEF Finalize, JobStatus
    <2>3. cooldown' \in [Workers -> Nat] /\ backoff' \in [Workers -> Nat]
      BY <1>14, SettingsAssumption DEF Finalize, ClearCooldown, TypeOK
    <2> QED
      BY <1>14, <2>2, <2>3, NextInBatchType DEF Finalize, TypeOK
  <1>15. CASE Complete(w)
    <2>1. worker[w].pc \notin BetweenPc
      BY <1>15 DEF Complete, BetweenPc
    <2>2. job' \in [Jobs -> JobRow]
      BY <1>15, <2>1, MyJobType, UnlockedType, UpdateJobType DEF Complete, JobStatus
    <2>3. cooldown' \in [Workers -> Nat] /\ backoff' \in [Workers -> Nat]
      BY <1>15, SettingsAssumption DEF Complete, ClearCooldown, TypeOK
    <2>4. worker' \in [Workers -> WorkerState]
      BY <1>15, <2>1, NextInBatchType, GotoType DEF Complete, PcSet
    <2> QED
      BY <1>15, <2>2, <2>3, <2>4 DEF Complete, TypeOK
  <1>16. CASE Chain(w)
    <2>1. worker[w].pc \notin BetweenPc
      BY <1>16 DEF Chain, BetweenPc
    <2>2. job' \in [Jobs -> JobRow] /\ created' \in 0..MaxJobs
      <3>1. CASE CreateJob(ANALYSIS, MyRec(w))
        BY <2>1, <3>1, MyJobType, CreateJobType DEF Providers
      <3>2. CASE UNCHANGED <<job, created>>
        BY <3>2 DEF TypeOK
      <3> QED
        BY <1>16, <3>1, <3>2 DEF Chain
    <2>3. cooldown' \in [Workers -> Nat] /\ backoff' \in [Workers -> Nat]
      BY <1>16, SettingsAssumption DEF Chain, ClearCooldown, TypeOK
    <2>4. worker' \in [Workers -> WorkerState]
      BY <1>16, <2>1, NextInBatchType, GotoType DEF Chain, PcSet
    <2> QED
      BY <1>16, <2>2, <2>3, <2>4 DEF Chain, TypeOK
  <1>17. CASE Analyze(w)
    <2>1. worker[w].pc \notin BetweenPc
      BY <1>17 DEF Analyze, BetweenPc
    <2>2. worker' \in [Workers -> WorkerState]
      <3>1. CASE \E pc \in {"apply", "complete"} : Goto(w, pc)
        BY <2>1, <3>1, GotoType DEF PcSet
      <3>2. CASE \E hint \in RetryHints :
                   Become(w, [worker[w] EXCEPT !.pc = "defer", !.hint = hint])
        <4>1. PICK hint \in RetryHints :
                Become(w, [worker[w] EXCEPT !.pc = "defer", !.hint = hint])
          BY <3>2
        <4>2. [worker[w] EXCEPT !.pc = "defer", !.hint = hint] \in WorkerState
          BY <1>0, <2>1, SettingsAssumption DEF WorkerState, WorkerRecord, PcSet
        <4> QED
          BY <4>1, <4>2, BecomeType
      <3> QED
        BY <1>17, <3>1, <3>2 DEF Analyze
    <2> QED
      BY <1>17, <2>2 DEF Analyze, TypeOK
  <1>18. CASE ApplyAnalysis(w)
    <2>1. worker[w].pc \notin BetweenPc
      BY <1>18 DEF ApplyAnalysis, BetweenPc
    <2>2. rec' \in [Recordings -> RecRow]
      <3>1. [rec[MyRec(w)] EXCEPT !.analysed = TRUE] \in RecRow
        BY <2>1, MyJobType DEF TypeOK, RecRow
      <3> QED
        BY <1>18, <2>1, <3>1, MyJobType DEF ApplyAnalysis, TypeOK
    <2>3. worker' \in [Workers -> WorkerState]
      BY <1>18, <2>1, GotoType DEF ApplyAnalysis, PcSet
    <2> QED
      BY <1>18, <2>2, <2>3 DEF ApplyAnalysis, TypeOK
  <1>19. CASE Defer(w)
    <2>1. worker[w].pc \notin BetweenPc
      BY <1>19 DEF Defer, BetweenPc
    <2> DEFINE row == [Unlocked(MyJob(w), "QUEUED") EXCEPT
                        !.attempts = AttemptsGivenBack(w),
                        !.wait = IF worker[w].hint > 0 THEN worker[w].hint
                                 ELSE RateLimitBase]
    <2>2. row \in JobRow
      <3>1. Unlocked(MyJob(w), "QUEUED") \in JobRow
        BY <2>1, MyJobType, UnlockedType DEF JobStatus
      <3>2. AttemptsGivenBack(w) \in Nat
        BY <1>0, <2>1, MyJobType DEF AttemptsGivenBack, WorkerRecord
      <3>3. (IF worker[w].hint > 0 THEN worker[w].hint ELSE RateLimitBase) \in Int
        <4>1. worker[w].hint \in Nat
          BY <1>0 DEF WorkerRecord
        <4> QED
          BY <4>1, SettingsAssumption
      <3> QED
        BY <3>1, <3>2, <3>3, RewrittenRowType
    <2>3. job' \in [Jobs -> JobRow]
      BY <1>19, <2>1, <2>2, MyJobType, UpdateJobType DEF Defer
    <2>4. cooldown' \in [Workers -> Nat] /\ backoff' \in [Workers -> Nat]
      <3>1. worker[w].hint \in Nat
        BY <1>0 DEF WorkerRecord
      <3>2. backoff[w] \in Nat
        BY DEF TypeOK
      <3>3. MaxOf(worker[w].hint, RateLimitBase) \in Nat
        BY <3>1, SettingsAssumption DEF MaxOf
      <3>4. MinOf(2 * backoff[w], RateLimitMax) \in Nat
        BY <3>2, SettingsAssumption DEF MinOf
      <3>5. (IF worker[w].hint > 0 THEN MaxOf(worker[w].hint, RateLimitBase)
             ELSE backoff[w]) \in Nat
        BY <3>2, <3>3
      <3> QED
        BY <1>19, <3>4, <3>5 DEF Defer, TypeOK
    <2> QED
      BY <1>19, <2>3, <2>4, AbandonBatchType DEF Defer, TypeOK
  <1>20. CASE FailRead(w)
    <2>1. worker[w].pc \notin BetweenPc
      BY <1>20 DEF FailRead, BetweenPc
    <2>2. [worker[w] EXCEPT !.pc = "failWrite", !.read = job[MyJob(w)].attempts]
            \in WorkerState
      BY <1>0, <2>1, MyJobType DEF WorkerState, WorkerRecord, PcSet, JobRow
    <2>3. worker' \in [Workers -> WorkerState]
      BY <1>20, <2>2, BecomeType, NextInBatchType DEF FailRead
    <2> QED
      BY <1>20, <2>3 DEF FailRead, TypeOK
  <1>21. CASE FailWrite(w)
    <2>1. worker[w].pc \notin BetweenPc
      BY <1>21 DEF FailWrite, BetweenPc
    <2> DEFINE row == [Unlocked(MyJob(w), IF Exhausted(w) THEN "FAILED" ELSE "QUEUED")
              EXCEPT !.wait = IF Exhausted(w) THEN 0 ELSE RetryDelay(worker[w].read)]
    <2>2. row \in JobRow
      <3>1. (IF Exhausted(w) THEN "FAILED" ELSE "QUEUED") \in JobStatus
        BY DEF JobStatus
      <3>2. Unlocked(MyJob(w), IF Exhausted(w) THEN "FAILED" ELSE "QUEUED") \in JobRow
        BY <2>1, <3>1, MyJobType, UnlockedType
      <3>3. (IF Exhausted(w) THEN 0 ELSE RetryDelay(worker[w].read)) \in Int
        <4>1. worker[w].read \in Nat
          BY <1>0 DEF WorkerRecord
        <4>2. RetryDelay(worker[w].read) \in Int
          BY <4>1, RetryDelayType
        <4> QED
          BY <4>2
      <3> QED
        BY <3>2, <3>3, RewrittenRowType
    <2>3. job' \in [Jobs -> JobRow]
      BY <1>21, <2>1, <2>2, MyJobType, UpdateJobType DEF FailWrite
    <2>4. fails' \in [Jobs -> Nat]
      <3>1. fails[MyJob(w)] + 1 \in Nat
        BY <2>1, MyJobType DEF TypeOK
      <3> QED
        BY <1>21, <3>1 DEF FailWrite, TypeOK
    <2>5. worker' \in [Workers -> WorkerState]
      BY <1>21, <2>1, NextInBatchType, GotoType DEF FailWrite, PcSet
    <2> QED
      BY <1>21, <2>3, <2>4, <2>5 DEF FailWrite, TypeOK
  <1>22. CASE FailRecording(w)
    <2>1. worker[w].pc \notin BetweenPc
      BY <1>22 DEF FailRecording, BetweenPc
    <2>2. rec' \in [Recordings -> RecRow]
      BY <1>22, <2>1, MyJobType, RecRowType, UpdateRecType
         DEF FailRecording, FailedRec, RecStatus, TranscriptStatus
    <2> QED
      BY <1>22, <2>2, NextInBatchType DEF FailRecording, TypeOK
  <1> QED
    BY <1>1, <1>2, <1>3, <1>4, <1>5, <1>6, <1>7, <1>8, <1>9, <1>10, <1>11, <1>12,
       <1>13, <1>14, <1>15, <1>16, <1>17, <1>18, <1>19, <1>20, <1>21, <1>22
       DEF WorkerStep

\* So are the steps of the API and of the environment, kills and faults.
LEMMA TypeOtherStep ==
  ASSUME TypeOK,
         \/ \E w \in Workers : DbFault(w) \/ Crash(w)
         \/ \E r \in Recordings :
              ApiStep(r) \/ RetryUpload(r) \/ ApiCrash(r) \/ DeleteRecording(r)
         \/ Tick
         \/ \E p \in Providers : ToggleThrottle(p)
         \/ ToggleWindow
  PROVE  TypeOK'
  <1> USE DEF dbVars, throttleVars, envVars, historyVars, At
  <1>1. ASSUME NEW w \in Workers, DbFault(w) PROVE TypeOK'
    <2>1. worker[w] \in WorkerState /\ worker[w] \in WorkerRecord
      BY DEF TypeOK, WorkerState
    <2>2. faults' \in 0..MaxFaults
      <3>1. faults < MaxFaults /\ faults' = faults + 1
        BY <1>1 DEF DbFault
      <3>2. faults \in 0..MaxFaults
        BY DEF TypeOK
      <3> QED
        BY <3>1, <3>2, BoundsAssumption
    <2>3. worker' \in [Workers -> WorkerState]
      <3>1. CASE worker[w].pc \in GuardedPc /\ Goto(w, "fail")
        BY <3>1, GotoType DEF GuardedPc, BetweenPc, PcSet
      <3>2. CASE AbandonBatch(w)
        BY <3>2, AbandonBatchType
      <3>3. CASE \E j \in Jobs :
                   Become(w, [worker[w] EXCEPT !.pc = "fail", !.job = j, !.batch = @ \ {j}])
        <4>1. PICK j \in Jobs :
                Become(w, [worker[w] EXCEPT !.pc = "fail", !.job = j, !.batch = @ \ {j}])
          BY <3>3
        <4>2. [worker[w] EXCEPT !.pc = "fail", !.job = j, !.batch = @ \ {j}] \in WorkerState
          BY <2>1 DEF WorkerState, WorkerRecord, PcSet
        <4> QED
          BY <4>1, <4>2, BecomeType
      <3> QED
        BY <1>1, <3>1, <3>2, <3>3 DEF DbFault
    <2> QED
      BY <1>1, <2>2, <2>3 DEF DbFault, TypeOK
  <1>2. ASSUME NEW w \in Workers, Crash(w) PROVE TypeOK'
    <2>1. crashes' \in 0..MaxCrashes
      BY <1>2, BoundsAssumption DEF Crash, TypeOK
    <2>2. cooldown' \in [Workers -> Nat] /\ backoff' \in [Workers -> Nat]
      BY <1>2, SettingsAssumption DEF Crash, TypeOK
    <2> QED
      BY <1>2, <2>1, <2>2, AbandonBatchType DEF Crash, TypeOK
  <1>3. ASSUME NEW r \in Recordings, ApiStep(r) PROVE TypeOK'
    <2>1. CASE CreateRecording(r)
      BY <2>1 DEF CreateRecording, TypeOK, RecRow, RecStatus
    <2>2. CASE EnqueueTranscription(r)
      <3>1. job' \in [Jobs -> JobRow] /\ created' \in 0..MaxJobs
        <4>1. CASE CreateJob(TRANSCRIPTION, r)
          BY <4>1, CreateJobType DEF Providers
        <4>2. CASE UNCHANGED <<job, created>>
          BY <4>2 DEF TypeOK
        <4> QED
          BY <2>2, <4>1, <4>2 DEF EnqueueTranscription
      <3>2. api' \in [Recordings -> {"idle", "created", "marking"}]
        BY <2>2 DEF EnqueueTranscription, TypeOK
      <3> QED
        BY <2>2, <3>1, <3>2 DEF EnqueueTranscription, TypeOK
    <2>3. CASE MarkQueued(r)
      <3>1. rec[r].overtaken \in BOOLEAN
        BY DEF TypeOK, RecRow
      <3> DEFINE late == rec[r].overtaken
                         \/ rec[r].tstatus \in {"COMPLETED", "FAILED", "UNAVAILABLE"}
      <3>2. late \in BOOLEAN
        BY <3>1
      <3>3. [rec[r] EXCEPT !.tstatus = "QUEUED", !.status = "PROCESSING",
               !.overtaken = late] \in RecRow
        BY <3>2, RecRowType DEF RecStatus, TranscriptStatus
      <3>4. UpdateRec(r, [rec[r] EXCEPT !.tstatus = "QUEUED", !.status = "PROCESSING",
               !.overtaken = late])
        BY <2>3 DEF MarkQueued, TypeOK, RecRow
      <3>5. rec' \in [Recordings -> RecRow]
        BY <3>3, <3>4, UpdateRecType
      <3> QED
        BY <2>3, <3>5 DEF MarkQueued, TypeOK
    <2> QED
      BY <1>3, <2>1, <2>2, <2>3 DEF ApiStep
  <1>4. ASSUME NEW r \in Recordings, RetryUpload(r) PROVE TypeOK'
    BY <1>4 DEF RetryUpload, TypeOK
  <1>5. ASSUME NEW r \in Recordings, ApiCrash(r) PROVE TypeOK'
    BY <1>5, BoundsAssumption DEF ApiCrash, TypeOK
  <1>6. ASSUME NEW r \in Recordings, DeleteRecording(r) PROVE TypeOK'
    <2>1. rec' \in [Recordings -> RecRow]
      <3>1. [rec[r] EXCEPT !.status = "DELETED", !.text = "absent",
                           !.analysed = FALSE] \in RecRow
        BY DEF TypeOK, RecRow, RecStatus
      <3>2. rec' = [rec EXCEPT ![r] = [rec[r] EXCEPT !.status = "DELETED",
                                         !.text = "absent", !.analysed = FALSE]]
        BY <1>6 DEF DeleteRecording, TypeOK
      <3> QED
        BY <3>1, <3>2 DEF TypeOK
    <2>2. ASSUME NEW j \in Jobs PROVE [Unlocked(j, "DELETED") EXCEPT !.wait = 0] \in JobRow
      BY UnlockedType DEF JobRow, JobStatus
    <2>3. job' \in [Jobs -> JobRow]
      BY <1>6, <2>2 DEF DeleteRecording, TypeOK
    <2> QED
      BY <1>6, <2>1, <2>3 DEF DeleteRecording, TypeOK
  <1>7. ASSUME Tick PROVE TypeOK'
    <2>1. ASSUME NEW j \in Jobs
          PROVE  [job[j] EXCEPT
                   !.wait = IF @ > 0 THEN @ - 1 ELSE @,
                   !.age = IF job[j].status = "PROCESSING" /\ @ < StaleAfter
                           THEN @ + 1 ELSE @] \in JobRow
      <3>1. job[j] \in JobRow
        BY DEF TypeOK
      <3>2. job[j].wait \in Int /\ job[j].age \in Nat
        BY <3>1, JobColumns
      <3>3. (IF job[j].wait > 0 THEN job[j].wait - 1 ELSE job[j].wait) \in Int
        BY <3>2
      <3>4. (IF job[j].status = "PROCESSING" /\ job[j].age < StaleAfter
             THEN job[j].age + 1 ELSE job[j].age) \in Nat
        BY <3>2
      <3> QED
        BY <3>1, <3>3, <3>4, RewrittenRowType
    <2>2. job' \in [Jobs -> JobRow]
      BY <1>7, <2>1 DEF Tick
    <2>3. cooldown' \in [Workers -> Nat]
      <3>1. ASSUME NEW w \in Workers
            PROVE  (IF cooldown[w] > 0 THEN cooldown[w] - 1 ELSE 0) \in Nat
        <4>1. cooldown[w] \in Nat
          BY DEF TypeOK
        <4> QED
          BY <4>1
      <3> QED
        BY <1>7, <3>1 DEF Tick
    <2> QED
      BY <1>7, <2>2, <2>3 DEF Tick, TypeOK
  <1>8. ASSUME NEW p \in Providers, ToggleThrottle(p) PROVE TypeOK'
    BY <1>8 DEF ToggleThrottle, TypeOK
  <1>9. ASSUME ToggleWindow PROVE TypeOK'
    BY <1>9 DEF ToggleWindow, TypeOK
  <1> QED
    BY <1>1, <1>2, <1>3, <1>4, <1>5, <1>6, <1>7, <1>8, <1>9

\* The tables, the drainers and the histories stay what MediaQueue declares
\* them to be, whatever drainers, kills, faults and deletions interleave.
THEOREM TypeCorrect == Spec => []TypeOK
  <1>1. TypeOK /\ [Next]_vars => TypeOK'
    <2> SUFFICES ASSUME TypeOK, [Next]_vars PROVE TypeOK'
      OBVIOUS
    <2>1. CASE UNCHANGED vars
      BY <2>1 DEF vars, dbVars, throttleVars, envVars, historyVars, TypeOK
    <2>2. CASE Next
      BY <2>2, TypeWorkerStep, TypeOtherStep DEF Next
    <2> QED
      BY <2>1, <2>2
  <1> QED
    BY TypeInit, <1>1, PTL DEF Spec

-----------------------------------------------------------------------------
(* How a step changes the rows and the drainer                             *)

\* A job update changes at most that row, and nothing of a deleted one.
LEMMA UpdatedJob ==
  ASSUME TypeOK, NEW j \in Jobs, NEW row, UpdateJob(j, row)
  PROVE  /\ job[j].status = "DELETED" => job'[j] = job[j]
         /\ job[j].status # "DELETED" => job'[j] = row
         /\ \A k \in Jobs : k # j => job'[k] = job[k]
  BY DEF TypeOK, UpdateJob

\* A drainer's step changes that drainer.
LEMMA Became ==
  ASSUME TypeOK, NEW w \in Workers, NEW state, Become(w, state)
  PROVE  worker'[w] = state
  BY DEF TypeOK, Become

\* A row that a step leaves alone keeps its invariant.
LEMMA JobInvFrame ==
  ASSUME NEW j \in Jobs, JobInv(j), created' = created, job'[j] = job[j],
         fails'[j] = fails[j], recovered'[j] = recovered[j]
  PROVE  JobInv(j)'
  BY DEF JobInv

\* With a single drainer, a step of it that touches no row has to be checked
\* against that drainer alone.
LEMMA DrainerFrame ==
  ASSUME QueueInv, SingleDrainer, NEW w \in Workers,
         UNCHANGED <<job, created, historyVars>>, WorkerInv(w)'
  PROVE  QueueInv'
  <1>1. \A j \in Jobs : JobInv(j)'
    BY JobInvFrame DEF QueueInv, historyVars
  <1>2. \A v \in Workers : v = w
    BY DEF SingleDrainer
  <1> QED
    BY <1>1, <1>2 DEF QueueInv

\* A step of another actor that touches no row and no drainer.
LEMMA OtherFrame ==
  ASSUME QueueInv, UNCHANGED <<job, created, worker, historyVars>>
  PROVE  QueueInv'
  <1>1. \A j \in Jobs : JobInv(j)'
    BY JobInvFrame DEF QueueInv, historyVars
  <1>2. \A v \in Workers : WorkerInv(v)'
    BY DEF QueueInv, WorkerInv
  <1> QED
    BY <1>1, <1>2 DEF QueueInv

\* Between the lock and the settling of a job, a drainer's step that writes no
\* job row carries what it knows of the row along.
LEMMA RunningJump ==
  ASSUME TypeOK, QueueInv, SingleDrainer, NEW w \in Workers,
         worker[w].pc \in RunningPc,
         worker'[w].pc \in RunningPc \cup {"fail"},
         worker'[w].batch = worker[w].batch, worker'[w].seen = worker[w].seen,
         worker'[w].job = worker[w].job,
         UNCHANGED <<job, created, historyVars>>
  PROVE  QueueInv'
  <1>1. WorkerInv(w)
    BY DEF QueueInv
  <1>2. WorkerInv(w)'
    BY <1>1 DEF WorkerInv, RunningPc, BetweenPc
  <1> QED
    BY <1>2, DrainerFrame

\* A legal drainer's columns.
LEMMA WorkerColumns ==
  ASSUME TypeOK, NEW w \in Workers
  PROVE  /\ worker[w] \in WorkerRecord
         /\ worker[w].batch \subseteq Jobs
         /\ worker[w].seen \in [Jobs -> Nat] /\ worker[w].read \in Nat
         /\ worker[w].pc \notin BetweenPc => worker[w].job \in Jobs
  BY DEF TypeOK, WorkerState, WorkerRecord

\* The four ways a drainer moves: a jump, on with the batch, back to idle.
LEMMA GotoEffect ==
  ASSUME TypeOK, NEW w \in Workers, NEW pc, Goto(w, pc)
  PROVE  /\ worker'[w].pc = pc /\ worker'[w].batch = worker[w].batch
         /\ worker'[w].seen = worker[w].seen /\ worker'[w].job = worker[w].job
         /\ worker'[w].read = worker[w].read
  <1>1. worker[w] \in WorkerRecord
    BY WorkerColumns
  <1>2. worker'[w] = [worker[w] EXCEPT !.pc = pc]
    BY Became DEF Goto
  <1> QED
    BY <1>1, <1>2 DEF WorkerRecord

\* Going on with the batch keeps the batch and what was read of it.
LEMMA NextInBatchEffect ==
  ASSUME TypeOK, NEW w \in Workers, NextInBatch(w)
  PROVE  /\ worker'[w].pc = "next" /\ worker'[w].batch = worker[w].batch
         /\ worker'[w].seen = worker[w].seen
  <1>1. worker'[w] = [IdleWorker EXCEPT !.pc = "next", !.batch = worker[w].batch,
                                        !.seen = worker[w].seen]
    BY Became DEF NextInBatch
  <1> QED
    BY <1>1 DEF IdleWorker, IdlePc, NoJob

\* Giving up an iteration leaves nothing of it.
LEMMA AbandonBatchEffect ==
  ASSUME TypeOK, NEW w \in Workers, AbandonBatch(w)
  PROVE  worker'[w].pc = "idle" /\ worker'[w].batch = {}
  <1>1. PICK s : s = IdleWorker /\ Become(w, s)
    BY DEF AbandonBatch
  <1>2. worker'[w] = s
    BY <1>1, Became
  <1>3. s.pc = "idle" /\ s.batch = {}
    BY <1>1 DEF IdleWorker, IdlePc
  <1> QED
    BY <1>2, <1>3

-----------------------------------------------------------------------------
\* An empty queue and idle drainers satisfy the invariant.
LEMMA QueueInit == Init => QueueInv
  <1> SUFFICES ASSUME Init PROVE QueueInv
    OBVIOUS
  <1>1. ASSUME NEW j \in Jobs PROVE JobInv(j)
    <2>1. j \in Nat \ {0}
      BY JobsAreNaturals
    <2>2. /\ job[j].status = "NONE" /\ job[j].attempts = 0 /\ created = 0
          /\ fails[j] = 0 /\ recovered[j] = 0
      BY DEF Init
    <2> QED
      BY <2>1, <2>2 DEF JobInv
  <1>2. ASSUME NEW w \in Workers PROVE WorkerInv(w)
    BY DEF Init, WorkerInv, IdleWorker, IdlePc, BetweenPc, RunningPc
  <1> QED
    BY <1>1, <1>2 DEF QueueInv

\* Steps of a running job that write no job row.
LEMMA RunSteps ==
  ASSUME TypeOK, QueueInv, SingleDrainer, NEW w \in Workers,
         \/ MarkProcessing(w) \/ TranscribeOk(w) \/ TranscribeRateLimited(w)
         \/ TranscribeUnavailable(w) \/ TranscribeFailed(w)
         \/ StoreText(w) \/ StoreRecording(w) \/ Analyze(w) \/ ApplyAnalysis(w)
  PROVE  QueueInv'
  <1> USE DEF dbVars, throttleVars, envVars, At
  <1>0. worker[w] \in WorkerRecord
    BY WorkerColumns
  <1>1. worker[w].pc \in RunningPc
    BY DEF MarkProcessing, TranscribeOk, TranscribeRateLimited, TranscribeUnavailable,
           TranscribeFailed, StoreText, StoreRecording, Analyze, ApplyAnalysis, RunningPc
  <1>2. UNCHANGED <<job, created, historyVars>>
    BY DEF MarkProcessing, TranscribeOk, TranscribeRateLimited, TranscribeUnavailable,
           TranscribeFailed, StoreText, StoreRecording, Analyze, ApplyAnalysis
  <1>3. \/ \E pc \in RunningPc \cup {"fail"} : Goto(w, pc)
        \/ \E a : Become(w, [worker[w] EXCEPT !.pc = "store", !.answer = a])
        \/ \E h : Become(w, [worker[w] EXCEPT !.pc = "defer", !.hint = h])
    BY DEF MarkProcessing, TranscribeOk, TranscribeRateLimited, TranscribeUnavailable,
           TranscribeFailed, StoreText, StoreRecording, Analyze, ApplyAnalysis, RunningPc
  <1>4. CASE \E pc \in RunningPc \cup {"fail"} : Goto(w, pc)
    BY <1>1, <1>2, <1>4, GotoEffect, RunningJump
  <1>5. CASE \E a : Become(w, [worker[w] EXCEPT !.pc = "store", !.answer = a])
    <2>1. PICK a : Become(w, [worker[w] EXCEPT !.pc = "store", !.answer = a])
      BY <1>5
    <2>2. worker'[w] = [worker[w] EXCEPT !.pc = "store", !.answer = a]
      BY <2>1, Became
    <2>3. /\ worker'[w].pc = "store" /\ worker'[w].batch = worker[w].batch
          /\ worker'[w].seen = worker[w].seen /\ worker'[w].job = worker[w].job
      BY <1>0, <2>2 DEF WorkerRecord
    <2> QED
      BY <1>1, <1>2, <2>3, RunningJump DEF RunningPc
  <1>6. CASE \E h : Become(w, [worker[w] EXCEPT !.pc = "defer", !.hint = h])
    <2>1. PICK h : Become(w, [worker[w] EXCEPT !.pc = "defer", !.hint = h])
      BY <1>6
    <2>2. worker'[w] = [worker[w] EXCEPT !.pc = "defer", !.hint = h]
      BY <2>1, Became
    <2>3. /\ worker'[w].pc = "defer" /\ worker'[w].batch = worker[w].batch
          /\ worker'[w].seen = worker[w].seen /\ worker'[w].job = worker[w].job
      BY <1>0, <2>2 DEF WorkerRecord
    <2> QED
      BY <1>1, <1>2, <2>3, RunningJump DEF RunningPc
  <1> QED
    BY <1>3, <1>4, <1>5, <1>6

\* Recovery and selection of a batch.
LEMMA SelectSteps ==
  ASSUME TypeOK, QueueInv, SingleDrainer, NEW w \in Workers,
         RecoverFind(w) \/ SelectBatch(w) \/ EndBatch(w) \/ LockRead(w)
  PROVE  QueueInv'
  <1> USE DEF dbVars, throttleVars, envVars, At
  <1>0. worker[w] \in WorkerRecord /\ WorkerInv(w)
    BY WorkerColumns DEF QueueInv
  <1>1. UNCHANGED <<job, created, historyVars>>
    BY DEF RecoverFind, SelectBatch, EndBatch, LockRead
  <1>2. CASE RecoverFind(w)
    <2>1. worker'[w] = [worker[w] EXCEPT !.pc = "recover", !.batch = {j \in Jobs : Stale(j)}]
      BY <1>2, Became DEF RecoverFind
    <2>2. worker'[w].pc = "recover" /\ worker'[w].batch = {j \in Jobs : Stale(j)}
      BY <1>0, <2>1 DEF WorkerRecord
    <2>3. WorkerInv(w)'
      BY <1>1, <2>2 DEF WorkerInv, Stale, RunningPc, BetweenPc
    <2> QED
      BY <1>1, <2>3, DrainerFrame
  <1>3. CASE SelectBatch(w)
    <2> DEFINE Seen(S) == [j \in Jobs |-> IF j \in S THEN job[j].attempts ELSE 0]
    <2>1. PICK S \in SUBSET Eligible(w) :
            Become(w, [worker[w] EXCEPT !.pc = "next", !.batch = S, !.seen = Seen(S)])
      BY <1>3 DEF SelectBatch
    <2>2. worker'[w] = [worker[w] EXCEPT !.pc = "next", !.batch = S, !.seen = Seen(S)]
      BY <2>1, Became
    <2>3. worker'[w].pc = "next" /\ worker'[w].batch = S /\ worker'[w].seen = Seen(S)
      BY <1>0, <2>2 DEF WorkerRecord
    <2>4. \A k \in S : k \in Jobs /\ job[k].status = "QUEUED" /\ Seen(S)[k] = job[k].attempts
      BY DEF Eligible
    <2>5. WorkerInv(w)'
      BY <1>1, <2>3, <2>4 DEF WorkerInv, RunningPc, BetweenPc
    <2> QED
      BY <1>1, <2>5, DrainerFrame
  <1>4. CASE EndBatch(w)
    <2>1. worker'[w].pc = "idle" /\ worker'[w].batch = {}
      BY <1>4, AbandonBatchEffect DEF EndBatch
    <2>2. WorkerInv(w)'
      BY <2>1 DEF WorkerInv, RunningPc, BetweenPc
    <2> QED
      BY <1>1, <2>2, DrainerFrame
  <1>5. CASE LockRead(w)
    <2>1. PICK j \in Jobs :
            /\ j \in worker[w].batch
            /\ IF job[j].status = "QUEUED"
               THEN Become(w, [worker[w] EXCEPT !.pc = "lock", !.batch = @ \ {j},
                               !.job = j, !.read = job[j].attempts])
               ELSE Become(w, [worker[w] EXCEPT !.batch = @ \ {j}])
      BY <1>5 DEF LockRead, IsFirst
    <2>2. worker[w].pc = "next"
      BY <1>5 DEF LockRead
    <2>3. CASE job[j].status = "QUEUED"
      <3>1. worker'[w] = [worker[w] EXCEPT !.pc = "lock", !.batch = @ \ {j},
                               !.job = j, !.read = job[j].attempts]
        BY <2>1, <2>3, Became
      <3>2. /\ worker'[w].pc = "lock" /\ worker'[w].batch = worker[w].batch \ {j}
            /\ worker'[w].job = j /\ worker'[w].read = job[j].attempts
            /\ worker'[w].seen = worker[w].seen
        BY <1>0, <3>1 DEF WorkerRecord
      <3>3. worker[w].seen[j] = job[j].attempts
        BY <1>0, <2>1, <2>2, <2>3 DEF WorkerInv
      <3>4. WorkerInv(w)'
        BY <1>0, <1>1, <2>2, <2>3, <3>2, <3>3 DEF WorkerInv, RunningPc, BetweenPc
      <3> QED
        BY <1>1, <3>4, DrainerFrame
    <2>4. CASE job[j].status # "QUEUED"
      <3>1. worker'[w] = [worker[w] EXCEPT !.batch = @ \ {j}]
        BY <2>1, <2>4, Became
      <3>2. /\ worker'[w].pc = "next" /\ worker'[w].batch = worker[w].batch \ {j}
            /\ worker'[w].seen = worker[w].seen
        BY <1>0, <2>2, <3>1 DEF WorkerRecord
      <3>3. WorkerInv(w)'
        BY <1>0, <1>1, <2>2, <3>2 DEF WorkerInv, RunningPc, BetweenPc
      <3> QED
        BY <1>1, <3>3, DrainerFrame
    <2> QED
      BY <2>3, <2>4
  <1> QED
    BY <1>2, <1>3, <1>4, <1>5

\* A step that writes one row.
LEMMA RowFrame ==
  ASSUME QueueInv, SingleDrainer, NEW w \in Workers, NEW j \in Jobs,
         created' = created,
         \A k \in Jobs : k # j => /\ job'[k] = job[k] /\ fails'[k] = fails[k]
                                  /\ recovered'[k] = recovered[k],
         JobInv(j)', WorkerInv(w)'
  PROVE  QueueInv'
  <1>1. ASSUME NEW k \in Jobs PROVE JobInv(k)'
    <2>1. CASE k = j
      BY <2>1
    <2>2. CASE k # j
      BY <2>2, JobInvFrame DEF QueueInv
    <2> QED
      BY <2>1, <2>2
  <1>2. \A v \in Workers : v = w
    BY DEF SingleDrainer
  <1> QED
    BY <1>1, <1>2 DEF QueueInv

\* What a row update leaves of the histories and the other rows.
LEMMA UnlockedColumns ==
  ASSUME TypeOK, NEW j \in Jobs, NEW s
  PROVE  /\ Unlocked(j, s).status = s
         /\ Unlocked(j, s).attempts = job[j].attempts
  <1>1. job[j] \in JobRow
    BY DEF TypeOK
  <1> QED
    BY <1>1 DEF Unlocked, JobRow

\* Stale recovery charges the interrupted run and nothing else: no drainer
\* holds the row, since the single one is here.
LEMMA RecoverOneStep ==
  ASSUME TypeOK, QueueInv, SingleDrainer, NEW w \in Workers, RecoverOne(w)
  PROVE  QueueInv'
  <1> USE DEF At
  <1>0. worker[w] \in WorkerRecord /\ worker[w].batch \subseteq Jobs /\ WorkerInv(w)
    BY WorkerColumns DEF QueueInv
  <1>1. PICK j \in worker[w].batch :
          /\ UpdateJob(j, [Unlocked(j, "QUEUED") EXCEPT !.wait = 0])
          /\ Become(w, [worker[w] EXCEPT !.batch = @ \ {j}])
          /\ recovered' = [recovered EXCEPT ![j] = @ + 1]
    BY DEF RecoverOne
  <1>2. j \in Jobs /\ worker[w].pc = "recover"
    BY <1>0, <1>1 DEF RecoverOne
  <1>3. job[j].status \in {"PROCESSING", "DELETED"}
    BY <1>0, <1>1, <1>2 DEF WorkerInv
  <1>4. /\ worker'[w].pc = "recover" /\ worker'[w].batch = worker[w].batch \ {j}
    <2>1. worker'[w] = [worker[w] EXCEPT !.batch = @ \ {j}]
      BY <1>1, Became
    <2> QED
      BY <1>0, <1>2, <2>1 DEF WorkerRecord
  <1>5. \A k \in Jobs : k # j => job'[k] = job[k] /\ recovered'[k] = recovered[k]
    BY <1>1, <1>2, UpdatedJob DEF TypeOK
  <1>6. fails' = fails /\ created' = created
    BY DEF RecoverOne
  <1>7. WorkerInv(w)'
    BY <1>0, <1>2, <1>4, <1>5 DEF WorkerInv, RunningPc, BetweenPc
  <1>8. JobInv(j)'
    <2>1. CASE job[j].status = "DELETED"
      <3>1. job'[j] = job[j]
        BY <1>1, <1>2, <2>1, UpdatedJob
      <3>2. JobInv(j)
        BY <1>2 DEF QueueInv
      <3> QED
        BY <1>6, <2>1, <3>1, <3>2 DEF JobInv
    <2>2. CASE job[j].status = "PROCESSING"
      <3>1. job'[j] = [Unlocked(j, "QUEUED") EXCEPT !.wait = 0]
        BY <1>1, <1>2, <2>2, UpdatedJob
      <3>2. Unlocked(j, "QUEUED") \in JobRow
        BY <1>2, UnlockedType DEF JobStatus
      <3>3. job'[j].status = "QUEUED" /\ job'[j].attempts = job[j].attempts
        BY <1>2, <3>1, <3>2, UnlockedColumns DEF JobRow
      <3>4. /\ recovered'[j] = recovered[j] + 1 /\ fails[j] \in Nat /\ recovered[j] \in Nat
        BY <1>1, <1>2 DEF TypeOK
      <3>5. JobInv(j)
        BY <1>2 DEF QueueInv
      <3> QED
        BY <1>6, <2>2, <3>3, <3>4, <3>5 DEF JobInv
    <2> QED
      BY <1>3, <2>1, <2>2
  <1> QED
    BY <1>2, <1>5, <1>6, <1>7, <1>8, RowFrame

\* The row is still what _lock_job read when it writes it.
LEMMA LockWriteStep ==
  ASSUME TypeOK, QueueInv, SingleDrainer, NEW w \in Workers, LockWrite(w)
  PROVE  QueueInv'
  <1> USE DEF At
  <1>0. WorkerInv(w) /\ worker[w].pc = "lock"
    BY DEF QueueInv, LockWrite
  <1>1. PICK j \in Jobs : j = MyJob(w) /\ j = worker[w].job /\ j \notin worker[w].batch
    BY <1>0, WorkerColumns DEF WorkerInv, BetweenPc, MyJob
  <1>2. UpdateJob(j, Locked(w, j)) /\ created' = created /\ UNCHANGED historyVars
    BY <1>1 DEF LockWrite
  <1>3. \A k \in Jobs : k # j => job'[k] = job[k]
    BY <1>1, <1>2, UpdatedJob
  <1>4. JobInv(j)
    BY <1>1 DEF QueueInv
  <1>5. CASE job[j].status = "DELETED"
    <2>1. job'[j] = job[j]
      BY <1>1, <1>2, <1>5, UpdatedJob
    <2>2. NextInBatch(w)
      BY <1>1, <1>5 DEF LockWrite
    <2>3. /\ worker'[w].pc = "next" /\ worker'[w].batch = worker[w].batch
          /\ worker'[w].seen = worker[w].seen
      BY <2>2, NextInBatchEffect
    <2>4. WorkerInv(w)'
      BY <1>0, <1>1, <1>3, <2>1, <2>3, WorkerColumns DEF WorkerInv, RunningPc, BetweenPc
    <2>5. JobInv(j)'
      BY <1>1, <1>2, <1>4, <2>1, JobInvFrame DEF historyVars
    <2> QED
      BY <1>1, <1>2, <1>3, <2>4, <2>5, RowFrame DEF historyVars
  <1>6. CASE job[j].status # "DELETED"
    <2>1. /\ job[j].status = "QUEUED" /\ worker[w].read = job[j].attempts
          /\ worker[w].seen[j] = job[j].attempts
      BY <1>0, <1>1, <1>6 DEF WorkerInv
    <2>2. job'[j] = Locked(w, j)
      BY <1>1, <1>2, <1>6, UpdatedJob
    <2>3. job[j] \in JobRow /\ job[j].attempts \in Nat
      BY <1>1, JobColumns DEF TypeOK
    <2>4. /\ job'[j].status = "PROCESSING" /\ job'[j].lockedBy = w
          /\ job'[j].attempts = worker[w].read + 1
      BY <2>2, <2>3 DEF Locked, JobRow
    <2>5. \E pc \in {"mark", "analyze"} : Goto(w, pc)
      BY <1>1, <1>6 DEF LockWrite
    <2>6. /\ worker'[w].pc \in {"mark", "analyze"} /\ worker'[w].batch = worker[w].batch
          /\ worker'[w].seen = worker[w].seen /\ worker'[w].job = j
      BY <1>1, <2>5, GotoEffect
    <2>7. WorkerInv(w)'
      BY <1>0, <1>1, <1>3, <2>1, <2>4, <2>6, WorkerColumns DEF WorkerInv, RunningPc, BetweenPc
    <2>8. JobInv(j)'
      BY <1>2, <1>4, <2>1, <2>3, <2>4 DEF JobInv, historyVars
    <2> QED
      BY <1>1, <1>2, <1>3, <2>7, <2>8, RowFrame DEF historyVars
  <1> QED
    BY <1>5, <1>6

\* The drainer settles the job it has been running, and leaves it.
LEMMA SettleFrame ==
  ASSUME TypeOK, QueueInv, SingleDrainer, NEW w \in Workers,
         worker[w].pc \notin BetweenPc, NEW j \in Jobs, j = MyJob(w),
         created' = created,
         \A k \in Jobs : k # j => /\ job'[k] = job[k] /\ fails'[k] = fails[k]
                                  /\ recovered'[k] = recovered[k],
         JobInv(j)',
         \/ worker'[w].pc = "next" /\ worker'[w].batch = worker[w].batch
            /\ worker'[w].seen = worker[w].seen
         \/ worker'[w].pc = "idle" /\ worker'[w].batch = {}
  PROVE  QueueInv'
  <1>0. WorkerInv(w)
    BY DEF QueueInv
  <1>1. j \notin worker[w].batch /\ worker[w].batch \subseteq Jobs
    BY <1>0, WorkerColumns DEF WorkerInv, MyJob
  <1>2. \A k \in worker[w].batch : job'[k] = job[k]
    BY <1>1
  <1>3. WorkerInv(w)'
    BY <1>0, <1>2 DEF WorkerInv, RunningPc, BetweenPc
  <1> QED
    BY <1>3, RowFrame

\* What is known of the row of the job at hand when the run is settled.
LEMMA RunningRow ==
  ASSUME TypeOK, QueueInv, NEW w \in Workers, worker[w].pc \in RunningPc,
         NEW j \in Jobs, j = MyJob(w)
  PROVE  \/ job[j].status = "DELETED"
         \/ /\ job[j].status = "PROCESSING"
            /\ job[j].attempts = worker[w].seen[j] + 1
            /\ job[j].attempts = fails[j] + recovered[j] + 1
            /\ fails[j] < MaxAttempts
  BY DEF QueueInv, WorkerInv, JobInv, MyJob

\* Finalize and Complete settle the job without a charge.
LEMMA SettledUncharged ==
  ASSUME TypeOK, QueueInv, NEW w \in Workers, worker[w].pc \in RunningPc,
         NEW j \in Jobs, j = MyJob(w), NEW s \in {"COMPLETED", "FAILED"},
         UpdateJob(j, Unlocked(j, s)), UNCHANGED <<created, historyVars>>
  PROVE  /\ JobInv(j)' /\ job'[j].status \in {s, "DELETED"}
         /\ \A k \in Jobs : k # j => job'[k] = job[k]
  <1>0. \A k \in Jobs : k # j => job'[k] = job[k]
    BY UpdatedJob
  <1>1. JobInv(j) /\ fails' = fails /\ recovered' = recovered /\ created' = created
    BY DEF QueueInv, historyVars
  <1>2. CASE job[j].status = "DELETED"
    <2>1. job'[j] = job[j]
      BY <1>2, UpdatedJob
    <2> QED
      BY <1>0, <1>1, <1>2, <2>1 DEF JobInv
  <1>3. CASE job[j].status # "DELETED"
    <2>1. /\ job[j].status = "PROCESSING"
          /\ job[j].attempts = fails[j] + recovered[j] + 1 /\ fails[j] < MaxAttempts
      BY <1>3, RunningRow
    <2>2. job'[j].status = s /\ job'[j].attempts = job[j].attempts
      BY <1>3, UpdatedJob, UnlockedColumns
    <2> QED
      BY <1>0, <1>1, <2>1, <2>2 DEF JobInv
  <1> QED
    BY <1>2, <1>3

\* _complete_job and _finalize_unavailable_job settle the job at hand.
LEMMA SettleSteps ==
  ASSUME TypeOK, QueueInv, SingleDrainer, NEW w \in Workers,
         Finalize(w) \/ Complete(w)
  PROVE  QueueInv'
  <1> USE DEF At
  <1>1. worker[w].pc \in RunningPc /\ worker[w].pc \notin BetweenPc
    BY DEF Finalize, Complete, RunningPc, BetweenPc
  <1>2. PICK j \in Jobs : j = MyJob(w)
    BY <1>1, MyJobType
  <1>3. /\ \E s \in {"COMPLETED", "FAILED"} : UpdateJob(j, Unlocked(j, s))
        /\ UNCHANGED <<created, historyVars>>
    BY <1>2 DEF Finalize, Complete
  <1>4. JobInv(j)' /\ \A k \in Jobs : k # j => job'[k] = job[k]
    BY <1>1, <1>2, <1>3, SettledUncharged
  <1>5. CASE NextInBatch(w)
    BY <1>1, <1>2, <1>3, <1>4, <1>5, NextInBatchEffect, SettleFrame DEF historyVars
  <1>6. CASE Complete(w) /\ Goto(w, "chain")
    <2>1. /\ worker'[w].pc = "chain" /\ worker'[w].batch = worker[w].batch
          /\ worker'[w].seen = worker[w].seen /\ worker'[w].job = j
      BY <1>2, <1>6, GotoEffect DEF MyJob
    <2>2. job'[j].status \in {"COMPLETED", "DELETED"}
      BY <1>1, <1>2, <1>3, <1>6, SettledUncharged DEF Complete
    <2>3. WorkerInv(w) /\ worker[w].batch \subseteq Jobs
      BY WorkerColumns DEF QueueInv
    <2>4. j \notin worker[w].batch
      BY <1>1, <1>2, <2>3 DEF WorkerInv, MyJob
    <2>5. \A k \in worker[w].batch : job'[k] = job[k]
      BY <1>4, <2>3, <2>4
    <2>6. worker[w].pc # "recover"
      BY <1>6 DEF Complete
    <2>7. WorkerInv(w)'
      BY <2>1, <2>2, <2>3, <2>4, <2>5, <2>6 DEF WorkerInv, RunningPc, BetweenPc
    <2> QED
      BY <1>3, <1>4, <2>7, RowFrame DEF historyVars
  <1> QED
    BY <1>5, <1>6 DEF Finalize, Complete

-----------------------------------------------------------------------------
(* New rows, deleted rows, time                                            *)

\* A drainer's invariant survives any change of rows it does not use, and the
\* deletion of those it does.
LEMMA RowsFrame ==
  ASSUME TypeOK, QueueInv, NEW w \in Workers,
         worker'[w] = worker[w],
         \A k \in Jobs : \/ job[k].status = "NONE" \/ job'[k].status = "DELETED"
                         \/ /\ job'[k].status = job[k].status
                            /\ job'[k].attempts = job[k].attempts
                            /\ job'[k].lockedBy = job[k].lockedBy
  PROVE  WorkerInv(w)'
  <1>1. WorkerInv(w) /\ worker[w].batch \subseteq Jobs
        /\ (worker[w].pc \notin BetweenPc => worker[w].job \in Jobs)
    BY WorkerColumns DEF QueueInv
  <1> QED
    BY <1>1 DEF WorkerInv, RunningPc, BetweenPc

\* An enqueue takes the next unused row.
LEMMA Created ==
  ASSUME TypeOK, QueueInv, NEW type, NEW r, CreateJob(type, r), UNCHANGED historyVars
  PROVE  /\ \A j \in Jobs : JobInv(j)'
         /\ \A k \in Jobs : job[k].status = "NONE" \/ job'[k] = job[k]
  <1>1. /\ created + 1 \in Jobs /\ created \in Nat /\ created' = created + 1
        /\ job' = [job EXCEPT ![created + 1] = NewJob(type, r)]
    BY BoundsAssumption DEF CreateJob, Jobs, TypeOK
  <1>2. job \in [Jobs -> JobRow] /\ fails \in [Jobs -> Nat] /\ recovered \in [Jobs -> Nat]
        /\ fails' = fails /\ recovered' = recovered
    BY DEF TypeOK, historyVars
  <1>3. \A k \in Jobs : k # created + 1 => job'[k] = job[k]
    BY <1>1, <1>2
  <1>4. ASSUME NEW j \in Jobs PROVE JobInv(j)'
    <2>1. JobInv(j) /\ j \in Nat
      BY JobsAreNaturals DEF QueueInv
    <2>2. CASE j = created + 1
      <3>1. job'[j] = NewJob(type, r)
        BY <1>1, <1>2, <2>2
      <3>2. job'[j].status = "QUEUED" /\ job'[j].attempts = 0
        BY <3>1 DEF NewJob
      <3>3. job[j].status = "NONE" /\ fails[j] + recovered[j] = 0
        BY <1>1, <2>1, <2>2 DEF JobInv
      <3>4. fails[j] = 0 /\ recovered[j] = 0
        BY <1>2, <3>3
      <3> QED
        BY <1>1, <1>2, <2>2, <3>2, <3>4, SettingsAssumption DEF JobInv
    <2>3. CASE j # created + 1
      <3>1. (j > created) = (j > created + 1)
        BY <1>1, <2>1, <2>3
      <3> QED
        BY <1>1, <1>2, <1>3, <2>1, <2>3, <3>1 DEF JobInv
    <2> QED
      BY <2>2, <2>3
  <1>5. ASSUME NEW k \in Jobs PROVE job[k].status = "NONE" \/ job'[k] = job[k]
    <2>1. JobInv(k)
      BY DEF QueueInv
    <2> QED
      BY <1>1, <1>3, <2>1 DEF JobInv
  <1> QED
    BY <1>4, <1>5

\* The API's enqueue, deletions and time.
LEMMA RowSteps ==
  ASSUME TypeOK, QueueInv,
         \/ \E r \in Recordings : EnqueueTranscription(r) \/ DeleteRecording(r)
         \/ Tick
  PROVE  QueueInv'
  <1> USE DEF throttleVars, envVars
  <1>0. \A j \in Jobs : JobInv(j) /\ job[j] \in JobRow /\ j \in Nat
    BY JobsAreNaturals DEF QueueInv, TypeOK
  <1>1. ASSUME NEW r \in Recordings, EnqueueTranscription(r) PROVE QueueInv'
    <2>1. worker' = worker /\ UNCHANGED historyVars
      BY <1>1 DEF EnqueueTranscription
    <2>2. CASE CreateJob(TRANSCRIPTION, r)
      <3>1. ASSUME NEW w \in Workers PROVE WorkerInv(w)'
        BY <2>1, <2>2, Created, RowsFrame
      <3> QED
        BY <2>1, <2>2, <3>1, Created DEF QueueInv
    <2>3. CASE UNCHANGED <<job, created>>
      BY <2>1, <2>3, OtherFrame
    <2> QED
      BY <1>1, <2>2, <2>3 DEF EnqueueTranscription
  <1>2. ASSUME NEW r \in Recordings, DeleteRecording(r) PROVE QueueInv'
    <2>1. worker' = worker /\ created' = created /\ fails' = fails /\ recovered' = recovered
      BY <1>2 DEF DeleteRecording, historyVars
    <2>2. ASSUME NEW k \in Jobs
          PROVE  \/ job'[k] = job[k]
                 \/ job[k].status # "NONE" /\ job'[k].status = "DELETED"
      <3>1. CASE k \notin JobsOf(r)
        BY <1>2, <3>1 DEF DeleteRecording
      <3>2. CASE k \in JobsOf(r)
        <4>1. job'[k] = [Unlocked(k, "DELETED") EXCEPT !.wait = 0]
          BY <1>2, <3>2 DEF DeleteRecording
        <4>2. Unlocked(k, "DELETED") \in JobRow
          BY UnlockedType DEF JobStatus
        <4>3. job'[k].status = "DELETED"
          BY <4>1, <4>2, UnlockedColumns DEF JobRow
        <4> QED
          BY <3>2, <4>3 DEF JobsOf
      <3> QED
        BY <3>1, <3>2
    <2>3. ASSUME NEW k \in Jobs PROVE JobInv(k)'
      <3>1. CASE job'[k] = job[k]
        BY <1>0, <2>1, <3>1, JobInvFrame
      <3>2. CASE job[k].status # "NONE" /\ job'[k].status = "DELETED"
        BY <1>0, <2>1, <3>2 DEF JobInv
      <3> QED
        BY <2>2, <3>1, <3>2
    <2>4. ASSUME NEW w \in Workers PROVE WorkerInv(w)'
      BY <2>1, <2>2, RowsFrame
    <2> QED
      BY <2>3, <2>4 DEF QueueInv
  <1>3. ASSUME Tick PROVE QueueInv'
    <2>1. worker' = worker /\ created' = created /\ fails' = fails /\ recovered' = recovered
      BY <1>3 DEF Tick, historyVars
    <2>2. ASSUME NEW k \in Jobs
          PROVE  /\ job'[k].status = job[k].status /\ job'[k].attempts = job[k].attempts
                 /\ job'[k].lockedBy = job[k].lockedBy
      <3>1. PICK d, a : job'[k] = [job[k] EXCEPT !.wait = d, !.age = a]
        BY <1>3 DEF Tick
      <3> QED
        BY <1>0, <3>1 DEF JobRow
    <2>3. ASSUME NEW k \in Jobs PROVE JobInv(k)'
      BY <1>0, <2>1, <2>2 DEF JobInv
    <2>4. ASSUME NEW w \in Workers PROVE WorkerInv(w)'
      BY <2>1, <2>2, RowsFrame
    <2> QED
      BY <2>3, <2>4 DEF QueueInv
  <1> QED
    BY <1>1, <1>2, <1>3

\* The chained enqueue takes an unused row and disturbs no other.
LEMMA ChainStep ==
  ASSUME TypeOK, QueueInv, SingleDrainer, NEW w \in Workers, Chain(w)
  PROVE  QueueInv'
  <1> USE DEF At
  <1>0. worker[w].pc = "chain" /\ UNCHANGED historyVars /\ WorkerInv(w)
    BY DEF Chain, QueueInv
  <1>1. PICK j \in Jobs : j = MyJob(w)
    BY <1>0, MyJobType DEF BetweenPc
  <1>2. CASE CreateJob(ANALYSIS, MyRec(w)) /\ NextInBatch(w)
    <2>1. /\ worker'[w].pc = "next" /\ worker'[w].batch = worker[w].batch
          /\ worker'[w].seen = worker[w].seen
      BY <1>2, NextInBatchEffect
    <2>2. \A k \in Jobs : job[k].status = "NONE" \/ job'[k] = job[k]
      BY <1>0, <1>2, Created
    <2>3. \A k \in worker[w].batch : k \in Jobs /\ job[k].status # "NONE"
      BY <1>0, WorkerColumns DEF WorkerInv
    <2>4. \A k \in worker[w].batch : job'[k] = job[k]
      BY <2>2, <2>3
    <2>5. WorkerInv(w)'
      BY <1>0, <2>1, <2>4 DEF WorkerInv, RunningPc, BetweenPc
    <2>6. \A v \in Workers : v = w
      BY DEF SingleDrainer
    <2> QED
      BY <1>0, <1>2, <2>5, <2>6, Created DEF QueueInv
  <1>3. CASE Goto(w, "fail") /\ UNCHANGED <<job, created>>
    <2>1. /\ worker'[w].pc = "fail" /\ worker'[w].batch = worker[w].batch
          /\ worker'[w].seen = worker[w].seen /\ worker'[w].job = worker[w].job
      BY <1>3, GotoEffect
    <2>2. WorkerInv(w)'
      BY <1>0, <1>3, <2>1 DEF WorkerInv, RunningPc, BetweenPc
    <2> QED
      BY <1>0, <1>3, <2>2, DrainerFrame
  <1> QED
    BY <1>2, <1>3 DEF Chain

-----------------------------------------------------------------------------
(* Rate limits, failures, faults and kills                                 *)

\* A 429 gives back exactly the attempt the lock took: the attempts of the
\* batch snapshot are those before the lock.
LEMMA DeferStep ==
  ASSUME TypeOK, QueueInv, SingleDrainer, NEW w \in Workers, Defer(w)
  PROVE  QueueInv'
  <1> USE DEF At
  <1>1. worker[w].pc \in RunningPc /\ worker[w].pc \notin BetweenPc
    BY DEF Defer, RunningPc, BetweenPc
  <1>2. PICK j \in Jobs : j = MyJob(w)
    BY <1>1, MyJobType
  <1>3. created' = created /\ fails' = fails /\ recovered' = recovered
    BY DEF Defer, historyVars
  <1>4. PICK d : UpdateJob(j, [Unlocked(j, "QUEUED") EXCEPT
                                 !.attempts = worker[w].seen[j], !.wait = d])
    BY <1>2 DEF Defer, AttemptsGivenBack
  <1>5. JobInv(j)
    BY DEF QueueInv
  <1>6. JobInv(j)'
    <2>1. CASE job[j].status = "DELETED"
      <3>1. job'[j] = job[j]
        BY <1>4, <2>1, UpdatedJob
      <3> QED
        BY <1>3, <1>5, <3>1, JobInvFrame
    <2>2. CASE job[j].status # "DELETED"
      <3>1. job'[j] = [Unlocked(j, "QUEUED") EXCEPT
                         !.attempts = worker[w].seen[j], !.wait = d]
        BY <1>4, <2>2, UpdatedJob
      <3>2. Unlocked(j, "QUEUED") \in JobRow
        BY UnlockedType DEF JobStatus
      <3>3. job'[j].status = "QUEUED" /\ job'[j].attempts = worker[w].seen[j]
        BY <3>1, <3>2, UnlockedColumns DEF JobRow
      <3>4. /\ job[j].status = "PROCESSING" /\ job[j].attempts = worker[w].seen[j] + 1
            /\ job[j].attempts = fails[j] + recovered[j] + 1 /\ fails[j] < MaxAttempts
        BY <1>1, <1>2, <2>2, RunningRow
      <3>5. worker[w].seen[j] \in Nat /\ fails[j] \in Nat /\ recovered[j] \in Nat
        BY WorkerColumns DEF TypeOK
      <3>6. worker[w].seen[j] = fails[j] + recovered[j]
        BY <3>4, <3>5
      <3> QED
        BY <1>3, <1>5, <3>3, <3>4, <3>6 DEF JobInv
    <2> QED
      BY <2>1, <2>2
  <1>7. worker'[w].pc = "idle" /\ worker'[w].batch = {}
    BY AbandonBatchEffect DEF Defer
  <1>8. \A k \in Jobs : k # j => job'[k] = job[k]
    BY <1>4, UpdatedJob
  <1> QED
    BY <1>1, <1>2, <1>3, <1>6, <1>7, <1>8, SettleFrame

\* _handle_job_failure: a retry is allowed only below MaxAttempts.
LEMMA FailWriteStep ==
  ASSUME TypeOK, QueueInv, SingleDrainer, NEW w \in Workers, FailWrite(w)
  PROVE  QueueInv'
  <1> USE DEF At
  <1>0. worker[w].pc = "failWrite" /\ worker[w].pc \notin BetweenPc /\ WorkerInv(w)
    BY DEF FailWrite, BetweenPc, QueueInv
  <1>1. PICK j \in Jobs : j = MyJob(w) /\ j = worker[w].job
    BY <1>0, MyJobType DEF MyJob
  <1> DEFINE s == IF Exhausted(w) THEN "FAILED" ELSE "QUEUED"
  <1>2. PICK d : UpdateJob(j, [Unlocked(j, s) EXCEPT !.wait = d])
    BY <1>1 DEF FailWrite
  <1>3. /\ created' = created /\ recovered' = recovered
        /\ fails' = IF job[j].status = "QUEUED" THEN fails ELSE [fails EXCEPT ![j] = @ + 1]
    BY <1>1 DEF FailWrite
  <1>4. JobInv(j) /\ fails[j] \in Nat /\ recovered[j] \in Nat /\ job[j].attempts \in Nat
    BY JobColumns DEF QueueInv, TypeOK
  <1>5. /\ \A k \in Jobs : k # j => /\ job'[k] = job[k] /\ fails'[k] = fails[k]
                                    /\ recovered'[k] = recovered[k]
        /\ fails'[j] = IF job[j].status = "QUEUED" THEN fails[j] ELSE fails[j] + 1
    BY <1>2, <1>3, UpdatedJob DEF TypeOK
  <1>6. JobInv(j)'
    <2>1. CASE job[j].status = "DELETED"
      <3>1. job'[j] = job[j]
        BY <1>2, <2>1, UpdatedJob
      <3> QED
        BY <1>3, <1>4, <2>1, <3>1 DEF JobInv
    <2>2. CASE job[j].status # "DELETED"
      <3>1. job'[j] = [Unlocked(j, s) EXCEPT !.wait = d]
        BY <1>2, <2>2, UpdatedJob
      <3>2. Unlocked(j, s) \in JobRow
        BY UnlockedType DEF JobStatus
      <3>3. job'[j].status = s /\ job'[j].attempts = job[j].attempts
        BY <3>1, <3>2, UnlockedColumns DEF JobRow
      <3>4. /\ job[j].status \in {"QUEUED", "PROCESSING", "COMPLETED"}
            /\ worker[w].read = job[j].attempts
        BY <1>0, <1>1, <2>2 DEF WorkerInv
      <3>5. job[j].attempts = fails'[j] + recovered[j]
        BY <1>4, <1>5, <3>4 DEF JobInv
      <3>6. CASE Exhausted(w)
        BY <1>3, <1>4, <3>3, <3>4, <3>5, <3>6 DEF JobInv, Exhausted
      <3>7. CASE ~Exhausted(w)
        <4>1. fails'[j] \in Nat /\ fails'[j] < MaxAttempts
          BY <1>4, <1>5, <3>4, <3>5, <3>7, SettingsAssumption DEF Exhausted
        <4> QED
          BY <1>3, <1>4, <3>3, <3>4, <3>5, <3>7, <4>1 DEF JobInv
      <3> QED
        BY <3>6, <3>7
    <2> QED
      BY <2>1, <2>2
  <1>7. CASE NextInBatch(w)
    BY <1>0, <1>1, <1>3, <1>5, <1>6, <1>7, NextInBatchEffect, SettleFrame
  <1>8. CASE Goto(w, "failRec")
    <2>1. /\ worker'[w].pc = "failRec" /\ worker'[w].batch = worker[w].batch
          /\ worker'[w].seen = worker[w].seen /\ worker'[w].job = j
      BY <1>1, <1>8, GotoEffect
    <2>2. j \notin worker[w].batch /\ worker[w].batch \subseteq Jobs
      BY <1>0, <1>1, WorkerColumns DEF WorkerInv
    <2>3. \A k \in worker[w].batch : job'[k] = job[k]
      BY <1>5, <2>2
    <2>4. WorkerInv(w)'
      BY <1>0, <2>1, <2>2, <2>3 DEF WorkerInv, RunningPc, BetweenPc
    <2> QED
      BY <1>3, <1>5, <1>6, <2>4, RowFrame
  <1> QED
    BY <1>7, <1>8 DEF FailWrite

\* The other steps of the failure handler, faults and kills write no job row.
LEMMA FailSteps ==
  ASSUME TypeOK, QueueInv, SingleDrainer, NEW w \in Workers,
         FailRead(w) \/ FailRecording(w) \/ DbFault(w) \/ Crash(w)
  PROVE  QueueInv'
  <1> USE DEF At, dbVars
  <1>0. WorkerInv(w) /\ worker[w] \in WorkerRecord /\ worker[w].batch \subseteq Jobs
    BY WorkerColumns DEF QueueInv
  <1>1. UNCHANGED <<job, created, historyVars>>
    BY DEF FailRead, FailRecording, DbFault, Crash
  <1>2. CASE AbandonBatch(w)
    <2>1. worker'[w].pc = "idle" /\ worker'[w].batch = {}
      BY <1>2, AbandonBatchEffect
    <2>2. WorkerInv(w)'
      BY <2>1 DEF WorkerInv, RunningPc, BetweenPc
    <2> QED
      BY <1>1, <2>2, DrainerFrame
  <1>3. CASE worker[w].pc \in {"fail", "failRec"} /\ NextInBatch(w)
    <2>1. /\ worker'[w].pc = "next" /\ worker'[w].batch = worker[w].batch
          /\ worker'[w].seen = worker[w].seen
      BY <1>3, NextInBatchEffect
    <2>2. WorkerInv(w)'
      BY <1>0, <1>1, <1>3, <2>1 DEF WorkerInv, RunningPc, BetweenPc
    <2> QED
      BY <1>1, <2>2, DrainerFrame
  <1>4. CASE FailRead(w) /\ job[MyJob(w)].status # "DELETED"
    <2>1. worker[w].pc = "fail"
      BY <1>4 DEF FailRead
    <2>2. worker'[w] = [worker[w] EXCEPT !.pc = "failWrite", !.read = job[MyJob(w)].attempts]
      BY <1>4, Became DEF FailRead
    <2>3. /\ worker'[w].pc = "failWrite" /\ worker'[w].batch = worker[w].batch
          /\ worker'[w].seen = worker[w].seen /\ worker'[w].job = worker[w].job
          /\ worker'[w].read = job[worker[w].job].attempts
      BY <1>0, <2>2 DEF WorkerRecord, MyJob
    <2>4. WorkerInv(w)'
      BY <1>0, <1>1, <2>1, <2>3 DEF WorkerInv, RunningPc, BetweenPc
    <2> QED
      BY <1>1, <2>4, DrainerFrame
  <1>5. CASE worker[w].pc \in GuardedPc /\ Goto(w, "fail")
    <2>1. /\ worker'[w].pc = "fail" /\ worker'[w].batch = worker[w].batch
          /\ worker'[w].seen = worker[w].seen /\ worker'[w].job = worker[w].job
      BY <1>5, GotoEffect
    <2>2. WorkerInv(w)'
      BY <1>0, <1>1, <1>5, <2>1 DEF WorkerInv, GuardedPc, RunningPc, BetweenPc
    <2> QED
      BY <1>1, <2>2, DrainerFrame
  <1>6. CASE worker[w].pc = "next"
              /\ \E j \in Jobs : IsFirst(w, j) /\ Become(w, [worker[w] EXCEPT
                   !.pc = "fail", !.job = j, !.batch = @ \ {j}])
    <2>1. PICK j \in Jobs : j \in worker[w].batch /\ Become(w, [worker[w] EXCEPT
                   !.pc = "fail", !.job = j, !.batch = @ \ {j}])
      BY <1>6 DEF IsFirst
    <2>2. worker'[w] = [worker[w] EXCEPT !.pc = "fail", !.job = j, !.batch = @ \ {j}]
      BY <2>1, Became
    <2>3. /\ worker'[w].pc = "fail" /\ worker'[w].batch = worker[w].batch \ {j}
          /\ worker'[w].seen = worker[w].seen /\ worker'[w].job = j
      BY <1>0, <2>2 DEF WorkerRecord
    <2>4. WorkerInv(w)'
      BY <1>0, <1>1, <1>6, <2>1, <2>3 DEF WorkerInv, RunningPc, BetweenPc
    <2> QED
      BY <1>1, <2>4, DrainerFrame
  <1> QED
    BY <1>2, <1>3, <1>4, <1>5, <1>6 DEF FailRead, FailRecording, DbFault, Crash

\* QueueInv is inductive.
LEMMA QueueStep == ASSUME TypeOK, QueueInv, SingleDrainer, [Next]_vars PROVE QueueInv'
  <1>1. CASE UNCHANGED vars
    BY <1>1, OtherFrame DEF vars, dbVars, historyVars
  <1>2. ASSUME NEW w \in Workers, WorkerStep(w) \/ DbFault(w) \/ Crash(w) PROVE QueueInv'
    BY <1>2, RunSteps, SelectSteps, RecoverOneStep, LockWriteStep, SettleSteps,
       ChainStep, DeferStep, FailWriteStep, FailSteps DEF WorkerStep
  <1>3. ASSUME NEW r \in Recordings,
               \/ ApiStep(r) \/ RetryUpload(r) \/ ApiCrash(r) \/ DeleteRecording(r)
        PROVE  QueueInv'
    <2>1. CASE EnqueueTranscription(r) \/ DeleteRecording(r)
      BY <2>1, RowSteps
    <2>2. CASE CreateRecording(r) \/ MarkQueued(r) \/ RetryUpload(r) \/ ApiCrash(r)
      <3>1. UNCHANGED <<job, created, worker, historyVars>>
        BY <2>2 DEF CreateRecording, MarkQueued, RetryUpload, ApiCrash, dbVars
      <3> QED
        BY <3>1, OtherFrame
    <2> QED
      BY <1>3, <2>1, <2>2 DEF ApiStep
  <1>4. CASE Tick
    BY <1>4, RowSteps
  <1>5. ASSUME NEW p \in Providers, ToggleThrottle(p) PROVE QueueInv'
    BY <1>5, OtherFrame DEF ToggleThrottle, dbVars
  <1>6. CASE ToggleWindow
    BY <1>6, OtherFrame DEF ToggleWindow, dbVars
  <1> QED
    BY <1>1, <1>2, <1>3, <1>4, <1>5, <1>6 DEF Next

-----------------------------------------------------------------------------
(* Theorems                                                                *)

\* With one drainer, what the drainer read of a row is still true when it
\* writes it, and attempts account for the row's whole history.
THEOREM QueueInvariant == SingleDrainer /\ Spec => [](TypeOK /\ QueueInv)
  <1>1. SingleDrainer /\ TypeOK /\ QueueInv /\ [Next]_vars => QueueInv'
    BY QueueStep
  <1>2. SingleDrainer => []SingleDrainer
    <2>1. SingleDrainer => SingleDrainer'
      BY DEF SingleDrainer
    <2> QED
      BY <2>1, PTL
  <1> QED
    BY TypeCorrect, QueueInit, <1>1, <1>2, PTL DEF Spec

\* A 429 costs no attempt, and no attempt is lost or invented.
THEOREM AttemptsExact == SingleDrainer /\ Spec => []AttemptsAccounted
  <1>1. TypeOK /\ QueueInv => AttemptsAccounted
    BY DEF TypeOK, QueueInv, JobInv, AttemptsAccounted
  <1> QED
    BY QueueInvariant, <1>1, PTL

\* Failures stay within MaxAttempts, and nothing is given up before.
THEOREM RetryBudgetKept == SingleDrainer /\ Spec => []RetryBudget
  <1>1. TypeOK /\ QueueInv => RetryBudget
    <2> SUFFICES ASSUME TypeOK, QueueInv, NEW j \in Jobs
                 PROVE  /\ job[j].status \in {"QUEUED", "PROCESSING"} => fails[j] < MaxAttempts
                        /\ job[j].status = "FAILED" /\ job[j].attempts = fails[j] + recovered[j]
                             => job[j].attempts >= MaxAttempts
      BY DEF RetryBudget
    <2>1. JobInv(j) /\ fails[j] \in Nat /\ recovered[j] \in Nat
      BY DEF QueueInv, TypeOK
    <2> QED
      BY <2>1 DEF JobInv
  <1> QED
    BY QueueInvariant, <1>1, PTL
-----------------------------------------------------------------------------
(* What a step does to the rows' status and attempts, with one drainer     *)

Same(k) == job'[k].status = job[k].status /\ job'[k].attempts = job[k].attempts
Moves(j, from, to, n) ==
  /\ job[j].status \in from /\ job'[j].status = to /\ job'[j].attempts = n
  /\ \A k \in Jobs : k # j => Same(k)
Failing(j) == \E w \in Workers : At(w, "failWrite") /\ MyJob(w) = j

RowMove(j) ==
  \/ Moves(j, {"NONE"}, "QUEUED", job[j].attempts)
  \/ Moves(j, {"QUEUED"}, "PROCESSING", job[j].attempts + 1)
  \/ job[j].attempts > 0 /\ Moves(j, {"PROCESSING"}, "QUEUED", job[j].attempts - 1)
  \/ Moves(j, {"PROCESSING"}, "QUEUED", job[j].attempts)
  \/ Moves(j, {"PROCESSING"}, "COMPLETED", job[j].attempts)
  \/ Moves(j, {"PROCESSING"}, "FAILED", job[j].attempts)
  \/ Failing(j) /\ Moves(j, {"COMPLETED"}, "QUEUED", job[j].attempts)
  \/ /\ Failing(j) /\ job[j].attempts >= MaxAttempts
     /\ Moves(j, {"QUEUED", "PROCESSING", "COMPLETED"}, "FAILED", job[j].attempts)
Removed(S) ==
  /\ \A j \in S : /\ job[j].status # "NONE" /\ job'[j].status = "DELETED"
                  /\ job'[j].attempts = job[j].attempts
  /\ \A k \in Jobs : k \notin S => Same(k)
RowsMove == (\A k \in Jobs : Same(k)) \/ (\E j \in Jobs : RowMove(j)) \/ (\E S \in SUBSET Jobs : Removed(S))

\* An update of one row, which a deletion may have forestalled.
LEMMA UpdateMoves ==
  ASSUME TypeOK, NEW j \in Jobs, NEW row, UpdateJob(j, row)
  PROVE  \/ \A k \in Jobs : Same(k)
         \/ /\ job[j].status # "DELETED" /\ job'[j] = row
            /\ \A k \in Jobs : k # j => Same(k)
<1>1. \A k \in Jobs : k # j => job'[k] = job[k]
  BY UpdatedJob
<1>2. CASE job[j].status = "DELETED"
  BY <1>1, <1>2, UpdatedJob DEF Same
<1>3. CASE job[j].status # "DELETED"
  BY <1>1, <1>3, UpdatedJob DEF Same
<1> QED BY <1>2, <1>3

\* A row that is released, whatever else of it but its attempts is written.
LEMMA ReleasedColumns ==
  ASSUME TypeOK, NEW j \in Jobs, NEW s \in JobStatus, NEW d, NEW n
  PROVE  /\ Unlocked(j, s).status = s /\ Unlocked(j, s).attempts = job[j].attempts
         /\ [Unlocked(j, s) EXCEPT !.wait = d].status = s
         /\ [Unlocked(j, s) EXCEPT !.wait = d].attempts = job[j].attempts
         /\ [Unlocked(j, s) EXCEPT !.attempts = n, !.wait = d].status = s
         /\ [Unlocked(j, s) EXCEPT !.attempts = n, !.wait = d].attempts = n
<1>1. Unlocked(j, s) \in JobRow
  BY UnlockedType
<1>2. Unlocked(j, s).status = s /\ Unlocked(j, s).attempts = job[j].attempts
  BY UnlockedColumns
<1> QED BY <1>1, <1>2 DEF JobRow

\* Recovery, the lock, and the three ways a run is settled without a charge.
LEMMA RunMoves ==
  ASSUME TypeOK, QueueInv, NEW w \in Workers,
         RecoverOne(w) \/ LockWrite(w) \/ Finalize(w) \/ Complete(w) \/ Defer(w)
  PROVE  RowsMove
<1> USE DEF At
<1>0. WorkerInv(w) /\ worker[w].batch \subseteq Jobs
  BY WorkerColumns DEF QueueInv
<1>1. CASE RecoverOne(w)
  <2>1. PICK j \in Jobs : /\ j \in worker[w].batch
                         /\ UpdateJob(j, [Unlocked(j, "QUEUED") EXCEPT !.wait = 0])
    BY <1>0, <1>1 DEF RecoverOne
  <2>2. job[j].status \in {"PROCESSING", "DELETED"}
    BY <1>0, <1>1, <2>1 DEF RecoverOne, WorkerInv
  <2>3. CASE job[j].status # "DELETED" /\ job'[j] = [Unlocked(j, "QUEUED") EXCEPT !.wait = 0]
             /\ \A k \in Jobs : k # j => Same(k)
    <3>1. Moves(j, {"PROCESSING"}, "QUEUED", job[j].attempts)
      BY <2>2, <2>3, ReleasedColumns DEF Moves, JobStatus
    <3> QED BY <3>1 DEF RowsMove, RowMove
  <2> QED BY <2>1, <2>3, UpdateMoves DEF RowsMove
<1>2. CASE LockWrite(w)
  <2>1. PICK j \in Jobs : j = MyJob(w) /\ UpdateJob(j, Locked(w, j))
    BY <1>2, MyJobType DEF LockWrite, BetweenPc
  <2>2. CASE job[j].status # "DELETED" /\ job'[j] = Locked(w, j)
             /\ \A k \in Jobs : k # j => Same(k)
    <3>1. job[j].status = "QUEUED" /\ worker[w].read = job[j].attempts
      BY <1>0, <1>2, <2>1, <2>2 DEF LockWrite, WorkerInv, MyJob
    <3>2. job[j] \in JobRow
      BY DEF TypeOK
    <3>3. job'[j].status = "PROCESSING" /\ job'[j].attempts = worker[w].read + 1
      BY <2>2, <3>2 DEF Locked, JobRow
    <3>4. Moves(j, {"QUEUED"}, "PROCESSING", job[j].attempts + 1)
      BY <2>2, <3>1, <3>3 DEF Moves
    <3> QED BY <3>4 DEF RowsMove, RowMove
  <2> QED BY <2>1, <2>2, UpdateMoves DEF RowsMove
<1>3. CASE Finalize(w) \/ Complete(w)
  <2>1. worker[w].pc \in RunningPc /\ worker[w].pc \notin BetweenPc
    BY <1>3 DEF Finalize, Complete, RunningPc, BetweenPc
  <2>2. PICK j \in Jobs : j = MyJob(w)
    BY <2>1, MyJobType
  <2>3. PICK s \in {"COMPLETED", "FAILED"} : UpdateJob(j, Unlocked(j, s))
    BY <1>3, <2>2 DEF Finalize, Complete
  <2>4. CASE job[j].status # "DELETED" /\ job'[j] = Unlocked(j, s)
             /\ \A k \in Jobs : k # j => Same(k)
    <3>1. job[j].status = "PROCESSING"
      BY <2>1, <2>2, <2>4, RunningRow
    <3>2. Moves(j, {"PROCESSING"}, s, job[j].attempts)
      BY <2>4, <3>1, ReleasedColumns DEF Moves, JobStatus
    <3> QED BY <3>2 DEF RowsMove, RowMove
  <2> QED BY <2>3, <2>4, UpdateMoves DEF RowsMove
<1>4. CASE Defer(w)
  <2>1. worker[w].pc \in RunningPc /\ worker[w].pc \notin BetweenPc
    BY <1>4 DEF Defer, RunningPc, BetweenPc
  <2>2. PICK j \in Jobs : j = MyJob(w)
    BY <2>1, MyJobType
  <2> DEFINE n == worker[w].seen[j]
  <2>3. PICK d : UpdateJob(j, [Unlocked(j, "QUEUED") EXCEPT !.attempts = n, !.wait = d])
    BY <1>4, <2>2 DEF Defer, AttemptsGivenBack
  <2>4. CASE job[j].status # "DELETED"
             /\ job'[j] = [Unlocked(j, "QUEUED") EXCEPT !.attempts = n, !.wait = d]
             /\ \A k \in Jobs : k # j => Same(k)
    <3>1. job[j].status = "PROCESSING" /\ job[j].attempts = n + 1 /\ n \in Nat
      BY <2>1, <2>2, <2>4, RunningRow, WorkerColumns
    <3>2. job[j].attempts > 0 /\ n = job[j].attempts - 1
      BY <3>1
    <3>3. job'[j].status = "QUEUED" /\ job'[j].attempts = n
      BY <2>4, ReleasedColumns DEF JobStatus
    <3>4. Moves(j, {"PROCESSING"}, "QUEUED", job[j].attempts - 1)
      BY <2>4, <3>1, <3>2, <3>3 DEF Moves
    <3> QED BY <3>2, <3>4 DEF RowsMove, RowMove
  <2> QED BY <2>3, <2>4, UpdateMoves DEF RowsMove
<1> QED BY <1>1, <1>2, <1>3, <1>4

\* The failure handler: what it read is what the row still holds.
LEMMA FailMoves ==
  ASSUME TypeOK, QueueInv, NEW w \in Workers, FailWrite(w)
  PROVE  RowsMove
<1> USE DEF At
<1>0. WorkerInv(w) /\ worker[w].pc = "failWrite"
  BY DEF FailWrite, QueueInv
<1>1. PICK j \in Jobs : j = MyJob(w) /\ j = worker[w].job
  BY <1>0, MyJobType DEF MyJob, BetweenPc
<1>2. Failing(j)
  BY <1>0, <1>1 DEF Failing
<1> DEFINE s == IF Exhausted(w) THEN "FAILED" ELSE "QUEUED"
<1>3. PICK d : UpdateJob(j, [Unlocked(j, s) EXCEPT !.wait = d])
  BY <1>1 DEF FailWrite
<1>4. CASE job[j].status # "DELETED" /\ job'[j] = [Unlocked(j, s) EXCEPT !.wait = d]
           /\ \A k \in Jobs : k # j => Same(k)
  <2>1. /\ job[j].status \in {"QUEUED", "PROCESSING", "COMPLETED"}
        /\ worker[w].read = job[j].attempts
    BY <1>0, <1>1, <1>4 DEF WorkerInv
  <2>2. job'[j].status = s /\ job'[j].attempts = job[j].attempts
    BY <1>4, ReleasedColumns DEF JobStatus
  <2>3. CASE Exhausted(w)
    <3>1. job[j].attempts >= MaxAttempts
      BY <2>1, <2>3 DEF Exhausted
    <3>2. Moves(j, {"QUEUED", "PROCESSING", "COMPLETED"}, "FAILED", job[j].attempts)
      BY <1>4, <2>1, <2>2, <2>3 DEF Moves
    <3> QED BY <1>2, <3>1, <3>2 DEF RowsMove, RowMove
  <2>4. CASE ~Exhausted(w)
    <3>1. job'[j].status = "QUEUED" /\ job'[j].attempts = job[j].attempts
      BY <2>2, <2>4
    <3>2. CASE job[j].status = "QUEUED"
      <4>1. \A k \in Jobs : Same(k)
        BY <1>4, <3>1, <3>2 DEF Same
      <4> QED BY <4>1 DEF RowsMove
    <3>3. CASE job[j].status = "PROCESSING"
      <4>1. Moves(j, {"PROCESSING"}, "QUEUED", job[j].attempts)
        BY <1>4, <3>1, <3>3 DEF Moves
      <4> QED BY <4>1 DEF RowsMove, RowMove
    <3>4. CASE job[j].status = "COMPLETED"
      <4>1. Moves(j, {"COMPLETED"}, "QUEUED", job[j].attempts)
        BY <1>4, <3>1, <3>4 DEF Moves
      <4> QED BY <1>2, <4>1 DEF RowsMove, RowMove
    <3> QED BY <2>1, <3>2, <3>3, <3>4
  <2> QED BY <2>3, <2>4
<1> QED BY <1>3, <1>4, UpdateMoves DEF RowsMove

\* An enqueue takes a row that was never used.
LEMMA CreateMoves ==
  ASSUME TypeOK, QueueInv, NEW type, NEW r, CreateJob(type, r)
  PROVE  RowsMove
<1>0. created + 1 \in Jobs /\ job' = [job EXCEPT ![created + 1] = NewJob(type, r)]
  BY BoundsAssumption DEF CreateJob, Jobs, TypeOK
<1>1. PICK j \in Jobs : j = created + 1 /\ job' = [job EXCEPT ![j] = NewJob(type, r)]
  BY <1>0
<1>2. job \in [Jobs -> JobRow]
  BY DEF TypeOK
<1>3. job'[j] = NewJob(type, r) /\ \A k \in Jobs : k # j => job'[k] = job[k]
  BY <1>1, <1>2
<1>4. job'[j].status = "QUEUED" /\ job'[j].attempts = 0
  BY <1>3 DEF NewJob
<1>5. job[j].status = "NONE" /\ job[j].attempts = 0
  <2>1. JobInv(j) /\ created \in Nat
    BY DEF QueueInv, TypeOK
  <2>2. j > created
    BY <1>1, <2>1
  <2> QED BY <2>1, <2>2 DEF JobInv
<1>6. Moves(j, {"NONE"}, "QUEUED", job[j].attempts)
  BY <1>3, <1>4, <1>5 DEF Moves, Same
<1> QED BY <1>6 DEF RowsMove, RowMove

\* A deletion takes all rows of its recording at once.
LEMMA DeleteMoves ==
  ASSUME TypeOK, NEW r \in Recordings, DeleteRecording(r)
  PROVE  RowsMove
<1>1. ASSUME NEW k \in Jobs, k \in JobsOf(r)
      PROVE  /\ job[k].status # "NONE" /\ job'[k].status = "DELETED"
             /\ job'[k].attempts = job[k].attempts
  <2>1. job'[k] = [Unlocked(k, "DELETED") EXCEPT !.wait = 0]
    BY <1>1 DEF DeleteRecording
  <2> QED BY <1>1, <2>1, ReleasedColumns DEF JobsOf, JobStatus
<1>2. ASSUME NEW k \in Jobs, k \notin JobsOf(r) PROVE Same(k)
  BY <1>2 DEF DeleteRecording, Same
<1>3. JobsOf(r) \in SUBSET Jobs
  BY DEF JobsOf
<1>4. Removed(JobsOf(r))
  BY <1>1, <1>2, <1>3 DEF Removed
<1> QED BY <1>3, <1>4 DEF RowsMove

\* Every step of the queue moves the rows in one of these ways.
LEMMA StepMoves == ASSUME TypeOK, QueueInv, [Next]_vars PROVE RowsMove
<1>0. ASSUME job' = job PROVE RowsMove
  BY <1>0 DEF RowsMove, Same
<1>1. ASSUME NEW w \in Workers, WorkerStep(w) PROVE RowsMove
  <2>1. CASE RecoverOne(w) \/ LockWrite(w) \/ Finalize(w) \/ Complete(w) \/ Defer(w)
    BY <2>1, RunMoves
  <2>2. CASE FailWrite(w)
    BY <2>2, FailMoves
  <2>3. CASE Chain(w)
    BY <1>0, <2>3, CreateMoves DEF Chain
  <2>4. CASE \/ RecoverFind(w) \/ SelectBatch(w) \/ EndBatch(w) \/ LockRead(w) \/ MarkProcessing(w)
             \/ TranscribeOk(w) \/ TranscribeRateLimited(w) \/ TranscribeUnavailable(w)
             \/ TranscribeFailed(w) \/ StoreText(w) \/ StoreRecording(w)
             \/ Analyze(w) \/ ApplyAnalysis(w) \/ FailRead(w) \/ FailRecording(w)
    <3>1. job' = job
      BY <2>4 DEF RecoverFind, SelectBatch, EndBatch, LockRead, MarkProcessing, TranscribeOk,
         TranscribeRateLimited, TranscribeUnavailable, TranscribeFailed, StoreText,
         StoreRecording, Analyze, ApplyAnalysis, FailRead, FailRecording, dbVars
    <3> QED BY <1>0, <3>1
  <2> QED BY <1>1, <2>1, <2>2, <2>3, <2>4 DEF WorkerStep
<1>2. ASSUME NEW w \in Workers, DbFault(w) \/ Crash(w) PROVE RowsMove
  BY <1>0, <1>2 DEF DbFault, Crash, dbVars
<1>3. ASSUME NEW r \in Recordings, EnqueueTranscription(r) PROVE RowsMove
  BY <1>0, <1>3, CreateMoves DEF EnqueueTranscription
<1>4. ASSUME NEW r \in Recordings, DeleteRecording(r) PROVE RowsMove
  BY <1>4, DeleteMoves
<1>5. ASSUME NEW r \in Recordings,
             CreateRecording(r) \/ MarkQueued(r) \/ RetryUpload(r) \/ ApiCrash(r)
      PROVE  RowsMove
  BY <1>0, <1>5 DEF CreateRecording, MarkQueued, RetryUpload, ApiCrash, dbVars
<1>6. CASE Tick
  <2>1. ASSUME NEW k \in Jobs PROVE Same(k)
    <3>1. PICK d, a : job'[k] = [job[k] EXCEPT !.wait = d, !.age = a]
      BY <1>6 DEF Tick
    <3>2. job[k] \in JobRow
      BY DEF TypeOK
    <3> QED BY <3>1, <3>2 DEF Same, JobRow
  <2> QED BY <2>1 DEF RowsMove
<1>7. CASE (\E p \in Providers : ToggleThrottle(p)) \/ ToggleWindow \/ UNCHANGED vars
  BY <1>0, <1>7 DEF ToggleThrottle, ToggleWindow, vars, dbVars
<1> QED BY <1>1, <1>2, <1>3, <1>4, <1>5, <1>6, <1>7 DEF Next, ApiStep

-----------------------------------------------------------------------------
(* The ledger                                                              *)

Phase == [j \in Jobs |-> PhaseOf(job[j].status)]
Tries == [j \in Jobs |-> job[j].attempts]

LEMMA PhaseNames ==
  /\ PhaseOf("NONE") = "none" /\ PhaseOf("QUEUED") = "waiting"
  /\ PhaseOf("PROCESSING") = "running" /\ PhaseOf("COMPLETED") = "done"
  /\ PhaseOf("FAILED") = "dropped" /\ PhaseOf("DELETED") = "gone"
  BY DEF PhaseOf

\* A row's move is a move of the ledger's.
LEMMA LedgerRow ==
  ASSUME NEW j \in Jobs, NEW from, NEW to, NEW n, Moves(j, from, to, n)
  PROVE  /\ Phase' = [Phase EXCEPT ![j] = PhaseOf(to)]
         /\ Tries' = [Tries EXCEPT ![j] = n]
         /\ n = job[j].attempts => Tries' = Tries
         /\ Phase[j] = PhaseOf(job[j].status) /\ Tries[j] = job[j].attempts
  BY DEF Moves, Same, Phase, Tries

LEMMA LedgerMove ==
  ASSUME TypeOK, NEW j \in Jobs, RowMove(j)
  PROVE  Ledger!Next
<1> DEFINE n == job[j].attempts
<1>1. CASE Moves(j, {"NONE"}, "QUEUED", n)
  <2>1. job[j].status = "NONE"
    BY <1>1 DEF Moves
  <2>2. Phase[j] = "none" /\ Phase' = [Phase EXCEPT ![j] = "waiting"] /\ Tries' = Tries
    BY <1>1, <2>1, LedgerRow, PhaseNames
  <2>3. Ledger!Submit(j)
    BY <1>1, <2>2 DEF Ledger!Submit, Ledger!Move, Phase, Tries
  <2> QED BY <2>3 DEF Ledger!Next
<1>2. CASE Moves(j, {"QUEUED"}, "PROCESSING", n + 1)
  <2>1. job[j].status = "QUEUED"
    BY <1>2 DEF Moves
  <2>2. Phase[j] = "waiting" /\ Phase' = [Phase EXCEPT ![j] = "running"] /\ Tries' = [Tries EXCEPT ![j] = n + 1] /\ Tries[j] = n
    BY <1>2, <2>1, LedgerRow, PhaseNames
  <2>3. Ledger!Start(j)
    BY <1>2, <2>2 DEF Ledger!Start, Ledger!Move, Phase, Tries
  <2> QED BY <2>3 DEF Ledger!Next
<1>3. CASE n > 0 /\ Moves(j, {"PROCESSING"}, "QUEUED", n - 1)
  <2>1. job[j].status = "PROCESSING"
    BY <1>3 DEF Moves
  <2>2. Phase[j] = "running" /\ Phase' = [Phase EXCEPT ![j] = "waiting"] /\ Tries' = [Tries EXCEPT ![j] = n - 1] /\ Tries[j] = n
    BY <1>3, <2>1, LedgerRow, PhaseNames
  <2>3. Ledger!GiveBack(j)
    BY <1>3, <2>2 DEF Ledger!GiveBack, Ledger!Move, Phase, Tries
  <2> QED BY <2>3 DEF Ledger!Next
<1>4. CASE Moves(j, {"PROCESSING"}, "QUEUED", n) \/ Moves(j, {"COMPLETED"}, "QUEUED", n)
  <2>1. job[j].status \in {"PROCESSING", "COMPLETED"}
    BY <1>4 DEF Moves
  <2>2. Phase[j] \in {"running", "done"} /\ Phase' = [Phase EXCEPT ![j] = "waiting"] /\ Tries' = Tries
    BY <1>4, <2>1, LedgerRow, PhaseNames
  <2>3. Ledger!Retry(j)
    BY <1>4, <2>2 DEF Ledger!Retry, Ledger!Move, Phase, Tries
  <2> QED BY <2>3 DEF Ledger!Next
<1>5. CASE Moves(j, {"PROCESSING"}, "COMPLETED", n)
  <2>1. job[j].status = "PROCESSING"
    BY <1>5 DEF Moves
  <2>2. Phase[j] = "running" /\ Phase' = [Phase EXCEPT ![j] = "done"] /\ Tries' = Tries
    BY <1>5, <2>1, LedgerRow, PhaseNames
  <2>3. Ledger!Finish(j)
    BY <1>5, <2>2 DEF Ledger!Finish, Ledger!Move, Phase, Tries
  <2> QED BY <2>3 DEF Ledger!Next
<1>6. CASE Moves(j, {"PROCESSING"}, "FAILED", n)
  <2>1. job[j].status = "PROCESSING"
    BY <1>6 DEF Moves
  <2>2. Phase[j] = "running" /\ Phase' = [Phase EXCEPT ![j] = "dropped"] /\ Tries' = Tries
    BY <1>6, <2>1, LedgerRow, PhaseNames
  <2>3. Ledger!Refuse(j)
    BY <1>6, <2>2 DEF Ledger!Refuse, Ledger!Move, Phase, Tries
  <2> QED BY <2>3 DEF Ledger!Next
<1>7. CASE n >= MaxAttempts /\ Moves(j, {"QUEUED", "PROCESSING", "COMPLETED"}, "FAILED", n)
  <2>1. job[j].status \in {"QUEUED", "PROCESSING", "COMPLETED"}
    BY <1>7 DEF Moves
  <2>2. Phase[j] \in {"waiting", "running", "done"} /\ Phase' = [Phase EXCEPT ![j] = "dropped"] /\ Tries' = Tries /\ Tries[j] = n
    BY <1>7, <2>1, LedgerRow, PhaseNames
  <2>3. Ledger!GiveUp(j)
    BY <1>7, <2>2 DEF Ledger!GiveUp, Ledger!Move, Phase, Tries
  <2> QED BY <2>3 DEF Ledger!Next
<1> QED BY <1>1, <1>2, <1>3, <1>4, <1>5, <1>6, <1>7 DEF RowMove

LEMMA LedgerStep ==
  ASSUME TypeOK, QueueInv, [Next]_vars
  PROVE  [Ledger!Next]_(Ledger!vars)
<1>1. RowsMove
  BY StepMoves
<1>2. CASE \A k \in Jobs : Same(k)
  BY <1>2 DEF Same, Ledger!vars
<1>3. CASE \E j \in Jobs : RowMove(j)
  BY <1>3, LedgerMove
<1>4. CASE \E S \in SUBSET Jobs : Removed(S)
  <2>1. PICK S \in SUBSET Jobs : Removed(S)
    BY <1>4
  <2>2. /\ \A j \in S : Phase[j] # "none"
        /\ Phase' = [j \in Jobs |-> IF j \in S THEN "gone" ELSE Phase[j]]
        /\ Tries' = Tries
    <3>1. \A j \in Jobs : job[j].status # "NONE" => PhaseOf(job[j].status) # "none"
      BY DEF PhaseOf, TypeOK, JobRow, JobStatus
    <3>2. \A j \in S : job[j].status # "NONE" /\ job'[j].status = "DELETED" /\ j \in Jobs
      BY <2>1 DEF Removed
    <3>3. \A j \in Jobs : job'[j].attempts = job[j].attempts
      BY <2>1 DEF Removed, Same
    <3>4. \A j \in Jobs : PhaseOf(job'[j].status) = IF j \in S THEN "gone" ELSE PhaseOf(job[j].status)
      BY <2>1, <3>2, PhaseNames DEF Removed, Same
    <3> QED BY <3>1, <3>2, <3>3, <3>4 DEF Phase, Tries
  <2>3. Ledger!Remove(S)
    BY <2>2 DEF Ledger!Remove, Phase, Tries
  <2> QED BY <2>3 DEF Ledger!Next
<1> QED BY <1>1, <1>2, <1>3, <1>4 DEF RowsMove

(* One drainer keeps the ledger of every job, for any number of jobs,      *)
(* recordings, kills and failing calls: a start costs one try, a 429 gives *)
(* it back, only a run finishes, and a job is dropped when its tries are   *)
(* used (process_next_jobs implements JobLedger).                          *)
THEOREM LedgerRefined == SingleDrainer /\ Spec => LedgerKept
<1>1. Init => Ledger!Init
  <2> SUFFICES ASSUME Init PROVE Ledger!Init
    OBVIOUS
  <2>1. \A j \in Jobs : job[j].status = "NONE" /\ job[j].attempts = 0
    BY DEF Init
  <2> QED BY <2>1, PhaseNames DEF Ledger!Init
<1>2. TypeOK /\ QueueInv /\ [Next]_vars => [Ledger!Next]_(Ledger!vars)
  BY LedgerStep
<1> QED BY <1>1, <1>2, QueueInvariant, PTL DEF Spec, LedgerKept, Ledger!Spec

(* A finished job is never run again, unless the bookkeeping that followed *)
(* it failed (the handler around process_next_jobs).                       *)
THEOREM CompletedStays == SingleDrainer /\ Spec => CompletedReopenedOnlyByChain
<1>1. TypeOK /\ QueueInv /\ [Next]_vars =>
        [\A j \in Jobs : job[j].status = "COMPLETED"
           => \/ job'[j].status \in {"COMPLETED", "DELETED"}
              \/ \E w \in Workers : At(w, "failWrite") /\ MyJob(w) = j]_vars
  <2> SUFFICES ASSUME TypeOK, QueueInv, [Next]_vars, NEW j \in Jobs, job[j].status = "COMPLETED"
               PROVE  job'[j].status \in {"COMPLETED", "DELETED"} \/ Failing(j)
    BY DEF Failing
  <2>1. RowsMove
    BY StepMoves
  <2>2. CASE \A k \in Jobs : Same(k)
    BY <2>2 DEF Same
  <2>3. CASE \E k \in Jobs : RowMove(k)
    <3>1. PICK k \in Jobs : RowMove(k)
      BY <2>3
    <3>2. CASE k = j
      BY <3>1, <3>2 DEF RowMove, Moves
    <3>3. CASE k # j
      <4>1. Same(j)
        BY <3>1, <3>3 DEF RowMove, Moves
      <4> QED BY <4>1 DEF Same
    <3> QED BY <3>2, <3>3
  <2>4. CASE \E S \in SUBSET Jobs : Removed(S)
    BY <2>4 DEF Removed, Same
  <2> QED BY <2>1, <2>2, <2>3, <2>4 DEF RowsMove
<1> QED BY <1>1, QueueInvariant, PTL DEF Spec, CompletedReopenedOnlyByChain

-----------------------------------------------------------------------------
(* What becomes of a recording's rows, however many drainers there are     *)

Exists(j) == job[j].status \notin {"NONE", "DELETED"}
TranscribingPc == {"mark", "transcribe", "store", "storeRec", "finalize", "chain", "failRec"}

\* A recording has one transcription, made by the call that created it, and
\* its rows live and go with it.
RowsInv ==
  /\ \A j \in Jobs :
       /\ (job[j].status = "NONE") = (j > created)
       /\ job[j].status # "NONE" =>
            /\ rec[job[j].rec].status # "ABSENT"
            /\ (job[j].status = "DELETED") = (rec[job[j].rec].status = "DELETED")
  /\ \A j, k \in Jobs :
       /\ job[j].type = TRANSCRIPTION /\ job[k].type = TRANSCRIPTION
       /\ Exists(j) /\ Exists(k) /\ job[j].rec = job[k].rec
       => j = k
  /\ \A r \in Recordings :
       /\ api[r] = "created" => JobsOf(r) = {}
       /\ api[r] = "marking" /\ Present(r) => JobsOf(r) # {}
       /\ api[r] # "idle" => rec[r].status # "ABSENT"
       /\ rec[r].status = "ABSENT" => rec[r].text # "words"

\* A drainer works on rows that were created, and on each by its type.
DrainerInv(w) ==
  LET s == worker[w] IN
  /\ \A k \in s.batch : job[k].status # "NONE"
  /\ s.pc \notin BetweenPc => job[s.job].status # "NONE"
  /\ s.pc \in TranscribingPc => job[s.job].type = TRANSCRIPTION
  /\ s.pc \in {"analyze", "apply"} => job[s.job].type = ANALYSIS

LifeInv == RowsInv /\ \A w \in Workers : DrainerInv(w)

\* Most steps neither create nor delete anything.
SameLife(k) ==
  /\ job'[k].type = job[k].type /\ job'[k].rec = job[k].rec
  /\ (job'[k].status = "NONE") = (job[k].status = "NONE")
  /\ (job'[k].status = "DELETED") = (job[k].status = "DELETED")
RowsLive == created' = created /\ \A k \in Jobs : SameLife(k)
RecsLive ==
  \A r \in Recordings :
    /\ (rec'[r].status = "ABSENT") = (rec[r].status = "ABSENT")
    /\ (rec'[r].status = "DELETED") = (rec[r].status = "DELETED")
    /\ rec[r].status = "ABSENT" => rec'[r].text = rec[r].text
ApiLive ==
  \A r \in Recordings :
    api'[r] = api[r] \/ api'[r] = "idle"
    \/ (api'[r] = "created" /\ JobsOf(r) = {} /\ Present(r))

\* An update keeps a row's type and recording.
LEMMA UpdateLives ==
  ASSUME TypeOK, NEW j \in Jobs, job[j].status # "NONE", NEW row, UpdateJob(j, row),
         row.type = job[j].type, row.rec = job[j].rec, row.status \notin {"NONE", "DELETED"}
  PROVE  \A k \in Jobs : SameLife(k)
  <1>1. CASE job[j].status = "DELETED"
    BY <1>1 DEF UpdateJob, SameLife
  <1>2. CASE job[j].status # "DELETED"
    BY <1>2, UpdatedJob DEF SameLife
  <1> QED
    BY <1>1, <1>2

\* An update that releases a row, and may give an attempt back or set a timer.
LEMMA UpdateReleased ==
  ASSUME TypeOK, NEW j \in Jobs, job[j].status # "NONE",
         NEW s \in {"QUEUED", "COMPLETED", "FAILED"}, NEW d, NEW n,
         \/ UpdateJob(j, Unlocked(j, s))
         \/ UpdateJob(j, [Unlocked(j, s) EXCEPT !.wait = d])
         \/ UpdateJob(j, [Unlocked(j, s) EXCEPT !.attempts = n, !.wait = d])
  PROVE  \A k \in Jobs : SameLife(k)
  <1>1. job[j] \in JobRow /\ s \notin {"NONE", "DELETED"}
    BY DEF TypeOK
  <1>2. PICK row : /\ UpdateJob(j, row)
                   /\ \/ row = Unlocked(j, s)
                      \/ row = [Unlocked(j, s) EXCEPT !.wait = d]
                      \/ row = [Unlocked(j, s) EXCEPT !.attempts = n, !.wait = d]
    OBVIOUS
  <1>3. row.type = job[j].type /\ row.rec = job[j].rec /\ row.status = s
    BY <1>1, <1>2 DEF Unlocked, JobRow
  <1> QED
    BY <1>1, <1>2, <1>3, UpdateLives

\* A drainer's updates of its job rows.
LEMMA DrainerRows ==
  ASSUME TypeOK, LifeInv, NEW w \in Workers,
         \/ RecoverOne(w) \/ LockWrite(w) \/ Finalize(w) \/ Complete(w) \/ Defer(w) \/ FailWrite(w)
  PROVE  RowsLive
  <1> USE DEF At
  <1>0. DrainerInv(w) /\ worker[w].batch \subseteq Jobs
    BY WorkerColumns DEF LifeInv
  <1>1. created' = created
    BY DEF RecoverOne, LockWrite, Finalize, Complete, Defer, FailWrite
  <1>2. CASE RecoverOne(w)
    <2>1. PICK j \in Jobs : /\ j \in worker[w].batch
                           /\ UpdateJob(j, [Unlocked(j, "QUEUED") EXCEPT !.wait = 0])
      BY <1>0, <1>2 DEF RecoverOne
    <2>2. job[j].status # "NONE"
      BY <1>0, <2>1 DEF DrainerInv
    <2>3. \A k \in Jobs : SameLife(k)
      BY <2>1, <2>2, UpdateReleased
    <2> QED
      BY <1>1, <2>3 DEF RowsLive
  <1>3. CASE ~RecoverOne(w)
    <2>1. worker[w].pc \notin BetweenPc
      BY <1>3 DEF LockWrite, Finalize, Complete, Defer, FailWrite, BetweenPc
    <2>2. PICK j \in Jobs : j = MyJob(w)
      BY <2>1, MyJobType
    <2>3. job[j].status # "NONE"
      BY <1>0, <2>1, <2>2 DEF DrainerInv, MyJob
    <2>4. CASE LockWrite(w)
      <3>1. job[j] \in JobRow
        BY DEF TypeOK
      <3>2. UpdateJob(j, Locked(w, j))
        BY <2>2, <2>4 DEF LockWrite
      <3>3. /\ Locked(w, j).type = job[j].type /\ Locked(w, j).rec = job[j].rec
            /\ Locked(w, j).status = "PROCESSING"
        BY <3>1 DEF Locked, JobRow
      <3> QED
        BY <1>1, <2>3, <3>2, <3>3, UpdateLives DEF RowsLive
    <2>5. CASE Finalize(w) \/ Complete(w)
      <3>1. PICK s \in {"COMPLETED", "FAILED"} : UpdateJob(j, Unlocked(j, s))
        BY <2>2, <2>5 DEF Finalize, Complete
      <3> QED
        BY <1>1, <2>3, <3>1, UpdateReleased DEF RowsLive
    <2>6. CASE Defer(w)
      <3>1. PICK n, d : UpdateJob(j, [Unlocked(j, "QUEUED") EXCEPT !.attempts = n, !.wait = d])
        BY <2>2, <2>6 DEF Defer
      <3> QED
        BY <1>1, <2>3, <3>1, UpdateReleased DEF RowsLive
    <2>7. CASE FailWrite(w)
      <3>1. PICK s \in {"QUEUED", "FAILED"} : s = IF Exhausted(w) THEN "FAILED" ELSE "QUEUED"
        OBVIOUS
      <3>2. PICK d : UpdateJob(j, [Unlocked(j, s) EXCEPT !.wait = d])
        BY <2>2, <2>7, <3>1 DEF FailWrite
      <3> QED
        BY <1>1, <2>3, <3>1, <3>2, UpdateReleased DEF RowsLive
    <2> QED
      BY <1>3, <2>4, <2>5, <2>6, <2>7
  <1> QED
    BY <1>2, <1>3

\* A run's writes of the recording leave it as it is.
LEMMA UpdateRecLives ==
  ASSUME TypeOK, NEW r \in Recordings, rec[r].status # "ABSENT", NEW row \in RecRow,
         row.status \notin {"ABSENT", "DELETED"}, UpdateRec(r, row)
  PROVE  RecsLive
  BY DEF TypeOK, UpdateRec, RecsLive

\* The steps that write a recording, drainer or API.
LEMMA RecordingWrites ==
  ASSUME TypeOK, LifeInv, NEW w \in Workers,
         \/ MarkProcessing(w) \/ TranscribeRateLimited(w) \/ TranscribeUnavailable(w)
         \/ TranscribeFailed(w) \/ StoreText(w) \/ StoreRecording(w)
         \/ ApplyAnalysis(w) \/ FailRecording(w)
  PROVE  RecsLive
  <1> USE DEF At
  <1>1. worker[w].pc \notin BetweenPc
    BY DEF MarkProcessing, TranscribeRateLimited, TranscribeUnavailable, TranscribeFailed,
           StoreText, StoreRecording, ApplyAnalysis, FailRecording, BetweenPc
  <1>2. PICK j \in Jobs : j = MyJob(w)
    BY <1>1, MyJobType
  <1>3. PICK r \in Recordings : r = MyRec(w)
    BY <1>1, MyJobType
  <1>4. rec[r].status # "ABSENT"
    <2>1. job[j].status # "NONE" /\ job[j].rec = r
      BY <1>1, <1>2, <1>3 DEF LifeInv, DrainerInv, MyJob, MyRec
    <2> QED
      BY <2>1 DEF LifeInv, RowsInv
  <1>5. rec[r] \in RecRow
    BY DEF TypeOK
  <1>6. CASE UNCHANGED rec
    BY <1>6 DEF RecsLive
  <1>7. CASE rec[r].status = "DELETED" /\ ~UNCHANGED rec
    BY <1>3, <1>7 DEF MarkProcessing, TranscribeRateLimited, TranscribeUnavailable,
       TranscribeFailed, StoreText, StoreRecording, ApplyAnalysis, FailRecording,
       UpdateRec, Present
  <1>8. CASE rec[r].status # "DELETED" /\ ~UNCHANGED rec
    <2>1. PICK row : /\ rec' = [rec EXCEPT ![r] = row]
                     /\ row.status \notin {"ABSENT", "DELETED"}
      <3>1. CASE StoreText(w)
        <4>1. PICK t : rec' = [rec EXCEPT ![r].text = t]
          BY <1>3, <1>8, <3>1 DEF StoreText
        <4>2. PICK row : row = [rec[r] EXCEPT !.text = t]
          OBVIOUS
        <4>3. row.status = rec[r].status
          BY <1>5, <4>2 DEF RecRow
        <4>4. rec' = [rec EXCEPT ![r] = row]
          BY <4>1, <4>2
        <4> QED
          BY <1>4, <1>8, <4>3, <4>4
      <3>2. CASE ApplyAnalysis(w)
        BY <1>3, <1>4, <1>5, <1>8, <3>2 DEF ApplyAnalysis, RecRow
      <3>3. CASE ~StoreText(w) /\ ~ApplyAnalysis(w)
        <4>1. PICK row : /\ rec' = [rec EXCEPT ![r] = row]
                         /\ \/ row = [rec[r] EXCEPT !.tstatus = "PROCESSING", !.status = "PROCESSING"]
                            \/ row = [rec[r] EXCEPT !.tstatus = "QUEUED"]
                            \/ row = [rec[r] EXCEPT !.tstatus = "UNAVAILABLE"]
                            \/ row = [rec[r] EXCEPT !.tstatus = "COMPLETED", !.status = "COMPLETED"]
                            \/ row = [rec[r] EXCEPT !.tstatus = "FAILED", !.status = "FAILED"]
          BY <1>3, <1>8, <3>3 DEF MarkProcessing, TranscribeRateLimited, TranscribeUnavailable,
             TranscribeFailed, StoreRecording, FailRecording, UpdateRec, FailedRec
        <4> QED
          BY <1>4, <1>5, <1>8, <4>1 DEF RecRow
      <3> QED
        BY <3>1, <3>2, <3>3
    <2>2. rec'[r].status \notin {"ABSENT", "DELETED"} /\ \A q \in Recordings : q # r => rec'[q] = rec[q]
      BY <2>1 DEF TypeOK
    <2>3. ASSUME NEW q \in Recordings
          PROVE  /\ (rec'[q].status = "ABSENT") = (rec[q].status = "ABSENT")
                 /\ (rec'[q].status = "DELETED") = (rec[q].status = "DELETED")
                 /\ rec[q].status = "ABSENT" => rec'[q].text = rec[q].text
      <3>1. CASE q = r
        BY <1>4, <1>8, <2>2, <3>1
      <3>2. CASE q # r
        BY <2>2, <3>2
      <3> QED
        BY <3>1, <3>2
    <2> QED
      BY <2>3 DEF RecsLive
  <1> QED
    BY <1>6, <1>7, <1>8

Quiet == RowsLive /\ RecsLive /\ ApiLive

\* What a step creates and deletes: nothing, unless it is one of these.
LEMMA StepLives ==
  ASSUME TypeOK, LifeInv, [Next]_vars
  PROVE  \/ Quiet
         \/ \E w \in Workers : Chain(w) /\ Present(MyRec(w))
         \/ \E r \in Recordings : EnqueueTranscription(r) /\ Present(r)
         \/ \E r \in Recordings : CreateRecording(r) \/ DeleteRecording(r)
  <1>0. ASSUME job' = job, created' = created PROVE RowsLive
    BY <1>0 DEF RowsLive, SameLife
  <1>1. ASSUME rec' = rec PROVE RecsLive
    BY <1>1 DEF RecsLive
  <1>2. ASSUME api' = api PROVE ApiLive
    BY <1>2 DEF ApiLive
  <1>3. ASSUME NEW w \in Workers, WorkerStep(w) PROVE Quiet \/ (Chain(w) /\ Present(MyRec(w)))
    <2>1. CASE \/ RecoverOne(w) \/ LockWrite(w) \/ Finalize(w) \/ Complete(w) \/ Defer(w)
               \/ FailWrite(w)
      <3>1. rec' = rec /\ api' = api
        BY <2>1 DEF RecoverOne, LockWrite, Finalize, Complete, Defer, FailWrite
      <3> QED
        BY <1>1, <1>2, <2>1, <3>1, DrainerRows DEF Quiet
    <2>2. CASE \/ MarkProcessing(w) \/ TranscribeRateLimited(w) \/ TranscribeUnavailable(w)
               \/ TranscribeFailed(w) \/ StoreText(w) \/ StoreRecording(w)
               \/ ApplyAnalysis(w) \/ FailRecording(w)
      <3>1. job' = job /\ created' = created /\ api' = api
        BY <2>2 DEF MarkProcessing, TranscribeRateLimited, TranscribeUnavailable,
           TranscribeFailed, StoreText, StoreRecording, ApplyAnalysis, FailRecording
      <3> QED
        BY <1>0, <1>2, <2>2, <3>1, RecordingWrites DEF Quiet
    <2>3. CASE \/ RecoverFind(w) \/ SelectBatch(w) \/ EndBatch(w) \/ LockRead(w)
               \/ TranscribeOk(w) \/ Analyze(w) \/ FailRead(w)
               \/ (Chain(w) /\ ~Present(MyRec(w)))
      <3>1. job' = job /\ created' = created /\ rec' = rec /\ api' = api
        BY <2>3 DEF RecoverFind, SelectBatch, EndBatch, LockRead, TranscribeOk, Analyze,
           FailRead, Chain, dbVars
      <3> QED
        BY <1>0, <1>1, <1>2, <3>1 DEF Quiet
    <2> QED
      BY <1>3, <2>1, <2>2, <2>3 DEF WorkerStep
  <1>4. ASSUME NEW w \in Workers, DbFault(w) \/ Crash(w) PROVE Quiet
    BY <1>0, <1>1, <1>2, <1>4 DEF DbFault, Crash, dbVars, Quiet
  <1>5. ASSUME NEW r \in Recordings, MarkQueued(r) PROVE Quiet
    <2>1. rec[r].status # "ABSENT" /\ rec[r] \in RecRow
      BY <1>5 DEF MarkQueued, LifeInv, RowsInv, TypeOK
    <2>2. PICK o \in BOOLEAN : UpdateRec(r, [rec[r] EXCEPT !.tstatus = "QUEUED",
                                  !.status = "PROCESSING", !.overtaken = o])
      <3>1. rec[r].overtaken \in BOOLEAN
        BY <2>1 DEF RecRow
      <3> QED
        BY <1>5, <3>1 DEF MarkQueued
    <2>3. [rec[r] EXCEPT !.tstatus = "QUEUED", !.status = "PROCESSING", !.overtaken = o] \in RecRow
      BY RecRowType DEF RecStatus, TranscriptStatus
    <2>4. [rec[r] EXCEPT !.tstatus = "QUEUED", !.status = "PROCESSING", !.overtaken = o].status
            = "PROCESSING"
      BY <2>1 DEF RecRow
    <2>5. RecsLive
      BY <2>1, <2>2, <2>3, <2>4, UpdateRecLives
    <2>6. job' = job /\ created' = created /\ ApiLive
      BY <1>5 DEF MarkQueued, ApiLive, TypeOK
    <2> QED
      BY <1>0, <2>5, <2>6 DEF Quiet
  <1>6. ASSUME NEW r \in Recordings,
               RetryUpload(r) \/ ApiCrash(r) \/ (EnqueueTranscription(r) /\ ~Present(r))
        PROVE  Quiet
    <2>1. job' = job /\ created' = created /\ rec' = rec /\ ApiLive
      BY <1>6 DEF RetryUpload, ApiCrash, EnqueueTranscription, ApiLive, dbVars, TypeOK
    <2> QED
      BY <1>0, <1>1, <2>1 DEF Quiet
  <1>7. CASE Tick
    <2>1. ASSUME NEW k \in Jobs PROVE SameLife(k)
      <3>1. PICK d, a : job'[k] = [job[k] EXCEPT !.wait = d, !.age = a]
        BY <1>7 DEF Tick
      <3>2. job[k] \in JobRow
        BY DEF TypeOK
      <3> QED
        BY <3>1, <3>2 DEF SameLife, JobRow
    <2> QED
      BY <1>1, <1>2, <1>7, <2>1 DEF Tick, RowsLive, Quiet
  <1>8. CASE (\E p \in Providers : ToggleThrottle(p)) \/ ToggleWindow \/ UNCHANGED vars
    BY <1>0, <1>1, <1>2, <1>8 DEF ToggleThrottle, ToggleWindow, vars, dbVars, Quiet
  <1> QED
    BY <1>3, <1>4, <1>5, <1>6, <1>7, <1>8 DEF Next, ApiStep

\* Rows, once created, stay rows of their type.
RowsPersist ==
  \A k \in Jobs : job[k].status # "NONE" =>
    job'[k].status # "NONE" /\ job'[k].type = job[k].type /\ job'[k].rec = job[k].rec

\* What a new row is, and that it was none before.
LEMMA CreatedRow ==
  ASSUME TypeOK, RowsInv, NEW type, NEW r, CreateJob(type, r)
  PROVE  \E n \in Jobs :
           /\ n = created + 1 /\ job[n].status = "NONE"
           /\ job'[n].type = type /\ job'[n].rec = r /\ job'[n].status = "QUEUED"
           /\ \A k \in Jobs : k # n => job'[k] = job[k]
  <1>0. created + 1 \in Jobs /\ job' = [job EXCEPT ![created + 1] = NewJob(type, r)]
    BY BoundsAssumption DEF CreateJob, Jobs, TypeOK
  <1>1. PICK n \in Jobs : n = created + 1 /\ job' = [job EXCEPT ![n] = NewJob(type, r)]
    BY <1>0
  <1>2. job'[n] = NewJob(type, r) /\ \A k \in Jobs : k # n => job'[k] = job[k]
    BY <1>1 DEF TypeOK
  <1>3. job[n].status = "NONE"
    <2>1. created \in Nat
      BY BoundsAssumption DEF TypeOK
    <2>2. n > created
      BY <1>1, <2>1
    <2> QED
      BY <2>2 DEF RowsInv
  <1> QED
    BY <1>1, <1>2, <1>3 DEF NewJob

\* What a deletion leaves of the rows.
LEMMA DeletedRows ==
  ASSUME TypeOK, NEW r \in Recordings, DeleteRecording(r)
  PROVE  /\ \A k \in Jobs : k \in JobsOf(r) =>
              /\ job'[k].type = job[k].type /\ job'[k].rec = r /\ job'[k].status = "DELETED"
              /\ job[k].rec = r /\ job[k].status \notin {"NONE", "DELETED"}
         /\ \A k \in Jobs : k \notin JobsOf(r) => job'[k] = job[k]
         /\ rec'[r].status = "DELETED"
         /\ \A q \in Recordings : q # r => rec'[q] = rec[q]
  <1>1. ASSUME NEW k \in Jobs, k \in JobsOf(r)
        PROVE  /\ job'[k].type = job[k].type /\ job'[k].rec = r /\ job'[k].status = "DELETED"
               /\ job[k].rec = r /\ job[k].status \notin {"NONE", "DELETED"}
    <2>1. job'[k] = [Unlocked(k, "DELETED") EXCEPT !.wait = 0]
      BY <1>1 DEF DeleteRecording
    <2>2. job[k] \in JobRow /\ job[k].rec = r
      BY <1>1 DEF TypeOK, JobsOf
    <2> QED
      BY <1>1, <2>1, <2>2 DEF Unlocked, JobRow, JobsOf
  <1>2. \A k \in Jobs : k \notin JobsOf(r) => job'[k] = job[k]
    BY DEF DeleteRecording
  <1>3. rec'[r].status = "DELETED" /\ \A q \in Recordings : q # r => rec'[q] = rec[q]
    <2>1. rec' = [rec EXCEPT ![r] = [rec[r] EXCEPT !.status = "DELETED", !.text = "absent",
                                                   !.analysed = FALSE]]
      BY DEF DeleteRecording, TypeOK
    <2>2. PICK row : /\ rec' = [rec EXCEPT ![r] = row]
                     /\ row = [rec[r] EXCEPT !.status = "DELETED", !.text = "absent",
                                             !.analysed = FALSE]
      BY <2>1
    <2>3. row.status = "DELETED"
      BY <2>2 DEF TypeOK, RecRow
    <2> QED
      BY <2>2, <2>3 DEF TypeOK
  <1> QED
    BY <1>1, <1>2, <1>3

LEMMA StepPersists ==
  ASSUME TypeOK, LifeInv, [Next]_vars
  PROVE  RowsPersist
  <1>1. CASE Quiet
    BY <1>1 DEF Quiet, RowsLive, SameLife, RowsPersist
  <1>2. CASE \E w \in Workers : Chain(w) /\ Present(MyRec(w))
    BY <1>2, CreatedRow DEF Chain, LifeInv, RowsPersist
  <1>3. CASE \E r \in Recordings : EnqueueTranscription(r) /\ Present(r)
    BY <1>3, CreatedRow DEF EnqueueTranscription, LifeInv, RowsPersist
  <1>4. ASSUME NEW r \in Recordings, CreateRecording(r) \/ DeleteRecording(r)
        PROVE  RowsPersist
    <2>1. CASE CreateRecording(r)
      BY <2>1 DEF CreateRecording, RowsPersist
    <2>2. CASE DeleteRecording(r)
      BY <2>2, DeletedRows DEF RowsPersist
    <2> QED
      BY <1>4, <2>1, <2>2
  <1> QED
    BY <1>1, <1>2, <1>3, <1>4, StepLives

-----------------------------------------------------------------------------
\* Steps that create or delete nothing.
LEMMA RowsQuiet ==
  ASSUME TypeOK, RowsInv, Quiet
  PROVE  RowsInv'
  <1> USE DEF Quiet, RowsLive, RecsLive, SameLife
  <1>1. \A j \in Jobs : job[j].rec \in Recordings
    BY DEF TypeOK, JobRow
  <1>2. \A r \in Recordings : JobsOf(r)' = JobsOf(r) /\ Present(r)' = Present(r)
    BY DEF JobsOf, Present
  <1>3. ASSUME NEW j \in Jobs
        PROVE  /\ (job'[j].status = "NONE") = (j > created')
               /\ job'[j].status # "NONE" =>
                    /\ rec'[job'[j].rec].status # "ABSENT"
                    /\ (job'[j].status = "DELETED") = (rec'[job'[j].rec].status = "DELETED")
    BY <1>1 DEF RowsInv
  <1>4. ASSUME NEW j \in Jobs, NEW k \in Jobs
        PROVE  /\ job'[j].type = TRANSCRIPTION /\ job'[k].type = TRANSCRIPTION
               /\ Exists(j)' /\ Exists(k)' /\ job'[j].rec = job'[k].rec
               => j = k
    BY DEF RowsInv, Exists
  <1>5. ASSUME NEW r \in Recordings
        PROVE  /\ api'[r] = "created" => JobsOf(r)' = {}
               /\ api'[r] = "marking" /\ Present(r)' => JobsOf(r)' # {}
               /\ api'[r] # "idle" => rec'[r].status # "ABSENT"
               /\ rec'[r].status = "ABSENT" => rec'[r].text # "words"
    <2>1. \/ api'[r] = api[r] \/ api'[r] = "idle"
          \/ api'[r] = "created" /\ JobsOf(r) = {} /\ Present(r)
      BY DEF ApiLive
    <2> QED
      BY <1>2, <2>1 DEF RowsInv, Present
  <1> QED
    BY <1>3, <1>4, <1>5 DEF RowsInv

\* An enqueue: the first row of the recording, or an analysis that joins them.
LEMMA RowsCreated ==
  ASSUME TypeOK, RowsInv, NEW type, NEW r \in Recordings, CreateJob(type, r), Present(r),
         type = TRANSCRIPTION => JobsOf(r) = {}, rec' = rec, api'[r] # "created",
         \A q \in Recordings : q # r => api'[q] = api[q]
  PROVE  RowsInv'
  <1>1. PICK n \in Jobs :
           /\ n = created + 1 /\ job[n].status = "NONE"
           /\ job'[n].type = type /\ job'[n].rec = r /\ job'[n].status = "QUEUED"
           /\ \A k \in Jobs : k # n => job'[k] = job[k]
    BY CreatedRow
  <1>2. ASSUME NEW j \in Jobs
        PROVE  /\ (job'[j].status = "NONE") = (j > created')
               /\ job'[j].status # "NONE" =>
                    /\ rec'[job'[j].rec].status # "ABSENT"
                    /\ (job'[j].status = "DELETED") = (rec'[job'[j].rec].status = "DELETED")
    <2>1. created \in Nat /\ created' = created + 1 /\ j \in Nat
      BY BoundsAssumption DEF TypeOK, CreateJob, Jobs
    <2>2. CASE j = n
      BY <1>1, <2>1, <2>2 DEF Present
    <2>3. CASE j # n
      <3>1. job'[j] = job[j]
        BY <1>1, <2>3
      <3>2. (j > created') = (j > created)
        BY <1>1, <2>1, <2>3
      <3>3. (job[j].status = "NONE") = (j > created)
        BY DEF RowsInv
      <3> QED
        BY <3>1, <3>2, <3>3 DEF RowsInv
    <2> QED
      BY <2>2, <2>3
  <1>3. ASSUME NEW j \in Jobs, NEW k \in Jobs,
               job'[j].type = TRANSCRIPTION, job'[k].type = TRANSCRIPTION,
               Exists(j)', Exists(k)', job'[j].rec = job'[k].rec
        PROVE  j = k
    <2>1. ASSUME NEW m \in Jobs, m # n, Exists(m)', job'[m].rec = r PROVE type # TRANSCRIPTION
      BY <1>1, <2>1 DEF Exists, JobsOf
    <2>2. CASE j = n \/ k = n
      BY <1>1, <1>3, <2>1, <2>2
    <2>3. CASE j # n /\ k # n
      BY <1>1, <1>3, <2>3 DEF RowsInv, Exists
    <2> QED
      BY <2>2, <2>3
  <1>4. ASSUME NEW q \in Recordings
        PROVE  /\ api'[q] = "created" => JobsOf(q)' = {}
               /\ api'[q] = "marking" /\ Present(q)' => JobsOf(q)' # {}
               /\ api'[q] # "idle" => rec'[q].status # "ABSENT"
               /\ rec'[q].status = "ABSENT" => rec'[q].text # "words"
    <2>1. CASE q = r
      <3>1. n \in JobsOf(r)'
        BY <1>1 DEF JobsOf
      <3> QED
        BY <2>1, <3>1 DEF RowsInv, Present
    <2>2. CASE q # r
      <3>1. JobsOf(q)' = JobsOf(q) /\ Present(q)' = Present(q)
        BY <1>1, <2>2 DEF JobsOf, Present
      <3> QED
        BY <2>2, <3>1 DEF RowsInv
    <2> QED
      BY <2>1, <2>2
  <1> QED
    BY <1>2, <1>3, <1>4 DEF RowsInv

\* A new recording has no rows, and a deletion takes them all.
LEMMA RowsOfRecording ==
  ASSUME TypeOK, RowsInv, NEW r \in Recordings, CreateRecording(r) \/ DeleteRecording(r)
  PROVE  RowsInv'
  <1>0. \A j \in Jobs : job[j].rec \in Recordings
    BY DEF TypeOK, JobRow
  <1>1. CASE CreateRecording(r)
    <2>1. /\ rec[r].status = "ABSENT" /\ rec'[r].status = "UPLOADED" /\ job' = job
          /\ created' = created /\ \A q \in Recordings : q # r => rec'[q] = rec[q]
          /\ \A q \in Recordings : rec'[q].text = rec[q].text
      <3>1. PICK row : rec' = [rec EXCEPT ![r] = row] /\ row = [rec[r] EXCEPT !.status = "UPLOADED"]
        BY <1>1 DEF CreateRecording
      <3>2. row.status = "UPLOADED" /\ row.text = rec[r].text
        BY <3>1 DEF TypeOK, RecRow
      <3> QED
        BY <1>1, <3>1, <3>2 DEF CreateRecording, TypeOK
    <2>2. api'[r] = "created" /\ \A q \in Recordings : q # r => api'[q] = api[q]
      BY <1>1 DEF CreateRecording, TypeOK
    <2>3. \A j \in Jobs : job[j].status # "NONE" => job[j].rec # r
      BY <2>1 DEF RowsInv
    <2>4. \A q \in Recordings : JobsOf(q)' = JobsOf(q)
      BY <2>1 DEF JobsOf
    <2>5. JobsOf(r) = {} /\ \A q \in Recordings : q # r => Present(q)' = Present(q)
      BY <2>1, <2>3 DEF JobsOf, Present
    <2>6. ASSUME NEW j \in Jobs
          PROVE  /\ (job'[j].status = "NONE") = (j > created')
                 /\ job'[j].status # "NONE" =>
                      /\ rec'[job'[j].rec].status # "ABSENT"
                      /\ (job'[j].status = "DELETED") = (rec'[job'[j].rec].status = "DELETED")
      BY <1>0, <2>1, <2>3 DEF RowsInv
    <2>7. ASSUME NEW j \in Jobs, NEW k \in Jobs
          PROVE  /\ job'[j].type = TRANSCRIPTION /\ job'[k].type = TRANSCRIPTION
                 /\ Exists(j)' /\ Exists(k)' /\ job'[j].rec = job'[k].rec
                 => j = k
      BY <2>1 DEF RowsInv, Exists
    <2>8. ASSUME NEW q \in Recordings
          PROVE  /\ api'[q] = "created" => JobsOf(q)' = {}
                 /\ api'[q] = "marking" /\ Present(q)' => JobsOf(q)' # {}
                 /\ api'[q] # "idle" => rec'[q].status # "ABSENT"
                 /\ rec'[q].status = "ABSENT" => rec'[q].text # "words"
      BY <2>1, <2>2, <2>4, <2>5 DEF RowsInv
    <2> QED
      BY <2>6, <2>7, <2>8 DEF RowsInv
  <1>2. CASE DeleteRecording(r)
    <2>1. /\ \A k \in Jobs : k \in JobsOf(r) =>
               /\ job'[k].type = job[k].type /\ job'[k].rec = r /\ job'[k].status = "DELETED"
               /\ job[k].rec = r /\ job[k].status \notin {"NONE", "DELETED"}
          /\ \A k \in Jobs : k \notin JobsOf(r) => job'[k] = job[k]
          /\ rec'[r].status = "DELETED"
          /\ \A q \in Recordings : q # r => rec'[q] = rec[q]
      BY <1>2, DeletedRows
    <2>2. created' = created /\ api' = api /\ rec[r].status \notin {"ABSENT", "DELETED"}
      BY <1>2 DEF DeleteRecording, Present
    <2>3. \A j \in Jobs : Exists(j)' => job'[j] = job[j] /\ job[j].rec # r
      BY <2>1, <2>2 DEF Exists, RowsInv, JobsOf
    <2>4. \A q \in Recordings : q # r => JobsOf(q)' = JobsOf(q) /\ Present(q)' = Present(q)
      BY <2>1 DEF JobsOf, Present
    <2>5. JobsOf(r)' = {} /\ ~Present(r)'
      BY <2>1, <2>3 DEF JobsOf, Present, Exists
    <2>6. ASSUME NEW j \in Jobs
          PROVE  /\ (job'[j].status = "NONE") = (j > created')
                 /\ job'[j].status # "NONE" =>
                      /\ rec'[job'[j].rec].status # "ABSENT"
                      /\ (job'[j].status = "DELETED") = (rec'[job'[j].rec].status = "DELETED")
      <3>1. CASE j \in JobsOf(r)
        BY <2>1, <2>2, <3>1 DEF RowsInv
      <3>2. CASE j \notin JobsOf(r) /\ job[j].status # "NONE" /\ job[j].rec = r
        BY <2>1, <2>2, <3>2 DEF RowsInv, JobsOf
      <3>3. CASE j \notin JobsOf(r) /\ (job[j].status = "NONE" \/ job[j].rec # r)
        BY <1>0, <2>1, <2>2, <3>3 DEF RowsInv
      <3> QED
        BY <3>1, <3>2, <3>3
    <2>7. ASSUME NEW j \in Jobs, NEW k \in Jobs
          PROVE  /\ job'[j].type = TRANSCRIPTION /\ job'[k].type = TRANSCRIPTION
                 /\ Exists(j)' /\ Exists(k)' /\ job'[j].rec = job'[k].rec
                 => j = k
      BY <2>3 DEF RowsInv, Exists
    <2>8. ASSUME NEW q \in Recordings
          PROVE  /\ api'[q] = "created" => JobsOf(q)' = {}
                 /\ api'[q] = "marking" /\ Present(q)' => JobsOf(q)' # {}
                 /\ api'[q] # "idle" => rec'[q].status # "ABSENT"
                 /\ rec'[q].status = "ABSENT" => rec'[q].text # "words"
      <3>1. CASE q = r
        BY <2>1, <2>5, <3>1
      <3>2. CASE q # r
        BY <2>1, <2>2, <2>4, <3>2 DEF RowsInv
      <3> QED
        BY <3>1, <3>2
    <2> QED
      BY <2>6, <2>7, <2>8 DEF RowsInv
  <1> QED
    BY <1>1, <1>2

-----------------------------------------------------------------------------
\* What a drainer knows of a row outlives the others' steps.
LEMMA DrainerStays ==
  ASSUME TypeOK, NEW w \in Workers, DrainerInv(w), RowsPersist, worker'[w] = worker[w]
  PROVE  DrainerInv(w)'
  <1>1. worker[w].batch \subseteq Jobs /\ (worker[w].pc \notin BetweenPc => worker[w].job \in Jobs)
    BY WorkerColumns
  <1>2. \A k \in worker[w].batch : job'[k].status # "NONE"
    BY <1>1 DEF DrainerInv, RowsPersist
  <1>3. worker[w].pc \in TranscribingPc \cup {"analyze", "apply"} => worker[w].pc \notin BetweenPc
    BY DEF TranscribingPc, BetweenPc
  <1> QED
    BY <1>1, <1>2, <1>3 DEF DrainerInv, RowsPersist

\* A drainer's own step keeps it, if it stays with its job or leaves it.
LEMMA DrainerMoves ==
  ASSUME TypeOK, NEW w \in Workers, DrainerInv(w), RowsPersist,
         worker'[w].batch \subseteq worker[w].batch,
         \/ worker'[w].pc \in BetweenPc
         \/ /\ worker[w].pc \notin BetweenPc /\ worker'[w].job = worker[w].job
            /\ worker'[w].pc \in TranscribingPc => job[worker[w].job].type = TRANSCRIPTION
            /\ worker'[w].pc \in {"analyze", "apply"} => job[worker[w].job].type = ANALYSIS
  PROVE  DrainerInv(w)'
  <1>1. worker[w].batch \subseteq Jobs /\ (worker[w].pc \notin BetweenPc => worker[w].job \in Jobs)
    BY WorkerColumns
  <1>2. \A k \in worker'[w].batch : job'[k].status # "NONE"
    BY <1>1 DEF DrainerInv, RowsPersist
  <1>3. CASE worker'[w].pc \in BetweenPc
    BY <1>2, <1>3 DEF DrainerInv, TranscribingPc, BetweenPc
  <1>4. CASE worker'[w].pc \notin BetweenPc
    BY <1>1, <1>2, <1>4 DEF DrainerInv, RowsPersist
  <1> QED
    BY <1>3, <1>4

\* The steps that jump, go on with the batch or give the iteration up.
LEMMA DrainerJumps ==
  ASSUME TypeOK, NEW w \in Workers, DrainerInv(w), RowsPersist,
         \/ EndBatch(w) \/ LockWrite(w) \/ MarkProcessing(w) \/ TranscribeUnavailable(w)
         \/ TranscribeFailed(w) \/ StoreText(w) \/ StoreRecording(w) \/ Finalize(w)
         \/ Complete(w) \/ Chain(w) \/ ApplyAnalysis(w) \/ Defer(w) \/ FailWrite(w)
         \/ FailRecording(w)
  PROVE  DrainerInv(w)'
  <1> USE DEF At
  <1>1. CASE NextInBatch(w) \/ AbandonBatch(w)
    <2>1. worker'[w].pc \in BetweenPc /\ worker'[w].batch \subseteq worker[w].batch
      BY <1>1, NextInBatchEffect, AbandonBatchEffect DEF BetweenPc
    <2> QED
      BY <2>1, DrainerMoves
  <1>2. CASE ~NextInBatch(w) /\ ~AbandonBatch(w)
    <2>0. worker[w].pc \notin BetweenPc
      BY <1>2 DEF EndBatch, LockWrite, MarkProcessing, TranscribeUnavailable,
         TranscribeFailed, StoreText, StoreRecording, Finalize, Complete, Chain, ApplyAnalysis,
         Defer, FailWrite, FailRecording, BetweenPc
    <2>1. MyJob(w) = worker[w].job /\ job[worker[w].job].type \in Providers
      BY <2>0, MyJobType, JobColumns DEF MyJob
    <2>2. worker[w].pc \in TranscribingPc => job[worker[w].job].type = TRANSCRIPTION
      BY DEF DrainerInv
    <2>3. PICK pc : /\ Goto(w, pc)
                    /\ pc \in TranscribingPc => job[worker[w].job].type = TRANSCRIPTION
                    /\ pc \in {"analyze", "apply"} => job[worker[w].job].type = ANALYSIS
      <3>1. CASE LockWrite(w)
        <4>1. Goto(w, IF job[MyJob(w)].type = TRANSCRIPTION THEN "mark" ELSE "analyze")
          BY <1>2, <3>1 DEF LockWrite
        <4> QED
          BY <2>1, <4>1 DEF Providers, TranscribingPc
      <3>2. CASE MarkProcessing(w)
        BY <2>2, <3>2 DEF MarkProcessing, TranscribingPc
      <3>3. CASE TranscribeUnavailable(w)
        BY <2>2, <3>3 DEF TranscribeUnavailable, TranscribingPc
      <3>4. CASE TranscribeFailed(w)
        BY <3>4 DEF TranscribeFailed, TranscribingPc
      <3>5. CASE StoreText(w)
        BY <2>2, <3>5 DEF StoreText, TranscribingPc
      <3>6. CASE StoreRecording(w)
        BY <3>6 DEF StoreRecording, TranscribingPc
      <3>7. CASE Complete(w)
        BY <1>2, <2>1, <3>7 DEF Complete, Chains
      <3>8. CASE Chain(w)
        BY <1>2, <3>8 DEF Chain, TranscribingPc
      <3>9. CASE ApplyAnalysis(w)
        BY <3>9 DEF ApplyAnalysis, TranscribingPc
      <3>10. CASE FailWrite(w)
        BY <1>2, <2>1, <3>10 DEF FailWrite
      <3> QED
        BY <1>2, <3>1, <3>2, <3>3, <3>4, <3>5, <3>6, <3>7, <3>8, <3>9, <3>10
           DEF EndBatch, Finalize, Defer, FailRecording
    <2>4. /\ worker'[w].pc = pc /\ worker'[w].batch = worker[w].batch
          /\ worker'[w].job = worker[w].job
      BY <2>3, GotoEffect
    <2> QED
      BY <2>0, <2>3, <2>4, DrainerMoves
  <1> QED
    BY <1>1, <1>2

\* The steps that read rows into the drainer.
LEMMA DrainerReads ==
  ASSUME TypeOK, NEW w \in Workers, DrainerInv(w), RowsPersist,
         \/ RecoverFind(w) \/ RecoverOne(w) \/ SelectBatch(w) \/ LockRead(w) \/ TranscribeOk(w)
         \/ TranscribeRateLimited(w) \/ Analyze(w) \/ FailRead(w)
  PROVE  DrainerInv(w)'
  <1> USE DEF At
  <1>0. worker[w] \in WorkerRecord /\ worker[w].batch \subseteq Jobs
    BY WorkerColumns
  <1>1. CASE RecoverFind(w)
    <2>1. worker'[w] = [worker[w] EXCEPT !.pc = "recover", !.batch = {j \in Jobs : Stale(j)}]
      BY <1>1, Became DEF RecoverFind
    <2>2. worker'[w].pc = "recover" /\ worker'[w].batch = {j \in Jobs : Stale(j)}
      BY <1>0, <2>1 DEF WorkerRecord
    <2>3. \A k \in worker'[w].batch : job'[k].status # "NONE"
      BY <2>2 DEF Stale, RowsPersist
    <2> QED
      BY <2>2, <2>3 DEF DrainerInv, TranscribingPc, BetweenPc
  <1>2. CASE RecoverOne(w)
    <2>1. PICK j : Become(w, [worker[w] EXCEPT !.batch = @ \ {j}])
      BY <1>2 DEF RecoverOne
    <2>2. worker'[w] = [worker[w] EXCEPT !.batch = @ \ {j}] /\ worker[w].pc = "recover"
      BY <1>2, <2>1, Became DEF RecoverOne
    <2>3. worker'[w].pc = "recover" /\ worker'[w].batch \subseteq worker[w].batch
      BY <1>0, <2>2 DEF WorkerRecord
    <2> QED
      BY <2>3, DrainerMoves DEF BetweenPc
  <1>3. CASE SelectBatch(w)
    <2>1. PICK S, seen :
            /\ S \in SUBSET Eligible(w)
            /\ Become(w, [worker[w] EXCEPT !.pc = "next", !.batch = S, !.seen = seen])
      BY <1>3 DEF SelectBatch
    <2>2. worker'[w] = [worker[w] EXCEPT !.pc = "next", !.batch = S, !.seen = seen]
      BY <2>1, Became
    <2>3. worker'[w].pc = "next" /\ worker'[w].batch = S
      BY <1>0, <2>2 DEF WorkerRecord
    <2>4. \A k \in worker'[w].batch : job'[k].status # "NONE"
      BY <2>1, <2>3 DEF Eligible, RowsPersist
    <2> QED
      BY <2>3, <2>4 DEF DrainerInv, TranscribingPc, BetweenPc
  <1>4. CASE LockRead(w)
    <2>1. PICK j \in Jobs :
            IF job[j].status = "QUEUED"
            THEN Become(w, [worker[w] EXCEPT !.pc = "lock", !.batch = @ \ {j},
                            !.job = j, !.read = job[j].attempts])
            ELSE Become(w, [worker[w] EXCEPT !.batch = @ \ {j}])
      BY <1>4 DEF LockRead
    <2>2. CASE job[j].status = "QUEUED"
      <3>1. worker'[w] = [worker[w] EXCEPT !.pc = "lock", !.batch = @ \ {j},
                               !.job = j, !.read = job[j].attempts]
        BY <2>1, <2>2, Became
      <3>2. /\ worker'[w].pc = "lock" /\ worker'[w].batch = worker[w].batch \ {j}
            /\ worker'[w].job = j
        BY <1>0, <3>1 DEF WorkerRecord
      <3>3. \A k \in worker'[w].batch : job'[k].status # "NONE"
        BY <1>0, <3>2 DEF DrainerInv, RowsPersist
      <3>4. job'[j].status # "NONE"
        BY <2>2 DEF RowsPersist
      <3> QED
        BY <3>2, <3>3, <3>4 DEF DrainerInv, TranscribingPc, BetweenPc
    <2>3. CASE job[j].status # "QUEUED"
      <3>1. worker'[w] = [worker[w] EXCEPT !.batch = @ \ {j}] /\ worker[w].pc = "next"
        BY <1>4, <2>1, <2>3, Became DEF LockRead
      <3>2. worker'[w].pc = "next" /\ worker'[w].batch \subseteq worker[w].batch
        BY <1>0, <3>1 DEF WorkerRecord
      <3> QED
        BY <3>2, DrainerMoves DEF BetweenPc
    <2> QED
      BY <2>2, <2>3
  <1>5. CASE TranscribeOk(w) \/ TranscribeRateLimited(w)
    <2>1. PICK s : /\ Become(w, s)
                   /\ \/ \E a : s = [worker[w] EXCEPT !.pc = "store", !.answer = a]
                      \/ \E h : s = [worker[w] EXCEPT !.pc = "defer", !.hint = h]
      BY <1>5 DEF TranscribeOk, TranscribeRateLimited
    <2>2. /\ worker'[w].pc \in {"store", "defer"} /\ worker'[w].batch = worker[w].batch
          /\ worker'[w].job = worker[w].job
      BY <1>0, <2>1, Became DEF WorkerRecord
    <2>3. worker[w].pc = "transcribe"
      BY <1>5 DEF TranscribeOk, TranscribeRateLimited
    <2>4. job[worker[w].job].type = TRANSCRIPTION
      BY <2>3 DEF DrainerInv, TranscribingPc
    <2> QED
      BY <2>2, <2>3, <2>4, DrainerMoves DEF BetweenPc
  <1>6. CASE Analyze(w)
    <2>1. worker[w].pc = "analyze" /\ job[worker[w].job].type = ANALYSIS
      BY <1>6 DEF Analyze, DrainerInv
    <2>2. \/ \E pc \in {"apply", "complete"} : Goto(w, pc)
          \/ \E h : Become(w, [worker[w] EXCEPT !.pc = "defer", !.hint = h])
      BY <1>6 DEF Analyze
    <2>3. CASE \E pc \in {"apply", "complete"} : Goto(w, pc)
      <3>1. PICK pc \in {"apply", "complete"} : Goto(w, pc)
        BY <2>3
      <3>2. /\ worker'[w].pc = pc /\ worker'[w].batch = worker[w].batch
            /\ worker'[w].job = worker[w].job
        BY <3>1, GotoEffect
      <3> QED
        BY <2>1, <3>2, DrainerMoves DEF BetweenPc, TranscribingPc
    <2>4. CASE \E h : Become(w, [worker[w] EXCEPT !.pc = "defer", !.hint = h])
      <3>1. PICK h : worker'[w] = [worker[w] EXCEPT !.pc = "defer", !.hint = h]
        BY <2>4, Became
      <3>2. /\ worker'[w].pc = "defer" /\ worker'[w].batch = worker[w].batch
            /\ worker'[w].job = worker[w].job
        BY <1>0, <3>1 DEF WorkerRecord
      <3> QED
        BY <2>1, <3>2, DrainerMoves DEF BetweenPc, TranscribingPc
    <2> QED
      BY <2>2, <2>3, <2>4
  <1>7. CASE FailRead(w)
    <2>1. CASE NextInBatch(w)
      <3>1. worker'[w].pc \in BetweenPc /\ worker'[w].batch = worker[w].batch
        BY <2>1, NextInBatchEffect DEF BetweenPc
      <3> QED
        BY <3>1, DrainerMoves
    <2>2. CASE ~NextInBatch(w)
      <3>1. worker[w].pc = "fail"
        BY <1>7 DEF FailRead
      <3>2. PICK n : worker'[w] = [worker[w] EXCEPT !.pc = "failWrite", !.read = n]
        BY <1>7, <2>2, Became DEF FailRead
      <3>3. /\ worker'[w].pc = "failWrite" /\ worker'[w].batch = worker[w].batch
            /\ worker'[w].job = worker[w].job
        BY <1>0, <3>2 DEF WorkerRecord
      <3> QED
        BY <3>1, <3>3, DrainerMoves DEF BetweenPc, TranscribingPc
    <2> QED
      BY <2>1, <2>2
  <1> QED
    BY <1>1, <1>2, <1>3, <1>4, <1>5, <1>6, <1>7

\* A kill or a failing database call.
LEMMA DrainerFaults ==
  ASSUME TypeOK, NEW w \in Workers, DrainerInv(w), RowsPersist, DbFault(w) \/ Crash(w)
  PROVE  DrainerInv(w)'
  <1> USE DEF At
  <1>0. worker[w] \in WorkerRecord /\ worker[w].batch \subseteq Jobs
    BY WorkerColumns
  <1>1. CASE AbandonBatch(w)
    BY <1>1, AbandonBatchEffect, DrainerMoves DEF BetweenPc
  <1>2. CASE worker[w].pc \in GuardedPc /\ Goto(w, "fail")
    <2>1. /\ worker'[w].pc = "fail" /\ worker'[w].batch = worker[w].batch
          /\ worker'[w].job = worker[w].job
      BY <1>2, GotoEffect
    <2> QED
      BY <1>2, <2>1, DrainerMoves DEF GuardedPc, BetweenPc, TranscribingPc
  <1>3. CASE \E j \in Jobs : /\ IsFirst(w, j)
               /\ Become(w, [worker[w] EXCEPT !.pc = "fail", !.job = j, !.batch = @ \ {j}])
    <2>1. PICK j \in Jobs : /\ j \in worker[w].batch
               /\ worker'[w] = [worker[w] EXCEPT !.pc = "fail", !.job = j, !.batch = @ \ {j}]
      BY <1>3, Became DEF IsFirst
    <2>2. /\ worker'[w].pc = "fail" /\ worker'[w].batch \subseteq worker[w].batch
          /\ worker'[w].job = j
      BY <1>0, <2>1 DEF WorkerRecord
    <2>3. \A k \in worker[w].batch : job'[k].status # "NONE"
      BY <1>0 DEF DrainerInv, RowsPersist
    <2> QED
      BY <2>1, <2>2, <2>3 DEF DrainerInv, TranscribingPc
  <1> QED
    BY <1>1, <1>2, <1>3 DEF DbFault, Crash

\* One drainer moves at a time.
LEMMA OneMoves ==
  ASSUME TypeOK, NEW w \in Workers, WorkerStep(w) \/ DbFault(w) \/ Crash(w),
         NEW v \in Workers, v # w
  PROVE  worker'[v] = worker[v]
  <1>1. \E s : Become(w, s)
    BY DEF WorkerStep, RecoverFind, RecoverOne, SelectBatch, EndBatch, LockRead, LockWrite,
       MarkProcessing, TranscribeOk, TranscribeRateLimited, TranscribeUnavailable,
       TranscribeFailed, StoreText, StoreRecording, Finalize, Complete, Chain, Analyze,
       ApplyAnalysis, Defer, FailRead, FailWrite, FailRecording, DbFault, Crash, Goto,
       NextInBatch, AbandonBatch
  <1> QED
    BY <1>1 DEF Become, TypeOK

\* The steps in which no drainer moves.
LEMMA OthersMove ==
  ASSUME [Next]_vars, \A w \in Workers : ~(WorkerStep(w) \/ DbFault(w) \/ Crash(w))
  PROVE  worker' = worker
  BY DEF Next, ApiStep, CreateRecording, EnqueueTranscription, MarkQueued, RetryUpload,
     ApiCrash, DeleteRecording, Tick, ToggleThrottle, ToggleWindow, vars

LEMMA LifeStep ==
  ASSUME TypeOK, LifeInv, [Next]_vars
  PROVE  LifeInv'
  <1>1. RowsInv'
    <2>0. RowsInv
      BY DEF LifeInv
    <2>1. CASE Quiet
      BY <2>0, <2>1, RowsQuiet
    <2>2. ASSUME NEW w \in Workers, Chain(w), Present(MyRec(w)) PROVE RowsInv'
      <3>1. worker[w].pc = "chain" /\ worker[w].pc \notin BetweenPc
        BY <2>2 DEF Chain, At, BetweenPc
      <3>2. PICK j \in Jobs, r \in Recordings : j = MyJob(w) /\ r = MyRec(w) /\ job[j].rec = r
        BY <3>1, MyJobType DEF MyRec
      <3>3. j \in JobsOf(r)
        BY <2>0, <2>2, <3>1, <3>2 DEF LifeInv, DrainerInv, RowsInv, JobsOf, Present, MyJob
      <3>4. api[r] # "created"
        BY <2>0, <3>3 DEF RowsInv
      <3>5. CreateJob(ANALYSIS, r) /\ api' = api /\ rec' = rec
        BY <2>2, <3>2 DEF Chain
      <3> QED
        BY <2>0, <2>2, <3>2, <3>4, <3>5, RowsCreated DEF ANALYSIS, TRANSCRIPTION
    <2>3. ASSUME NEW r \in Recordings, EnqueueTranscription(r), Present(r) PROVE RowsInv'
      <3>1. JobsOf(r) = {} /\ CreateJob(TRANSCRIPTION, r) /\ rec' = rec
        BY <2>0, <2>3 DEF EnqueueTranscription, RowsInv
      <3>2. api'[r] # "created" /\ \A q \in Recordings : q # r => api'[q] = api[q]
        BY <2>3 DEF EnqueueTranscription, TypeOK
      <3> QED
        BY <2>0, <2>3, <3>1, <3>2, RowsCreated
    <2>4. ASSUME NEW r \in Recordings, CreateRecording(r) \/ DeleteRecording(r) PROVE RowsInv'
      BY <2>0, <2>4, RowsOfRecording
    <2> QED
      BY <2>1, <2>2, <2>3, <2>4, StepLives
  <1>2. ASSUME NEW w \in Workers PROVE DrainerInv(w)'
    <2>1. DrainerInv(w) /\ RowsPersist
      BY StepPersists DEF LifeInv
    <2>2. CASE WorkerStep(w) \/ DbFault(w) \/ Crash(w)
      BY <2>1, <2>2, DrainerJumps, DrainerReads, DrainerFaults DEF WorkerStep
    <2>3. CASE ~(WorkerStep(w) \/ DbFault(w) \/ Crash(w))
      <3>1. worker'[w] = worker[w]
        BY <2>3, OneMoves, OthersMove
      <3> QED
        BY <2>1, <3>1, DrainerStays
    <2> QED
      BY <2>2, <2>3
  <1> QED
    BY <1>1, <1>2 DEF LifeInv

LEMMA LifeInit == Init => LifeInv
  <1> SUFFICES ASSUME Init PROVE LifeInv
    OBVIOUS
  <1>1. ASSUME NEW j \in Jobs PROVE job[j].status = "NONE" /\ j > created
    BY JobsAreNaturals DEF Init
  <1>2. ASSUME NEW r \in Recordings PROVE api[r] = "idle" /\ rec[r].text = "absent"
    BY DEF Init
  <1>3. RowsInv
    BY <1>1, <1>2 DEF RowsInv, Exists
  <1>4. ASSUME NEW w \in Workers PROVE DrainerInv(w)
    BY DEF Init, DrainerInv, IdleWorker, IdlePc, BetweenPc, TranscribingPc
  <1> QED
    BY <1>3, <1>4 DEF LifeInv

\* Every recording has one transcription, whose rows live and go with it, and
\* every drainer works on rows that exist, each in the run of its type.
LEMMA LifeInvariant == Spec => [](TypeOK /\ LifeInv)
  BY TypeInit, TypeCorrect, LifeInit, LifeStep, PTL DEF Spec

-----------------------------------------------------------------------------
(* The chaining of the analysis, however many drainers there are           *)

Undisturbed == crashes = 0 /\ faults = 0
Analysed(r) == \E k \in JobsOf(r) : job[k].type = ANALYSIS
\* A drainer stored the words of r and has not left the chaining step yet.
Chaining(w, r) ==
  /\ worker[w].pc \in {"storeRec", "complete", "chain"} /\ worker[w].answer = "COMPLETED"
  /\ MyRec(w) = r /\ job[MyJob(w)].type = TRANSCRIPTION
ChainInv ==
  Undisturbed => \A r \in Recordings : Present(r) /\ rec[r].text = "words" =>
                   Analysed(r) \/ \E w \in Workers : Chaining(w, r)

\* A history without a kill or a fault has none in its past.
LEMMA UndisturbedBefore ==
  ASSUME TypeOK, [Next]_vars, Undisturbed'
  PROVE  /\ Undisturbed
         /\ \A w \in Workers : ~DbFault(w) /\ ~Crash(w)
         /\ \A r \in Recordings : ~ApiCrash(r)
  <1>0. crashes \in Nat /\ faults \in Nat
    BY BoundsAssumption DEF TypeOK
  <1>1. ASSUME NEW w \in Workers PROVE ~DbFault(w) /\ ~Crash(w)
    <2>1. ASSUME DbFault(w) PROVE FALSE
      <3>1. faults' = faults + 1
        BY <2>1 DEF DbFault
      <3> QED
        BY <1>0, <3>1 DEF Undisturbed
    <2>2. ASSUME Crash(w) PROVE FALSE
      <3>1. crashes' = crashes + 1
        BY <2>2 DEF Crash
      <3> QED
        BY <1>0, <3>1 DEF Undisturbed
    <2> QED
      BY <2>1, <2>2
  <1>2. ASSUME NEW r \in Recordings PROVE ~ApiCrash(r)
    BY <1>0 DEF ApiCrash, Undisturbed
  <1>3. crashes' = crashes /\ faults' = faults
    BY <1>1, <1>2 DEF Next, WorkerStep, ApiStep, RecoverFind, RecoverOne, SelectBatch, EndBatch,
       LockRead, LockWrite, MarkProcessing, TranscribeOk, TranscribeRateLimited,
       TranscribeUnavailable, TranscribeFailed, StoreText, StoreRecording, Finalize, Complete,
       Chain, Analyze, ApplyAnalysis, Defer, FailRead, FailWrite, FailRecording,
       CreateRecording, EnqueueTranscription, MarkQueued, RetryUpload, DeleteRecording, Tick,
       ToggleThrottle, ToggleWindow, vars, envVars
  <1> QED
    BY <1>1, <1>2, <1>3 DEF Undisturbed

\* A jump keeps the answer.
LEMMA GotoAnswer ==
  ASSUME TypeOK, NEW w \in Workers, NEW pc, Goto(w, pc)
  PROVE  worker'[w].answer = worker[w].answer
  <1>1. worker[w] \in WorkerRecord /\ worker'[w] = [worker[w] EXCEPT !.pc = pc]
    BY WorkerColumns, Became DEF Goto
  <1> QED
    BY <1>1 DEF WorkerRecord

\* Only a drainer writes the words of a transcript.
LEMMA WordsFrom ==
  ASSUME TypeOK, [Next]_vars, NEW r \in Recordings,
         rec'[r].text = "words", rec[r].text # "words"
  PROVE  \E w \in Workers : StoreText(w) /\ MyRec(w) = r /\ worker[w].answer = "COMPLETED"
                            /\ Present(MyRec(w))
  <1>1. ASSUME NEW w \in Workers, StoreText(w)
        PROVE  MyRec(w) = r /\ worker[w].answer = "COMPLETED" /\ Present(MyRec(w))
    <2>1. Present(MyRec(w))
      BY <1>1 DEF StoreText
    <2>2. PICK t : /\ rec' = [rec EXCEPT ![MyRec(w)].text = t]
                   /\ t = IF worker[w].answer = "COMPLETED" THEN "words" ELSE "empty"
      BY <1>1, <2>1 DEF StoreText
    <2>3. rec'[r].text = IF MyRec(w) = r THEN t ELSE rec[r].text
      BY <2>2 DEF TypeOK, RecRow
    <2> QED
      BY <2>1, <2>2, <2>3
  <1>2. ASSUME \A w \in Workers : ~StoreText(w) PROVE FALSE
    <2>1. ASSUME NEW q \in Recordings, NEW row, UpdateRec(q, row), row.text = rec[q].text
          PROVE  FALSE
      BY <2>1 DEF UpdateRec, TypeOK
    <2>2. ASSUME NEW q \in Recordings
          PROVE  /\ \A t : [rec[q] EXCEPT !.tstatus = t].text = rec[q].text
                 /\ \A s, t : [rec[q] EXCEPT !.tstatus = t, !.status = s].text = rec[q].text
                 /\ \A o, s, t : [rec[q] EXCEPT !.tstatus = t, !.status = s,
                                                !.overtaken = o].text = rec[q].text
                 /\ \A a : [rec[q] EXCEPT !.analysed = a].text = rec[q].text
                 /\ \A s : [rec[q] EXCEPT !.status = s].text = rec[q].text
      BY DEF TypeOK, RecRow
    <2>3. ASSUME NEW w \in Workers,
                 \/ MarkProcessing(w) \/ TranscribeRateLimited(w) \/ TranscribeUnavailable(w)
                 \/ TranscribeFailed(w) \/ StoreRecording(w) \/ FailRecording(w)
          PROVE  FALSE
      <3>1. worker[w].pc \notin BetweenPc
        BY <2>3 DEF At, MarkProcessing, TranscribeRateLimited, TranscribeUnavailable,
           TranscribeFailed, StoreRecording, FailRecording, BetweenPc
      <3>2. PICK q \in Recordings : q = MyRec(w)
        BY <3>1, MyJobType
      <3>3. rec' = rec \/ \E s, t : \/ UpdateRec(q, [rec[q] EXCEPT !.tstatus = t])
                                   \/ UpdateRec(q, [rec[q] EXCEPT !.tstatus = t, !.status = s])
        BY <2>3, <3>2 DEF MarkProcessing, TranscribeRateLimited, TranscribeUnavailable,
           TranscribeFailed, StoreRecording, FailRecording, FailedRec
      <3>4. CASE rec' = rec
        BY <3>4
      <3>5. CASE rec' # rec
        <4>1. PICK s, t, row : /\ UpdateRec(q, row)
                               /\ \/ row = [rec[q] EXCEPT !.tstatus = t]
                                  \/ row = [rec[q] EXCEPT !.tstatus = t, !.status = s]
          BY <3>3, <3>5
        <4>2. CASE row = [rec[q] EXCEPT !.tstatus = t]
          BY <2>1, <2>2, <4>1, <4>2
        <4>3. CASE row = [rec[q] EXCEPT !.tstatus = t, !.status = s]
          BY <2>1, <2>2, <4>1, <4>3
        <4> QED
          BY <4>1, <4>2, <4>3
      <3> QED
        BY <3>4, <3>5
    <2>4. ASSUME NEW w \in Workers, ApplyAnalysis(w) PROVE FALSE
      <3>1. PICK row : /\ rec' = rec \/ rec' = [rec EXCEPT ![MyRec(w)] = row]
                       /\ row = [rec[MyRec(w)] EXCEPT !.analysed = TRUE]
        BY <2>4 DEF ApplyAnalysis
      <3>2. MyRec(w) \in Recordings
        BY <2>4, MyJobType DEF ApplyAnalysis, At, BetweenPc
      <3>3. row.text = rec[MyRec(w)].text
        BY <2>2, <3>1, <3>2
      <3> QED
        BY <3>1, <3>3 DEF TypeOK
    <2>5. ASSUME NEW q \in Recordings, CreateRecording(q) PROVE FALSE
      <3>1. PICK row : rec' = [rec EXCEPT ![q] = row] /\ row = [rec[q] EXCEPT !.status = "UPLOADED"]
        BY <2>5 DEF CreateRecording
      <3>2. row.text = rec[q].text
        BY <2>2, <3>1
      <3> QED
        BY <3>1, <3>2 DEF TypeOK
    <2>6. ASSUME NEW q \in Recordings, MarkQueued(q) PROVE FALSE
      <3>1. PICK row : UpdateRec(q, row) /\ row.text = rec[q].text
        <4>1. PICK o : UpdateRec(q, [rec[q] EXCEPT !.tstatus = "QUEUED",
                                  !.status = "PROCESSING", !.overtaken = o])
          BY <2>6 DEF MarkQueued, TypeOK, RecRow
        <4>2. PICK row : row = [rec[q] EXCEPT !.tstatus = "QUEUED",
                                  !.status = "PROCESSING", !.overtaken = o]
          OBVIOUS
        <4>3. row.text = rec[q].text
          BY <2>2, <4>2
        <4> QED
          BY <4>1, <4>2, <4>3
      <3> QED
        BY <2>1, <3>1
    <2>7. ASSUME NEW q \in Recordings, DeleteRecording(q) PROVE FALSE
      <3>1. PICK row : /\ rec' = [rec EXCEPT ![q] = row]
                       /\ row = [rec[q] EXCEPT !.status = "DELETED", !.text = "absent",
                                             !.analysed = FALSE]
        BY <2>7 DEF DeleteRecording, TypeOK
      <3>2. row.text = "absent"
        BY <3>1 DEF TypeOK, RecRow
      <3> QED
        BY <3>1, <3>2 DEF TypeOK
    <2>8. CASE rec' = rec
      BY <2>8
    <2> QED
      BY <1>2, <2>3, <2>4, <2>5, <2>6, <2>7, <2>8
         DEF Next, WorkerStep, ApiStep, RecoverFind, RecoverOne, SelectBatch, EndBatch, LockRead,
         LockWrite, TranscribeOk, Finalize, Complete, Chain, Analyze, Defer, FailRead, FailWrite,
         EnqueueTranscription, RetryUpload, ApiCrash, Tick, ToggleThrottle, ToggleWindow, vars,
         dbVars, DbFault, Crash
  <1> QED
    BY <1>1, <1>2

\* A row of a recording that is still there is still there.
LEMMA RowsStay ==
  ASSUME TypeOK, LifeInv, [Next]_vars, NEW r \in Recordings, rec'[r].status # "DELETED"
  PROVE  /\ rec[r].status # "DELETED"
         /\ Present(r)' => Present(r) \/ CreateRecording(r)
         /\ \A k \in Jobs : k \in JobsOf(r) => k \in JobsOf(r)' /\ job'[k].type = job[k].type
         /\ Present(r) => Present(r)'
  <1> DEFINE Stays == /\ Present(r)' => Present(r) \/ CreateRecording(r)
                      /\ \A k \in Jobs : k \in JobsOf(r) => k \in JobsOf(r)' /\ job'[k].type = job[k].type
                      /\ Present(r) => Present(r)'
  <1>1. CASE Quiet
    BY <1>1 DEF Quiet, RowsLive, RecsLive, SameLife, Present, JobsOf
  <1>2. CASE \/ \E w \in Workers : Chain(w) /\ Present(MyRec(w))
             \/ \E q \in Recordings : EnqueueTranscription(q) /\ Present(q)
    <2>1. \E type, q : CreateJob(type, q)
      BY <1>2 DEF Chain, EnqueueTranscription
    <2>2. rec' = rec
      BY <1>2 DEF Chain, EnqueueTranscription
    <2>3. \A k \in Jobs : job[k].status # "NONE" => job'[k] = job[k]
      BY <2>1, CreatedRow DEF LifeInv
    <2> QED
      BY <2>2, <2>3 DEF Present, JobsOf
  <1>3. ASSUME NEW q \in Recordings, CreateRecording(q)
        PROVE  rec[r].status # "DELETED" /\ Stays
    <2>1. (q # r => rec'[r] = rec[r]) /\ rec[q].status = "ABSENT"
      BY <1>3 DEF CreateRecording, TypeOK
    <2> QED
      BY <1>3, <2>1 DEF CreateRecording, Present, JobsOf
  <1>4. ASSUME NEW q \in Recordings, DeleteRecording(q)
        PROVE  rec[r].status # "DELETED" /\ Stays
    <2>1. q # r /\ rec'[r] = rec[r]
      BY <1>4, DeletedRows
    <2>2. \A k \in Jobs : k \in JobsOf(r) => job'[k] = job[k]
      BY <1>4, <2>1, DeletedRows DEF JobsOf
    <2> QED
      BY <2>1, <2>2 DEF Present, JobsOf
  <1> QED
    BY <1>1, <1>2, <1>3, <1>4, StepLives

LEMMA AnalysisFollows ==
  ASSUME TypeOK, LifeInv, ChainInv, [Next]_vars
  PROVE  ChainInv'
  <1> SUFFICES ASSUME Undisturbed', NEW r \in Recordings, Present(r)', rec'[r].text = "words"
               PROVE  Analysed(r)' \/ \E w \in Workers : Chaining(w, r)'
    BY DEF ChainInv
  <1>0. RowsPersist /\ Undisturbed
    BY StepPersists, UndisturbedBefore
  <1>1. CASE rec[r].text # "words"
    <2>1. PICK w \in Workers : StoreText(w) /\ MyRec(w) = r /\ worker[w].answer = "COMPLETED"
                               /\ Present(MyRec(w))
      BY <1>1, WordsFrom
    <2>2. Goto(w, "storeRec") /\ job' = job /\ worker[w].pc = "store"
      BY <2>1 DEF StoreText, At
    <2>3. job[MyJob(w)].type = TRANSCRIPTION
      BY <2>2 DEF LifeInv, DrainerInv, TranscribingPc, MyJob
    <2>4. Chaining(w, r)'
      BY <2>1, <2>2, <2>3, GotoEffect, GotoAnswer DEF Chaining, MyRec, MyJob
    <2> QED
      BY <2>4
  <1>2. CASE rec[r].text = "words"
    <2>1. Present(r)
      <3>1. rec[r].status # "ABSENT" /\ rec'[r].status # "DELETED"
        BY <1>2 DEF LifeInv, RowsInv, Present
      <3> QED
        BY <3>1, RowsStay DEF CreateRecording
    <2>2. CASE Analysed(r)
      BY <2>2, RowsStay DEF Analysed, JobsOf, Present
    <2>3. ASSUME NEW w \in Workers, Chaining(w, r)
          PROVE  Analysed(r)' \/ Chaining(w, r)'
      <3>1. worker[w].pc \notin BetweenPc /\ worker[w].pc \in {"storeRec", "complete", "chain"}
        BY <2>3 DEF Chaining, BetweenPc
      <3>2. PICK j \in Jobs : /\ j = MyJob(w) /\ j = worker[w].job /\ job[j].rec = r
                              /\ job[j].type = TRANSCRIPTION
        BY <2>3, <3>1, MyJobType DEF Chaining, MyRec, MyJob
      <3>3. job'[j].rec = r /\ job'[j].type = TRANSCRIPTION
        BY <3>1, <3>2, <1>0 DEF RowsPersist, LifeInv, DrainerInv
      <3>4. ASSUME worker'[w].pc \in {"storeRec", "complete", "chain"},
                   worker'[w].job = j, worker'[w].answer = worker[w].answer
            PROVE  Chaining(w, r)'
        BY <2>3, <3>3, <3>4 DEF Chaining, MyRec, MyJob
      <3>5. ASSUME NEW pc \in {"storeRec", "complete", "chain"}, Goto(w, pc)
            PROVE  Chaining(w, r)'
        BY <3>2, <3>4, <3>5, GotoEffect, GotoAnswer
      <3>6. CASE worker'[w] = worker[w]
        BY <3>1, <3>2, <3>4, <3>6
      <3>7. CASE StoreRecording(w)
        BY <3>5, <3>7 DEF StoreRecording
      <3>8. CASE Complete(w)
        <4>1. Chains(w)
          BY <2>3 DEF Chains, Chaining
        <4> QED
          BY <3>5, <3>8, <4>1 DEF Complete
      <3>9. CASE Chain(w)
        <4>1. CreateJob(ANALYSIS, r)
          BY <2>1, <3>2, <3>9 DEF Chain, MyRec
        <4>2. PICK n \in Jobs : job'[n].type = ANALYSIS /\ job'[n].rec = r /\ job'[n].status = "QUEUED"
          BY <4>1, CreatedRow DEF LifeInv
        <4> QED
          BY <4>2 DEF Analysed, JobsOf
      <3>10. CASE WorkerStep(w) /\ ~StoreRecording(w) /\ ~Complete(w) /\ ~Chain(w)
        BY <3>1, <3>10 DEF WorkerStep, RecoverFind, RecoverOne, SelectBatch, EndBatch, LockRead,
           LockWrite, MarkProcessing, TranscribeOk, TranscribeRateLimited,
           TranscribeUnavailable, TranscribeFailed, StoreText, Finalize, Analyze,
           ApplyAnalysis, Defer, FailRead, FailWrite, FailRecording, At
      <3> QED
        BY <3>6, <3>7, <3>8, <3>9, <3>10, OneMoves, OthersMove, UndisturbedBefore
    <2> QED
      BY <1>0, <1>2, <2>1, <2>2, <2>3 DEF ChainInv
  <1> QED
    BY <1>1, <1>2

\* Without a kill or a failing database call, a transcript with words has its
\* analysis queued, or the drainer that stored it is about to (the chaining
\* step of process_next_jobs), for any number of drainers.
THEOREM EveryTranscriptAnalysed == Spec => [](Undisturbed => AnalysisChained)
  <1>1. Init => ChainInv
    BY DEF Init, ChainInv
  <1>2. TypeOK /\ LifeInv /\ ChainInv /\ [Next]_vars => ChainInv'
    BY AnalysisFollows
  <1>3. TypeOK /\ LifeInv /\ ChainInv => (Undisturbed => AnalysisChained)
    <2> SUFFICES ASSUME TypeOK, LifeInv, ChainInv, Undisturbed, NEW j \in Jobs,
                        job[j].status = "COMPLETED", job[j].type = TRANSCRIPTION,
                        rec[job[j].rec].text = "words"
                 PROVE  \/ \E k \in JobsOf(job[j].rec) : job[k].type = ANALYSIS
                        \/ \E w \in Workers : worker[w].job = j
      BY DEF AnalysisChained
    <2>1. PICK r \in Recordings : r = job[j].rec
      BY DEF TypeOK, JobRow
    <2>2. Present(r) /\ Exists(j)
      BY <2>1 DEF LifeInv, RowsInv, Present, Exists
    <2>3. ASSUME NEW w \in Workers, Chaining(w, r) PROVE worker[w].job = j
      <3>1. worker[w].pc \notin BetweenPc
        BY <2>3 DEF Chaining, BetweenPc
      <3>2. PICK k \in Jobs : /\ k = worker[w].job /\ job[k].rec = r
                              /\ job[k].type = TRANSCRIPTION
        BY <2>3, <3>1, MyJobType DEF Chaining, MyRec, MyJob
      <3>3. Exists(k)
        BY <2>2, <3>1, <3>2 DEF LifeInv, DrainerInv, RowsInv, Present, Exists
      <3> QED
        BY <2>1, <2>2, <3>2, <3>3 DEF LifeInv, RowsInv
    <2> QED
      BY <2>1, <2>2, <2>3 DEF ChainInv, Analysed
  <1> QED
    BY <1>1, <1>2, <1>3, LifeInvariant, PTL DEF Spec

-----------------------------------------------------------------------------
(* Nobody watches a recording nobody works on                              *)

Final == {"COMPLETED", "FAILED", "UNAVAILABLE"}
\* A run's outcome is recorded, or an enqueue overwrote one (see MarkQueued).
Decided(r) == rec[r].tstatus \in Final \/ rec[r].overtaken
\* Somebody is to decide.
Watched(r) == LiveTranscription(r) \/ \E w \in Workers : At(w, "failRec") /\ MyRec(w) = r
Settling(w) ==
  worker[w].pc = "finalize" \/ (worker[w].pc = "complete" /\ job[MyJob(w)].type = TRANSCRIPTION)
WatchInv ==
  Undisturbed =>
    /\ \A r \in Recordings : Present(r) /\ JobsOf(r) # {} => Decided(r) \/ Watched(r)
    /\ \A w \in Workers : Settling(w) /\ Present(MyRec(w)) => Decided(MyRec(w))
\* A recording is shown as queued or in progress only once it has its row.
ShownInv ==
  \A r \in Recordings :
    rec[r].status # "DELETED" /\ rec[r].tstatus \in {"QUEUED", "PROCESSING"} => JobsOf(r) # {}

SameShown(r) == rec'[r].tstatus = rec[r].tstatus /\ rec'[r].overtaken = rec[r].overtaken

\* Rewriting one recording shows on that one only.
LEMMA ShownUpdate ==
  ASSUME TypeOK, NEW q \in Recordings, NEW t, NEW s,
         \/ UpdateRec(q, [rec[q] EXCEPT !.tstatus = t])
         \/ UpdateRec(q, [rec[q] EXCEPT !.tstatus = t, !.status = s]),
         NEW r \in Recordings
  PROVE  SameShown(r) \/ (r = q /\ rec[r].status # "DELETED" /\ rec'[r].tstatus = t
                          /\ rec'[r].overtaken = rec[r].overtaken)
  <1>1. PICK row : /\ UpdateRec(q, row)
                   /\ \/ row = [rec[q] EXCEPT !.tstatus = t]
                      \/ row = [rec[q] EXCEPT !.tstatus = t, !.status = s]
    OBVIOUS
  <1>2. row.tstatus = t /\ row.overtaken = rec[q].overtaken
    BY <1>1 DEF TypeOK, RecRow
  <1> QED
    BY <1>1, <1>2 DEF UpdateRec, TypeOK, SameShown

\* Who writes what a recording shows.
ShownBy(w, r) ==
  /\ MyRec(w) = r /\ rec[r].status # "DELETED" /\ rec'[r].overtaken = rec[r].overtaken
  /\ \/ MarkProcessing(w) \/ TranscribeRateLimited(w)
     \/ /\ \/ TranscribeUnavailable(w) \/ TranscribeFailed(w) \/ StoreRecording(w)
           \/ FailRecording(w)
        /\ rec'[r].tstatus \in Final
ShownByApi(r) ==
  /\ MarkQueued(r) /\ rec[r].status # "DELETED"
  /\ rec'[r].overtaken = (rec[r].overtaken \/ rec[r].tstatus \in Final)

LEMMA ShownWrites ==
  ASSUME TypeOK, [Next]_vars, NEW r \in Recordings
  PROVE  SameShown(r) \/ (\E w \in Workers : ShownBy(w, r)) \/ ShownByApi(r)
  <1>1. ASSUME NEW w \in Workers,
               \/ MarkProcessing(w) \/ TranscribeRateLimited(w) \/ TranscribeUnavailable(w)
               \/ TranscribeFailed(w) \/ StoreRecording(w) \/ FailRecording(w)
        PROVE  SameShown(r) \/ ShownBy(w, r)
    <2>1. worker[w].pc \notin BetweenPc
      BY <1>1 DEF At, MarkProcessing, TranscribeRateLimited, TranscribeUnavailable,
         TranscribeFailed, StoreRecording, FailRecording, BetweenPc
    <2>2. PICK q \in Recordings : q = MyRec(w)
      BY <2>1, MyJobType
    <2>3. CASE rec' = rec
      BY <2>3 DEF SameShown
    <2>4. CASE rec' # rec
      <3>1. PICK s, t : /\ \/ UpdateRec(q, [rec[q] EXCEPT !.tstatus = t])
                           \/ UpdateRec(q, [rec[q] EXCEPT !.tstatus = t, !.status = s])
                        /\ MarkProcessing(w) \/ TranscribeRateLimited(w) \/ t \in Final
        BY <1>1, <2>2, <2>4 DEF MarkProcessing, TranscribeRateLimited, TranscribeUnavailable,
           TranscribeFailed, StoreRecording, FailRecording, FailedRec, Final
      <3>2. SameShown(r) \/ (r = q /\ rec[r].status # "DELETED" /\ rec'[r].tstatus = t
                             /\ rec'[r].overtaken = rec[r].overtaken)
        BY <3>1, ShownUpdate
      <3> QED
        BY <1>1, <2>2, <3>1, <3>2 DEF ShownBy
    <2> QED
      BY <2>3, <2>4
  <1>2. ASSUME NEW q \in Recordings, NEW row, rec' = [rec EXCEPT ![q] = row],
               row.tstatus = rec[q].tstatus, row.overtaken = rec[q].overtaken
        PROVE  SameShown(r)
    BY <1>2 DEF TypeOK, SameShown
  <1>3. ASSUME NEW w \in Workers, StoreText(w) \/ ApplyAnalysis(w) PROVE SameShown(r)
    <2>1. MyRec(w) \in Recordings
      BY <1>3, MyJobType DEF StoreText, ApplyAnalysis, At, BetweenPc
    <2>2. CASE StoreText(w) /\ rec' # rec
      <3>1. PICK t, row : /\ rec' = [rec EXCEPT ![MyRec(w)] = row]
                          /\ row = [rec[MyRec(w)] EXCEPT !.text = t]
        BY <2>2 DEF StoreText
      <3>2. row.tstatus = rec[MyRec(w)].tstatus /\ row.overtaken = rec[MyRec(w)].overtaken
        BY <2>1, <3>1 DEF TypeOK, RecRow
      <3> QED
        BY <1>2, <2>1, <3>1, <3>2
    <2>3. CASE ApplyAnalysis(w) /\ rec' # rec
      <3>1. PICK row : /\ rec' = [rec EXCEPT ![MyRec(w)] = row]
                       /\ row = [rec[MyRec(w)] EXCEPT !.analysed = TRUE]
        BY <2>3 DEF ApplyAnalysis
      <3>2. row.tstatus = rec[MyRec(w)].tstatus /\ row.overtaken = rec[MyRec(w)].overtaken
        BY <2>1, <3>1 DEF TypeOK, RecRow
      <3> QED
        BY <1>2, <2>1, <3>1, <3>2
    <2>4. CASE rec' = rec
      BY <2>4 DEF SameShown
    <2> QED
      BY <1>3, <2>2, <2>3, <2>4
  <1>4. ASSUME NEW q \in Recordings, CreateRecording(q) \/ DeleteRecording(q) PROVE SameShown(r)
    <2>1. PICK row : /\ rec' = [rec EXCEPT ![q] = row]
                     /\ \/ row = [rec[q] EXCEPT !.status = "UPLOADED"]
                        \/ row = [rec[q] EXCEPT !.status = "DELETED", !.text = "absent",
                                                !.analysed = FALSE]
      BY <1>4 DEF CreateRecording, DeleteRecording, TypeOK
    <2>2. row.tstatus = rec[q].tstatus /\ row.overtaken = rec[q].overtaken
      BY <2>1 DEF TypeOK, RecRow
    <2> QED
      BY <1>2, <2>1, <2>2
  <1>5. ASSUME NEW q \in Recordings, MarkQueued(q) PROVE SameShown(r) \/ ShownByApi(r)
    <2>1. PICK row : /\ UpdateRec(q, row)
                     /\ row = [rec[q] EXCEPT !.tstatus = "QUEUED", !.status = "PROCESSING",
                                 !.overtaken = rec[q].overtaken \/ rec[q].tstatus \in Final]
      BY <1>5 DEF MarkQueued, TypeOK, RecRow, Final
    <2>2. row.overtaken = (rec[q].overtaken \/ rec[q].tstatus \in Final)
      BY <2>1 DEF TypeOK, RecRow
    <2> QED
      BY <1>5, <2>1, <2>2 DEF UpdateRec, TypeOK, SameShown, ShownByApi
  <1>6. CASE rec' = rec
    BY <1>6 DEF SameShown
  <1> QED
    BY <1>1, <1>3, <1>4, <1>5, <1>6 DEF Next, WorkerStep, ApiStep, RecoverFind, RecoverOne,
       SelectBatch, EndBatch, LockRead, LockWrite, TranscribeOk, Finalize, Complete, Chain,
       Analyze, Defer, FailRead, FailWrite, EnqueueTranscription, RetryUpload, ApiCrash, Tick,
       ToggleThrottle, ToggleWindow, vars, dbVars, DbFault, Crash

\* A recording shows progress only once it has its row.
LEMMA ShownStep ==
  ASSUME TypeOK, LifeInv, ShownInv, [Next]_vars
  PROVE  ShownInv'
  <1> SUFFICES ASSUME NEW r \in Recordings, rec'[r].status # "DELETED",
                      rec'[r].tstatus \in {"QUEUED", "PROCESSING"}
               PROVE  JobsOf(r)' # {}
    BY DEF ShownInv
  <1>0. rec[r].status # "DELETED" /\ JobsOf(r) \subseteq JobsOf(r)'
    BY RowsStay DEF JobsOf
  <1>1. CASE SameShown(r)
    BY <1>0, <1>1 DEF SameShown, ShownInv
  <1>2. ASSUME NEW w \in Workers, ShownBy(w, r) PROVE JobsOf(r) # {}
    <2>1. worker[w].pc \notin BetweenPc
      BY <1>2 DEF ShownBy, At, MarkProcessing, TranscribeRateLimited, TranscribeUnavailable,
         TranscribeFailed, StoreRecording, FailRecording, BetweenPc
    <2>2. PICK j \in Jobs : j = worker[w].job /\ job[j].rec = r
      BY <1>2, <2>1, MyJobType DEF ShownBy, MyRec, MyJob
    <2>3. j \in JobsOf(r)
      BY <1>2, <2>1, <2>2 DEF LifeInv, DrainerInv, RowsInv, ShownBy, JobsOf
    <2> QED
      BY <2>3
  <1>3. CASE ShownByApi(r)
    BY <1>0, <1>3 DEF ShownByApi, MarkQueued, LifeInv, RowsInv, Present
  <1> QED
    BY <1>0, <1>1, <1>2, <1>3, ShownWrites

\* A live row stops being live only when its drainer settles it.
LEMMA LiveStep ==
  ASSUME TypeOK, LifeInv, [Next]_vars, NEW k \in Jobs, Live(k)
  PROVE  \/ Live(k)' \/ job'[k].status = "DELETED"
         \/ \E w \in Workers :
              /\ MyJob(w) = k /\ worker[w].pc \notin BetweenPc
              /\ Finalize(w) \/ Complete(w) \/ (FailWrite(w) /\ Exhausted(w))
  <1> USE DEF At
  <1>0. job[k].status \notin {"NONE", "DELETED"}
    BY DEF Live
  <1>1. ASSUME NEW j \in Jobs, NEW row, UpdateJob(j, row), row.status \in {"QUEUED", "PROCESSING"}
        PROVE  Live(k)'
    BY <1>1, UpdatedJob DEF Live
  <1>2. ASSUME NEW j \in Jobs, NEW row, UpdateJob(j, row), j # k PROVE Live(k)'
    BY <1>2, UpdatedJob DEF Live
  <1>3. ASSUME NEW w \in Workers, RecoverOne(w) PROVE Live(k)'
    <2>1. worker[w].batch \subseteq Jobs
      BY WorkerColumns
    <2>2. PICK j \in Jobs : UpdateJob(j, [Unlocked(j, "QUEUED") EXCEPT !.wait = 0])
      BY <1>3, <2>1 DEF RecoverOne
    <2>3. [Unlocked(j, "QUEUED") EXCEPT !.wait = 0].status = "QUEUED"
      BY DEF TypeOK, JobRow, Unlocked
    <2> QED
      BY <1>1, <2>2, <2>3
  <1>4. ASSUME NEW w \in Workers,
               LockWrite(w) \/ Defer(w) \/ Finalize(w) \/ Complete(w) \/ FailWrite(w)
        PROVE  \/ Live(k)'
               \/ /\ MyJob(w) = k /\ worker[w].pc \notin BetweenPc
                  /\ Finalize(w) \/ Complete(w) \/ (FailWrite(w) /\ Exhausted(w))
    <2>1. worker[w].pc \notin BetweenPc
      BY <1>4 DEF LockWrite, Defer, Finalize, Complete, FailWrite, BetweenPc
    <2>2. PICK j \in Jobs : j = MyJob(w)
      BY <2>1, MyJobType
    <2>3. job[j] \in JobRow
      BY DEF TypeOK
    <2>4. CASE LockWrite(w)
      <3>1. UpdateJob(j, Locked(w, j)) /\ Locked(w, j).status = "PROCESSING"
        BY <2>2, <2>3, <2>4 DEF LockWrite, Locked, JobRow
      <3> QED
        BY <1>1, <3>1
    <2>5. CASE Defer(w)
      <3>1. PICK n, d : UpdateJob(j, [Unlocked(j, "QUEUED") EXCEPT !.attempts = n, !.wait = d])
        BY <2>2, <2>5 DEF Defer
      <3>2. PICK row : row = [Unlocked(j, "QUEUED") EXCEPT !.attempts = n, !.wait = d]
        OBVIOUS
      <3>3. row.status = "QUEUED"
        BY <2>3, <3>2 DEF Unlocked, JobRow
      <3> QED
        BY <1>1, <3>1, <3>2, <3>3
    <2>6. CASE Finalize(w) \/ Complete(w)
      <3>1. \E s : UpdateJob(j, Unlocked(j, s))
        BY <2>2, <2>6 DEF Finalize, Complete
      <3> QED
        BY <1>2, <2>1, <2>2, <2>6, <3>1
    <2>7. CASE FailWrite(w)
      <3>1. PICK s \in {"QUEUED", "FAILED"} : s = IF Exhausted(w) THEN "FAILED" ELSE "QUEUED"
        OBVIOUS
      <3>2. PICK d : UpdateJob(j, [Unlocked(j, s) EXCEPT !.wait = d])
        BY <2>2, <2>7, <3>1 DEF FailWrite
      <3>3. PICK row : row = [Unlocked(j, s) EXCEPT !.wait = d]
        OBVIOUS
      <3>4. row.status = s
        BY <2>3, <3>3 DEF Unlocked, JobRow
      <3>5. CASE j # k \/ ~Exhausted(w)
        BY <1>1, <1>2, <3>1, <3>2, <3>3, <3>4, <3>5
      <3>6. CASE j = k /\ Exhausted(w)
        BY <2>1, <2>2, <2>7, <3>6
      <3> QED
        BY <3>5, <3>6
    <2> QED
      BY <1>4, <2>4, <2>5, <2>6, <2>7
  <1>5. ASSUME NEW type, NEW r, CreateJob(type, r) PROVE Live(k)'
    BY <1>0, <1>5, CreatedRow DEF LifeInv, Live
  <1>6. ASSUME NEW r \in Recordings, DeleteRecording(r) PROVE Live(k)' \/ job'[k].status = "DELETED"
    BY <1>6, DeletedRows DEF Live
  <1>7. CASE Tick
    <2>1. PICK d, a : job'[k] = [job[k] EXCEPT !.wait = d, !.age = a]
      BY <1>7 DEF Tick
    <2> QED
      BY <2>1 DEF Live, TypeOK, JobRow
  <1>8. CASE job' = job
    BY <1>8 DEF Live
  <1> QED
    BY <1>3, <1>4, <1>5, <1>6, <1>7, <1>8 DEF Next, WorkerStep, ApiStep, RecoverFind, SelectBatch,
       EndBatch, LockRead, MarkProcessing, TranscribeOk, TranscribeRateLimited,
       TranscribeUnavailable, TranscribeFailed, StoreText, StoreRecording, Chain, Analyze,
       ApplyAnalysis, FailRead, FailRecording, DbFault, Crash, CreateRecording,
       EnqueueTranscription, MarkQueued, RetryUpload, ApiCrash, ToggleThrottle, ToggleWindow,
       vars, dbVars

\* A recording's first row is the transcription just enqueued.
LEMMA FirstRow ==
  ASSUME TypeOK, LifeInv, [Next]_vars, NEW r \in Recordings, JobsOf(r) = {}, JobsOf(r)' # {}
  PROVE  LiveTranscription(r)'
  <1>1. CASE Quiet
    BY <1>1 DEF Quiet, RowsLive, SameLife, JobsOf
  <1>2. ASSUME NEW w \in Workers, Chain(w), Present(MyRec(w)) PROVE FALSE
    <2>1. worker[w].pc = "chain" /\ worker[w].pc \notin BetweenPc
      BY <1>2 DEF Chain, At, BetweenPc
    <2>2. PICK j \in Jobs : j = MyJob(w) /\ j = worker[w].job
      BY <2>1, MyJobType DEF MyJob
    <2>3. j \in JobsOf(MyRec(w))
      BY <1>2, <2>1, <2>2 DEF LifeInv, DrainerInv, RowsInv, JobsOf, Present, MyRec
    <2>4. PICK n \in Jobs : job'[n].rec = MyRec(w) /\ \A k \in Jobs : k # n => job'[k] = job[k]
      BY <1>2, CreatedRow DEF Chain, LifeInv
    <2> QED
      BY <2>3, <2>4 DEF JobsOf
  <1>3. ASSUME NEW q \in Recordings, EnqueueTranscription(q), Present(q)
        PROVE  LiveTranscription(r)'
    <2>1. PICK n \in Jobs : /\ job'[n].type = TRANSCRIPTION /\ job'[n].rec = q
                            /\ job'[n].status = "QUEUED"
                            /\ \A k \in Jobs : k # n => job'[k] = job[k]
      BY <1>3, CreatedRow DEF EnqueueTranscription, LifeInv
    <2> QED
      BY <2>1 DEF LiveTranscription, JobsOf, Live
  <1>4. ASSUME NEW q \in Recordings, CreateRecording(q) \/ DeleteRecording(q) PROVE FALSE
    <2>1. CASE CreateRecording(q)
      BY <2>1 DEF CreateRecording, JobsOf
    <2>2. CASE DeleteRecording(q)
      BY <2>2, DeletedRows DEF JobsOf
    <2> QED
      BY <1>4, <2>1, <2>2
  <1> QED
    BY <1>1, <1>2, <1>3, <1>4, StepLives

\* Where a drainer comes from that is about to settle its job.
LEMMA SettlingFrom ==
  ASSUME TypeOK, NEW w \in Workers, WorkerStep(w), worker'[w].pc \in {"finalize", "complete"}
  PROVE  /\ worker[w].pc \notin BetweenPc /\ worker'[w].job = worker[w].job
         /\ \/ TranscribeUnavailable(w) \/ StoreRecording(w)
            \/ (Analyze(w) \/ ApplyAnalysis(w)) /\ worker'[w].pc = "complete"
  <1> USE DEF At
  <1>0. worker[w] \in WorkerRecord
    BY WorkerColumns
  <1>1. ~NextInBatch(w) /\ ~AbandonBatch(w)
    BY NextInBatchEffect, AbandonBatchEffect
  <1>2. ASSUME NEW pc, Goto(w, pc) PROVE pc \in {"finalize", "complete"} /\ worker'[w].job = worker[w].job
    BY <1>2, GotoEffect
  <1>4. ASSUME RecoverFind(w) \/ RecoverOne(w) \/ SelectBatch(w) \/ LockRead(w) \/ FailRead(w)
               \/ TranscribeOk(w) \/ TranscribeRateLimited(w)
        PROVE FALSE
    <2>1. CASE RecoverFind(w)
      <3>1. worker'[w] = [worker[w] EXCEPT !.pc = "recover", !.batch = {j \in Jobs : Stale(j)}]
        BY <2>1, Became DEF RecoverFind
      <3> QED
        BY <1>0, <3>1 DEF WorkerRecord
    <2>2. CASE RecoverOne(w) \/ (LockRead(w) /\ \E j : Become(w, [worker[w] EXCEPT !.batch = @ \ {j}]))
      <3>1. PICK j : worker'[w] = [worker[w] EXCEPT !.batch = @ \ {j}]
        BY <2>2, Became DEF RecoverOne
      <3>2. worker[w].pc \in {"recover", "next"}
        BY <2>2 DEF RecoverOne, LockRead
      <3> QED
        BY <1>0, <3>1, <3>2 DEF WorkerRecord
    <2>3. CASE SelectBatch(w)
      <3>1. PICK b, c : worker'[w] = [worker[w] EXCEPT !.pc = "next", !.batch = b, !.seen = c]
        BY <2>3, Became DEF SelectBatch
      <3> QED
        BY <1>0, <3>1 DEF WorkerRecord
    <2>4. CASE LockRead(w) /\ ~\E j : Become(w, [worker[w] EXCEPT !.batch = @ \ {j}])
      <3>1. PICK j : worker'[w] = [worker[w] EXCEPT !.pc = "lock", !.batch = @ \ {j},
                                 !.job = j, !.read = job[j].attempts]
        BY <2>4, Became DEF LockRead
      <3> QED
        BY <1>0, <3>1 DEF WorkerRecord
    <2>5. CASE FailRead(w)
      <3>1. PICK n : worker'[w] = [worker[w] EXCEPT !.pc = "failWrite", !.read = n]
        BY <1>1, <2>5, Became DEF FailRead
      <3> QED
        BY <1>0, <3>1 DEF WorkerRecord
    <2>6. CASE TranscribeOk(w)
      <3>1. PICK a : worker'[w] = [worker[w] EXCEPT !.pc = "store", !.answer = a]
        BY <2>6, Became DEF TranscribeOk
      <3> QED
        BY <1>0, <3>1 DEF WorkerRecord
    <2>7. CASE TranscribeRateLimited(w)
      <3>1. PICK h : worker'[w] = [worker[w] EXCEPT !.pc = "defer", !.hint = h]
        BY <2>7, Became DEF TranscribeRateLimited
      <3> QED
        BY <1>0, <3>1 DEF WorkerRecord
    <2> QED
      BY <1>4, <2>1, <2>2, <2>3, <2>4, <2>5, <2>6, <2>7
  <1>5. ASSUME Analyze(w)
        PROVE  \E pc \in {"apply", "complete"} : Goto(w, pc)
    <2>1. \/ \E pc \in {"apply", "complete"} : Goto(w, pc)
          \/ \E h : Become(w, [worker[w] EXCEPT !.pc = "defer", !.hint = h])
      BY <1>5 DEF Analyze
    <2>2. ASSUME NEW h, Become(w, [worker[w] EXCEPT !.pc = "defer", !.hint = h]) PROVE FALSE
      <3>1. worker'[w] = [worker[w] EXCEPT !.pc = "defer", !.hint = h]
        BY <2>2, Became
      <3> QED
        BY <1>0, <3>1 DEF WorkerRecord
    <2> QED
      BY <2>1, <2>2
  <1>6. ASSUME \/ EndBatch(w) \/ LockWrite(w) \/ MarkProcessing(w) \/ TranscribeFailed(w)
               \/ StoreText(w) \/ Finalize(w) \/ Complete(w) \/ Chain(w) \/ Defer(w)
               \/ FailWrite(w) \/ FailRecording(w)
        PROVE  FALSE
    <2>1. \E pc \in PcSet \ {"finalize", "complete"} : Goto(w, pc)
      BY <1>1, <1>6 DEF EndBatch, LockWrite, MarkProcessing, TranscribeFailed, StoreText, Finalize,
         Complete, Chain, Defer, FailWrite, FailRecording, PcSet
    <2> QED
      BY <1>2, <2>1
  <1>7. ASSUME TranscribeUnavailable(w) \/ StoreRecording(w) \/ Analyze(w) \/ ApplyAnalysis(w)
        PROVE  /\ worker[w].pc \notin BetweenPc /\ worker'[w].job = worker[w].job
               /\ Analyze(w) \/ ApplyAnalysis(w) => worker'[w].pc = "complete"
    <2>1. PICK pc : /\ Goto(w, pc)
                    /\ Analyze(w) \/ ApplyAnalysis(w) => pc \in {"apply", "complete", "fail"}
      BY <1>5, <1>7 DEF TranscribeUnavailable, StoreRecording, ApplyAnalysis
    <2>2. worker'[w].pc = pc /\ worker'[w].job = worker[w].job
      BY <2>1, GotoEffect
    <2>3. worker[w].pc \notin BetweenPc
      BY <1>7 DEF TranscribeUnavailable, StoreRecording, Analyze, ApplyAnalysis, BetweenPc
    <2> QED
      BY <2>1, <2>2, <2>3
  <1> QED
    BY <1>4, <1>6, <1>7 DEF WorkerStep

\* The watch is handed on, from the row to the drainer that settles it and
\* from there to what the recording shows.
LEMMA WatchStep ==
  ASSUME TypeOK, LifeInv, QueueInv, SingleDrainer, WatchInv, [Next]_vars
  PROVE  WatchInv'
  <1> USE DEF At
  <1> SUFFICES ASSUME Undisturbed'
               PROVE  /\ \A r \in Recordings : Present(r)' /\ JobsOf(r)' # {}
                           => Decided(r)' \/ Watched(r)'
                      /\ \A w \in Workers : Settling(w)' /\ Present(MyRec(w))'
                           => Decided(MyRec(w))'
    BY DEF WatchInv
  <1>0. /\ Undisturbed /\ RowsPersist
        /\ \A w \in Workers : ~DbFault(w) /\ ~Crash(w)
    BY UndisturbedBefore, StepPersists
  <1>1. ASSUME NEW w \in Workers, NEW r \in Recordings, Present(r), worker[w].pc \notin BetweenPc,
               MyRec(w) = r
        PROVE  /\ worker[w].job \in JobsOf(r) /\ MyJob(w) = worker[w].job
               /\ job'[worker[w].job].rec = r
               /\ job'[worker[w].job].type = job[worker[w].job].type
    BY <1>0, <1>1, MyJobType DEF LifeInv, DrainerInv, RowsInv, RowsPersist, Present, JobsOf,
       MyRec, MyJob
  <1>2. ASSUME NEW r \in Recordings, Present(r), Present(r)', Decided(r)
        PROVE  Decided(r)' \/ \E w \in Workers : MyRec(w) = r /\ (MarkProcessing(w) \/ TranscribeRateLimited(w))
    BY <1>2, ShownWrites DEF SameShown, ShownBy, ShownByApi, Decided
  <1>3. ASSUME NEW w \in Workers, NEW r \in Recordings, Present(r), Present(r)', MyRec(w) = r,
               \/ MarkProcessing(w) \/ TranscribeRateLimited(w)
        PROVE  LiveTranscription(r)'
    <2>1. /\ worker[w].pc \in TranscribingPc /\ worker[w].pc \in RunningPc
          /\ worker[w].pc \notin BetweenPc
      BY <1>3 DEF MarkProcessing, TranscribeRateLimited, TranscribingPc, RunningPc, BetweenPc
    <2>2. worker[w].job \in JobsOf(r) /\ job[worker[w].job].type = TRANSCRIPTION
      BY <1>1, <1>3, <2>1 DEF LifeInv, DrainerInv
    <2>3. job[worker[w].job].status = "PROCESSING"
      BY <2>1, <2>2 DEF QueueInv, WorkerInv, JobsOf
    <2>4. job' = job
      BY <1>3 DEF MarkProcessing, TranscribeRateLimited
    <2> QED
      BY <2>2, <2>3, <2>4 DEF LiveTranscription, JobsOf, Live
  <1>4. ASSUME NEW r \in Recordings, Present(r)', JobsOf(r)' # {}
        PROVE  Decided(r)' \/ Watched(r)'
    <2>0. rec'[r].status # "DELETED"
      BY <1>4 DEF Present
    <2>1. CASE JobsOf(r) = {}
      BY <1>4, <2>1, FirstRow DEF Watched
    <2>2. CASE JobsOf(r) # {}
      <3>1. Present(r)
        BY <2>2 DEF LifeInv, RowsInv, JobsOf, Present
      <3>2. CASE Decided(r)
        BY <1>2, <1>3, <1>4, <3>1, <3>2 DEF Watched
      <3>3. ASSUME NEW k \in JobsOf(r), job[k].type = TRANSCRIPTION, Live(k)
            PROVE  Decided(r)' \/ Watched(r)'
        <4>1. k \in Jobs /\ k \in JobsOf(r)' /\ job'[k].type = TRANSCRIPTION
              /\ job'[k].status # "DELETED" /\ job[k].rec = r
          BY <2>0, <3>3, RowsStay DEF JobsOf
        <4>2. CASE Live(k)'
          BY <4>1, <4>2 DEF Watched, LiveTranscription
        <4>3. ASSUME NEW w \in Workers, MyJob(w) = k, worker[w].pc \notin BetweenPc,
                     Finalize(w) \/ Complete(w)
              PROVE  Decided(r)'
          <5>1. MyRec(w) = r /\ Settling(w) /\ rec' = rec
            BY <3>3, <4>1, <4>3 DEF MyRec, Settling, Finalize, Complete
          <5>2. Decided(r)
            BY <1>0, <3>1, <5>1 DEF WatchInv
          <5> QED
            BY <5>1, <5>2 DEF Decided
        <4>4. ASSUME NEW w \in Workers, MyJob(w) = k, FailWrite(w), Exhausted(w)
              PROVE  Watched(r)'
          <5>1. Goto(w, "failRec")
            BY <3>3, <4>4 DEF FailWrite
          <5>2. worker'[w].pc = "failRec" /\ MyRec(w)' = r
            BY <4>1, <4>4, <5>1, GotoEffect DEF MyRec, MyJob, JobsOf
          <5> QED
            BY <5>2 DEF Watched
        <4> QED
          BY <3>3, <4>1, <4>2, <4>3, <4>4, LiveStep
      <3>4. ASSUME NEW w \in Workers, worker[w].pc = "failRec", MyRec(w) = r
            PROVE  Decided(r)' \/ Watched(r)'
        <4>1. CASE worker'[w] = worker[w]
          <5>1. MyRec(w)' = r
            BY <1>1, <3>1, <3>4, <4>1 DEF BetweenPc, MyRec, MyJob
          <5> QED
            BY <3>4, <4>1, <5>1 DEF Watched
        <4>2. CASE FailRecording(w)
          <5>1. UpdateRec(r, FailedRec(r))
            BY <3>4, <4>2 DEF FailRecording
          <5>2. rec'[r].tstatus = "FAILED"
            BY <3>1, <5>1 DEF UpdateRec, FailedRec, Present, TypeOK, RecRow
          <5> QED
            BY <5>2 DEF Decided, Final
        <4>3. CASE WorkerStep(w) /\ ~FailRecording(w)
          BY <3>4, <4>3 DEF WorkerStep, RecoverFind, RecoverOne, SelectBatch, EndBatch,
             LockRead, LockWrite, MarkProcessing, TranscribeOk, TranscribeRateLimited,
             TranscribeUnavailable, TranscribeFailed, StoreText, StoreRecording, Finalize,
             Complete, Chain, Analyze, ApplyAnalysis, Defer, FailRead, FailWrite
        <4> QED
          BY <1>0, <4>1, <4>2, <4>3, OneMoves, OthersMove
      <3> QED
        BY <1>0, <2>2, <3>1, <3>2, <3>3, <3>4 DEF WatchInv, Watched, LiveTranscription
    <2> QED
      BY <2>1, <2>2
  <1>5. ASSUME NEW w \in Workers, Settling(w)', Present(MyRec(w))'
        PROVE  Decided(MyRec(w))'
    <2>1. \/ worker'[w] = worker[w] /\ worker[w].pc \notin BetweenPc
          \/ WorkerStep(w)
      BY <1>0, <1>5, OneMoves, OthersMove DEF Settling, BetweenPc
    <2>2. WorkerStep(w) =>
            /\ worker[w].pc \notin BetweenPc /\ worker'[w].job = worker[w].job
            /\ \/ TranscribeUnavailable(w) \/ StoreRecording(w)
               \/ (Analyze(w) \/ ApplyAnalysis(w)) /\ worker'[w].pc = "complete"
      BY <1>5, SettlingFrom DEF Settling
    <2>3. /\ worker[w].pc \notin BetweenPc /\ worker'[w].job = worker[w].job
          /\ job'[worker[w].job].type = job[worker[w].job].type
          /\ MyRec(w)' = MyRec(w) /\ MyRec(w) \in Recordings
          /\ rec[MyRec(w)].status # "ABSENT"
      <3>1. worker[w].pc \notin BetweenPc /\ worker'[w].job = worker[w].job
        BY <2>1, <2>2
      <3>2. job[worker[w].job].status # "NONE" /\ worker[w].job \in Jobs /\ MyRec(w) \in Recordings
        BY <3>1, MyJobType DEF LifeInv, DrainerInv, MyJob
      <3> QED
        BY <1>0, <3>1, <3>2 DEF RowsPersist, LifeInv, RowsInv, MyRec, MyJob
    <2>4. PICK r \in Recordings : r = MyRec(w)
      BY <2>3
    <2>5. Present(r) /\ Present(r)' /\ MyRec(w)' = r
      <3>1. Present(r)' /\ rec'[r].status # "DELETED"
        BY <1>5, <2>3, <2>4 DEF Present
      <3> QED
        BY <2>3, <2>4, <3>1, RowsStay DEF Present
    <2>6. CASE worker'[w] = worker[w]
      <3>1. Settling(w)
        BY <1>5, <2>3, <2>6 DEF Settling, MyJob
      <3>2. Decided(r)
        BY <1>0, <2>4, <2>5, <3>1 DEF WatchInv
      <3>3. ASSUME NEW v \in Workers PROVE ~MarkProcessing(v) /\ ~TranscribeRateLimited(v)
        <4>1. v = w
          BY DEF SingleDrainer
        <4> QED
          BY <3>1, <4>1 DEF Settling, MarkProcessing, TranscribeRateLimited
      <3> QED
        BY <1>2, <2>5, <3>2, <3>3
    <2>7. CASE TranscribeUnavailable(w) \/ StoreRecording(w)
      <3>1. PICK row : UpdateRec(r, row) /\ row.tstatus \in Final
        <4>1. rec[r] \in RecRow
          BY DEF TypeOK
        <4>2. CASE TranscribeUnavailable(w)
          <5>1. UpdateRec(r, [rec[r] EXCEPT !.tstatus = "UNAVAILABLE"])
            BY <2>4, <4>2 DEF TranscribeUnavailable
          <5> QED
            BY <4>1, <5>1 DEF RecRow, Final
        <4>3. CASE StoreRecording(w)
          <5>1. UpdateRec(r, [rec[r] EXCEPT !.tstatus = "COMPLETED", !.status = "COMPLETED"])
            BY <2>4, <4>3 DEF StoreRecording
          <5>2. PICK row : row = [rec[r] EXCEPT !.tstatus = "COMPLETED", !.status = "COMPLETED"]
            OBVIOUS
          <5>3. row.tstatus = "COMPLETED"
            BY <4>1, <5>2 DEF RecRow
          <5> QED
            BY <5>1, <5>2, <5>3 DEF Final
        <4> QED
          BY <2>7, <4>2, <4>3
      <3>2. rec'[r].tstatus \in Final
        BY <2>5, <3>1 DEF Present, UpdateRec, TypeOK
      <3> QED
        BY <2>5, <3>2 DEF Decided
    <2>8. CASE (Analyze(w) \/ ApplyAnalysis(w)) /\ worker'[w].pc = "complete"
      <3>1. job[worker[w].job].type = ANALYSIS
        BY <2>8 DEF LifeInv, DrainerInv, Analyze, ApplyAnalysis
      <3> QED
        BY <1>5, <2>3, <2>8, <3>1 DEF Settling, MyJob, ANALYSIS, TRANSCRIPTION
    <2> QED
      BY <2>1, <2>2, <2>6, <2>7, <2>8
  <1> QED
    BY <1>4, <1>5

\* Without a kill or a failing database call, a recording shown as queued or
\* in progress has somebody who works on it (the status writes of the API and
\* of process_next_jobs), with the single drainer the queue promises.
THEOREM NobodyStranded ==
  SingleDrainer /\ Spec => [](Undisturbed => NoStrandedRecording)
  <1>1. Init => WatchInv /\ ShownInv
    <2> SUFFICES ASSUME Init PROVE WatchInv /\ ShownInv
      OBVIOUS
    <2>1. \A r \in Recordings : ~Present(r) /\ rec[r].tstatus = "PENDING"
      BY DEF Init, Present
    <2>2. \A w \in Workers : ~Settling(w)
      BY DEF Init, Settling, IdleWorker, IdlePc
    <2> QED
      BY <2>1, <2>2 DEF WatchInv, ShownInv
  <1>2. SingleDrainer /\ TypeOK /\ LifeInv /\ QueueInv /\ WatchInv /\ ShownInv /\ [Next]_vars
          => WatchInv' /\ ShownInv'
    BY WatchStep, ShownStep
  <1>3. WatchInv /\ ShownInv => (Undisturbed => NoStrandedRecording)
    BY DEF WatchInv, ShownInv, NoStrandedRecording, Decided, Watched, Final, Present
  <1>4. SingleDrainer => []SingleDrainer
    <2>1. SingleDrainer => SingleDrainer'
      BY DEF SingleDrainer
    <2> QED
      BY <2>1, PTL
  <1> QED
    BY <1>1, <1>2, <1>3, <1>4, LifeInvariant, QueueInvariant, PTL DEF Spec
-----------------------------------------------------------------------------
(* When there is a single drainer                                          *)
(* The processes of WorkerElection, whose draining is the "drainer" above. *)
USE ElectionAssumption

\* Every step of the processes and of the database keeps the types.
LEMMA ProcessTypes == ElectionTypeOK /\ [ElectionNext]_electionVars => ElectionTypeOK'
<1> SUFFICES ASSUME ElectionTypeOK, [ElectionNext]_electionVars PROVE ElectionTypeOK'
  OBVIOUS
<1> USE DEF ElectionTypeOK, Places, MoveTo, connectionVars
<1>1. ASSUME NEW p \in Processes, Boot(p) PROVE ElectionTypeOK'
  BY <1>1 DEF Boot
<1>2. ASSUME NEW p \in Processes, Connect(p) PROVE ElectionTypeOK'
  <2>1. AfterConnect(p) \in Places
    BY DEF AfterConnect
  <2>2. tries' \in [Processes -> 0..ConnectTries]
    BY <1>2 DEF Connect, TriesLeft
  <2>3. place' \in [Processes -> Places]
    BY <1>2, <2>1 DEF Connect
  <2>4. /\ connected' \in [Processes -> BOOLEAN]
        /\ reconnecting' \in [Processes -> BOOLEAN]
    <3>1. (p \in Web) \in BOOLEAN
      OBVIOUS
    <3>2. reconnecting' = reconnecting \/ reconnecting' = [reconnecting EXCEPT ![p] = (p \in Web)]
      BY <1>2 DEF Connect
    <3>3. reconnecting' \in [Processes -> BOOLEAN]
      BY <3>1, <3>2, Zenon
    <3> QED
      BY <1>2, <3>3 DEF Connect
  <2> QED
    BY <1>2, <2>2, <2>3, <2>4 DEF Connect
<1>3. ASSUME NEW p \in Processes, Reconnect(p) PROVE ElectionTypeOK'
  BY <1>3 DEF Reconnect
<1>4. ASSUME NEW p \in Web, Elect(p) PROVE ElectionTypeOK'
  BY <1>4 DEF Elect, Processes
<1>5. ASSUME NEW p \in Processes, Stop(p) PROVE ElectionTypeOK'
  BY <1>5 DEF Stop, Released
<1>6. ASSUME NEW p \in Processes, Settle(p) PROVE ElectionTypeOK'
  BY <1>6 DEF Settle, Unlock
<1>7. ASSUME NEW p \in Processes, Exit(p) PROVE ElectionTypeOK'
  BY <1>7 DEF Exit
<1>8. ASSUME NEW p \in Processes, Kill(p) PROVE ElectionTypeOK'
  BY <1>8 DEF Kill, LockAfterKill, Unlock
<1>9. CASE ToggleDb
  BY <1>9 DEF ToggleDb
<1>10. CASE UNCHANGED electionVars
  BY <1>10 DEF electionVars
<1> QED
  BY <1>1, <1>2, <1>3, <1>4, <1>5, <1>6, <1>7, <1>8, <1>9, <1>10 DEF ElectionNext, Runs

\* Every variable keeps the values its declaration describes.
THEOREM ElectionTypes == ElectionSpec => []ElectionTypeOK
<1>1. ElectionInit => ElectionTypeOK
  BY DEF ElectionInit, ElectionTypeOK, Places
<1> QED
  BY <1>1, ProcessTypes, PTL DEF ElectionSpec

\* Where flock exists, no step parts a draining web process from the lock, or
\* leaves the lock with a process that has stopped draining.
LEMMA LockStep ==
  Posix /\ ElectionTypeOK /\ LockInv /\ [ElectionNext]_electionVars => LockInv'
<1> SUFFICES ASSUME Posix, ElectionTypeOK, LockInv, [ElectionNext]_electionVars
             PROVE LockInv'
  OBVIOUS
<1> USE DEF ElectionTypeOK, LockInv, Draining, Processes, MoveTo, connectionVars
<1>1. ASSUME NEW p \in Processes, Boot(p) PROVE LockInv'
  BY <1>1 DEF Boot
<1>2. ASSUME NEW p \in Processes, Connect(p) PROVE LockInv'
  <2>1. p \in Web => AfterConnect(p) = "electing"
    BY DEF AfterConnect
  <2>2. CASE place' = place
    BY <1>2, <2>2 DEF Connect
  <2>3. CASE place' = [place EXCEPT ![p] = AfterConnect(p)]
    BY <1>2, <2>1, <2>3 DEF Connect
  <2> QED
    BY <1>2, <2>2, <2>3 DEF Connect
<1>3. ASSUME NEW p \in Processes, Reconnect(p) PROVE LockInv'
  BY <1>3 DEF Reconnect
<1>4. ASSUME NEW p \in Web, Elect(p) PROVE LockInv'
  <2>1. CASE ~WorkerEnabled \/ ~Granted(p)
    BY <1>4, <2>1 DEF Elect
  <2>2. CASE WorkerEnabled /\ Granted(p)
    BY <1>4, <2>2 DEF Elect, Granted
  <2> QED
    BY <2>1, <2>2
<1>5. ASSUME NEW p \in Processes, Stop(p) PROVE LockInv'
  BY <1>5 DEF Stop, Released
<1>6. ASSUME NEW p \in Processes, Settle(p) PROVE LockInv'
  BY <1>6 DEF Settle, Unlock
<1>7. ASSUME NEW p \in Processes, Exit(p) PROVE LockInv'
  BY <1>7 DEF Exit
<1>8. ASSUME NEW p \in Processes, Kill(p) PROVE LockInv'
  BY <1>8 DEF Kill, LockAfterKill, Unlock
<1>9. CASE ToggleDb
  BY <1>9 DEF ToggleDb
<1>10. CASE UNCHANGED electionVars
  BY <1>10 DEF electionVars
<1> QED
  BY <1>1, <1>2, <1>3, <1>4, <1>5, <1>6, <1>7, <1>8, <1>9, <1>10 DEF ElectionNext, Runs

\* A web process holds the file lock until its queue task has ended, whatever
\* is stopped, killed or started: the order of the lifespan's finally block.
THEOREM LockFollowsTask == Posix /\ ElectionSpec => []LockInv
<1>1. Posix => [](Posix)
  <2>1. Posix => Posix'
    OBVIOUS
  <2> QED
    BY <2>1, PTL
<1>2. ElectionInit => LockInv
  BY DEF ElectionInit, LockInv, Draining, Processes
<1> QED
  BY <1>1, <1>2, ElectionTypes, LockStep, PTL DEF ElectionSpec

\* main.py elects one queue worker per host, for any number of web processes.
THEOREM OneWorkerElected == Posix /\ ElectionSpec => []OneElected
<1>1. LockInv => OneElected
  BY DEF LockInv, OneElected
<1> QED
  BY <1>1, LockFollowsTask, PTL
=============================================================================
