----------------------------- MODULE MediaQueue -----------------------------
(***************************************************************************)
(* The durable processing queue of services/media_queue.py: the job rows   *)
(* and recording rows of the database, the loop of every process that      *)
(* drains them (worker.py, or main.py's in-process worker), and the part   *)
(* of the upload API that enqueues.  Every `await` on the database or on a *)
(* provider is a step of its own, so that the API, a second drainer, a     *)
(* deletion and a crash can fall between any two of them.                  *)
(*                                                                         *)
(* Time is relative.  A job row holds the ticks left before its runAfter   *)
(* and the ticks since its lockedAt; a drainer holds the ticks left of its *)
(* rate-limit cooldown.  Tick moves them all by one.                       *)
(***************************************************************************)
EXTENDS Integers, FiniteSets

CONSTANTS
  Workers,        \* the processes that run process_next_jobs in a loop
  Recordings,     \* the uploads of the run
  Deletable,      \* the recordings whose owner may delete them
  MaxJobs,        \* bound: job rows the run may create
  MaxAttempts,    \* media_queue_job_max_attempts
  BatchSize,      \* media_queue_batch_size
  StaleAfter,     \* STALE_PROCESSING_AFTER, in ticks
  RateLimitBase,  \* RATE_LIMIT_BASE_SECONDS, in ticks
  RateLimitMax,   \* RATE_LIMIT_MAX_SECONDS, in ticks
  RetryCap,       \* the 60 minutes that cap the retry delay, in ticks
  RetryHints,     \* Retry-After values a 429 may carry, in ticks; 0 is none
  CanThrottle,    \* the providers that may answer 429
  MaxCrashes,     \* bound: processes killed in the run
  MaxFaults       \* bound: database calls that raise in the run

TRANSCRIPTION == "TRANSCRIPTION"
ANALYSIS == "ANALYSIS"
Providers == {TRANSCRIPTION, ANALYSIS}   \* each job type has its provider

Jobs == 1..MaxJobs                       \* numbered by createdAt
NoJob == 0

ASSUME BoundsAssumption ==
  /\ MaxJobs \in Nat /\ MaxCrashes \in Nat /\ MaxFaults \in Nat
  /\ Recordings # {} /\ Deletable \subseteq Recordings
ASSUME SettingsAssumption ==
  /\ MaxAttempts \in Nat \ {0} /\ BatchSize \in Nat \ {0}
  /\ StaleAfter \in Nat /\ RateLimitBase \in Nat \ {0}
  /\ RateLimitMax \in Nat \ {0} /\ RateLimitMax >= RateLimitBase
  /\ RetryCap \in Nat /\ RetryHints \subseteq Nat
  /\ CanThrottle \subseteq Providers

VARIABLES
  job,        \* ProcessingJob rows
  created,    \* how many job rows have been created
  rec,        \* Recording rows, with what the transcript holds
  api,        \* per recording, the complete_upload call in flight
  worker,     \* per drainer, the state of its process_next_jobs iteration
  cooldown,   \* per drainer, _rate_limit_cooldown_until
  backoff,    \* per drainer, the delay the next hintless 429 would set
  throttled,  \* the providers answering 429 now
  window,     \* transcription may run now: inside the window, or idle
  crashes, faults,   \* how many of MaxCrashes and MaxFaults are spent
  fails,      \* history: per job, runs charged by _handle_job_failure
  recovered   \* history: per job, requeues by stale recovery

dbVars == <<job, created, rec>>
throttleVars == <<cooldown, backoff>>
envVars == <<throttled, window, crashes, faults>>
historyVars == <<fails, recovered>>
vars == <<dbVars, api, worker, throttleVars, envVars, historyVars>>

-----------------------------------------------------------------------------
(* Rows                                                                    *)

JobStatus == {"NONE", "QUEUED", "PROCESSING", "COMPLETED", "FAILED", "DELETED"}
JobRow == [type : Providers, rec : Recordings, status : JobStatus,
           attempts : Nat, wait : Int, age : Nat,
           lockedBy : Workers \cup {"nobody"}]

RecStatus == {"ABSENT", "UPLOADED", "PROCESSING", "COMPLETED", "FAILED", "DELETED"}
TranscriptStatus ==
  {"PENDING", "QUEUED", "PROCESSING", "COMPLETED", "FAILED", "UNAVAILABLE"}
RecRow == [status : RecStatus, tstatus : TranscriptStatus,
           text : {"absent", "empty", "words"}, analysed : BOOLEAN,
           overtaken : BOOLEAN]   \* history: see MarkQueued

\* prisma's update of a missing row returns None and changes nothing.
UpdateJob(j, row) ==
  job' = IF job[j].status = "DELETED" THEN job ELSE [job EXCEPT ![j] = row]
UpdateRec(r, row) ==
  rec' = IF rec[r].status = "DELETED" THEN rec ELSE [rec EXCEPT ![r] = row]

Present(r) == rec[r].status \notin {"ABSENT", "DELETED"}
Unlocked(j, status) ==
  [job[j] EXCEPT !.status = status, !.lockedBy = "nobody", !.age = 0]

NewJob(type, r) == [type |-> type, rec |-> r, status |-> "QUEUED",
                    attempts |-> 0, wait |-> 0, age |-> 0, lockedBy |-> "nobody"]
CreateJob(type, r) ==   \* enqueue_job's create
  /\ created < MaxJobs
  /\ created' = created + 1
  /\ job' = [job EXCEPT ![created + 1] = NewJob(type, r)]

\* order: priority (TRANSCRIPTION 50, ANALYSIS 70), then createdAt.
Before(j, k) ==
  \/ job[j].type = TRANSCRIPTION /\ job[k].type = ANALYSIS
  \/ job[j].type = job[k].type /\ j < k

MinOf(a, b) == IF a <= b THEN a ELSE b
MaxOf(a, b) == IF a >= b THEN a ELSE b
RetryDelay(attempts) == MinOf(RetryCap, 2 ^ MaxOf(attempts - 1, 0))

-----------------------------------------------------------------------------
(* A drainer                                                               *)

IdlePc == "idle"
PcSet == {"idle", "recover", "next", "lock", "mark", "transcribe", "store",
          "storeRec", "finalize", "complete", "chain", "analyze", "apply",
          "defer", "fail", "failWrite", "failRec"}
\* The job row is locked by this iteration and its run is not yet settled.
RunningPc == {"mark", "transcribe", "store", "storeRec", "finalize", "complete",
              "analyze", "apply", "defer"}
\* Awaits inside the try of process_next_jobs: an exception fails the job.
GuardedPc == {"lock", "mark", "store", "storeRec", "finalize", "complete",
              "chain", "analyze", "apply"}
\* Awaits outside it: an exception abandons the whole iteration.
UnguardedPc == {"recover", "defer", "fail", "failWrite", "failRec"}
\* Between jobs.
BetweenPc == {"idle", "recover", "next"}

WorkerRecord == [pc : PcSet, batch : SUBSET Jobs, seen : [Jobs -> Nat],
                 job : Jobs \cup {NoJob}, read : Nat,
                 answer : {"", "COMPLETED", "EMPTY"}, hint : Nat]
WorkerState == {s \in WorkerRecord : s.pc \in BetweenPc \/ s.job \in Jobs}
IdleWorker == [pc |-> IdlePc, batch |-> {}, seen |-> [j \in Jobs |-> 0],
               job |-> NoJob, read |-> 0, answer |-> "", hint |-> 0]

At(w, pc) == worker[w].pc = pc
Become(w, state) == worker' = [worker EXCEPT ![w] = state]
Goto(w, pc) == Become(w, [worker[w] EXCEPT !.pc = pc])
MyJob(w) == worker[w].job
MyRec(w) == job[MyJob(w)].rec
\* Leave the current job and go on with the rest of the batch.
NextInBatch(w) ==
  Become(w, [IdleWorker EXCEPT !.pc = "next", !.batch = worker[w].batch,
                               !.seen = worker[w].seen])
AbandonBatch(w) == Become(w, IdleWorker)

\* recover_stale_processing_jobs: find_many, then one update per row.
Stale_AnyStatus(j) ==   \* mutant: the status filter is forgotten
  job[j].status \notin {"NONE", "QUEUED", "DELETED"}
Stale_Never(j) == FALSE    \* mutant: nothing recovers an interrupted job
Stale(j) == job[j].status = "PROCESSING" /\ job[j].age >= StaleAfter

RecoverFind(w) ==
  /\ At(w, "idle")
  /\ Become(w, [worker[w] EXCEPT !.pc = "recover", !.batch = {j \in Jobs : Stale(j)}])
  /\ UNCHANGED <<dbVars, api, throttleVars, envVars, historyVars>>

RecoverOne(w) ==
  /\ At(w, "recover")
  /\ \E j \in worker[w].batch :
       /\ UpdateJob(j, [Unlocked(j, "QUEUED") EXCEPT !.wait = 0])
       /\ Become(w, [worker[w] EXCEPT !.batch = @ \ {j}])
       /\ recovered' = [recovered EXCEPT ![j] = @ + 1]
  /\ UNCHANGED <<created, rec, api, throttleVars, envVars, fails>>

InCooldown_Sticky(w) ==   \* mutant: set, without a look at the clock
  cooldown[w] > 0 \/ backoff[w] # RateLimitBase
InCooldown(w) == cooldown[w] > 0

Eligible(w) ==
  {j \in Jobs : /\ job[j].status = "QUEUED" /\ job[j].wait <= 0
                /\ job[j].type = TRANSCRIPTION => window /\ ~InCooldown(w)}

\* find_many: the first BatchSize eligible rows.  The batch keeps the rows as
\* they were read; only their attempts are used again (by Defer).
SelectBatch(w) ==
  /\ At(w, "recover") /\ worker[w].batch = {}
  /\ \E S \in SUBSET Eligible(w) :
       /\ Cardinality(S) = MinOf(BatchSize, Cardinality(Eligible(w)))
       /\ \A j \in S, k \in Eligible(w) \ S : Before(j, k)
       /\ Become(w, [worker[w] EXCEPT !.pc = "next", !.batch = S,
            !.seen = [j \in Jobs |-> IF j \in S THEN job[j].attempts ELSE 0]])
  /\ UNCHANGED <<dbVars, api, throttleVars, envVars, historyVars>>

EndBatch(w) ==
  /\ At(w, "next") /\ worker[w].batch = {}
  /\ AbandonBatch(w)
  /\ UNCHANGED <<dbVars, api, throttleVars, envVars, historyVars>>

IsFirst(w, j) == j \in worker[w].batch /\ \A k \in worker[w].batch \ {j} : Before(j, k)

\* _lock_job reads the row, and skips it unless it is still QUEUED ...
LockRead(w) ==
  /\ At(w, "next")
  /\ \E j \in Jobs :
       /\ IsFirst(w, j)
       /\ IF job[j].status = "QUEUED"
          THEN Become(w, [worker[w] EXCEPT !.pc = "lock", !.batch = @ \ {j},
                            !.job = j, !.read = job[j].attempts])
          ELSE Become(w, [worker[w] EXCEPT !.batch = @ \ {j}])
  /\ UNCHANGED <<dbVars, api, throttleVars, envVars, historyVars>>

\* ... and then updates it by id, whatever its status has become.
Locked_Anonymous(w, j) ==   \* mutant: the owner is not recorded
  [job[j] EXCEPT !.status = "PROCESSING", !.age = 0, !.attempts = worker[w].read + 1]
Locked_Uncounted(w, j) ==   \* mutant: the attempt is not counted
  [job[j] EXCEPT !.status = "PROCESSING", !.lockedBy = w, !.age = 0]
Locked(w, j) == [job[j] EXCEPT !.status = "PROCESSING", !.lockedBy = w,
                               !.age = 0, !.attempts = worker[w].read + 1]

LockWrite(w) ==
  /\ At(w, "lock")
  /\ LET j == MyJob(w) IN
       /\ UpdateJob(j, Locked(w, j))
       /\ IF job[j].status = "DELETED" THEN NextInBatch(w)
          ELSE Goto(w, IF job[j].type = TRANSCRIPTION THEN "mark" ELSE "analyze")
  /\ UNCHANGED <<created, rec, api, throttleVars, envVars, historyVars>>

-----------------------------------------------------------------------------
(* _run_transcription                                                      *)

MarkProcessing(w) ==
  /\ At(w, "mark")
  /\ UpdateRec(MyRec(w), [rec[MyRec(w)] EXCEPT !.tstatus = "PROCESSING",
                                               !.status = "PROCESSING"])
  /\ Goto(w, "transcribe")
  /\ UNCHANGED <<job, created, api, throttleVars, envVars, historyVars>>

\* The provider's answer and the database write it leads to.
TranscribeOk(w) ==
  /\ At(w, "transcribe") /\ TRANSCRIPTION \notin throttled
  /\ \E answer \in {"COMPLETED", "EMPTY"} :
       Become(w, [worker[w] EXCEPT !.pc = "store", !.answer = answer])
  /\ UNCHANGED <<dbVars, api, throttleVars, envVars, historyVars>>

TranscribeRateLimited(w) ==
  /\ At(w, "transcribe") /\ TRANSCRIPTION \in throttled
  /\ UpdateRec(MyRec(w), [rec[MyRec(w)] EXCEPT !.tstatus = "QUEUED"])
  /\ \E hint \in RetryHints :
       Become(w, [worker[w] EXCEPT !.pc = "defer", !.hint = hint])
  /\ UNCHANGED <<job, created, api, throttleVars, envVars, historyVars>>

TranscribeUnavailable(w) ==
  /\ At(w, "transcribe") /\ TRANSCRIPTION \notin throttled
  /\ UpdateRec(MyRec(w), [rec[MyRec(w)] EXCEPT !.tstatus = "UNAVAILABLE"])
  /\ Goto(w, "finalize")
  /\ UNCHANGED <<job, created, api, throttleVars, envVars, historyVars>>

FailedRec_StatusOnly(r) == [rec[r] EXCEPT !.status = "FAILED"]   \* mutant
FailedRec(r) == [rec[r] EXCEPT !.tstatus = "FAILED", !.status = "FAILED"]

TranscribeFailed(w) ==
  /\ At(w, "transcribe")
  /\ \/ TRANSCRIPTION \notin throttled /\ UpdateRec(MyRec(w), FailedRec(MyRec(w)))
     \/ UNCHANGED rec        \* get_object_bytes or the call itself raised
  /\ Goto(w, "fail")
  /\ UNCHANGED <<job, created, api, throttleVars, envVars, historyVars>>

\* _store_transcript, text first.  The upsert of a deleted recording's
\* transcript breaks a foreign key and raises.
StoreText(w) ==
  /\ At(w, "store")
  /\ IF Present(MyRec(w))
     THEN /\ rec' = [rec EXCEPT ![MyRec(w)].text =
                       IF worker[w].answer = "COMPLETED" THEN "words" ELSE "empty"]
          /\ Goto(w, "storeRec")
     ELSE UNCHANGED rec /\ Goto(w, "fail")
  /\ UNCHANGED <<job, created, api, throttleVars, envVars, historyVars>>

StoreRecording(w) ==
  /\ At(w, "storeRec")
  /\ UpdateRec(MyRec(w), [rec[MyRec(w)] EXCEPT !.tstatus = "COMPLETED",
                                               !.status = "COMPLETED"])
  /\ Goto(w, "complete")
  /\ UNCHANGED <<job, created, api, throttleVars, envVars, historyVars>>

\* The tail of process_next_jobs after a run that did not raise: a
\* TRANSCRIPTION run, even an unavailable one, clears the cooldown.
ClearCooldown(w, type) ==
  IF type = TRANSCRIPTION
  THEN /\ cooldown' = [cooldown EXCEPT ![w] = 0]
       /\ backoff' = [backoff EXCEPT ![w] = RateLimitBase]
  ELSE UNCHANGED throttleVars

Finalize(w) ==   \* _finalize_unavailable_job
  /\ At(w, "finalize")
  /\ UpdateJob(MyJob(w), Unlocked(MyJob(w), "FAILED"))
  /\ ClearCooldown(w, TRANSCRIPTION) /\ NextInBatch(w)
  /\ UNCHANGED <<created, rec, api, envVars, historyVars>>

Chains_EmptyToo(w) ==   \* mutant: the status test is inverted
  job[MyJob(w)].type = TRANSCRIPTION /\ worker[w].answer # "COMPLETED"
Chains(w) == job[MyJob(w)].type = TRANSCRIPTION /\ worker[w].answer = "COMPLETED"

Complete(w) ==   \* _complete_job
  /\ At(w, "complete")
  /\ UpdateJob(MyJob(w), Unlocked(MyJob(w), "COMPLETED"))
  /\ IF Chains(w)
     THEN Goto(w, "chain") /\ UNCHANGED throttleVars
     ELSE NextInBatch(w) /\ ClearCooldown(w, job[MyJob(w)].type)
  /\ UNCHANGED <<created, rec, api, envVars, historyVars>>

Chain(w) ==      \* enqueue_job(ANALYSIS); a deleted recording raises
  /\ At(w, "chain")
  /\ IF Present(MyRec(w))
     THEN /\ CreateJob(ANALYSIS, MyRec(w))
          /\ ClearCooldown(w, TRANSCRIPTION) /\ NextInBatch(w)
     ELSE Goto(w, "fail") /\ UNCHANGED <<job, created, throttleVars>>
  /\ UNCHANGED <<rec, api, envVars, historyVars>>

-----------------------------------------------------------------------------
(* _run_analysis                                                           *)

\* Read the transcript, and call the provider when it has text.
Analyze(w) ==
  /\ At(w, "analyze")
  /\ IF rec[MyRec(w)].text # "words" \/ ~Present(MyRec(w))
     THEN Goto(w, "complete")
     ELSE IF ANALYSIS \in throttled
     THEN \E hint \in RetryHints :
            Become(w, [worker[w] EXCEPT !.pc = "defer", !.hint = hint])
     ELSE \E pc \in {"apply", "complete"} : Goto(w, pc)
  /\ UNCHANGED <<dbVars, api, throttleVars, envVars, historyVars>>

ApplyAnalysis(w) ==
  /\ At(w, "apply")
  /\ IF Present(MyRec(w))
     THEN rec' = [rec EXCEPT ![MyRec(w)].analysed = TRUE] /\ Goto(w, "complete")
     ELSE UNCHANGED rec /\ Goto(w, "fail")
  /\ UNCHANGED <<job, created, api, throttleVars, envVars, historyVars>>

-----------------------------------------------------------------------------
(* Rate limits and failures                                                *)

\* _defer_rate_limited_job gives the attempt back, _enter_rate_limit_cooldown
\* blocks further transcription, and the break drops the rest of the batch.
AttemptsKept(w) == job[MyJob(w)].attempts        \* mutant: the 429 costs one
AttemptsGivenBack(w) == worker[w].seen[MyJob(w)]

Defer(w) ==
  /\ At(w, "defer")
  /\ LET j == MyJob(w)
         hint == worker[w].hint IN
       /\ UpdateJob(j, [Unlocked(j, "QUEUED") EXCEPT
                          !.attempts = AttemptsGivenBack(w),
                          !.wait = IF hint > 0 THEN hint ELSE RateLimitBase])
       /\ cooldown' = [cooldown EXCEPT ![w] =
                         IF hint > 0 THEN MaxOf(hint, RateLimitBase) ELSE backoff[w]]
       /\ backoff' = [backoff EXCEPT ![w] = MinOf(2 * @, RateLimitMax)]
  /\ AbandonBatch(w)
  /\ UNCHANGED <<created, rec, api, envVars, historyVars>>

\* _handle_job_failure reads the row ...
FailRead(w) ==
  /\ At(w, "fail")
  /\ IF job[MyJob(w)].status = "DELETED" THEN NextInBatch(w)
     ELSE Become(w, [worker[w] EXCEPT !.pc = "failWrite",
                                      !.read = job[MyJob(w)].attempts])
  /\ UNCHANGED <<dbVars, api, throttleVars, envVars, historyVars>>

\* ... requeues or fails the job (an exception of the lock itself is the one
\* failure that charges nothing: the attempt was not counted) ...
Exhausted_OneMore(w) == worker[w].read > MaxAttempts   \* mutant: off by one
Exhausted(w) == worker[w].read >= MaxAttempts

FailWrite(w) ==
  /\ At(w, "failWrite")
  /\ LET j == MyJob(w) IN
       /\ UpdateJob(j, [Unlocked(j, IF Exhausted(w) THEN "FAILED" ELSE "QUEUED")
              EXCEPT !.wait = IF Exhausted(w) THEN 0 ELSE RetryDelay(worker[w].read)])
       /\ fails' = IF job[j].status = "QUEUED" THEN fails
                   ELSE [fails EXCEPT ![j] = @ + 1]
       /\ IF Exhausted(w) /\ job[j].type = TRANSCRIPTION
          THEN Goto(w, "failRec") ELSE NextInBatch(w)
  /\ UNCHANGED <<created, rec, api, throttleVars, envVars, recovered>>

\* ... and fails the recording of an exhausted transcription.
FailRecording(w) ==
  /\ At(w, "failRec")
  /\ UpdateRec(MyRec(w), FailedRec(MyRec(w)))
  /\ NextInBatch(w)
  /\ UNCHANGED <<job, created, api, throttleVars, envVars, historyVars>>

\* A database call raises without having changed anything.
DbFault(w) ==
  /\ faults < MaxFaults
  /\ faults' = faults + 1
  /\ \/ worker[w].pc \in GuardedPc /\ Goto(w, "fail")
     \/ worker[w].pc \in UnguardedPc /\ AbandonBatch(w)
     \/ \E j \in Jobs :       \* the read of _lock_job
          /\ At(w, "next") /\ IsFirst(w, j)
          /\ Become(w, [worker[w] EXCEPT !.pc = "fail", !.job = j, !.batch = @ \ {j}])
  /\ UNCHANGED <<dbVars, api, throttleVars, throttled, window, crashes, historyVars>>

\* SIGKILL: the module-level cooldown goes with the process.
Crash(w) ==
  /\ crashes < MaxCrashes
  /\ crashes' = crashes + 1
  /\ ~At(w, "idle")
  /\ AbandonBatch(w)
  /\ cooldown' = [cooldown EXCEPT ![w] = 0]
  /\ backoff' = [backoff EXCEPT ![w] = RateLimitBase]
  /\ UNCHANGED <<dbVars, api, throttled, window, faults, historyVars>>

-----------------------------------------------------------------------------
(* The API: complete_upload and delete_recording                           *)

CreateRecording(r) ==
  /\ rec[r].status = "ABSENT"
  /\ rec' = [rec EXCEPT ![r].status = "UPLOADED"]
  /\ api' = [api EXCEPT ![r] = "created"]
  /\ UNCHANGED <<job, created, worker, throttleVars, envVars, historyVars>>

EnqueueTranscription(r) ==
  /\ api[r] = "created"
  /\ IF Present(r)
     THEN CreateJob(TRANSCRIPTION, r) /\ api' = [api EXCEPT ![r] = "marking"]
     ELSE api' = [api EXCEPT ![r] = "idle"] /\ UNCHANGED <<job, created>>
  /\ UNCHANGED <<rec, worker, throttleVars, envVars, historyVars>>

JobsOf(r) == {j \in Jobs : job[j].status \notin {"NONE", "DELETED"} /\ job[j].rec = r}
Live(j) == job[j].status \in {"QUEUED", "PROCESSING"}
LiveTranscription(r) ==
  \E j \in JobsOf(r) : job[j].type = TRANSCRIPTION /\ Live(j)

\* enqueue_job's second write.  The history field tells that it overwrote the
\* outcome of a run the drainer had already recorded.
MarkQueued(r) ==
  /\ api[r] = "marking"
  /\ UpdateRec(r, [rec[r] EXCEPT !.tstatus = "QUEUED", !.status = "PROCESSING",
       !.overtaken = @ \/ rec[r].tstatus \in {"COMPLETED", "FAILED", "UNAVAILABLE"}])
  /\ api' = [api EXCEPT ![r] = "idle"]
  /\ UNCHANGED <<job, created, worker, throttleVars, envVars, historyVars>>

\* A client retry with the same objectKey repairs a call that died early.
RetryUpload(r) ==
  /\ api[r] = "idle" /\ Present(r) /\ JobsOf(r) = {}
  /\ api' = [api EXCEPT ![r] = "created"]
  /\ UNCHANGED <<dbVars, worker, throttleVars, envVars, historyVars>>

ApiCrash(r) ==
  /\ crashes < MaxCrashes
  /\ crashes' = crashes + 1
  /\ api[r] # "idle"
  /\ api' = [api EXCEPT ![r] = "idle"]
  /\ UNCHANGED <<dbVars, worker, throttleVars, throttled, window, faults, historyVars>>

\* Job rows and the transcript go with the recording (onDelete: Cascade).
DeleteRecording(r) ==
  /\ r \in Deletable /\ Present(r)
  /\ rec' = [rec EXCEPT ![r].status = "DELETED", ![r].text = "absent",
                        ![r].analysed = FALSE]
  /\ job' = [j \in Jobs |-> IF j \in JobsOf(r)
                            THEN [Unlocked(j, "DELETED") EXCEPT !.wait = 0]
                            ELSE job[j]]
  /\ UNCHANGED <<created, api, worker, throttleVars, envVars, historyVars>>

-----------------------------------------------------------------------------
(* The environment                                                         *)

Tick ==
  /\ job' = [j \in Jobs |-> [job[j] EXCEPT
       !.wait = IF @ > 0 THEN @ - 1 ELSE @,
       !.age = IF job[j].status = "PROCESSING" /\ @ < StaleAfter THEN @ + 1 ELSE @]]
  /\ cooldown' = [w \in Workers |-> IF cooldown[w] > 0 THEN cooldown[w] - 1 ELSE 0]
  /\ UNCHANGED <<created, rec, api, worker, backoff, envVars, historyVars>>

ToggleThrottle(p) ==
  /\ p \in CanThrottle
  /\ throttled' = IF p \in throttled THEN throttled \ {p} ELSE throttled \cup {p}
  /\ UNCHANGED <<dbVars, api, worker, throttleVars, window, crashes, faults, historyVars>>

ToggleWindow ==
  /\ window' = ~window
  /\ UNCHANGED <<dbVars, api, worker, throttleVars, throttled, crashes, faults, historyVars>>

-----------------------------------------------------------------------------
Init ==
  /\ job = [j \in Jobs |-> [type |-> TRANSCRIPTION,
                            rec |-> CHOOSE r \in Recordings : TRUE,
                            status |-> "NONE", attempts |-> 0, wait |-> 0,
                            age |-> 0, lockedBy |-> "nobody"]]
  /\ created = 0
  /\ rec = [r \in Recordings |-> [status |-> "ABSENT", tstatus |-> "PENDING",
              text |-> "absent", analysed |-> FALSE, overtaken |-> FALSE]]
  /\ api = [r \in Recordings |-> "idle"]
  /\ worker = [w \in Workers |-> IdleWorker]
  /\ cooldown = [w \in Workers |-> 0]
  /\ backoff = [w \in Workers |-> RateLimitBase]
  /\ throttled = {} /\ window \in BOOLEAN
  /\ crashes = 0 /\ faults = 0
  /\ fails = [j \in Jobs |-> 0]
  /\ recovered = [j \in Jobs |-> 0]

\* What the process does by itself, as long as it is scheduled.
WorkerStep(w) ==
  \/ RecoverFind(w) \/ RecoverOne(w) \/ SelectBatch(w) \/ EndBatch(w)
  \/ LockRead(w) \/ LockWrite(w) \/ MarkProcessing(w)
  \/ TranscribeOk(w) \/ TranscribeRateLimited(w) \/ TranscribeUnavailable(w)
  \/ TranscribeFailed(w) \/ StoreText(w) \/ StoreRecording(w)
  \/ Finalize(w) \/ Complete(w) \/ Chain(w) \/ Analyze(w) \/ ApplyAnalysis(w)
  \/ Defer(w) \/ FailRead(w) \/ FailWrite(w) \/ FailRecording(w)

ApiStep(r) == CreateRecording(r) \/ EnqueueTranscription(r) \/ MarkQueued(r)

Next ==
  \/ \E w \in Workers : WorkerStep(w) \/ DbFault(w) \/ Crash(w)
  \/ \E r \in Recordings :
       ApiStep(r) \/ RetryUpload(r) \/ ApiCrash(r) \/ DeleteRecording(r)
  \/ Tick
  \/ \E p \in Providers : ToggleThrottle(p)
  \/ ToggleWindow

Spec == Init /\ [][Next]_vars

\* The event loop runs every ready task, time passes, and a killed drainer is
\* restarted by systemd (Crash leaves it idle, ready to step again).
Fairness ==
  /\ \A w \in Workers : WF_vars(WorkerStep(w))
  /\ \A r \in Recordings : WF_vars(EnqueueTranscription(r) \/ MarkQueued(r))
  /\ WF_vars(Tick)

FairSpec == Spec /\ Fairness

-----------------------------------------------------------------------------
(* Properties                                                              *)

\* Every variable has the values its declaration describes.
TypeOK ==
  /\ job \in [Jobs -> JobRow] /\ created \in 0..MaxJobs
  /\ rec \in [Recordings -> RecRow]
  /\ api \in [Recordings -> {"idle", "created", "marking"}]
  /\ worker \in [Workers -> WorkerState]
  /\ cooldown \in [Workers -> Nat] /\ backoff \in [Workers -> Nat]
  /\ throttled \subseteq Providers /\ window \in BOOLEAN
  /\ crashes \in 0..MaxCrashes /\ faults \in 0..MaxFaults
  /\ fails \in [Jobs -> Nat] /\ recovered \in [Jobs -> Nat]

\* A 429 requeues "without consuming an attempt", and nothing else loses or
\* invents one: attempts counts the charged failures, the interrupted runs
\* and the run under way.
AttemptsAccounted ==
  \A j \in Jobs :
    LET spent == fails[j] + recovered[j] IN
    /\ job[j].status = "QUEUED" => job[j].attempts = spent
    /\ job[j].status \in {"PROCESSING", "COMPLETED"} => job[j].attempts = spent + 1
    /\ job[j].status = "FAILED" => job[j].attempts \in {spent, spent + 1}

\* However it was crashed, throttled and recovered, a job in the queue has
\* failed fewer than MaxAttempts times, and one that was given up (and not
\* refused by an unconfigured provider) had all its attempts.
RetryBudget ==
  \A j \in Jobs :
    /\ job[j].status \in {"QUEUED", "PROCESSING"} => fails[j] < MaxAttempts
    /\ job[j].status = "FAILED" /\ job[j].attempts = fails[j] + recovered[j]
         => job[j].attempts >= MaxAttempts

\* Why the three above hold of a single drainer: rows are allocated in order,
\* the history of every row is in its attempts, and what the drainer has read
\* of a row is still true when it writes the row.
SingleDrainer == \A v, w \in Workers : v = w

JobInv(j) ==
  LET spent == fails[j] + recovered[j] IN
  /\ (job[j].status = "NONE") = (j > created)
  /\ job[j].status = "NONE" => spent = 0 /\ job[j].attempts = 0
  /\ job[j].status = "QUEUED" => job[j].attempts = spent
  /\ job[j].status \in {"PROCESSING", "COMPLETED"} => job[j].attempts = spent + 1
  /\ job[j].status \in {"QUEUED", "PROCESSING", "COMPLETED"} => fails[j] < MaxAttempts
  /\ job[j].status = "FAILED" =>
       \/ job[j].attempts = spent + 1
       \/ job[j].attempts = spent /\ job[j].attempts >= MaxAttempts

WorkerInv(w) ==
  LET s == worker[w]
      mine == job[s.job] IN
  /\ s.pc = "idle" => s.batch = {}
  /\ s.pc = "recover" => \A k \in s.batch : job[k].status \in {"PROCESSING", "DELETED"}
  /\ s.pc # "recover" => \A k \in s.batch :
       \/ job[k].status = "DELETED"
       \/ job[k].status = "QUEUED" /\ s.seen[k] = job[k].attempts
  /\ s.pc \notin BetweenPc => s.job \notin s.batch
  /\ s.pc = "lock" => \/ mine.status = "DELETED"
                      \/ /\ mine.status = "QUEUED" /\ s.read = mine.attempts
                         /\ s.seen[s.job] = mine.attempts
  /\ s.pc \in RunningPc => \/ mine.status = "DELETED"
                            \/ /\ mine.status = "PROCESSING" /\ mine.lockedBy = w
                               /\ mine.attempts = s.seen[s.job] + 1
  /\ s.pc = "chain" => mine.status \in {"COMPLETED", "DELETED"}
  /\ s.pc \in {"fail", "failWrite"} =>
       mine.status \in {"QUEUED", "PROCESSING", "COMPLETED", "DELETED"}
  /\ s.pc = "failWrite" => mine.status = "DELETED" \/ s.read = mine.attempts

QueueInv == (\A j \in Jobs : JobInv(j)) /\ (\A w \in Workers : WorkerInv(w))

\* A recording shown as queued or in progress still has a transcription job
\* to finish, or the call that will write its status is under way: a user
\* never watches a recording nobody works on.  The exceptions are a crash, a
\* failed database call, and the overtaken enqueue (see MarkQueued).
NoStrandedRecording ==
  \A r \in Recordings :
    Present(r) /\ rec[r].tstatus \in {"QUEUED", "PROCESSING"} /\ ~rec[r].overtaken
      => \/ api[r] # "idle" \/ LiveTranscription(r)
         \/ \E w \in Workers : At(w, "failRec") /\ MyRec(w) = r

\* A transcript with words has its ANALYSIS job, once its TRANSCRIPTION job
\* is done and the drainer has left the chaining step.
AnalysisChained ==
  \A j \in Jobs :
    /\ job[j].status = "COMPLETED" /\ job[j].type = TRANSCRIPTION
    /\ rec[job[j].rec].text = "words"
    => \/ \E k \in JobsOf(job[j].rec) : job[k].type = ANALYSIS
       \/ \E w \in Workers : worker[w].job = j

\* A finished job is never picked up, requeued or given up again, except by
\* the failure handler of its own chaining step.
CompletedReopenedOnlyByChain ==
  [][\A j \in Jobs : job[j].status = "COMPLETED"
        => \/ job'[j].status \in {"COMPLETED", "DELETED"}
           \/ \E w \in Workers : At(w, "failWrite") /\ MyJob(w) = j]_vars

\* The drained queue keeps the ledger's promises about every job: reads that
\* later writes rely on are never stale, and no step moves a row it does not
\* own.
PhaseOf(status) ==
  CASE status = "NONE" -> "none" [] status = "QUEUED" -> "waiting"
    [] status = "PROCESSING" -> "running" [] status = "COMPLETED" -> "done"
    [] status = "FAILED" -> "dropped" [] OTHER -> "gone"
Ledger == INSTANCE JobLedger WITH
  phase <- [j \in Jobs |-> PhaseOf(job[j].status)],
  tries <- [j \in Jobs |-> job[j].attempts]
LedgerKept == Ledger!Spec

\* Once no provider throttles and the window stays open, every job leaves
\* the queue.
QueueDrains ==
  <>[](throttled = {} /\ window) =>
    \A j \in Jobs : Live(j) ~> ~Live(j)

\* "Throttling is treated as transient ... so every clip is transcribed
\* eventually": once the transcription provider has stopped throttling and the
\* window stays open, every TRANSCRIPTION job leaves the queue.
EveryClipTranscribed ==
  <>[](TRANSCRIPTION \notin throttled /\ window) =>
    \A j \in Jobs : (Live(j) /\ job[j].type = TRANSCRIPTION) ~> ~Live(j)
=============================================================================
