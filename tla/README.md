# Colloquia: specifications, model checks and proofs

Colloquia (`src/`) records conversations on an Android phone, uploads them to S3, and lets a FastAPI
backend transcribe and analyse them through a durable job queue. This directory holds TLA+ modules of
the parts of it where order, failure and concurrency decide whether a user's recording is kept,
transcribed once and shown with the right text; TLC configurations that check them on small instances;
and proofs, checked by TLAPS, of the safety properties that matter most.

Contents: [the system](#the-system), [modules and code](#modules-and-code), [runs](#runs),
[fairness](#fairness), [proofs](#proofs), [what the checks found](#what-the-checks-found),
[what is not modelled](#what-is-not-modelled), [plan](#plan).

## The system

| part | state it keeps | operations | what makes it hard |
|---|---|---|---|
| processing queue (`services/media_queue.py`) | `ProcessingJob` rows; per process, a rate-limit cooldown | enqueue, recover stale jobs, select a batch, lock, run, defer after a 429, fail, complete, chain | every row is read and written in separate awaits; the process can be killed anywhere; 429s; the recording can be deleted meanwhile |
| worker processes (`main.py`, `worker.py`, `core/db.py`) | a file lock, a Prisma connection | connect with six tries, elect, drain, stop, reconnect | two kinds of drainers, only one of which takes the lock; shutdown order; database outages |
| upload API (`routes/media.py`) | `Recording` rows, unique by object key | presign, multipart, complete | clients and HTTP stacks retry; a call can die after the row and before the job |
| texts of a recording (`media_queue.py`, `routes/transcripts.py`, `routes/ai.py`, `routes/recordings.py`) | Transcript, segments, summary, extractions, titles, statuses | queue transcription and analysis, transcribe-now, manual text, rename speaker, regenerate summary, retitle, delete | nobody holds a transaction over more than one row; an AI call of seconds lies between a read and the write that depends on it |
| Android upload pipeline (`Repository.kt`, `Offline.kt`, `AppViewModel.kt`) | audio files, `upload_outbox.json` | direct upload, queue in the outbox, flush | outages, late answers, overlapping flushes, killed processes, a file rewritten in place |
| AI providers (`services/ai.py`) | none: every call stands alone | transcribe by Deepgram or Whisper, embed, ten questions to the chat model | retries, Retry-After, refusals that look like throttling, chunks of long audio, the fallback between providers |
| live transcription (`routes/live.py`) | one socket, a counter | frames, partials, stop | a client that leaves while its frame is being transcribed; a call that raises |
| accounts, phones, settings (`routes/auth.py`, `services/oauth.py`, `routes/devices.py`, `services/fcm.py`, `routes/settings.py`, `services/app_settings.py`, `scripts/seed_admin.py`) | users and roles, device tokens, one settings row | sign in by four ways, seed, register a phone, push, read and change settings, is it time? | look-up-then-create; a phone that changes hands; a row that a read creates; a window over midnight |
| library (`routes/recordings.py`, `folders.py`, `tags.py`, `ai.py`, `analytics.py`) | flags, folders, tags, action items, the audio object | toggle, patch, file, tag, count, delete | read-modify-write, delete-and-recreate, counts of several queries, a deletion over two stores |
| assistant (`services/embeddings.py`, `automation.py`, `integrations.py`, `routes/ai.py` chat, the hooks of `_run_analysis`) | embeddings, rules, integrations, chat messages | index, run rules, push, connect, chat | rows replaced one by one around network calls; third parties that fail; questions stored before their answers |
| everything else: Google productivity, templates, sharing, export, releases, storage, screens, recorder | single rows or none | create, read, update, delete, format | little: see [what is not modelled](#what-is-not-modelled) |

The parts meet in five ways. The client calls the upload API, and retries what it thinks has failed.
The API and the queue share `Recording` and `ProcessingJob` rows. Queue, transcribe-now and the user's
edits share the rows that hold texts, and what is derived from them. The worker processes share the
queue, and are told apart by a lock and an environment variable. Everything that transcribes or analyses
waits for `services/ai.py`, and the queue asks the settings whether it may.

What makes each correct:

* queue: a job is run by its lock's owner only; its attempts count exactly the runs it was charged; a
  429 costs none; a job is given up after `maxAttempts` runs and not before; every job leaves the queue;
  no recording is shown as in progress with nobody working on it; every transcript gets its analysis.
* workers: one web process is elected, and one process drains; the queue is served again after every exit; connections
  come back.
* upload API: a retry neither drops nor doubles a transcription.
* texts: what is derived from a text is shown beside that text; a user's title stays; statuses settle.
* client: a recording is in the outbox, being uploaded, or on the server; it is there once; the outbox
  drains.
* AI calls: retries and sleeping are bounded for each part; a provider that refused is left alone; a
  short spike is not reported; a transcription is whole or absent; every call and session ends.
* accounts: one master admin; a phone is its user's; the window means what the administrator set, and opens again.
* library: taps add up; tags are those last asked for; the numbers of one screen fit each other; a
  deletion takes the audio, the tags and the action items along.
* assistant: search finds the text of the last analysis, whole; questions, answers and failures of the chat are accounted
  for; a run tries every rule once.

`PROJECT.json` lists every component with its status, and every hazard at the line where it bites.

## Modules and code

`MC*.tla` modules only name the constants of the small instances; `*Proofs.tla` hold theorems, one
module per component; those about `WorkerElection` are the last part of `MediaQueueProofs`.

### MediaQueue, JobLedger

`MediaQueue` is `process_next_jobs` and everything it calls, one action per await. A drainer's `pc` says
which await comes next: `recover` is the loop over stale rows, `next` the `for job in jobs`, `lock` the
gap between the read and the update of `_lock_job`, `mark` … `complete`, `chain` the run of a
TRANSCRIPTION job, `analyze`, `apply` that of an ANALYSIS job, `defer` the handler of `RateLimited`,
`fail`, `failWrite`, `failRec` the steps of `_handle_job_failure`. `DbFault` makes any of these calls
raise: those inside the `try` end in the failure handler, those outside abandon the batch.
`batch` and `seen` are the rows as `find_many` returned them, because the 429 handler writes their old
`attempts` back. Rows of a deleted recording become `DELETED` (the schema cascades); an update of one
returns `None` and changes nothing, a create that refers to one raises.

The API's part is `CreateRecording`, `EnqueueTranscription`, `MarkQueued` (the two writes of
`enqueue_job`), `RetryUpload` and `DeleteRecording`. Time is relative: a row holds the ticks left of its
`runAfter` and the ticks since its `lockedAt`; `Tick` moves them together. `window` says whether
`within_processing_window(...) or _server_is_idle()` holds now, and may change at any time.

Abstracted: the text of a recording is absent, empty or words (see `TranscriptStore` for the rest), and
the writes of `_run_analysis` after the AI call are one action (`ApplyAnalysis`), because no other part
of this module looks at what lies between them. `recover_stale_processing_jobs` takes at most 25 rows,
more than the runs ever have.

`JobLedger` is what the queue promises of one job row: started only while waiting, one try per start,
a throttled run gives its try back, only a run finishes, given up only when the tries are used.
`LedgerKept` says that `MediaQueue` implements it with `phase` taken from `status` and `tries` from
`attempts`.

### CompleteUpload, UploadContract

`POST /media/complete`, one action per await of `complete_upload`: `Find` the row with its jobs,
`Create` it, return the `Racer`'s row, `Enqueue`, `Mark`, `Reload` it for the answer. A call may `Die` between
any two. `Create` has three outcomes, as the handler takes every exception for a lost race: the row is there and the
call says so; the row is there but the call raised, so that `Racer` finds the call's own row and answers success
without a job (`unconfirmed`); or it raised and wrote nothing (the unique index, an outage), so that `Racer` returns
somebody else's row or passes the exception on. A call that ends its own work is "answered", one that returns a row it
takes for another's is "yielded". Keys in `Overlapping` may have several calls in progress (an HTTP stack that
resends, a client that timed out); the others belong to clients that wait for an answer or a death.
`UploadContract` is the promise: registered once, enqueued once, accepted only then or when the registration
was not confirmed.

### WorkerElection

The life of every process: `Boot`, `Connect` (`connect_db` and its tries), `Elect`
(`_acquire_queue_worker_lock`, tried once), draining, `Stop`, `Settle` (the queue task is awaited, then the
lock closed), `Exit`, or `Kill`. Web processes go on without a database and reconnect in the background;
the queue service tries again before each iteration and never looks at the lock. `envFile` and
`UnitSetting` are the two places systemd takes `MEDIA_QUEUE_WORKER_ENABLED` from; the file wins. `OneDrainer`, that nobody
but one process drains, is what the deployment scripts say; the run `election_deployed` refutes it.

### TranscriptStore

One recording's texts and all their writers. A text is a version number; what is derived from it carries
the number. `StoreText`, `DeleteSegments`, `CreateSegments`, `FinishStore` are `_store_transcript`, shared by
the queue (`Drainers`) and by `transcribe_recording_now` (`Nows`); `ReadText` … `FinishAnalysis` are the awaits
of `_run_analysis`; the user corrects, renames, regenerates and retitles. A model's answer may lack
parts (`whole`): a missing conversation clears the old one, a missing summary or title keeps it, as in
the code. A title is the phone's default, the user's, a user's that starts like a default one ("Recording with Bob",
`LooksDefault`), or the model's. Job rows are reduced to counters per type here; `MediaQueue` has them in full.

### ClientOutbox

`doUpload`'s calls (`Presign`, `Put`, `Send`, `Answer`) by direct uploads and by flushes; any exception
(`FailAttempt`) queues a direct upload or leaves a flushed one queued. A request outlives the client that
gave up on it (`late`): the server may still serve it, and makes a row of every request, because every
attempt presigns a key of its own. `Kill` ends all coroutines and may tear the outbox file, which
`Outbox.write` truncates before writing and `Outbox.all` reads as empty when unreadable. `Imported` files
lie in the cache directory and may be evicted. The PUT of an item in `Failing` may fail at every attempt, for ever;
`MaxFailures` bounds the failures of the others. `OutboxDrains` is about the others: they leave the outbox although
a flush meets a failing one before them, or a file that is gone.

### AiCalls, LiveSession

`AiCalls` is one call of `services/ai.py`: which provider it asks (`to`), for which of its parts (the chunks of
a long audio, the batches of an embedding), how often, how long it sleeps, what its caller is told. `Post`
is one turn of the loop of `_request_with_retry` together with what the function does with the outcome:
`RetryRequest` sleeps and tries again, `Fail` and `Receive` are the ends of each function, with the
fallback from Deepgram to Whisper (`DeepgramFails`) and the loop over chunks (`ReceiveAudio`). Sounds and texts
are positions on a line, an audio file is the set of positions at which something is said, and a provider
that answers hears correctly, counting from 0 in the chunk it was sent: so a result can be compared with
what was said. What an answer may lack is kept: Deepgram's utterances, the fields the code indexes
("bad"), JSON itself ("garbled"), the text of the combined analysis. Calls share nothing, so one at a time
stands for any number.

`LiveSession` holds the callers: the queue and the routes wait for one result (`ServiceCalls`,
`ServiceReturns`), the socket transcribes frames in turn (`ReceiveFrame`, `SendPartial`) until it is stopped,
the client is gone, or a call raises.

### ProcessingWindow, Accounts

`ProcessingWindow` is the settings row and the two questions asked of it, `WithinWindow` and
`TranscriptionMode`. A time of day is a position on a circle of `DayLength` positions; an invalid HH:MM is a
number off the circle. Only validated times are stored, so the repairs of `parse_hhmm` do not occur.

`Accounts` is who may do what. A handler that reads and then writes is two actions with a request record
(`request`) in between: `FindUser`/`WriteUser`, `SeedFind`/`SeedWrite`/`SeedMaster`,
`SendRegistration`/`RegisterDevice`, `FindRegistration`/`Unregister`,
`LoadSettings`/`CreateSettings`/`UpdateSettings`. `account` holds the users' roles, `session` the user whose token a phone
holds, `device` the rows of `ta_device_tokens`, `push` the one push the worker is sending. Google, Microsoft and Yahoo
differ in how the email is learnt, which is an outcome here, and share `FindUser`. `HourPasses` moves the clock.

### Calls, Library

`Calls` is what the next two modules share: calls of a recording's owner in a few slots, each with its
`pc`, what it has read (`seen`) and what is left to do, a reply, and `CutCall`, a kill or a raising database
call that ends it between two awaits. `stale` marks a call that counted something another step has moved since.

`Library` is the rows around one recording of one owner. Each handler is its reads (`…Find`, with the 404
of `require_owned`) and its writes: toggles, PATCH of a flag or the folder, folders, `set_tags` as wipe and one link
after the other, tags with their unique name, the replacement of action items by an analysis, the counts
of the folder list and of the overview, and the deletion of the object and then the row with its cascade.
The three flags of a recording have a route each and are alike; one stands for them.

### Assistant

What becomes of a recording's text. A store, by the worker (`RunTranscription`) or by transcribe-now, is a step for each of
its database calls: `UpsertTranscript`, `ClearSegments`, `FillSegments`, and `ChainAnalysis`, which makes one more job
`due`. One whose result is EMPTY ends with the segments wiped, and any of them may end between two steps (`StoreFails`,
`CutCall`). The worker runs one job at a time; its analysis is
`TakeAnalysis`, `ReadUnits`, `Embed`, `ClearIndex`, `FillIndex`, then `ListRules` and `RunOne` for each rule. `HooksFail` is an
exception inside the hooks, which is dropped with the rest of them, `Requeue` a kill or an exception that runs the job
again. The segments are a version number (`text`), and an index row carries the version it embeds, so the index can
be compared with the text. `unread` remembers the versions nobody asked an analysis for: edits, and stores cut before
their chain. Calls edit segments, run rules by hand, create and delete rules, connect, change
and disconnect the integration, push, and chat (`ChatRead`, `ChatAsk`, `ChatModel`, `ChatSave`). What a third party
receives is a version of the text and is left out; whether it was delivered is kept, also when the answer
is lost.

## Runs

History variables (`fails`, `recovered`, `sole`, `standing`, `raced`, …) only record what happened, to state
properties; no guard reads them. The exceptions each property makes are part of it, and name what the code
does not guarantee.

| run | instance | checks |
|---|---|---|
| `queue_faults` | 1 drainer, 1 deletable recording, 3 jobs, 2 attempts, 1 kill, 1 failing database call, both providers throttle, with and without Retry-After | `RetryBudget`; the inductive `QueueInv`; `CompletedReopenedOnlyByChain`; the ledger (`LedgerKept`); liveness: `QueueDrains` |
| `queue_batch` | 2 recordings, batches of 2, 4 jobs, Whisper throttles, no crashes | `NoStrandedRecording`, `AnalysisChained`, `AttemptsAccounted` with a 429 in the middle of a batch |
| `complete_upload` | 2 keys, 4 calls, overlapping on one key, any number of deaths and of creates that raise with or without their row | `NeverDropped`; refinement of `UploadContract` (`ContractKept`) |
| `election` | 2 web processes, 1 service, every EnvironmentFile, 2 connection tries, 1 kill | `OneElected`; liveness: `QueueServed`, `Reconnected` |
| `transcript_store` | 1 drainer, 1 transcribe-now, 1 user call, 3 texts, 1 kill or failing call, titles of the phone, of the user (one that looks like a default) and of the model | `SettledText`, `TextOfOneRun`, `TitleKept`, `StatusSettles` |
| `client_outbox` | 2 recordings (one imported and already queued), 2 flushes, 1 kill; the PUT of one recording may fail every time, the other calls once | `NothingLost`, `DuplicatesExplained`; liveness: `OutboxDrains` |
| `ai_calls` | every set of keys, 2 retries, cap 3, Retry-After 1 or 5, chunks of 2, batches of 2, 4 files, up to 3 texts, 2 frames | `RetryInv`, `SpikesAbsorbed`, `WholeOrNothing`, `PartialsNumbered`, `RefusalIsFinal`; liveness: `CallsEnd` |
| `accounts` | 2 people, one of them the master admin, 1 phone, 2 requests at a time, 3 in all, 8 bodies of PUT /settings, a day of 6 positions | `AccountInv`, `PhoneOfItsUser`, `WindowIsArc`; liveness: `WindowReopens` |
| `library` | 2 calls at a time, 3 in all, 3 folders, 3 tags of 2 names, 3 tag lists, 2 analyses, 1 cut | `FlagIsParity`, `TagsAsAsked`, `CountsAddUp`, `DeletionComplete` |
| `assistant` | 2 calls at a time, 3 in all (transcribe-now among them), 1 transcription by the queue, any number of analyses due, 2 rules (one a webhook), 2 index rows per text, 1 cut call; the worker's own jobs may end anywhere | `IndexFaithful`, `ChatAccounted`, `EachRuleOnce` |
| `queue_starved` | 2 recordings, only the chat model throttles | violation of `EveryClipTranscribed` |
| `election_deployed` | the instance of `election` with the shipped `.env.example` | violation of `OneDrainer` |

Why the bounds are enough to be interesting:

* Two attempts with a kill and a failing call reach every mixture of charged failures, interrupted runs
  and give-backs that two runs of a job can have. Three jobs allow a transcription, its analysis, and a second
  analysis of a re-run. Delays are one or two ticks: what matters is whether one is over before another.
* Two recordings in one batch are what a stale batch snapshot needs; a third adds symmetric copies.
* Two calls per key race, a third retries after them; four cover a race on one key next to turns on another. Deaths and
  raising creates need no bound: a call has one of each at most.
* One connection try more than one shows the loop of `connect_db` and its end; six only repeat it.
* Three stored texts let a store overtake another that overtook the first. With one drainer, one
  transcribe-now call and one user call, all pairs of writers interleave at every await.
* Two flushes overlap; the failing call and the kill can fall anywhere in either. The item that may keep failing lies behind or before
  the one that must leave. Outages are bounded by 0 (the first connection may still be missing, and be found).
* Two retries show the last one and one before it; the cap lies between the two hints. The long file needs
  three chunks, the last one shorter, with speech on both sides of a cut; one file is silent and one cannot be
  decoded. Three texts need two batches. Two frames show the number of the second.
* On one phone two people follow each other, which is where registrations go astray; two requests and the push
  overlap, three let one overtake. A day of six positions tells the default window (2 to 5) from one that never closes;
  the bodies set windows within a day, over midnight, ending at midnight and with equal ends, and fields one by one.
* Two calls overlap at every await; the third finds what they left (a repair, a second reading). The tag lists
  hold two old tags, one that must be created first, and one asked for twice. Two analyses replace the items of each other.
* Two rules let one fail and the other follow; two rows are a half-filled index. A recording starts with or
  without a text; the worker's store, up to three by transcribe-now and edits give it others, so that two stores, or a store and an
  analysis, overlap at every await. LITE_MODE is off, as with it on nothing is indexed. Calls are symmetric and `assistant` uses that.

Deadlock is checked in the queue and election runs. The other systems do come to rest (all calls answered,
all texts stored, all items uploaded), and say so with `CHECK_DEADLOCK FALSE`.

## Fairness

* `MediaQueue`: weak fairness of a drainer's own steps (an event loop runs its ready task; a killed
  process is restarted by systemd, `Restart=always`, so it can step again), of the API's `enqueue_job`,
  and of time. Nothing is assumed of providers, windows, users and kills; `QueueDrains` instead has the
  premise that throttling ends and the window stays open.
* `WorkerElection`: weak fairness of starting, connecting, electing, settling and exiting, and of
  reconnecting. Stops are not fair: a process may serve for ever. `QueueServed` and `Reconnected` have
  the premise that the database stays up eventually.
* `ClientOutbox`: weak fairness of the coroutines (calls are answered or time out), and of the server for
  what it has received. No fairness of recording or of starting flushes, which is up to screens and
  users: `OutboxDrains` has the premise that flushes keep being started and the connection stays.
* `LiveSession`: weak fairness of a request (every one has a timeout of 300, 120 or 30 s, and sleeps are
  finite), of handing its result over, and of the socket noticing that its client has gone. Nobody has to
  call, speak, stop or disconnect.
* `Accounts`: weak fairness of the clock alone. `WindowReopens` has the premise that the settings are left
  alone eventually.
* `CompleteUpload`, `TranscriptStore`, `Library` and `Assistant` state no liveness: their users and
  calls may stop anywhere.

## Proofs

The theorems hold for every value of the constants that satisfies the modules' named assumptions.

* `MediaQueueProofs`, in four parts. First `TypeOK`, one step per action, from facts about what `UpdateJob`,
  `UpdateRec` and `Become` do.

  Then, for one drainer (`SingleDrainer`; with two they are false, since `_lock_job` excludes nobody),
  `QueueInv`, and from it `AttemptsAccounted` and `RetryBudget`. Neither is inductive:
  they need to know that what a drainer has read of a row (`seen` for the batch, `read` for the lock and the
  failure handler) is still what the row holds, that rows are allocated in order, and that stale recovery
  touches only rows of dead runs. That is `JobInv` and `WorkerInv`. One drainer implements `JobLedger`
  (`LedgerKept`) and keeps `CompletedReopenedOnlyByChain`: each action is classified by what it may do to the
  status and attempts of one row (`RowMove`), and each such move is a step of the ledger or leaves the row
  as it was.

  Then what becomes of a recording. `LifeInv` says of its rows that there is one transcription at most, that they
  are alive and go with it, and of a drainer that the row it is at was created and has the type its step is for.
  On it rests `AnalysisChained`, for any number of drainers (`ChainInv`: a drainer that has stored words is
  still to chain, or has chained, the analysis), and `NoStrandedRecording`, for one drainer (`WatchInv`: a recording
  with a row has its outcome, or a transcription that is alive, or a drainer about to write that it failed; `ShownInv`: it is
  shown as queued or in progress only with a row). Both theorems speak of the states that no kill and no failing
  database call came before (`Undisturbed`), like the run that checks the properties: a kill in the gaps named
  [below](#what-the-checks-found) makes them false.

  Last, what decides whether there is a single drainer: `WorkerElection`. `ElectionTypeOK`; on POSIX systems
  `LockInv` (the lock is held exactly while the queue task may run, which needs the order of `lifespan`'s
  shutdown) and from it `OneElected`. Nothing is proved of `OneDrainer`, which is false.
* `CompleteUploadProofs` proves the two invariants behind `/complete`: `SequentialInv` (calls in turn:
  what a call found is still so when it acts, and only a create that was not confirmed is taken for a lost race) and
  `OwedInv` (overlapping calls: a row without a job is owed one by a live call, or a call died, or its creation was
  not confirmed); from them `NeverDropped`, and that calls in turn implement
  `UploadContract`, step by step.
* `TranscriptStoreProofs` proves `TypeOK`, `StoreInv` and from it `TextOfOneRun` (an undisturbed store
  has the segment table to itself), and `TitleKept`, whose inductive form adds that no analysis holds a
  copy with the default title. `StatusSettles` holds for any number of drainers: `StatusInv` finds, for a transcription status that
  promises more work, the job that waits or the call that will settle it. `SettledText`, for one
  drainer, needs three: `SeenInv` (nothing is read or kept that has not been stored, so the next text is a new one),
  `ItemsInv` (the drainer that creates items has wiped those before) and `TextInv` (an undisturbed text either has its analysis
  due, or has had it, with everything derived from it by a good one).
* `ClientOutboxProofs` proves `TypeOK`, `OutboxInv` and from it `NothingLost`. `OutboxInv` adds why an
  item may leave the outbox: a served request, or a file that is gone. A lemma (`Frame`) reduces a step of
  one uploader to what it does to that uploader. `DuplicatesExplained` needs a second invariant (`Lines`, `Account`): while
  flushes do not overlap, an item is in the hands of one attempt at most, and one that may still be attempted has no
  row or request that a lost attempt has not paid for.
* `AiCallsProofs` proves `CallInv` (`RetryInv`, and that a retry belongs to the part it repeats), and from it `RetryInv`,
  the bound `MaxRetries * Cap` on the sleeping for one part, `RefusalIsFinal` and `SpikesAbsorbed`, one step of
  `_request_with_retry` at a time. `WholeOrNothing` rests on `PartsInv`: what was collected lists, in order, what is said
  before the part that is asked for. That needs what `Ascending` means for every finite set: that a set has such a listing
  (`ListingExists`, by a least counterexample over its cardinality), has one only (`OneOrder`), and that the listings of
  two sets, one after the other in time, join to one (`JoinedOrder`). `PartialsNumbered` rests on `SessionInv`: behind the greeting an open
  socket has sent the partials of its frames in order, but for the frame being transcribed.
* `AccountsProofs` proves an inductive invariant (`IInv`, which follows requests in flight), from it `AccountInv`,
  `PhoneOfItsUser`; and, from arithmetic modulo the length of the day alone, that `WithinWindow` is
  the arc from start up to end (`WindowIsArc`).
* `LibraryProofs` proves the four properties of `Library`, for any number of calls, folders, tags and analyses. Each has an
  invariant about what the calls in progress have read: `FlagInv` (a tap holds the flag as it is, or the taps do not
  count: `raced`), `DeleteInv` (a deletion at its second step left audio only when storage refused),
  `CountInv` (what a call has counted fits what it is still to count, unless it is `stale`) and `LinkInv` (the recording has the wanted tags but
  for those the call still has to link).
* `AssistantProofs` proves its three, for any number of calls, rules, index rows and texts, from `Roles` (the worker
  analyses, and nobody else; a store is the worker's or a caller's): `RuleInv` (the outcomes of a run are the rules it found but for
  those that are left), `IndexInv` (an analysis that refills the index has rows of what it read so far, and what it read is the
  text, or an analysis of the text is due, about to be chained, or was never asked for) and `ChatInv` (every question has a number of its own;
  it is stored while it is being answered, and its reply is not).

Proved only, and in no run of their own any more: `TypeOK` of these modules, `SequentialInv`, `OwedInv`,
`LockInv`, `StoreInv`, `OutboxInv`, which the theorems about what the runs do check rest on. The invariants of the last three
bullets and those of `TranscriptStoreProofs` were checked by TLC on the small instances before they were proved.

Only model-checked is liveness (`QueueDrains`, `QueueServed`, `Reconnected`, `OutboxDrains`, `CallsEnd`, `WindowReopens`): it
needs fairness and `ENABLED`, which the prover does not reason about. Every safety property that a passing run checks is a
theorem. What a recursive definition computes is out of reach in general, so the modules use none; `Ascending` is a `CHOOSE`, and the existence
of what it chooses is proved with the minimum of a well-founded order instead of induction.

## What the checks found

Two disagreements of the code with what it says of itself; each is a run that TLC must find violated.

* `queue_starved`: a 429 of the chat model enters the cooldown that gates transcription, so a chat model
  that keeps throttling stops all transcription, against "every clip is transcribed eventually".
* `election_deployed`: the deployment script and `ARCHITECTURE.md` say that the web process leaves the queue to the
  service; with the shipped `.env.example` as EnvironmentFile, which overrides the unit's own setting, a web process is elected and
  drains beside the service, which takes no lock.

Three more are part of the condition of a property that passes, because that says both where the code keeps
its promise and where it does not:

* `NeverDropped`: the docstring of `complete_upload` says that a retry never drops transcription. A create that committed
  but raised finds its own row, takes it for another call's and answers 201 without a job; and a call that did lose
  the race answers success although the winner may die before its job. A later retry of the key would enqueue it, but a client
  that was told 201 does not retry.
* `SettledText`: an analysis that read an older text writes its conversation beside a newer, empty text;
  the property is about texts that no other write disturbed (`sole`).
* `DuplicatesExplained`: a retry from the outbox presigns a new key, so an answer lost after `/complete`
  leads to a second recording; every duplicate comes from such a loss.

Limits of the code that the properties carve out by name:

* queue: a kill between completing a transcription and chaining its analysis, or between failing a job and
  failing its recording, is not repaired; a failed transcribe-now leaves `Recording.status` at PROCESSING.
* client: a kill during a direct upload or while the outbox is written loses recordings.
* texts: a title set while an analysis runs is overwritten, and so is one of the user's that starts like a default one
  ("Recording with Bob"), against the comment at `media_queue.py:373`; manual texts keep the old conversation and segments; a
  rename or a summary that overlaps a store can bring an old text back; segment edits do not survive a new transcription.
* AI calls: four retries of up to 8 s outlast the 30 s of the gateway they are meant to fit; an out-of-credit
  answer of Whisper is reported as RATE_LIMITED, so the queue runs the job again for as long as the account is empty.
* accounts: signing out does not unregister the phone; a push reads its list of phones once, so it still reaches a phone that
  moved meanwhile, and a refused token deletes the row of its new owner; the first GET /settings creates the row with the
  column default REFINED, while without a row the worker uses REFINED_TRANSLATED.
* library: taps that overlap count as one; `set_tags` that is disturbed or fails leaves a mixture until the next one;
  counts of one screen may disagree while something moves; PATCH cannot take a recording out of its folder; a
  deletion cut after the object leaves a recording without audio.
* assistant: an edit of a segment is not indexed; a transcription that comes out empty, or is cut before it chains its analysis (a kill
  between `media_queue.py:264` and `:274`), leaves the index of the old text; so does a text without segments, of which
  `IndexFaithful` says only that its rows are not mixed; index rows survive their recording; an error of the index
  skips the rules; a job that is killed after its posts posts again; the chat prompt takes the oldest 20 messages;
  a push by hand ignores that the integration is switched off.

## What is not modelled

Multipart uploads (their state is S3's); the speaker labels of items and `renameSpeakers` applied in sequence, which
merges two speakers that are swapped; `PUT /settings/me`, `PATCH /auth/me`, `PATCH` of a folder, the `lastViewedAt` stamp and
the description of a recording, each a single write of a value nothing else reads; the digest that a GET stores, and
stores again when it is retried; `create_workspace`, whose two writes nothing repairs; the HTTP client's gateway
retry of GET calls; the recorder, a state machine inside the Android platform; screens; searching, asking and the graph,
which read; Google productivity, templates, sharing, export, releases and the S3 wrappers, which are single-row operations,
best-effort calls of others, or formatting. Token signatures, password hashes, the exchange with an identity provider,
prompts and the parsing of answers are taken by their outcome. `PROJECT.json` gives the reason for each component. Windows
hosts, where the election lock is granted to everyone, are covered by the constant `Posix` and excluded from
`OneElected`.

## Plan

Done, in this order, most important behaviour first: `MediaQueue` with `JobLedger`; `CompleteUpload` with
`UploadContract`; `WorkerElection`; `TranscriptStore`; `ClientOutbox`; then `AiCalls` with `LiveSession`,
`ProcessingWindow` with `Accounts`, `Library` and `Assistant` on `Calls`. The safety properties of all of them are
proved.

Next:

1. Proofs: the same for what the compositions below will promise.
2. Composition: `ClientOutbox` with `CompleteUpload`, so that keys, the HTTP client's retries and rows are in one module;
   `MediaQueue` with the answers of `AiCalls`, so that the cooldown is driven by what providers say.
3. Speaker labels in `TranscriptStore`, and the recorder as a source for `ClientOutbox`.
