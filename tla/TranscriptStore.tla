--------------------------- MODULE TranscriptStore ---------------------------
(***************************************************************************)
(* The text of one recording and everybody who writes it: the queue's      *)
(* TRANSCRIPTION and ANALYSIS jobs (media_queue.py), calls of              *)
(* transcribe-now, which bypass the queue, and the user's corrections and  *)
(* renames (transcripts.py, ai.py, recordings.py).  None of them holds a   *)
(* transaction over more than one row.                                     *)
(*                                                                         *)
(* A text is a version: the number of the write that produced it.  What is *)
(* derived from a text (the refined conversation, the segments, the brief  *)
(* summary) carries the version it was derived from; 0 is no text.         *)
(* MediaQueue models the job rows; here a job is taken, run and settled.   *)
(***************************************************************************)
EXTENDS Naturals

CONSTANTS
  Drainers,    \* processes that drain the queue
  Nows,        \* calls of transcribe-now
  Users,       \* other calls of the recording's owner
  MaxStores,   \* bound: texts stored in the run
  MaxCrashes   \* bound: processes killed and database calls that raise

Actors == Drainers \cup Nows \cup Users
Versions == 0..MaxStores

ASSUME ActorsAssumption ==
  /\ Drainers \cap Nows = {} /\ Drainers \cap Users = {} /\ Nows \cap Users = {}
  /\ MaxStores \in Nat /\ MaxCrashes \in Nat

VARIABLES
  stored,      \* how many texts have been written
  kind,        \* what each of them is
  raw, refined,  \* the Transcript row: rawText, and refinedText with translatedText
  segments,    \* the versions that have TranscriptSegment rows
  summary,     \* the BRIEF Summary row
  items,       \* how many sets of ActionItem and ExtractedItem rows there are
  title,       \* Recording.title
  status, tstatus,   \* Recording.status and transcriptStatus
  queue,       \* QUEUED jobs by type
  task,        \* per actor, what it does and what it has read
  crashes,
  outcome,     \* history: how the last finished analysis ended
  sole,        \* history: the text is the work of one undisturbed store
  named,       \* history: the user set a title of their own while no analysis held a copy
  statusLost   \* history: a status write came late, or its writer died

textVars == <<stored, kind, raw, refined, segments>>
derivedVars == <<summary, items, title>>
statusVars == <<status, tstatus>>
historyVars == <<outcome, sole, named, statusLost>>
vars == <<textVars, derivedVars, statusVars, queue, task, crashes, historyVars>>

Kinds == {"none", "words", "empty", "manual"}
StorePc == {"segDelete", "segCreate", "mark", "chain"}
SnapshotPc == {"read", "chat", "refine", "title"}
PcSet == StorePc \cup SnapshotPc \cup
  {"idle", "done", "asr", "requeue", "remark", "summary", "wipe", "items", "finish",
   "manualStatus", "renameText", "renameSummary", "renameSummaryWrite", "summarize"}

At(a, pc) == task[a].pc = pc
Goto(a, pc) == task' = [task EXCEPT ![a] = [@ EXCEPT !.pc = pc]]
Saw(a, pc, v) == task' = [task EXCEPT ![a] = [@ EXCEPT !.pc = pc, !.seen = v]]
Resting(a) == IF a \in Drainers THEN "idle" ELSE "done"
Add(type, n) == queue' = [queue EXCEPT ![type] = @ + n]
SetStatus(s, t) == status' = s /\ tstatus' = t

\* The store that is replacing the segments, if any.
Window(a) == task[a].pc \in {"segDelete", "segCreate"}
Alone(a) == \A b \in Actors \ {a} : ~Window(b)

-----------------------------------------------------------------------------
(* Transcription, by the queue or by transcribe-now                        *)

TakeTranscription(w) ==
  /\ At(w, "idle") /\ queue.TRANSCRIPTION > 0
  /\ queue' = [queue EXCEPT !.TRANSCRIPTION = @ - 1]
  /\ SetStatus("PROCESSING", "PROCESSING")
  /\ Goto(w, "asr")
  /\ UNCHANGED <<textVars, derivedVars, crashes, historyVars>>

StartNow(n) ==
  /\ At(n, "idle")
  /\ SetStatus("PROCESSING", "PROCESSING")
  /\ Goto(n, "asr")
  /\ UNCHANGED <<textVars, derivedVars, queue, crashes, historyVars>>

\* _store_transcript: the upsert clears what was derived from the old text ...
Cleared_Kept == refined   \* mutant: refinedText is left out of the update
Cleared == 0
StoreText(a) ==
  /\ At(a, "asr") /\ stored < MaxStores
  /\ stored' = stored + 1 /\ raw' = stored + 1 /\ refined' = Cleared
  /\ \E k \in {"words", "empty"} : kind' = [kind EXCEPT ![stored + 1] = k]
  /\ Saw(a, "segDelete", stored + 1)
  /\ sole' = Alone(a)
  /\ UNCHANGED <<segments, derivedVars, statusVars, queue, crashes, outcome, named, statusLost>>

\* ... the segments are replaced wholesale, in two calls ...
Emptied_Never == segments   \* mutant: the old rows are not deleted
Emptied == {}
DeleteSegments(a) ==
  /\ At(a, "segDelete")
  /\ segments' = Emptied
  /\ Goto(a, "segCreate")
  /\ UNCHANGED <<stored, kind, raw, refined, derivedVars, statusVars, queue, crashes, historyVars>>

CreateSegments(a) ==
  /\ At(a, "segCreate")
  /\ segments' = IF kind[task[a].seen] = "words" THEN segments \cup {task[a].seen} ELSE segments
  /\ Goto(a, "mark")
  /\ UNCHANGED <<stored, kind, raw, refined, derivedVars, statusVars, queue, crashes, historyVars>>

\* ... and the recording is marked done.
MarkStored(a) == SetStatus("COMPLETED", "COMPLETED")
FinishStore(a) ==
  /\ At(a, "mark")
  /\ MarkStored(a)
  /\ Goto(a, IF kind[task[a].seen] = "words" THEN "chain" ELSE Resting(a))
  /\ UNCHANGED <<textVars, derivedVars, queue, crashes, historyVars>>

ChainAnalysis(a) ==
  /\ At(a, "chain")
  /\ Add("ANALYSIS", 1)
  /\ Goto(a, Resting(a))
  /\ UNCHANGED <<textVars, derivedVars, statusVars, crashes, historyVars>>

\* The job is requeued after a 429 or a failure, or given up.
TranscriptionFails(w) ==
  /\ At(w, "asr") /\ w \in Drainers
  /\ \/ /\ \/ SetStatus(status, "QUEUED")
           \/ SetStatus("FAILED", "FAILED")
           \/ UNCHANGED statusVars     \* the audio could not be read
        /\ Add("TRANSCRIPTION", 1)
     \/ SetStatus("FAILED", "FAILED") /\ UNCHANGED queue
     \/ SetStatus(status, "UNAVAILABLE") /\ UNCHANGED queue
  /\ Goto(w, "idle")
  /\ UNCHANGED <<textVars, derivedVars, crashes, historyVars>>

\* transcribe-now hands a 429 to the queue, and reports any other failure.
NowFailed_Silent == UNCHANGED statusVars   \* mutant: the failure is only returned
NowFailed == \E t \in {"FAILED", "UNAVAILABLE"} : SetStatus(status, t)
NowFails(n) ==
  /\ At(n, "asr") /\ n \in Nows
  /\ \/ NowFailed /\ Goto(n, "done")
     \/ SetStatus(status, "QUEUED") /\ Goto(n, "requeue")
  /\ UNCHANGED <<textVars, derivedVars, queue, crashes, historyVars>>

\* enqueue_job's two writes; the second may come after the job has run.
NowRequeues(n) ==
  /\ At(n, "requeue")
  /\ Add("TRANSCRIPTION", 1)
  /\ Goto(n, "remark")
  /\ UNCHANGED <<textVars, derivedVars, statusVars, crashes, historyVars>>

NowRemarks(n) ==
  /\ At(n, "remark")
  /\ SetStatus("PROCESSING", "QUEUED")
  /\ statusLost' = (statusLost \/ tstatus \in {"COMPLETED", "FAILED", "UNAVAILABLE"})
  /\ Goto(n, "done")
  /\ UNCHANGED <<textVars, derivedVars, queue, crashes, outcome, sole, named>>

-----------------------------------------------------------------------------
(* Analysis, by the queue                                                  *)

\* The job comes with the recording as it was when the job was locked.
TakeAnalysis(w) ==
  /\ At(w, "idle") /\ queue.ANALYSIS > 0
  /\ queue' = [queue EXCEPT !.ANALYSIS = @ - 1]
  /\ task' = [task EXCEPT ![w] = [@ EXCEPT !.pc = "read", !.title = title]]
  /\ UNCHANGED <<textVars, derivedVars, statusVars, crashes, historyVars>>

ReadText(w) ==
  /\ At(w, "read")
  /\ IF kind[raw] \in {"words", "manual"}
     THEN Saw(w, "chat", raw) /\ UNCHANGED outcome
     ELSE Goto(w, "idle") /\ outcome' = "empty"
  /\ UNCHANGED <<textVars, derivedVars, statusVars, queue, crashes, sole, named, statusLost>>

\* The model's answer may lack parts of what the prompt asks for.
Chat(w) ==
  /\ At(w, "chat")
  /\ \/ /\ \E whole \in BOOLEAN :
             task' = [task EXCEPT ![w] = [@ EXCEPT !.pc = "refine", !.whole = whole]]
        /\ UNCHANGED <<queue, outcome>>
     \/ Goto(w, "idle") /\ outcome' = "failed" /\ UNCHANGED queue
     \/ Goto(w, "idle") /\ Add("ANALYSIS", 1) /\ UNCHANGED outcome
  /\ UNCHANGED <<textVars, derivedVars, statusVars, crashes, sole, named, statusLost>>

\* A missing conversation clears the old one; a missing title or summary
\* leaves the old one.
Missing(w) == ~task[w].whole
WriteRefined(w) ==
  /\ At(w, "refine")
  /\ refined' = task[w].seen \/ (Missing(w) /\ refined' = 0)
  /\ Goto(w, "title")
  /\ UNCHANGED <<stored, kind, raw, segments, derivedVars, statusVars, queue, crashes, historyVars>>

Adopts_Always(w) == TRUE   \* mutant: the AI title always replaces the title
\* An empty title, or one that starts with "recording" or "new recording",
\* passes for the default, whoever set it.
LooksDefault(t) == t \in {"default", "lookalike"}
Adopts(w) == LooksDefault(task[w].title)
WriteTitle(w) ==
  /\ At(w, "title")
  /\ \/ Adopts(w) /\ title' \in {"ai", "default"}   \* the model's may look like a default one too
     \/ ~Adopts(w) /\ UNCHANGED title
     \/ Missing(w) /\ UNCHANGED title
  /\ Goto(w, "summary")
  /\ UNCHANGED <<textVars, summary, items, statusVars, queue, crashes, historyVars>>

WriteSummary(w) ==
  /\ At(w, "summary")
  /\ summary' = task[w].seen \/ (Missing(w) /\ UNCHANGED summary)
  /\ Goto(w, "wipe")
  /\ UNCHANGED <<textVars, items, title, statusVars, queue, crashes, historyVars>>

Wiped_Never == items   \* mutant: prior extractions are not wiped
Wiped == 0
WipeItems(w) ==
  /\ At(w, "wipe")
  /\ items' = Wiped
  /\ Goto(w, "items")
  /\ UNCHANGED <<textVars, summary, title, statusVars, queue, crashes, historyVars>>

CreateItems(w) ==
  /\ At(w, "items")
  /\ items' = items + 1
  /\ Goto(w, "finish")
  /\ UNCHANGED <<textVars, summary, title, statusVars, queue, crashes, historyVars>>

FinishAnalysis(w) ==
  /\ At(w, "finish")
  /\ outcome' = IF Missing(w) THEN "partial" ELSE "ok"
  /\ Goto(w, "idle")
  /\ UNCHANGED <<textVars, derivedVars, statusVars, queue, crashes, sole, named, statusLost>>

\* A database call of a job raises after the provider answered: the job is
\* requeued, or given up when its attempts are used.
JobOf(a) == IF At(a, "asr") \/ task[a].pc \in StorePc THEN "TRANSCRIPTION" ELSE "ANALYSIS"
Raise(w) ==
  /\ task[w].pc \notin {"idle", "asr"}
  /\ crashes < MaxCrashes /\ crashes' = crashes + 1
  /\ \/ Add(JobOf(w), 1) /\ UNCHANGED <<statusVars, outcome>>
     \/ /\ UNCHANGED queue
        /\ IF JobOf(w) = "ANALYSIS" THEN outcome' = "failed" /\ UNCHANGED statusVars
           ELSE SetStatus("FAILED", "FAILED") /\ UNCHANGED outcome
  /\ Goto(w, "idle")
  /\ sole' = (sole /\ task[w].pc \notin StorePc)
  /\ UNCHANGED <<textVars, derivedVars, named, statusLost>>

\* A killed drainer's job is recovered and run again, unless it had been
\* completed; a killed transcribe-now is not.
Crash(a) ==
  /\ a \in Drainers \cup Nows /\ task[a].pc \notin {"idle", "done"}
  /\ crashes < MaxCrashes /\ crashes' = crashes + 1
  /\ IF a \in Nows \/ At(a, "chain") THEN UNCHANGED queue
     ELSE Add(JobOf(a), 1)
  /\ Goto(a, Resting(a))
  /\ sole' = (sole /\ task[a].pc \notin StorePc)
  /\ statusLost' = (statusLost \/ a \in Nows)
  /\ UNCHANGED <<textVars, derivedVars, statusVars, outcome, named>>

-----------------------------------------------------------------------------
(* The user                                                                *)

\* set_manual_transcript replaces the raw text and nothing else, then the
\* status.
SetManual(u) ==
  /\ At(u, "idle") /\ stored < MaxStores
  /\ stored' = stored + 1 /\ raw' = stored + 1
  /\ kind' = [kind EXCEPT ![stored + 1] = "manual"]
  /\ sole' = FALSE
  /\ Goto(u, "manualStatus")
  /\ UNCHANGED <<refined, segments, derivedVars, statusVars, queue, crashes, outcome, named, statusLost>>

SetManualStatus(u) ==
  /\ At(u, "manualStatus")
  /\ SetStatus("COMPLETED", "COMPLETED")
  /\ Goto(u, "done")
  /\ UNCHANGED <<textVars, derivedVars, queue, crashes, historyVars>>

\* rename_speaker reads the texts, and writes them back with the new label.
RenameRead(u) ==
  /\ At(u, "idle") /\ raw # 0
  /\ task' = [task EXCEPT ![u] =
       [@ EXCEPT !.pc = "renameText", !.seen = raw, !.refined = refined]]
  /\ UNCHANGED <<textVars, derivedVars, statusVars, queue, crashes, historyVars>>

RenameText(u) ==
  /\ At(u, "renameText")
  /\ raw' = task[u].seen /\ refined' = task[u].refined
  /\ sole' = (sole /\ raw' = raw /\ refined' = refined)
  /\ Goto(u, "renameSummary")
  /\ UNCHANGED <<stored, kind, segments, derivedVars, statusVars, queue, crashes,
                 outcome, named, statusLost>>

RenameReadSummary(u) ==
  /\ At(u, "renameSummary")
  /\ \/ summary # 0 /\ Saw(u, "renameSummaryWrite", summary)
     \/ Goto(u, "done")      \* no summary, or the label is not in it
  /\ UNCHANGED <<textVars, derivedVars, statusVars, queue, crashes, historyVars>>

WriteUserSummary(u) ==
  /\ summary' = task[u].seen
  /\ Goto(u, "done")
  /\ UNCHANGED <<textVars, items, title, statusVars, queue, crashes, outcome, named, statusLost>>

RenameSummary(u) ==
  /\ At(u, "renameSummaryWrite")
  /\ sole' = (sole /\ task[u].seen = summary)
  /\ WriteUserSummary(u)

\* regenerate_summary reads the text shown to the user, asks the model, and
\* writes what it answers.
Shown == IF refined # 0 THEN refined ELSE raw
RegenerateRead(u) ==
  /\ At(u, "idle") /\ raw # 0
  /\ Saw(u, "summarize", Shown)
  /\ UNCHANGED <<textVars, derivedVars, statusVars, queue, crashes, historyVars>>

RegenerateWrite(u) ==
  /\ At(u, "summarize") /\ kind[task[u].seen] # "empty"
  /\ sole' = (sole /\ task[u].seen = raw)
  /\ WriteUserSummary(u)

\* The model refuses an empty text, or does not answer.
RegenerateFails(u) ==
  /\ At(u, "summarize")
  /\ Goto(u, "done")
  /\ UNCHANGED <<textVars, derivedVars, statusVars, queue, crashes, historyVars>>

Retitle(u) ==   \* update_recording
  /\ At(u, "idle")
  /\ title' \in {"own", "lookalike"}
  /\ named' = /\ title' = "own"
              /\ named \/ \A w \in Drainers : task[w].pc \notin SnapshotPc
  /\ Goto(u, "done")
  /\ UNCHANGED <<textVars, summary, items, statusVars, queue, crashes, outcome, sole, statusLost>>

-----------------------------------------------------------------------------
\* A recording just enqueued by complete_upload.
Init ==
  /\ stored = 0 /\ kind = [v \in Versions |-> "none"]
  /\ raw = 0 /\ refined = 0 /\ segments = {}
  /\ summary = 0 /\ items = 0 /\ title = "default"
  /\ status = "PROCESSING" /\ tstatus = "QUEUED"
  /\ queue = [TRANSCRIPTION |-> 1, ANALYSIS |-> 0]
  /\ task = [a \in Actors |-> [pc |-> "idle", seen |-> 0, refined |-> 0,
                           title |-> "default", whole |-> TRUE]]
  /\ crashes = 0
  /\ outcome = "none" /\ sole = TRUE /\ named = FALSE /\ statusLost = FALSE

Store(a) ==
  StoreText(a) \/ DeleteSegments(a) \/ CreateSegments(a) \/ FinishStore(a) \/ ChainAnalysis(a)
Analysis(w) ==
  \/ TakeAnalysis(w) \/ ReadText(w) \/ Chat(w) \/ WriteRefined(w) \/ WriteTitle(w)
  \/ WriteSummary(w) \/ WipeItems(w) \/ CreateItems(w) \/ FinishAnalysis(w)
Now(n) == StartNow(n) \/ NowFails(n) \/ NowRequeues(n) \/ NowRemarks(n)
User(u) ==
  \/ SetManual(u) \/ SetManualStatus(u) \/ RenameRead(u) \/ RenameText(u)
  \/ RenameReadSummary(u) \/ RenameSummary(u) \/ RegenerateRead(u) \/ RegenerateWrite(u)
  \/ RegenerateFails(u) \/ Retitle(u)

Next ==
  \/ \E w \in Drainers : TakeTranscription(w) \/ TranscriptionFails(w) \/ Analysis(w) \/ Raise(w)
  \/ \E n \in Nows : Now(n)
  \/ \E a \in Drainers \cup Nows : Store(a) \/ Crash(a)
  \/ \E u \in Users : User(u)

Spec == Init /\ [][Next]_vars

-----------------------------------------------------------------------------
(* Properties                                                              *)

RecStatus == {"PROCESSING", "COMPLETED", "FAILED"}
TranscriptStatus == {"QUEUED", "PROCESSING", "COMPLETED", "FAILED", "UNAVAILABLE"}
TitleSet == {"default", "own", "lookalike", "ai"}
TaskRecord == [pc : PcSet, seen : Versions, refined : Versions, title : TitleSet,
               whole : BOOLEAN]

\* Every variable has the values its declaration describes.
TypeOK ==
  /\ stored \in Versions /\ kind \in [Versions -> Kinds]
  /\ raw \in Versions /\ refined \in Versions /\ segments \subseteq Versions
  /\ summary \in Versions /\ items \in Nat /\ title \in TitleSet
  /\ status \in RecStatus /\ tstatus \in TranscriptStatus
  /\ queue \in [{"TRANSCRIPTION", "ANALYSIS"} -> Nat]
  /\ task \in [Actors -> TaskRecord] /\ crashes \in 0..MaxCrashes
  /\ outcome \in {"none", "ok", "partial", "failed", "empty"}
  /\ sole \in BOOLEAN /\ named \in BOOLEAN /\ statusLost \in BOOLEAN

Settled ==
  /\ queue.TRANSCRIPTION = 0 /\ queue.ANALYSIS = 0
  /\ \A a \in Actors : task[a].pc \in {"idle", "done"}

\* A text that one store wrote undisturbed ends up, whatever ran and crashed
\* before and meanwhile, with the conversation, segments, summary and one set
\* of extractions of that very text, if its analysis succeeded: an analysis
\* of the text it replaced is always overtaken by its own.
SettledText ==
  Settled /\ sole /\ kind[raw] = "words" /\ outcome = "ok" =>
    refined = raw /\ summary = raw /\ segments = {raw} /\ items = 1

\* The segments a reader sees are those of the raw text beside them, never
\* doubled or of an older run, except while a store is replacing them.
TextOfOneRun ==
  sole /\ (\A a \in Actors : ~Window(a)) => segments \subseteq {raw}

\* Why: an undisturbed store has the transcript row and the segment table to
\* itself from its upsert until its segments are in.
StoreInv ==
  sole =>
    /\ \A a, b \in Actors : Window(a) /\ Window(b) => a = b
    /\ \A a \in Actors : Window(a) => task[a].seen = raw
    /\ \A a \in Actors : At(a, "segCreate") => segments = {}
    /\ (\A a \in Actors : ~Window(a)) => segments \subseteq {raw}

\* A title the user set is never replaced by the model's, unless the user set
\* it while an analysis held the recording as it had been, or it looks like a
\* default one: there the code takes it for one the user kept.
TitleKept == named => title = "own"

\* When nothing is left to do the user is told so: no recording is shown as
\* queued or in progress, and none as transcribed that has no transcript.
StatusSettles ==
  Settled /\ ~statusLost =>
    /\ tstatus \notin {"QUEUED", "PROCESSING"}
    /\ tstatus = "COMPLETED" => raw # 0
=============================================================================
