----------------------- MODULE TranscriptStoreProofs -----------------------
(***************************************************************************)
(* For any number of drainers, transcribe-now calls, users, stores and     *)
(* crashes: the segments beside a transcript are those of its text, a      *)
(* title the user set is not overwritten, and statuses settle.  With one   *)
(* drainer, a text that settles is the one everything else derives from.   *)
(***************************************************************************)
EXTENDS TranscriptStore, TLAPS

\* A record field update keeps a task a task.
LEMMA TaskMoves ==
  ASSUME NEW t \in TaskRecord, NEW pc \in PcSet, NEW v \in Versions
  PROVE  /\ [t EXCEPT !.pc = pc] \in TaskRecord
         /\ [t EXCEPT !.pc = pc, !.seen = v] \in TaskRecord
  BY DEF TaskRecord

\* Every step keeps the types of the rows, the queue and the tasks.
LEMMA StoreTypeStep == ASSUME TypeOK, [Next]_vars PROVE TypeOK'
  <1> USE ActorsAssumption DEF TypeOK
  <1>v. /\ 0 \in Versions
        /\ stored < MaxStores => stored + 1 \in Versions
    BY DEF Versions
  <1>a. Drainers \subseteq Actors /\ Nows \subseteq Actors /\ Users \subseteq Actors
    BY DEF Actors
  <1>p. /\ StorePc \subseteq PcSet /\ SnapshotPc \subseteq PcSet
        /\ {"idle", "done", "asr", "requeue", "remark", "summary", "wipe", "items",
            "finish", "manualStatus", "renameText", "renameSummary",
            "renameSummaryWrite", "summarize"} \subseteq PcSet
    BY DEF PcSet
  <1>r. \A a \in Actors : Resting(a) \in PcSet
    BY <1>p DEF Resting
  <1>g. \A a \in Actors, pc \in PcSet : Goto(a, pc) => task' \in [Actors -> TaskRecord]
    <2> TAKE a \in Actors, pc \in PcSet
    <2>1. [task[a] EXCEPT !.pc = pc] \in TaskRecord
      BY TaskMoves, <1>v
    <2> QED
      BY <2>1 DEF Goto
  <1>s. \A a \in Actors, pc \in PcSet, v \in Versions :
          Saw(a, pc, v) => task' \in [Actors -> TaskRecord]
    <2> TAKE a \in Actors, pc \in PcSet, v \in Versions
    <2>1. [task[a] EXCEPT !.pc = pc, !.seen = v] \in TaskRecord
      BY TaskMoves
    <2> QED
      BY <2>1 DEF Saw
  <1>q. \A type \in {"TRANSCRIPTION", "ANALYSIS"} : Add(type, 1) =>
          queue' \in [{"TRANSCRIPTION", "ANALYSIS"} -> Nat]
    BY DEF Add
  <1>t. \A s \in RecStatus, t \in TranscriptStatus :
          SetStatus(s, t) => status' \in RecStatus /\ tstatus' \in TranscriptStatus
    BY DEF SetStatus
  <1>1. CASE UNCHANGED vars
    BY <1>1 DEF vars, textVars, derivedVars, statusVars, historyVars
  <1>2. ASSUME NEW a \in Drainers \cup Nows, Store(a) PROVE TypeOK'
    <2> USE DEF textVars, derivedVars, statusVars, historyVars
    <2>0. a \in Actors
      BY <1>a
    <2>1. CASE StoreText(a)
      <3>1. kind' \in [Versions -> Kinds]
        BY <2>1 DEF StoreText, Kinds
      <3>2. task' \in [Actors -> TaskRecord]
        BY <2>0, <2>1, <1>s, <1>v, "segDelete" \in PcSet DEF StoreText, PcSet, StorePc
      <3>3. sole' \in BOOLEAN
        BY <2>1, Zenon DEF StoreText, Alone
      <3> QED
        BY <2>1, <3>1, <3>2, <3>3, <1>v DEF StoreText, Cleared
    <2>2. CASE DeleteSegments(a)
      BY <2>0, <2>2, <1>g, "segCreate" \in PcSet DEF DeleteSegments, Emptied, PcSet, StorePc
    <2>3. CASE CreateSegments(a)
      <3>1. task[a].seen \in Versions
        BY <2>0 DEF TaskRecord
      <3> QED
        BY <2>0, <2>3, <3>1, <1>g, "mark" \in PcSet DEF CreateSegments, PcSet, StorePc
    <2>4. CASE FinishStore(a)
      <3>1. \E pc \in PcSet : Goto(a, pc)
        BY <2>0, <2>4, <1>r, "chain" \in PcSet DEF FinishStore, PcSet, StorePc
      <3> QED
        BY <2>0, <2>4, <3>1, <1>g, <1>t DEF FinishStore, MarkStored, RecStatus, TranscriptStatus
    <2>5. CASE ChainAnalysis(a)
      BY <2>0, <2>5, <1>r, <1>g, <1>q DEF ChainAnalysis
    <2> QED
      BY <1>2, <2>1, <2>2, <2>3, <2>4, <2>5 DEF Store
  <1>3. ASSUME NEW w \in Drainers, Analysis(w) PROVE TypeOK'
    <2> USE DEF textVars, derivedVars, statusVars, historyVars
    <2>0. w \in Actors /\ task[w] \in TaskRecord /\ task[w].seen \in Versions
      BY <1>a DEF TaskRecord
    <2>1. CASE TakeAnalysis(w)
      <3>1. [task[w] EXCEPT !.pc = "read", !.title = title] \in TaskRecord
        BY <2>0 DEF TaskRecord, PcSet, SnapshotPc
      <3>2. queue' \in [{"TRANSCRIPTION", "ANALYSIS"} -> Nat]
        BY <2>1 DEF TakeAnalysis
      <3> QED
        BY <2>0, <2>1, <3>1, <3>2 DEF TakeAnalysis
    <2>2. CASE ReadText(w)
      <3>1. task' \in [Actors -> TaskRecord]
        BY <2>0, <2>2, <1>g, <1>s, "chat" \in PcSet, "idle" \in PcSet DEF ReadText, PcSet, SnapshotPc
      <3> QED
        BY <2>2, <3>1 DEF ReadText
    <2>3. CASE Chat(w)
      <3>1. \A whole \in BOOLEAN :
              [task[w] EXCEPT !.pc = "refine", !.whole = whole] \in TaskRecord
        BY <2>0 DEF TaskRecord, PcSet, SnapshotPc
      <3>2. task' \in [Actors -> TaskRecord]
        BY <2>0, <2>3, <3>1, <1>g, "idle" \in PcSet DEF Chat, PcSet
      <3> QED
        BY <2>3, <3>2, <1>q DEF Chat
    <2>4. CASE WriteRefined(w)
      BY <2>0, <2>4, <1>v, <1>g, "title" \in PcSet DEF WriteRefined, PcSet, SnapshotPc
    <2>5. CASE WriteTitle(w)
      BY <2>0, <2>5, <1>g, "summary" \in PcSet DEF WriteTitle, TitleSet, PcSet
    <2>6. CASE WriteSummary(w)
      BY <2>0, <2>6, <1>g, "wipe" \in PcSet DEF WriteSummary, PcSet
    <2>7. CASE WipeItems(w)
      BY <2>0, <2>7, <1>g, "items" \in PcSet DEF WipeItems, Wiped, PcSet
    <2>8. CASE CreateItems(w)
      BY <2>0, <2>8, <1>g, "finish" \in PcSet DEF CreateItems, PcSet
    <2>9. CASE FinishAnalysis(w)
      BY <2>0, <2>9, <1>g, "idle" \in PcSet DEF FinishAnalysis, PcSet
    <2> QED
      BY <1>3, <2>1, <2>2, <2>3, <2>4, <2>5, <2>6, <2>7, <2>8, <2>9 DEF Analysis
  <1>4. ASSUME NEW w \in Drainers, TakeTranscription(w) \/ TranscriptionFails(w) \/ Raise(w)
        PROVE TypeOK'
    <2> USE DEF textVars, derivedVars, statusVars, historyVars
    <2>0. w \in Actors
      BY <1>a
    <2>1. CASE TakeTranscription(w)
      <3>1. queue' \in [{"TRANSCRIPTION", "ANALYSIS"} -> Nat]
        BY <2>1 DEF TakeTranscription
      <3> QED
        BY <2>0, <2>1, <3>1, <1>g, <1>t, "asr" \in PcSet
        DEF TakeTranscription, PcSet, RecStatus, TranscriptStatus
    <2>2. CASE TranscriptionFails(w)
      BY <2>0, <2>2, <1>g, <1>q, <1>t, "idle" \in PcSet
      DEF TranscriptionFails, PcSet, RecStatus, TranscriptStatus
    <2>3. CASE Raise(w)
      <3>1. JobOf(w) \in {"TRANSCRIPTION", "ANALYSIS"}
        BY DEF JobOf
      <3>2. sole' \in BOOLEAN
        BY <2>3 DEF Raise
      <3>3. crashes' \in 0..MaxCrashes
        BY <2>3 DEF Raise
      <3>4. /\ status' \in RecStatus /\ tstatus' \in TranscriptStatus
            /\ queue' \in [{"TRANSCRIPTION", "ANALYSIS"} -> Nat]
            /\ outcome' \in {"none", "ok", "partial", "failed", "empty"}
        BY <2>3, <3>1, <1>q, <1>t DEF Raise, RecStatus, TranscriptStatus
      <3> QED
        BY <2>0, <2>3, <3>2, <3>3, <3>4, <1>g, "idle" \in PcSet DEF Raise, PcSet
    <2> QED
      BY <1>4, <2>1, <2>2, <2>3
  <1>5. ASSUME NEW n \in Nows, Now(n) PROVE TypeOK'
    <2> USE DEF textVars, derivedVars, statusVars, historyVars
    <2>0. n \in Actors
      BY <1>a
    <2>1. CASE StartNow(n)
      BY <2>0, <2>1, <1>g, <1>t, "asr" \in PcSet DEF StartNow, PcSet, RecStatus, TranscriptStatus
    <2>2. CASE NowFails(n)
      BY <2>0, <2>2, <1>g, <1>t, "done" \in PcSet, "requeue" \in PcSet
      DEF NowFails, NowFailed, PcSet, RecStatus, TranscriptStatus
    <2>3. CASE NowRequeues(n)
      BY <2>0, <2>3, <1>g, <1>q, "remark" \in PcSet DEF NowRequeues, PcSet
    <2>4. CASE NowRemarks(n)
      <3>1. statusLost' \in BOOLEAN
        BY <2>4 DEF NowRemarks
      <3> QED
        BY <2>0, <2>4, <3>1, <1>g, <1>t, "done" \in PcSet
        DEF NowRemarks, PcSet, RecStatus, TranscriptStatus
    <2> QED
      BY <1>5, <2>1, <2>2, <2>3, <2>4 DEF Now
  <1>6. ASSUME NEW a \in Drainers \cup Nows, Crash(a) PROVE TypeOK'
    <2>0. a \in Actors
      BY <1>a
    <2>1. JobOf(a) \in {"TRANSCRIPTION", "ANALYSIS"}
      BY DEF JobOf
    <2>2. queue' \in [{"TRANSCRIPTION", "ANALYSIS"} -> Nat]
      BY <1>6, <2>1, <1>q DEF Crash
    <2>3. sole' \in BOOLEAN
      BY <1>6 DEF Crash
    <2>4. statusLost' \in BOOLEAN
      BY <1>6, Zenon DEF Crash
    <2>5. crashes' \in 0..MaxCrashes
      BY <1>6 DEF Crash
    <2> QED
      BY <1>6, <2>0, <2>2, <2>3, <2>4, <2>5, <1>g, <1>r
      DEF Crash, textVars, derivedVars, statusVars
  <1>7. ASSUME NEW u \in Users, User(u) PROVE TypeOK'
    <2> USE DEF textVars, derivedVars, statusVars, historyVars
    <2>0. u \in Actors /\ task[u] \in TaskRecord
          /\ task[u].seen \in Versions /\ task[u].refined \in Versions
      BY <1>a DEF TaskRecord
    <2>1. CASE SetManual(u)
      <3>1. kind' \in [Versions -> Kinds]
        BY <2>1 DEF SetManual, Kinds
      <3> QED
        BY <2>0, <2>1, <3>1, <1>v, <1>g, "manualStatus" \in PcSet DEF SetManual, PcSet
    <2>2. CASE SetManualStatus(u)
      BY <2>0, <2>2, <1>g, <1>t, "done" \in PcSet
      DEF SetManualStatus, PcSet, RecStatus, TranscriptStatus
    <2>3. CASE RenameRead(u)
      <3>1. [task[u] EXCEPT !.pc = "renameText", !.seen = raw, !.refined = refined] \in TaskRecord
        BY <2>0 DEF TaskRecord, PcSet
      <3> QED
        BY <2>0, <2>3, <3>1 DEF RenameRead
    <2>4. CASE RenameText(u)
      BY <2>0, <2>4, <1>g, "renameSummary" \in PcSet DEF RenameText, PcSet
    <2>5. CASE RenameReadSummary(u)
      <3>1. task' \in [Actors -> TaskRecord]
        BY <2>0, <2>5, <1>g, <1>s, "renameSummaryWrite" \in PcSet, "done" \in PcSet
        DEF RenameReadSummary, PcSet
      <3> QED
        BY <2>5, <3>1 DEF RenameReadSummary
    <2>6. CASE RenameSummary(u)
      BY <2>0, <2>6, <1>g, "done" \in PcSet DEF RenameSummary, WriteUserSummary, PcSet
    <2>7. CASE RegenerateRead(u)
      <3>1. Shown \in Versions
        BY DEF Shown
      <3> QED
        BY <2>0, <2>7, <3>1, <1>s, "summarize" \in PcSet DEF RegenerateRead, PcSet
    <2>8. CASE RegenerateWrite(u)
      BY <2>0, <2>8, <1>g, "done" \in PcSet DEF RegenerateWrite, WriteUserSummary, PcSet
    <2>10. CASE RegenerateFails(u)
      BY <2>0, <2>10, <1>g, "done" \in PcSet DEF RegenerateFails, PcSet
    <2>9. CASE Retitle(u)
      <3>1. named' \in BOOLEAN
        BY <2>9, Zenon DEF Retitle
      <3> QED
        BY <2>0, <2>9, <3>1, <1>g, "done" \in PcSet DEF Retitle, PcSet, TitleSet
    <2> QED
      BY <1>7, <2>1, <2>2, <2>3, <2>4, <2>5, <2>6, <2>7, <2>8, <2>9, <2>10
      DEF User
  <1> QED
    BY <1>1, <1>2, <1>3, <1>4, <1>5, <1>6, <1>7 DEF Next

\* The transcript row and the segments of an undisturbed store are in the
\* hands of that store alone; an actor outside the window, and a step that
\* disturbs the text, cannot break that.
LEMMA OutsideWindow ==
  ASSUME StoreInv, NEW a \in Actors,
         \A b \in Actors \ {a} : task'[b] = task[b],
         sole' => /\ sole /\ raw' = raw /\ segments' = segments
                  /\ ~Window(a) /\ ~Window(a)'
  PROVE  StoreInv'
  BY DEF StoreInv, Window, At

\* What a move of one actor does to the tasks.
LEMMA TaskMoved ==
  ASSUME TypeOK, NEW a \in Actors, NEW pc \in PcSet
  PROVE  /\ Goto(a, pc) => task'[a].pc = pc /\ task'[a].seen = task[a].seen
         /\ \A v \in Versions : Saw(a, pc, v) => task'[a].pc = pc /\ task'[a].seen = v
         /\ Goto(a, pc) \/ (\E v \in Versions : Saw(a, pc, v))
              => \A b \in Actors \ {a} : task'[b] = task[b]
  BY DEF TypeOK, TaskRecord, Goto, Saw

LEMMA StoreStep == ASSUME TypeOK, StoreInv, [Next]_vars PROVE StoreInv'
  <1> USE DEF At
  <1>a. Drainers \subseteq Actors /\ Nows \subseteq Actors /\ Users \subseteq Actors
    BY DEF Actors
  <1>1. CASE UNCHANGED vars
    BY <1>1 DEF vars, textVars, historyVars, StoreInv, Window
  <1>2. ASSUME NEW a \in Actors, StoreText(a) PROVE StoreInv'
    <2>1. stored + 1 \in Versions
      BY <1>2, ActorsAssumption DEF StoreText, TypeOK, Versions
    <2>2. /\ task'[a].pc = "segDelete" /\ task'[a].seen = stored + 1
          /\ \A b \in Actors \ {a} : task'[b] = task[b]
      BY <1>2, <2>1, TaskMoved DEF StoreText, PcSet, StorePc
    <2>3. sole' => \A b \in Actors \ {a} : ~Window(b)
      BY <1>2 DEF StoreText, Alone
    <2>4. raw' = stored + 1
      BY <1>2 DEF StoreText
    <2> QED
      BY <2>2, <2>3, <2>4 DEF StoreInv, Window
  <1>3. ASSUME NEW a \in Actors, DeleteSegments(a) PROVE StoreInv'
    <2>1. /\ task'[a].pc = "segCreate" /\ task'[a].seen = task[a].seen
          /\ \A b \in Actors \ {a} : task'[b] = task[b]
      BY <1>3, TaskMoved DEF DeleteSegments, PcSet, StorePc
    <2>2. sole' = sole /\ raw' = raw /\ segments' = {}
      BY <1>3 DEF DeleteSegments, Emptied, historyVars
    <2> QED
      BY <1>3, <2>1, <2>2 DEF StoreInv, Window, DeleteSegments
  <1>4. ASSUME NEW a \in Actors, CreateSegments(a) PROVE StoreInv'
    <2>1. /\ task'[a].pc = "mark"
          /\ \A b \in Actors \ {a} : task'[b] = task[b]
      BY <1>4, TaskMoved DEF CreateSegments, PcSet, StorePc
    <2>2. sole' = sole /\ raw' = raw
          /\ segments' \subseteq segments \cup {task[a].seen}
      BY <1>4 DEF CreateSegments, historyVars
    <2>3. Window(a) /\ task[a].pc = "segCreate"
      BY <1>4 DEF CreateSegments, Window
    <2>4. sole => segments' \subseteq {raw} /\ \A b \in Actors \ {a} : ~Window(b)
      BY <2>2, <2>3 DEF StoreInv
    <2> QED
      BY <2>1, <2>2, <2>4 DEF StoreInv, Window
  \* Everybody else stays out of the window, or disturbs the text.
  <1>5. ASSUME NEW a \in Actors,
               FinishStore(a) \/ ChainAnalysis(a) \/ Crash(a) \/ (a \in Drainers /\ Raise(a))
        PROVE  StoreInv'
    <2>1. PICK pc \in {"chain", "idle", "done"} : Goto(a, pc)
      BY <1>5 DEF FinishStore, ChainAnalysis, Crash, Raise, Resting
    <2>2. /\ task'[a].pc = pc
          /\ \A b \in Actors \ {a} : task'[b] = task[b]
      BY <2>1, TaskMoved DEF PcSet, StorePc
    <2>3. sole' => sole /\ raw' = raw /\ segments' = segments /\ ~Window(a)
      BY <1>5 DEF FinishStore, ChainAnalysis, Crash, Raise, Window, StorePc, textVars, historyVars
    <2> QED
      BY <2>1, <2>2, <2>3, OutsideWindow DEF Window
  <1>6. ASSUME NEW w \in Drainers,
               TakeTranscription(w) \/ TranscriptionFails(w) \/ Analysis(w)
        PROVE  StoreInv'
    <2>0. w \in Actors
      BY <1>a
    <2>1. /\ sole' = sole /\ raw' = raw /\ segments' = segments
          /\ ~Window(w)
      BY <1>6 DEF TakeTranscription, TranscriptionFails, Analysis, TakeAnalysis, ReadText,
         Chat, WriteRefined, WriteTitle, WriteSummary, WipeItems, CreateItems,
         FinishAnalysis, Window, textVars, historyVars
    <2>2. CASE TakeAnalysis(w) \/ Chat(w)
      <3>1. task[w] \in TaskRecord /\ task \in [Actors -> TaskRecord]
        BY <2>0 DEF TypeOK
      <3>2. CASE TakeAnalysis(w)
        <4>1. task' = [task EXCEPT ![w] = [task[w] EXCEPT !.pc = "read", !.title = title]]
          BY <3>2 DEF TakeAnalysis
        <4>2. task'[w].pc = "read" /\ \A b \in Actors \ {w} : task'[b] = task[b]
          BY <2>0, <3>1, <4>1 DEF TaskRecord
        <4> QED
          BY <2>0, <2>1, <4>2, OutsideWindow DEF Window
      <3>3. CASE Chat(w)
        <4>1. /\ task'[w].pc \in {"refine", "idle"}
              /\ \A b \in Actors \ {w} : task'[b] = task[b]
          BY <2>0, <3>1, <3>3 DEF Chat, Goto, TaskRecord
        <4> QED
          BY <2>0, <2>1, <4>1, OutsideWindow DEF Window
      <3> QED
        BY <2>2, <3>2, <3>3
    <2>3. CASE ReadText(w)
      <3>1. raw \in Versions
        BY DEF TypeOK
      <3>2. task'[w].pc \in {"chat", "idle"} /\ \A b \in Actors \ {w} : task'[b] = task[b]
        BY <2>0, <2>3, <3>1, TaskMoved DEF ReadText, PcSet, SnapshotPc
      <3> QED
        BY <2>0, <2>1, <3>2, OutsideWindow DEF Window
    <2>4. CASE ~(TakeAnalysis(w) \/ Chat(w) \/ ReadText(w))
      <3>1. PICK pc \in PcSet \ {"segDelete", "segCreate"} : Goto(w, pc)
        <4>1. {"idle", "asr", "title", "summary", "wipe", "items", "finish"}
                \subseteq PcSet \ {"segDelete", "segCreate"}
          BY DEF PcSet, SnapshotPc
        <4>2. CASE TakeTranscription(w)
          BY <4>1, <4>2 DEF TakeTranscription
        <4>3. CASE TranscriptionFails(w)
          BY <4>1, <4>3 DEF TranscriptionFails
        <4>4. CASE Analysis(w)
          BY <2>4, <4>1, <4>4 DEF Analysis,
             WriteRefined, WriteTitle, WriteSummary, WipeItems, CreateItems, FinishAnalysis
        <4> QED
          BY <1>6, <4>2, <4>3, <4>4
      <3>2. task'[w].pc = pc /\ \A b \in Actors \ {w} : task'[b] = task[b]
        BY <2>0, <3>1, TaskMoved
      <3> QED
        BY <2>0, <2>1, <3>2, OutsideWindow DEF Window
    <2> QED
      BY <2>2, <2>3, <2>4
  <1>7. ASSUME NEW n \in Nows, Now(n) PROVE StoreInv'
    <2>0. n \in Actors
      BY <1>a
    <2>1. PICK pc \in {"asr", "done", "requeue", "remark"} : Goto(n, pc)
      BY <1>7 DEF Now, StartNow, NowFails, NowRequeues, NowRemarks
    <2>2. task'[n].pc = pc /\ \A b \in Actors \ {n} : task'[b] = task[b]
      BY <2>0, <2>1, TaskMoved DEF PcSet
    <2>3. sole' = sole /\ raw' = raw /\ segments' = segments /\ ~Window(n)
      BY <1>7 DEF Now, StartNow, NowFails, NowRequeues, NowRemarks, Window, textVars, historyVars
    <2> QED
      BY <2>0, <2>1, <2>2, <2>3, OutsideWindow DEF Window
  <1>8. ASSUME NEW u \in Users, User(u) PROVE StoreInv'
    <2>0. u \in Actors
      BY <1>a
    <2>1. sole' => sole /\ raw' = raw /\ segments' = segments
      BY <1>8 DEF User, SetManual, SetManualStatus, RenameRead, RenameText, RenameReadSummary,
         RenameSummary, RegenerateRead, RegenerateWrite, RegenerateFails, Retitle, WriteUserSummary,
         textVars, historyVars
    <2>2. ~Window(u)
      BY <1>8 DEF User, SetManual, SetManualStatus, RenameRead, RenameText, RenameReadSummary,
         RenameSummary, RegenerateRead, RegenerateWrite, RegenerateFails, Retitle, Window
    <2>3. CASE RenameRead(u)
      BY <2>0, <2>1, <2>2, <2>3, OutsideWindow DEF RenameRead, Window, TypeOK, TaskRecord
    <2>4. CASE RenameReadSummary(u) \/ RegenerateRead(u)
      <3>1. summary \in Versions /\ Shown \in Versions
        BY DEF Shown, TypeOK
      <3>2. /\ task'[u].pc \in {"renameSummaryWrite", "done", "summarize"}
            /\ \A b \in Actors \ {u} : task'[b] = task[b]
        BY <2>0, <2>4, <3>1, TaskMoved DEF RenameReadSummary, RegenerateRead, PcSet
      <3> QED
        BY <2>0, <2>1, <2>2, <3>2, OutsideWindow DEF Window
    <2>5. CASE ~(RenameRead(u) \/ RenameReadSummary(u) \/ RegenerateRead(u))
      <3>1. PICK pc \in {"manualStatus", "done", "renameSummary"} : Goto(u, pc)
        BY <1>8, <2>5 DEF User, SetManual, SetManualStatus, RenameText, RenameSummary,
           RegenerateWrite, RegenerateFails, WriteUserSummary, Retitle
      <3>2. task'[u].pc = pc /\ \A b \in Actors \ {u} : task'[b] = task[b]
        BY <2>0, <3>1, TaskMoved DEF PcSet
      <3> QED
        BY <2>0, <2>1, <2>2, <3>1, <3>2, OutsideWindow DEF Window
    <2> QED
      BY <2>3, <2>4, <2>5
  <1> QED
    BY <1>a, <1>1, <1>2, <1>3, <1>4, <1>5, <1>6, <1>7, <1>8 DEF Next, Store

\* Every variable keeps the values its declaration describes.
THEOREM TranscriptTypes == Spec => []TypeOK
<1>1. Init => TypeOK
  <2> SUFFICES ASSUME Init PROVE TypeOK
    OBVIOUS
  <2>1. 0 \in Versions /\ 0 \in 0..MaxCrashes
    BY ActorsAssumption DEF Versions
  <2>2. task \in [Actors -> TaskRecord]
    BY <2>1 DEF Init, TaskRecord, PcSet, TitleSet
  <2>3. /\ status \in RecStatus /\ tstatus \in TranscriptStatus
        /\ queue \in [{"TRANSCRIPTION", "ANALYSIS"} -> Nat]
    BY DEF Init, RecStatus, TranscriptStatus
  <2> QED
    BY <2>1, <2>2, <2>3 DEF Init, TypeOK, Kinds, TitleSet
<1> QED
  BY <1>1, StoreTypeStep, PTL DEF Spec

\* An undisturbed store has the transcript row and the segment table to itself.
THEOREM StoreUndisturbed == Spec => []StoreInv
<1>1. Init => StoreInv
  BY DEF Init, StoreInv, Window, At
<1> QED
  BY <1>1, StoreStep, TranscriptTypes, PTL DEF Spec

\* Outside that window the segments are those of the raw text: a retried,
\* killed or repeated transcription never doubles or mixes them.
THEOREM SegmentsOfOneRun == Spec => []TextOfOneRun
<1>1. StoreInv => TextOfOneRun
  BY DEF StoreInv, TextOfOneRun
<1> QED
  BY <1>1, StoreUndisturbed, PTL

\* Why a title of the user's own survives: the copy of the title that an
\* analysis in progress decides by does not look like a default one either.
TitleInv == named =>
  /\ title = "own"
  /\ \A w \in Drainers : task[w].pc \in SnapshotPc => ~LooksDefault(task[w].title)

\* A step that leaves the title alone, and no drainer with a new copy of it.
LEMMA TitleUntouched ==
  ASSUME TitleInv, named' = named, title' = title, NEW a \in Actors,
         \A b \in Actors \ {a} : task'[b] = task[b],
         a \in Drainers /\ task'[a].pc \in SnapshotPc =>
           task[a].pc \in SnapshotPc /\ task'[a].title = task[a].title
  PROVE  TitleInv'
  BY DEF TitleInv, Actors

\* A move keeps the copy of the title.
LEMMA TitleMoved ==
  ASSUME TypeOK, NEW a \in Actors, NEW pc \in PcSet
  PROVE  /\ Goto(a, pc) => task'[a].title = task[a].title
         /\ \A v \in Versions : Saw(a, pc, v) => task'[a].title = task[a].title
  BY DEF TypeOK, TaskRecord, Goto, Saw

LEMMA TitleStep == ASSUME TypeOK, TitleInv, [Next]_vars PROVE TitleInv'
  <1> USE DEF At
  <1>a. /\ Drainers \subseteq Actors /\ Nows \subseteq Actors /\ Users \subseteq Actors
        /\ Drainers \cap Users = {} /\ Drainers \cap Nows = {}
    BY ActorsAssumption DEF Actors
  <1>p. /\ StorePc \subseteq PcSet /\ SnapshotPc \subseteq PcSet
        /\ StorePc \cap SnapshotPc = {} /\ "idle" \notin SnapshotPc /\ "done" \notin SnapshotPc
    BY DEF PcSet, StorePc, SnapshotPc
  <1>1. CASE UNCHANGED vars
    BY <1>1 DEF vars, derivedVars, historyVars, TitleInv
  <1>2. ASSUME NEW a \in Drainers \cup Nows, Store(a) \/ Crash(a) \/ (a \in Drainers /\ Raise(a))
        PROVE  TitleInv'
    <2>0. a \in Actors /\ (stored + 1 \in Versions \/ ~StoreText(a))
      BY <1>a, ActorsAssumption DEF TypeOK, Versions, StoreText
    <2>1. \/ \E pc \in StorePc \cup {"idle", "done"} : Goto(a, pc)
          \/ Saw(a, "segDelete", stored + 1) /\ stored + 1 \in Versions
      BY <1>2, <2>0 DEF Store, StoreText, DeleteSegments, CreateSegments, FinishStore,
         ChainAnalysis, Crash, Raise, Resting, StorePc
    <2>2. /\ task'[a].pc \in StorePc \cup {"idle", "done"}
          /\ \A b \in Actors \ {a} : task'[b] = task[b]
      <3>1. \A pc \in StorePc \cup {"idle", "done"} : pc \in PcSet
        BY DEF PcSet
      <3>2. "segDelete" \in StorePc
        BY DEF StorePc
      <3> QED
        BY <1>a, <2>1, <3>1, <3>2, TaskMoved
    <2>3. named' = named /\ title' = title
      BY <1>2 DEF Store, StoreText, DeleteSegments, CreateSegments, FinishStore,
         ChainAnalysis, Crash, Raise, derivedVars, historyVars
    <2> QED
      BY <1>a, <1>p, <2>2, <2>3, TitleUntouched
  <1>3. ASSUME NEW w \in Drainers, TakeAnalysis(w) PROVE TitleInv'
    <2>1. task' = [task EXCEPT ![w] = [task[w] EXCEPT !.pc = "read", !.title = title]]
      BY <1>3 DEF TakeAnalysis
    <2>2. task'[w].title = title /\ \A b \in Actors \ {w} : task'[b] = task[b]
      BY <1>a, <2>1 DEF TypeOK, TaskRecord
    <2>3. named' = named /\ title' = title
      BY <1>3 DEF TakeAnalysis, derivedVars, historyVars
    <2> QED
      BY <1>a, <2>2, <2>3 DEF TitleInv, LooksDefault
  <1>4. ASSUME NEW w \in Drainers, WriteTitle(w) PROVE TitleInv'
    <2>1. task'[w].pc = "summary" /\ \A b \in Actors \ {w} : task'[b] = task[b]
      BY <1>a, <1>4, TaskMoved DEF WriteTitle, PcSet
    <2>2. named => title' = title
      BY <1>4 DEF WriteTitle, Adopts, TitleInv, SnapshotPc
    <2>3. named' = named
      BY <1>4 DEF WriteTitle, historyVars
    <2> QED
      BY <1>a, <2>1, <2>2, <2>3 DEF TitleInv, SnapshotPc
  <1>5. ASSUME NEW w \in Drainers, Chat(w) PROVE TitleInv'
    <2>1. CASE Goto(w, "idle")
      <3>1. /\ task'[w].title = task[w].title
            /\ \A b \in Actors \ {w} : task'[b] = task[b]
        BY <1>a, <2>1, TaskMoved, TitleMoved DEF PcSet
      <3> QED
        BY <1>a, <1>5, <3>1, TitleUntouched DEF Chat, derivedVars, SnapshotPc
    <2>2. CASE ~Goto(w, "idle")
      <3>1. PICK whole \in BOOLEAN :
              task' = [task EXCEPT ![w] = [task[w] EXCEPT !.pc = "refine", !.whole = whole]]
        BY <1>5, <2>2 DEF Chat
      <3>2. task[w] \in TaskRecord /\ task \in [Actors -> TaskRecord]
        BY <1>a DEF TypeOK
      <3>3. [task[w] EXCEPT !.pc = "refine", !.whole = whole].title = task[w].title
        BY <3>2 DEF TaskRecord
      <3>4. /\ task'[w].title = task[w].title
            /\ \A b \in Actors \ {w} : task'[b] = task[b]
        BY <1>a, <3>1, <3>2, <3>3
      <3> QED
        BY <1>a, <1>5, <3>4, TitleUntouched DEF Chat, derivedVars, SnapshotPc
    <2> QED
      BY <2>1, <2>2
  <1>6. ASSUME NEW w \in Drainers, ReadText(w) \/ WriteRefined(w) PROVE TitleInv'
    <2>0. raw \in Versions /\ {"chat", "idle", "title"} \subseteq PcSet
      BY DEF TypeOK, PcSet, SnapshotPc
    <2>1. Saw(w, "chat", raw) \/ Goto(w, "idle") \/ Goto(w, "title")
      BY <1>6 DEF ReadText, WriteRefined
    <2>2. /\ task'[w].title = task[w].title
          /\ \A b \in Actors \ {w} : task'[b] = task[b]
      BY <1>a, <2>0, <2>1, TaskMoved, TitleMoved
    <2>3. named' = named /\ title' = title /\ task[w].pc \in SnapshotPc
      BY <1>6 DEF ReadText, WriteRefined, derivedVars, historyVars, SnapshotPc
    <2> QED
      BY <1>a, <2>2, <2>3, TitleUntouched
  <1>7. ASSUME NEW w \in Drainers,
               \/ TakeTranscription(w) \/ TranscriptionFails(w)
               \/ WriteSummary(w) \/ WipeItems(w) \/ CreateItems(w) \/ FinishAnalysis(w)
        PROVE  TitleInv'
    <2>1. PICK pc \in {"asr", "idle", "wipe", "items", "finish"} : Goto(w, pc)
      BY <1>7 DEF TakeTranscription, TranscriptionFails, WriteSummary, WipeItems,
         CreateItems, FinishAnalysis
    <2>2. task'[w].pc = pc /\ \A b \in Actors \ {w} : task'[b] = task[b]
      BY <1>a, <2>1, TaskMoved DEF PcSet
    <2>3. named' = named /\ title' = title
      BY <1>7 DEF TakeTranscription, TranscriptionFails, WriteSummary, WipeItems,
         CreateItems, FinishAnalysis, derivedVars, historyVars
    <2> QED
      BY <1>a, <2>1, <2>2, <2>3, TitleUntouched DEF SnapshotPc
  <1>8. ASSUME NEW n \in Nows, Now(n) PROVE TitleInv'
    <2>1. PICK pc \in {"asr", "done", "requeue", "remark"} : Goto(n, pc)
      BY <1>8 DEF Now, StartNow, NowFails, NowRequeues, NowRemarks
    <2>2. \A b \in Actors \ {n} : task'[b] = task[b]
      BY <1>a, <2>1, TaskMoved DEF PcSet
    <2>3. named' = named /\ title' = title /\ n \notin Drainers
      BY <1>a, <1>8 DEF Now, StartNow, NowFails, NowRequeues, NowRemarks, derivedVars, historyVars
    <2> QED
      BY <1>a, <2>2, <2>3, TitleUntouched
  <1>9. ASSUME NEW u \in Users, User(u) PROVE TitleInv'
    <2>1. \A w \in Drainers : task'[w] = task[w]
      BY <1>9, <1>a DEF User, SetManual, SetManualStatus, RenameRead, RenameText,
         RenameReadSummary, RenameSummary, RegenerateRead, RegenerateWrite, RegenerateFails, Retitle,
         WriteUserSummary, Goto, Saw, TypeOK
    <2>2. CASE Retitle(u)
      <3>1. named' => /\ title' = "own"
                      /\ named \/ \A w \in Drainers : task[w].pc \notin SnapshotPc
        BY <2>2 DEF Retitle
      <3> QED
        BY <2>1, <3>1 DEF TitleInv
    <2>3. CASE ~Retitle(u)
      <3>1. named' = named /\ title' = title
        BY <1>9, <2>3 DEF User, SetManual, SetManualStatus, RenameRead, RenameText,
           RenameReadSummary, RenameSummary, RegenerateRead, RegenerateWrite,
           RegenerateFails, WriteUserSummary, derivedVars, historyVars
      <3> QED
        BY <2>1, <3>1 DEF TitleInv
    <2> QED
      BY <2>2, <2>3
  <1> QED
    BY <1>1, <1>2, <1>3, <1>4, <1>5, <1>6, <1>7, <1>8, <1>9 DEF Next, Analysis

\* A title of the user's own, set while no analysis held a copy of the
\* recording, stays.
THEOREM UserTitleKept == Spec => []TitleKept
<1>1. Init => TitleInv
  BY DEF Init, TitleInv
<1>2. TitleInv => TitleKept
  BY DEF TitleInv, TitleKept
<1> QED
  BY <1>1, <1>2, TitleStep, TranscriptTypes, PTL DEF Spec

-----------------------------------------------------------------------------
(* Statuses: as long as a recording is shown as queued or in progress, a   *)
(* job, a call or a drainer will write its status again                    *)

\* What a step does to the task of its actor.
Moved(a, pc, v) ==
  /\ \A b \in Actors \ {a} : task'[b] = task[b]
  /\ task'[a].pc = pc /\ task'[a].seen = v
  /\ task'[a].refined = task[a].refined /\ task'[a].whole = task[a].whole

LEMMA Moves ==
  ASSUME TypeOK, NEW a \in Actors, NEW pc
  PROVE  /\ Goto(a, pc) => Moved(a, pc, task[a].seen)
         /\ \A v : Saw(a, pc, v) => Moved(a, pc, v)
<1>1. task \in [Actors -> TaskRecord] /\ task[a] \in TaskRecord
  BY DEF TypeOK
<1>2. /\ [task[a] EXCEPT !.pc = pc].pc = pc
      /\ [task[a] EXCEPT !.pc = pc].seen = task[a].seen
      /\ [task[a] EXCEPT !.pc = pc].refined = task[a].refined
      /\ [task[a] EXCEPT !.pc = pc].whole = task[a].whole
  BY <1>1 DEF TaskRecord
<1>3. ASSUME NEW v
      PROVE  /\ [task[a] EXCEPT !.pc = pc, !.seen = v].pc = pc
             /\ [task[a] EXCEPT !.pc = pc, !.seen = v].seen = v
             /\ [task[a] EXCEPT !.pc = pc, !.seen = v].refined = task[a].refined
             /\ [task[a] EXCEPT !.pc = pc, !.seen = v].whole = task[a].whole
  BY <1>1 DEF TaskRecord
<1>4. Goto(a, pc) => Moved(a, pc, task[a].seen)
  BY <1>1, <1>2 DEF Goto, Moved
<1>5. \A v : Saw(a, pc, v) => Moved(a, pc, v)
  BY <1>1, <1>3 DEF Saw, Moved
<1> QED
  BY <1>4, <1>5

\* The three steps that write another field.
LEMMA OtherMoves ==
  ASSUME TypeOK, NEW a \in Actors
  PROVE  /\ TakeAnalysis(a) => Moved(a, "read", task[a].seen)
         /\ \A whole : task' = [task EXCEPT ![a] = [@ EXCEPT !.pc = "refine", !.whole = whole]]
              => /\ \A b \in Actors \ {a} : task'[b] = task[b]
                 /\ task'[a].pc = "refine" /\ task'[a].seen = task[a].seen
                 /\ task'[a].refined = task[a].refined
         /\ RenameRead(a) => /\ \A b \in Actors \ {a} : task'[b] = task[b]
                             /\ task'[a].pc = "renameText" /\ task'[a].seen = raw
                             /\ task'[a].refined = refined
<1>1. task \in [Actors -> TaskRecord] /\ task[a] \in TaskRecord
  BY DEF TypeOK
<1>2. TakeAnalysis(a) => Moved(a, "read", task[a].seen)
  BY <1>1 DEF TakeAnalysis, TaskRecord, Moved
<1>3. RenameRead(a) => /\ \A b \in Actors \ {a} : task'[b] = task[b]
                       /\ task'[a].pc = "renameText" /\ task'[a].seen = raw
                       /\ task'[a].refined = refined
  BY <1>1 DEF RenameRead, TaskRecord
<1>4. ASSUME NEW whole, task' = [task EXCEPT ![a] = [@ EXCEPT !.pc = "refine", !.whole = whole]]
      PROVE  /\ \A b \in Actors \ {a} : task'[b] = task[b]
             /\ task'[a].pc = "refine" /\ task'[a].seen = task[a].seen
             /\ task'[a].refined = task[a].refined
  BY <1>1, <1>4 DEF TaskRecord
<1> QED
  BY <1>2, <1>3, <1>4

AnalysisPc == {"read", "chat", "refine", "title", "summary", "wipe", "items", "finish"}
Waiting == {"QUEUED", "PROCESSING"}
Carries(a) == task[a].pc \in {"asr", "segDelete", "segCreate", "mark", "requeue"}
Pending == queue.TRANSCRIPTION > 0 \/ \E a \in Actors : Carries(a)
HasText(a) ==
  /\ task[a].pc \in StorePc \cup {"manualStatus"} => raw # 0
  /\ At(a, "renameText") => task[a].seen # 0
  /\ At(a, "requeue") => a \in Nows
StatusInv ==
  /\ ~statusLost /\ tstatus \in Waiting => Pending
  /\ tstatus = "COMPLETED" => raw # 0
  /\ \A a \in Actors : HasText(a)

LEMMA StatusFrame ==
  ASSUME TypeOK, StatusInv, NEW a \in Actors, \A b \in Actors \ {a} : task'[b] = task[b],
         raw # 0 => raw' # 0, HasText(a)', tstatus' = "COMPLETED" => raw' # 0,
         \/ tstatus' \notin Waiting \/ statusLost' \/ Carries(a)' \/ queue'.TRANSCRIPTION > 0
         \/ /\ UNCHANGED <<tstatus, statusLost>>
            /\ ~Carries(a) /\ queue'.TRANSCRIPTION = queue.TRANSCRIPTION
  PROVE  StatusInv'
<1>1. \A b \in Actors : HasText(b)'
  BY DEF StatusInv, HasText, At
<1>2. ~statusLost' /\ tstatus' \in Waiting => Pending'
  BY DEF StatusInv, Pending, Carries
<1> QED
  BY <1>1, <1>2 DEF StatusInv

LEMMA Queues ==
  ASSUME TypeOK, NEW type \in {"TRANSCRIPTION", "ANALYSIS"}, Add(type, 1)
  PROVE  /\ queue'[type] = queue[type] + 1 /\ queue'[type] > 0
         /\ \A other \in {"TRANSCRIPTION", "ANALYSIS"} \ {type} : queue'[other] = queue[other]
  BY DEF TypeOK, Add

LEMMA StatusNext == ASSUME TypeOK, StatusInv, [Next]_vars PROVE StatusInv'
<1> USE DEF At
<1>a. /\ Drainers \subseteq Actors /\ Nows \subseteq Actors /\ Users \subseteq Actors
      /\ Drainers \cap Nows = {}
  BY ActorsAssumption DEF Actors
<1>k. \A a \in Actors : HasText(a)
  BY DEF StatusInv
<1>n. stored + 1 # 0 /\ queue.TRANSCRIPTION \in Nat
  BY DEF TypeOK, Versions
<1>1. CASE UNCHANGED vars
  BY <1>1 DEF vars, textVars, statusVars, historyVars, StatusInv, Pending, Carries, HasText
<1>2. ASSUME NEW a \in Drainers \cup Nows, Store(a) PROVE StatusInv'
  <2>0. a \in Actors
    BY <1>a
  <2>1. CASE StoreText(a)
    <3>1. Moved(a, "segDelete", stored + 1) /\ raw' = stored + 1
      BY <2>0, <2>1, Moves DEF StoreText
    <3>2. UNCHANGED <<tstatus>>
      BY <2>1 DEF StoreText, statusVars
    <3> QED
      BY <1>n, <2>0, <3>1, <3>2, StatusFrame DEF Moved, HasText, Carries, StorePc
  <2>2. CASE DeleteSegments(a)
    <3>1. Moved(a, "segCreate", task[a].seen) /\ task[a].pc = "segDelete"
      BY <2>0, <2>2, Moves DEF DeleteSegments
    <3>2. UNCHANGED <<raw, tstatus>>
      BY <2>2 DEF DeleteSegments, statusVars
    <3> QED
      BY <1>k, <2>0, <3>1, <3>2, StatusFrame DEF Moved, HasText, Carries, StorePc, StatusInv
  <2>3. CASE CreateSegments(a)
    <3>1. Moved(a, "mark", task[a].seen) /\ task[a].pc = "segCreate"
      BY <2>0, <2>3, Moves DEF CreateSegments
    <3>2. UNCHANGED <<raw, tstatus>>
      BY <2>3 DEF CreateSegments, statusVars
    <3> QED
      BY <1>k, <2>0, <3>1, <3>2, StatusFrame DEF Moved, HasText, Carries, StorePc, StatusInv
  <2>4. CASE FinishStore(a)
    <3>1. PICK pc \in {"chain", "idle", "done"} : Goto(a, pc)
      BY <2>4 DEF FinishStore, Resting
    <3>2. Moved(a, pc, task[a].seen) /\ task[a].pc = "mark"
      BY <2>0, <2>4, <3>1, Moves DEF FinishStore
    <3>3. raw' = raw /\ tstatus' = "COMPLETED" /\ raw # 0
      BY <1>k, <2>0, <2>4, <3>2 DEF FinishStore, MarkStored, SetStatus, textVars, HasText, StorePc
    <3> QED
      BY <2>0, <3>2, <3>3, StatusFrame DEF Moved, HasText, StorePc, Waiting
  <2>5. CASE ChainAnalysis(a)
    <3>1. PICK pc \in {"idle", "done"} : Goto(a, pc)
      BY <2>5 DEF ChainAnalysis, Resting
    <3>2. Moved(a, pc, task[a].seen) /\ task[a].pc = "chain"
      BY <2>0, <2>5, <3>1, Moves DEF ChainAnalysis
    <3>3. UNCHANGED <<raw, tstatus, statusLost>> /\ queue'.TRANSCRIPTION = queue.TRANSCRIPTION
      BY <2>5, Queues DEF ChainAnalysis, textVars, statusVars, historyVars
    <3> QED
      BY <2>0, <3>2, <3>3, StatusFrame DEF Moved, HasText, Carries, StorePc, StatusInv
  <2> QED
    BY <1>2, <2>1, <2>2, <2>3, <2>4, <2>5 DEF Store
<1>3. ASSUME NEW w \in Drainers, TakeTranscription(w) PROVE StatusInv'
  <2>1. Moved(w, "asr", task[w].seen) /\ raw' = raw /\ tstatus' = "PROCESSING"
    BY <1>a, <1>3, Moves DEF TakeTranscription, textVars, SetStatus
  <2> QED
    BY <1>a, <2>1, StatusFrame DEF Moved, HasText, Carries, StorePc
<1>4. ASSUME NEW w \in Drainers, TranscriptionFails(w) PROVE StatusInv'
  <2>1. Moved(w, "idle", task[w].seen) /\ raw' = raw
    BY <1>a, <1>4, Moves DEF TranscriptionFails, textVars
  <2>2. \/ queue'.TRANSCRIPTION > 0 /\ tstatus' \in {tstatus, "QUEUED", "FAILED"}
        \/ tstatus' \in {"FAILED", "UNAVAILABLE"}
    BY <1>4, Queues DEF TranscriptionFails, SetStatus, statusVars
  <2>3. tstatus' = "COMPLETED" => raw' # 0
    BY <2>1, <2>2 DEF StatusInv
  <2> QED
    BY <1>a, <2>1, <2>2, <2>3, StatusFrame DEF Moved, HasText, StorePc, Waiting
\* The analysis and what the user does to text and titles keep the statuses.
<1>5. ASSUME NEW a \in Actors, \A b \in Actors \ {a} : task'[b] = task[b],
             task'[a].pc \notin StorePc \cup {"manualStatus", "renameText", "requeue"}, ~Carries(a),
             UNCHANGED <<raw, tstatus, statusLost>>,
             queue'.TRANSCRIPTION = queue.TRANSCRIPTION
      PROVE  StatusInv'
  BY <1>5, StatusFrame DEF HasText, StatusInv
<1>6. ASSUME NEW w \in Drainers, Analysis(w) PROVE StatusInv'
  <2>1. /\ UNCHANGED <<raw, tstatus, statusLost>>
        /\ queue'.TRANSCRIPTION = queue.TRANSCRIPTION /\ ~Carries(w)
    <3>1. UNCHANGED <<raw, tstatus, statusLost>> /\ ~Carries(w)
      BY <1>6 DEF Analysis, TakeAnalysis, ReadText, Chat, WriteRefined, WriteTitle, WriteSummary,
         WipeItems, CreateItems, FinishAnalysis, textVars, statusVars, historyVars, Carries
    <3>2. CASE TakeAnalysis(w)
      BY <3>1, <3>2 DEF TakeAnalysis, TypeOK
    <3>3. CASE ~TakeAnalysis(w)
      <4>1. queue' = queue \/ Add("ANALYSIS", 1)
        BY <1>6, <3>3 DEF Analysis, ReadText, Chat, WriteRefined, WriteTitle, WriteSummary,
           WipeItems, CreateItems, FinishAnalysis
      <4> QED
        BY <3>1, <4>1, Queues
    <3> QED
      BY <3>2, <3>3
  <2>2. /\ \A b \in Actors \ {w} : task'[b] = task[b]
        /\ task'[w].pc \in AnalysisPc \cup {"idle"}
    <3>1. CASE TakeAnalysis(w) \/ Chat(w) \/ ReadText(w)
      <4>1. \/ Moved(w, "read", task[w].seen) \/ Goto(w, "idle") \/ Saw(w, "chat", raw)
            \/ \E whole : task' = [task EXCEPT ![w] = [@ EXCEPT !.pc = "refine", !.whole = whole]]
        BY <1>a, <3>1, OtherMoves DEF Chat, ReadText
      <4>2. CASE \E whole : task' = [task EXCEPT ![w] = [@ EXCEPT !.pc = "refine", !.whole = whole]]
        BY <1>a, <4>2, OtherMoves DEF AnalysisPc
      <4>3. CASE Moved(w, "read", task[w].seen) \/ Goto(w, "idle") \/ Saw(w, "chat", raw)
        BY <1>a, <4>3, Moves DEF Moved, AnalysisPc
      <4> QED
        BY <4>1, <4>2, <4>3
    <3>2. CASE ~(TakeAnalysis(w) \/ Chat(w) \/ ReadText(w))
      <4>1. PICK pc \in AnalysisPc \cup {"idle"} : Goto(w, pc)
        BY <1>6, <3>2 DEF Analysis, WriteRefined, WriteTitle, WriteSummary, WipeItems,
           CreateItems, FinishAnalysis, AnalysisPc
      <4> QED
        BY <1>a, <4>1, Moves DEF Moved
    <3> QED
      BY <3>1, <3>2
  <2> QED
    BY <1>a, <1>5, <2>1, <2>2 DEF AnalysisPc, StorePc
<1>7. ASSUME NEW w \in Drainers, Raise(w) PROVE StatusInv'
  <2>1. Moved(w, "idle", task[w].seen) /\ raw' = raw /\ statusLost' = statusLost
    BY <1>a, <1>7, Moves DEF Raise, textVars
  <2>2. \/ tstatus' = "FAILED"
        \/ tstatus' = tstatus /\ Add("TRANSCRIPTION", 1)
        \/ tstatus' = tstatus /\ task[w].pc \notin StorePc /\ (queue' = queue \/ Add("ANALYSIS", 1))
    BY <1>7 DEF Raise, JobOf, SetStatus, statusVars
  <2>3. task[w].pc # "asr" /\ task[w].pc # "requeue"
    BY <1>a, <1>k, <1>7 DEF Raise, HasText
  <2>4. \/ tstatus' = "FAILED"
        \/ tstatus' = tstatus /\ queue'.TRANSCRIPTION > 0
        \/ /\ tstatus' = tstatus /\ ~Carries(w)
           /\ queue'.TRANSCRIPTION = queue.TRANSCRIPTION
    BY <2>2, <2>3, Queues DEF StorePc, Carries
  <2> QED
    BY <1>a, <2>1, <2>4, StatusFrame DEF Moved, HasText, StorePc, Waiting, StatusInv
<1>8. ASSUME NEW a \in Drainers \cup Nows, Crash(a) PROVE StatusInv'
  <2>0. a \in Actors
    BY <1>a
  <2>1. PICK pc \in {"idle", "done"} : Goto(a, pc)
    BY <1>8 DEF Crash, Resting
  <2>2. Moved(a, pc, task[a].seen) /\ raw' = raw /\ tstatus' = tstatus
    BY <2>0, <2>1, <1>8, Moves DEF Crash, textVars, statusVars
  <2>3. CASE a \in Nows
    <3>1. statusLost'
      BY <1>8, <2>3 DEF Crash
    <3> QED
      BY <2>0, <2>2, <3>1, StatusFrame DEF Moved, HasText, StorePc, StatusInv
  <2>4. CASE a \notin Nows
    <3>1. statusLost' = statusLost /\ task[a].pc # "requeue"
      BY <1>8, <2>0, <2>4, <1>k DEF Crash, HasText, TypeOK
    <3>2. \/ queue' = queue /\ task[a].pc = "chain"
          \/ Add("TRANSCRIPTION", 1)
          \/ task[a].pc \notin StorePc \cup {"asr"} /\ Add("ANALYSIS", 1)
      BY <1>8, <2>4 DEF Crash, JobOf
    <3>3. \/ queue'.TRANSCRIPTION > 0
          \/ ~Carries(a) /\ queue'.TRANSCRIPTION = queue.TRANSCRIPTION
      BY <3>1, <3>2, Queues DEF StorePc, Carries
    <3> QED
      BY <2>0, <2>2, <3>1, <3>3, StatusFrame DEF Moved, HasText, StorePc, StatusInv
  <2> QED
    BY <2>3, <2>4
<1>9. ASSUME NEW n \in Nows, Now(n) PROVE StatusInv'
  <2>0. n \in Actors /\ raw' = raw
    BY <1>a, <1>9 DEF Now, StartNow, NowFails, NowRequeues, NowRemarks, textVars
  <2>1. CASE StartNow(n)
    <3>1. Moved(n, "asr", task[n].seen) /\ tstatus' = "PROCESSING"
      BY <2>0, <2>1, Moves DEF StartNow, SetStatus
    <3> QED
      BY <2>0, <3>1, StatusFrame DEF Moved, HasText, Carries, StorePc
  <2>2. CASE NowFails(n)
    <3>1. \/ Moved(n, "done", task[n].seen) /\ tstatus' \in {"FAILED", "UNAVAILABLE"}
          \/ Moved(n, "requeue", task[n].seen) /\ tstatus' = "QUEUED"
      BY <2>0, <2>2, Moves DEF NowFails, NowFailed, SetStatus
    <3> QED
      BY <2>0, <3>1, StatusFrame DEF Moved, HasText, Carries, StorePc, Waiting
  <2>3. CASE NowRequeues(n)
    <3>1. Moved(n, "remark", task[n].seen) /\ queue'.TRANSCRIPTION > 0 /\ tstatus' = tstatus
      BY <2>0, <2>3, Moves, Queues DEF NowRequeues, statusVars
    <3> QED
      BY <2>0, <3>1, StatusFrame DEF Moved, HasText, StorePc, StatusInv
  <2>4. CASE NowRemarks(n)
    <3>1. /\ Moved(n, "done", task[n].seen) /\ task[n].pc = "remark" /\ queue' = queue
          /\ tstatus' = "QUEUED"
          /\ statusLost' = (statusLost \/ tstatus \in {"COMPLETED", "FAILED", "UNAVAILABLE"})
      BY <2>0, <2>4, Moves DEF NowRemarks, SetStatus
    <3>2. \A b \in Actors : HasText(b)'
      BY <1>k, <2>0, <3>1 DEF Moved, HasText, StorePc
    <3>3. ~statusLost' => Pending'
      <4>1. ~statusLost' => Pending
        BY <3>1 DEF StatusInv, Waiting, TypeOK, TranscriptStatus
      <4> QED
        BY <2>0, <3>1, <4>1 DEF Pending, Carries, Moved
    <3> QED
      BY <3>1, <3>2, <3>3 DEF StatusInv
  <2> QED
    BY <1>9, <2>1, <2>2, <2>3, <2>4 DEF Now
<1>10. ASSUME NEW u \in Users, User(u) PROVE StatusInv'
  <2>0. u \in Actors
    BY <1>a
  <2>1. CASE SetManual(u)
    <3>1. Moved(u, "manualStatus", task[u].seen) /\ raw' = stored + 1 /\ task[u].pc = "idle"
      BY <2>0, <2>1, Moves DEF SetManual
    <3>2. UNCHANGED <<tstatus, statusLost, queue>>
      BY <2>1 DEF SetManual, statusVars
    <3> QED
      BY <1>n, <2>0, <3>1, <3>2, StatusFrame DEF Moved, HasText, Carries, StorePc
  <2>2. CASE SetManualStatus(u)
    <3>1. Moved(u, "done", task[u].seen) /\ raw' = raw /\ raw # 0 /\ tstatus' = "COMPLETED"
      BY <1>k, <2>0, <2>2, Moves DEF SetManualStatus, SetStatus, textVars, HasText
    <3> QED
      BY <2>0, <3>1, StatusFrame DEF Moved, HasText, StorePc, Waiting
  <2>3. CASE RenameRead(u)
    <3>1. /\ \A b \in Actors \ {u} : task'[b] = task[b]
          /\ task'[u].pc = "renameText" /\ task'[u].seen = raw /\ raw # 0 /\ task[u].pc = "idle"
      BY <2>0, <2>3, OtherMoves DEF RenameRead
    <3>2. UNCHANGED <<raw, tstatus, statusLost, queue>>
      BY <2>3 DEF RenameRead, textVars, statusVars, historyVars
    <3> QED
      BY <2>0, <3>1, <3>2, StatusFrame DEF HasText, Carries, StorePc, StatusInv
  <2>4. CASE RenameText(u)
    <3>1. Moved(u, "renameSummary", task[u].seen) /\ raw' = task[u].seen /\ task[u].pc = "renameText"
      BY <2>0, <2>4, Moves DEF RenameText
    <3>2. raw' # 0 /\ UNCHANGED <<tstatus, statusLost, queue>>
      BY <1>k, <2>0, <2>4, <3>1 DEF RenameText, statusVars, HasText
    <3> QED
      BY <2>0, <3>1, <3>2, StatusFrame DEF Moved, HasText, Carries, StorePc
  <2>5. CASE \/ RenameReadSummary(u) \/ RenameSummary(u) \/ RegenerateRead(u) \/ RegenerateWrite(u)
             \/ RegenerateFails(u) \/ Retitle(u)
    <3>1. UNCHANGED <<raw, tstatus, statusLost, queue>> /\ ~Carries(u)
      BY <2>5 DEF RenameReadSummary, RenameSummary, RegenerateRead, RegenerateWrite,
         RegenerateFails, Retitle, WriteUserSummary, textVars, statusVars, historyVars, Carries
    <3>2. \E pc \in {"renameSummaryWrite", "done", "summarize"} : \E v : Moved(u, pc, v)
      <4>1. \E pc \in {"renameSummaryWrite", "done", "summarize"} : \E v : Saw(u, pc, v) \/ Goto(u, pc)
        BY <2>5 DEF RenameReadSummary, RenameSummary, RegenerateRead, RegenerateWrite,
           RegenerateFails, Retitle, WriteUserSummary
      <4> QED
        BY <2>0, <4>1, Moves
    <3> QED
      BY <1>5, <2>0, <3>1, <3>2 DEF Moved, StorePc
  <2> QED
    BY <1>10, <2>1, <2>2, <2>3, <2>4, <2>5 DEF User
<1> QED
  BY <1>1, <1>2, <1>3, <1>4, <1>6, <1>7, <1>8, <1>9, <1>10 DEF Next

\* When nothing is left to do no recording is shown as queued or in progress,
\* and none as transcribed that has no transcript, for any number of drainers.
THEOREM StatusesSettle == Spec => []StatusSettles
<1>1. Init => StatusInv
  BY DEF Init, StatusInv, HasText, Pending, At, StorePc
<1>2. TypeOK /\ StatusInv => StatusSettles
  <2> SUFFICES ASSUME TypeOK, StatusInv, Settled, ~statusLost
               PROVE  tstatus \notin Waiting /\ (tstatus = "COMPLETED" => raw # 0)
    BY DEF StatusSettles, Waiting
  <2>1. ~Pending
    BY DEF Settled, Pending, Carries, TypeOK
  <2> QED
    BY <2>1 DEF StatusInv
<1> QED
  BY <1>1, <1>2, StatusNext, TranscriptTypes, PTL DEF Spec

-----------------------------------------------------------------------------
(* Texts: an undisturbed text is being stored or analysed, its analysis is *)
(* queued, or what the last analysis left is derived from it               *)

OneDrainerOnly == \A v, w \in Drainers : v = w

Undisturbed == sole /\ kind[raw] = "words"
DueFor(a) ==
  \/ task[a].pc \in StorePc /\ task[a].seen = raw
  \/ a \in Drainers /\ task[a].pc \in AnalysisPc /\ (task[a].seen = raw \/ task[a].pc = "read")
Due == queue.ANALYSIS > 0 \/ \E a \in Actors : DueFor(a)
Derived == refined = raw /\ summary = raw /\ items = 1
Analysing == \E w \in Drainers : task[w].pc \in AnalysisPc
Analysed(w) ==
  task[w].seen = raw /\ task[w].whole =>
    /\ task[w].pc \in {"title", "summary", "wipe", "items", "finish"} => refined = raw
    /\ task[w].pc \in {"wipe", "items", "finish"} => summary = raw
TextInv ==
  Undisturbed =>
    /\ ~Due => ~Analysing /\ (outcome = "ok" => Derived)
    /\ \A w \in Drainers : Analysed(w)
    /\ (\A a \in Actors : ~Window(a)) => raw \in segments

\* Nothing is read or kept that has not been stored, and the only drainer has
\* wiped the items that it creates.
SeenInv ==
  /\ raw <= stored /\ refined <= stored /\ summary <= stored
  /\ \A a \in Actors : task[a].seen <= stored /\ task[a].refined <= stored
ItemsInv ==
  \A w \in Drainers : (At(w, "items") => items = 0) /\ (At(w, "finish") => items = 1)

LEMMA SeenNext == ASSUME TypeOK, SeenInv, [Next]_vars PROVE SeenInv'
<1>a. Drainers \subseteq Actors /\ Nows \subseteq Actors /\ Users \subseteq Actors
  BY DEF Actors
<1>t. /\ stored \in Nat /\ raw \in Nat /\ refined \in Nat /\ summary \in Nat
      /\ \A a \in Actors : task[a].seen \in Nat /\ task[a].refined \in Nat
  BY DEF TypeOK, Versions, TaskRecord
<1>1. ASSUME NEW a \in Actors, NEW n \in Nat, stored <= n, stored' = n,
             \A b \in Actors \ {a} : task'[b] = task[b],
             raw' <= n, refined' <= n, summary' <= n,
             task'[a].seen <= n, task'[a].refined <= n
      PROVE  SeenInv'
  <2>1. \A b \in Actors : task'[b].seen <= n /\ task'[b].refined <= n
    <3> SUFFICES ASSUME NEW b \in Actors, b # a PROVE task'[b].seen <= n /\ task'[b].refined <= n
      BY <1>1
    <3>1. task[b].seen <= stored /\ task[b].refined <= stored /\ task'[b] = task[b]
      BY <1>1 DEF SeenInv
    <3> QED
      BY <1>t, <1>1, <3>1
  <2> QED
    BY <1>1, <2>1 DEF SeenInv
<1>2. CASE UNCHANGED vars
  BY <1>2 DEF vars, textVars, derivedVars, SeenInv
<1>3. ASSUME NEW a \in Actors, StoreText(a) \/ SetManual(a) PROVE SeenInv'
  <2>1. /\ \E pc, v : Moved(a, pc, v) /\ v \in {stored + 1, task[a].seen}
        /\ stored' = stored + 1 /\ raw' = stored + 1 /\ refined' \in {0, refined} /\ summary' = summary
    BY <1>3, Moves DEF StoreText, SetManual, Cleared, derivedVars
  <2> QED
    BY <1>t, <1>1, <2>1 DEF Moved, SeenInv
\* Steps that store no text write what their actor has read.
<1>4. ASSUME NEW a \in Actors, \A b \in Actors \ {a} : task'[b] = task[b], stored' = stored,
             raw' \in {raw, task[a].seen}, refined' \in {0, refined, task[a].seen, task[a].refined},
             summary' \in {summary, task[a].seen},
             task'[a].seen \in {task[a].seen, raw, refined, summary},
             task'[a].refined \in {task[a].refined, refined}
      PROVE  SeenInv'
  BY <1>t, <1>1, <1>4 DEF SeenInv
<1>5. ASSUME NEW a \in Actors, NEW pc, NEW v \in {task[a].seen, raw, refined, summary}, Moved(a, pc, v),
             stored' = stored, raw' \in {raw, task[a].seen},
             refined' \in {0, refined, task[a].seen, task[a].refined},
             summary' \in {summary, task[a].seen}
      PROVE  SeenInv'
  BY <1>4, <1>5 DEF Moved
<1>6. ASSUME NEW a \in Drainers \cup Nows, Store(a) \/ Crash(a), ~StoreText(a) PROVE SeenInv'
  <2>1. \E pc : Goto(a, pc)
    BY <1>6 DEF Store, DeleteSegments, CreateSegments, FinishStore, ChainAnalysis, Crash
  <2>2. UNCHANGED <<stored, raw, refined, summary>>
    BY <1>6 DEF Store, DeleteSegments, CreateSegments, FinishStore, ChainAnalysis, Crash,
       textVars, derivedVars
  <2> QED
    BY <1>a, <1>5, <2>1, <2>2, Moves
<1>7. ASSUME NEW w \in Drainers,
             TakeTranscription(w) \/ TranscriptionFails(w) \/ Analysis(w) \/ Raise(w)
      PROVE  SeenInv'
  <2>1. /\ stored' = stored /\ raw' = raw /\ refined' \in {0, refined, task[w].seen}
        /\ summary' \in {summary, task[w].seen}
    BY <1>7 DEF TakeTranscription, TranscriptionFails, Analysis, TakeAnalysis, ReadText, Chat,
       WriteRefined, WriteTitle, WriteSummary, WipeItems, CreateItems, FinishAnalysis, Raise,
       textVars, derivedVars
  <2>2. \/ TakeAnalysis(w) \/ (\E pc : Goto(w, pc)) \/ Saw(w, "chat", raw)
        \/ \E whole : task' = [task EXCEPT ![w] = [@ EXCEPT !.pc = "refine", !.whole = whole]]
    BY <1>7 DEF TakeTranscription, TranscriptionFails, Analysis, ReadText, Chat,
       WriteRefined, WriteTitle, WriteSummary, WipeItems, CreateItems, FinishAnalysis, Raise
  <2>3. CASE TakeAnalysis(w) \/ (\E pc : Goto(w, pc)) \/ Saw(w, "chat", raw)
    BY <1>a, <1>5, <2>1, <2>3, Moves, OtherMoves
  <2>4. CASE \E whole : task' = [task EXCEPT ![w] = [@ EXCEPT !.pc = "refine", !.whole = whole]]
    BY <1>a, <1>4, <2>1, <2>4, OtherMoves
  <2> QED
    BY <2>2, <2>3, <2>4
<1>8. ASSUME NEW n \in Nows, Now(n) PROVE SeenInv'
  <2>1. (\E pc : Goto(n, pc)) /\ UNCHANGED <<stored, raw, refined, summary>>
    BY <1>8 DEF Now, StartNow, NowFails, NowRequeues, NowRemarks, textVars, derivedVars
  <2> QED
    BY <1>a, <1>5, <2>1, Moves
<1>9. ASSUME NEW u \in Users, User(u), ~SetManual(u) PROVE SeenInv'
  <2>1. CASE RenameRead(u)
    BY <1>a, <1>4, <2>1, OtherMoves DEF RenameRead, textVars, derivedVars
  <2>2. CASE ~RenameRead(u)
    <3>1. /\ stored' = stored /\ raw' \in {raw, task[u].seen}
          /\ refined' \in {refined, task[u].refined} /\ summary' \in {summary, task[u].seen}
      BY <1>9, <2>2 DEF User, SetManualStatus, RenameText, RenameReadSummary, RenameSummary,
         RegenerateRead, RegenerateWrite, RegenerateFails, Retitle, WriteUserSummary,
         textVars, derivedVars
    <3>2. (\E pc : Goto(u, pc)) \/ \E pc : \E v \in {summary, Shown} : Saw(u, pc, v)
      BY <1>9, <2>2 DEF User, SetManualStatus, RenameText, RenameReadSummary, RenameSummary,
         RegenerateRead, RegenerateWrite, RegenerateFails, Retitle, WriteUserSummary
    <3>3. Shown \in {raw, refined}
      BY DEF Shown
    <3>4. \E pc : \E v \in {task[u].seen, raw, refined, summary} : Moved(u, pc, v)
      BY <1>a, <3>2, <3>3, Moves
    <3> QED
      BY <1>a, <1>5, <3>1, <3>4
  <2> QED
    BY <2>1, <2>2
<1> QED
  BY <1>a, <1>2, <1>3, <1>6, <1>7, <1>8, <1>9 DEF Next, Store, User

LEMMA ItemsNext == ASSUME OneDrainerOnly, TypeOK, ItemsInv, [Next]_vars PROVE ItemsInv'
<1> USE DEF At
<1>a. /\ Drainers \subseteq Actors /\ Nows \subseteq Actors /\ Users \subseteq Actors
      /\ Drainers \cap Nows = {} /\ Drainers \cap Users = {}
  BY ActorsAssumption DEF Actors
<1>1. CASE UNCHANGED vars
  BY <1>1 DEF vars, derivedVars, ItemsInv
<1>2. ASSUME NEW w \in Drainers, WipeItems(w) PROVE ItemsInv'
  <2>1. Moved(w, "items", task[w].seen) /\ items' = 0
    BY <1>a, <1>2, Moves DEF WipeItems, Wiped
  <2> QED
    BY <2>1 DEF Moved, OneDrainerOnly, ItemsInv
<1>3. ASSUME NEW w \in Drainers, CreateItems(w) PROVE ItemsInv'
  <2>1. Moved(w, "finish", task[w].seen) /\ items' = 1
    BY <1>a, <1>3, Moves DEF CreateItems, ItemsInv
  <2> QED
    BY <2>1 DEF Moved, OneDrainerOnly, ItemsInv
<1>4. ASSUME NEW w \in Drainers, task'[w].pc \notin {"items", "finish"} PROVE ItemsInv'
  BY <1>4 DEF OneDrainerOnly, ItemsInv
<1>5. ASSUME NEW w \in Drainers,
             \/ TakeTranscription(w) \/ TranscriptionFails(w) \/ Raise(w) \/ Store(w) \/ Crash(w)
             \/ Analysis(w) /\ ~WipeItems(w) /\ ~CreateItems(w)
      PROVE  ItemsInv'
  <2>1. \/ TakeAnalysis(w)
        \/ \E pc \in PcSet \ {"items", "finish"} : Goto(w, pc) \/ \E v : Saw(w, pc, v)
        \/ \E whole : task' = [task EXCEPT ![w] = [@ EXCEPT !.pc = "refine", !.whole = whole]]
    BY <1>5 DEF TakeTranscription, TranscriptionFails, Raise, Store, StoreText, DeleteSegments,
       CreateSegments, FinishStore, ChainAnalysis, Crash, Resting, Analysis, ReadText, Chat,
       WriteRefined, WriteTitle, WriteSummary, FinishAnalysis, PcSet, StorePc, SnapshotPc
  <2>2. task'[w].pc \notin {"items", "finish"}
    <3>1. CASE TakeAnalysis(w)
      BY <1>a, <3>1, OtherMoves DEF Moved
    <3>2. CASE \E pc \in PcSet \ {"items", "finish"} : Goto(w, pc) \/ \E v : Saw(w, pc, v)
      BY <1>a, <3>2, Moves DEF Moved
    <3>3. CASE \E whole : task' = [task EXCEPT ![w] = [@ EXCEPT !.pc = "refine", !.whole = whole]]
      BY <1>a, <3>3, OtherMoves
    <3> QED
      BY <2>1, <3>1, <3>2, <3>3
  <2> QED
    BY <1>4, <2>2
<1>6. ASSUME NEW a \in Nows \cup Users, Now(a) \/ Store(a) \/ Crash(a) \/ User(a) PROVE ItemsInv'
  <2>1. items' = items
    BY <1>6 DEF Now, StartNow, NowFails, NowRequeues, NowRemarks, Store, StoreText, DeleteSegments,
       CreateSegments, FinishStore, ChainAnalysis, Crash, User, SetManual, SetManualStatus,
       RenameRead, RenameText, RenameReadSummary, RenameSummary, RegenerateRead, RegenerateWrite,
       RegenerateFails, Retitle, WriteUserSummary, derivedVars
  <2>2. \A w \in Drainers : task'[w] = task[w]
    BY <1>a, <1>6 DEF Now, StartNow, NowFails, NowRequeues, NowRemarks, Store, StoreText,
       DeleteSegments, CreateSegments, FinishStore, ChainAnalysis, Crash, User, SetManual,
       SetManualStatus, RenameRead, RenameText, RenameReadSummary, RenameSummary, RegenerateRead,
       RegenerateWrite, RegenerateFails, Retitle, WriteUserSummary, Goto, Saw, TypeOK
  <2> QED
    BY <2>1, <2>2 DEF ItemsInv
<1> QED
  BY <1>1, <1>2, <1>3, <1>5, <1>6 DEF Next

\* What is still to come comes, if its actor goes on with it or queues it.
LEMMA DueKept ==
  ASSUME Due, NEW a \in Actors, \A b \in Actors \ {a} : task'[b] = task[b], raw' = raw,
         \/ queue'.ANALYSIS > 0
         \/ queue'.ANALYSIS = queue.ANALYSIS /\ (DueFor(a) => DueFor(a)')
  PROVE  Due'
  BY DEF Due, DueFor

\* An analysis of a text that was replaced is not the last one.
LEMMA StillDue ==
  ASSUME OneDrainerOnly, TextInv, Undisturbed, NEW w \in Drainers,
         task[w].pc \in AnalysisPc \ {"read"}, queue' = queue, raw' = raw,
         \A b \in Actors \ {w} : task'[b] = task[b],
         task'[w].seen = task[w].seen, task'[w].pc \in AnalysisPc \/ task[w].seen # raw
  PROVE  Due'
<1>1. Due /\ w \in Actors
  BY DEF TextInv, Analysing, Actors
<1>2. DueFor(w) => task[w].seen = raw
  BY DEF DueFor
<1>3. DueFor(w) => DueFor(w)'
  BY <1>2 DEF DueFor
<1> QED
  BY <1>1, <1>3, DueKept

\* Steps that do not go on with an analysis.
LEMMA TextKept ==
  ASSUME OneDrainerOnly, TextInv, NEW a \in Actors, \A b \in Actors \ {a} : task'[b] = task[b],
         task'[a].pc \notin AnalysisPc,
         Undisturbed' =>
           /\ Undisturbed /\ raw' = raw /\ refined' = refined /\ summary' \in {summary, raw}
           /\ items' = items
           /\ \/ Due'
              \/ a \in Drainers /\ (outcome' = "ok" => Derived')
              \/ outcome' = outcome /\ (Due => Due')
           /\ Window(a)' \/ raw' \in segments' \/ (segments' = segments /\ ~Window(a))
  PROVE  TextInv'
<1> SUFFICES ASSUME Undisturbed'
             PROVE  /\ ~Due' => ~Analysing' /\ (outcome' = "ok" => Derived')
                    /\ \A w \in Drainers : Analysed(w)'
                    /\ (\A b \in Actors : ~Window(b)') => raw' \in segments'
  BY DEF TextInv
<1>a. Drainers \subseteq Actors
  BY DEF Actors
<1>1. \A w \in Drainers : Analysed(w)'
  <2> SUFFICES ASSUME NEW w \in Drainers PROVE Analysed(w)'
    OBVIOUS
  <2>1. CASE w = a
    BY <2>1 DEF Analysed, AnalysisPc
  <2>2. CASE w # a
    <3>1. Analysed(w) /\ task'[w] = task[w]
      BY <1>a, <2>2 DEF TextInv
    <3> QED
      BY <3>1 DEF Analysed
  <2> QED
    BY <2>1, <2>2
<1>2. (\A b \in Actors : ~Window(b)') => raw' \in segments'
  <2> SUFFICES ASSUME \A b \in Actors : ~Window(b)', segments' = segments, ~Window(a)
               PROVE  raw' \in segments'
    OBVIOUS
  <2>1. \A b \in Actors : ~Window(b)
    BY DEF Window
  <2> QED
    BY <2>1 DEF TextInv
<1>3. ~Due' => ~Analysing' /\ (outcome' = "ok" => Derived')
  <2> SUFFICES ASSUME ~Due' PROVE ~Analysing' /\ (outcome' = "ok" => Derived')
    OBVIOUS
  <2>1. CASE a \in Drainers /\ (outcome' = "ok" => Derived')
    BY <2>1 DEF OneDrainerOnly, Analysing
  <2>2. CASE outcome' = outcome /\ (Due => Due')
    <3>1. ~Analysing /\ (outcome = "ok" => Derived)
      BY <2>2 DEF TextInv
    <3>2. ~Analysing'
      BY <1>a, <3>1 DEF Analysing
    <3> QED
      BY <2>2, <3>1, <3>2 DEF Derived
  <2> QED
    BY <2>1, <2>2
<1> QED
  BY <1>1, <1>2, <1>3

\* Steps that do.
LEMMA TextWorked ==
  ASSUME OneDrainerOnly, TextInv, NEW w \in Drainers, \A b \in Actors \ {w} : task'[b] = task[b],
         segments' = segments, task[w].pc \in AnalysisPc \cup {"idle"}, raw' = raw,
         Undisturbed' => Undisturbed /\ Due' /\ Analysed(w)'
  PROVE  TextInv'
<1> SUFFICES ASSUME Undisturbed'
             PROVE  /\ \A v \in Drainers : Analysed(v)'
                    /\ (\A b \in Actors : ~Window(b)') => raw' \in segments'
  BY DEF TextInv
<1>1. \A v \in Drainers : Analysed(v)'
  BY DEF OneDrainerOnly
<1>2. (\A b \in Actors : ~Window(b)') => \A b \in Actors : ~Window(b)
  BY DEF Window, AnalysisPc
<1> QED
  BY <1>1, <1>2 DEF TextInv

LEMMA TextAnalysis ==
  ASSUME OneDrainerOnly, TypeOK, ItemsInv, TextInv, NEW w \in Drainers, Analysis(w)
  PROVE  TextInv'
<1> USE DEF At
<1>a. w \in Actors
  BY DEF Actors
<1>0. UNCHANGED <<raw, kind, sole, segments>> /\ (Undisturbed' => Undisturbed)
  <2>1. UNCHANGED <<raw, kind, segments>>
    BY DEF Analysis, TakeAnalysis, ReadText, Chat, WriteRefined, WriteTitle, WriteSummary,
       WipeItems, CreateItems, FinishAnalysis, textVars
  <2>2. UNCHANGED sole
    BY DEF Analysis, TakeAnalysis, ReadText, Chat, WriteRefined, WriteTitle, WriteSummary,
       WipeItems, CreateItems, FinishAnalysis, historyVars
  <2> QED
    BY <2>1, <2>2 DEF Undisturbed
<1>1. CASE TakeAnalysis(w)
  <2>1. Moved(w, "read", task[w].seen)
    BY <1>a, <1>1, OtherMoves
  <2>2. Due'
    BY <1>a, <2>1 DEF Due, DueFor, Moved, AnalysisPc
  <2>3. Analysed(w)'
    BY <2>1 DEF Analysed, Moved
  <2> QED
    BY <1>0, <1>1, <2>1, <2>2, <2>3, TextWorked DEF TakeAnalysis, Moved
<1>2. CASE ReadText(w)
  <2> SUFFICES ASSUME Undisturbed' PROVE TextInv'
    BY DEF TextInv
  <2>1. Moved(w, "chat", raw) /\ task[w].pc = "read"
    BY <1>0, <1>a, <1>2, Moves DEF ReadText, Undisturbed
  <2>2. Due'
    BY <1>0, <1>a, <2>1 DEF Due, DueFor, Moved, AnalysisPc
  <2>3. Analysed(w)'
    BY <2>1 DEF Analysed, Moved
  <2> QED
    BY <1>0, <2>1, <2>2, <2>3, TextWorked DEF Moved, AnalysisPc
\* The answer, and the writes up to the items.
<1>3. ASSUME NEW pc \in AnalysisPc \ {"read"}, task[w].pc \in AnalysisPc \ {"read"},
             \A b \in Actors \ {w} : task'[b] = task[b], task'[w].pc = pc,
             task'[w].seen = task[w].seen, queue' = queue,
             Undisturbed' => Analysed(w)'
      PROVE  TextInv'
  <2>1. Undisturbed' => Due'
    BY <1>0, <1>3, StillDue
  <2> QED
    BY <1>0, <1>3, <2>1, TextWorked
<1>4. CASE Chat(w)
  <2>0. task[w].pc = "chat" /\ UNCHANGED <<refined, summary, items>>
    BY <1>4 DEF Chat, textVars, derivedVars
  <2>1. CASE (\E whole : task' = [task EXCEPT ![w] = [@ EXCEPT !.pc = "refine", !.whole = whole]])
             /\ queue' = queue
    <3>1. /\ \A b \in Actors \ {w} : task'[b] = task[b]
          /\ task'[w].pc = "refine" /\ task'[w].seen = task[w].seen
      BY <1>a, <2>1, OtherMoves
    <3>2. Analysed(w)'
      BY <3>1 DEF Analysed
    <3> QED
      BY <1>3, <2>0, <2>1, <3>1, <3>2 DEF AnalysisPc
  <2>2. CASE Goto(w, "idle") /\ (outcome' = "failed" \/ Add("ANALYSIS", 1))
    <3>1. Moved(w, "idle", task[w].seen)
      BY <1>a, <2>2, Moves
    <3>2. outcome' # "ok" \/ Due'
      BY <2>2, Queues DEF Due
    <3>3. ~Window(w)
      BY <2>0 DEF Window
    <3> QED
      BY <1>0, <1>a, <2>0, <3>1, <3>2, <3>3, TextKept DEF Moved, AnalysisPc
  <2> QED
    BY <1>4, <2>1, <2>2 DEF Chat
<1>5. CASE WriteRefined(w)
  <2>1. Moved(w, "title", task[w].seen) /\ task[w].pc = "refine" /\ queue' = queue
        /\ (refined' = task[w].seen \/ ~task[w].whole)
    BY <1>a, <1>5, Moves DEF WriteRefined, Missing
  <2>2. Analysed(w)'
    BY <1>0, <2>1 DEF Analysed, Moved
  <2> QED
    BY <1>3, <2>1, <2>2 DEF Moved, AnalysisPc
<1>6. CASE WriteTitle(w)
  <2>1. Moved(w, "summary", task[w].seen) /\ task[w].pc = "title"
        /\ UNCHANGED <<queue, refined, summary>>
    BY <1>a, <1>6, Moves DEF WriteTitle, textVars
  <2>2. Undisturbed' => Analysed(w)'
    BY <1>0, <2>1 DEF TextInv, Analysed, Moved
  <2> QED
    BY <1>3, <2>1, <2>2 DEF Moved, AnalysisPc
<1>7. CASE WriteSummary(w)
  <2>1. Moved(w, "wipe", task[w].seen) /\ task[w].pc = "summary" /\ UNCHANGED <<queue, refined>>
        /\ (summary' = task[w].seen \/ ~task[w].whole)
    BY <1>a, <1>7, Moves DEF WriteSummary, textVars, Missing
  <2>2. Undisturbed' => Analysed(w)'
    BY <1>0, <2>1 DEF TextInv, Analysed, Moved
  <2> QED
    BY <1>3, <2>1, <2>2 DEF Moved, AnalysisPc
<1>8. CASE WipeItems(w) \/ CreateItems(w)
  <2>1. PICK pc \in {"items", "finish"} : Goto(w, pc)
    BY <1>8 DEF WipeItems, CreateItems
  <2>2. Moved(w, pc, task[w].seen) /\ task[w].pc \in {"wipe", "items"}
        /\ UNCHANGED <<queue, refined, summary>>
    BY <1>a, <1>8, <2>1, Moves DEF WipeItems, CreateItems, textVars
  <2>3. Undisturbed' => Analysed(w)'
    BY <1>0, <2>2 DEF TextInv, Analysed, Moved
  <2> QED
    BY <1>3, <2>2, <2>3 DEF Moved, AnalysisPc
<1>9. CASE FinishAnalysis(w)
  <2>1. Moved(w, "idle", task[w].seen) /\ task[w].pc = "finish"
        /\ UNCHANGED <<queue, refined, summary, items>>
        /\ (outcome' = "ok" => task[w].whole)
    BY <1>a, <1>9, Moves DEF FinishAnalysis, textVars, derivedVars, Missing
  <2>2. Undisturbed' => Due' \/ (outcome' = "ok" => Derived')
    <3> SUFFICES ASSUME Undisturbed', outcome' = "ok" PROVE Due' \/ Derived'
      OBVIOUS
    <3>1. CASE task[w].seen = raw
      BY <1>0, <2>1, <3>1 DEF TextInv, Analysed, ItemsInv, Derived
    <3>2. CASE task[w].seen # raw
      BY <1>0, <2>1, <3>2, StillDue DEF Moved, AnalysisPc
    <3> QED
      BY <3>1, <3>2
  <2>3. ~Window(w)
    BY <2>1 DEF Window
  <2> QED
    BY <1>0, <1>a, <2>1, <2>2, <2>3, TextKept DEF Moved, AnalysisPc
<1> QED
  BY <1>1, <1>2, <1>4, <1>5, <1>6, <1>7, <1>8, <1>9 DEF Analysis

LEMMA TextStore ==
  ASSUME OneDrainerOnly, TypeOK, StoreInv, SeenInv, TextInv,
         NEW a \in Drainers \cup Nows, Store(a)
  PROVE  TextInv'
<1> USE DEF At
<1>a. a \in Actors /\ Drainers \subseteq Actors
  BY DEF Actors
<1>1. CASE StoreText(a)
  <2>1. Moved(a, "segDelete", stored + 1) /\ raw' = stored + 1
    BY <1>a, <1>1, Moves DEF StoreText
  <2>2. Due' /\ Window(a)'
    BY <1>a, <2>1 DEF Moved, Due, DueFor, StorePc, Window
  <2>3. ASSUME NEW w \in Drainers PROVE Analysed(w)'
    <3>1. CASE w = a
      BY <2>1, <3>1 DEF Moved, Analysed
    <3>2. CASE w # a
      <4>1. task'[w] = task[w] /\ task[w].seen <= stored /\ task[w].seen \in Nat /\ stored \in Nat
        BY <1>a, <2>1, <3>2 DEF Moved, SeenInv, TypeOK, TaskRecord, Versions
      <4> QED
        BY <2>1, <4>1 DEF Analysed
    <3> QED
      BY <3>1, <3>2
  <2> QED
    BY <1>a, <2>2, <2>3 DEF TextInv
\* The rest leaves the texts alone.
<1>2. CASE ~StoreText(a)
  <2>0. /\ UNCHANGED <<raw, kind, sole, refined, summary, items, outcome>>
        /\ (Undisturbed' => Undisturbed)
    <3>1. UNCHANGED <<raw, kind, refined>>
      BY <1>2 DEF Store, DeleteSegments, CreateSegments, FinishStore, ChainAnalysis, textVars
    <3>2. UNCHANGED <<sole, summary, items, outcome>>
      BY <1>2 DEF Store, DeleteSegments, CreateSegments, FinishStore, ChainAnalysis,
         derivedVars, historyVars
    <3> QED
      BY <3>1, <3>2 DEF Undisturbed
  <2>1. CASE DeleteSegments(a)
    <3>1. Moved(a, "segCreate", task[a].seen) /\ queue' = queue /\ task[a].pc = "segDelete"
      BY <1>a, <2>1, Moves DEF DeleteSegments
    <3>2. Window(a)' /\ (DueFor(a) => DueFor(a)')
      BY <2>0, <3>1 DEF Window, DueFor, Moved, StorePc, AnalysisPc
    <3>3. Due => Due'
      BY <1>a, <2>0, <3>1, <3>2, DueKept DEF Moved
    <3> QED
      BY <1>a, <2>0, <3>1, <3>2, <3>3, TextKept DEF Moved, AnalysisPc
  <2>2. CASE CreateSegments(a)
    <3>1. Moved(a, "mark", task[a].seen) /\ queue' = queue /\ task[a].pc = "segCreate"
      BY <1>a, <2>2, Moves DEF CreateSegments
    <3>2. DueFor(a) => DueFor(a)'
      BY <2>0, <3>1 DEF DueFor, Moved, StorePc, AnalysisPc
    <3>3. Due => Due'
      BY <1>a, <2>0, <3>1, <3>2, DueKept DEF Moved
    <3>4. Undisturbed => raw' \in segments'
      BY <1>a, <2>0, <2>2, <3>1 DEF Undisturbed, StoreInv, Window, CreateSegments
    <3> QED
      BY <1>a, <2>0, <3>1, <3>3, <3>4, TextKept DEF Moved, AnalysisPc
  <2>3. CASE FinishStore(a)
    <3>1. PICK pc \in {"chain", "idle", "done"} :
            Goto(a, pc) /\ (kind[task[a].seen] = "words" => pc = "chain")
      BY <2>3 DEF FinishStore, Resting
    <3>2. Moved(a, pc, task[a].seen) /\ queue' = queue /\ task[a].pc = "mark" /\ segments' = segments
      BY <1>a, <2>3, <3>1, Moves DEF FinishStore, textVars
    <3>3. Undisturbed => (DueFor(a) => DueFor(a)')
      BY <2>0, <3>1, <3>2 DEF DueFor, Moved, StorePc, AnalysisPc, Undisturbed
    <3>4. Undisturbed => (Due => Due')
      BY <1>a, <2>0, <3>2, <3>3, DueKept DEF Moved
    <3>5. ~Window(a)
      BY <3>2 DEF Window
    <3> QED
      BY <1>a, <2>0, <3>1, <3>2, <3>4, <3>5, TextKept DEF Moved, AnalysisPc
  <2>4. CASE ChainAnalysis(a)
    <3>1. PICK pc \in {"idle", "done"} : Goto(a, pc)
      BY <2>4 DEF ChainAnalysis, Resting
    <3>2. Moved(a, pc, task[a].seen) /\ task[a].pc = "chain" /\ segments' = segments
      BY <1>a, <2>4, <3>1, Moves DEF ChainAnalysis, textVars
    <3>3. Due' /\ ~Window(a)
      BY <2>4, <3>2, Queues DEF ChainAnalysis, Due, Window
    <3> QED
      BY <1>a, <2>0, <3>1, <3>2, <3>3, TextKept DEF Moved, AnalysisPc
  <2> QED
    BY <1>2, <2>1, <2>2, <2>3, <2>4 DEF Store
<1> QED
  BY <1>1, <1>2

LEMMA TextStopped ==
  ASSUME OneDrainerOnly, TypeOK, TextInv, NEW a \in Drainers \cup Nows,
         (a \in Drainers /\ Raise(a)) \/ Crash(a)
  PROVE  TextInv'
<1> USE DEF At
<1>a. a \in Actors
  BY DEF Actors
<1>1. PICK pc \in {"idle", "done"} : Goto(a, pc)
  BY DEF Raise, Crash, Resting
<1>2. /\ Moved(a, pc, task[a].seen) /\ UNCHANGED <<raw, kind, refined, segments>>
      /\ UNCHANGED <<summary, items>> /\ (sole' => sole /\ task[a].pc \notin StorePc)
  BY <1>a, <1>1, Moves DEF Raise, Crash, textVars, derivedVars
<1> SUFFICES ASSUME Undisturbed' PROVE TextInv'
  BY DEF TextInv
<1>3. Undisturbed /\ ~Window(a) /\ task[a].pc \notin StorePc
  BY <1>2 DEF Undisturbed, Window, StorePc
<1>4. \/ outcome' = outcome /\ queue' = queue /\ a \in Nows
      \/ outcome' = "failed" /\ a \in Drainers
      \/ outcome' = outcome /\ (Add("ANALYSIS", 1) \/ (At(a, "asr") /\ Add("TRANSCRIPTION", 1)))
  <2>1. JobOf(a) = "ANALYSIS" \/ (JobOf(a) = "TRANSCRIPTION" /\ At(a, "asr"))
    BY <1>3 DEF JobOf
  <2>2. CASE a \in Drainers /\ Raise(a)
    <3>1. JobOf(a) = "ANALYSIS"
      BY <2>1, <2>2 DEF Raise
    <3> QED
      BY <2>2, <3>1 DEF Raise
  <2>3. CASE Crash(a)
    <3>1. outcome' = outcome /\ ((queue' = queue /\ a \in Nows) \/ Add(JobOf(a), 1))
      BY <1>3, <2>3 DEF Crash, StorePc
    <3> QED
      BY <2>1, <3>1
  <2> QED
    BY <2>2, <2>3
<1>5. \/ outcome' = "failed" /\ a \in Drainers
      \/ outcome' = outcome /\ (Due => Due')
  <2>1. CASE outcome' = outcome /\ queue' = queue /\ a \in Nows
    <3>1. ~DueFor(a)
      BY <1>3, <2>1, ActorsAssumption DEF DueFor
    <3> QED
      BY <1>a, <1>2, <2>1, <3>1, DueKept DEF Moved
  <2>2. CASE outcome' = outcome /\ Add("ANALYSIS", 1)
    BY <2>2, Queues DEF Due
  <2>3. CASE outcome' = outcome /\ At(a, "asr") /\ Add("TRANSCRIPTION", 1)
    <3>1. ~DueFor(a) /\ queue'.ANALYSIS = queue.ANALYSIS
      BY <2>3, Queues DEF DueFor, StorePc, AnalysisPc
    <3> QED
      BY <1>a, <1>2, <2>3, <3>1, DueKept DEF Moved
  <2> QED
    BY <1>4, <2>1, <2>2, <2>3
<1> QED
  BY <1>a, <1>1, <1>2, <1>3, <1>5, TextKept DEF Moved, AnalysisPc

\* Steps of an actor that neither stores nor analyses.
LEMMA TextElsewhere ==
  ASSUME OneDrainerOnly, TextInv, NEW a \in Actors, NEW pc, pc \notin AnalysisPc, NEW v, Moved(a, pc, v),
         task[a].pc \notin StorePc \cup AnalysisPc,
         sole' => UNCHANGED <<sole, raw, kind, refined, segments>> /\ summary' \in {summary, raw},
         UNCHANGED <<items, outcome>>, queue'.ANALYSIS = queue.ANALYSIS
  PROVE  TextInv'
<1> SUFFICES ASSUME Undisturbed' PROVE TextInv'
  BY DEF TextInv
<1>1. Undisturbed /\ UNCHANGED <<raw, refined, segments>> /\ summary' \in {summary, raw}
  BY DEF Undisturbed
<1>2. ~Window(a) /\ ~DueFor(a)
  BY DEF Window, DueFor, StorePc
<1>3. Due => Due'
  BY <1>1, <1>2, DueKept DEF Moved
<1> QED
  BY <1>1, <1>2, <1>3, TextKept DEF Moved

LEMMA TextNext ==
  ASSUME OneDrainerOnly, TypeOK, StoreInv, SeenInv, ItemsInv, TextInv, [Next]_vars
  PROVE  TextInv'
<1> USE DEF At
<1>a. Drainers \subseteq Actors /\ Nows \subseteq Actors /\ Users \subseteq Actors
  BY DEF Actors
<1>1. CASE UNCHANGED vars
  BY <1>1 DEF vars, textVars, derivedVars, historyVars, TextInv, Undisturbed, Due, DueFor, Derived,
     Analysing, Analysed, Window
<1>2. ASSUME NEW w \in Drainers, TakeTranscription(w) \/ TranscriptionFails(w) PROVE TextInv'
  <2>1. \E pc \in {"asr", "idle"} : Goto(w, pc)
    BY <1>2 DEF TakeTranscription, TranscriptionFails
  <2>2. \E pc \in {"asr", "idle"} : Moved(w, pc, task[w].seen)
    BY <1>a, <2>1, Moves
  <2>3. UNCHANGED <<sole, raw, kind, refined, segments, summary, items, outcome>>
    BY <1>2 DEF TakeTranscription, TranscriptionFails, textVars, derivedVars, historyVars
  <2>4. queue'.ANALYSIS = queue.ANALYSIS
    <3>1. CASE TakeTranscription(w)
      BY <3>1 DEF TakeTranscription, TypeOK
    <3>2. CASE TranscriptionFails(w)
      <4>1. queue' = queue \/ Add("TRANSCRIPTION", 1)
        BY <3>2 DEF TranscriptionFails
      <4> QED
        BY <4>1, Queues
    <3> QED
      BY <1>2, <3>1, <3>2
  <2>5. task[w].pc \notin StorePc \cup AnalysisPc
    BY <1>2 DEF TakeTranscription, TranscriptionFails, StorePc, AnalysisPc
  <2> QED
    BY <1>a, <2>2, <2>3, <2>4, <2>5, TextElsewhere DEF AnalysisPc
<1>3. ASSUME NEW n \in Nows, Now(n) PROVE TextInv'
  <2>1. \E pc \in {"asr", "done", "requeue", "remark"} : Goto(n, pc)
    BY <1>3 DEF Now, StartNow, NowFails, NowRequeues, NowRemarks
  <2>2. \E pc \in {"asr", "done", "requeue", "remark"} : Moved(n, pc, task[n].seen)
    BY <1>a, <2>1, Moves
  <2>3. UNCHANGED <<sole, raw, kind, refined, segments, summary, items, outcome>>
    BY <1>3 DEF Now, StartNow, NowFails, NowRequeues, NowRemarks, textVars, derivedVars, historyVars
  <2>4. queue'.ANALYSIS = queue.ANALYSIS
    <3>1. queue' = queue \/ Add("TRANSCRIPTION", 1)
      BY <1>3 DEF Now, StartNow, NowFails, NowRequeues, NowRemarks
    <3> QED
      BY <3>1, Queues
  <2>5. task[n].pc \notin StorePc \cup AnalysisPc
    BY <1>3 DEF Now, StartNow, NowFails, NowRequeues, NowRemarks, StorePc, AnalysisPc
  <2> QED
    BY <1>a, <2>2, <2>3, <2>4, <2>5, TextElsewhere DEF AnalysisPc
<1>4. ASSUME NEW u \in Users, User(u) PROVE TextInv'
  <2>1. CASE RenameRead(u)
    <3>1. /\ \A b \in Actors \ {u} : task'[b] = task[b]
          /\ task'[u].pc = "renameText" /\ task[u].pc = "idle"
      BY <1>a, <2>1, OtherMoves DEF RenameRead
    <3>2. /\ UNCHANGED <<sole, raw, kind, refined, segments, summary, items, outcome, queue>>
      BY <2>1 DEF RenameRead, textVars, derivedVars, historyVars
    <3>3. ~Window(u) /\ ~DueFor(u)
      BY <3>1 DEF Window, DueFor, StorePc, AnalysisPc
    <3>4. Due => Due'
      BY <1>a, <3>1, <3>2, <3>3, DueKept
    <3>5. Undisturbed' => Undisturbed
      BY <3>2 DEF Undisturbed
    <3> QED
      BY <1>a, <3>1, <3>2, <3>3, <3>4, <3>5, TextKept DEF AnalysisPc
  <2>2. CASE ~RenameRead(u)
    <3>1. \E pc \in PcSet \ AnalysisPc : \E v : Moved(u, pc, v)
      <4>1. \E pc \in PcSet \ AnalysisPc : Goto(u, pc) \/ \E v : Saw(u, pc, v)
        BY <1>4, <2>2 DEF User, SetManual, SetManualStatus, RenameText, RenameReadSummary,
           RenameSummary, RegenerateRead, RegenerateWrite, RegenerateFails, Retitle,
           WriteUserSummary, PcSet, AnalysisPc
      <4> QED
        BY <1>a, <4>1, Moves
    <3>2. sole' => UNCHANGED <<sole, raw, kind, refined, segments>> /\ summary' \in {summary, raw}
      BY <1>4, <2>2 DEF User, SetManual, SetManualStatus, RenameText, RenameReadSummary,
         RenameSummary, RegenerateRead, RegenerateWrite, RegenerateFails, Retitle,
         WriteUserSummary, textVars, derivedVars, historyVars, TypeOK
    <3>3. UNCHANGED <<items, outcome, queue>>
      BY <1>4, <2>2 DEF User, SetManual, SetManualStatus, RenameText, RenameReadSummary,
         RenameSummary, RegenerateRead, RegenerateWrite, RegenerateFails, Retitle,
         WriteUserSummary, derivedVars, historyVars
    <3>4. task[u].pc \notin StorePc \cup AnalysisPc
      BY <1>4, <2>2 DEF User, SetManual, SetManualStatus, RenameText, RenameReadSummary,
         RenameSummary, RegenerateRead, RegenerateWrite, RegenerateFails, Retitle,
         StorePc, AnalysisPc
    <3> QED
      BY <1>a, <3>1, <3>2, <3>3, <3>4, TextElsewhere
  <2> QED
    BY <2>1, <2>2
<1> QED
  BY <1>1, <1>2, <1>3, <1>4, TextAnalysis, TextStore, TextStopped DEF Next

\* With one drainer, a settled text that one store wrote undisturbed and whose
\* analysis succeeded has the conversation, the segments, the summary and one
\* set of extractions of that very text, whatever transcribe-now calls and users
\* did, ran and crashed before and meanwhile.
THEOREM SettledTextDerived == OneDrainerOnly /\ Spec => []SettledText
<1>1. Init => SeenInv /\ ItemsInv /\ TextInv
  <2> SUFFICES ASSUME Init PROVE SeenInv /\ ItemsInv /\ TextInv
    OBVIOUS
  <2>1. kind[raw] # "words"
    BY ActorsAssumption DEF Init, Versions
  <2> QED
    BY <2>1 DEF Init, SeenInv, ItemsInv, TextInv, Undisturbed, At, Actors
<1>2. TypeOK /\ StoreInv /\ TextInv => SettledText
  <2> SUFFICES ASSUME TypeOK, StoreInv, TextInv, Settled, Undisturbed, outcome = "ok"
               PROVE  Derived /\ segments = {raw}
    BY DEF SettledText, Undisturbed, Derived
  <2>1. ~Due
    BY DEF Settled, Due, DueFor, StorePc, AnalysisPc
  <2>2. \A a \in Actors : ~Window(a)
    BY DEF Settled, Window
  <2> QED
    BY <2>1, <2>2 DEF TextInv, StoreInv, Undisturbed
<1> SUFFICES ASSUME OneDrainerOnly PROVE Spec => []SettledText
  OBVIOUS
<1>3. TypeOK /\ SeenInv /\ [Next]_vars => SeenInv'
  BY SeenNext
<1>4. TypeOK /\ ItemsInv /\ [Next]_vars => ItemsInv'
  BY ItemsNext
<1>5. TypeOK /\ StoreInv /\ SeenInv /\ ItemsInv /\ TextInv /\ [Next]_vars => TextInv'
  BY TextNext
<1> QED
  BY <1>1, <1>2, <1>3, <1>4, <1>5, StoreUndisturbed, TranscriptTypes, PTL DEF Spec
=============================================================================
