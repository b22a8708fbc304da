----------------------------- MODULE Assistant -----------------------------
(***************************************************************************)
(* What the assistant makes of the recording of Library: the hooks of the  *)
(* queue's analysis (media_queue.py) that index its segments for search    *)
(* (embeddings.py) and run the user's automation rules (automation.py,     *)
(* integrations.py), and the chat over the transcript (ai.py).  The calls, *)
(* the analysis and the deletion of the recording interleave.              *)
(*                                                                         *)
(* The segments are a version: what a store creates and an edit of one     *)
(* make the next (TranscriptStore tells what else a store writes).  Stores *)
(* of the worker and of transcribe-now overlap with each other and with    *)
(* the analysis, and may end anywhere.                                     *)
(* A run of the rules has an outcome per rule; a post whose answer is lost *)
(* was delivered all the same.                                             *)
(***************************************************************************)
EXTENDS Calls

CONSTANTS
  Rules, FirstRules,   \* ids of AutomationRule rows with the trigger ON_ANALYZED; the first ones
  Webhooks,   \* those that post to a URL of their own; the others need the integration
  Units,      \* embedding units of the recording
  LiteModes,  \* values of LITE_MODE, or a missing key, that the box may run with
  MaxTexts    \* bound: versions of the segments after which the queue transcribes no more

ASSUME AssistantAssumption ==
  Webhooks \subseteq Rules /\ Units \in Nat \ {0} /\ MaxTexts \in Nat

VARIABLES
  lite,       \* the setting
  transcript, text,   \* the Transcript row; its segments, 0 when there are none
  stored,     \* versions given out, to stores and edits
  due,        \* ANALYSIS jobs that wait
  index,      \* Embedding rows, by the version they embed
  chat,       \* ChatMessage rows
  rule, integration,   \* the rules: unused, live or gone; the Integration row
  indexed,    \* history: the last analysis filled the index
  unread,     \* history: versions that no analysis was asked for: edits, stores cut before the chain
  unanswered, twice   \* history: questions without a reply; a run delivered a rule again

textVars == <<lite, transcript, text, stored, due, unread>>
indexVars == <<index, indexed>>
chatVars == <<chat, unanswered>>
ruleVars == <<rule, integration>>
assistantVars == <<textVars, indexVars, chatVars, ruleVars, twice>>
vars == <<present, callVars, assistantVars>>
-----------------------------------------------------------------------------
(* The text: _run_transcription, transcribe_recording_now and              *)
(* _store_transcript, one database call after the other                    *)

\* A job of the worker, one after the other; whether a job that was cut runs
\* again is MediaQueue's matter.
RunTranscription ==
  /\ present /\ call[Worker] = Idle /\ stored < MaxTexts
  /\ Put(Worker, [Idle EXCEPT !.op = "store", !.pc = "upsert"])
  /\ UNCHANGED <<present, assistantVars>>
TranscribeNow(s) ==
  /\ Open(s, Owned("store", "upsert", none, none))
  /\ UNCHANGED <<present, assistantVars>>
UpsertTranscript(s) ==
  /\ At(s, "store", "upsert")
  /\ transcript' = (transcript \/ present)
  /\ Reply(s, IF present THEN "clear" ELSE "500")
  /\ UNCHANGED <<present, lite, text, stored, due, unread, indexVars, chatVars, ruleVars, twice>>
\* An EMPTY result ends here; a text without utterances has no segments.
ClearSegments(s) ==
  /\ At(s, "store", "clear")
  /\ text' = 0 /\ stored' = stored + 1
  /\ \E pc \in {"200", "fill", "chain"} : Put(s, [call[s] EXCEPT !.pc = pc, !.seen = stored + 1])
  /\ UNCHANGED <<present, lite, transcript, due, unread, indexVars, chatVars, ruleVars, twice>>
FillSegments(s) ==
  /\ At(s, "store", "fill")
  /\ text' = IF present THEN call[s].seen ELSE text
  /\ Reply(s, IF present THEN "chain" ELSE "500")
  /\ UNCHANGED <<present, lite, transcript, stored, due, unread, indexVars, chatVars, ruleVars, twice>>
\* mutant: no second analysis while one is running
Chained_Once == IF call[Worker].op = "analysis" THEN due ELSE due + 1
Chained == due + 1
ChainAnalysis(s) ==
  /\ At(s, "store", "chain")
  /\ due' = IF present THEN Chained ELSE due
  /\ Reply(s, IF present THEN "200" ELSE "500")
  /\ UNCHANGED <<present, lite, transcript, text, stored, unread, indexVars, chatVars, ruleVars, twice>>
StoreStep(s) ==
  UpsertTranscript(s) \/ ClearSegments(s) \/ FillSegments(s) \/ ChainAnalysis(s)
\* A store that ends between its segments and its chain has asked for nothing.
Unread(s) == IF At(s, "store", "chain") THEN unread \cup {call[s].seen} ELSE unread
StoreFails ==
  /\ call[Worker].op = "store" /\ CutCall(Worker)
  /\ unread' = Unread(Worker)
  /\ UNCHANGED <<present, lite, transcript, text, stored, due, indexVars, chatVars, ruleVars, twice>>
\* PATCH of a segment: nothing indexes it again.
EditSegment(s) ==
  /\ present /\ text # 0
  /\ Open(s, Owned("edit", "200", none, none))
  /\ stored' = stored + 1 /\ text' = stored + 1 /\ unread' = unread \cup {stored + 1}
  /\ UNCHANGED <<present, lite, transcript, due, indexVars, chatVars, ruleVars, twice>>
-----------------------------------------------------------------------------
(* The analysis the queue runs of it                                       *)

Analysing(pc) == At(Worker, "analysis", pc)
TakeAnalysis ==
  /\ due > 0 /\ call[Worker] = Idle
  /\ due' = due - 1 /\ indexed' = FALSE
  /\ \/ Put(Worker, [Idle EXCEPT !.op = "analysis", !.pc = "units"])
     \/ UNCHANGED callVars   \* the text is blank, or the chat model failed for good
  /\ UNCHANGED <<present, lite, transcript, text, stored, unread, index, chatVars, ruleVars, twice>>
\* index_recording: no index in lite mode, of a transcript that is gone, or of
\* no text; a text without segments is one unit.
ReadUnits ==
  /\ Analysing("units")
  /\ \E pc \in {"list", "embed"} :
       /\ pc = "embed" => ~lite /\ present /\ transcript
       /\ pc = "list" => lite \/ ~present \/ text = 0
       /\ Put(Worker, [call[Worker] EXCEPT !.pc = pc, !.seen = text])
  /\ UNCHANGED <<present, assistantVars>>
UnitsOf(v) == IF v = 0 THEN 1 ELSE Units
Embed ==
  /\ Analysing("embed")
  /\ \E pc \in {"clear", "list"} : Put(Worker, [call[Worker] EXCEPT !.pc = pc])
  /\ UNCHANGED <<present, assistantVars>>
ClearIndex ==
  /\ Analysing("clear")
  /\ index' = <<>>
  /\ Put(Worker, [call[Worker] EXCEPT !.pc = "fill", !.arg = UnitsOf(call[Worker].seen)])
  /\ UNCHANGED <<present, textVars, indexed, chatVars, ruleVars, twice>>
\* One row per unit; the recording need not exist any more.
FillIndex ==
  /\ Analysing("fill")
  /\ index' = Append(index, call[Worker].seen)
  /\ Put(Worker, [call[Worker] EXCEPT !.arg = @ - 1, !.pc = IF call[Worker].arg = 1 THEN "list" ELSE @])
  /\ indexed' = (call[Worker].arg = 1)
  /\ UNCHANGED <<present, textVars, chatVars, ruleVars, twice>>
\* Whatever the hooks raise is dropped, and the rules after it with them.
HooksFail ==
  /\ call[Worker].op = "analysis" /\ CutCall(Worker)
  /\ UNCHANGED <<present, assistantVars>>
\* A kill, or a failing call before the hooks: the job is run again.
Requeue ==
  /\ call[Worker].op = "analysis" /\ CutCall(Worker)
  /\ due' = IF present THEN due + 1 ELSE due
  /\ UNCHANGED <<present, lite, transcript, text, stored, unread, indexVars, chatVars, ruleVars, twice>>
-----------------------------------------------------------------------------
(* Automation rules, run by the analysis and on demand, and pushes         *)

Live == {r \in Rules : rule[r] = "live"}
\* The rules are read once; a run without any, or of a recording that is gone,
\* is over.
ListRules(s) ==
  LET found == IF present THEN Live ELSE {} IN
  /\ At(s, "analysis", "list") \/ At(s, "run", "list")
  /\ Put(s, [call[s] EXCEPT !.pc = IF found = {} THEN "200" ELSE "rule",
                            !.left = found, !.arg = found, !.seen = [r \in {} |-> none]])
  /\ UNCHANGED <<present, assistantVars>>
RunRulesNow(s) ==
  /\ Open(s, Owned("run", "list", none, none))
  /\ UNCHANGED <<present, assistantVars>>

\* A post that fails may have been delivered; an integration is read anew for
\* each rule, and one that is off or missing is not posted to.
Ready(r) == r \in Webhooks \/ integration = "on"
Outcomes(r) == IF Ready(r) THEN {"SENT", "FAILED", "LOST"} ELSE {"NEEDS_CONFIG"}
Delivered == {"SENT", "LOST"}
\* One rule failing must not break the run.
\* mutant: the first failure ends the run
Remaining_StopOnFailure(s, r, outcome) == IF outcome = "FAILED" THEN {} ELSE call[s].left \ {r}
Remaining(s, r, outcome) == call[s].left \ {r}
RunOne(s) ==
  /\ call[s].op \in {"analysis", "run"} /\ call[s].pc = "rule"
  /\ \/ \E r \in call[s].left : \E outcome \in Outcomes(r) :
          LET seen == call[s].seen IN
          /\ twice' = (twice \/ (r \in DOMAIN seen /\ {seen[r], outcome} \subseteq Delivered))
          /\ Put(s, [call[s] EXCEPT !.left = Remaining(s, r, outcome),
                                    !.seen = [q \in DOMAIN seen \cup {r} |->
                                               IF q = r THEN outcome ELSE seen[q]]])
     \/ call[s].left = {} /\ Reply(s, "200") /\ UNCHANGED twice
  /\ UNCHANGED <<present, textVars, indexVars, chatVars, ruleVars>>

CreateRule(s) ==
  /\ \E r \in Rules : rule[r] = "unused" /\ rule' = [rule EXCEPT ![r] = "live"]
  /\ Open(s, [Idle EXCEPT !.op = "create rule", !.pc = "200"])
  /\ UNCHANGED <<present, textVars, indexVars, chatVars, integration, twice>>
DeleteRuleFind(s) ==
  /\ \E r \in Live : Open(s, [Idle EXCEPT !.op = "delete rule", !.pc = "write", !.arg = r])
  /\ UNCHANGED <<present, assistantVars>>
DeleteRule(s) ==
  /\ At(s, "delete rule", "write")
  /\ rule' = [rule EXCEPT ![call[s].arg] = "gone"]
  /\ Reply(s, "200")
  /\ UNCHANGED <<present, textVars, indexVars, chatVars, integration, twice>>
SetIntegration(s) ==
  /\ \E v \in {"on", "off"} : integration # v /\ integration' = v
  /\ Open(s, [Idle EXCEPT !.op = "connect", !.pc = "200"])
  /\ UNCHANGED <<present, textVars, indexVars, chatVars, rule, twice>>
DisconnectFind(s) ==
  /\ integration # "absent"
  /\ Open(s, [Idle EXCEPT !.op = "disconnect", !.pc = "write"])
  /\ UNCHANGED <<present, assistantVars>>
\* By the id of the row that was found, which another call may have deleted.
Disconnect(s) ==
  /\ At(s, "disconnect", "write")
  /\ integration' = IF call[s].stale THEN integration ELSE "absent"
  /\ PutStale(s, [call[s] EXCEPT !.pc = "200"], "disconnect", "write")
  /\ UNCHANGED <<present, textVars, indexVars, chatVars, rule, twice>>
\* A push by hand asks only that the integration exists, on or off.
PushRecording(s) ==
  /\ Open(s, [Owned("push", "200", none, none) EXCEPT !.pc =
                IF present /\ integration = "absent" THEN "409" ELSE @])
  /\ UNCHANGED <<present, assistantVars>>
-----------------------------------------------------------------------------
(* Chat                                                                    *)

\* The transcript and the rows so far go into the prompt, then the question.
ChatRead(s) ==
  /\ Open(s, [Owned("chat", "ask", received, none) EXCEPT !.pc =
                IF present /\ ~transcript THEN "409" ELSE @])
  /\ UNCHANGED <<present, assistantVars>>
Message(role, q) == [role |-> role, of |-> q]
ChatAsk(s) ==
  /\ At(s, "chat", "ask")
  /\ IF present
     THEN /\ chat' = Append(chat, Message("USER", call[s].arg))
          /\ Reply(s, "answer")
     ELSE UNCHANGED chat /\ Reply(s, "500")
  /\ UNCHANGED <<present, textVars, indexVars, unanswered, ruleVars, twice>>
\* _ensure_ai_ok raises on a failure; the question stays in the chat.
Ensured_Anyway(ok) == IF ok THEN "save" ELSE "200"   \* mutant: a failure is taken for an answer
Ensured(ok) == IF ok THEN "save" ELSE "503"
ChatModel(s) ==
  /\ At(s, "chat", "answer")
  /\ \E ok \in BOOLEAN :
       /\ Reply(s, Ensured(ok))
       /\ unanswered' = IF ok THEN unanswered ELSE unanswered \cup {call[s].arg}
  /\ UNCHANGED <<present, textVars, indexVars, chat, ruleVars, twice>>
ChatSave(s) ==
  /\ At(s, "chat", "save")
  /\ IF present
     THEN chat' = Append(chat, Message("ASSISTANT", call[s].arg)) /\ Reply(s, "200")
     ELSE UNCHANGED chat /\ Reply(s, "500")
  /\ UNCHANGED <<present, textVars, indexVars, unanswered, ruleVars, twice>>
-----------------------------------------------------------------------------
\* The cascade of a deletion takes the text, the jobs and the chat along.  The
\* Embedding rows have no relation to the recording and stay.
DeleteFind(s) ==
  /\ Open(s, Owned("delete", "row", none, none))
  /\ UNCHANGED <<present, assistantVars>>
DeleteRow(s) ==
  /\ At(s, "delete", "row")
  /\ present' = FALSE /\ transcript' = FALSE /\ text' = 0 /\ due' = 0 /\ chat' = <<>>
  /\ Reply(s, "200")
  /\ UNCHANGED <<lite, stored, unread, indexVars, unanswered, ruleVars, twice>>
Close(s) == call[s].pc \in Codes /\ Put(s, Idle) /\ UNCHANGED <<present, assistantVars>>
Cut(s) ==
  /\ CutCall(s)
  /\ unanswered' = IF call[s].op = "chat" /\ call[s].pc \in {"answer", "save"}
                   THEN unanswered \cup {call[s].arg} ELSE unanswered
  /\ unread' = Unread(s)
  /\ UNCHANGED <<present, lite, transcript, text, stored, due, indexVars, chat, ruleVars, twice>>

Init ==
  /\ present = TRUE /\ NoCalls
  /\ lite \in LiteModes /\ due = 0
  /\ text \in {0, 1} /\ stored = text /\ transcript = (text = 1)
  /\ index = <<>> /\ chat = <<>>
  /\ rule = [r \in Rules |-> IF r \in FirstRules THEN "live" ELSE "unused"] /\ integration = "absent"
  /\ indexed = FALSE /\ unread = {} /\ unanswered = {} /\ twice = FALSE
Step(s) ==
  \/ TranscribeNow(s) \/ StoreStep(s) \/ EditSegment(s) \/ ListRules(s) \/ RunRulesNow(s) \/ RunOne(s)
  \/ CreateRule(s) \/ DeleteRuleFind(s) \/ DeleteRule(s)
  \/ SetIntegration(s) \/ DisconnectFind(s) \/ Disconnect(s) \/ PushRecording(s)
  \/ ChatRead(s) \/ ChatAsk(s) \/ ChatModel(s) \/ ChatSave(s)
  \/ DeleteFind(s) \/ DeleteRow(s) \/ Close(s) \/ Cut(s)
Drainer ==
  \/ RunTranscription \/ StoreStep(Worker) \/ StoreFails
  \/ TakeAnalysis \/ ReadUnits \/ Embed \/ ClearIndex \/ FillIndex
  \/ ListRules(Worker) \/ RunOne(Worker) \/ Close(Worker) \/ HooksFail \/ Requeue
Next == Drainer \/ \E s \in Slots : Step(s)
Spec == Init /\ [][Next]_vars
-----------------------------------------------------------------------------
\* A full index holds each unit of one text once, never a mixture of two runs.
\* It is the text of the segments there are now, unless an analysis of them is
\* still due or about to be chained, whatever stores, analyses, edits and kills
\* overlapped before.  Behind stay: segments wiped by a store that found nothing
\* or was cut, an edit, and a store cut between its segments and its chain.
Rows(v) == [i \in 1..UnitsOf(v) |-> v]
Chaining == \E s \in Actors : At(s, "store", "chain") /\ call[s].seen = text
IndexFaithful ==
  /\ indexed => \E v \in 0..stored : index = Rows(v)
  /\ present /\ indexed /\ due = 0 /\ ~Chaining /\ text \notin {0} \cup unread
       => index = Rows(text)

\* However chats overlap and fail, a question is in the chat once, its reply
\* comes after it and once, and one without a reply is being answered, or its
\* caller was told that it failed.
ChatAccounted ==
  /\ \A i \in DOMAIN chat :
       /\ \A j \in DOMAIN chat : chat[i] = chat[j] => i = j
       /\ chat[i].role = "ASSISTANT" =>
            \E j \in 1..(i - 1) : chat[j] = Message("USER", chat[i].of)
       /\ chat[i].role = "USER" =>
            \/ \E j \in DOMAIN chat : chat[j] = Message("ASSISTANT", chat[i].of)
            \/ chat[i].of \in unanswered
            \/ \E s \in Slots : call[s].op = "chat" /\ call[s].arg = chat[i].of
                                /\ call[s].pc \in {"answer", "save"}
  /\ \A s \in Slots : At(s, "chat", "200") /\ present =>
       \E i \in DOMAIN chat : chat[i] = Message("ASSISTANT", call[s].arg)

\* Each run that ends has an outcome for every rule it found, failures of the
\* others notwithstanding, and delivers none of them twice.
EachRuleOnce ==
  /\ ~twice
  /\ \A s \in Actors : call[s].op \in {"run", "analysis"} /\ call[s].pc = "200"
       => DOMAIN call[s].seen = call[s].arg
=============================================================================
