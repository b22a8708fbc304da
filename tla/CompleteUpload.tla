--------------------------- MODULE CompleteUpload ---------------------------
(***************************************************************************)
(* POST /media/complete of api/routes/media.py for audio: it turns an      *)
(* uploaded object into a Recording row and enqueues its transcription,    *)
(* and claims to be idempotent on the object's key.  A call is a request   *)
(* the server has received; a client whose answer was lost sends another   *)
(* with the same key, and so does an HTTP stack that resends on a broken   *)
(* connection.  Every `await` on the database is a step; it may also raise,*)
(* with or without its effect.                                             *)
(***************************************************************************)
EXTENDS Naturals

CONSTANTS
  Keys,        \* object keys, one per presigned upload
  Calls,       \* the requests the run may receive
  Overlapping  \* the keys whose calls may be in progress together

ASSUME CallsAssumption == Overlapping \subseteq Keys

VARIABLES
  row,         \* per key, the Recording row's status
  jobs,        \* per key, the TRANSCRIPTION jobs enqueued for it
  call,        \* per call, its key and how far it got
  unconfirmed  \* history: keys whose row was created by a call that was told otherwise
vars == <<row, jobs, call, unconfirmed>>

\* A call is answered with success at the end of its own work ("answered"), or
\* with the row of whoever won the race it believes it has lost ("yielded").
CallPc == {"unsent", "find", "create", "racer", "enqueue", "mark", "reload",
           "answered", "yielded", "dead"}
Busy == {"find", "create", "racer", "enqueue", "mark", "reload"}

\* The keys whose client waits for an answer, or a death, before it retries.
InTurn == Keys \ Overlapping

KeyOf(c) == call[c].key
At(c, pc) == call[c].pc = pc
Goto(c, pc) == call' = [call EXCEPT ![c] = [@ EXCEPT !.pc = pc]]
BusyOn(k) == {c \in Calls : call[c].pc \in Busy /\ KeyOf(c) = k}
Died(k) == \E c \in Calls : call[c].pc = "dead" /\ KeyOf(c) = k
Accepted(k) == \E c \in Calls : call[c].pc \in {"answered", "yielded"} /\ KeyOf(c) = k

Receive(c) ==
  /\ At(c, "unsent")
  /\ KeyOf(c) \in Overlapping \/ BusyOn(KeyOf(c)) = {}
  /\ Goto(c, "find")
  /\ UNCHANGED <<row, jobs, unconfirmed>>

\* find_unique, with the jobs of the row it finds.
WithoutJob_Always(k) == TRUE   \* mutant: every retry enqueues
WithoutJob_Never(k) == FALSE   \* mutant: a retry returns the row it finds, as it is
WithoutJob(k) == jobs[k] = 0

Find(c) ==
  /\ At(c, "find")
  /\ Goto(c, IF row[KeyOf(c)] = "absent" THEN "create"
             ELSE IF WithoutJob(KeyOf(c)) THEN "enqueue" ELSE "answered")
  /\ UNCHANGED <<row, jobs, unconfirmed>>

\* create: it succeeds; or it commits, but the call raises; or it raises and
\* nothing was written, as when the unique index on objectKey rejects a second
\* row.  The handler takes every exception for a lost race.
CreatesRow(c) ==
  /\ row[KeyOf(c)] = "absent"
  /\ row' = [row EXCEPT ![KeyOf(c)] = "UPLOADED"]
Create(c) ==
  /\ At(c, "create")
  /\ \/ CreatesRow(c) /\ Goto(c, "enqueue") /\ UNCHANGED unconfirmed
     \/ CreatesRow(c) /\ Goto(c, "racer") /\ unconfirmed' = unconfirmed \cup {KeyOf(c)}
     \/ Goto(c, "racer") /\ UNCHANGED <<row, unconfirmed>>
  /\ UNCHANGED jobs

\* The row there is now is returned as the one that won, and nothing is
\* enqueued; without one the exception goes on to the client.
Racer(c) ==
  /\ At(c, "racer")
  /\ Goto(c, IF row[KeyOf(c)] = "absent" THEN "dead" ELSE "yielded")
  /\ UNCHANGED <<row, jobs, unconfirmed>>

\* enqueue_job: the job row, then the recording's status; then the recording is
\* read again for the answer.
Enqueue(c) ==
  /\ At(c, "enqueue")
  /\ jobs' = [jobs EXCEPT ![KeyOf(c)] = @ + 1]
  /\ Goto(c, "mark")
  /\ UNCHANGED <<row, unconfirmed>>
Mark(c) ==
  /\ At(c, "mark")
  /\ row' = [row EXCEPT ![KeyOf(c)] = "PROCESSING"]
  /\ Goto(c, "reload")
  /\ UNCHANGED <<jobs, unconfirmed>>
Reload(c) ==
  /\ At(c, "reload")
  /\ Goto(c, "answered")
  /\ UNCHANGED <<row, jobs, unconfirmed>>

\* The process dies, or a database call other than create raises, before its
\* effect or (as seen from the next step) after it: the client gets no answer,
\* or an error.
Die(c) ==
  /\ call[c].pc \in Busy
  /\ Goto(c, "dead")
  /\ UNCHANGED <<row, jobs, unconfirmed>>

Init ==
  /\ row = [k \in Keys |-> "absent"]
  /\ jobs = [k \in Keys |-> 0]
  /\ call \in [Calls -> [pc : {"unsent"}, key : Keys]]
  /\ unconfirmed = {}

Step(c) == Find(c) \/ Create(c) \/ Racer(c) \/ Enqueue(c) \/ Mark(c) \/ Reload(c)
Next == \E c \in Calls : Receive(c) \/ Step(c) \/ Die(c)

Spec == Init /\ [][Next]_vars

-----------------------------------------------------------------------------
(* Properties                                                              *)

\* Every variable has the values its declaration describes.
TypeOK ==
  /\ row \in [Keys -> {"absent", "UPLOADED", "PROCESSING"}]
  /\ jobs \in [Keys -> Nat]
  /\ call \in [Calls -> [pc : CallPc, key : Keys]]
  /\ unconfirmed \subseteq Keys

\* "A retry never drops transcription": a call that was answered at the end of
\* its own work has its job in the queue, whatever died or overlapped.  One
\* that was answered with the row of another call has it once no call for the
\* key is in progress, if the client retries in turn or none of its calls died,
\* unless that "other" row is its own: a create that committed and raised.
\* There the code answers 201 and enqueues nothing.
Enqueued(k) == Accepted(k) /\ BusyOn(k) = {} => jobs[k] > 0
NeverDropped ==
  /\ \A c \in Calls : At(c, "answered") => jobs[KeyOf(c)] > 0
  /\ \A k \in Keys \ unconfirmed : k \in InTurn \/ ~Died(k) => Enqueued(k)

\* What makes retries safe when the calls for a key follow one another: the
\* row and the jobs a call found are still there when it acts on them, a row
\* that a dead call left without its job still invites one, and only a create
\* that was not confirmed is taken for a lost race.
CallInv(c) ==
  LET k == KeyOf(c) IN
  /\ call[c].pc = "create" => row[k] = "absent"
  /\ call[c].pc = "racer" => row[k] = "absent" \/ k \in unconfirmed
  /\ call[c].pc = "yielded" => k \in unconfirmed
  /\ call[c].pc = "enqueue" => row[k] # "absent" /\ jobs[k] = 0
  /\ call[c].pc \in {"mark", "reload", "answered"} => jobs[k] = 1
SequentialInv ==
  /\ \A k \in InTurn : jobs[k] \in {0, 1} /\ (row[k] = "absent" => jobs[k] = 0)
  /\ \A c, d \in Calls :
       /\ call[c].pc \in Busy /\ call[d].pc \in Busy
       /\ KeyOf(c) = KeyOf(d) /\ KeyOf(c) \in InTurn
       => c = d
  /\ \A c \in Calls : KeyOf(c) \in InTurn => CallInv(c)

\* What saves overlapping calls: an answer comes after the row, and the
\* call's own answer after the job; a row without a job is owed one by a call
\* that is about to enqueue it, unless a call for the key has died or the
\* creation of the row was not confirmed.
OwedInv ==
  /\ \A c \in Calls : call[c].pc \in {"enqueue", "mark", "reload", "answered", "yielded"}
       => row[KeyOf(c)] # "absent"
  /\ \A c \in Calls : call[c].pc \in {"mark", "reload", "answered"} => jobs[KeyOf(c)] > 0
  /\ \A k \in Keys \ unconfirmed : row[k] # "absent" /\ jobs[k] = 0 /\ ~Died(k)
       => \E c \in Calls : At(c, "enqueue") /\ KeyOf(c) = k

\* Calls that do not overlap keep the contract of the endpoint: a key is
\* registered once, enqueued at most once, and accepted only then or when the
\* registration was not confirmed.
Contract == INSTANCE UploadContract WITH
  Keys <- InTurn,
  registered <- {k \in InTurn : row[k] # "absent"},
  unconfirmed <- unconfirmed \cap InTurn,
  enqueued <- [k \in InTurn |-> jobs[k]],
  accepted <- {k \in InTurn : Accepted(k)}
ContractKept == Contract!Spec
=============================================================================
