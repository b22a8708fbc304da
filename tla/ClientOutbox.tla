---------------------------- MODULE ClientOutbox ----------------------------
(***************************************************************************)
(* The Android client's upload pipeline (Repository.kt, Offline.kt): a     *)
(* finished recording is uploaded at once (presign, PUT, /complete), or,   *)
(* when anything fails, queued in the outbox file, which later flushes     *)
(* upload from.  Flushes are started by screens and buttons and may        *)
(* overlap; the connection comes and goes; the process can be killed.      *)
(*                                                                         *)
(* Every attempt presigns an object key of its own, so /complete (see      *)
(* CompleteUpload) makes a row of every attempt whose request it gets.     *)
(***************************************************************************)
EXTENDS Naturals

CONSTANTS
  Items,        \* finished recordings; the direct upload of one is named by it
  Queued,       \* those an earlier process left in the outbox
  Imported,     \* those whose file lies in the cache directory
  Failing,      \* those whose PUT may fail every time, however often it is tried
  Flushes,      \* calls of flushOutbox that may be in progress together
  MaxOutages,   \* bound: times the connection is lost in the run
  MaxFailures,  \* bound: other calls that fail while there is a connection
  MaxKills      \* bound: times the process is killed

Uploaders == Items \cup Flushes

ASSUME ClientAssumption ==
  /\ Items \cap Flushes = {} /\ Queued \subseteq Items
  /\ Imported \subseteq Items /\ Failing \subseteq Items
  /\ MaxOutages \in Nat /\ MaxFailures \in Nat /\ MaxKills \in Nat

VARIABLES
  file,      \* per item, its audio file
  outbox,    \* the items in upload_outbox.json
  task,      \* per uploader, how far it got, and its request to /complete
  rows,      \* per item, the Recording rows the server has made of it
  late,      \* per item, requests the client has given up on
  online, outages, failures, kills,
  cut,       \* history: the items whose direct upload a kill ended
  torn,      \* history: a kill caught the outbox file half written
  overlap,   \* history: two flushes were in progress together
  lost       \* history: per item, attempts whose success was not recorded

envVars == <<online, outages, failures, kills>>
historyVars == <<cut, torn, overlap, lost>>
vars == <<file, outbox, task, rows, late, envVars, historyVars>>

UploadPc == {"presign", "put", "send", "answer"}
PcSet == UploadPc \cup {"none", "add", "next", "remove", "done"}
Idle == [pc |-> "none", item |-> "none", todo |-> {}, req |-> "none"]

At(a, pc) == task[a].pc = pc
Become(a, state) == task' = [task EXCEPT ![a] = state]
Goto(a, pc) == Become(a, [task[a] EXCEPT !.pc = pc])
ItemOf(a) == task[a].item

\* A direct upload that failed is queued, one of a flush is left queued.
Settled(a, pc) == Become(a, [task[a] EXCEPT !.pc = pc, !.req = "none"])
Fail_Dropped(a) ==   \* mutant: a failed direct upload is not queued
  Settled(a, IF a \in Items THEN "done" ELSE "next")
Fail_Stops(a) ==     \* mutant: a failure ends the flush
  IF a \in Items THEN Settled(a, "add") ELSE Become(a, [Idle EXCEPT !.pc = "next"])
Fail(a) == Settled(a, IF a \in Items THEN "add" ELSE "next")
Succeed_Keep(a) ==   \* mutant: an uploaded item stays in the outbox
  Settled(a, IF a \in Items THEN "done" ELSE "next")
Succeed(a) == Settled(a, IF a \in Items THEN "done" ELSE "remove")

-----------------------------------------------------------------------------
\* finishRecordingAndUpload, importMedia: the file is complete.
Record(i) ==
  /\ file[i] = "none"
  /\ file' = [file EXCEPT ![i] = "saved"]
  /\ Become(i, [Idle EXCEPT !.pc = "presign", !.item = i])
  /\ UNCHANGED <<outbox, rows, late, envVars, historyVars>>

\* doUpload.
Presign(a) ==
  /\ At(a, "presign") /\ online
  /\ Goto(a, "put")
  /\ UNCHANGED <<file, outbox, rows, late, envVars, historyVars>>

Put(a) ==
  /\ At(a, "put") /\ online /\ file[ItemOf(a)] = "saved"
  /\ Goto(a, "send")
  /\ UNCHANGED <<file, outbox, rows, late, envVars, historyVars>>

Send(a) ==
  /\ At(a, "send") /\ online
  /\ Become(a, [task[a] EXCEPT !.pc = "answer", !.req = "sent"])
  /\ UNCHANGED <<file, outbox, rows, late, envVars, historyVars>>

Answer(a) ==
  /\ At(a, "answer") /\ online /\ task[a].req = "served"
  /\ Succeed(a)
  /\ UNCHANGED <<file, outbox, rows, late, envVars, historyVars>>

\* What becomes of the request of an attempt that ends without its answer, or
\* before the outbox reflects it: it was served, or it may still be.
Abandon(S) ==
  /\ late' = [i \in Items |->
       IF \E a \in S : ItemOf(a) = i /\ task[a].req = "sent" THEN late[i] + 1 ELSE late[i]]
  /\ lost' = [i \in Items |->
       IF \E a \in S : ItemOf(a) = i /\ task[a].pc \in {"answer", "remove"}
       THEN lost[i] + 1 ELSE lost[i]]

\* No connection, a missing file, a gateway error, a timeout, a cancelled
\* coroutine: every exception ends the attempt in the same way.
FailAttempt(a) ==
  /\ task[a].pc \in UploadPc
  /\ IF ~online \/ (At(a, "put") /\ (file[ItemOf(a)] = "gone" \/ ItemOf(a) \in Failing))
     THEN UNCHANGED failures
     ELSE failures < MaxFailures /\ failures' = failures + 1
  /\ Fail(a) /\ Abandon({a})
  /\ UNCHANGED <<file, outbox, rows, online, outages, kills, cut, torn, overlap>>

Queue(i) == outbox \cup {i}
AddToOutbox(i) ==
  /\ At(i, "add")
  /\ outbox' = Queue(i)
  /\ Goto(i, "done")
  /\ UNCHANGED <<file, rows, late, envVars, historyVars>>

-----------------------------------------------------------------------------
\* flushOutbox reads the outbox once ...
StartFlush(f) ==
  /\ At(f, "none")
  /\ Become(f, [Idle EXCEPT !.pc = "next", !.todo = outbox])
  /\ overlap' = (overlap \/ \E g \in Flushes : ~At(g, "none"))
  /\ UNCHANGED <<file, outbox, rows, late, envVars, cut, torn, lost>>

\* ... and uploads item after item, dropping those whose file is gone.
Missing(i) == file[i] = "gone"
NextItem(f) ==
  /\ At(f, "next")
  /\ \E i \in task[f].todo :
       Become(f, [pc |-> IF Missing(i) THEN "remove" ELSE "presign",
                  item |-> i, todo |-> task[f].todo \ {i}, req |-> "none"])
  /\ UNCHANGED <<file, outbox, rows, late, envVars, historyVars>>

RemoveFromOutbox(f) ==
  /\ At(f, "remove")
  /\ outbox' = outbox \ {ItemOf(f)}
  /\ Goto(f, "next")
  /\ UNCHANGED <<file, rows, late, envVars, historyVars>>

EndFlush(f) ==
  /\ At(f, "next") /\ task[f].todo = {}
  /\ Become(f, Idle)
  /\ UNCHANGED <<file, outbox, rows, late, envVars, historyVars>>

-----------------------------------------------------------------------------
(* The server, the network and the system                                  *)

Serve(a) ==
  /\ task[a].req = "sent"
  /\ rows' = [rows EXCEPT ![ItemOf(a)] = @ + 1]
  /\ Become(a, [task[a] EXCEPT !.req = "served"])
  /\ UNCHANGED <<file, outbox, late, envVars, historyVars>>

ServeLate(i) ==
  /\ late[i] > 0
  /\ rows' = [rows EXCEPT ![i] = @ + 1]
  /\ late' = [late EXCEPT ![i] = @ - 1]
  /\ UNCHANGED <<file, outbox, task, envVars, historyVars>>

Connection ==
  /\ online' = ~online
  /\ IF online THEN outages < MaxOutages /\ outages' = outages + 1 ELSE UNCHANGED outages
  /\ UNCHANGED <<file, outbox, task, rows, late, failures, kills, historyVars>>

\* The system clears the cache directory.
Evict(i) ==
  /\ i \in Imported /\ file[i] = "saved"
  /\ file' = [file EXCEPT ![i] = "gone"]
  /\ UNCHANGED <<outbox, task, rows, late, envVars, historyVars>>

\* Outbox.write truncates the file before it writes it; an unreadable file
\* reads as an empty list.
Writing == \E a \in Uploaders : task[a].pc \in {"add", "remove"}
Cut == {i \in Items : task[i].pc \in UploadPc \cup {"add"}}
Kill ==
  /\ kills < MaxKills /\ kills' = kills + 1
  /\ \/ UNCHANGED <<outbox, torn>>
     \/ Writing /\ outbox' = {} /\ torn' = TRUE
  /\ cut' = cut \cup Cut
  /\ Abandon(Uploaders)
  /\ task' = [a \in Uploaders |->
       IF a \in Items /\ ~At(a, "none") THEN [Idle EXCEPT !.pc = "done"] ELSE Idle]
  /\ UNCHANGED <<file, rows, online, outages, failures, overlap>>

-----------------------------------------------------------------------------
Init ==
  /\ file = [i \in Items |-> IF i \in Queued THEN "saved" ELSE "none"]
  /\ outbox = Queued
  /\ task = [a \in Uploaders |-> IF a \in Queued THEN [Idle EXCEPT !.pc = "done"] ELSE Idle]
  /\ rows = [i \in Items |-> 0] /\ late = [i \in Items |-> 0]
  /\ online \in BOOLEAN /\ outages = 0 /\ failures = 0 /\ kills = 0
  /\ cut = {} /\ torn = FALSE /\ overlap = FALSE /\ lost = [i \in Items |-> 0]

Upload(a) == Presign(a) \/ Put(a) \/ Send(a) \/ Answer(a) \/ FailAttempt(a)
FlushStep(f) == NextItem(f) \/ RemoveFromOutbox(f) \/ EndFlush(f)

Next ==
  \/ \E i \in Items : Record(i) \/ AddToOutbox(i) \/ ServeLate(i) \/ Evict(i)
  \/ \E a \in Uploaders : Upload(a) \/ Serve(a)
  \/ \E f \in Flushes : StartFlush(f) \/ FlushStep(f)
  \/ Connection \/ Kill

Spec == Init /\ [][Next]_vars

\* Coroutines run, a call is answered or times out, the server serves what it
\* receives.  Nothing makes a user record or start a flush.
Fairness ==
  /\ \A a \in Uploaders : WF_vars(Upload(a)) /\ WF_vars(Serve(a))
  /\ \A i \in Items : WF_vars(AddToOutbox(i))
  /\ \A f \in Flushes : WF_vars(FlushStep(f))
FairSpec == Spec /\ Fairness

-----------------------------------------------------------------------------
(* Properties                                                              *)

TaskRecord == [pc : PcSet, item : Items \cup {"none"}, todo : SUBSET Items,
               req : {"none", "sent", "served"}]

\* Every variable has the values its declaration describes.
TypeOK ==
  /\ file \in [Items -> {"none", "saved", "gone"}] /\ outbox \subseteq Items
  /\ task \in [Uploaders -> TaskRecord]
  /\ rows \in [Items -> Nat] /\ late \in [Items -> Nat] /\ lost \in [Items -> Nat]
  /\ online \in BOOLEAN /\ outages \in 0..MaxOutages
  /\ failures \in 0..MaxFailures /\ kills \in 0..MaxKills
  /\ cut \subseteq Items /\ torn \in BOOLEAN /\ overlap \in BOOLEAN

\* A recording whose file is there and of which the server has no row is in
\* the outbox or still being uploaded, whatever failed and however flushes
\* overlapped.  A kill during the direct upload, or while the outbox file is
\* written, loses it.
NothingLost ==
  \A i \in Items :
    file[i] = "saved" /\ rows[i] = 0 =>
      i \in outbox \/ task[i].pc \in UploadPc \cup {"add"} \/ i \in cut \/ torn

\* Why: an item is taken out only for a row the server has, or a lost file.
OutboxInv ==
  /\ NothingLost
  /\ \A i \in Items : /\ (file[i] = "none") = At(i, "none")
                      /\ ~At(i, "none") /\ ~At(i, "done") => ItemOf(i) = i
                      /\ task[i].pc \notin {"next", "remove"}
                      /\ At(i, "done") => task[i].req = "none"
  /\ outbox \subseteq {i \in Items : file[i] # "none"}
  /\ \A a \in Uploaders :
       /\ task[a].pc \in UploadPc \cup {"remove"} => ItemOf(a) \in Items
       /\ task[a].req # "none" => At(a, "answer")
       /\ task[a].req = "served" => rows[ItemOf(a)] > 0
       /\ At(a, "remove") => rows[ItemOf(a)] > 0 \/ file[ItemOf(a)] = "gone"

\* Without overlapping flushes, every row beyond the first was paid for by an
\* attempt whose answer was lost, or whose process was killed before the
\* outbox recorded it.
DuplicatesExplained ==
  ~overlap => \A i \in Items : rows[i] + late[i] <= lost[i] + 1

\* As long as flushes are started and the connection stays, the outbox
\* drains: an item that fails in every flush does not keep the others in it,
\* nor does one whose file is gone stay.
OutboxDrains ==
  (<>[]online /\ \A f \in Flushes : []<>~At(f, "none")) =>
    \A i \in Items \ Failing : i \in outbox ~> i \notin outbox
=============================================================================
