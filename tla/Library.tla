------------------------------ MODULE Library ------------------------------
(***************************************************************************)
(* What a user does to one of the recordings of the library: favourites,   *)
(* folders, tags, action items, deletion, and the two screens whose        *)
(* numbers are counted query by query (recordings.py, folders.py, tags.py, *)
(* ai.py, analytics.py).  Every handler reads, decides and writes in       *)
(* separate database calls, without a transaction, so that calls overlap.  *)
(*                                                                         *)
(* The three flags of a recording have one route each and are alike: one   *)
(* stands for them.  Everything belongs to the caller: a row of somebody   *)
(* else's is refused where it is read, like one that is missing.           *)
(***************************************************************************)
EXTENDS Calls

CONSTANTS
  Folders, Names, TagIds,   \* ids of Folder rows, names of tags, ids of Tag rows
  FirstFolders, FirstTags,  \* the folders and the tags the library starts with
  TagLists,                 \* bodies of PUT /tags
  MaxAnalyses               \* bound: analyses that replace the items

ASSUME LibraryAssumption ==
  /\ FirstFolders \subseteq Folders /\ none \notin Folders /\ MaxAnalyses \in Nat
  /\ TagLists \subseteq Seq(TagIds) /\ {"unused", "gone"} \cap Names = {}

VARIABLES
  flag, folder,   \* of the Recording row
  audio,       \* the object in storage
  folders,     \* Folder rows: unused, live or gone
  tag,         \* Tag rows: a name, or unused or gone
  assigned,    \* RecordingTag rows of the recording
  item,        \* its ActionItem row: id, live, done
  wanted, raced,      \* history: what the taps add up to; one overtook another
  asked, mixed,       \* history: the tags last asked for; a call was disturbed or cut
  halfDeleted, kept   \* history: a deletion was cut; storage refused to delete

recordingVars == <<present, flag, folder, audio>>
tagVars == <<tag, assigned, asked, mixed>>
flagHistory == <<wanted, raced>>
deleteHistory == <<halfDeleted, kept>>
vars == <<recordingVars, folders, tagVars, item, callVars, flagHistory, deleteHistory>>

Close(s) ==
  /\ call[s].pc \in Codes /\ Put(s, Idle)
  /\ UNCHANGED <<recordingVars, folders, tagVars, item, flagHistory, deleteHistory>>
-----------------------------------------------------------------------------
(* Flags, title and folder                                                 *)

ToggleFind(s) ==
  /\ Open(s, Owned("toggle", "write", none, flag))
  /\ UNCHANGED <<recordingVars, folders, tagVars, item, flagHistory, deleteHistory>>

\* The new value is that of the read; a read another call has not used yet is
\* overtaken.
Toggled_On(seen) == TRUE   \* mutant: a tap sets
Toggled(seen) == ~seen
WriteFlag(s, v, wish) ==
  /\ flag' = IF present THEN v ELSE flag
  /\ wanted' = wish
  /\ raced' = (raced \/ \E t \in Slots \ {s} : At(t, "toggle", "write"))
  /\ Reply(s, "200")
  /\ UNCHANGED <<present, folder, audio, folders, tagVars, item, deleteHistory>>
ToggleWrite(s) == At(s, "toggle", "write") /\ WriteFlag(s, Toggled(call[s].seen), ~wanted)

\* PATCH: a null is dropped, so nothing moves a recording out of its folder.
PatchFind(s) ==
  /\ \E v \in BOOLEAN \cup Folders :
       Open(s, Owned(IF v \in BOOLEAN THEN "patch flag" ELSE "patch folder", "write", v, none))
  /\ UNCHANGED <<recordingVars, folders, tagVars, item, flagHistory, deleteHistory>>
PatchFlag(s) == At(s, "patch flag", "write") /\ WriteFlag(s, call[s].arg, call[s].arg)
PatchFolder(s) ==
  LET f == call[s].arg IN
  /\ At(s, "patch folder", "write")
  /\ \/ /\ present /\ folders[f] = "live"
        /\ folder' = f
        /\ PutStale(s, [call[s] EXCEPT !.pc = "200"], "folders", "count")
     \/ /\ present /\ folders[f] # "live"
        /\ Reply(s, "500") /\ UNCHANGED folder
     \/ /\ ~present
        /\ Reply(s, "200") /\ UNCHANGED folder
  /\ UNCHANGED <<present, flag, audio, folders, tagVars, item, flagHistory, deleteHistory>>

CreateFolder(s) ==
  /\ \E f \in Folders :
       /\ folders[f] = "unused"
       /\ folders' = [folders EXCEPT ![f] = "live"]
  /\ Open(s, Fresh("create folder", "200", none, none))
  /\ UNCHANGED <<recordingVars, tagVars, item, flagHistory, deleteHistory>>
DeleteFolderFind(s) ==
  /\ \E f \in Folders :
       Open(s, Fresh("delete folder", IF folders[f] = "live" THEN "write" ELSE "404", f, none))
  /\ UNCHANGED <<recordingVars, folders, tagVars, item, flagHistory, deleteHistory>>
\* The schema sets the recording's folderId to null.
DeleteFolder(s) ==
  /\ At(s, "delete folder", "write")
  /\ folders' = [folders EXCEPT ![call[s].arg] = "gone"]
  /\ folder' = IF folder = call[s].arg THEN none ELSE folder
  /\ PutStale(s, [call[s] EXCEPT !.pc = "200"], "folders", "count")
  /\ UNCHANGED <<present, flag, audio, tagVars, item, flagHistory, deleteHistory>>

\* The folders, then one count of recordings per folder.
ListFolders(s) ==
  /\ Open(s, [Fresh("folders", "count", none, 0) EXCEPT !.left = {f \in Folders : folders[f] = "live"}])
  /\ UNCHANGED <<recordingVars, folders, tagVars, item, flagHistory, deleteHistory>>
Count_Everything(f) == IF present THEN 1 ELSE 0   \* mutant: not told by folder
Count(f) == IF present /\ folder = f THEN 1 ELSE 0
CountFolder(s) ==
  /\ At(s, "folders", "count")
  /\ \/ \E f \in call[s].left :
          Put(s, [call[s] EXCEPT !.seen = @ + Count(f), !.left = @ \ {f}])
     \/ call[s].left = {} /\ Reply(s, "200")
  /\ UNCHANGED <<recordingVars, folders, tagVars, item, flagHistory, deleteHistory>>
-----------------------------------------------------------------------------
(* Tags                                                                    *)

Live(t) == tag[t] \in Names
Linking(s) == call[s].op = "set tags" /\ call[s].pc \in {"next", "link"}

SetTagsFind(s) ==
  /\ \E list \in TagLists :
       /\ \A i \in DOMAIN list : tag[list[i]] # "unused"
       /\ Open(s, Owned("set tags", "wipe", list, none))
  /\ UNCHANGED <<recordingVars, folders, tagVars, item, flagHistory, deleteHistory>>
Cleared_Not == assigned   \* mutant: the old tags stay
Cleared == {}
SetTagsWipe(s) ==
  /\ At(s, "set tags", "wipe")
  /\ assigned' = Cleared
  /\ mixed' = \E t \in Slots \ {s} : Linking(t)
  /\ Put(s, [call[s] EXCEPT !.pc = "next", !.seen = call[s].arg])
  /\ UNCHANGED <<recordingVars, folders, tag, asked, item, flagHistory, deleteHistory>>
\* Each tag is looked up; one that is gone is passed over.
SetTagsNext(s) ==
  LET rest == call[s].seen IN
  /\ At(s, "set tags", "next")
  /\ \/ /\ rest # <<>> /\ Live(Head(rest))
        /\ Put(s, [call[s] EXCEPT !.pc = "link"]) /\ UNCHANGED asked
     \/ /\ rest # <<>> /\ ~Live(Head(rest))
        /\ Put(s, [call[s] EXCEPT !.seen = Tail(@)]) /\ UNCHANGED asked
     \/ /\ rest = <<>>
        /\ asked' = {call[s].arg[i] : i \in DOMAIN call[s].arg}
        /\ Reply(s, "200")
  /\ UNCHANGED <<recordingVars, folders, tag, assigned, mixed, item, flagHistory, deleteHistory>>
\* A row that is there already, or whose recording or tag is not, raises.
SetTagsLink(s) ==
  LET t == Head(call[s].seen) IN
  /\ At(s, "set tags", "link")
  /\ IF present /\ Live(t) /\ t \notin assigned
     THEN /\ assigned' = assigned \cup {t}
          /\ Put(s, [call[s] EXCEPT !.pc = "next", !.seen = Tail(@)]) /\ UNCHANGED mixed
     ELSE Reply(s, "500") /\ mixed' = TRUE /\ UNCHANGED assigned
  /\ UNCHANGED <<recordingVars, folders, tag, asked, item, flagHistory, deleteHistory>>

Creating == {s \in Slots : At(s, "create tag", "write")}
Named(n) == \E t \in TagIds : tag[t] = n
CreateTagFind(s) ==
  /\ Cardinality({t \in TagIds : tag[t] = "unused"}) > Cardinality(Creating)
  /\ \E n \in Names :
       Open(s, Fresh("create tag", IF Named(n) THEN "200" ELSE "write", n, none))
  /\ UNCHANGED <<recordingVars, folders, tagVars, item, flagHistory, deleteHistory>>
\* The name is unique: the second of two calls that found none raises.
CreateTag(s) ==
  /\ At(s, "create tag", "write")
  /\ IF Named(call[s].arg)
     THEN Reply(s, "500") /\ UNCHANGED tag
     ELSE /\ \E t \in TagIds : tag[t] = "unused" /\ tag' = [tag EXCEPT ![t] = call[s].arg]
          /\ Reply(s, "200")
  /\ UNCHANGED <<recordingVars, folders, assigned, asked, mixed, item, flagHistory, deleteHistory>>
DeleteTagFind(s) ==
  /\ \E t \in TagIds :
       /\ tag[t] # "unused"
       /\ Open(s, Fresh("delete tag", IF Live(t) THEN "write" ELSE "404", t, none))
  /\ UNCHANGED <<recordingVars, folders, tagVars, item, flagHistory, deleteHistory>>
DeleteTag(s) ==
  /\ At(s, "delete tag", "write")
  /\ tag' = [tag EXCEPT ![call[s].arg] = "gone"]
  /\ assigned' = assigned \ {call[s].arg}
  /\ Reply(s, "200")
  /\ UNCHANGED <<recordingVars, folders, asked, mixed, item, flagHistory, deleteHistory>>
-----------------------------------------------------------------------------
(* Action items, statistics, deletion                                      *)

\* _store_extractions of an analysis: wiped, and created unless the recording
\* is gone.
WipeItems ==
  /\ present /\ item.id < MaxAnalyses /\ call[Worker] = Idle
  /\ item' = [item EXCEPT !.live = FALSE]
  /\ PutStale(Worker, Fresh("analysis", "items", none, none), "overview", "done")
  /\ UNCHANGED <<recordingVars, folders, tagVars, flagHistory, deleteHistory>>
CreateItems ==
  /\ At(Worker, "analysis", "items")
  /\ item' = IF present THEN [id |-> item.id + 1, live |-> TRUE, done |-> FALSE] ELSE item
  /\ PutStale(Worker, Idle, "overview", "done")
  /\ UNCHANGED <<recordingVars, folders, tagVars, flagHistory, deleteHistory>>

\* The screen may show an item that an analysis has replaced since.
ToggleItemFind(s) ==
  /\ \E i \in 1..item.id :
       LET mine == item.live /\ item.id = i IN
       Open(s, IF mine THEN Owned("item", "write", i, item.done) ELSE Fresh("item", "404", i, none))
  /\ UNCHANGED <<recordingVars, folders, tagVars, item, flagHistory, deleteHistory>>
ToggleItem(s) ==
  /\ At(s, "item", "write")
  /\ item' = IF item.live /\ item.id = call[s].arg
             THEN [item EXCEPT !.done = ~call[s].seen] ELSE item
  /\ Reply(s, "200")
  /\ UNCHANGED <<recordingVars, folders, tagVars, flagHistory, deleteHistory>>

\* overview and productivity_insights: the items, then those that are done.
Overview(s) ==
  /\ Open(s, Fresh("overview", IF present THEN "total" ELSE "200", none, [total |-> 0, done |-> 0]))
  /\ UNCHANGED <<recordingVars, folders, tagVars, item, flagHistory, deleteHistory>>
CountItems(s) ==
  /\ At(s, "overview", "total")
  /\ Put(s, [call[s] EXCEPT !.pc = "done", !.seen.total = IF item.live THEN 1 ELSE 0])
  /\ UNCHANGED <<recordingVars, folders, tagVars, item, flagHistory, deleteHistory>>
CountDone(s) ==
  /\ At(s, "overview", "done")
  /\ Put(s, [call[s] EXCEPT !.pc = "200", !.seen.done = IF item.live /\ item.done THEN 1 ELSE 0])
  /\ UNCHANGED <<recordingVars, folders, tagVars, item, flagHistory, deleteHistory>>

DeleteFind(s) ==
  /\ Open(s, Owned("delete", "object", none, none))
  /\ UNCHANGED <<recordingVars, folders, tagVars, item, flagHistory, deleteHistory>>
\* "Never block deletion on a storage hiccup": what storage answers is ignored.
AfterObject_Stops(deleted) == IF deleted THEN "200" ELSE "row"   \* mutant: the row stays
AfterObject(deleted) == "row"
DeleteObject(s) ==
  /\ At(s, "delete", "object")
  /\ \E deleted \in BOOLEAN :
       /\ audio' = (audio /\ ~deleted)
       /\ kept' = (kept \/ ~deleted)
       /\ Reply(s, AfterObject(deleted))
  /\ UNCHANGED <<present, flag, folder, folders, tagVars, item, flagHistory, halfDeleted>>
\* The row, and by cascade its tags and items.
DeleteRow(s) ==
  /\ At(s, "delete", "row")
  /\ present' = FALSE /\ assigned' = {} /\ item' = [item EXCEPT !.live = FALSE]
  /\ folder' = none
  /\ PutStale(s, [call[s] EXCEPT !.pc = "200"], "folders", "count")
  /\ UNCHANGED <<flag, audio, folders, tag, asked, mixed, flagHistory, deleteHistory>>

Cut(s) ==
  /\ CutCall(s)
  /\ mixed' = (mixed \/ Linking(s))
  /\ halfDeleted' = (halfDeleted \/ At(s, "delete", "row"))
  /\ UNCHANGED <<recordingVars, folders, tag, assigned, asked, item, flagHistory, kept>>

Step(s) ==
  \/ ToggleFind(s) \/ ToggleWrite(s) \/ PatchFind(s) \/ PatchFlag(s) \/ PatchFolder(s)
  \/ CreateFolder(s) \/ DeleteFolderFind(s) \/ DeleteFolder(s) \/ ListFolders(s) \/ CountFolder(s)
  \/ SetTagsFind(s) \/ SetTagsWipe(s) \/ SetTagsNext(s) \/ SetTagsLink(s)
  \/ CreateTagFind(s) \/ CreateTag(s) \/ DeleteTagFind(s) \/ DeleteTag(s)
  \/ ToggleItemFind(s) \/ ToggleItem(s) \/ Overview(s) \/ CountItems(s) \/ CountDone(s)
  \/ DeleteFind(s) \/ DeleteObject(s) \/ DeleteRow(s) \/ Close(s)

Init ==
  /\ present = TRUE /\ flag = FALSE /\ audio = TRUE /\ folder = none
  /\ folders = [f \in Folders |-> IF f \in FirstFolders THEN "live" ELSE "unused"]
  /\ tag = [t \in TagIds |-> IF t \in DOMAIN FirstTags THEN FirstTags[t] ELSE "unused"]
  /\ assigned = {} /\ item = [id |-> 0, live |-> FALSE, done |-> FALSE]
  /\ NoCalls
  /\ wanted = FALSE /\ raced = FALSE /\ asked = {} /\ mixed = FALSE
  /\ halfDeleted = FALSE /\ kept = FALSE
Next ==
  \/ \E s \in Slots : Step(s)
  \/ WipeItems \/ CreateItems
  \/ \E s \in Actors : Cut(s)
Spec == Init /\ [][Next]_vars
-----------------------------------------------------------------------------
\* Every tap counts, however many a user sends, unless another write fell
\* between the read and the write of a tap.
FlagIsParity == present /\ ~raced => flag = wanted

\* The recording has the tags the last PUT asked for and that still exist,
\* unless two of them overlapped or one was cut; the next one alone repairs it.
TagsAsAsked ==
  present /\ ~mixed /\ (\A s \in Slots : ~Linking(s))
    => assigned = {t \in asked : Live(t)}

\* What a deletion leaves: nothing of the rows, whichever calls were about to
\* write them, and no audio unless storage refused; and no recording stays
\* without its audio, unless the deletion was cut or is still under way.
DeletionComplete ==
  /\ present /\ ~audio => halfDeleted \/ \E s \in Slots : At(s, "delete", "row")
  /\ ~present => assigned = {} /\ ~item.live
  /\ ~present /\ audio => kept

\* The numbers of a screen fit each other, though each comes of a query of its
\* own: no recording is counted in two folders and no more items are done than
\* there are, unless what is counted was moved or replaced meanwhile.
CountsAddUp ==
  \A s \in Slots : call[s].pc = "200" /\ ~call[s].stale =>
    /\ call[s].op = "folders" => call[s].seen <= 1
    /\ call[s].op = "overview" => call[s].seen.done <= call[s].seen.total
=============================================================================
