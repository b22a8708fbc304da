--------------------------- MODULE LibraryProofs ---------------------------
(***************************************************************************)
(* Proofs about Library, for any number of calls, folders, tags and        *)
(* analyses, however they overlap and are cut.  Each property has an       *)
(* invariant of its own, about what the calls in progress have read.       *)
(***************************************************************************)
EXTENDS Library, TLAPS

-----------------------------------------------------------------------------
(* Calls                                                                   *)

\* What a call carries: arg, seen and left are of the kind its handler needs.
IsCall(c) == c = [op |-> c.op, pc |-> c.pc, arg |-> c.arg, seen |-> c.seen,
                  left |-> c.left, stale |-> c.stale]
Shape ==
  /\ call = [s \in Actors |-> call[s]]
  /\ \A s \in Actors : IsCall(call[s])

\* Call t is where it was, and has read what it had.
Same(t) ==
  /\ call'[t].op = call[t].op /\ call'[t].pc = call[t].pc /\ call'[t].arg = call[t].arg
  /\ call'[t].seen = call[t].seen /\ call'[t].left = call[t].left
Becomes(s, c) ==
  /\ call'[s] = c
  /\ \A t \in Actors \ {s} : Same(t) /\ (call[t].stale => call'[t].stale)

LEMMA IdleIsCall == IsCall(Idle)
  BY DEF Idle, Fresh, IsCall

LEMMA PutBecomes ==
  ASSUME Shape, NEW s \in Actors, NEW c, IsCall(c), Put(s, c)
  PROVE  Shape' /\ Becomes(s, c)
<1>1. call' = [call EXCEPT ![s] = c]
  BY DEF Put
<1>2. call' = [t \in Actors |-> IF t = s THEN c ELSE call[t]]
  BY <1>1 DEF Shape
<1> QED
  BY <1>2 DEF Shape, Becomes, Same

LEMMA OpenBecomes ==
  ASSUME Shape, NEW s \in Slots, NEW c, IsCall(c), Open(s, c)
  PROVE  Shape' /\ Becomes(s, c) /\ call[s] = Idle
<1>1. call' = [call EXCEPT ![s] = c] /\ s \in Actors /\ call[s] = Idle
  BY DEF Open, Actors
<1>2. call' = [t \in Actors |-> IF t = s THEN c ELSE call[t]]
  BY <1>1 DEF Shape
<1> QED
  BY <1>1, <1>2 DEF Shape, Becomes, Same

LEMMA StaleEdit ==
  ASSUME NEW c, IsCall(c), NEW v
  PROVE  LET d == [c EXCEPT !.stale = @ \/ v] IN
         /\ IsCall(d) /\ d.op = c.op /\ d.pc = c.pc /\ d.arg = c.arg /\ d.seen = c.seen
         /\ d.left = c.left /\ (c.stale \/ v => d.stale)
<1> DEFINE d == [c EXCEPT !.stale = @ \/ v]
<1>1. /\ IsCall(d) /\ d.op = c.op /\ d.pc = c.pc /\ d.arg = c.arg /\ d.seen = c.seen
      /\ d.left = c.left /\ d.stale = (c.stale \/ v)
  BY DEF IsCall
<1> HIDE DEF d
<1>2. c.stale \/ v => d.stale
  BY <1>1, Zenon
<1> QED
  BY <1>1, <1>2 DEF d

LEMMA PutStaleBecomes ==
  ASSUME Shape, NEW s \in Actors, NEW c, IsCall(c), NEW op, NEW pc, PutStale(s, c, op, pc)
  PROVE  /\ Shape' /\ Becomes(s, c)
         /\ \A t \in Actors \ {s} : At(t, op, pc) => call'[t].stale
<1>1. call' = [t \in Actors |-> IF t = s THEN c ELSE
                 [call[t] EXCEPT !.stale = @ \/ At(t, op, pc)]]
  BY DEF PutStale
<1>2. ASSUME NEW t \in Actors \ {s}
      PROVE  IsCall(call'[t]) /\ Same(t) /\ (call[t].stale \/ At(t, op, pc) => call'[t].stale)
  <2>1. IsCall(call[t]) /\ call'[t] = [call[t] EXCEPT !.stale = @ \/ At(t, op, pc)]
    BY <1>1 DEF Shape
  <2> QED
    BY <2>1, StaleEdit DEF Same
<1>3. call'[s] = c
  BY <1>1
<1>4. call' = [t \in Actors |-> call'[t]]
  BY <1>1
<1> QED
  BY <1>2, <1>3, <1>4 DEF Shape, Becomes

\* What an edit of a call leaves alone.
Has(d, op, pc, arg, seen, left, stale) ==
  /\ IsCall(d) /\ d.op = op /\ d.pc = pc /\ d.arg = arg /\ d.seen = seen /\ d.left = left
  /\ d.stale = stale

LEMMA PcEdit ==
  ASSUME NEW c, IsCall(c), NEW pc
  PROVE  Has([c EXCEPT !.pc = pc], c.op, pc, c.arg, c.seen, c.left, c.stale)
  BY DEF IsCall, Has

LEMMA SeenEdit ==
  ASSUME NEW c, IsCall(c), NEW seen
  PROVE  Has([c EXCEPT !.seen = seen], c.op, c.pc, c.arg, seen, c.left, c.stale)
  BY DEF IsCall, Has

LEMMA LeftEdit ==
  ASSUME NEW c, IsCall(c), NEW left
  PROVE  Has([c EXCEPT !.left = left], c.op, c.pc, c.arg, c.seen, left, c.stale)
  BY DEF IsCall, Has

LEMMA PcSeenEdit ==
  ASSUME NEW c, IsCall(c), NEW pc, NEW seen
  PROVE  Has([c EXCEPT !.pc = pc, !.seen = seen], c.op, pc, c.arg, seen, c.left, c.stale)
<1> DEFINE e == [c EXCEPT !.pc = pc]
<1>1. [c EXCEPT !.pc = pc, !.seen = seen] = [e EXCEPT !.seen = seen]
  BY DEF IsCall
<1>2. Has(e, c.op, pc, c.arg, c.seen, c.left, c.stale)
  BY PcEdit
<1> HIDE DEF e
<1>3. Has([e EXCEPT !.seen = seen], c.op, pc, c.arg, seen, c.left, c.stale)
  BY <1>2, SeenEdit DEF Has
<1> QED
  BY <1>1, <1>3

LEMMA SeenLeftEdit ==
  ASSUME NEW c, IsCall(c), NEW seen, NEW left
  PROVE  Has([c EXCEPT !.seen = seen, !.left = left], c.op, c.pc, c.arg, seen, left, c.stale)
<1> DEFINE e == [c EXCEPT !.seen = seen]
<1>1. [c EXCEPT !.seen = seen, !.left = left] = [e EXCEPT !.left = left]
  BY DEF IsCall
<1>2. Has(e, c.op, c.pc, c.arg, seen, c.left, c.stale)
  BY SeenEdit
<1> HIDE DEF e
<1>3. Has([e EXCEPT !.left = left], c.op, c.pc, c.arg, seen, left, c.stale)
  BY <1>2, LeftEdit DEF Has
<1> QED
  BY <1>1, <1>3

LEMMA FreshCall ==
  ASSUME NEW op, NEW pc, NEW arg, NEW seen
  PROVE  Has(Fresh(op, pc, arg, seen), op, pc, arg, seen, {}, FALSE)
  BY DEF Fresh, IsCall, Has

LEMMA OwnedCall ==
  ASSUME NEW op, NEW pc, NEW arg, NEW seen
  PROVE  Has(Owned(op, pc, arg, seen), op, IF present THEN pc ELSE "404", arg, seen, {}, FALSE)
  BY FreshCall DEF Owned

\* The calls of a family stay in it.
Others(s) == \A t \in Actors \ {s} : Same(t) /\ (call[t].stale => call'[t].stale)
FlagStep(s) ==
  ToggleFind(s) \/ ToggleWrite(s) \/ PatchFind(s) \/ PatchFlag(s) \/ PatchFolder(s)
FolderStep(s) ==
  CreateFolder(s) \/ DeleteFolderFind(s) \/ DeleteFolder(s) \/ ListFolders(s) \/ CountFolder(s)
SetTags(s) == SetTagsFind(s) \/ SetTagsWipe(s) \/ SetTagsNext(s) \/ SetTagsLink(s)
TagStep(s) == CreateTagFind(s) \/ CreateTag(s) \/ DeleteTagFind(s) \/ DeleteTag(s)
ItemStep(s) == ToggleItemFind(s) \/ ToggleItem(s)
CountStep(s) == Overview(s) \/ CountItems(s) \/ CountDone(s)
DeleteStep(s) == DeleteFind(s) \/ DeleteObject(s) \/ DeleteRow(s)

LEMMA SlotsAreActors == Slots \subseteq Actors /\ Worker \in Actors /\ Worker \notin Slots
  BY CallsAssumption DEF Actors

LEMMA OpenFresh ==
  ASSUME Shape, NEW s \in Slots, NEW op, NEW pc, NEW arg, NEW seen, Open(s, Fresh(op, pc, arg, seen))
  PROVE  /\ Shape' /\ Others(s) /\ call[s] = Idle
         /\ Has(call'[s], op, pc, arg, seen, {}, FALSE)
<1>1. Has(Fresh(op, pc, arg, seen), op, pc, arg, seen, {}, FALSE)
  BY FreshCall
<1>2. IsCall(Fresh(op, pc, arg, seen))
  BY <1>1 DEF Has
<1>3. Shape' /\ Becomes(s, Fresh(op, pc, arg, seen)) /\ call[s] = Idle
  BY <1>2, OpenBecomes
<1> QED
  BY <1>1, <1>3 DEF Becomes, Others

LEMMA OpenOwned ==
  ASSUME Shape, NEW s \in Slots, NEW op, NEW pc, NEW arg, NEW seen, Open(s, Owned(op, pc, arg, seen))
  PROVE  /\ Shape' /\ Others(s) /\ call[s] = Idle
         /\ Has(call'[s], op, IF present THEN pc ELSE "404", arg, seen, {}, FALSE)
  BY OpenFresh DEF Owned

LEMMA PutPc ==
  ASSUME Shape, NEW s \in Actors, NEW pc, Put(s, [call[s] EXCEPT !.pc = pc])
  PROVE  /\ Shape' /\ Others(s)
         /\ Has(call'[s], call[s].op, pc, call[s].arg, call[s].seen, call[s].left, call[s].stale)
<1> DEFINE d == [call[s] EXCEPT !.pc = pc]
<1>1. Has(d, call[s].op, pc, call[s].arg, call[s].seen, call[s].left, call[s].stale)
  BY PcEdit DEF Shape
<1> HIDE DEF d
<1>2. IsCall(d)
  BY <1>1 DEF Has
<1>3. Put(s, d)
  BY DEF d
<1>4. Shape' /\ Becomes(s, d)
  BY <1>2, <1>3, PutBecomes
<1> QED
  BY <1>1, <1>4 DEF Becomes, Others

LEMMA PutSeen ==
  ASSUME Shape, NEW s \in Actors, NEW seen, Put(s, [call[s] EXCEPT !.seen = seen])
  PROVE  /\ Shape' /\ Others(s)
         /\ Has(call'[s], call[s].op, call[s].pc, call[s].arg, seen, call[s].left, call[s].stale)
<1> DEFINE d == [call[s] EXCEPT !.seen = seen]
<1>1. Has(d, call[s].op, call[s].pc, call[s].arg, seen, call[s].left, call[s].stale)
  BY SeenEdit DEF Shape
<1> HIDE DEF d
<1>2. IsCall(d)
  BY <1>1 DEF Has
<1>3. Put(s, d)
  BY DEF d
<1>4. Shape' /\ Becomes(s, d)
  BY <1>2, <1>3, PutBecomes
<1> QED
  BY <1>1, <1>4 DEF Becomes, Others

LEMMA PutPcSeen ==
  ASSUME Shape, NEW s \in Actors, NEW pc, NEW seen, Put(s, [call[s] EXCEPT !.pc = pc, !.seen = seen])
  PROVE  /\ Shape' /\ Others(s)
         /\ Has(call'[s], call[s].op, pc, call[s].arg, seen, call[s].left, call[s].stale)
<1> DEFINE d == [call[s] EXCEPT !.pc = pc, !.seen = seen]
<1>1. Has(d, call[s].op, pc, call[s].arg, seen, call[s].left, call[s].stale)
  BY PcSeenEdit DEF Shape
<1> HIDE DEF d
<1>2. IsCall(d)
  BY <1>1 DEF Has
<1>3. Put(s, d)
  BY DEF d
<1>4. Shape' /\ Becomes(s, d)
  BY <1>2, <1>3, PutBecomes
<1> QED
  BY <1>1, <1>4 DEF Becomes, Others

LEMMA PutSeenLeft ==
  ASSUME Shape, NEW s \in Actors, NEW seen, NEW left,
         Put(s, [call[s] EXCEPT !.seen = seen, !.left = left])
  PROVE  /\ Shape' /\ Others(s)
         /\ Has(call'[s], call[s].op, call[s].pc, call[s].arg, seen, left, call[s].stale)
<1> DEFINE d == [call[s] EXCEPT !.seen = seen, !.left = left]
<1>1. Has(d, call[s].op, call[s].pc, call[s].arg, seen, left, call[s].stale)
  BY SeenLeftEdit DEF Shape
<1> HIDE DEF d
<1>2. IsCall(d)
  BY <1>1 DEF Has
<1>3. Put(s, d)
  BY DEF d
<1>4. Shape' /\ Becomes(s, d)
  BY <1>2, <1>3, PutBecomes
<1> QED
  BY <1>1, <1>4 DEF Becomes, Others

LEMMA PutStalePc ==
  ASSUME Shape, NEW s \in Actors, NEW pc, NEW op, NEW at,
         PutStale(s, [call[s] EXCEPT !.pc = pc], op, at)
  PROVE  /\ Shape' /\ Others(s)
         /\ Has(call'[s], call[s].op, pc, call[s].arg, call[s].seen, call[s].left, call[s].stale)
         /\ \A t \in Actors \ {s} : At(t, op, at) => call'[t].stale
<1> DEFINE d == [call[s] EXCEPT !.pc = pc]
<1>1. Has(d, call[s].op, pc, call[s].arg, call[s].seen, call[s].left, call[s].stale)
  BY PcEdit DEF Shape
<1> HIDE DEF d
<1>2. IsCall(d)
  BY <1>1 DEF Has
<1>3. PutStale(s, d, op, at)
  BY DEF d
<1>4. /\ Shape' /\ Becomes(s, d)
      /\ \A t \in Actors \ {s} : At(t, op, at) => call'[t].stale
  BY <1>2, <1>3, PutStaleBecomes
<1> QED
  BY <1>1, <1>4 DEF Becomes, Others

-----------------------------------------------------------------------------
(* What the steps of each family do to the call that makes them            *)

LEMMA FlagCalls ==
  ASSUME Shape, NEW s \in Slots, FlagStep(s)
  PROVE  /\ Shape' /\ Others(s) /\ call'[s].op \in {"toggle", "patch flag", "patch folder"}
         /\ At(s, "toggle", "write")' => call'[s].seen = flag /\ ~ToggleWrite(s)
<1>0. s \in Actors
  BY SlotsAreActors
<1>1. CASE ToggleFind(s)
  <2>1. /\ Shape' /\ Others(s)
        /\ Has(call'[s], "toggle", IF present THEN "write" ELSE "404", none, flag, {}, FALSE)
        /\ call[s] = Idle
    BY <1>1, OpenOwned DEF ToggleFind
  <2>2. ~ToggleWrite(s)
    BY <2>1 DEF ToggleWrite, At, Idle, Fresh
  <2> QED
    BY <2>1, <2>2 DEF Has
<1>2. CASE ToggleWrite(s)
  <2>1. /\ Shape' /\ Others(s) /\ call[s].op = "toggle"
        /\ Has(call'[s], call[s].op, "200", call[s].arg, call[s].seen, call[s].left, call[s].stale)
    BY <1>0, <1>2, PutPc DEF ToggleWrite, WriteFlag, Reply, At
  <2> QED
    BY <2>1 DEF Has, At
<1>3. CASE PatchFind(s)
  <2>1. PICK v : Open(s, Owned(IF v \in BOOLEAN THEN "patch flag" ELSE "patch folder", "write", v, none))
    BY <1>3 DEF PatchFind
  <2>2. PICK op : /\ op = IF v \in BOOLEAN THEN "patch flag" ELSE "patch folder"
                  /\ Open(s, Owned(op, "write", v, none))
    BY <2>1
  <2>3. /\ Shape' /\ Others(s)
        /\ Has(call'[s], op, IF present THEN "write" ELSE "404", v, none, {}, FALSE)
    BY <2>2, OpenOwned
  <2> QED
    BY <2>2, <2>3 DEF Has, At
<1>4. CASE PatchFlag(s)
  <2>1. /\ Shape' /\ Others(s) /\ call[s].op = "patch flag"
        /\ Has(call'[s], call[s].op, "200", call[s].arg, call[s].seen, call[s].left, call[s].stale)
    BY <1>0, <1>4, PutPc DEF PatchFlag, WriteFlag, Reply, At
  <2> QED
    BY <2>1 DEF Has, At
<1>5. CASE PatchFolder(s)
  <2>1. call[s].op = "patch folder"
    BY <1>5 DEF PatchFolder, At
  <2>2. CASE PutStale(s, [call[s] EXCEPT !.pc = "200"], "folders", "count")
    <3>1. /\ Shape' /\ Others(s)
          /\ Has(call'[s], call[s].op, "200", call[s].arg, call[s].seen, call[s].left, call[s].stale)
      BY <1>0, <2>2, PutStalePc
    <3> QED
      BY <2>1, <3>1 DEF Has, At
  <2>3. ASSUME NEW code, Reply(s, code)
        PROVE  /\ Shape' /\ Others(s)
               /\ Has(call'[s], call[s].op, code, call[s].arg, call[s].seen, call[s].left, call[s].stale)
    BY <1>0, <2>3, PutPc DEF Reply
  <2> QED
    BY <1>5, <2>1, <2>2, <2>3 DEF PatchFolder, Has, At
<1> QED
  BY <1>1, <1>2, <1>3, <1>4, <1>5 DEF FlagStep

LEMMA FolderCalls ==
  ASSUME Shape, NEW s \in Slots, FolderStep(s)
  PROVE  /\ Shape' /\ Others(s) /\ call'[s].op \in {"create folder", "delete folder", "folders"}
         /\ \/ call'[s].op # "folders"
            \/ ListFolders(s) /\ call'[s].seen = 0 /\ call'[s].pc = "count"
            \/ /\ CountFolder(s) /\ call[s].op = "folders" /\ call[s].pc = "count"
               /\ call'[s].stale = call[s].stale
               /\ \/ \E f \in call[s].left :
                       /\ call'[s].pc = "count" /\ call'[s].seen = call[s].seen + Count(f)
                       /\ call'[s].left = call[s].left \ {f}
                  \/ call'[s].pc = "200" /\ call'[s].seen = call[s].seen
<1>0. s \in Actors
  BY SlotsAreActors
<1>1. CASE CreateFolder(s)
  <2>1. Shape' /\ Others(s) /\ Has(call'[s], "create folder", "200", none, none, {}, FALSE)
    BY <1>1, OpenFresh DEF CreateFolder
  <2> QED
    BY <2>1 DEF Has
<1>2. CASE DeleteFolderFind(s)
  <2>1. PICK f, pc : Open(s, Fresh("delete folder", pc, f, none))
    BY <1>2 DEF DeleteFolderFind
  <2>2. Shape' /\ Others(s) /\ Has(call'[s], "delete folder", pc, f, none, {}, FALSE)
    BY <2>1, OpenFresh
  <2> QED
    BY <2>2 DEF Has
<1>3. CASE DeleteFolder(s)
  <2>1. /\ Shape' /\ Others(s) /\ call[s].op = "delete folder"
        /\ Has(call'[s], call[s].op, "200", call[s].arg, call[s].seen, call[s].left, call[s].stale)
    BY <1>0, <1>3, PutStalePc DEF DeleteFolder, At
  <2> QED
    BY <2>1 DEF Has
<1>4. CASE ListFolders(s)
  <2> DEFINE c == Fresh("folders", "count", none, 0)
             L == {f \in Folders : folders[f] = "live"}
             d == [c EXCEPT !.left = L]
  <2>1. Has(c, "folders", "count", none, 0, {}, FALSE)
    BY FreshCall
  <2>2. Open(s, d)
    BY <1>4 DEF ListFolders
  <2> HIDE DEF c
  <2>3. IsCall(c)
    BY <2>1 DEF Has
  <2>4. Has(d, c.op, c.pc, c.arg, c.seen, L, c.stale)
    BY <2>3, LeftEdit
  <2> HIDE DEF L, d
  <2>5. IsCall(d) /\ d.op = "folders" /\ d.pc = "count" /\ d.seen = 0
    BY <2>1, <2>4 DEF Has
  <2>6. Shape' /\ Becomes(s, d)
    BY <2>2, <2>5, OpenBecomes
  <2> QED
    BY <1>4, <2>5, <2>6 DEF Becomes, Others
<1>5. CASE CountFolder(s)
  <2>1. call[s].op = "folders" /\ call[s].pc = "count"
    BY <1>5 DEF CountFolder, At
  <2>2. ASSUME NEW f \in call[s].left,
               Put(s, [call[s] EXCEPT !.seen = @ + Count(f), !.left = @ \ {f}])
        PROVE  /\ Shape' /\ Others(s)
               /\ Has(call'[s], call[s].op, call[s].pc, call[s].arg, call[s].seen + Count(f),
                      call[s].left \ {f}, call[s].stale)
    BY <1>0, <2>2, PutSeenLeft
  <2>3. ASSUME Reply(s, "200")
        PROVE  /\ Shape' /\ Others(s)
               /\ Has(call'[s], call[s].op, "200", call[s].arg, call[s].seen, call[s].left, call[s].stale)
    BY <1>0, <2>3, PutPc DEF Reply
  <2>4. CASE \E f \in call[s].left :
               Put(s, [call[s] EXCEPT !.seen = @ + Count(f), !.left = @ \ {f}])
    <3>1. PICK f \in call[s].left :
               Put(s, [call[s] EXCEPT !.seen = @ + Count(f), !.left = @ \ {f}])
      BY <2>4
    <3> QED
      BY <1>5, <2>1, <2>2, <3>1 DEF Has
  <2>5. CASE Reply(s, "200")
    BY <1>5, <2>1, <2>3, <2>5 DEF Has
  <2> QED
    BY <1>5, <2>4, <2>5 DEF CountFolder
<1> QED
  BY <1>1, <1>2, <1>3, <1>4, <1>5 DEF FolderStep

LEMMA TagCalls ==
  ASSUME Shape, NEW s \in Slots, TagStep(s)
  PROVE  /\ Shape' /\ Others(s) /\ call'[s].op \in {"create tag", "delete tag"}
         /\ At(s, "create tag", "write")' => call'[s].arg \in Names
         /\ At(s, "delete tag", "write")' => call'[s].arg \in TagIds /\ tag[call'[s].arg] # "unused"
<1>0. s \in Actors
  BY SlotsAreActors
<1>1. CASE CreateTagFind(s)
  <2>1. PICK n, pc : n \in Names /\ Open(s, Fresh("create tag", pc, n, none))
    BY <1>1 DEF CreateTagFind
  <2>2. Shape' /\ Others(s) /\ Has(call'[s], "create tag", pc, n, none, {}, FALSE)
    BY <2>1, OpenFresh
  <2> QED
    BY <2>1, <2>2 DEF Has, At
<1>2. CASE CreateTag(s)
  <2>1. PICK code \in {"200", "500"} : Reply(s, code)
    BY <1>2 DEF CreateTag
  <2>2. /\ Shape' /\ Others(s) /\ call[s].op = "create tag"
        /\ Has(call'[s], call[s].op, code, call[s].arg, call[s].seen, call[s].left, call[s].stale)
    BY <1>0, <1>2, <2>1, PutPc DEF Reply, CreateTag, At
  <2> QED
    BY <2>2 DEF Has, At
<1>3. CASE DeleteTagFind(s)
  <2>1. PICK t, pc : /\ t \in TagIds /\ tag[t] # "unused"
                     /\ Open(s, Fresh("delete tag", pc, t, none))
    BY <1>3 DEF DeleteTagFind
  <2>2. Shape' /\ Others(s) /\ Has(call'[s], "delete tag", pc, t, none, {}, FALSE)
    BY <2>1, OpenFresh
  <2> QED
    BY <2>1, <2>2 DEF Has, At
<1>4. CASE DeleteTag(s)
  <2>1. /\ Shape' /\ Others(s) /\ call[s].op = "delete tag"
        /\ Has(call'[s], call[s].op, "200", call[s].arg, call[s].seen, call[s].left, call[s].stale)
    BY <1>0, <1>4, PutPc DEF DeleteTag, Reply, At
  <2> QED
    BY <2>1 DEF Has, At
<1> QED
  BY <1>1, <1>2, <1>3, <1>4 DEF TagStep

LEMMA SetTagsCalls ==
  ASSUME Shape, NEW s \in Slots, SetTags(s)
  PROVE  /\ Shape' /\ Others(s) /\ call'[s].op = "set tags"
         /\ SetTagsFind(s) =>
              /\ call'[s].arg \in TagLists /\ call'[s].pc \in {"wipe", "404"}
              /\ \A i \in DOMAIN call'[s].arg : tag[call'[s].arg[i]] # "unused"
         /\ ~SetTagsFind(s) => call[s].op = "set tags" /\ call'[s].arg = call[s].arg
         /\ SetTagsWipe(s) => call'[s].pc = "next" /\ call'[s].seen = call[s].arg
         /\ SetTagsNext(s) =>
              LET rest == call[s].seen IN
              \/ rest # <<>> /\ call'[s].pc = "link" /\ call'[s].seen = rest /\ asked' = asked
              \/ /\ rest # <<>> /\ ~Live(Head(rest)) /\ call'[s].pc = "next"
                 /\ call'[s].seen = Tail(rest) /\ asked' = asked
              \/ /\ rest = <<>> /\ call'[s].pc = "200"
                 /\ asked' = {call[s].arg[i] : i \in DOMAIN call[s].arg}
         /\ SetTagsLink(s) =>
              \/ call'[s].pc = "next" /\ call'[s].seen = Tail(call[s].seen)
              \/ call'[s].pc = "500" /\ mixed'
<1>0. s \in Actors
  BY SlotsAreActors
<1>1. CASE SetTagsFind(s)
  <2>1. PICK list \in TagLists : /\ \A i \in DOMAIN list : tag[list[i]] # "unused"
                                 /\ Open(s, Owned("set tags", "wipe", list, none))
    BY <1>1 DEF SetTagsFind
  <2>2. /\ Shape' /\ Others(s) /\ call[s] = Idle
        /\ Has(call'[s], "set tags", IF present THEN "wipe" ELSE "404", list, none, {}, FALSE)
    BY <2>1, OpenOwned
  <2>3. Idle.op = "none"
    BY DEF Idle, Fresh
  <2>4. ~SetTagsWipe(s) /\ ~SetTagsNext(s) /\ ~SetTagsLink(s)
    BY <2>2, <2>3 DEF SetTagsWipe, SetTagsNext, SetTagsLink, At
  <2> QED
    BY <1>1, <2>1, <2>2, <2>4 DEF Has
<1>2. ASSUME ~SetTagsFind(s)
      PROVE  call[s].op = "set tags" /\ call[s].pc \in {"wipe", "next", "link"}
  BY <1>2 DEF SetTags, SetTagsWipe, SetTagsNext, SetTagsLink, At
<1>3. ASSUME NEW pc, NEW seen, Put(s, [call[s] EXCEPT !.pc = pc, !.seen = seen]), ~SetTagsFind(s)
      PROVE  /\ Shape' /\ Others(s) /\ call'[s].op = "set tags" /\ call'[s].arg = call[s].arg
             /\ call'[s].pc = pc /\ call'[s].seen = seen
  BY <1>0, <1>2, <1>3, PutPcSeen DEF Has
<1>4. ASSUME NEW pc, Put(s, [call[s] EXCEPT !.pc = pc]), ~SetTagsFind(s)
      PROVE  /\ Shape' /\ Others(s) /\ call'[s].op = "set tags" /\ call'[s].arg = call[s].arg
             /\ call'[s].pc = pc /\ call'[s].seen = call[s].seen
  BY <1>0, <1>2, <1>4, PutPc DEF Has
<1>5. ASSUME NEW seen, Put(s, [call[s] EXCEPT !.seen = seen]), ~SetTagsFind(s)
      PROVE  /\ Shape' /\ Others(s) /\ call'[s].op = "set tags" /\ call'[s].arg = call[s].arg
             /\ call'[s].pc = call[s].pc /\ call'[s].seen = seen
  BY <1>0, <1>2, <1>5, PutSeen DEF Has
<1>6. CASE SetTagsWipe(s) /\ ~SetTagsFind(s)
  <2>1. ~SetTagsNext(s) /\ ~SetTagsLink(s)
    BY <1>6 DEF SetTagsWipe, SetTagsNext, SetTagsLink, At
  <2>2. Put(s, [call[s] EXCEPT !.pc = "next", !.seen = call[s].arg])
    BY <1>6 DEF SetTagsWipe
  <2> QED
    BY <1>2, <1>3, <1>6, <2>1, <2>2
<1>7. CASE SetTagsNext(s) /\ ~SetTagsFind(s)
  <2>1. ~SetTagsWipe(s) /\ ~SetTagsLink(s) /\ call[s].pc = "next"
    BY <1>7 DEF SetTagsWipe, SetTagsNext, SetTagsLink, At
  <2>2. \/ /\ call[s].seen # <<>> /\ Put(s, [call[s] EXCEPT !.pc = "link"]) /\ asked' = asked
        \/ /\ call[s].seen # <<>> /\ ~Live(Head(call[s].seen)) /\ asked' = asked
           /\ Put(s, [call[s] EXCEPT !.seen = Tail(call[s].seen)])
        \/ /\ call[s].seen = <<>> /\ Put(s, [call[s] EXCEPT !.pc = "200"])
           /\ asked' = {call[s].arg[i] : i \in DOMAIN call[s].arg}
    BY <1>7 DEF SetTagsNext, Reply
  <2> QED
    BY <1>2, <1>4, <1>5, <1>7, <2>1, <2>2
<1>8. CASE SetTagsLink(s) /\ ~SetTagsFind(s)
  <2>1. ~SetTagsWipe(s) /\ ~SetTagsNext(s)
    BY <1>8 DEF SetTagsWipe, SetTagsNext, SetTagsLink, At
  <2>2. \/ Put(s, [call[s] EXCEPT !.pc = "next", !.seen = Tail(call[s].seen)])
        \/ Put(s, [call[s] EXCEPT !.pc = "500"]) /\ mixed'
    BY <1>8 DEF SetTagsLink, Reply
  <2> QED
    BY <1>2, <1>3, <1>4, <1>8, <2>1, <2>2
<1> QED
  BY <1>1, <1>6, <1>7, <1>8 DEF SetTags

LEMMA CountCalls ==
  ASSUME Shape, NEW s \in Slots, CountStep(s)
  PROVE  /\ Shape' /\ Others(s) /\ call'[s].op = "overview"
         /\ \/ /\ Overview(s) /\ call'[s].seen = [total |-> 0, done |-> 0]
               /\ call'[s].pc \in {"total", "200"}
            \/ /\ CountItems(s) /\ At(s, "overview", "total") /\ call'[s].stale = call[s].stale
               /\ call'[s].pc = "done"
               /\ call'[s].seen = [call[s].seen EXCEPT !.total = IF item.live THEN 1 ELSE 0]
            \/ /\ CountDone(s) /\ At(s, "overview", "done") /\ call'[s].stale = call[s].stale
               /\ call'[s].pc = "200"
               /\ call'[s].seen =
                    [call[s].seen EXCEPT !.done = IF item.live /\ item.done THEN 1 ELSE 0]
<1>0. s \in Actors
  BY SlotsAreActors
<1>1. CASE Overview(s)
  <2>1. PICK pc \in {"total", "200"} :
          Open(s, Fresh("overview", pc, none, [total |-> 0, done |-> 0]))
    BY <1>1 DEF Overview
  <2>2. /\ Shape' /\ Others(s)
        /\ Has(call'[s], "overview", pc, none, [total |-> 0, done |-> 0], {}, FALSE)
    BY <2>1, OpenFresh
  <2> QED
    BY <1>1, <2>2 DEF Has
<1>2. CASE CountItems(s)
  <2>1. PICK seen : seen = [call[s].seen EXCEPT !.total = IF item.live THEN 1 ELSE 0]
    OBVIOUS
  <2>2. Put(s, [call[s] EXCEPT !.pc = "done", !.seen = seen]) /\ At(s, "overview", "total")
    BY <1>2, <2>1 DEF CountItems, Put
  <2>3. /\ Shape' /\ Others(s)
        /\ Has(call'[s], call[s].op, "done", call[s].arg, seen, call[s].left, call[s].stale)
    BY <1>0, <2>2, PutPcSeen
  <2> QED
    BY <1>2, <2>1, <2>2, <2>3 DEF Has, At
<1>3. CASE CountDone(s)
  <2>1. PICK seen : seen = [call[s].seen EXCEPT !.done = IF item.live /\ item.done THEN 1 ELSE 0]
    OBVIOUS
  <2>2. Put(s, [call[s] EXCEPT !.pc = "200", !.seen = seen]) /\ At(s, "overview", "done")
    BY <1>3, <2>1 DEF CountDone, Put
  <2>3. /\ Shape' /\ Others(s)
        /\ Has(call'[s], call[s].op, "200", call[s].arg, seen, call[s].left, call[s].stale)
    BY <1>0, <2>2, PutPcSeen
  <2> QED
    BY <1>3, <2>1, <2>2, <2>3 DEF Has, At
<1> QED
  BY <1>1, <1>2, <1>3 DEF CountStep

LEMMA ItemCalls ==
  ASSUME Shape, NEW s \in Slots, ItemStep(s)
  PROVE  Shape' /\ Others(s) /\ call'[s].op = "item"
<1>0. s \in Actors
  BY SlotsAreActors
<1>1. CASE ToggleItemFind(s)
  <2>1. PICK pc, i, seen : Open(s, Fresh("item", pc, i, seen))
    BY <1>1 DEF ToggleItemFind, Owned
  <2>2. Shape' /\ Others(s) /\ Has(call'[s], "item", pc, i, seen, {}, FALSE)
    BY <2>1, OpenFresh
  <2> QED
    BY <2>2 DEF Has
<1>2. CASE ToggleItem(s)
  <2>1. /\ Shape' /\ Others(s) /\ call[s].op = "item"
        /\ Has(call'[s], call[s].op, "200", call[s].arg, call[s].seen, call[s].left, call[s].stale)
    BY <1>0, <1>2, PutPc DEF ToggleItem, Reply, At
  <2> QED
    BY <2>1 DEF Has
<1> QED
  BY <1>1, <1>2 DEF ItemStep

LEMMA DeleteCalls ==
  ASSUME Shape, NEW s \in Slots, DeleteStep(s)
  PROVE  /\ Shape' /\ Others(s) /\ call'[s].op = "delete"
         /\ DeleteFind(s) => call'[s].pc \in {"object", "404"}
         /\ DeleteObject(s) => call'[s].pc = "row"
         /\ DeleteRow(s) => /\ call'[s].pc = "200"
                            /\ \A t \in Actors \ {s} : At(t, "folders", "count") => call'[t].stale
<1>0. s \in Actors
  BY SlotsAreActors
<1>1. CASE DeleteFind(s)
  <2>1. /\ Shape' /\ Others(s) /\ call[s] = Idle
        /\ Has(call'[s], "delete", IF present THEN "object" ELSE "404", none, none, {}, FALSE)
    BY <1>1, OpenOwned DEF DeleteFind
  <2>2. call[s].op = "none"
    BY <2>1 DEF Idle, Fresh
  <2> QED
    BY <2>1, <2>2 DEF Has, DeleteObject, DeleteRow, At
<1>2. CASE DeleteObject(s)
  <2>1. /\ Shape' /\ Others(s) /\ At(s, "delete", "object")
        /\ Has(call'[s], call[s].op, "row", call[s].arg, call[s].seen, call[s].left, call[s].stale)
    BY <1>0, <1>2, PutPc DEF DeleteObject, AfterObject, Reply
  <2>2. ~DeleteFind(s) /\ ~DeleteRow(s)
    <3>1. ~DeleteFind(s)
      <4> SUFFICES ASSUME DeleteFind(s) PROVE FALSE
        OBVIOUS
      <4>1. call[s] = Idle
        BY OpenOwned DEF DeleteFind
      <4> QED
        BY <2>1, <4>1 DEF At, Idle, Fresh
    <3> QED
      BY <2>1, <3>1 DEF DeleteRow, At
  <2> QED
    BY <2>1, <2>2 DEF Has, At
<1>3. CASE DeleteRow(s)
  <2>1. /\ Shape' /\ Others(s) /\ At(s, "delete", "row")
        /\ Has(call'[s], call[s].op, "200", call[s].arg, call[s].seen, call[s].left, call[s].stale)
        /\ \A t \in Actors \ {s} : At(t, "folders", "count") => call'[t].stale
    BY <1>0, <1>3, PutStalePc DEF DeleteRow
  <2>2. ~DeleteFind(s) /\ ~DeleteObject(s)
    <3>1. ~DeleteFind(s)
      <4> SUFFICES ASSUME DeleteFind(s) PROVE FALSE
        OBVIOUS
      <4>1. call[s] = Idle
        BY OpenOwned DEF DeleteFind
      <4> QED
        BY <2>1, <4>1 DEF At, Idle, Fresh
    <3> QED
      BY <2>1, <3>1 DEF DeleteObject, At
  <2> QED
    BY <2>1, <2>2 DEF Has, At
<1> QED
  BY <1>1, <1>2, <1>3 DEF DeleteStep

\* The end of a call.
LEMMA EndCalls ==
  ASSUME Shape, NEW s \in Actors, Close(s) \/ Cut(s)
  PROVE  Shape' /\ Others(s) /\ call'[s].op = "none"
<1>1. CASE Close(s)
  <2>1. Shape' /\ Becomes(s, Idle)
    BY <1>1, PutBecomes, IdleIsCall DEF Close
  <2> QED
    BY <2>1 DEF Becomes, Others, Idle, Fresh
<1>2. CASE Cut(s)
  <2>1. call' = [call EXCEPT ![s] = Idle]
    BY <1>2 DEF Cut, CutCall
  <2>2. call' = [t \in Actors |-> IF t = s THEN Idle ELSE call[t]]
    BY <2>1 DEF Shape
  <2>3. Shape' /\ Becomes(s, Idle)
    BY <2>2, IdleIsCall DEF Shape, Becomes, Same
  <2> QED
    BY <2>3 DEF Becomes, Others, Idle, Fresh
<1> QED
  BY <1>1, <1>2

\* The worker replaces the items.
LEMMA WorkerCalls ==
  ASSUME Shape, WipeItems \/ CreateItems
  PROVE  /\ Shape' /\ Others(Worker) /\ call'[Worker].op \in {"none", "analysis"}
         /\ \A t \in Slots : At(t, "overview", "done") => call'[t].stale
<1>1. PICK c \in {Idle, Fresh("analysis", "items", none, none)} :
        PutStale(Worker, c, "overview", "done")
  BY DEF WipeItems, CreateItems
<1>2. IsCall(c) /\ c.op \in {"none", "analysis"}
  BY DEF IsCall, Idle, Fresh
<1>3. /\ Shape' /\ Becomes(Worker, c)
      /\ \A t \in Actors \ {Worker} : At(t, "overview", "done") => call'[t].stale
  BY <1>1, <1>2, SlotsAreActors, PutStaleBecomes
<1> QED
  BY <1>2, <1>3, SlotsAreActors DEF Becomes, Others

\* Every step is of one of these families.
LEMMA Families ==
  ASSUME [Next]_vars
  PROVE  \/ \E s \in Slots : \/ FlagStep(s) \/ FolderStep(s) \/ SetTags(s) \/ TagStep(s)
                             \/ ItemStep(s) \/ CountStep(s) \/ DeleteStep(s) \/ Close(s)
         \/ WipeItems \/ CreateItems \/ (\E s \in Actors : Cut(s)) \/ UNCHANGED vars
  BY DEF Next, Step, FlagStep, FolderStep, SetTags, TagStep, ItemStep, CountStep, DeleteStep

LEMMA ShapeInit == Init => Shape
  BY IdleIsCall DEF Init, NoCalls, Shape

\* A step is made by an idle call, or by one of its own family.
LEMMA From ==
  ASSUME NEW s \in Slots
  PROVE  /\ FlagStep(s) => call[s].op \in {"none", "toggle", "patch flag", "patch folder"}
         /\ FolderStep(s) => call[s].op \in {"none", "delete folder", "folders"}
         /\ SetTags(s) => call[s].op \in {"none", "set tags"}
         /\ TagStep(s) => call[s].op \in {"none", "create tag", "delete tag"}
         /\ ItemStep(s) => call[s].op \in {"none", "item"}
         /\ CountStep(s) => call[s].op \in {"none", "overview"}
         /\ DeleteStep(s) => call[s].op \in {"none", "delete"}
         /\ Close(s) => call[s].pc \in Codes
<1>0. Idle.op = "none"
  BY DEF Idle, Fresh
<1>1. ASSUME NEW c, Open(s, c) PROVE call[s].op = "none"
  BY <1>0, <1>1 DEF Open
<1>2. FlagStep(s) => call[s].op \in {"none", "toggle", "patch flag", "patch folder"}
  BY <1>1 DEF FlagStep, ToggleFind, ToggleWrite, PatchFind, PatchFlag, PatchFolder, At
<1>3. FolderStep(s) => call[s].op \in {"none", "delete folder", "folders"}
  BY <1>1 DEF FolderStep, CreateFolder, DeleteFolderFind, DeleteFolder, ListFolders, CountFolder, At
<1>4. SetTags(s) => call[s].op \in {"none", "set tags"}
  BY <1>1 DEF SetTags, SetTagsFind, SetTagsWipe, SetTagsNext, SetTagsLink, At
<1>5. TagStep(s) => call[s].op \in {"none", "create tag", "delete tag"}
  BY <1>1 DEF TagStep, CreateTagFind, CreateTag, DeleteTagFind, DeleteTag, At
<1>6. ItemStep(s) => call[s].op \in {"none", "item"}
  BY <1>1 DEF ItemStep, ToggleItemFind, ToggleItem, At
<1>7. CountStep(s) => call[s].op \in {"none", "overview"}
  BY <1>1 DEF CountStep, Overview, CountItems, CountDone, At
<1>8. DeleteStep(s) => call[s].op \in {"none", "delete"}
  BY <1>1 DEF DeleteStep, DeleteFind, DeleteObject, DeleteRow, At
<1> QED
  BY <1>2, <1>3, <1>4, <1>5, <1>6, <1>7, <1>8 DEF Close

\* The steps that touch neither the flag, the rows, the items nor the storage.
LEMMA Frames ==
  ASSUME NEW s
  PROVE  /\ FlagStep(s) => UNCHANGED <<present, audio, halfDeleted, kept, assigned, item, tag,
                                       asked, mixed>>
         /\ FolderStep(s) => UNCHANGED <<present, flag, audio, halfDeleted, kept, assigned, item,
                                         flagHistory, tag, asked, mixed>>
         /\ SetTags(s) => UNCHANGED <<recordingVars, flagHistory, deleteHistory, item, tag>>
         /\ TagStep(s) => UNCHANGED <<recordingVars, flagHistory, deleteHistory, item, asked, mixed>>
         /\ ItemStep(s) => UNCHANGED <<recordingVars, flagHistory, deleteHistory, tagVars>>
         /\ CountStep(s) => UNCHANGED <<recordingVars, flagHistory, deleteHistory, tagVars, item>>
         /\ DeleteStep(s) => UNCHANGED <<flag, flagHistory, tag, asked, mixed, halfDeleted>>
         /\ DeleteStep(s) => present' = present \/ present' = FALSE
         /\ Close(s) => UNCHANGED <<recordingVars, flagHistory, deleteHistory, tagVars, item>>
         /\ Cut(s) => UNCHANGED <<recordingVars, flagHistory, kept, tag, assigned, asked, item>>
         /\ WipeItems \/ CreateItems =>
              UNCHANGED <<recordingVars, flagHistory, deleteHistory, tagVars>>
<1> USE DEF recordingVars, flagHistory, deleteHistory, tagVars
<1>1. FlagStep(s) => UNCHANGED <<present, audio, halfDeleted, kept, assigned, item, tag, asked, mixed>>
  BY DEF FlagStep, ToggleFind, ToggleWrite, WriteFlag, PatchFind, PatchFlag, PatchFolder
<1>2. FolderStep(s) => UNCHANGED <<present, flag, audio, halfDeleted, kept, assigned, item,
                                   flagHistory, tag, asked, mixed>>
  BY DEF FolderStep, CreateFolder, DeleteFolderFind, DeleteFolder, ListFolders, CountFolder
<1>3. SetTags(s) => UNCHANGED <<recordingVars, flagHistory, deleteHistory, item, tag>>
  BY DEF SetTags, SetTagsFind, SetTagsWipe, SetTagsNext, SetTagsLink
<1>4. TagStep(s) => UNCHANGED <<recordingVars, flagHistory, deleteHistory, item, asked, mixed>>
  BY DEF TagStep, CreateTagFind, CreateTag, DeleteTagFind, DeleteTag
<1>5. ItemStep(s) => UNCHANGED <<recordingVars, flagHistory, deleteHistory, tagVars>>
  BY DEF ItemStep, ToggleItemFind, ToggleItem
<1>6. CountStep(s) => UNCHANGED <<recordingVars, flagHistory, deleteHistory, tagVars, item>>
  BY DEF CountStep, Overview, CountItems, CountDone
<1>7. /\ DeleteStep(s) => UNCHANGED <<flag, flagHistory, tag, asked, mixed, halfDeleted>>
      /\ DeleteStep(s) => present' = present \/ present' = FALSE
  BY DEF DeleteStep, DeleteFind, DeleteObject, DeleteRow
<1>8. /\ Close(s) => UNCHANGED <<recordingVars, flagHistory, deleteHistory, tagVars, item>>
      /\ Cut(s) => UNCHANGED <<recordingVars, flagHistory, kept, tag, assigned, asked, item>>
      /\ WipeItems \/ CreateItems => UNCHANGED <<recordingVars, flagHistory, deleteHistory, tagVars>>
  BY DEF Close, Cut, WipeItems, CreateItems
<1> QED
  BY <1>1, <1>2, <1>3, <1>4, <1>5, <1>6, <1>7, <1>8

-----------------------------------------------------------------------------
(* Favourites: a tap that has read holds the value of now, until another   *)
(* write overtakes it                                                      *)

FlagInv ==
  ~raced => /\ \A s \in Slots : At(s, "toggle", "write") => call[s].seen = flag
            /\ present => flag = wanted

LEMMA FlagInit == Init => FlagInv
<1> SUFFICES ASSUME Init, NEW s \in Slots, At(s, "toggle", "write") PROVE FALSE
  BY DEF FlagInv, Init
<1>1. Idle.op = "none" /\ call[s] = Idle
  BY SlotsAreActors DEF Init, NoCalls, Idle, Fresh
<1> QED
  BY <1>1 DEF At

\* Steps that leave the flag alone and start no tap.
LEMMA FlagFrame ==
  ASSUME FlagInv, UNCHANGED <<flag, flagHistory>>, present' => present,
         NEW s \in Actors, Others(s), call'[s].op # "toggle"
  PROVE  FlagInv'
  BY SlotsAreActors DEF FlagInv, Others, Same, At, flagHistory

LEMMA FlagNext == FlagInv /\ Shape /\ [Next]_vars => FlagInv'
<1> SUFFICES ASSUME FlagInv, Shape, [Next]_vars PROVE FlagInv'
  OBVIOUS
<1>1. ASSUME NEW s \in Slots, FlagStep(s) PROVE FlagInv'
  <2>1. /\ Others(s) /\ call'[s].op \in {"toggle", "patch flag", "patch folder"} /\ present' = present
        /\ At(s, "toggle", "write")' => call'[s].seen = flag /\ ~ToggleWrite(s)
    BY <1>1, FlagCalls, Frames
  <2>2. CASE ToggleFind(s) \/ PatchFind(s) \/ PatchFolder(s)
    <3>1. UNCHANGED <<flag, flagHistory>>
      BY <2>2 DEF ToggleFind, PatchFind, PatchFolder, recordingVars
    <3> QED
      BY <2>1, <3>1, SlotsAreActors DEF FlagInv, Others, Same, At, flagHistory
  <2>3. ASSUME NEW v, NEW wish, WriteFlag(s, v, wish), present /\ ~raced => v = wish,
               ~At(s, "toggle", "write")'
        PROVE  FlagInv'
    <3>1. /\ flag' = (IF present THEN v ELSE flag) /\ wanted' = wish
          /\ raced' = (raced \/ \E t \in Slots \ {s} : At(t, "toggle", "write"))
      BY <2>3 DEF WriteFlag
    <3> SUFFICES ASSUME ~raced' PROVE FlagInv'
      BY DEF FlagInv
    <3>2. ~raced /\ \A t \in Slots \ {s} : ~At(t, "toggle", "write")
      BY <3>1
    <3>3. \A t \in Slots : ~At(t, "toggle", "write")'
      BY <2>1, <2>3, <3>2, SlotsAreActors DEF Others, Same, At
    <3> QED
      BY <2>1, <2>3, <3>1, <3>2, <3>3 DEF FlagInv
  <2>4. CASE ToggleWrite(s)
    <3>1. ASSUME present, ~raced PROVE Toggled(call[s].seen) = (~wanted)
      <4>1. call[s].seen = wanted
        BY <2>4, <3>1 DEF ToggleWrite, FlagInv
      <4> QED
        BY <4>1, Zenon DEF Toggled
    <3>2. WriteFlag(s, Toggled(call[s].seen), ~wanted) /\ ~At(s, "toggle", "write")'
      BY <2>1, <2>4 DEF ToggleWrite
    <3> QED
      BY <2>3, <3>1, <3>2
  <2>5. CASE PatchFlag(s)
    <3>1. call'[s].op = "patch flag"
      <4>1. Put(s, [call[s] EXCEPT !.pc = "200"]) /\ call[s].op = "patch flag"
        BY <2>5 DEF PatchFlag, WriteFlag, Reply, At
      <4> QED
        BY <4>1, PutPc, SlotsAreActors DEF Has
    <3> QED
      BY <2>3, <2>5, <3>1 DEF PatchFlag, At
  <2> QED
    BY <1>1, <2>2, <2>4, <2>5 DEF FlagStep
<1>2. ASSUME NEW s \in Slots,
             \/ FolderStep(s) \/ SetTags(s) \/ TagStep(s) \/ ItemStep(s) \/ CountStep(s)
             \/ DeleteStep(s) \/ Close(s)
      PROVE  FlagInv'
  <2>1. Others(s) /\ call'[s].op # "toggle"
    BY <1>2, SlotsAreActors, FolderCalls, SetTagsCalls, TagCalls, ItemCalls, CountCalls,
       DeleteCalls, EndCalls
  <2>2. UNCHANGED <<flag, flagHistory>> /\ (present' => present)
    BY <1>2, Frames DEF recordingVars
  <2> QED
    BY <2>1, <2>2, FlagFrame, SlotsAreActors
<1>3. CASE WipeItems \/ CreateItems
  <2>1. Others(Worker) /\ call'[Worker].op # "toggle"
    BY <1>3, WorkerCalls
  <2> QED
    BY <1>3, <2>1, Frames, FlagFrame, SlotsAreActors DEF recordingVars
<1>4. ASSUME NEW s \in Actors, Cut(s) PROVE FlagInv'
  <2>1. Others(s) /\ call'[s].op # "toggle"
    BY <1>4, EndCalls
  <2> QED
    BY <1>4, <2>1, Frames, FlagFrame DEF recordingVars
<1>5. CASE UNCHANGED vars
  BY <1>5 DEF FlagInv, vars, recordingVars, callVars, flagHistory, At
<1> QED
  BY <1>1, <1>2, <1>3, <1>4, <1>5, Families

LEMMA ShapeNext == Shape /\ [Next]_vars => Shape'
<1> SUFFICES ASSUME Shape, [Next]_vars PROVE Shape'
  OBVIOUS
<1>1. CASE UNCHANGED vars
  BY <1>1 DEF vars, callVars, Shape
<1> QED
  BY <1>1, Families, SlotsAreActors, FlagCalls, FolderCalls, SetTagsCalls, TagCalls, ItemCalls,
     CountCalls, DeleteCalls, EndCalls, WorkerCalls

\* Every tap counts (recordings.py toggles), whichever calls overlap, unless a
\* write fell between the read and the write of a tap.
THEOREM EveryTapCounts == Spec => []FlagIsParity
<1>1. Init => Shape /\ FlagInv
  BY ShapeInit, FlagInit
<1>2. Shape /\ FlagInv /\ [Next]_vars => (Shape /\ FlagInv)'
  BY ShapeNext, FlagNext
<1>3. FlagInv => FlagIsParity
  BY DEF FlagInv, FlagIsParity
<1> QED
  BY <1>1, <1>2, <1>3, PTL DEF Spec

-----------------------------------------------------------------------------
(* Deletion: a call that has asked storage to delete the object and has    *)
(* the row still before it; what remains then is what storage refused      *)

ItemRow == item = [id |-> item.id, live |-> item.live, done |-> item.done]
DeleteInv ==
  /\ ItemRow /\ DeletionComplete
  /\ \A s \in Slots : At(s, "delete", "row") /\ audio => kept

LEMMA DeleteInit == Init => DeleteInv
<1> SUFFICES ASSUME Init PROVE DeleteInv
  OBVIOUS
<1>1. ASSUME NEW s \in Slots PROVE ~At(s, "delete", "row")
  <2>1. Idle.op = "none" /\ call[s] = Idle
    BY SlotsAreActors DEF Init, NoCalls, Idle, Fresh
  <2> QED
    BY <2>1 DEF At
<1> QED
  BY <1>1 DEF Init, DeleteInv, ItemRow, DeletionComplete

\* No call reaches or leaves the row, and rows and storage are as they were.
LEMMA DeleteFrame ==
  ASSUME DeleteInv, NEW s \in Actors, Others(s), ~At(s, "delete", "row"), call'[s].op # "delete",
         UNCHANGED <<present, audio, halfDeleted, kept>>,
         ItemRow', ~present => assigned' = {} /\ ~item'.live
  PROVE  DeleteInv'
<1>1. \A t \in Slots : At(t, "delete", "row")' <=> At(t, "delete", "row")
  BY SlotsAreActors DEF Others, Same, At
<1> QED
  BY <1>1 DEF DeleteInv, DeletionComplete

\* What an edit of the item leaves alone.
LEMMA ItemEdit ==
  ASSUME NEW i, i = [id |-> i.id, live |-> i.live, done |-> i.done], NEW v
  PROVE  /\ [i EXCEPT !.live = v] = [id |-> i.id, live |-> v, done |-> i.done]
         /\ [i EXCEPT !.done = v] = [id |-> i.id, live |-> i.live, done |-> v]
  OBVIOUS

LEMMA DeleteNext == DeleteInv /\ Shape /\ [Next]_vars => DeleteInv'
<1> SUFFICES ASSUME DeleteInv, Shape, [Next]_vars PROVE DeleteInv'
  OBVIOUS
<1>0. ItemRow /\ (~present => assigned = {} /\ ~item.live)
  BY DEF DeleteInv, DeletionComplete
<1>1. ASSUME NEW s \in Slots, FlagStep(s) \/ FolderStep(s) \/ CountStep(s) PROVE DeleteInv'
  <2>1. Others(s) /\ ~At(s, "delete", "row") /\ call'[s].op # "delete"
    BY <1>1, FlagCalls, FolderCalls, CountCalls, From DEF At
  <2>2. UNCHANGED <<present, audio, halfDeleted, kept, assigned, item>>
    BY <1>1, Frames DEF recordingVars, deleteHistory, tagVars
  <2> QED
    BY <1>0, <2>1, <2>2, DeleteFrame, SlotsAreActors DEF ItemRow
<1>2. ASSUME NEW s \in Slots, SetTags(s) PROVE DeleteInv'
  <2>1. Others(s) /\ ~At(s, "delete", "row") /\ call'[s].op # "delete"
    BY <1>2, SetTagsCalls, From DEF At
  <2>2. UNCHANGED <<present, audio, halfDeleted, kept, item>>
    BY <1>2, Frames DEF recordingVars, deleteHistory
  <2>3. ~present => assigned' = {}
    BY <1>0, <1>2 DEF SetTags, SetTagsFind, SetTagsWipe, SetTagsNext, SetTagsLink, Cleared, tagVars
  <2> QED
    BY <1>0, <2>1, <2>2, <2>3, DeleteFrame, SlotsAreActors DEF ItemRow
<1>3. ASSUME NEW s \in Slots, TagStep(s) PROVE DeleteInv'
  <2>1. Others(s) /\ ~At(s, "delete", "row") /\ call'[s].op # "delete"
    BY <1>3, TagCalls, From DEF At
  <2>2. UNCHANGED <<present, audio, halfDeleted, kept, item>>
    BY <1>3, Frames DEF recordingVars, deleteHistory
  <2>3. ~present => assigned' = {}
    BY <1>0, <1>3 DEF TagStep, CreateTagFind, CreateTag, DeleteTagFind, DeleteTag, tagVars
  <2> QED
    BY <1>0, <2>1, <2>2, <2>3, DeleteFrame, SlotsAreActors DEF ItemRow
<1>4. ASSUME NEW s \in Slots, ItemStep(s) PROVE DeleteInv'
  <2>1. Others(s) /\ ~At(s, "delete", "row") /\ call'[s].op # "delete"
    BY <1>4, ItemCalls, From DEF At
  <2>2. UNCHANGED <<present, audio, halfDeleted, kept, assigned>>
    BY <1>4, Frames DEF recordingVars, deleteHistory, tagVars
  <2>3. item' = item \/ \E v : item' = [item EXCEPT !.done = v]
    BY <1>4 DEF ItemStep, ToggleItemFind, ToggleItem
  <2>4. ItemRow' /\ item'.live = item.live
    <3>1. CASE item' = item
      BY <1>0, <3>1 DEF ItemRow
    <3>2. ASSUME NEW v, item' = [item EXCEPT !.done = v]
          PROVE  ItemRow' /\ item'.live = item.live
      <4>1. item' = [id |-> item.id, live |-> item.live, done |-> v]
        BY <1>0, <3>2, ItemEdit DEF ItemRow
      <4> QED
        BY <4>1 DEF ItemRow
    <3> QED
      BY <2>3, <3>1, <3>2
  <2> QED
    BY <1>0, <2>1, <2>2, <2>4, DeleteFrame, SlotsAreActors
<1>5. ASSUME NEW s \in Slots, DeleteStep(s) PROVE DeleteInv'
  <2>1. /\ Others(s) /\ call'[s].op = "delete"
        /\ DeleteFind(s) => call'[s].pc \in {"object", "404"}
        /\ DeleteObject(s) => call'[s].pc = "row"
        /\ DeleteRow(s) => call'[s].pc = "200"
    BY <1>5, DeleteCalls
  <2>2. \A t \in Slots \ {s} : At(t, "delete", "row")' <=> At(t, "delete", "row")
    BY <2>1, SlotsAreActors DEF Others, Same, At
  <2>3. CASE DeleteFind(s)
    <3>1. Idle.op = "none" /\ call[s] = Idle
      BY <2>3, OpenOwned DEF DeleteFind, Idle, Fresh
    <3>2. ~At(s, "delete", "row") /\ ~At(s, "delete", "row")'
      BY <2>1, <2>3, <3>1 DEF At
    <3>3. UNCHANGED <<present, audio, halfDeleted, kept, item, assigned>>
      BY <2>3 DEF DeleteFind, recordingVars, deleteHistory, tagVars
    <3> QED
      BY <1>0, <2>2, <3>2, <3>3 DEF DeleteInv, DeletionComplete, ItemRow
  <2>4. CASE DeleteObject(s)
    <3>1. At(s, "delete", "row")'
      BY <2>1, <2>4 DEF At
    <3>2. UNCHANGED <<present, halfDeleted, item, assigned>>
      BY <2>4 DEF DeleteObject, tagVars
    <3>3. PICK deleted \in BOOLEAN : /\ audio' = (audio /\ ~deleted)
                                     /\ kept' = (kept \/ ~deleted)
      BY <2>4 DEF DeleteObject
    <3>4. (audio' => audio /\ kept') /\ (kept => kept')
      BY <3>3
    <3> QED
      BY <1>0, <2>2, <3>1, <3>2, <3>4 DEF DeleteInv, DeletionComplete, ItemRow
  <2>5. CASE DeleteRow(s)
    <3>1. At(s, "delete", "row") /\ ~At(s, "delete", "row")'
      BY <2>1, <2>5 DEF DeleteRow, At
    <3>2. /\ ~present' /\ assigned' = {} /\ UNCHANGED <<audio, halfDeleted, kept>>
          /\ item' = [item EXCEPT !.live = FALSE]
      BY <2>5 DEF DeleteRow, deleteHistory
    <3>3. item' = [id |-> item.id, live |-> FALSE, done |-> item.done]
      BY <1>0, <3>2, ItemEdit DEF ItemRow
    <3>4. ItemRow' /\ ~item'.live
      BY <3>3 DEF ItemRow
    <3> QED
      BY <2>2, <3>1, <3>2, <3>4 DEF DeleteInv, DeletionComplete
  <2> QED
    BY <1>5, <2>3, <2>4, <2>5 DEF DeleteStep
<1>6. ASSUME NEW s \in Slots, Close(s) PROVE DeleteInv'
  <2>1. Others(s) /\ ~At(s, "delete", "row") /\ call'[s].op # "delete"
    BY <1>6, EndCalls, From, SlotsAreActors DEF At, Codes
  <2>2. UNCHANGED <<present, audio, halfDeleted, kept, assigned, item>>
    BY <1>6, Frames DEF recordingVars, deleteHistory, tagVars
  <2> QED
    BY <1>0, <2>1, <2>2, DeleteFrame, SlotsAreActors DEF ItemRow
<1>7. CASE WipeItems \/ CreateItems
  <2>1. Others(Worker) /\ call'[Worker].op # "delete"
    BY <1>7, WorkerCalls
  <2>2. \A t \in Slots : At(t, "delete", "row")' <=> At(t, "delete", "row")
    BY <2>1, SlotsAreActors DEF Others, Same, At
  <2>3. UNCHANGED <<present, audio, halfDeleted, kept, assigned>>
    BY <1>7, Frames DEF recordingVars, deleteHistory, tagVars
  <2>4. ItemRow' /\ (~present => ~item'.live)
    <3>1. CASE WipeItems
      <4>1. present /\ item' = [id |-> item.id, live |-> FALSE, done |-> item.done]
        BY <1>0, <3>1, ItemEdit DEF ItemRow, WipeItems
      <4> QED
        BY <4>1 DEF ItemRow
    <3>2. CASE CreateItems
      <4>1. item' = item \/ (present /\ item' = [id |-> item.id + 1, live |-> TRUE, done |-> FALSE])
        BY <3>2 DEF CreateItems
      <4> QED
        BY <1>0, <4>1 DEF ItemRow
    <3> QED
      BY <1>7, <3>1, <3>2
  <2> QED
    BY <1>0, <2>2, <2>3, <2>4 DEF DeleteInv, DeletionComplete
<1>8. ASSUME NEW s \in Actors, Cut(s) PROVE DeleteInv'
  <2>1. Others(s) /\ call'[s].op # "delete"
    BY <1>8, EndCalls
  <2>2. /\ UNCHANGED <<present, audio, kept, assigned, item>>
        /\ halfDeleted' = (halfDeleted \/ At(s, "delete", "row"))
    BY <1>8, Frames DEF Cut, recordingVars
  <2>3. /\ \A t \in Slots : At(t, "delete", "row")' => At(t, "delete", "row")
        /\ \A t \in Slots : At(t, "delete", "row") => At(t, "delete", "row")' \/ t = s
    BY <2>1, SlotsAreActors DEF Others, Same, At
  <2> QED
    BY <1>0, <2>2, <2>3 DEF DeleteInv, DeletionComplete, ItemRow
<1>9. CASE UNCHANGED vars
  BY <1>9 DEF DeleteInv, DeletionComplete, ItemRow, vars, recordingVars, tagVars, callVars,
     deleteHistory, At
<1> QED
  BY <1>1, <1>2, <1>3, <1>4, <1>5, <1>6, <1>7, <1>8, <1>9, Families

\* A deletion (recordings.py, delete_recording) leaves no tag and no item of a
\* recording that is gone, whichever calls were about to write them, and audio
\* only when storage refused; and it takes the audio of no recording that stays,
\* unless it was cut or is under way.
THEOREM DeletionIsComplete == Spec => []DeletionComplete
<1>1. Init => Shape /\ DeleteInv
  BY ShapeInit, DeleteInit
<1>2. Shape /\ DeleteInv /\ [Next]_vars => (Shape /\ DeleteInv)'
  BY ShapeNext, DeleteNext
<1>3. DeleteInv => DeletionComplete
  BY DEF DeleteInv
<1> QED
  BY <1>1, <1>2, <1>3, PTL DEF Spec

-----------------------------------------------------------------------------
(* Counts: what a screen has counted so far fits what is still to be       *)
(* counted, unless a move, a deletion or an analysis made it out of date   *)

FolderCount(s) ==
  call[s].op = "folders" /\ ~call[s].stale =>
    /\ call[s].pc \in {"count", "200"} /\ call[s].seen \in 0..1
    /\ call[s].pc = "count" /\ present /\ folder \in call[s].left => call[s].seen = 0
ItemCount(s) ==
  call[s].op = "overview" =>
    /\ call[s].pc \in {"total", "done", "200"} /\ call[s].seen \in [total : 0..1, done : 0..1]
    /\ call[s].pc = "done" /\ ~call[s].stale /\ item.live => call[s].seen.total = 1
    /\ call[s].pc = "200" /\ ~call[s].stale => call[s].seen.done <= call[s].seen.total
CountInv == \A s \in Slots : FolderCount(s) /\ ItemCount(s)

LEMMA CountInit == Init => CountInv
<1> SUFFICES ASSUME Init, NEW s \in Slots PROVE FolderCount(s) /\ ItemCount(s)
  BY DEF CountInv
<1>1. Idle.op = "none" /\ call[s] = Idle
  BY SlotsAreActors DEF Init, NoCalls, Idle, Fresh
<1> QED
  BY <1>1 DEF FolderCount, ItemCount

\* What a step means for the calls it is not made by: what they count is as it
\* was, or they are out of date.
Counted(s) ==
  /\ \/ UNCHANGED <<present, folder>>
     \/ \A t \in Actors \ {s} : At(t, "folders", "count") => call'[t].stale
  /\ \/ item'.live => item.live
     \/ \A t \in Actors \ {s} : At(t, "overview", "done") => call'[t].stale

LEMMA CountOthers ==
  ASSUME CountInv, NEW s \in Actors, Others(s), Counted(s), NEW t \in Slots, t # s
  PROVE  FolderCount(t)' /\ ItemCount(t)'
<1>1. Same(t) /\ (call[t].stale => call'[t].stale) /\ FolderCount(t) /\ ItemCount(t)
  BY SlotsAreActors DEF Others, CountInv
<1>2. /\ \/ UNCHANGED <<present, folder>>
         \/ At(t, "folders", "count") => call'[t].stale
      /\ \/ item'.live => item.live
         \/ At(t, "overview", "done") => call'[t].stale
  BY SlotsAreActors DEF Counted
<1>3. FolderCount(t)'
  BY <1>1, <1>2 DEF FolderCount, Same, At
<1>4. ItemCount(t)'
  BY <1>1, <1>2 DEF ItemCount, Same, At
<1> QED
  BY <1>3, <1>4

LEMMA CountFrame ==
  ASSUME CountInv, NEW s \in Actors, Others(s), Counted(s),
         call'[s].op \notin {"folders", "overview"}
  PROVE  CountInv'
<1> SUFFICES ASSUME NEW t \in Slots PROVE FolderCount(t)' /\ ItemCount(t)'
  BY DEF CountInv
<1>1. CASE t = s
  BY <1>1 DEF FolderCount, ItemCount
<1> QED
  BY <1>1, CountOthers

\* Counting one folder more.
LEMMA CountOneFolder ==
  ASSUME NEW s \in Slots, CountInv, CountFolder(s), Shape
  PROVE  FolderCount(s)'
<1>1. CountFolder(s) => call[s].op # "none"
  BY DEF CountFolder, At
<1>2. ~ListFolders(s)
  <2> SUFFICES ASSUME ListFolders(s) PROVE FALSE
    OBVIOUS
  <2>1. call[s] = Idle
    BY DEF ListFolders, Open
  <2> QED
    BY <1>1, <2>1 DEF Idle, Fresh
<1>3. /\ call'[s].op = "folders" => call'[s].stale = call[s].stale
      /\ \/ call'[s].op # "folders"
         \/ \E f \in call[s].left :
              /\ call'[s].pc = "count" /\ call'[s].seen = call[s].seen + Count(f)
              /\ call'[s].left = call[s].left \ {f}
         \/ call'[s].pc = "200" /\ call'[s].seen = call[s].seen
  BY <1>2, FolderCalls DEF FolderStep
<1>4. call[s].op = "folders" /\ call[s].pc = "count" /\ UNCHANGED <<present, folder>>
  BY DEF CountFolder, At, recordingVars
<1>5. FolderCount(s)
  BY DEF CountInv
<1>6. CASE call'[s].op # "folders"
  BY <1>6 DEF FolderCount
<1>7. CASE \E f \in call[s].left :
             /\ call'[s].pc = "count" /\ call'[s].seen = call[s].seen + Count(f)
             /\ call'[s].left = call[s].left \ {f}
  <2>1. PICK f \in call[s].left :
             /\ call'[s].pc = "count" /\ call'[s].seen = call[s].seen + Count(f)
             /\ call'[s].left = call[s].left \ {f}
    BY <1>7
  <2> SUFFICES ASSUME call'[s].op = "folders", ~call'[s].stale PROVE FolderCount(s)'
    BY DEF FolderCount
  <2>2. /\ call[s].seen \in 0..1
        /\ present /\ folder \in call[s].left => call[s].seen = 0
    BY <1>3, <1>4, <1>5 DEF FolderCount
  <2>3. CASE present /\ folder = f
    <3>1. call'[s].seen = 1 /\ folder' \notin call'[s].left
      BY <1>4, <2>1, <2>2, <2>3 DEF Count
    <3> QED
      BY <2>1, <3>1 DEF FolderCount
  <2>4. CASE ~(present /\ folder = f)
    <3>1. /\ call'[s].seen = call[s].seen
          /\ (present /\ folder \in call'[s].left => folder \in call[s].left)
      BY <2>1, <2>2, <2>4 DEF Count
    <3> QED
      BY <1>4, <2>1, <2>2, <3>1 DEF FolderCount
  <2> QED
    BY <2>3, <2>4
<1>8. CASE call'[s].pc = "200" /\ call'[s].seen = call[s].seen
  BY <1>3, <1>4, <1>5, <1>8 DEF FolderCount
<1> QED
  BY <1>3, <1>6, <1>7, <1>8

\* Counting the items, then those that are done.
LEMMA CountOneItem ==
  ASSUME NEW s \in Slots, CountInv, CountStep(s), Shape
  PROVE  ItemCount(s)'
<1>0. ItemCount(s) /\ call'[s].op = "overview" /\ item' = item
  BY CountCalls, Frames DEF CountInv
<1>1. CASE /\ call'[s].seen = [total |-> 0, done |-> 0]
           /\ call'[s].pc \in {"total", "200"}
  <2>1. /\ call'[s].seen \in [total : 0..1, done : 0..1]
        /\ call'[s].seen.total = 0 /\ call'[s].seen.done = 0
    BY <1>1
  <2> QED
    BY <1>1, <2>1 DEF ItemCount
<1>2. CASE /\ At(s, "overview", "total") /\ call'[s].stale = call[s].stale /\ call'[s].pc = "done"
           /\ call'[s].seen = [call[s].seen EXCEPT !.total = IF item.live THEN 1 ELSE 0]
  <2>1. call[s].seen \in [total : 0..1, done : 0..1]
    BY <1>0, <1>2 DEF ItemCount, At
  <2>2. PICK n \in 0..1 : n = (IF item.live THEN 1 ELSE 0)
    OBVIOUS
  <2>3. call'[s].seen = [call[s].seen EXCEPT !.total = n]
    BY <1>2, <2>2, Zenon
  <2>4. call'[s].seen \in [total : 0..1, done : 0..1] /\ call'[s].seen.total = n
    BY <2>1, <2>3
  <2> QED
    BY <1>0, <1>2, <2>2, <2>4 DEF ItemCount
<1>3. CASE /\ At(s, "overview", "done") /\ call'[s].stale = call[s].stale /\ call'[s].pc = "200"
           /\ call'[s].seen = [call[s].seen EXCEPT !.done = IF item.live /\ item.done THEN 1 ELSE 0]
  <2>1. /\ call[s].seen \in [total : 0..1, done : 0..1]
        /\ ~call[s].stale /\ item.live => call[s].seen.total = 1
    BY <1>0, <1>3 DEF ItemCount, At
  <2>2. PICK n \in 0..1 : n = (IF item.live /\ item.done THEN 1 ELSE 0)
    OBVIOUS
  <2>3. call'[s].seen = [call[s].seen EXCEPT !.done = n]
    BY <1>3, <2>2, Zenon
  <2>4. /\ call'[s].seen \in [total : 0..1, done : 0..1] /\ call'[s].seen.done = n
        /\ call'[s].seen.total = call[s].seen.total
    BY <2>1, <2>3
  <2>5. ~call[s].stale => n <= call[s].seen.total
    BY <2>1, <2>2
  <2> QED
    BY <1>0, <1>3, <2>4, <2>5 DEF ItemCount
<1> QED
  BY <1>1, <1>2, <1>3, CountCalls

LEMMA CountNext == CountInv /\ DeleteInv /\ Shape /\ [Next]_vars => CountInv'
<1> SUFFICES ASSUME CountInv, DeleteInv, Shape, [Next]_vars PROVE CountInv'
  OBVIOUS
<1>1. ASSUME NEW s \in Slots, FlagStep(s) PROVE CountInv'
  <2>1. Others(s) /\ call'[s].op \notin {"folders", "overview"} /\ present' = present /\ item' = item
    BY <1>1, FlagCalls, Frames
  <2>2. folder' = folder \/ \A t \in Actors \ {s} : At(t, "folders", "count") => call'[t].stale
    <3>1. CASE PatchFolder(s)
      BY <3>1, PutStalePc, SlotsAreActors DEF PatchFolder
    <3> QED
      BY <1>1, <3>1 DEF FlagStep, ToggleFind, ToggleWrite, WriteFlag, PatchFind, PatchFlag,
         recordingVars
  <2> QED
    BY <2>1, <2>2, CountFrame, SlotsAreActors DEF Counted
<1>2. ASSUME NEW s \in Slots, FolderStep(s) PROVE CountInv'
  <2>1. Others(s) /\ present' = present /\ item' = item /\ call'[s].op # "overview"
    BY <1>2, FolderCalls, Frames
  <2>2. folder' = folder \/ \A t \in Actors \ {s} : At(t, "folders", "count") => call'[t].stale
    <3>1. CASE DeleteFolder(s)
      BY <3>1, PutStalePc, SlotsAreActors DEF DeleteFolder
    <3> QED
      BY <1>2, <3>1 DEF FolderStep, CreateFolder, DeleteFolderFind, ListFolders, CountFolder,
         recordingVars
  <2>3. Counted(s)
    BY <2>1, <2>2 DEF Counted
  <2>4. FolderCount(s)'
    <3>1. CASE call'[s].seen = 0 /\ call'[s].pc = "count"
      BY <3>1 DEF FolderCount
    <3>2. CASE CountFolder(s)
      BY <3>2, CountOneFolder
    <3>3. CASE call'[s].op # "folders"
      BY <3>3 DEF FolderCount
    <3> QED
      BY <1>2, <3>1, <3>2, <3>3, FolderCalls
  <2>5. ItemCount(s)'
    BY <2>1 DEF ItemCount
  <2>6. \A t \in Slots \ {s} : FolderCount(t)' /\ ItemCount(t)'
    BY <2>1, <2>3, CountOthers, SlotsAreActors
  <2> QED
    BY <2>4, <2>5, <2>6 DEF CountInv
<1>3. ASSUME NEW s \in Slots, CountStep(s) PROVE CountInv'
  <2>1. Others(s) /\ UNCHANGED <<present, folder, item>> /\ call'[s].op = "overview"
    BY <1>3, CountCalls, Frames DEF recordingVars
  <2>2. ItemCount(s)' /\ FolderCount(s)'
    BY <1>3, <2>1, CountOneItem DEF FolderCount
  <2>3. \A t \in Slots \ {s} : FolderCount(t)' /\ ItemCount(t)'
    BY <2>1, CountOthers, SlotsAreActors DEF Counted
  <2> QED
    BY <2>2, <2>3 DEF CountInv
<1>4. ASSUME NEW s \in Slots, SetTags(s) \/ TagStep(s) \/ Close(s) PROVE CountInv'
  <2>1. Others(s) /\ call'[s].op \notin {"folders", "overview"}
    BY <1>4, SetTagsCalls, TagCalls, EndCalls, SlotsAreActors
  <2>2. UNCHANGED <<present, folder, item>>
    BY <1>4, Frames DEF recordingVars
  <2> QED
    BY <2>1, <2>2, CountFrame, SlotsAreActors DEF Counted
<1>5. ASSUME NEW s \in Slots, ItemStep(s) PROVE CountInv'
  <2>1. Others(s) /\ call'[s].op \notin {"folders", "overview"} /\ UNCHANGED <<present, folder>>
    BY <1>5, ItemCalls, Frames DEF recordingVars
  <2>2. item' = item \/ \E v : item' = [item EXCEPT !.done = v]
    BY <1>5 DEF ItemStep, ToggleItemFind, ToggleItem
  <2>3. item'.live = item.live
    BY <2>2, ItemEdit DEF DeleteInv, ItemRow
  <2> QED
    BY <2>1, <2>3, CountFrame, SlotsAreActors DEF Counted
<1>6. ASSUME NEW s \in Slots, DeleteStep(s) PROVE CountInv'
  <2>1. /\ Others(s) /\ call'[s].op = "delete"
        /\ DeleteRow(s) => \A t \in Actors \ {s} : At(t, "folders", "count") => call'[t].stale
    BY <1>6, DeleteCalls
  <2>2. CASE DeleteRow(s)
    <3>1. item' = [item EXCEPT !.live = FALSE]
      BY <2>2 DEF DeleteRow
    <3>2. item' = [id |-> item.id, live |-> FALSE, done |-> item.done]
      BY <3>1, ItemEdit DEF DeleteInv, ItemRow
    <3>3. ~item'.live
      BY <3>2
    <3> QED
      BY <2>1, <2>2, <3>3, CountFrame, SlotsAreActors DEF Counted
  <2>3. CASE DeleteFind(s) \/ DeleteObject(s)
    <3>1. UNCHANGED <<present, folder, item>>
      BY <2>3 DEF DeleteFind, DeleteObject, recordingVars
    <3> QED
      BY <2>1, <3>1, CountFrame, SlotsAreActors DEF Counted
  <2> QED
    BY <1>6, <2>2, <2>3 DEF DeleteStep
<1>7. CASE WipeItems \/ CreateItems
  <2>1. /\ Others(Worker) /\ call'[Worker].op \in {"none", "analysis"}
        /\ \A t \in Slots : At(t, "overview", "done") => call'[t].stale
    BY <1>7, WorkerCalls
  <2>2. UNCHANGED <<present, folder>>
    BY <1>7, Frames DEF recordingVars
  <2>3. \A t \in Actors \ {Worker} : At(t, "overview", "done") => call'[t].stale
    BY <2>1 DEF Actors
  <2> QED
    BY <2>1, <2>2, <2>3, CountFrame, SlotsAreActors DEF Counted
<1>8. ASSUME NEW s \in Actors, Cut(s) PROVE CountInv'
  <2>1. Others(s) /\ call'[s].op = "none" /\ UNCHANGED <<present, folder, item>>
    BY <1>8, EndCalls, Frames DEF recordingVars
  <2> QED
    BY <2>1, CountFrame DEF Counted
<1>9. CASE UNCHANGED vars
  BY <1>9 DEF CountInv, FolderCount, ItemCount, vars, recordingVars, callVars
<1> QED
  BY <1>1, <1>2, <1>3, <1>4, <1>5, <1>6, <1>7, <1>8, <1>9, Families

\* The numbers of the folder list (folders.py) and of the overview (analytics.py)
\* fit each other though each has a query of its own, unless what they count was
\* moved or replaced between two of them.
THEOREM NumbersFit == Spec => []CountsAddUp
<1>1. Init => Shape /\ DeleteInv /\ CountInv
  BY ShapeInit, DeleteInit, CountInit
<1>2. Shape /\ DeleteInv /\ CountInv /\ [Next]_vars => (Shape /\ DeleteInv /\ CountInv)'
  BY ShapeNext, DeleteNext, CountNext
<1>3. CountInv => CountsAddUp
  BY DEF CountInv, CountsAddUp, FolderCount, ItemCount
<1> QED
  BY <1>1, <1>2, <1>3, PTL DEF Spec

-----------------------------------------------------------------------------
(* Tags: what a call has linked and what it still has to link are the tags *)
(* it was asked for, of those that exist                                   *)

Elems(q) == {q[i] : i \in DOMAIN q}
Known(t) == t \in TagIds /\ tag[t] # "unused"

TagCall(s) ==
  /\ At(s, "create tag", "write") => call[s].arg \in Names
  /\ At(s, "delete tag", "write") => Known(call[s].arg)
  /\ call[s].op = "set tags" =>
       call[s].arg \in Seq(TagIds) /\ \A t \in Elems(call[s].arg) : Known(t)
  /\ Linking(s) => call[s].seen \in Seq(TagIds) /\ \A t \in Elems(call[s].seen) : Known(t)
  /\ At(s, "set tags", "link") => call[s].seen # <<>>
TagTypes ==
  /\ tag = [t \in TagIds |-> tag[t]] /\ \A t \in asked : Known(t)
  /\ \A s \in Slots : TagCall(s)

Linked(s) ==
  {t \in Elems(call[s].arg) : Live(t)} = assigned \cup {t \in Elems(call[s].seen) : Live(t)}
LinkInv ==
  /\ ~mixed => \A s, t \in Slots : Linking(s) /\ Linking(t) => s = t
  /\ present /\ ~mixed => \A s \in Slots : Linking(s) => Linked(s)
  /\ TagsAsAsked

LEMMA HeadAndTail ==
  ASSUME NEW q \in Seq(TagIds), q # <<>>
  PROVE  Tail(q) \in Seq(TagIds) /\ Elems(q) = {Head(q)} \cup Elems(Tail(q))
<1>1. Len(q) \in Nat /\ Len(q) # 0 /\ DOMAIN q = 1..Len(q)
  OBVIOUS
<1>2. /\ Tail(q) \in Seq(TagIds) /\ DOMAIN Tail(q) = 1..(Len(q) - 1)
      /\ \A i \in 1..(Len(q) - 1) : Tail(q)[i] = q[i + 1]
  BY <1>1
<1>3. ASSUME NEW x \in Elems(q) PROVE x \in {Head(q)} \cup Elems(Tail(q))
  <2>1. PICK i \in 1..Len(q) : x = q[i]
    BY <1>1 DEF Elems
  <2>2. CASE i = 1
    BY <1>1, <2>1, <2>2
  <2>3. CASE i # 1
    <3>1. i - 1 \in 1..(Len(q) - 1) /\ x = Tail(q)[i - 1]
      BY <1>1, <1>2, <2>1, <2>3
    <3> QED
      BY <1>2, <3>1 DEF Elems
  <2> QED
    BY <2>2, <2>3
<1>4. ASSUME NEW x \in {Head(q)} \cup Elems(Tail(q)) PROVE x \in Elems(q)
  <2>1. CASE x = Head(q)
    <3>1. 1 \in DOMAIN q /\ x = q[1]
      BY <1>1, <2>1
    <3> QED
      BY <3>1 DEF Elems
  <2>2. CASE x \in Elems(Tail(q))
    <3>1. PICK i \in 1..(Len(q) - 1) : x = Tail(q)[i]
      BY <1>2, <2>2 DEF Elems
    <3>2. i + 1 \in DOMAIN q /\ x = q[i + 1]
      BY <1>1, <1>2, <3>1
    <3> QED
      BY <3>2 DEF Elems
  <2> QED
    BY <1>4, <2>1, <2>2
<1> QED
  BY <1>2, <1>3, <1>4

LEMMA TagInit == Init => TagTypes /\ LinkInv
<1> SUFFICES ASSUME Init PROVE TagTypes /\ LinkInv
  OBVIOUS
<1>1. ASSUME NEW s \in Slots PROVE call[s].op = "none"
  <2>1. Idle.op = "none" /\ call[s] = Idle
    BY SlotsAreActors DEF Init, NoCalls, Idle, Fresh
  <2> QED
    BY <2>1
<1>2. \A s \in Slots : ~Linking(s) /\ TagCall(s)
  BY <1>1 DEF Linking, TagCall, At
<1>3. asked = {} /\ assigned = {} /\ tag = [t \in TagIds |-> tag[t]]
  BY DEF Init
<1> QED
  BY <1>2, <1>3 DEF TagTypes, LinkInv, TagsAsAsked

\* A tag that was known stays known, if gone.
LEMMA TypesFrame ==
  ASSUME TagTypes, NEW s \in Actors, Others(s), \A t : Known(t) => Known(t)',
         tag' = [t \in TagIds |-> tag'[t]], \A t \in asked' : Known(t)', TagCall(s)'
  PROVE  TagTypes'
<1> SUFFICES ASSUME NEW t \in Slots, t # s PROVE TagCall(t)'
  BY DEF TagTypes
<1>1. Same(t) /\ TagCall(t)
  BY SlotsAreActors DEF Others, TagTypes
<1>2. At(t, "create tag", "write")' => call'[t].arg \in Names
  BY <1>1 DEF Same, TagCall, At
<1>3. At(t, "delete tag", "write")' => Known(call[t].arg)'
  BY <1>1 DEF Same, TagCall, At
<1>4. Elems(call[t].arg)' = Elems(call[t].arg) /\ Elems(call[t].seen)' = Elems(call[t].seen)
  BY <1>1 DEF Same, Elems
<1>5. call'[t].op = "set tags" =>
        call'[t].arg \in Seq(TagIds) /\ \A u \in Elems(call[t].arg)' : Known(u)'
  BY <1>1, <1>4 DEF Same, TagCall
<1>6. Linking(t)' => call'[t].seen \in Seq(TagIds) /\ \A u \in Elems(call[t].seen)' : Known(u)'
  BY <1>1, <1>4 DEF Same, TagCall, Linking
<1>7. At(t, "set tags", "link")' => call'[t].seen # <<>>
  BY <1>1 DEF Same, TagCall, At
<1> QED
  BY <1>2, <1>3, <1>5, <1>6, <1>7 DEF TagCall

\* Tags that go leave the recording and what calls have still to link alike.
LEMMA LinkFrame ==
  ASSUME TagTypes, LinkInv, NEW s \in Actors, Others(s), Linking(s) => mixed', ~Linking(s)',
         mixed => mixed', present' => present,
         UNCHANGED asked, NEW D,
         present' => assigned' = assigned \ D,
         \A t : Known(t) => (Live(t)' <=> Live(t) /\ t \notin D)
  PROVE  LinkInv'
<1> SUFFICES ASSUME ~mixed' PROVE LinkInv'
  BY DEF LinkInv, TagsAsAsked
<1>0. ~mixed /\ ~Linking(s)
  OBVIOUS
<1>1. ASSUME NEW t \in Slots PROVE Linking(t)' <=> Linking(t)
  BY <1>0, SlotsAreActors DEF Others, Same, Linking
<1>2. \A t, u \in Slots : Linking(t)' /\ Linking(u)' => t = u
  BY <1>0, <1>1 DEF LinkInv
<1>3. ASSUME present', NEW t \in Slots, Linking(t)' PROVE Linked(t)'
  <2>1. Linking(t) /\ Linked(t) /\ Same(t) /\ t # s
    BY <1>0, <1>1, <1>3, SlotsAreActors DEF LinkInv, Others
  <2>2. Elems(call[t].arg)' = Elems(call[t].arg) /\ Elems(call[t].seen)' = Elems(call[t].seen)
    BY <2>1 DEF Same, Elems
  <2>3. (\A u \in Elems(call[t].arg) : Known(u)) /\ (\A u \in Elems(call[t].seen) : Known(u))
    BY <2>1 DEF TagTypes, TagCall, Linking
  <2>4. {u \in Elems(call[t].arg) : Live(u)}' = {u \in Elems(call[t].arg) : Live(u)} \ D
    BY <2>2, <2>3
  <2>5. {u \in Elems(call[t].seen) : Live(u)}' = {u \in Elems(call[t].seen) : Live(u)} \ D
    BY <2>2, <2>3
  <2> QED
    BY <1>3, <2>1, <2>4, <2>5 DEF Linked
<1>4. TagsAsAsked'
  <2> SUFFICES ASSUME present', \A t \in Slots : ~Linking(t)'
               PROVE  assigned' = {t \in asked : Live(t)'}
    BY DEF TagsAsAsked
  <2>1. assigned = {t \in asked : Live(t)}
    BY <1>0, <1>1 DEF LinkInv, TagsAsAsked
  <2>2. \A t \in asked : Known(t)
    BY DEF TagTypes
  <2> QED
    BY <2>1, <2>2
<1> QED
  BY <1>2, <1>3, <1>4 DEF LinkInv

LEMMA TagFrame ==
  ASSUME TagTypes, LinkInv, NEW s \in Actors, Others(s), Linking(s) => mixed',
         call'[s].op \notin {"create tag", "delete tag", "set tags"},
         mixed => mixed', present' => present, UNCHANGED <<tag, asked>>,
         present' => assigned' = assigned
  PROVE  TagTypes' /\ LinkInv'
<1>1. ~Linking(s)' /\ TagCall(s)'
  BY DEF Linking, TagCall, At
<1>2. \A t : (Known(t)' <=> Known(t)) /\ (Live(t)' <=> Live(t))
  BY DEF Known, Live
<1>3. TagTypes'
  BY <1>1, <1>2, TypesFrame DEF TagTypes
<1>4. LinkInv'
  <2>1. /\ present' => assigned' = assigned \ {}
        /\ \A t : Known(t) => (Live(t)' <=> Live(t) /\ t \notin {})
    BY <1>2
  <2> QED
    BY <1>1, <2>1, LinkFrame
<1> QED
  BY <1>3, <1>4

\* A tag is created under a name no tag has, or deleted.
LEMMA TagsComeAndGo ==
  ASSUME TagTypes, LinkInv, Shape, NEW s \in Slots, TagStep(s)
  PROVE  TagTypes' /\ LinkInv'
<1>1. /\ Others(s) /\ call'[s].op \in {"create tag", "delete tag"}
      /\ At(s, "create tag", "write")' => call'[s].arg \in Names
      /\ At(s, "delete tag", "write")' => call'[s].arg \in TagIds /\ tag[call'[s].arg] # "unused"
  BY TagCalls
<1>2. ~Linking(s) /\ ~Linking(s)' /\ s \in Actors
  BY <1>1, From, SlotsAreActors DEF Linking
<1>3. UNCHANGED <<present, asked, mixed>>
  BY Frames DEF recordingVars
<1>4. tag = [t \in TagIds |-> tag[t]] /\ \A t \in asked : Known(t)
  BY DEF TagTypes
<1>5. ASSUME \A t : Known(t) => Known(t)', tag' = [t \in TagIds |-> tag'[t]]
      PROVE  TagTypes'
  <2>1. TagCall(s)'
    BY <1>1, <1>2, <1>5 DEF TagCall, Known, At
  <2> QED
    BY <1>1, <1>2, <1>3, <1>4, <1>5, <2>1, TypesFrame
<1>6. ASSUME UNCHANGED <<tag, assigned>> PROVE TagTypes' /\ LinkInv'
  <2>1. \A t : (Known(t) <=> Known(t)') /\ (Live(t)' <=> Live(t) /\ t \notin {})
    BY <1>6 DEF Known, Live
  <2>2. assigned' = assigned \ {} /\ tag' = [t \in TagIds |-> tag'[t]]
    BY <1>4, <1>6
  <2> QED
    BY <1>1, <1>2, <1>3, <1>5, <2>1, <2>2, LinkFrame
<1>7. CASE CreateTagFind(s) \/ DeleteTagFind(s)
  BY <1>6, <1>7 DEF CreateTagFind, DeleteTagFind, tagVars
<1>8. CASE CreateTag(s)
  <2>1. CASE tag' = tag
    BY <1>6, <1>8, <2>1 DEF CreateTag
  <2>2. CASE tag' # tag
    <3>1. PICK u \in TagIds : tag[u] = "unused" /\ tag' = [tag EXCEPT ![u] = call[s].arg]
      BY <1>8, <2>2 DEF CreateTag
    <3>2. call[s].arg \in Names /\ call[s].arg # "unused" /\ assigned' = assigned
      BY <1>8, LibraryAssumption DEF CreateTag, TagTypes, TagCall
    <3>3. tag' = [t \in TagIds |-> IF t = u THEN call[s].arg ELSE tag[t]]
      BY <1>4, <3>1
    <3>4. tag' = [t \in TagIds |-> tag'[t]] /\ \A t : Known(t) => t # u /\ tag'[t] = tag[t]
      BY <3>1, <3>3 DEF Known
    <3>5. \A t : Known(t) => Known(t)' /\ (Live(t)' <=> Live(t) /\ t \notin {})
      BY <3>4 DEF Known, Live
    <3>6. assigned' = assigned \ {}
      BY <3>2
    <3> QED
      BY <1>1, <1>2, <1>3, <1>5, <3>4, <3>5, <3>6, LinkFrame
  <2> QED
    BY <2>1, <2>2
<1>9. CASE DeleteTag(s)
  <2> DEFINE u == call[s].arg
  <2>1. /\ tag' = [tag EXCEPT ![u] = "gone"] /\ assigned' = assigned \ {u}
        /\ u \in TagIds
    BY <1>9 DEF DeleteTag, TagTypes, TagCall, Known
  <2> HIDE DEF u
  <2>2. tag' = [t \in TagIds |-> IF t = u THEN "gone" ELSE tag[t]]
    BY <1>4, <2>1
  <2>3. /\ tag' = [t \in TagIds |-> tag'[t]]
        /\ \A t \in TagIds : IF t = u THEN tag'[t] = "gone" ELSE tag'[t] = tag[t]
    BY <2>2
  <2>4. "gone" # "unused" /\ "gone" \notin Names
    BY LibraryAssumption
  <2>5. \A t : Known(t) => Known(t)' /\ (Live(t)' <=> Live(t) /\ t \notin {u})
    BY <2>3, <2>4 DEF Known, Live
  <2> QED
    BY <1>1, <1>2, <1>3, <1>5, <2>1, <2>3, <2>5, LinkFrame
<1> QED
  BY <1>7, <1>8, <1>9 DEF TagStep

\* PUT /tags: the old rows go, then each tag is looked up and linked.
LEMMA TagsAreSet ==
  ASSUME TagTypes, LinkInv, Shape, NEW s \in Slots, SetTags(s)
  PROVE  TagTypes' /\ LinkInv'
<1>1. /\ Others(s) /\ call'[s].op = "set tags" /\ s \in Actors
      /\ UNCHANGED <<present, tag>>
  BY SetTagsCalls, Frames, SlotsAreActors DEF recordingVars
<1>2. tag' = [t \in TagIds |-> tag'[t]]
  BY <1>1 DEF TagTypes
<1>3. /\ \A t : Known(t) => Known(t)'
      /\ \A t : Live(t)' <=> Live(t) /\ t \notin {}
      /\ \A t \in asked : Known(t)'
  BY <1>1 DEF TagTypes, Known, Live
<1>4. TagCall(s)
  BY DEF TagTypes
<1>5. CASE SetTagsFind(s)
  <2>1. /\ call'[s].arg \in TagLists /\ call'[s].pc \in {"wipe", "404"}
        /\ \A i \in DOMAIN call'[s].arg : tag[call'[s].arg[i]] # "unused"
    BY <1>5, SetTagsCalls
  <2>2. ~Linking(s) /\ ~Linking(s)' /\ UNCHANGED <<assigned, asked, mixed>>
    <3>1. Idle.op = "none" /\ call[s] = Idle
      BY <1>5, OpenOwned DEF SetTagsFind, Idle, Fresh
    <3> QED
      BY <1>5, <2>1, <3>1 DEF Linking, SetTagsFind, tagVars
  <2>3. call'[s].arg \in Seq(TagIds)
    BY <2>1, LibraryAssumption
  <2>4. \A i \in DOMAIN call'[s].arg : call'[s].arg[i] \in TagIds
    BY <2>3
  <2>5. \A t \in Elems(call[s].arg)' : Known(t)'
    BY <1>1, <2>1, <2>4 DEF Elems, Known
  <2>6. TagCall(s)'
    BY <1>1, <2>1, <2>2, <2>3, <2>5 DEF TagCall, At
  <2>7. TagTypes'
    BY <1>1, <1>2, <1>3, <2>2, <2>6, TypesFrame
  <2>8. assigned' = assigned \ {}
    BY <2>2
  <2> QED
    BY <1>1, <1>3, <2>2, <2>7, <2>8, LinkFrame
<1>6. ASSUME ~SetTagsFind(s)
      PROVE  /\ call[s].op = "set tags" /\ call'[s].arg = call[s].arg
             /\ call[s].arg \in Seq(TagIds) /\ \A t \in Elems(call[s].arg) : Known(t)
  <2>1. call[s].op = "set tags" /\ call'[s].arg = call[s].arg
    BY <1>6, SetTagsCalls
  <2> QED
    BY <1>4, <2>1 DEF TagCall
<1>7. ASSUME ~SetTagsFind(s), \A t \in asked' : t \in asked \/ t \in Elems(call[s].arg),
             Linking(s)' => /\ call'[s].seen \in Seq(TagIds)
                            /\ \A t \in Elems(call[s].seen)' : Known(t),
             At(s, "set tags", "link")' => call'[s].seen # <<>>
      PROVE  TagTypes'
  <2>1. Elems(call[s].arg)' = Elems(call[s].arg)
    BY <1>6, <1>7 DEF Elems
  <2>2. TagCall(s)'
    BY <1>1, <1>3, <1>6, <1>7, <2>1 DEF TagCall, At
  <2>3. \A t \in asked' : Known(t)'
    BY <1>3, <1>6, <1>7
  <2> QED
    BY <1>1, <1>2, <1>3, <2>2, <2>3, TypesFrame
\* The only call that links: what the others have does not matter.
<1>8. ASSUME \A t \in Slots \ {s} : ~mixed' => ~Linking(t),
             present' /\ ~mixed' /\ Linking(s)' => Linked(s)',
             present' /\ ~mixed' /\ ~Linking(s)' => assigned' = {t \in asked' : Live(t)}
      PROVE  LinkInv'
  <2> SUFFICES ASSUME ~mixed' PROVE LinkInv'
    BY DEF LinkInv, TagsAsAsked
  <2>1. \A t \in Slots \ {s} : ~Linking(t)'
    BY <1>1, <1>8, SlotsAreActors DEF Others, Same, Linking
  <2>2. {t \in asked : Live(t)}' = {t \in asked' : Live(t)}
    BY <1>3
  <2> QED
    BY <1>8, <2>1, <2>2 DEF LinkInv, TagsAsAsked
<1>9. CASE SetTagsWipe(s)
  <2>1. /\ assigned' = {} /\ asked' = asked /\ mixed' = (\E t \in Slots \ {s} : Linking(t))
        /\ call'[s].pc = "next" /\ call'[s].seen = call[s].arg /\ call[s].pc = "wipe"
    BY <1>9, SetTagsCalls DEF SetTagsWipe, Cleared, At
  <2>2. ~SetTagsFind(s)
    <3>1. SetTagsFind(s) => Idle.op = "none" /\ call[s] = Idle
      BY OpenOwned DEF SetTagsFind, Idle, Fresh
    <3> QED
      BY <1>9, <3>1 DEF SetTagsWipe, At
  <2>3. Elems(call[s].seen)' = Elems(call[s].arg) /\ Elems(call[s].arg)' = Elems(call[s].arg)
    BY <1>6, <2>1, <2>2 DEF Elems
  <2>4. TagTypes'
    BY <1>6, <1>7, <2>1, <2>2, <2>3 DEF At
  <2>5. Linked(s)'
    BY <2>1, <2>3 DEF Linked
  <2> QED
    BY <1>1, <1>8, <2>1, <2>4, <2>5 DEF Linking
<1>10. ASSUME SetTagsNext(s) \/ SetTagsLink(s)
       PROVE  /\ ~SetTagsFind(s) /\ Linking(s) /\ call[s].seen \in Seq(TagIds)
              /\ \A t \in Elems(call[s].seen) : Known(t)
              /\ SetTagsLink(s) => call[s].seen # <<>>
              /\ ~mixed => \A t \in Slots \ {s} : ~Linking(t)
              /\ present /\ ~mixed => Linked(s)
  <2>1. Linking(s) /\ (SetTagsLink(s) => At(s, "set tags", "link"))
    BY <1>10 DEF SetTagsNext, SetTagsLink, Linking, At
  <2>2. ~SetTagsFind(s)
    <3>1. SetTagsFind(s) => Idle.op = "none" /\ call[s] = Idle
      BY OpenOwned DEF SetTagsFind, Idle, Fresh
    <3> QED
      BY <2>1, <3>1 DEF Linking
  <2> QED
    BY <1>4, <2>1, <2>2 DEF TagCall, LinkInv
<1>11. ASSUME ~SetTagsFind(s), call'[s].seen = call[s].seen \/ call'[s].seen = Tail(call[s].seen),
              call[s].seen \in Seq(TagIds), call[s].seen # <<>>,
              \A t \in Elems(call[s].seen) : Known(t), asked' = asked,
              At(s, "set tags", "link")' => call'[s].seen # <<>>
       PROVE  TagTypes'
  <2>1. Elems(call[s].seen)' = Elems(call'[s].seen)
    BY DEF Elems
  <2>2. /\ call'[s].seen \in Seq(TagIds)
        /\ \A t \in Elems(call'[s].seen) : Known(t)
    BY <1>11, HeadAndTail
  <2> QED
    BY <1>7, <1>11, <2>1, <2>2
<1>12. CASE SetTagsNext(s)
  <2> DEFINE rest == call[s].seen
  <2>1. /\ UNCHANGED <<assigned, mixed>>
        /\ \/ rest # <<>> /\ call'[s].pc = "link" /\ call'[s].seen = rest /\ asked' = asked
           \/ /\ rest # <<>> /\ ~Live(Head(rest)) /\ call'[s].pc = "next"
              /\ call'[s].seen = Tail(rest) /\ asked' = asked
           \/ /\ rest = <<>> /\ call'[s].pc = "200"
              /\ asked' = {call[s].arg[i] : i \in DOMAIN call[s].arg}
    BY <1>12, SetTagsCalls DEF SetTagsNext
  <2>2. Elems(call[s].arg)' = Elems(call[s].arg) /\ Elems(call[s].seen)' = Elems(call'[s].seen)
    BY <1>6, <1>10, <1>12 DEF Elems
  <2>3. CASE rest # <<>> /\ call'[s].pc = "link" /\ call'[s].seen = rest /\ asked' = asked
    <3>1. TagTypes'
      BY <1>10, <1>11, <1>12, <2>3 DEF At
    <3>2. present /\ ~mixed => Linked(s)'
      BY <1>3, <1>10, <1>12, <2>1, <2>2, <2>3 DEF Linked
    <3> QED
      BY <1>1, <1>8, <1>10, <1>12, <2>1, <2>3, <3>1, <3>2 DEF Linking
  <2>4. CASE /\ rest # <<>> /\ ~Live(Head(rest)) /\ call'[s].pc = "next"
             /\ call'[s].seen = Tail(rest) /\ asked' = asked
    <3>1. TagTypes'
      BY <1>10, <1>11, <1>12, <2>4 DEF At
    <3>2. Elems(rest) = {Head(rest)} \cup Elems(Tail(rest))
      BY <1>10, <1>12, <2>4, HeadAndTail
    <3>3. present /\ ~mixed => Linked(s)'
      BY <1>3, <1>10, <1>12, <2>1, <2>2, <2>4, <3>2 DEF Linked
    <3> QED
      BY <1>1, <1>8, <1>10, <1>12, <2>1, <2>4, <3>1, <3>3 DEF Linking
  <2>5. CASE /\ rest = <<>> /\ call'[s].pc = "200"
             /\ asked' = {call[s].arg[i] : i \in DOMAIN call[s].arg}
    <3>1. asked' = Elems(call[s].arg) /\ ~Linking(s)' /\ ~At(s, "set tags", "link")'
      BY <2>5 DEF Elems, Linking, At
    <3>2. TagTypes'
      BY <1>7, <1>10, <1>12, <3>1
    <3>3. Elems(rest) = {}
      BY <2>5 DEF Elems
    <3>4. present /\ ~mixed => assigned = {t \in Elems(call[s].arg) : Live(t)}
      BY <1>10, <1>12, <3>3 DEF Linked
    <3> QED
      BY <1>1, <1>8, <1>10, <1>12, <2>1, <3>1, <3>2, <3>4
  <2> QED
    BY <2>1, <2>3, <2>4, <2>5
<1>13. CASE SetTagsLink(s)
  <2> DEFINE h == Head(call[s].seen)
  <2>1. /\ \/ /\ assigned' = assigned \cup {h} /\ Live(h) /\ mixed' = mixed
              /\ call'[s].pc = "next" /\ call'[s].seen = Tail(call[s].seen)
           \/ assigned' = assigned /\ mixed' /\ call'[s].pc = "500"
        /\ asked' = asked
    <3>1. /\ \/ call'[s].pc = "next" /\ call'[s].seen = Tail(call[s].seen)
             \/ call'[s].pc = "500" /\ mixed'
      BY <1>13, SetTagsCalls
    <3>2. CASE present /\ Live(h) /\ h \notin assigned
      <4>1. /\ Put(s, [call[s] EXCEPT !.pc = "next", !.seen = Tail(call[s].seen)])
            /\ assigned' = assigned \cup {h} /\ mixed' = mixed /\ asked' = asked
        BY <1>13, <3>2 DEF SetTagsLink
      <4>2. call'[s].pc = "next"
        BY <1>1, <4>1, PutPcSeen DEF Has
      <4> QED
        BY <3>1, <3>2, <4>1, <4>2
    <3>3. CASE ~(present /\ Live(h) /\ h \notin assigned)
      <4>1. /\ Put(s, [call[s] EXCEPT !.pc = "500"])
            /\ assigned' = assigned /\ mixed' = TRUE /\ asked' = asked
        BY <1>13, <3>3 DEF SetTagsLink, Reply
      <4>2. call'[s].pc = "500"
        BY <1>1, <4>1, PutPc DEF Has
      <4> QED
        BY <4>1, <4>2
    <3> QED
      BY <3>2, <3>3
  <2>2. Elems(call[s].arg)' = Elems(call[s].arg) /\ Elems(call[s].seen)' = Elems(call'[s].seen)
    BY <1>6, <1>10, <1>13 DEF Elems
  <2>3. CASE /\ assigned' = assigned \cup {h} /\ Live(h) /\ mixed' = mixed
             /\ call'[s].pc = "next" /\ call'[s].seen = Tail(call[s].seen)
    <3>1. TagTypes'
      BY <1>10, <1>11, <1>13, <2>1, <2>3 DEF At
    <3>2. Elems(call[s].seen) = {h} \cup Elems(Tail(call[s].seen))
      BY <1>10, <1>13, HeadAndTail
    <3>3. present /\ ~mixed => Linked(s)'
      BY <1>3, <1>10, <1>13, <2>2, <2>3, <3>2 DEF Linked
    <3> QED
      BY <1>1, <1>8, <1>10, <1>13, <2>3, <3>1, <3>3 DEF Linking
  <2>4. CASE assigned' = assigned /\ mixed' /\ call'[s].pc = "500"
    <3>1. ~Linking(s)' /\ ~At(s, "set tags", "link")'
      BY <2>4 DEF Linking, At
    <3>2. TagTypes'
      BY <1>7, <1>10, <1>13, <2>1, <3>1
    <3> QED
      BY <1>8, <2>4, <3>2
  <2> QED
    BY <2>1, <2>3, <2>4
<1> QED
  BY <1>5, <1>9, <1>12, <1>13 DEF SetTags

LEMMA TagNext == TagTypes /\ LinkInv /\ Shape /\ [Next]_vars => TagTypes' /\ LinkInv'
<1> SUFFICES ASSUME TagTypes, LinkInv, Shape, [Next]_vars PROVE TagTypes' /\ LinkInv'
  OBVIOUS
<1>1. ASSUME NEW s \in Slots, FlagStep(s) \/ FolderStep(s) \/ ItemStep(s) \/ CountStep(s) \/ Close(s)
      PROVE  TagTypes' /\ LinkInv'
  <2>1. Others(s) /\ call'[s].op \notin {"create tag", "delete tag", "set tags"} /\ s \in Actors
    BY <1>1, SlotsAreActors, FlagCalls, FolderCalls, ItemCalls, CountCalls, EndCalls
  <2>2. ~Linking(s)
    BY <1>1, From DEF Linking, Codes
  <2>3. UNCHANGED <<present, tag, assigned, asked, mixed>>
    BY <1>1, Frames DEF recordingVars, tagVars
  <2> QED
    BY <2>1, <2>2, <2>3, TagFrame
<1>2. ASSUME NEW s \in Slots, DeleteStep(s) PROVE TagTypes' /\ LinkInv'
  <2>1. Others(s) /\ call'[s].op = "delete" /\ s \in Actors /\ ~Linking(s)
    BY <1>2, SlotsAreActors, DeleteCalls, From DEF Linking
  <2>2. UNCHANGED <<tag, asked, mixed>> /\ (present' => present)
    BY <1>2, Frames
  <2>3. present' => assigned' = assigned
    BY <1>2 DEF DeleteStep, DeleteFind, DeleteObject, DeleteRow, tagVars
  <2> QED
    BY <2>1, <2>2, <2>3, TagFrame
<1>3. CASE WipeItems \/ CreateItems
  <2>1. /\ Others(Worker) /\ call'[Worker].op \in {"none", "analysis"} /\ Worker \in Actors
        /\ ~Linking(Worker)
    <3>1. call[Worker] = Idle \/ call[Worker].op = "analysis"
      BY <1>3 DEF WipeItems, CreateItems, At
    <3>2. Idle.op = "none"
      BY DEF Idle, Fresh
    <3> QED
      BY <1>3, <3>1, <3>2, SlotsAreActors, WorkerCalls DEF Linking
  <2>2. UNCHANGED <<present, tag, assigned, asked, mixed>>
    BY <1>3, Frames DEF recordingVars, tagVars
  <2> QED
    BY <2>1, <2>2, TagFrame
<1>4. ASSUME NEW s \in Actors, Cut(s) PROVE TagTypes' /\ LinkInv'
  <2>1. Others(s) /\ call'[s].op = "none"
    BY <1>4, EndCalls
  <2>2. UNCHANGED <<present, tag, assigned, asked>> /\ mixed' = (mixed \/ Linking(s))
    BY <1>4, Frames DEF Cut, recordingVars
  <2> QED
    BY <2>1, <2>2, TagFrame
<1>5. CASE UNCHANGED vars
  <2>1. UNCHANGED <<present, tag, assigned, asked, mixed, call>>
    BY <1>5 DEF vars, recordingVars, tagVars, callVars
  <2>2. \A t : (Known(t)' <=> Known(t)) /\ (Live(t)' <=> Live(t))
    BY <2>1 DEF Known, Live
  <2>3. \A s : /\ Elems(call[s].arg)' = Elems(call[s].arg)
               /\ Elems(call[s].seen)' = Elems(call[s].seen)
               /\ Linking(s)' <=> Linking(s)
    BY <2>1 DEF Elems, Linking
  <2>4. \A s : TagCall(s)' <=> TagCall(s)
    BY <2>1, <2>2, <2>3 DEF TagCall, At
  <2>5. \A s : Linked(s)' <=> Linked(s)
    BY <2>1, <2>2, <2>3 DEF Linked
  <2>6. TagTypes'
    BY <2>1, <2>2, <2>4 DEF TagTypes
  <2>7. LinkInv'
    BY <2>1, <2>2, <2>3, <2>5 DEF LinkInv, TagsAsAsked
  <2> QED
    BY <2>6, <2>7
<1> QED
  BY <1>1, <1>2, <1>3, <1>4, <1>5, TagsComeAndGo, TagsAreSet, Families

\* PUT /tags (tags.py, set_recording_tags): the recording has the tags last asked
\* for and still there, whichever tags come and go meanwhile, unless two such
\* calls overlapped or one was cut, which the next one alone repairs.
THEOREM TagsAreThoseAsked == Spec => []TagsAsAsked
<1>1. Init => Shape /\ TagTypes /\ LinkInv
  BY ShapeInit, TagInit
<1>2. Shape /\ TagTypes /\ LinkInv /\ [Next]_vars => (Shape /\ TagTypes /\ LinkInv)'
  BY ShapeNext, TagNext
<1>3. LinkInv => TagsAsAsked
  BY DEF LinkInv
<1> QED
  BY <1>1, <1>2, <1>3, PTL DEF Spec
=============================================================================
