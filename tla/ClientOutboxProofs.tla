------------------------- MODULE ClientOutboxProofs -------------------------
(***************************************************************************)
(* No failure, outage or overlap of flushes loses a recording, and flushes *)
(* that do not overlap duplicate one only for a lost answer: for any       *)
(* number of recordings, flushes, outages, failures and kills.             *)
(***************************************************************************)
EXTENDS ClientOutbox, TLAPS

\* The states a step may leave an uploader in are tasks.
LEMMA IdleTask == Idle \in TaskRecord /\ [Idle EXCEPT !.pc = "done"] \in TaskRecord
  BY DEF Idle, TaskRecord, PcSet

LEMMA PcEdits ==
  ASSUME NEW t \in TaskRecord, NEW pc \in PcSet
  PROVE  /\ [t EXCEPT !.pc = pc] \in TaskRecord
         /\ [t EXCEPT !.pc = pc].pc = pc /\ [t EXCEPT !.pc = pc].item = t.item
         /\ [t EXCEPT !.pc = pc].req = t.req
  BY DEF TaskRecord

LEMMA RequestEdits ==
  ASSUME NEW t \in TaskRecord, NEW req \in {"none", "sent", "served"}
  PROVE  /\ [t EXCEPT !.req = req] \in TaskRecord
         /\ [t EXCEPT !.req = req].pc = t.pc /\ [t EXCEPT !.req = req].item = t.item
         /\ [t EXCEPT !.req = req].req = req
  BY DEF TaskRecord

LEMMA TaskEdits ==
  ASSUME NEW t \in TaskRecord, NEW pc \in PcSet, NEW req \in {"none", "sent", "served"}
  PROVE  /\ [t EXCEPT !.pc = pc, !.req = req] \in TaskRecord
         /\ [t EXCEPT !.pc = pc, !.req = req].pc = pc
         /\ [t EXCEPT !.pc = pc, !.req = req].item = t.item
         /\ [t EXCEPT !.pc = pc, !.req = req].req = req
  BY DEF TaskRecord

\* The counters of abandoned requests stay natural numbers.
LEMMA AbandonTypes ==
  ASSUME TypeOK, NEW S, Abandon(S)
  PROVE  late' \in [Items -> Nat] /\ lost' \in [Items -> Nat]
  BY DEF TypeOK, Abandon

LEMMA ClientTypeStep == ASSUME TypeOK, [Next]_vars PROVE TypeOK'
  <1> USE DEF TypeOK
  <1>a. Items \subseteq Uploaders /\ Flushes \subseteq Uploaders
    BY DEF Uploaders
  <1>p. UploadPc \subseteq PcSet /\ {"none", "add", "next", "remove", "done"} \subseteq PcSet
    BY DEF PcSet
  <1>b. \A a \in Uploaders, t \in TaskRecord : Become(a, t) => task' \in [Uploaders -> TaskRecord]
    BY DEF Become
  <1>g. \A a \in Uploaders, pc \in PcSet : Goto(a, pc) => task' \in [Uploaders -> TaskRecord]
    <2> TAKE a \in Uploaders, pc \in PcSet
    <2>1. [task[a] EXCEPT !.pc = pc] \in TaskRecord
      BY PcEdits
    <2> QED
      BY <2>1, <1>b DEF Goto
  <1>s. \A a \in Uploaders, pc \in PcSet : Settled(a, pc) => task' \in [Uploaders -> TaskRecord]
    <2> TAKE a \in Uploaders, pc \in PcSet
    <2>1. [task[a] EXCEPT !.pc = pc, !.req = "none"] \in TaskRecord
      BY TaskEdits
    <2> QED
      BY <2>1, <1>b DEF Settled
  <1>1. CASE UNCHANGED vars
    BY <1>1 DEF vars, envVars, historyVars
  <1>2. ASSUME NEW i \in Items, Record(i) \/ AddToOutbox(i) \/ ServeLate(i) \/ Evict(i)
        PROVE  TypeOK'
    <2> USE DEF envVars, historyVars
    <2>1. CASE Record(i)
      <3>1. [Idle EXCEPT !.pc = "presign", !.item = i] \in TaskRecord
        BY DEF Idle, TaskRecord, PcSet, UploadPc
      <3> QED
        BY <1>a, <1>b, <2>1, <3>1 DEF Record
    <2>2. CASE AddToOutbox(i)
      BY <1>a, <1>g, <1>p, <2>2 DEF AddToOutbox, Queue
    <2>3. CASE ServeLate(i)
      BY <2>3 DEF ServeLate
    <2>4. CASE Evict(i)
      BY <2>4 DEF Evict
    <2> QED
      BY <1>2, <2>1, <2>2, <2>3, <2>4
  <1>3. ASSUME NEW a \in Uploaders, Upload(a) \/ Serve(a) PROVE TypeOK'
    <2> USE DEF envVars, historyVars
    <2>1. CASE Presign(a) \/ Put(a)
      BY <1>g, <1>p, <2>1 DEF Presign, Put, UploadPc
    <2>2. CASE Send(a)
      <3>1. [task[a] EXCEPT !.pc = "answer", !.req = "sent"] \in TaskRecord
        BY <1>p, TaskEdits DEF UploadPc
      <3> QED
        BY <1>b, <2>2, <3>1 DEF Send
    <2>3. CASE Answer(a)
      BY <1>s, <1>p, <2>3 DEF Answer, Succeed
    <2>4. CASE FailAttempt(a)
      <3>1. task' \in [Uploaders -> TaskRecord]
        BY <1>s, <1>p, <2>4 DEF FailAttempt, Fail
      <3>2. failures' \in 0..MaxFailures
        BY <2>4, ClientAssumption DEF FailAttempt
      <3>3. late' \in [Items -> Nat] /\ lost' \in [Items -> Nat]
        BY <2>4, AbandonTypes DEF FailAttempt
      <3> QED
        BY <2>4, <3>1, <3>2, <3>3 DEF FailAttempt
    <2>5. CASE Serve(a)
      <3>1. [task[a] EXCEPT !.req = "served"] \in TaskRecord
        BY RequestEdits
      <3>2. rows' \in [Items -> Nat]
        <4>1. CASE ItemOf(a) \in Items
          BY <2>5, <4>1 DEF Serve
        <4>2. CASE ItemOf(a) \notin Items
          <5>1. rows' = rows
            BY <2>5, <4>2 DEF Serve
          <5> QED
            BY <5>1
        <4> QED
          BY <4>1, <4>2
      <3> QED
        BY <1>b, <2>5, <3>1, <3>2 DEF Serve
    <2> QED
      BY <1>3, <2>1, <2>2, <2>3, <2>4, <2>5 DEF Upload
  <1>4. ASSUME NEW f \in Flushes, StartFlush(f) \/ FlushStep(f) PROVE TypeOK'
    <2> USE DEF envVars, historyVars
    <2>1. CASE StartFlush(f)
      <3>1. [Idle EXCEPT !.pc = "next", !.todo = outbox] \in TaskRecord
        BY DEF Idle, TaskRecord, PcSet
      <3>2. overlap' \in BOOLEAN
        BY <2>1, Zenon DEF StartFlush
      <3> QED
        BY <1>a, <1>b, <2>1, <3>1, <3>2 DEF StartFlush
    <2>2. CASE NextItem(f)
      <3>1. PICK i \in task[f].todo :
              Become(f, [pc |-> IF Missing(i) THEN "remove" ELSE "presign",
                         item |-> i, todo |-> task[f].todo \ {i}, req |-> "none"])
        BY <2>2 DEF NextItem
      <3>2. task[f] \in TaskRecord
        BY <1>a
      <3>3. [pc |-> IF Missing(i) THEN "remove" ELSE "presign",
             item |-> i, todo |-> task[f].todo \ {i}, req |-> "none"] \in TaskRecord
        BY <3>1, <3>2 DEF TaskRecord, PcSet, UploadPc
      <3> QED
        BY <1>a, <1>b, <2>2, <3>1, <3>3 DEF NextItem
    <2>3. CASE RemoveFromOutbox(f)
      BY <1>a, <1>g, <1>p, <2>3 DEF RemoveFromOutbox
    <2>4. CASE EndFlush(f)
      BY <1>a, <1>b, <2>4, IdleTask DEF EndFlush
    <2> QED
      BY <1>4, <2>1, <2>2, <2>3, <2>4 DEF FlushStep
  <1>5. CASE Connection
    <2>1. outages' \in 0..MaxOutages
      BY <1>5, ClientAssumption DEF Connection
    <2> QED
      BY <1>5, <2>1 DEF Connection, historyVars
  <1>6. CASE Kill
    <2>1. task' \in [Uploaders -> TaskRecord]
      <3>1. \A a \in Uploaders : (IF a \in Items /\ ~At(a, "none") THEN [Idle EXCEPT !.pc = "done"]
                                 ELSE Idle) \in TaskRecord
        BY IdleTask
      <3>2. task' = [a \in Uploaders |->
                       IF a \in Items /\ ~At(a, "none") THEN [Idle EXCEPT !.pc = "done"] ELSE Idle]
        BY <1>6 DEF Kill
      <3> QED
        BY <3>1, <3>2
    <2>2. late' \in [Items -> Nat] /\ lost' \in [Items -> Nat]
      BY <1>6, AbandonTypes DEF Kill
    <2>3. kills' \in 0..MaxKills
      BY <1>6, ClientAssumption DEF Kill
    <2>4. outbox' \subseteq Items /\ torn' \in BOOLEAN
      BY <1>6 DEF Kill
    <2>5. cut' \subseteq Items
      BY <1>6 DEF Kill, Cut
    <2> QED
      BY <1>6, <2>1, <2>2, <2>3, <2>4, <2>5 DEF Kill
  <1> QED
    BY <1>1, <1>2, <1>3, <1>4, <1>5, <1>6 DEF Next

\* What the step of one uploader may do to the tasks.
LEMMA Moved ==
  ASSUME TypeOK, NEW a \in Uploaders, NEW t, Become(a, t)
  PROVE  task'[a] = t /\ \A b \in Uploaders \ {a} : task'[b] = task[b]
  BY DEF TypeOK, Become

\* The parts of the invariant that speak of one recording, and of one
\* uploader.
ItemInv(i) ==
  /\ file[i] = "saved" /\ rows[i] = 0 =>
       i \in outbox \/ task[i].pc \in UploadPc \cup {"add"} \/ i \in cut \/ torn
  /\ (file[i] = "none") = At(i, "none")
  /\ ~At(i, "none") /\ ~At(i, "done") => ItemOf(i) = i
  /\ task[i].pc \notin {"next", "remove"}
  /\ At(i, "done") => task[i].req = "none"
  /\ i \in outbox => file[i] # "none"

UploaderInv(a) ==
  /\ task[a].pc \in UploadPc \cup {"remove"} => ItemOf(a) \in Items
  /\ task[a].req # "none" => At(a, "answer")
  /\ task[a].req = "served" => rows[ItemOf(a)] > 0
  /\ At(a, "remove") => rows[ItemOf(a)] > 0 \/ file[ItemOf(a)] = "gone"

LEMMA Parts ==
  ASSUME outbox \subseteq Items
  PROVE  OutboxInv <=> (\A i \in Items : ItemInv(i)) /\ (\A a \in Uploaders : UploaderInv(a))
  <1>1. ASSUME OutboxInv PROVE (\A i \in Items : ItemInv(i)) /\ (\A a \in Uploaders : UploaderInv(a))
    BY <1>1 DEF OutboxInv, NothingLost, ItemInv, UploaderInv
  <1>2. ASSUME \A i \in Items : ItemInv(i), \A a \in Uploaders : UploaderInv(a)
        PROVE  OutboxInv
    BY <1>2 DEF OutboxInv, NothingLost, ItemInv, UploaderInv
  <1> QED
    BY <1>1, <1>2

\* A step of one uploader that takes nothing out of the outbox without a row,
\* or for a file that is there, leaves the rest of the invariant alone.
LEMMA Frame ==
  ASSUME \A i \in Items : ItemInv(i), \A b \in Uploaders : UploaderInv(b),
         Items \subseteq Uploaders, NEW a \in Uploaders,
         \A b \in Uploaders \ {a} : task'[b] = task[b],
         \A i \in Items : rows[i] > 0 => rows'[i] > 0,
         \A i \in Items : rows'[i] = 0 => rows[i] = 0,
         \A i \in Items \ {a} : file'[i] = file[i],
         \A i \in Items : file[i] = "gone" => file'[i] = "gone",
         outbox' \subseteq outbox \cup {a},
         \A i \in outbox \ outbox' : rows'[i] > 0 \/ file'[i] = "gone",
         cut' = cut, torn' = torn
  PROVE  /\ \A i \in Items \ {a} : ItemInv(i)'
         /\ \A b \in Uploaders \ {a} : UploaderInv(b)'
  <1>1. ASSUME NEW i \in Items \ {a} PROVE ItemInv(i)'
    <2>1. task'[i] = task[i] /\ file'[i] = file[i]
      OBVIOUS
    <2>2. i \in outbox' => i \in outbox
      OBVIOUS
    <2>3. file'[i] = "saved" /\ rows'[i] = 0 =>
            i \in outbox' \/ task'[i].pc \in UploadPc \cup {"add"} \/ i \in cut' \/ torn'
      BY <2>1 DEF ItemInv
    <2> QED
      BY <2>1, <2>2, <2>3 DEF ItemInv, At, ItemOf
  <1>2. ASSUME NEW b \in Uploaders \ {a} PROVE UploaderInv(b)'
    BY DEF UploaderInv, At, ItemOf, UploadPc
  <1> QED
    BY <1>1, <1>2

LEMMA OutboxStep == ASSUME TypeOK, OutboxInv, [Next]_vars PROVE OutboxInv'
  <1>t. TypeOK'
    BY ClientTypeStep
  <1> SUFFICES (\A i \in Items : ItemInv(i)') /\ (\A a \in Uploaders : UploaderInv(a)')
    <2>1. outbox' \subseteq Items
      BY <1>t DEF TypeOK
    <2> QED
      BY <2>1 DEF OutboxInv, NothingLost, ItemInv, UploaderInv
  <1>0. /\ \A i \in Items : ItemInv(i)
        /\ \A a \in Uploaders : UploaderInv(a)
        /\ Items \subseteq Uploaders /\ Flushes \subseteq Uploaders
    BY Parts DEF Uploaders, TypeOK
  <1>n. \A i \in Items : rows[i] \in Nat /\ rows'[i] \in Nat
    BY <1>t DEF TypeOK
  <1>1. CASE UNCHANGED vars
    BY <1>0, <1>1 DEF vars, envVars, historyVars, ItemInv, UploaderInv, At, ItemOf
  \* Reduce a step of one uploader to what it does to that uploader.
  <1>f. ASSUME NEW a \in Uploaders, NEW t, Become(a, t), cut' = cut, torn' = torn,
               \A i \in Items : rows[i] > 0 => rows'[i] > 0,
               \A i \in Items : rows'[i] = 0 => rows[i] = 0,
               \A i \in Items \ {a} : file'[i] = file[i],
               \A i \in Items : file[i] = "gone" => file'[i] = "gone",
               outbox' \subseteq outbox \cup {a},
               \A i \in outbox \ outbox' : rows'[i] > 0 \/ file'[i] = "gone",
               task'[a] = t => (a \in Items => ItemInv(a)') /\ UploaderInv(a)'
        PROVE  (\A i \in Items : ItemInv(i)') /\ (\A b \in Uploaders : UploaderInv(b)')
    <2>1. task'[a] = t /\ \A b \in Uploaders \ {a} : task'[b] = task[b]
      BY <1>f, Moved
    <2>2. /\ \A i \in Items \ {a} : ItemInv(i)'
          /\ \A b \in Uploaders \ {a} : UploaderInv(b)'
      BY <1>0, <1>f, <2>1, Frame
    <2> QED
      BY <1>f, <2>1, <2>2
  <1>r. \A a \in Uploaders : task[a] \in TaskRecord
    BY DEF TypeOK
  <1>2. ASSUME NEW i \in Items, Record(i)
        PROVE  (\A j \in Items : ItemInv(j)') /\ (\A b \in Uploaders : UploaderInv(b)')
    <2> DEFINE t == [Idle EXCEPT !.pc = "presign", !.item = i]
    <2>1. /\ Become(i, t) /\ rows' = rows /\ outbox' = outbox /\ cut' = cut /\ torn' = torn
          /\ file[i] = "none" /\ file' = [file EXCEPT ![i] = "saved"]
      BY <1>2 DEF Record, historyVars
    <2>2. t.pc = "presign" /\ t.item = i /\ t.req = "none"
      BY DEF Idle
    <2>3. file'[i] = "saved" /\ \A j \in Items \ {i} : file'[j] = file[j]
      BY <2>1 DEF TypeOK
    <2>4. task'[i] = t => ItemInv(i)' /\ UploaderInv(i)'
      BY <2>2, <2>3 DEF ItemInv, UploaderInv, At, ItemOf, UploadPc
    <2> HIDE DEF t
    <2> QED
      BY <1>0, <1>f, <2>1, <2>3, <2>4
  <1>3. ASSUME NEW i \in Items, AddToOutbox(i)
        PROVE  (\A j \in Items : ItemInv(j)') /\ (\A b \in Uploaders : UploaderInv(b)')
    <2> DEFINE t == [task[i] EXCEPT !.pc = "done"]
    <2>1. /\ Become(i, t) /\ rows' = rows /\ file' = file /\ cut' = cut /\ torn' = torn
          /\ outbox' = outbox \cup {i} /\ task[i].pc = "add"
      BY <1>3 DEF AddToOutbox, Queue, Goto, historyVars, At
    <2>2. t.pc = "done" /\ t.item = task[i].item /\ t.req = task[i].req
      BY <1>0, <1>r, PcEdits DEF PcSet
    <2>3. file[i] # "none" /\ task[i].req = "none"
      BY <1>0, <2>1 DEF ItemInv, UploaderInv, At
    <2>4. task'[i] = t => ItemInv(i)' /\ UploaderInv(i)'
      BY <2>1, <2>2, <2>3 DEF ItemInv, UploaderInv, At, ItemOf, UploadPc
    <2> HIDE DEF t
    <2> QED
      BY <1>0, <1>f, <2>1, <2>4
  <1>4. ASSUME NEW i \in Items, ServeLate(i) \/ Evict(i)
        PROVE  (\A j \in Items : ItemInv(j)') /\ (\A b \in Uploaders : UploaderInv(b)')
    <2>1. /\ task' = task /\ outbox' = outbox /\ cut' = cut /\ torn' = torn
          /\ \A j \in Items : rows[j] > 0 => rows'[j] > 0
          /\ \A j \in Items : rows'[j] = 0 => rows[j] = 0
      BY <1>4, <1>n DEF ServeLate, Evict, historyVars, TypeOK
    <2>2. \A j \in Items : \/ file'[j] = file[j]
                           \/ file[j] = "saved" /\ file'[j] = "gone"
      BY <1>4 DEF ServeLate, Evict, TypeOK
    <2>3. ASSUME NEW j \in Items PROVE ItemInv(j)'
      BY <1>0, <2>1, <2>2 DEF ItemInv, At, ItemOf
    <2>4. ASSUME NEW b \in Uploaders PROVE UploaderInv(b)'
      BY <1>0, <2>1, <2>2 DEF UploaderInv, At, ItemOf, UploadPc
    <2> QED
      BY <2>3, <2>4
  <1>5. ASSUME NEW a \in Uploaders, Presign(a) \/ Put(a)
        PROVE  (\A j \in Items : ItemInv(j)') /\ (\A b \in Uploaders : UploaderInv(b)')
    <2>1. PICK pc \in {"put", "send"} : Goto(a, pc)
      BY <1>5 DEF Presign, Put
    <2> DEFINE t == [task[a] EXCEPT !.pc = pc]
    <2>2. t.pc = pc /\ t.item = task[a].item /\ t.req = task[a].req
      BY <1>r, PcEdits DEF PcSet, UploadPc
    <2>3. /\ Become(a, t) /\ rows' = rows /\ file' = file /\ cut' = cut /\ torn' = torn
          /\ outbox' = outbox /\ task[a].pc \in {"presign", "put"}
      BY <1>5, <2>1 DEF Presign, Put, Goto, historyVars, At
    <2>4. task[a].req = "none" /\ ItemOf(a) \in Items
      BY <1>0, <2>3 DEF UploaderInv, At, UploadPc
    <2>5. task'[a] = t => (a \in Items => ItemInv(a)') /\ UploaderInv(a)'
      BY <1>0, <2>2, <2>3, <2>4 DEF ItemInv, UploaderInv, At, ItemOf, UploadPc
    <2> HIDE DEF t
    <2> QED
      BY <1>0, <1>f, <2>3, <2>5
  <1>6. ASSUME NEW a \in Uploaders, Send(a)
        PROVE  (\A j \in Items : ItemInv(j)') /\ (\A b \in Uploaders : UploaderInv(b)')
    <2> DEFINE t == [task[a] EXCEPT !.pc = "answer", !.req = "sent"]
    <2>2. t.pc = "answer" /\ t.item = task[a].item /\ t.req = "sent"
      <3>1. task[a] \in TaskRecord
        BY <1>r
      <3> QED
        BY <3>1 DEF TaskRecord
    <2>3. /\ Become(a, t) /\ rows' = rows /\ file' = file /\ cut' = cut /\ torn' = torn
          /\ outbox' = outbox /\ task[a].pc = "send"
      BY <1>6 DEF Send, historyVars, At
    <2>4. ItemOf(a) \in Items
      BY <1>0, <2>3 DEF UploaderInv, UploadPc
    <2>5. task'[a] = t => (a \in Items => ItemInv(a)') /\ UploaderInv(a)'
      BY <1>0, <2>2, <2>3, <2>4 DEF ItemInv, UploaderInv, At, ItemOf, UploadPc
    <2> HIDE DEF t
    <2> QED
      BY <1>0, <1>f, <2>3, <2>5
  <1>7. ASSUME NEW a \in Uploaders, Answer(a) \/ FailAttempt(a)
        PROVE  (\A j \in Items : ItemInv(j)') /\ (\A b \in Uploaders : UploaderInv(b)')
    <2>1. PICK pc \in {"done", "remove", "add", "next"} :
            /\ Settled(a, pc)
            /\ IF a \in Items THEN pc \in {"done", "add"} ELSE pc \in {"remove", "next"}
            /\ pc \in {"done", "remove"} => task[a].req = "served"
      BY <1>7 DEF Answer, FailAttempt, Succeed, Fail
    <2> DEFINE t == [task[a] EXCEPT !.pc = pc, !.req = "none"]
    <2>2. t.pc = pc /\ t.item = task[a].item /\ t.req = "none"
      <3>1. task[a] \in TaskRecord
        BY <1>r
      <3> QED
        BY <3>1 DEF TaskRecord
    <2>3. /\ Become(a, t) /\ rows' = rows /\ file' = file /\ cut' = cut /\ torn' = torn
          /\ outbox' = outbox /\ task[a].pc \in UploadPc
      BY <1>7, <2>1 DEF Answer, FailAttempt, Settled, historyVars, At, UploadPc
    <2>4. ItemOf(a) \in Items /\ (pc \in {"done", "remove"} => rows[ItemOf(a)] > 0)
      BY <1>0, <2>1, <2>3 DEF UploaderInv, At, UploadPc
    <2>5. ASSUME task'[a] = t, a \in Items PROVE ItemInv(a)'
      <3>1. ItemOf(a) = a /\ file[a] # "none"
        BY <1>0, <2>3, <2>5 DEF ItemInv, At, UploadPc
      <3>2. rows'[a] = 0 => pc = "add"
        BY <1>n, <2>1, <2>3, <2>4, <2>5, <3>1
      <3> QED
        BY <1>0, <2>1, <2>2, <2>3, <2>5, <3>1, <3>2 DEF ItemInv, At, ItemOf
    <2>6. task'[a] = t => UploaderInv(a)'
      BY <2>2, <2>3, <2>4 DEF UploaderInv, At, ItemOf, UploadPc
    <2> HIDE DEF t
    <2> QED
      BY <1>0, <1>f, <2>3, <2>5, <2>6
  <1>8. ASSUME NEW a \in Uploaders, Serve(a)
        PROVE  (\A j \in Items : ItemInv(j)') /\ (\A b \in Uploaders : UploaderInv(b)')
    <2> DEFINE t == [task[a] EXCEPT !.req = "served"]
    <2>2. t.pc = task[a].pc /\ t.item = task[a].item /\ t.req = "served"
      BY <1>r, RequestEdits
    <2>3. /\ Become(a, t) /\ rows' = [rows EXCEPT ![ItemOf(a)] = @ + 1]
          /\ file' = file /\ cut' = cut /\ torn' = torn /\ outbox' = outbox
          /\ task[a].req = "sent"
      BY <1>8 DEF Serve, historyVars
    <2>4. ItemOf(a) \in Items /\ At(a, "answer")
      BY <1>0, <2>3 DEF UploaderInv, At, UploadPc
    <2>5. /\ rows'[ItemOf(a)] > 0
          /\ \A j \in Items : rows[j] > 0 => rows'[j] > 0
          /\ \A j \in Items : rows'[j] = 0 => rows[j] = 0
      BY <1>n, <2>3, <2>4 DEF TypeOK
    <2>6. task'[a] = t => (a \in Items => ItemInv(a)') /\ UploaderInv(a)'
      BY <1>0, <2>2, <2>3, <2>4, <2>5 DEF ItemInv, UploaderInv, At, ItemOf, UploadPc
    <2> HIDE DEF t
    <2> QED
      BY <1>0, <1>f, <2>3, <2>5, <2>6
  <1>9. ASSUME NEW f \in Flushes, StartFlush(f) \/ EndFlush(f) \/ NextItem(f)
        PROVE  (\A j \in Items : ItemInv(j)') /\ (\A b \in Uploaders : UploaderInv(b)')
    <2>0. f \notin Items /\ f \in Uploaders
      BY ClientAssumption DEF Uploaders
    <2>1. rows' = rows /\ file' = file /\ cut' = cut /\ torn' = torn /\ outbox' = outbox
      BY <1>9 DEF StartFlush, EndFlush, NextItem, historyVars
    <2>2. CASE StartFlush(f)
      <3> DEFINE t == [Idle EXCEPT !.pc = "next", !.todo = outbox]
      <3>1. Become(f, t)
        BY <2>2 DEF StartFlush
      <3>2. t.pc = "next" /\ t.req = "none"
        BY DEF Idle
      <3>3. task'[f] = t => UploaderInv(f)'
        BY <3>2 DEF UploaderInv, At, UploadPc
      <3> HIDE DEF t
      <3> QED
        BY <1>f, <2>0, <2>1, <3>1, <3>3
    <2>4. CASE EndFlush(f)
      <3>1. Become(f, Idle)
        BY <2>4 DEF EndFlush
      <3>2. task'[f] = Idle => UploaderInv(f)'
        BY DEF UploaderInv, At, UploadPc, Idle
      <3> QED
        BY <1>f, <2>0, <2>1, <3>1, <3>2
    <2>3. CASE NextItem(f)
      <3>1. PICK i \in task[f].todo :
              Become(f, [pc |-> IF Missing(i) THEN "remove" ELSE "presign",
                         item |-> i, todo |-> task[f].todo \ {i}, req |-> "none"])
        BY <2>3 DEF NextItem
      <3> DEFINE t == [pc |-> IF Missing(i) THEN "remove" ELSE "presign",
                       item |-> i, todo |-> task[f].todo \ {i}, req |-> "none"]
      <3>2. i \in Items
        BY <1>r, <2>0, <3>1 DEF TaskRecord
      <3>3. task'[f] = t => UploaderInv(f)'
        BY <2>1, <3>2 DEF UploaderInv, At, ItemOf, UploadPc, Missing
      <3>4. Become(f, t)
        BY <3>1
      <3> HIDE DEF t
      <3> QED
        BY <1>f, <2>0, <2>1, <3>3, <3>4
    <2> QED
      BY <1>9, <2>2, <2>3, <2>4
  <1>10. ASSUME NEW f \in Flushes, RemoveFromOutbox(f)
         PROVE  (\A j \in Items : ItemInv(j)') /\ (\A b \in Uploaders : UploaderInv(b)')
    <2>0. f \notin Items /\ f \in Uploaders
      BY ClientAssumption DEF Uploaders
    <2> DEFINE t == [task[f] EXCEPT !.pc = "next"]
    <2>2. t.pc = "next" /\ t.item = task[f].item /\ t.req = task[f].req
      BY <1>r, <2>0, PcEdits DEF PcSet
    <2>3. /\ Become(f, t) /\ rows' = rows /\ file' = file /\ cut' = cut /\ torn' = torn
          /\ outbox' = outbox \ {ItemOf(f)} /\ task[f].pc = "remove"
      BY <1>10 DEF RemoveFromOutbox, Goto, historyVars, At
    <2>4. /\ task[f].req = "none"
          /\ rows[ItemOf(f)] > 0 \/ file[ItemOf(f)] = "gone"
      BY <1>0, <2>0, <2>3 DEF UploaderInv, At
    <2>5. task'[f] = t => UploaderInv(f)'
      BY <2>2, <2>4 DEF UploaderInv, At, UploadPc
    <2> HIDE DEF t
    <2> QED
      BY <1>f, <2>0, <2>3, <2>4, <2>5
  <1>11. CASE Connection
    BY <1>0, <1>11 DEF Connection, historyVars, ItemInv, UploaderInv, At, ItemOf
  <1>12. CASE Kill
    <2>1. /\ rows' = rows /\ file' = file
          /\ \A a \in Uploaders : task'[a] = IF a \in Items /\ ~At(a, "none")
                                         THEN [Idle EXCEPT !.pc = "done"] ELSE Idle
      BY <1>12 DEF Kill
    <2>2. ASSUME NEW a \in Uploaders
          PROVE  task'[a].pc \in {"done", "none"} /\ task'[a].req = "none"
      BY <2>1 DEF Idle
    <2>6. ASSUME NEW i \in Items PROVE task'[i].pc = "none" <=> task[i].pc = "none"
      BY <1>0, <2>1 DEF Idle, At
    <2>3. /\ outbox' \subseteq outbox /\ (outbox' = outbox \/ torn')
          /\ torn => torn'
          /\ \A i \in Items : i \in cut \/ task[i].pc \in UploadPc \cup {"add"} => i \in cut'
      BY <1>12 DEF Kill, Cut
    <2>4. ASSUME NEW i \in Items PROVE ItemInv(i)'
      <3>1. task'[i].pc \in {"done", "none"} /\ task'[i].req = "none"
        BY <1>0, <2>2
      <3>2. ItemInv(i)
        BY <1>0
      <3>3. i \in outbox' => i \in outbox
        BY <2>3
      <3>4. file[i] = "saved" /\ rows[i] = 0 => i \in outbox' \/ i \in cut' \/ torn'
        BY <2>3, <3>2 DEF ItemInv
      <3> QED
        BY <2>1, <2>6, <3>1, <3>2, <3>3, <3>4 DEF ItemInv, At
    <2>5. ASSUME NEW b \in Uploaders PROVE UploaderInv(b)'
      <3>1. task'[b].pc \in {"done", "none"} /\ task'[b].req = "none"
        BY <2>2
      <3> QED
        BY <3>1 DEF UploaderInv, At, UploadPc
    <2> QED
      BY <2>4, <2>5
  <1> QED
    BY <1>1, <1>2, <1>3, <1>4, <1>5, <1>6, <1>7, <1>8, <1>9, <1>10, <1>11, <1>12
    DEF Next, Upload, FlushStep

\* Every variable keeps the values its declaration describes.
THEOREM ClientTypes == Spec => []TypeOK
<1>1. Init => TypeOK
  <2> SUFFICES ASSUME Init PROVE TypeOK
    OBVIOUS
  <2>1. task \in [Uploaders -> TaskRecord]
    BY IdleTask DEF Init
  <2>2. file \in [Items -> {"none", "saved", "gone"}] /\ outbox \subseteq Items
    BY ClientAssumption DEF Init
  <2>3. rows \in [Items -> Nat] /\ late \in [Items -> Nat] /\ lost \in [Items -> Nat]
    BY DEF Init
  <2>4. outages \in 0..MaxOutages /\ failures \in 0..MaxFailures /\ kills \in 0..MaxKills
    BY ClientAssumption DEF Init
  <2>5. online \in BOOLEAN /\ cut \subseteq Items /\ torn \in BOOLEAN /\ overlap \in BOOLEAN
    BY Zenon DEF Init
  <2> QED
    BY <2>1, <2>2, <2>3, <2>4, <2>5 DEF TypeOK
<1> QED
  BY <1>1, ClientTypeStep, PTL DEF Spec

\* An item leaves the outbox only for a row of the server's or a lost file,
\* and a direct upload ends in one or the other.
THEOREM OutboxInvariant == Spec => []OutboxInv
<1>1. Init => OutboxInv
  <2> SUFFICES ASSUME Init PROVE OutboxInv
    OBVIOUS
  <2>1. /\ Items \subseteq Uploaders /\ Queued \subseteq Items
        /\ outbox = Queued /\ torn = FALSE
    BY ClientAssumption DEF Init, Uploaders
  <2>2. ASSUME NEW a \in Uploaders
        PROVE  /\ task[a].pc = (IF a \in Queued THEN "done" ELSE "none")
               /\ task[a].req = "none"
    BY DEF Init, Idle
  <2>3. ASSUME NEW i \in Items
        PROVE  file[i] = IF i \in Queued THEN "saved" ELSE "none"
    BY DEF Init
  <2>4. ASSUME NEW i \in Items PROVE ItemInv(i)
    BY <2>1, <2>2, <2>3 DEF ItemInv, At
  <2>5. ASSUME NEW a \in Uploaders PROVE UploaderInv(a)
    BY <2>2 DEF UploaderInv, At, UploadPc
  <2> QED
    BY <2>1, <2>4, <2>5, Parts
<1> QED
  BY <1>1, OutboxStep, ClientTypes, PTL DEF Spec

\* No failure, outage, retry or overlap of flushes loses a recording.
THEOREM NoRecordingLost == Spec => []NothingLost
<1>1. OutboxInv => NothingLost
  BY DEF OutboxInv
<1> QED
  BY <1>1, OutboxInvariant, PTL

-----------------------------------------------------------------------------
(* Every duplicate row was paid for by a lost answer, as long as flushes do *)
(* not overlap.  The invariant: an item is owed to the server by at most    *)
(* one attempt, and the account of one that may still be attempted is even. *)

\* What a flush may still upload is an item whose direct upload has ended.
Owes(f, i) == i \in task[f].todo \/ (task[f].pc \in UploadPc \cup {"remove"} /\ ItemOf(f) = i)
FlushLine(f) ==
  /\ At(f, "none") => task[f].todo = {}
  /\ task[f].pc \in UploadPc \cup {"next", "remove", "none"}
  /\ task[f].pc \in UploadPc \cup {"remove"} => ItemOf(f) \notin task[f].todo
  /\ \A i \in Items : Owes(f, i) => At(i, "done")
Lines == (\A f \in Flushes : FlushLine(f)) /\ (\A i \in outbox : At(i, "done"))
Alone == \A f, g \in Flushes : At(f, "none") \/ At(g, "none") \/ f = g

\* The flush that has had item i served is about to take it out.
Held(i) == \E f \in Flushes : ItemOf(f) = i /\ (At(f, "remove") \/ task[f].req = "served")
Attempted(a, i) == ItemOf(a) = i /\ task[a].pc \in UploadPc /\ task[a].req # "served"
Open(i) ==
  \/ i \in outbox /\ ~Held(i)
  \/ \E f \in Flushes : i \in task[f].todo
  \/ \E a \in Uploaders : Attempted(a, i)
  \/ task[i].pc \in {"none", "add"}
Paid(i) ==
  /\ rows[i] + late[i] <= lost[i] + 1
  /\ Open(i) => rows[i] + late[i] <= lost[i]
Account == ~overlap => Alone /\ \A i \in Items : Paid(i)

LEMMA LinesFrame ==
  ASSUME Lines, Items \subseteq Uploaders, Flushes \subseteq Uploaders, NEW a \in Uploaders,
         \A b \in Uploaders \ {a} : task'[b] = task[b],
         a \in Items /\ At(a, "done") => At(a, "done")',
         a \in Flushes => FlushLine(a)',
         \A i \in outbox' : At(i, "done")'
  PROVE  Lines'
  <1>1. ASSUME NEW i \in Items, At(i, "done") PROVE At(i, "done")'
    BY <1>1 DEF At
  <1>2. ASSUME NEW f \in Flushes \ {a} PROVE FlushLine(f)'
    <2>1. task'[f] = task[f] /\ FlushLine(f)
      BY DEF Lines
    <2> QED
      BY <1>1, <2>1 DEF FlushLine, Owes, At, ItemOf
  <1> QED
    BY <1>2 DEF Lines

\* What the steps of an attempt do to its uploader and to the account.
LEMMA AttemptShape ==
  ASSUME TypeOK, OutboxInv, NEW a \in Uploaders, Upload(a) \/ Serve(a)
  PROVE  /\ \A b \in Uploaders \ {a} : task'[b] = task[b]
         /\ ItemOf(a)' = ItemOf(a) /\ task'[a].todo = task[a].todo
         /\ task[a].pc \in UploadPc /\ ItemOf(a) \in Items
         /\ outbox' = outbox /\ overlap' = overlap
         /\ \/ /\ rows' = rows /\ late' = late /\ lost' = lost
               /\ task[a].req = "none" /\ task'[a].pc \in UploadPc /\ task'[a].req # "served"
            \/ /\ rows' = rows /\ late' = late /\ lost' = lost
               /\ task[a].req = "served" /\ task'[a].req = "none"
               /\ task'[a].pc = IF a \in Items THEN "done" ELSE "remove"
            \/ /\ rows' = rows /\ Abandon({a}) /\ task'[a].req = "none"
               /\ task'[a].pc = IF a \in Items THEN "add" ELSE "next"
            \/ /\ task[a].req = "sent" /\ task'[a].req = "served"
               /\ task[a].pc = "answer" /\ task'[a].pc = "answer"
               /\ rows' = [rows EXCEPT ![ItemOf(a)] = @ + 1] /\ late' = late /\ lost' = lost
  <1>1. task[a] \in TaskRecord
    BY DEF TypeOK
  <1>2. /\ task[a].req # "none" => task[a].pc = "answer"
        /\ task[a].pc \in UploadPc => ItemOf(a) \in Items
    BY DEF OutboxInv, At
  <1>3. CASE Presign(a) \/ Put(a)
    <2>1. PICK pc \in {"put", "send"} : Become(a, [task[a] EXCEPT !.pc = pc])
      BY <1>3 DEF Presign, Put, Goto
    <2>2. task'[a] = [task[a] EXCEPT !.pc = pc] /\ \A b \in Uploaders \ {a} : task'[b] = task[b]
      BY <2>1, Moved
    <2> QED
      BY <1>1, <1>2, <1>3, <2>2 DEF Presign, Put, historyVars, At, ItemOf, UploadPc, TaskRecord
  <1>4. CASE Send(a)
    <2>1. /\ task'[a] = [task[a] EXCEPT !.pc = "answer", !.req = "sent"]
          /\ \A b \in Uploaders \ {a} : task'[b] = task[b]
      BY <1>4, Moved DEF Send
    <2> QED
      BY <1>1, <1>2, <1>4, <2>1 DEF Send, historyVars, At, ItemOf, UploadPc, TaskRecord
  <1>5. CASE Answer(a)
    <2>1. Become(a, [task[a] EXCEPT !.pc = IF a \in Items THEN "done" ELSE "remove", !.req = "none"])
      BY <1>5 DEF Answer, Succeed, Settled
    <2>2. /\ task'[a] = [task[a] EXCEPT !.pc = IF a \in Items THEN "done" ELSE "remove", !.req = "none"]
          /\ \A b \in Uploaders \ {a} : task'[b] = task[b]
      BY <2>1, Moved
    <2> QED
      BY <1>1, <1>2, <1>5, <2>2 DEF Answer, historyVars, At, ItemOf, UploadPc, TaskRecord
  <1>6. CASE FailAttempt(a)
    <2>1. Become(a, [task[a] EXCEPT !.pc = IF a \in Items THEN "add" ELSE "next", !.req = "none"])
      BY <1>6 DEF FailAttempt, Fail, Settled
    <2>2. /\ task'[a] = [task[a] EXCEPT !.pc = IF a \in Items THEN "add" ELSE "next", !.req = "none"]
          /\ \A b \in Uploaders \ {a} : task'[b] = task[b]
      BY <2>1, Moved
    <2> QED
      BY <1>1, <1>2, <1>6, <2>2 DEF FailAttempt, At, ItemOf, UploadPc, TaskRecord
  <1>7. CASE Serve(a)
    <2>1. Become(a, [task[a] EXCEPT !.req = "served"])
      BY <1>7 DEF Serve
    <2>2. task'[a] = [task[a] EXCEPT !.req = "served"] /\ \A b \in Uploaders \ {a} : task'[b] = task[b]
      BY <2>1, Moved
    <2> QED
      BY <1>1, <1>2, <1>7, <2>2 DEF Serve, historyVars, At, ItemOf, UploadPc, TaskRecord
  <1> QED
    BY <1>3, <1>4, <1>5, <1>6, <1>7 DEF Upload

LEMMA LinesStep == ASSUME TypeOK, OutboxInv, Lines, [Next]_vars PROVE Lines'
  <1>0. /\ Items \subseteq Uploaders /\ Flushes \subseteq Uploaders /\ Items \cap Flushes = {}
        /\ outbox \subseteq Items
    BY ClientAssumption DEF Uploaders, TypeOK
  <1>r. \A a \in Uploaders : task[a] \in TaskRecord
    BY DEF TypeOK
  <1>1. CASE task' = task /\ outbox' = outbox
    BY <1>1 DEF Lines, FlushLine, Owes, At, ItemOf
  <1>2. ASSUME NEW i \in Items, Record(i) PROVE Lines'
    <2>1. Become(i, [Idle EXCEPT !.pc = "presign", !.item = i]) /\ outbox' = outbox /\ file[i] = "none"
      BY <1>2 DEF Record
    <2>2. \A b \in Uploaders \ {i} : task'[b] = task[b]
      BY <1>0, <2>1, Moved
    <2>3. ~At(i, "done")
      BY <2>1 DEF OutboxInv, At
    <2>4. \A j \in outbox' : At(j, "done")'
      BY <1>0, <2>1, <2>2, <2>3 DEF Lines, At
    <2> QED
      BY <1>0, <2>2, <2>3, <2>4, LinesFrame
  <1>3. ASSUME NEW i \in Items, AddToOutbox(i) PROVE Lines'
    <2>1. Become(i, [task[i] EXCEPT !.pc = "done"]) /\ outbox' = outbox \cup {i}
      BY <1>3 DEF AddToOutbox, Goto, Queue
    <2>2. task'[i].pc = "done" /\ \A b \in Uploaders \ {i} : task'[b] = task[b]
      BY <1>0, <1>r, <2>1, Moved DEF TaskRecord
    <2>3. \A j \in outbox' : At(j, "done")'
      BY <1>0, <2>1, <2>2 DEF Lines, At
    <2> QED
      BY <1>0, <2>2, <2>3, LinesFrame DEF At
  <1>4. ASSUME NEW a \in Uploaders, Upload(a) \/ Serve(a) PROVE Lines'
    <2>1. /\ \A b \in Uploaders \ {a} : task'[b] = task[b]
          /\ ItemOf(a)' = ItemOf(a) /\ task'[a].todo = task[a].todo
          /\ task[a].pc \in UploadPc /\ outbox' = outbox
          /\ a \in Flushes => task'[a].pc \in UploadPc \cup {"remove", "next"}
      BY <1>0, <1>4, AttemptShape DEF UploadPc
    <2>2. ~At(a, "done")
      BY <2>1 DEF At, UploadPc
    <2>3. ASSUME a \in Flushes PROVE FlushLine(a)'
      <3>1. \A i \in Items : Owes(a, i)' => Owes(a, i)
        BY <2>1, <2>3 DEF Owes
      <3>2. \A i \in Items : At(i, "done") => At(i, "done")'
        BY <1>0, <2>1, <2>3 DEF At
      <3>3. FlushLine(a)
        BY <2>3 DEF Lines
      <3>4. ~At(a, "none")'
        BY <2>1, <2>3 DEF At, UploadPc
      <3> QED
        BY <2>1, <2>3, <3>1, <3>2, <3>3, <3>4 DEF FlushLine
    <2>4. \A j \in outbox' : At(j, "done")'
      BY <1>0, <2>1, <2>2 DEF Lines, At
    <2> QED
      BY <1>0, <2>1, <2>2, <2>3, <2>4, LinesFrame
  <1>5. ASSUME NEW f \in Flushes, StartFlush(f) \/ FlushStep(f) PROVE Lines'
    <2>1. \A j \in Items : At(j, "done")' = At(j, "done")
      <3>1. PICK t : Become(f, t)
        BY <1>5 DEF StartFlush, FlushStep, NextItem, RemoveFromOutbox, EndFlush, Goto
      <3> QED
        BY <1>0, <3>1, Moved DEF At
    <2>2. FlushLine(f) /\ task[f] \in TaskRecord
      BY <1>0, <1>r DEF Lines
    <2>3. outbox' \subseteq outbox
      BY <1>5 DEF StartFlush, FlushStep, NextItem, RemoveFromOutbox, EndFlush
    <2> SUFFICES (\A b \in Uploaders \ {f} : task'[b] = task[b]) /\ FlushLine(f)'
      BY <1>0, <2>1, <2>3, LinesFrame DEF Lines
    <2>4. CASE StartFlush(f)
      <3>1. task'[f] = [Idle EXCEPT !.pc = "next", !.todo = outbox]
            /\ \A b \in Uploaders \ {f} : task'[b] = task[b]
        BY <1>0, <2>4, Moved DEF StartFlush
      <3>2. task'[f].pc = "next" /\ task'[f].todo = outbox
        BY <3>1 DEF Idle
      <3>3. \A i \in Items : Owes(f, i)' => At(i, "done")
        BY <3>2 DEF Owes, Lines, UploadPc
      <3> QED
        BY <2>1, <3>1, <3>2, <3>3 DEF FlushLine, At, UploadPc
    <2>5. CASE NextItem(f)
      <3>1. PICK i \in task[f].todo :
              Become(f, [pc |-> IF Missing(i) THEN "remove" ELSE "presign",
                         item |-> i, todo |-> task[f].todo \ {i}, req |-> "none"])
        BY <2>5 DEF NextItem
      <3>2. /\ task'[f].pc \in {"remove", "presign"} /\ ItemOf(f)' = i
            /\ task'[f].todo = task[f].todo \ {i}
            /\ \A b \in Uploaders \ {f} : task'[b] = task[b]
        BY <1>0, <3>1, Moved DEF ItemOf
      <3>3. \A j \in Items : Owes(f, j)' => Owes(f, j)
        BY <3>1, <3>2 DEF Owes
      <3> QED
        BY <2>1, <2>2, <3>2, <3>3 DEF FlushLine, At, UploadPc
    <2>6. CASE RemoveFromOutbox(f)
      <3>1. /\ task'[f] = [task[f] EXCEPT !.pc = "next"]
            /\ \A b \in Uploaders \ {f} : task'[b] = task[b]
        BY <1>0, <2>6, Moved DEF RemoveFromOutbox, Goto
      <3>2. task'[f].pc = "next" /\ task'[f].todo = task[f].todo
        BY <2>2, <3>1 DEF TaskRecord
      <3>3. \A j \in Items : Owes(f, j)' => Owes(f, j)
        BY <3>2 DEF Owes, UploadPc
      <3> QED
        BY <2>1, <2>2, <3>1, <3>2, <3>3 DEF FlushLine, At, UploadPc
    <2>7. CASE EndFlush(f)
      <3>1. task'[f] = Idle /\ \A b \in Uploaders \ {f} : task'[b] = task[b]
        BY <1>0, <2>7, Moved DEF EndFlush
      <3> QED
        BY <3>1 DEF FlushLine, Owes, At, UploadPc, Idle
    <2> QED
      BY <1>5, <2>4, <2>5, <2>6, <2>7 DEF FlushStep
  <1>6. CASE Kill
    <2>1. \A a \in Uploaders : task'[a] = IF a \in Items /\ ~At(a, "none")
                                          THEN [Idle EXCEPT !.pc = "done"] ELSE Idle
      BY <1>6 DEF Kill
    <2>2. \A i \in Items : At(i, "done") => At(i, "done")'
      BY <1>0, <2>1 DEF At, Idle
    <2>3. ASSUME NEW f \in Flushes PROVE FlushLine(f)'
      <3>1. task'[f] = Idle
        BY <1>0, <2>1
      <3> QED
        BY <3>1 DEF FlushLine, Owes, At, UploadPc, Idle
    <2>4. outbox' \subseteq outbox
      BY <1>6 DEF Kill
    <2> QED
      BY <1>0, <2>2, <2>3, <2>4 DEF Lines
  <1>7. CASE UNCHANGED vars \/ Connection \/ \E i \in Items : ServeLate(i) \/ Evict(i)
    BY <1>1, <1>7 DEF vars, Connection, ServeLate, Evict
  <1> QED
    BY <1>2, <1>3, <1>4, <1>5, <1>6, <1>7 DEF Next

\* A step that counts nothing and opens no account keeps every account.
LEMMA Quiet ==
  ASSUME \A i \in Items : Paid(i), rows' = rows, late' = late, lost' = lost,
         \A i \in Items : Open(i)' => Open(i)
  PROVE  \A i \in Items : Paid(i)'
  BY DEF Paid

LEMMA AloneFrame ==
  ASSUME Alone, \A f \in Flushes : At(f, "none") => At(f, "none")'
  PROVE  Alone'
  BY DEF Alone

LEMMA AttemptPaid ==
  ASSUME TypeOK, OutboxInv, Lines, Alone, \A i \in Items : Paid(i),
         NEW a \in Uploaders, Upload(a) \/ Serve(a)
  PROVE  Alone' /\ \A i \in Items : Paid(i)'
  <1>0. /\ Items \subseteq Uploaders /\ Flushes \subseteq Uploaders /\ Items \cap Flushes = {}
        /\ outbox \subseteq Items /\ Uploaders = Items \cup Flushes
    BY ClientAssumption DEF Uploaders, TypeOK
  <1>n. \A i \in Items : rows[i] \in Nat /\ late[i] \in Nat /\ lost[i] \in Nat
    BY DEF TypeOK
  <1>1. /\ \A b \in Uploaders \ {a} : task'[b] = task[b]
        /\ ItemOf(a)' = ItemOf(a) /\ task'[a].todo = task[a].todo
        /\ task[a].pc \in UploadPc /\ ItemOf(a) \in Items /\ outbox' = outbox
    BY AttemptShape
  <1>2. Alone'
    <2>1. \A f \in Flushes : At(f, "none") => At(f, "none")'
      BY <1>0, <1>1 DEF At, UploadPc
    <2> QED
      BY <2>1, AloneFrame
  <1>3. a \in Items => ItemOf(a) = a
    BY <1>1 DEF OutboxInv, At, UploadPc
  \* Nobody else attempts, holds or has yet to attempt the item of a.
  <1>4. /\ a \in Flushes => At(ItemOf(a), "done")
        /\ a \in Flushes => ItemOf(a) \notin task[a].todo
        /\ a \in Items => a \notin outbox
        /\ \A f \in Flushes : a \in Items => ~Owes(f, a)
        /\ \A f \in Flushes : a \in Flushes /\ f # a => At(f, "none") /\ task[f].todo = {}
    BY <1>0, <1>1 DEF Lines, FlushLine, Owes, At, UploadPc, Alone
  <1>5. \A f \in Flushes : f # a => ItemOf(f)' = ItemOf(f) /\ task'[f] = task[f]
    BY <1>0, <1>1 DEF ItemOf
  <1>6. CASE /\ rows' = rows /\ late' = late /\ lost' = lost
             /\ task[a].req = "none" /\ task'[a].pc \in UploadPc /\ task'[a].req # "served"
    <2>1. ASSUME NEW i \in Items PROVE Open(i)' => Open(i)
      <3>1. Held(i) => Held(i)'
        BY <1>1, <1>5, <1>6 DEF Held, At, UploadPc
      <3>2. \A b \in Uploaders : Attempted(b, i)' => Attempted(b, i)
        BY <1>1, <1>6 DEF Attempted, ItemOf
      <3>3. task'[i].pc \in {"none", "add"} => task[i].pc \in {"none", "add"}
        BY <1>0, <1>1, <1>6 DEF UploadPc
      <3>4. \A f \in Flushes : task'[f].todo = task[f].todo
        BY <1>0, <1>1
      <3> QED
        BY <1>1, <3>1, <3>2, <3>3, <3>4 DEF Open
    <2> QED
      BY <1>2, <1>6, <2>1, Quiet
  <1>7. CASE /\ rows' = rows /\ late' = late /\ lost' = lost
             /\ task[a].req = "served" /\ task'[a].req = "none"
             /\ task'[a].pc = IF a \in Items THEN "done" ELSE "remove"
    <2>1. ASSUME NEW i \in Items PROVE Open(i)' => Open(i)
      <3>1. Held(i) => Held(i)'
        BY <1>0, <1>1, <1>5, <1>7 DEF Held, At, UploadPc
      <3>2. \A b \in Uploaders : Attempted(b, i)' => Attempted(b, i)
        BY <1>1, <1>7 DEF Attempted, ItemOf, UploadPc
      <3>3. task'[i].pc \in {"none", "add"} => task[i].pc \in {"none", "add"}
        BY <1>0, <1>1, <1>7
      <3>4. \A f \in Flushes : task'[f].todo = task[f].todo
        BY <1>0, <1>1
      <3> QED
        BY <1>1, <3>1, <3>2, <3>3, <3>4 DEF Open
    <2> QED
      BY <1>2, <1>7, <2>1, Quiet
  <1>k. PICK k \in Items : k = ItemOf(a)
    BY <1>1
  <1>8. CASE /\ rows' = rows /\ Abandon({a}) /\ task'[a].req = "none"
             /\ task'[a].pc = IF a \in Items THEN "add" ELSE "next"
    <2>0. task[a].req # "none" => task[a].pc = "answer"
      BY DEF OutboxInv, At
    <2>1. ASSUME NEW i \in Items, i # k PROVE Paid(i)'
      <3>1. late'[i] = late[i] /\ lost'[i] = lost[i]
        BY <1>8, <1>k, <2>1 DEF Abandon
      <3>2. Held(i) => Held(i)'
        BY <1>1, <1>k, <1>5, <2>1 DEF Held, At
      <3>3. \A b \in Uploaders : Attempted(b, i)' => Attempted(b, i)
        BY <1>1, <1>k, <2>1 DEF Attempted, ItemOf
      <3>4. task'[i].pc \in {"none", "add"} => task[i].pc \in {"none", "add"}
        BY <1>0, <1>1, <1>k, <1>3, <2>1
      <3>5. \A f \in Flushes : task'[f].todo = task[f].todo
        BY <1>0, <1>1, <1>k
      <3>6. Open(i)' => Open(i)
        BY <1>1, <1>k, <3>2, <3>3, <3>4, <3>5 DEF Open
      <3> QED
        BY <1>8, <3>1, <3>6 DEF Paid
    <2>2. Paid(k)'
      <3>1. /\ late'[k] = IF task[a].req = "sent" THEN late[k] + 1 ELSE late[k]
            /\ lost'[k] = IF task[a].pc \in {"answer", "remove"} THEN lost[k] + 1 ELSE lost[k]
        BY <1>1, <1>k, <1>8 DEF Abandon
      <3>2. task[a].req = "served" \/ Open(k)
        BY <1>1, <1>k DEF Open, Attempted
      <3>3. Paid(k)
        BY <1>1, <1>k
      <3>4. rows'[k] + late'[k] <= lost'[k]
        BY <1>n, <1>1, <1>k, <1>8, <2>0, <3>1, <3>2, <3>3 DEF Paid
      <3>5. rows'[k] \in Nat /\ late'[k] \in Nat /\ lost'[k] \in Nat
        BY <1>n, <1>1, <1>k, <1>8, <3>1
      <3>6. rows'[k] + late'[k] <= lost'[k] + 1
        BY <3>4, <3>5
      <3> QED
        BY <1>1, <1>k, <3>4, <3>6 DEF Paid
    <2> QED
      BY <1>2, <2>1, <2>2
  <1>9. CASE /\ task[a].req = "sent" /\ task'[a].req = "served"
             /\ task[a].pc = "answer" /\ task'[a].pc = "answer"
             /\ rows' = [rows EXCEPT ![ItemOf(a)] = @ + 1] /\ late' = late /\ lost' = lost
    <2>1. ASSUME NEW i \in Items, i # k PROVE Paid(i)'
      <3>1. rows'[i] = rows[i]
        BY <1>9, <1>k, <2>1
      <3>2. Held(i) => Held(i)'
        BY <1>1, <1>k, <1>5, <1>9 DEF Held, At
      <3>3. \A b \in Uploaders : Attempted(b, i)' => Attempted(b, i)
        BY <1>1, <1>k, <1>9 DEF Attempted, ItemOf
      <3>4. task'[i].pc \in {"none", "add"} => task[i].pc \in {"none", "add"}
        BY <1>0, <1>1, <1>k, <1>9
      <3>5. \A f \in Flushes : task'[f].todo = task[f].todo
        BY <1>0, <1>1, <1>k
      <3>6. Open(i)' => Open(i)
        BY <1>1, <1>k, <3>2, <3>3, <3>4, <3>5 DEF Open
      <3> QED
        BY <1>9, <3>1, <3>6 DEF Paid
    <2>2. Paid(k)'
      <3>1. rows'[k] = rows[k] + 1
        BY <1>1, <1>k, <1>9 DEF TypeOK
      <3>2. Open(k) /\ Paid(k)
        BY <1>1, <1>k, <1>9 DEF Open, Attempted
      <3>3. rows'[k] + late'[k] <= lost'[k] + 1
        BY <1>n, <1>1, <1>k, <1>9, <3>1, <3>2 DEF Paid
      <3>4. k \in outbox => Held(k)'
        BY <1>0, <1>1, <1>k, <1>3, <1>4, <1>9 DEF Held
      <3>5. \A f \in Flushes : k \notin task'[f].todo
        BY <1>0, <1>1, <1>k, <1>3, <1>4 DEF Owes
      <3>6. ASSUME NEW b \in Uploaders PROVE ~Attempted(b, k)'
        <4>1. CASE b = a
          BY <1>9, <1>k, <4>1 DEF Attempted
        <4>2. CASE b # a /\ b \in Items
          <5>1. Attempted(b, k)' => ItemOf(b) = k /\ task[b].pc \in UploadPc
            BY <1>1, <1>k, <4>2 DEF Attempted, ItemOf
          <5>2. task[b].pc \in UploadPc => ItemOf(b) = b
            BY <1>0, <4>2 DEF OutboxInv, At, UploadPc
          <5>3. a \in Flushes => ~(task[k].pc \in UploadPc)
            BY <1>4, <1>k DEF At, UploadPc
          <5> QED
            BY <1>0, <1>3, <1>k, <4>2, <5>1, <5>2, <5>3
        <4>3. CASE b # a /\ b \in Flushes
          <5>1. Attempted(b, k)' => ItemOf(b) = k /\ task[b].pc \in UploadPc
            BY <1>1, <1>k, <4>3 DEF Attempted, ItemOf
          <5>2. a \in Items => ~(ItemOf(b) = k /\ task[b].pc \in UploadPc)
            BY <1>3, <1>4, <1>k, <4>3 DEF Owes
          <5>3. a \in Flushes => ~(task[b].pc \in UploadPc)
            BY <1>4, <4>3 DEF At, UploadPc
          <5> QED
            BY <1>0, <5>1, <5>2, <5>3
        <4> QED
          BY <1>0, <4>1, <4>2, <4>3
      <3>7. task'[k].pc \notin {"none", "add"}
        BY <1>0, <1>1, <1>k, <1>3, <1>4, <1>9 DEF At
      <3>8. ~Open(k)'
        BY <1>1, <1>k, <3>4, <3>5, <3>6, <3>7 DEF Open
      <3> QED
        BY <3>3, <3>8 DEF Paid
    <2> QED
      BY <1>2, <2>1, <2>2
  <1> QED
    BY <1>6, <1>7, <1>8, <1>9, AttemptShape

LEMMA FlushPaid ==
  ASSUME TypeOK, OutboxInv, Lines, Alone, \A i \in Items : Paid(i), ~overlap',
         NEW f \in Flushes, StartFlush(f) \/ FlushStep(f)
  PROVE  Alone' /\ \A i \in Items : Paid(i)'
  <1>0. /\ Items \subseteq Uploaders /\ Flushes \subseteq Uploaders /\ Items \cap Flushes = {}
        /\ f \notin Items /\ outbox \subseteq Items
    BY ClientAssumption DEF Uploaders, TypeOK
  <1>r. task[f] \in TaskRecord
    BY <1>0 DEF TypeOK
  <1>1. rows' = rows /\ late' = late /\ lost' = lost
    BY DEF StartFlush, FlushStep, NextItem, RemoveFromOutbox, EndFlush, historyVars
  <1>2. \A g \in Flushes : task[g].req # "none" => At(g, "answer")
    BY <1>0 DEF OutboxInv
  <1>3. \A g \in Flushes \ {f} : At(g, "none")
    BY DEF StartFlush, FlushStep, NextItem, RemoveFromOutbox, EndFlush, Alone, At
  \* Only the flush in progress can hold an item.
  <1>4. ASSUME NEW i \in Items, Held(i) PROVE ItemOf(f) = i /\ At(f, "remove")
    <2>1. PICK g \in Flushes : ItemOf(g) = i /\ (At(g, "remove") \/ task[g].req = "served")
      BY <1>4 DEF Held
    <2>2. ~At(g, "none")
      BY <1>2, <2>1 DEF At
    <2>3. task[f].pc # "answer"
      BY DEF StartFlush, FlushStep, NextItem, RemoveFromOutbox, EndFlush, At
    <2> QED
      BY <1>2, <1>3, <2>1, <2>2, <2>3 DEF At
  <1>5. ASSUME NEW t, Become(f, t),
               t.pc \in {"next", "none", "remove"} \/ (t.pc = "presign" /\ t.item \in task[f].todo),
               t.todo \subseteq task[f].todo \/ (t.todo = outbox /\ At(f, "none")),
               outbox' \subseteq outbox,
               \A j \in outbox' : ~(ItemOf(f) = j /\ At(f, "remove"))
        PROVE  Alone' /\ \A i \in Items : Open(i)' => Open(i)
    <2>1. task'[f] = t /\ \A b \in Uploaders \ {f} : task'[b] = task[b]
      BY <1>0, <1>5, Moved
    <2>2. Alone'
      <3>1. \A g \in Flushes \ {f} : task'[g].pc = "none"
        BY <1>0, <1>3, <2>1 DEF At
      <3> QED
        BY <3>1 DEF Alone, At
    <2>3. ASSUME NEW i \in Items, Open(i)' PROVE Open(i)
      <3>1. CASE i \in outbox'
        BY <1>4, <1>5, <3>1 DEF Open
      <3>2. ASSUME NEW g \in Flushes, i \in task'[g].todo PROVE Open(i)
        <4>1. CASE g = f
          <5>1. At(f, "none") => ~Held(i)
            BY <1>4 DEF At
          <5>2. i \in task[f].todo \/ (i \in outbox /\ At(f, "none"))
            BY <1>5, <2>1, <3>2, <4>1
          <5> QED
            BY <1>0, <5>1, <5>2 DEF Open
        <4>2. CASE g # f
          BY <1>0, <2>1, <3>2, <4>2 DEF Open
        <4> QED
          BY <4>1, <4>2
      <3>3. ASSUME NEW b \in Uploaders, Attempted(b, i)' PROVE Open(i)
        <4>1. CASE b = f
          <5>1. task'[f].pc = "presign" => ItemOf(f)' \in task[f].todo
            BY <1>5, <2>1 DEF ItemOf, UploadPc
          <5>2. task'[f].pc \in UploadPc => task'[f].pc = "presign"
            BY <1>5, <2>1 DEF UploadPc
          <5> QED
            BY <3>3, <4>1, <5>1, <5>2 DEF Attempted, Open
        <4>2. CASE b # f
          BY <2>1, <3>3, <4>2 DEF Attempted, ItemOf, Open
        <4> QED
          BY <4>1, <4>2
      <3>4. CASE task'[i].pc \in {"none", "add"}
        BY <1>0, <2>1, <3>4 DEF Open
      <3> QED
        BY <2>3, <3>1, <3>2, <3>3, <3>4 DEF Open
    <2> QED
      BY <2>2, <2>3
  <1>6. Alone' /\ \A i \in Items : Open(i)' => Open(i)
    <2>1. CASE StartFlush(f)
      <3> DEFINE u == [Idle EXCEPT !.pc = "next", !.todo = outbox]
      <3>1. u.pc = "next" /\ u.todo = outbox
        BY DEF Idle
      <3>2. Become(f, u) /\ outbox' = outbox /\ At(f, "none")
        BY <2>1 DEF StartFlush
      <3> HIDE DEF u
      <3>h. /\ u.pc \in {"next", "none", "remove"} \/ (u.pc = "presign" /\ u.item \in task[f].todo)
            /\ u.todo \subseteq task[f].todo \/ (u.todo = outbox /\ At(f, "none"))
            /\ outbox' \subseteq outbox
            /\ \A j \in outbox' : ~(ItemOf(f) = j /\ At(f, "remove"))
        BY <3>1, <3>2 DEF At
      <3> QED
        BY <1>5, <3>1, <3>2, <3>h
    <2>2. CASE NextItem(f)
      <3>1. PICK i \in task[f].todo :
              Become(f, [pc |-> IF Missing(i) THEN "remove" ELSE "presign",
                         item |-> i, todo |-> task[f].todo \ {i}, req |-> "none"])
        BY <2>2 DEF NextItem
      <3> DEFINE u == [pc |-> IF Missing(i) THEN "remove" ELSE "presign",
                       item |-> i, todo |-> task[f].todo \ {i}, req |-> "none"]
      <3>2. u.pc \in {"remove", "presign"} /\ u.item = i /\ u.todo = task[f].todo \ {i} /\ Become(f, u)
        BY <3>1
      <3>3. outbox' = outbox /\ At(f, "next")
        BY <2>2 DEF NextItem
      <3> HIDE DEF u
      <3>h. /\ u.pc \in {"next", "none", "remove"} \/ (u.pc = "presign" /\ u.item \in task[f].todo)
            /\ u.todo \subseteq task[f].todo \/ (u.todo = outbox /\ At(f, "none"))
            /\ outbox' \subseteq outbox
            /\ \A j \in outbox' : ~(ItemOf(f) = j /\ At(f, "remove"))
        BY <3>2, <3>3 DEF At
      <3> QED
        BY <1>5, <3>2, <3>3, <3>h
    <2>3. CASE RemoveFromOutbox(f)
      <3> DEFINE u == [task[f] EXCEPT !.pc = "next"]
      <3>1. u.pc = "next" /\ u.todo = task[f].todo
        BY <1>r DEF TaskRecord
      <3>2. Become(f, u) /\ outbox' = outbox \ {ItemOf(f)} /\ At(f, "remove")
        BY <2>3 DEF RemoveFromOutbox, Goto
      <3> HIDE DEF u
      <3>h. /\ u.pc \in {"next", "none", "remove"} \/ (u.pc = "presign" /\ u.item \in task[f].todo)
            /\ u.todo \subseteq task[f].todo \/ (u.todo = outbox /\ At(f, "none"))
            /\ outbox' \subseteq outbox
            /\ \A j \in outbox' : ~(ItemOf(f) = j /\ At(f, "remove"))
        BY <3>1, <3>2 DEF At
      <3> QED
        BY <1>5, <3>1, <3>2, <3>h
    <2>4. CASE EndFlush(f)
      <3>1. Idle.pc = "none" /\ Idle.todo = {}
        BY DEF Idle
      <3>2. Become(f, Idle) /\ outbox' = outbox /\ At(f, "next")
        BY <2>4 DEF EndFlush
      <3>h. /\ Idle.pc \in {"next", "none", "remove"} \/ (Idle.pc = "presign" /\ Idle.item \in task[f].todo)
            /\ Idle.todo \subseteq task[f].todo \/ (Idle.todo = outbox /\ At(f, "none"))
            /\ outbox' \subseteq outbox
            /\ \A j \in outbox' : ~(ItemOf(f) = j /\ At(f, "remove"))
        BY <3>1, <3>2 DEF At
      <3> QED
        BY <1>5, <3>1, <3>2, <3>h
    <2> QED
      BY <2>1, <2>2, <2>3, <2>4 DEF FlushStep
  <1> QED
    BY <1>1, <1>6, Quiet

LEMMA ItemPaid ==
  ASSUME TypeOK, OutboxInv, Lines, Alone, \A i \in Items : Paid(i),
         NEW k \in Items, Record(k) \/ AddToOutbox(k) \/ ServeLate(k) \/ Evict(k)
  PROVE  Alone' /\ \A i \in Items : Paid(i)'
  <1>0. /\ Items \subseteq Uploaders /\ Flushes \subseteq Uploaders /\ Items \cap Flushes = {}
        /\ outbox \subseteq Items
    BY ClientAssumption DEF Uploaders, TypeOK
  <1>1. CASE ServeLate(k) \/ Evict(k)
    <2>1. task' = task /\ outbox' = outbox /\ lost' = lost
      BY <1>1 DEF ServeLate, Evict, historyVars
    <2>2. ASSUME NEW i \in Items PROVE Paid(i)'
      <3>1. rows'[i] + late'[i] = rows[i] + late[i]
        BY <1>1 DEF ServeLate, Evict, TypeOK
      <3>2. Open(i)' <=> Open(i)
        BY <2>1 DEF Open, Held, Attempted, At, ItemOf
      <3> QED
        BY <2>1, <3>1, <3>2 DEF Paid
    <2> QED
      BY <2>1, <2>2 DEF Alone, At
  <1>2. CASE Record(k) \/ AddToOutbox(k)
    <2>1. PICK t : Become(k, t)
      BY <1>2 DEF Record, AddToOutbox, Goto
    <2>2. \A b \in Uploaders \ {k} : task'[b] = task[b]
      BY <1>0, <2>1, Moved
    <2>3. /\ rows' = rows /\ late' = late /\ lost' = lost /\ outbox' \subseteq outbox \cup {k}
          /\ task[k].pc \in {"none", "add"}
      BY <1>2 DEF Record, AddToOutbox, Queue, historyVars, OutboxInv, At
    <2>4. \A g \in Flushes : task'[g] = task[g]
      BY <1>0, <2>2
    <2>5. ASSUME NEW i \in Items, Open(i)' PROVE Open(i)
      <3>1. CASE i = k
        BY <2>3, <3>1 DEF Open
      <3>2. CASE i # k
        <4>1. Held(i)' <=> Held(i)
          BY <2>4 DEF Held, At, ItemOf
        <4>2. Attempted(k, i)' => i = k
          <5>1. CASE Record(k)
            <6>1. task'[k] = [Idle EXCEPT !.pc = "presign", !.item = k]
              BY <1>0, <5>1, Moved DEF Record
            <6> QED
              BY <6>1 DEF Attempted, ItemOf, Idle
          <5>2. CASE AddToOutbox(k)
            <6>1. task'[k] = [task[k] EXCEPT !.pc = "done"] /\ task[k] \in TaskRecord
              BY <1>0, <5>2, Moved DEF AddToOutbox, Goto, TypeOK
            <6> QED
              BY <6>1 DEF Attempted, TaskRecord, UploadPc
          <5> QED
            BY <1>2, <5>1, <5>2
        <4>3. \A b \in Uploaders \ {k} : Attempted(b, i)' => Attempted(b, i)
          BY <2>2 DEF Attempted, ItemOf
        <4> QED
          BY <1>0, <2>2, <2>3, <2>4, <2>5, <3>2, <4>1, <4>2, <4>3 DEF Open
      <3> QED
        BY <3>1, <3>2
    <2> QED
      BY <2>3, <2>4, <2>5, Quiet, AloneFrame DEF At
  <1> QED
    BY <1>1, <1>2

\* A kill ends every attempt, and counts what it may have cut an answer of.
LEMMA KillPaid ==
  ASSUME TypeOK, OutboxInv, Lines, Alone, \A i \in Items : Paid(i), Kill
  PROVE  Alone' /\ \A i \in Items : Paid(i)'
  <1>0. Items \subseteq Uploaders /\ Flushes \subseteq Uploaders /\ Items \cap Flushes = {}
    BY ClientAssumption DEF Uploaders
  <1>n. \A i \in Items : rows[i] \in Nat /\ late[i] \in Nat /\ lost[i] \in Nat
    BY DEF TypeOK
  <1>1. \A a \in Uploaders : task'[a] = IF a \in Items /\ ~At(a, "none")
                                        THEN [Idle EXCEPT !.pc = "done"] ELSE Idle
    BY DEF Kill
  <1>2. /\ \A a \in Uploaders : task'[a].pc \in {"none", "done"} /\ task'[a].todo = {}
        /\ \A i \in Items : task'[i].pc = "none" => task[i].pc = "none"
        /\ \A f \in Flushes : task'[f].pc = "none"
    BY <1>0, <1>1 DEF Idle, At
  <1>3. rows' = rows /\ outbox' \subseteq outbox /\ Abandon(Uploaders)
    BY DEF Kill
  <1>4. \A a \in Uploaders : task[a].req # "none" => task[a].pc = "answer"
    BY DEF OutboxInv, At
  <1>5. ASSUME NEW i \in Items PROVE Paid(i)'
    <2> DEFINE sent == \E a \in Uploaders : ItemOf(a) = i /\ task[a].req = "sent"
               cost == \E a \in Uploaders : ItemOf(a) = i /\ task[a].pc \in {"answer", "remove"}
    <2>1. /\ late'[i] = IF sent THEN late[i] + 1 ELSE late[i]
          /\ lost'[i] = IF cost THEN lost[i] + 1 ELSE lost[i]
      BY <1>3 DEF Abandon
    <2>2. sent => cost
      BY <1>4
    <2>3. sent => Open(i)
      BY <1>4 DEF Open, Attempted, UploadPc
    <2>4. Open(i)' => Open(i) \/ cost
      <3>1. Open(i)' => i \in outbox \/ task[i].pc = "none"
        BY <1>0, <1>2, <1>3 DEF Open, Attempted, UploadPc
      <3>2. Held(i) => cost
        BY <1>0, <1>4 DEF Held, At
      <3> QED
        BY <3>1, <3>2 DEF Open
    <2> HIDE DEF sent, cost
    <2>5. Paid(i) /\ rows'[i] = rows[i]
      BY <1>3
    <2> QED
      BY <1>n, <2>1, <2>2, <2>3, <2>4, <2>5 DEF Paid
  <1> QED
    BY <1>2, <1>5 DEF Alone, At

LEMMA AccountStep == ASSUME TypeOK, OutboxInv, Lines, Account, [Next]_vars PROVE Account'
  <1> SUFFICES ASSUME ~overlap' PROVE Alone' /\ \A i \in Items : Paid(i)'
    BY DEF Account
  <1>1. ~overlap
    BY DEF Next, vars, historyVars, Record, AddToOutbox, ServeLate, Evict, Upload, Presign, Put, Send,
       Answer, FailAttempt, Serve, StartFlush, FlushStep, NextItem, RemoveFromOutbox, EndFlush,
       Connection, Kill
  <1>2. Alone /\ \A i \in Items : Paid(i)
    BY <1>1 DEF Account
  <1>3. CASE UNCHANGED vars \/ Connection
    <2>1. /\ task' = task /\ outbox' = outbox /\ rows' = rows /\ late' = late /\ lost' = lost
      BY <1>3 DEF vars, historyVars, Connection
    <2>2. \A i \in Items : Open(i)' <=> Open(i)
      BY <2>1 DEF Open, Held, Attempted, At, ItemOf
    <2> QED
      BY <1>2, <2>1, <2>2, Quiet DEF Alone, At
  <1> QED
    BY <1>2, <1>3, AttemptPaid, FlushPaid, ItemPaid, KillPaid DEF Next

\* Every row of an item beyond the first was paid for by an attempt whose
\* answer was lost or whose process was killed, for any number of recordings,
\* failures and kills, as long as flushes do not overlap.
THEOREM DuplicatesPaidFor == Spec => []DuplicatesExplained
<1>1. Init => Lines /\ Account
  <2> SUFFICES ASSUME Init PROVE Lines /\ Account
    OBVIOUS
  <2>1. /\ Flushes \subseteq Uploaders /\ Items \subseteq Uploaders /\ Items \cap Flushes = {}
        /\ Queued \subseteq Items /\ outbox = Queued
    BY ClientAssumption DEF Init, Uploaders
  <2>2. ASSUME NEW f \in Flushes PROVE task[f] = Idle
    BY <2>1 DEF Init
  <2>3. \A i \in Queued : task[i].pc = "done"
    BY <2>1 DEF Init, Idle
  <2>4. Lines
    BY <2>1, <2>2, <2>3 DEF Lines, FlushLine, Owes, At, UploadPc, Idle
  <2>5. ASSUME NEW i \in Items PROVE Paid(i)
    <3>1. rows[i] = 0 /\ late[i] = 0 /\ lost[i] = 0
      BY DEF Init
    <3> QED
      BY <3>1 DEF Paid
  <2>6. Alone
    BY <2>2 DEF Alone, At, Idle
  <2> QED
    BY <2>4, <2>5, <2>6 DEF Account
<1>2. Account => DuplicatesExplained
  BY DEF Account, Paid, DuplicatesExplained
<1> QED
  BY <1>1, <1>2, LinesStep, AccountStep, ClientTypes, OutboxInvariant, PTL DEF Spec
=============================================================================
