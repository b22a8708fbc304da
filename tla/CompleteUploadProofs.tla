------------------------ MODULE CompleteUploadProofs ------------------------
(***************************************************************************)
(* Clients that retry POST /media/complete in turn get the contract of the *)
(* endpoint, wherever calls die; overlapping calls drop nothing as long as *)
(* none dies; a row whose creation was not confirmed is the exception to   *)
(* both.  For any number of keys and calls.                                *)
(***************************************************************************)
EXTENDS CompleteUpload, TLAPS

\* The tables and the calls keep their types.
LEMMA UploadTypeStep == ASSUME TypeOK, [Next]_vars PROVE TypeOK'
  <1>1. CASE UNCHANGED vars
    BY <1>1 DEF vars, TypeOK
  <1>2. ASSUME NEW c \in Calls, Receive(c) \/ Step(c) \/ Die(c) PROVE TypeOK'
    <2> USE DEF TypeOK, Goto, KeyOf, CallPc
    <2>1. \A pc \in CallPc : [call[c] EXCEPT !.pc = pc] \in [pc : CallPc, key : Keys]
      OBVIOUS
    <2>2. CASE Receive(c)
      BY <2>1, <2>2 DEF Receive
    <2>3. CASE Find(c)
      BY <2>1, <2>3 DEF Find
    <2>4. CASE Create(c)
      <3>1. call[c].key \in Keys
        OBVIOUS
      <3> QED
        BY <2>1, <2>4, <3>1 DEF Create, CreatesRow
    <2>5. CASE Racer(c)
      BY <2>1, <2>5 DEF Racer
    <2>6. CASE Enqueue(c)
      BY <2>1, <2>6 DEF Enqueue
    <2>7. CASE Mark(c)
      BY <2>1, <2>7 DEF Mark
    <2>8. CASE Reload(c)
      BY <2>1, <2>8 DEF Reload
    <2>9. CASE Die(c)
      BY <2>1, <2>9 DEF Die, Busy
    <2> QED
      BY <1>2, <2>2, <2>3, <2>4, <2>5, <2>6, <2>7, <2>8, <2>9 DEF Step
  <1> QED
    BY <1>1, <1>2 DEF Next

\* A step of one call leaves the others where they are.
LEMMA Moved ==
  ASSUME TypeOK, NEW c \in Calls, NEW pc \in CallPc, Goto(c, pc)
  PROVE  /\ call'[c].pc = pc /\ call'[c].key = call[c].key
         /\ \A d \in Calls : d # c => call'[d] = call[d]
         /\ \A d \in Calls : call'[d].key = call[d].key
  BY DEF TypeOK, Goto

\* With nothing received, every key is absent and unenqueued.
LEMMA SequentialInit == Init => TypeOK /\ SequentialInv
  BY DEF Init, TypeOK, SequentialInv, CallInv, CallPc, Busy, KeyOf, InTurn

\* What a call found for its key stays true until it acts on it, because no
\* other call for the key is in progress.
LEMMA SequentialStep ==
  ASSUME TypeOK, SequentialInv, [Next]_vars
  PROVE  SequentialInv'
  <1> USE DEF KeyOf, At
  <1>0. InTurn \subseteq Keys
    BY DEF InTurn
  <1>1. CASE UNCHANGED vars
    BY <1>1 DEF vars, SequentialInv, CallInv
  <1>2. ASSUME NEW c \in Calls, Receive(c) PROVE SequentialInv'
    <2>1. Goto(c, "find") /\ UNCHANGED <<row, jobs, unconfirmed>>
      BY <1>2 DEF Receive
    <2>2. /\ call'[c].pc = "find" /\ call'[c].key = call[c].key
          /\ \A d \in Calls : d # c => call'[d] = call[d]
          /\ \A d \in Calls : call'[d].key = call[d].key
      BY <2>1, Moved DEF CallPc
    <2>3. call[c].key \in InTurn =>
            \A d \in Calls : call[d].pc \in Busy => call[d].key # call[c].key
      BY <1>2 DEF Receive, BusyOn, InTurn
    <2> QED
      BY <2>1, <2>2, <2>3 DEF SequentialInv, CallInv, Busy
  <1>3. ASSUME NEW c \in Calls, Step(c) \/ Die(c), call[c].key \notin InTurn
        PROVE  SequentialInv'
    <2>1. call[c].key \in Keys /\ call[c].pc \in Busy
      BY <1>3 DEF Step, Find, Create, CreatesRow, Racer, Enqueue, Mark, Reload, Die, Busy, TypeOK
    <2>2. PICK pc \in CallPc : Goto(c, pc)
      BY <1>3 DEF Step, Find, Create, CreatesRow, Racer, Enqueue, Mark, Reload, Die, CallPc
    <2>3. /\ \A d \in Calls : d # c => call'[d] = call[d]
          /\ \A d \in Calls : call'[d].key = call[d].key
      BY <2>2, Moved
    <2>4. \A k \in Keys : k # call[c].key =>
            row'[k] = row[k] /\ jobs'[k] = jobs[k] /\ (k \in unconfirmed' <=> k \in unconfirmed)
      BY <1>3 DEF Step, Find, Create, CreatesRow, Racer, Enqueue, Mark, Reload, Die, TypeOK
    <2>5. \A d \in Calls : call[d].key \in InTurn => CallInv(d)'
      BY <1>0, <1>3, <2>3, <2>4 DEF SequentialInv, CallInv
    <2> QED
      BY <1>0, <1>3, <2>3, <2>4, <2>5 DEF SequentialInv
  <1>4. ASSUME NEW c \in Calls, Step(c) \/ Die(c), call[c].key \in InTurn
        PROVE  SequentialInv'
    <2>0. /\ c \in Calls /\ call[c].pc \in Busy /\ CallInv(c) /\ call[c].key \in Keys
          /\ jobs[call[c].key] \in {0, 1}
          /\ row[call[c].key] = "absent" => jobs[call[c].key] = 0
      BY <1>4 DEF Step, Find, Create, CreatesRow, Racer, Enqueue, Mark, Reload, Die, Busy, SequentialInv, TypeOK
    <2> DEFINE Fits(pc) ==
          /\ pc = "create" => row[call[c].key] = "absent"
          /\ pc = "racer" => row[call[c].key] = "absent" \/ call[c].key \in unconfirmed
          /\ pc = "yielded" => call[c].key \in unconfirmed
          /\ pc = "enqueue" => row[call[c].key] # "absent" /\ jobs[call[c].key] = 0
          /\ pc \in {"mark", "reload", "answered"} => jobs[call[c].key] = 1
    <2>1. \A d \in Calls : d # c /\ call[d].pc \in Busy => call[d].key # call[c].key
      BY <1>4, <2>0 DEF SequentialInv
    <2>2. CASE \E pc \in CallPc :
                 /\ Goto(c, pc) /\ UNCHANGED <<row, jobs, unconfirmed>>
                 /\ Fits(pc)
      <3>1. PICK pc \in CallPc : Goto(c, pc) /\ UNCHANGED <<row, jobs, unconfirmed>> /\ Fits(pc)
        BY <2>2
      <3>2. /\ call'[c].pc = pc
            /\ \A d \in Calls : d # c => call'[d] = call[d]
            /\ \A d \in Calls : call'[d].key = call[d].key
        BY <3>1, Moved
      <3>3. \A d \in Calls : call[d].key \in InTurn => CallInv(d)'
        BY <1>0, <3>1, <3>2 DEF SequentialInv, CallInv
      <3> QED
        BY <1>0, <1>4, <2>0, <2>1, <3>1, <3>2, <3>3 DEF SequentialInv
    <2>3. CASE Find(c)
      <3>1. jobs[call[c].key] = 0 \/ jobs[call[c].key] = 1
        BY <2>0
      <3> QED
        BY <2>0, <2>2, <2>3, <3>1 DEF Find, CallPc, WithoutJob
    <2>4. CASE Create(c)
      <3>0. row[call[c].key] = "absent" /\ jobs[call[c].key] = 0 /\ jobs' = jobs
        BY <2>0, <2>4 DEF Create, CallInv
      <3>1. CASE Goto(c, "racer") /\ UNCHANGED <<row, unconfirmed>>
        BY <2>2, <3>0, <3>1 DEF CallPc
      <3>2. ASSUME NEW pc \in {"enqueue", "racer"}, Goto(c, pc), CreatesRow(c),
                   unconfirmed \subseteq unconfirmed',
                   unconfirmed' \subseteq unconfirmed \cup {call[c].key},
                   pc = "racer" => call[c].key \in unconfirmed'
            PROVE  SequentialInv'
        <4>1. /\ call'[c].pc = pc
              /\ \A d \in Calls : d # c => call'[d] = call[d]
              /\ \A d \in Calls : call'[d].key = call[d].key
          BY <3>2, Moved DEF CallPc
        <4>2. /\ row'[call[c].key] = "UPLOADED"
              /\ \A k \in Keys : k # call[c].key => row'[k] = row[k]
          BY <2>0, <3>2 DEF TypeOK, CreatesRow
        <4>3. \A d \in Calls : call[d].key \in InTurn => CallInv(d)'
          BY <1>0, <1>4, <2>0, <2>1, <3>0, <3>2, <4>1, <4>2 DEF SequentialInv, CallInv, Busy, TypeOK
        <4> QED
          BY <1>0, <1>4, <2>0, <2>1, <3>0, <3>2, <4>1, <4>2, <4>3 DEF SequentialInv
      <3> QED
        BY <2>4, <3>1, <3>2 DEF Create
    <2>5. CASE Enqueue(c)
      <3>1. /\ row[call[c].key] # "absent" /\ jobs[call[c].key] = 0
            /\ jobs' = [jobs EXCEPT ![call[c].key] = @ + 1]
            /\ Goto(c, "mark") /\ row' = row /\ unconfirmed' = unconfirmed
        BY <2>0, <2>5 DEF Enqueue, CallInv
      <3>2. /\ call'[c].pc = "mark"
            /\ \A d \in Calls : d # c => call'[d] = call[d]
            /\ \A d \in Calls : call'[d].key = call[d].key
        BY <3>1, Moved DEF CallPc
      <3>3. /\ jobs'[call[c].key] = 1
            /\ \A k \in Keys : k # call[c].key => jobs'[k] = jobs[k]
        BY <2>0, <3>1 DEF TypeOK
      <3>4. \A d \in Calls : call[d].key \in InTurn => CallInv(d)'
        BY <1>0, <1>4, <2>0, <2>1, <3>1, <3>2, <3>3 DEF SequentialInv, CallInv, Busy, TypeOK
      <3> QED
        BY <1>0, <1>4, <2>0, <2>1, <3>1, <3>2, <3>3, <3>4 DEF SequentialInv
    <2>6. CASE Mark(c)
      <3>1. /\ jobs[call[c].key] = 1
            /\ row' = [row EXCEPT ![call[c].key] = "PROCESSING"]
            /\ Goto(c, "reload") /\ jobs' = jobs /\ unconfirmed' = unconfirmed
        BY <2>0, <2>6 DEF Mark, CallInv
      <3>2. /\ call'[c].pc = "reload"
            /\ \A d \in Calls : d # c => call'[d] = call[d]
            /\ \A d \in Calls : call'[d].key = call[d].key
        BY <3>1, Moved DEF CallPc
      <3>3. /\ row'[call[c].key] = "PROCESSING"
            /\ \A k \in Keys : k # call[c].key => row'[k] = row[k]
        BY <2>0, <3>1 DEF TypeOK
      <3>4. \A d \in Calls : call[d].key \in InTurn => CallInv(d)'
        BY <1>0, <1>4, <2>0, <2>1, <3>1, <3>2, <3>3 DEF SequentialInv, CallInv, Busy, TypeOK
      <3> QED
        BY <1>0, <1>4, <2>0, <2>1, <3>1, <3>2, <3>3, <3>4 DEF SequentialInv
    <2>7. CASE Die(c)
      BY <2>2, <2>7 DEF Die, CallPc
    <2>8. CASE Racer(c)
      BY <2>0, <2>2, <2>8 DEF Racer, CallPc, CallInv
    <2>9. CASE Reload(c)
      BY <2>0, <2>2, <2>9 DEF Reload, CallPc, CallInv
    <2> QED
      BY <1>4, <2>3, <2>4, <2>5, <2>6, <2>7, <2>8, <2>9 DEF Step
  <1> QED
    BY <1>1, <1>2, <1>3, <1>4 DEF Next

-----------------------------------------------------------------------------
(* The job a row is owed                                                   *)

\* With nothing received, there is no row to owe a job to.
LEMMA OwedInit == Init => OwedInv
  BY DEF Init, OwedInv, Died

\* The call that creates a row, or finds one without a job, owes it the job
\* and pays it with its next step, unless it dies.
LEMMA OwedStep ==
  ASSUME TypeOK, OwedInv, [Next]_vars
  PROVE  OwedInv'
  <1> USE DEF KeyOf, At
  <1>1. CASE UNCHANGED vars
    BY <1>1 DEF vars, OwedInv, Died
  <1>2. ASSUME NEW c \in Calls, Receive(c) \/ Step(c) \/ Die(c) PROVE OwedInv'
    <2> DEFINE key == call[c].key
    <2>1. PICK pc \in CallPc : Goto(c, pc)
      BY <1>2 DEF Receive, Step, Find, Create, CreatesRow, Racer, Enqueue, Mark, Reload, Die, CallPc
    <2>2. /\ call'[c].pc = pc
          /\ \A d \in Calls : d # c => call'[d] = call[d]
          /\ \A d \in Calls : call'[d].key = call[d].key
      BY <2>1, Moved
    <2>3. key \in Keys
      BY DEF TypeOK
    <2>4. call[c].pc # "dead"
      BY <1>2 DEF Receive, Step, Find, Create, CreatesRow, Racer, Enqueue, Mark, Reload, Die, Busy
    <2>5. \A k \in Keys : Died(k) => Died(k)'
      BY <2>2, <2>4 DEF Died
    <2>6. \A k \in Keys : /\ k # key => row'[k] = row[k]
                          /\ row[k] # "absent" => row'[k] # "absent"
                          /\ jobs'[k] = 0 => jobs[k] = 0
                          /\ jobs[k] > 0 => jobs'[k] > 0
      BY <1>2, <2>3 DEF Receive, Step, Find, Create, CreatesRow, Racer, Enqueue, Mark, Reload,
         Die, TypeOK
    <2>7. pc \in {"enqueue", "mark", "reload", "answered", "yielded"} => row'[key] # "absent"
      <3>1. CASE Receive(c) \/ Die(c)
        BY <2>2, <3>1 DEF Receive, Die, Goto, TypeOK
      <3>2. CASE Find(c)
        BY <2>2, <2>3, <3>2 DEF Find, Goto, TypeOK
      <3>3. CASE Create(c)
        BY <2>2, <2>3, <3>3 DEF Create, CreatesRow, Goto, TypeOK
      <3>4. CASE Racer(c)
        BY <2>2, <2>3, <3>4 DEF Racer, Goto, TypeOK
      <3>5. CASE Enqueue(c) \/ Mark(c) \/ Reload(c)
        <4>1. row[key] # "absent"
          BY <3>5 DEF Enqueue, Mark, Reload, OwedInv
        <4> QED
          BY <2>3, <2>6, <4>1
      <3> QED
        BY <1>2, <3>1, <3>2, <3>3, <3>4, <3>5 DEF Step
    <2>8. pc \in {"mark", "reload", "answered"} => jobs'[key] > 0
      <3>1. CASE Receive(c) \/ Die(c) \/ Create(c) \/ Racer(c)
        BY <2>2, <3>1 DEF Receive, Die, Create, Racer, Goto, TypeOK
      <3>2. CASE Find(c)
        BY <2>2, <2>3, <3>2 DEF Find, WithoutJob, Goto, TypeOK
      <3>3. CASE Enqueue(c)
        BY <2>3, <3>3 DEF Enqueue, TypeOK
      <3>4. CASE Mark(c) \/ Reload(c)
        <4>1. jobs[key] > 0
          BY <3>4 DEF Mark, Reload, OwedInv
        <4> QED
          BY <2>3, <2>6, <4>1
      <3> QED
        BY <1>2, <3>1, <3>2, <3>3, <3>4 DEF Step
    <2>9. \A d \in Calls :
            /\ call'[d].pc \in {"enqueue", "mark", "reload", "answered", "yielded"}
                 => row'[call'[d].key] # "absent"
            /\ call'[d].pc \in {"mark", "reload", "answered"} => jobs'[call'[d].key] > 0
      BY <2>2, <2>6, <2>7, <2>8 DEF OwedInv, TypeOK
    <2>10. ASSUME NEW k \in Keys \ unconfirmed', row'[k] # "absent", jobs'[k] = 0, ~Died(k)'
           PROVE  \E d \in Calls : call'[d].pc = "enqueue" /\ call'[d].key = k
      <3>1. jobs[k] = 0 /\ ~Died(k)
        BY <2>5, <2>6, <2>10
      <3>0. k \notin unconfirmed
        BY <1>2, <2>10 DEF Receive, Step, Find, Create, Racer, Enqueue, Mark, Reload, Die
      <3>2. CASE row[k] = "absent"
        <4>1. k = key /\ Create(c)
          <5>1. k = key
            BY <2>6, <2>10, <3>2
          <5>2. ~Mark(c)
            BY <3>2, <5>1 DEF Mark, OwedInv
          <5> QED
            BY <1>2, <2>10, <3>2, <5>1, <5>2 DEF Receive, Step, Find, Racer, Enqueue, Reload, Die
        <4>2. Goto(c, "enqueue")
          BY <2>10, <3>2, <4>1 DEF Create
        <4>3. call'[c].pc = "enqueue"
          BY <4>2, Moved DEF CallPc
        <4> QED
          BY <2>2, <4>1, <4>3
      <3>3. CASE row[k] # "absent"
        <4>1. PICK d \in Calls : call[d].pc = "enqueue" /\ call[d].key = k
          BY <2>10, <3>0, <3>1, <3>3 DEF OwedInv
        <4>2. CASE d # c
          BY <2>2, <4>1, <4>2
        <4>3. CASE d = c
          <5>1. Enqueue(c) \/ Die(c)
            BY <1>2, <4>1, <4>3 DEF Receive, Step, Find, Create, Racer, Enqueue, Mark, Reload, Die
          <5>2. ~Enqueue(c)
            BY <2>10, <3>1, <4>1, <4>3 DEF Enqueue, TypeOK
          <5>3. pc = "dead"
            BY <2>2, <5>1, <5>2 DEF Die, Goto, TypeOK
          <5> QED
            BY <2>2, <2>10, <4>1, <4>3, <5>3 DEF Died
        <4> QED
          BY <4>2, <4>3
      <3> QED
        BY <3>2, <3>3
    <2> QED
      BY <2>9, <2>10 DEF OwedInv
  <1> QED
    BY <1>1, <1>2 DEF Next

-----------------------------------------------------------------------------
(* The contract                                                            *)

\* A call at its end; moving one there adds its key to the accepted ones, and
\* moving one elsewhere changes nothing of them.
Success == {"answered", "yielded"}

LEMMA AcceptedBy ==
  ASSUME TypeOK, NEW c \in Calls, call[c].pc \notin Success, NEW pc \in CallPc, Goto(c, pc)
  PROVE  /\ pc \notin Success => \A k \in Keys : Accepted(k)' = Accepted(k)
         /\ pc \in Success /\ KeyOf(c) \in InTurn =>
              {k \in InTurn : Accepted(k)'} = {k \in InTurn : Accepted(k)} \cup {KeyOf(c)}
         /\ \A k \in Keys : k # KeyOf(c) => Accepted(k)' = Accepted(k)
  <1> USE DEF Success
  <1>1. /\ call'[c].pc = pc /\ call'[c].key = call[c].key
        /\ \A d \in Calls : d # c => call'[d] = call[d]
    BY Moved
  <1>2. call[c].key \in Keys
    BY DEF TypeOK
  <1>0. \A k \in Keys : k # KeyOf(c) => Accepted(k)' = Accepted(k)
    BY <1>1 DEF Accepted, KeyOf
  <1>3. CASE pc \notin Success
    <2>1. \A k \in Keys : Accepted(k)' = Accepted(k)
      BY <1>1, <1>3 DEF Accepted, KeyOf
    <2> QED
      BY <1>0, <1>3, <2>1
  <1>4. CASE pc \in Success
    <2>1. \A k \in Keys : Accepted(k)' <=> Accepted(k) \/ k = call[c].key
      BY <1>1, <1>4 DEF Accepted, KeyOf
    <2>2. call[c].key \in InTurn =>
            {k \in InTurn : Accepted(k)'} = {k \in InTurn : Accepted(k)} \cup {call[c].key}
      BY <1>2, <2>1 DEF InTurn
    <2> QED
      BY <1>0, <1>4, <2>2 DEF KeyOf
  <1> QED
    BY <1>3, <1>4

\* Every step of the endpoint is a step of its contract, or changes nothing
\* the contract speaks of.
LEMMA ContractStep ==
  ASSUME TypeOK, SequentialInv, OwedInv, [Next]_vars
  PROVE  [Contract!Next]_Contract!vars
  <1> DEFINE registered == {k \in InTurn : row[k] # "absent"}
             unconfirmedInTurn == unconfirmed \cap InTurn
             accepted == {k \in InTurn : Accepted(k)}
             enqueued == [k \in InTurn |-> jobs[k]]
  <1> USE DEF At, KeyOf, Success
  <1>0. InTurn \subseteq Keys
    BY DEF InTurn
  <1>1. CASE UNCHANGED vars
    BY <1>1 DEF vars, Contract!vars, Accepted
  <1>2. ASSUME NEW c \in Calls, NEW pc \in CallPc \ Success, Goto(c, pc),
               call[c].pc \notin Success, UNCHANGED <<row, jobs, unconfirmed>>
        PROVE  UNCHANGED Contract!vars
    <2>1. \A k \in Keys : Accepted(k)' = Accepted(k)
      BY <1>2, AcceptedBy
    <2> QED
      BY <1>0, <1>2, <2>1 DEF Contract!vars
  <1>3. ASSUME NEW c \in Calls, Step(c) \/ Receive(c) \/ Die(c), call[c].key \notin InTurn
        PROVE  UNCHANGED Contract!vars
    <2>1. call[c].key \in Keys /\ call[c].pc \notin Success
      BY <1>3 DEF Step, Find, Create, Racer, Enqueue, Mark, Reload, Receive, Die, Busy, TypeOK
    <2>2. PICK pc \in CallPc : Goto(c, pc)
      BY <1>3 DEF Step, Find, Create, Racer, Enqueue, Mark, Reload, Receive, Die, CallPc
    <2>3. \A k \in InTurn : Accepted(k)' = Accepted(k)
      BY <1>0, <1>3, <2>1, <2>2, AcceptedBy
    <2>4. \A k \in InTurn : /\ row'[k] = row[k] /\ jobs'[k] = jobs[k]
                            /\ k \in unconfirmed' <=> k \in unconfirmed
      BY <1>0, <1>3, <2>1 DEF Step, Find, Create, CreatesRow, Racer, Enqueue, Mark, Reload,
         Receive, Die, TypeOK
    <2>5. enqueued' = enqueued /\ unconfirmedInTurn' = unconfirmedInTurn
      BY <2>4
    <2> QED
      BY <2>3, <2>4, <2>5 DEF Contract!vars
  <1>4. ASSUME NEW c \in Calls, Step(c) \/ Receive(c) \/ Die(c), call[c].key \in InTurn
        PROVE  [Contract!Next]_Contract!vars
    <2>0. /\ call[c].key \in Keys /\ call[c].pc \notin Success /\ CallInv(c)
          /\ jobs[call[c].key] \in {0, 1}
          /\ row[call[c].key] = "absent" => jobs[call[c].key] = 0
      BY <1>4, <1>0 DEF Step, Find, Create, Racer, Enqueue, Mark, Reload, Receive, Die, Busy,
         SequentialInv, TypeOK
    <2>1. ASSUME NEW pc \in Success, Goto(c, pc), UNCHANGED <<row, jobs, unconfirmed>>,
                 row[call[c].key] # "absent",
                 jobs[call[c].key] = 1 \/ call[c].key \in unconfirmed
          PROVE  Contract!Next
      <3>1. accepted' = accepted \cup {call[c].key}
        BY <1>0, <1>4, <2>0, <2>1, AcceptedBy DEF CallPc
      <3>2. Contract!Accept(call[c].key)
        BY <1>4, <2>1, <3>1 DEF Contract!Accept
      <3> QED
        BY <1>4, <3>2 DEF Contract!Next
    <2>2. CASE Receive(c) \/ Die(c)
      BY <1>2, <2>0, <2>2 DEF Receive, Die, CallPc
    <2>3. CASE Find(c)
      <3>1. CASE row[call[c].key] # "absent" /\ jobs[call[c].key] = 1
        BY <2>1, <2>3, <3>1 DEF Find, WithoutJob
      <3>2. CASE ~(row[call[c].key] # "absent" /\ jobs[call[c].key] = 1)
        <4>1. \E pc \in {"create", "enqueue"} : Goto(c, pc)
          BY <2>0, <2>3, <3>2 DEF Find, WithoutJob
        <4> QED
          BY <1>2, <2>0, <2>3, <4>1 DEF Find, CallPc
      <3> QED
        BY <3>1, <3>2
    <2>4. CASE Create(c)
      <3>1. CASE Goto(c, "racer") /\ UNCHANGED <<row, unconfirmed>>
        BY <1>2, <2>0, <2>4, <3>1 DEF Create, CallPc
      <3>2. ASSUME NEW pc \in {"enqueue", "racer"}, Goto(c, pc), CreatesRow(c),
                   unconfirmed' \in {unconfirmed, unconfirmed \cup {call[c].key}}
            PROVE  Contract!Next
        <4>1. \A k \in InTurn : Accepted(k)' = Accepted(k)
          BY <1>0, <2>0, <3>2, AcceptedBy DEF CallPc
        <4>2. registered' = registered \cup {call[c].key} /\ call[c].key \notin registered
          BY <1>0, <1>4, <2>0, <3>2 DEF TypeOK, CreatesRow
        <4>3. unconfirmedInTurn' \in {unconfirmedInTurn, unconfirmedInTurn \cup {call[c].key}}
          BY <1>4, <3>2
        <4>4. \E k \in InTurn : Contract!Register(k)
          BY <1>4, <2>4, <4>1, <4>2, <4>3 DEF Contract!Register, Create
        <4> QED
          BY <4>4 DEF Contract!Next
      <3> QED
        BY <2>4, <3>1, <3>2 DEF Create
    <2>5. CASE Racer(c)
      <3>1. CASE row[call[c].key] = "absent"
        BY <1>2, <2>0, <2>5, <3>1 DEF Racer, CallPc
      <3>2. CASE row[call[c].key] # "absent"
        BY <2>0, <2>1, <2>5, <3>2 DEF Racer, CallInv
      <3> QED
        BY <3>1, <3>2
    <2>6. CASE Enqueue(c)
      <3>1. /\ row[call[c].key] # "absent" /\ jobs[call[c].key] = 0 /\ UNCHANGED <<row, unconfirmed>>
            /\ jobs' = [jobs EXCEPT ![call[c].key] = @ + 1] /\ Goto(c, "mark")
        BY <2>0, <2>6 DEF Enqueue, CallInv
      <3>2. \A k \in InTurn : Accepted(k)' = Accepted(k)
        BY <1>0, <1>4, <2>0, <3>1, AcceptedBy DEF CallPc
      <3>3. enqueued' = [enqueued EXCEPT ![call[c].key] = 1] /\ enqueued[call[c].key] = 0
        BY <1>0, <1>4, <3>1 DEF TypeOK
      <3>4. \E k \in InTurn : Contract!Enqueue(k)
        BY <1>4, <2>0, <3>1, <3>2, <3>3 DEF Contract!Enqueue
      <3> QED
        BY <3>4 DEF Contract!Next
    <2>7. CASE Mark(c)
      <3>1. /\ row' = [row EXCEPT ![call[c].key] = "PROCESSING"] /\ UNCHANGED <<jobs, unconfirmed>>
            /\ Goto(c, "reload") /\ row[call[c].key] # "absent"
        BY <2>7 DEF Mark, OwedInv
      <3>2. \A k \in InTurn : Accepted(k)' = Accepted(k)
        BY <1>0, <1>4, <2>0, <3>1, AcceptedBy DEF CallPc
      <3>3. registered' = registered
        BY <1>0, <1>4, <2>0, <3>1 DEF TypeOK
      <3> QED
        BY <3>1, <3>2, <3>3 DEF Contract!vars
    <2>8. CASE Reload(c)
      <3>1. jobs[call[c].key] = 1 /\ row[call[c].key] # "absent"
        BY <2>0, <2>8 DEF Reload, CallInv, OwedInv
      <3> QED
        BY <2>1, <2>8, <3>1 DEF Reload
    <2> QED
      BY <1>4, <2>2, <2>3, <2>4, <2>5, <2>6, <2>7, <2>8 DEF Step
  <1> QED
    BY <1>1, <1>3, <1>4 DEF Next

\* The calls of a key that follow one another find what the earlier ones left,
\* row and job, wherever those died or were not confirmed.
THEOREM SequentialCalls == Spec => [](TypeOK /\ SequentialInv)
  <1>1. TypeOK /\ [Next]_vars => TypeOK'
    BY UploadTypeStep
  <1>2. TypeOK /\ SequentialInv /\ [Next]_vars => SequentialInv'
    BY SequentialStep
  <1> QED
    BY <1>1, <1>2, SequentialInit, PTL DEF Spec

\* A row without a job is owed one by a call about to enqueue it, or a call
\* for its key has died, or the call that created it was not told so.
THEOREM OwedJobs == Spec => []OwedInv
  <1>1. TypeOK /\ OwedInv /\ [Next]_vars => OwedInv'
    BY OwedStep
  <1> QED
    BY <1>1, OwedInit, SequentialCalls, PTL DEF Spec

\* A call that did its own work to the end has its job; no other transcription
\* a client was promised is dropped, wherever calls die if the client retries
\* in turn, and however calls overlap if none dies, unless its row was created
\* by a call that was not told so.
THEOREM NothingDropped == Spec => []NeverDropped
  <1>1. TypeOK /\ SequentialInv /\ OwedInv => NeverDropped
    <2> SUFFICES ASSUME TypeOK, SequentialInv, OwedInv PROVE NeverDropped
      OBVIOUS
    <2>0. \A c \in Calls : At(c, "answered") => jobs[KeyOf(c)] > 0
      BY DEF OwedInv, At
    <2>1. ASSUME NEW k \in Keys \ unconfirmed, k \in InTurn \/ ~Died(k), Accepted(k), BusyOn(k) = {}
          PROVE  jobs[k] > 0
      <3>1. PICK c \in Calls : call[c].pc \in {"answered", "yielded"} /\ KeyOf(c) = k
        BY <2>1 DEF Accepted
      <3>2. CASE k \in InTurn
        BY <2>1, <3>1, <3>2 DEF SequentialInv, CallInv
      <3>3. CASE ~Died(k)
        <4>1. row[k] # "absent"
          BY <3>1 DEF OwedInv
        <4>2. jobs[k] # 0
          BY <2>1, <3>3, <4>1 DEF OwedInv, BusyOn, At, Busy
        <4> QED
          BY <2>1, <4>2 DEF TypeOK
      <3> QED
        BY <2>1, <3>2, <3>3
    <2> QED
      BY <2>0, <2>1 DEF NeverDropped, Enqueued
  <1> QED
    BY <1>1, SequentialCalls, OwedJobs, PTL

\* The endpoint implements its contract for clients that retry in turn: one
\* row, one job, then the answer, but for a registration that was not
\* confirmed.
THEOREM UploadOnce == Spec => ContractKept
  <1>1. Init => Contract!Init
    BY DEF Init, Contract!Init, Accepted, InTurn
  <1>2. TypeOK /\ SequentialInv /\ OwedInv /\ [Next]_vars => [Contract!Next]_Contract!vars
    BY ContractStep
  <1> QED
    BY <1>1, <1>2, SequentialCalls, OwedJobs, PTL DEF Spec, ContractKept, Contract!Spec
=============================================================================
