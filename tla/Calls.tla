------------------------------- MODULE Calls -------------------------------
(***************************************************************************)
(* Calls of a recording's owner that the web processes serve at a time.  A *)
(* handler reads, decides and writes in separate database calls, without a *)
(* transaction, so calls overlap with each other, with the queue's worker  *)
(* and with the deletion of the recording.  What a call has read travels   *)
(* in its record; what was answered stays there until the caller has it.   *)
(***************************************************************************)
EXTENDS Naturals, Sequences, FiniteSets

CONSTANTS
  Slots,      \* calls in progress at a time
  Worker,     \* the queue's drainer, which analyses recordings
  MaxCalls,   \* bound: calls received
  MaxCuts,    \* bound: calls cut by a kill or by a database call that raises
  none

ASSUME CallsAssumption == Worker \notin Slots /\ MaxCalls \in Nat /\ MaxCuts \in Nat

VARIABLES present,   \* the Recording row exists
          call, received, cuts
callVars == <<call, received, cuts>>

Actors == Slots \cup {Worker}
Codes == {"200", "404", "409", "500", "503"}
Fresh(op, pc, arg, seen) ==
  [op |-> op, pc |-> pc, arg |-> arg, seen |-> seen, left |-> {}, stale |-> FALSE]
Idle == Fresh("none", "idle", none, none)
At(s, op, pc) == call[s].op = op /\ call[s].pc = pc
Under(s) == call[s].op # "none" /\ call[s].pc \notin Codes

Put(s, c) == call' = [call EXCEPT ![s] = c] /\ UNCHANGED <<received, cuts>>
Reply(s, code) == Put(s, [call[s] EXCEPT !.pc = code])

\* A step after which what calls of op have counted so far is out of date.
PutStale(s, c, op, pc) ==
  /\ call' = [t \in Actors |-> IF t = s THEN c ELSE
               [call[t] EXCEPT !.stale = @ \/ At(t, op, pc)]]
  /\ UNCHANGED <<received, cuts>>

\* A call arrives and makes its first reads.
Open(s, c) ==
  /\ s \in Slots /\ call[s] = Idle /\ received < MaxCalls
  /\ received' = received + 1
  /\ call' = [call EXCEPT ![s] = c] /\ UNCHANGED cuts

\* The rest of the handler runs for a recording that is there.
Owned(op, pc, arg, seen) ==
  Fresh(op, IF present THEN pc ELSE "404", arg, seen)

\* A kill of its process, or a database call that raises, ends a call.
CutCall(s) ==
  /\ cuts < MaxCuts /\ Under(s)
  /\ cuts' = cuts + 1 /\ call' = [call EXCEPT ![s] = Idle] /\ UNCHANGED received

NoCalls == call = [s \in Actors |-> Idle] /\ received = 0 /\ cuts = 0
=============================================================================
