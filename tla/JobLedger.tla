------------------------------ MODULE JobLedger ------------------------------
(***************************************************************************)
(* What the processing queue promises about each job row, whoever drains   *)
(* it and whatever is killed: a job is started only while it waits, a      *)
(* start costs one try, a throttled run gives that try back, an            *)
(* interrupted or failed one does not, and a job is given up only when its *)
(* tries are used up.  Only a run can finish or be refused.                *)
(***************************************************************************)
EXTENDS Naturals

CONSTANTS Jobs, MaxAttempts

VARIABLES phase, tries
vars == <<phase, tries>>

Phases == {"none", "waiting", "running", "done", "dropped", "gone"}

Init == phase = [j \in Jobs |-> "none"] /\ tries = [j \in Jobs |-> 0]

Move(j, to) == phase' = [phase EXCEPT ![j] = to]

Submit(j) == phase[j] = "none" /\ Move(j, "waiting") /\ UNCHANGED tries

Start(j) ==
  /\ phase[j] = "waiting" /\ Move(j, "running")
  /\ tries' = [tries EXCEPT ![j] = @ + 1]

GiveBack(j) ==
  /\ phase[j] = "running" /\ Move(j, "waiting")
  /\ tries[j] > 0 /\ tries' = [tries EXCEPT ![j] = @ - 1]

\* A failure or an interruption; a finished job may be reopened by a failure
\* of the bookkeeping that follows it.
Retry(j) == phase[j] \in {"running", "done"} /\ Move(j, "waiting") /\ UNCHANGED tries

Finish(j) == phase[j] = "running" /\ Move(j, "done") /\ UNCHANGED tries

Refuse(j) == phase[j] = "running" /\ Move(j, "dropped") /\ UNCHANGED tries

GiveUp(j) ==
  /\ phase[j] \in {"waiting", "running", "done"} /\ tries[j] >= MaxAttempts
  /\ Move(j, "dropped") /\ UNCHANGED tries

\* The jobs of a deleted recording disappear together.
Remove(S) ==
  /\ \A j \in S : phase[j] # "none"
  /\ phase' = [j \in Jobs |-> IF j \in S THEN "gone" ELSE phase[j]]
  /\ UNCHANGED tries

Next ==
  \/ \E j \in Jobs : \/ Submit(j) \/ Start(j) \/ GiveBack(j) \/ Retry(j)
                     \/ Finish(j) \/ Refuse(j) \/ GiveUp(j)
  \/ \E S \in SUBSET Jobs : Remove(S)

Spec == Init /\ [][Next]_vars
=============================================================================
