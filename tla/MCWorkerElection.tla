-------------------------- MODULE MCWorkerElection --------------------------
(* Small instances of WorkerElection for TLC. *)
EXTENDS WorkerElection

CONSTANTS p1, p2, s1

TwoWeb == {p1, p2}
OneService == {s1}
ShippedEnvFile == {"true"}   \* .env.example
AnyEnvFile == {"unset", "true", "false"}

=============================================================================
