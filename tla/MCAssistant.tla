---------------------------- MODULE MCAssistant ----------------------------
(* A small instance of Assistant for TLC. *)
EXTENDS Assistant, TLC

CONSTANTS c1, c2

Callers == {c1, c2}
Alike == Permutations(Callers)
=============================================================================
