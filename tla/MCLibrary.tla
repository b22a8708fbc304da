----------------------------- MODULE MCLibrary -----------------------------
(* A small instance of Library for TLC. *)
EXTENDS Library

CONSTANTS c1, c2, work, home

Callers == {c1, c2}
TwoTags == <<work, home>>
\* Both tags, one that is created later, and one asked for twice.
Lists == {<<1, 2>>, <<3>>, <<2, 2>>}
=============================================================================
