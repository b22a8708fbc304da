--------------------------- MODULE MCClientOutbox ---------------------------
(* Small instances of ClientOutbox for TLC. *)
EXTENDS ClientOutbox

CONSTANTS i1, i2, f1, f2

OneItem == {i1}
OtherItem == {i2}
TwoItems == {i1, i2}
TwoFlushes == {f1, f2}

=============================================================================
