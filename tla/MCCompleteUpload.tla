-------------------------- MODULE MCCompleteUpload --------------------------
(* Small instances of CompleteUpload for TLC. *)
EXTENDS CompleteUpload

CONSTANTS k1, k2, c1, c2, c3, c4

OneKey == {k1}
TwoKeys == {k1, k2}
FourCalls == {c1, c2, c3, c4}

=============================================================================
