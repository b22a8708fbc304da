-------------------------- MODULE MCTranscriptStore --------------------------
(* Small instances of TranscriptStore for TLC. *)
EXTENDS TranscriptStore

CONSTANTS w1, n1, u1

OneDrainer == {w1}
OneNow == {n1}
OneUser == {u1}

=============================================================================
