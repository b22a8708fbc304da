---------------------------- MODULE MCMediaQueue ----------------------------
(* Small instances of MediaQueue for TLC. *)
EXTENDS MediaQueue

CONSTANTS w1, r1, r2

OneWorker == {w1}
OneRecording == {r1}
TwoRecordings == {r1, r2}
None == {}
NoHint == {0}
Hints == {0, 2}
Both == {TRANSCRIPTION, ANALYSIS}
ChatOnly == {ANALYSIS}
WhisperOnly == {TRANSCRIPTION}

=============================================================================
