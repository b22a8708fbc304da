--------------------------- MODULE MCLiveSession ---------------------------
(* Small instances of LiveSession for TLC. *)
EXTENDS LiveSession

Clip == [length |-> 2, spoken |-> {0, 1}, large |-> FALSE, decodable |-> TRUE]
Silence == [length |-> 2, spoken |-> {}, large |-> FALSE, decodable |-> TRUE]
\* Two full chunks and one that is shorter; speech at both sides of a cut.
Meeting == [length |-> 5, spoken |-> {0, 1, 2, 4}, large |-> TRUE, decodable |-> TRUE]
Opaque == [Meeting EXCEPT !.decodable = FALSE]

Files == {Clip, Silence, Meeting, Opaque}
\* Retry-After below and above the cap.
HintValues == {1, 5}
=============================================================================
