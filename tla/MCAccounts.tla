----------------------------- MODULE MCAccounts -----------------------------
(* Small instances of Accounts for TLC. *)
EXTENDS Accounts

\* The default window and one more within a day, one past midnight, one that
\* ends at midnight, one whose ends meet, a change of mode and two rejected
\* bodies.
Set(fields, mode, start, end) == [fields |-> fields, row |-> Row(mode, TRUE, start, end)]
Bodies == {Set({"enabled"}, "RAW", 0, 0), Set({"enabled", "start", "end"}, "RAW", 0, 3),
           Set({"enabled", "start", "end"}, "RAW", 4, 1), Set({"enabled", "end"}, "RAW", 0, 0),
           Set({"enabled", "start"}, "RAW", 5, 0),
           Set({"mode"}, "RAW", 0, 0), Set({"mode"}, "invalid", 0, 0),
           Set({"enabled", "start"}, "RAW", DayLength, 0)}
=============================================================================
