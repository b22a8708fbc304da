-------------------------- MODULE ProcessingWindow --------------------------
(***************************************************************************)
(* The settings row of services/app_settings.py and the two questions the  *)
(* worker asks of it: may heavy work run now, and how are transcripts      *)
(* produced.  The time of day is a position on a circle, in the time zone  *)
(* the row names; a value that is not HH:MM is a number off the circle.    *)
(***************************************************************************)
EXTENDS Naturals

CONSTANT DayLength   \* the positions of the clock in a day (24 * 60 in the code)

\* The columns' default window, from 2 to 5, lies within a day.
ASSUME DayAssumption == DayLength \in Nat /\ DayLength > 5

Modes == {"RAW", "REFINED", "REFINED_TRANSLATED"}   \* VALID_TRANSCRIPTION_MODES
DEFAULT_TRANSCRIPTION_MODE == "REFINED_TRANSLATED"

Times == 0..(DayLength - 1)
IsValidTime(t) == t < DayLength       \* is_valid_hhmm

Row(mode, enabled, start, end) ==
  [exists |-> TRUE, mode |-> mode, enabled |-> enabled, start |-> start, end |-> end]
\* The columns' defaults: REFINED, no window, 02:00 to 05:00.
DefaultRow == Row("REFINED", FALSE, 2, 5)
NoRow == [DefaultRow EXCEPT !.exists = FALSE]

TranscriptionMode(row) == IF row.exists THEN row.mode ELSE DEFAULT_TRANSCRIPTION_MODE

WithinWindow_NoWrap(row, now) ==    \* mutant: a window past midnight is never open
  \/ ~row.exists \/ ~row.enabled \/ row.start = row.end
  \/ row.start <= now /\ now < row.end
WithinWindow_EndIncluded(row, now) ==   \* mutant: the window closes one position late
  \/ ~row.exists \/ ~row.enabled \/ row.start = row.end
  \/ row.start < row.end /\ row.start <= now /\ now <= row.end
  \/ row.start > row.end /\ (now >= row.start \/ now <= row.end)
\* Only valid times are ever stored, so parse_hhmm has nothing to wrap or replace.
WithinWindow(row, now) ==
  \/ ~row.exists \/ ~row.enabled
  \/ row.start = row.end
  \/ row.start < row.end /\ row.start <= now /\ now < row.end
  \/ row.start > row.end /\ (now >= row.start \/ now < row.end)

\* How long after a the next b comes.
Since(a, b) == IF a <= b THEN b - a ELSE b + DayLength - a
=============================================================================
