------------------------------ MODULE MCClock ------------------------------
(* An instance of Clock small enough for TLC. *)
EXTENDS Clock, TLC

CONSTANTS t1, t2, t3, app, Years, YearDays

\* Three hours of the given days of some years
Boots == {24 * (DayOfYear(y) + d) + h : y \in Years, d \in YearDays, h \in {0, 1, 23}}

\* The last hour of 1999, and the first day of saving time of 1998
Ticks == {24 * DayOfYear(2000) - 1}
Sets  == Ticks \cup {24 * (DayOfYear(1998) + 87)}
Steps == {0, 1, -13}

WholeYear == 0..365

Symmetry == Permutations(Slots)
============================================================================
