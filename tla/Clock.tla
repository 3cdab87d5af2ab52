------------------------------- MODULE Clock -------------------------------
(***************************************************************************)
(* kernel/time as an application sees it: one that uses timers, or one     *)
(* that asks for the date.                                                 *)
(***************************************************************************)
EXTENDS Timers, Calendar

VARIABLE asks   \* which of the two

clockVars == <<tvars, calVars, asks>>

\* The timers do not see the date, which then stays where it is at boot.
ClockInit ==
    /\ TimersInit /\ CalInit
    /\ asks \in {"timers", "date"}
    /\ asks = "timers" => sys_time = 0

ClockNext ==
    /\ \/ asks = "timers" /\ TimersNext /\ UNCHANGED calVars
       \/ asks = "date" /\ CalNext /\ UNCHANGED tvars
    /\ UNCHANGED asks

ClockSpec == ClockInit /\ [][ClockNext]_clockVars
============================================================================
