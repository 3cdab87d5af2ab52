------------------------------ MODULE Calendar ------------------------------
(***************************************************************************)
(* The system time of kernel/time/time.c and the calendar of lib/crt:      *)
(* gmtime.c, localtime.c, mktime.c and the daylight saving rules.          *)
(*                                                                         *)
(* The conversions are operators.  What makes them more than functions is  *)
(* the pair of static transition dates time_isindst computes once a year:  *)
(* a caller of localtime_r tests them, writes them and reads them in       *)
(* separate actions.  HourSec is the number of time_t units in an hour,    *)
(* 3600 in the code; minutes and seconds are the rest of an hour.          *)
(***************************************************************************)
EXTENDS Integers, Sequences

CONSTANTS
    Callers,     \* threads that call localtime_r and mktime
    BootTimes,   \* what the clock was set to before the first call
    SetTimes,    \* what stime may set it to afterwards
    TickTimes,   \* the times at which the clock runs, to bound it
    MonthSteps,  \* what a caller adds to tm_mon before it calls mktime
    HourSec,     \* units of time_t in an hour
    MILIS,       \* interrupts in a unit of time_t: 1000 in time_inc
    CalPreempt   \* CONFIG_PREEMPT

ASSUME HourAssumption == HourSec \in Nat \ {0} /\ MILIS \in Nat \ {0}

VARIABLES
    sys_time,    \* the seconds since 1970
    milis,       \* static counter of time_inc
    dststart, dstend,   \* the cached transition dates
    call         \* what each caller is doing

calVars == <<sys_time, milis, dststart, dstend, call>>

\* localtime.c: _timezone, and CONFIG_DST_BIAS which is also _dstbias
Timezone == -HourSec
DstBias  == -HourSec
DaySec   == 24 * HourSec
YearSec  == 365 * DaySec
FourYearSec == 1461 * DaySec

\* The day of the year of the last day of the month before, counted from 0
Days   == <<-1, 30, 58, 89, 119, 150, 180, 211, 242, 272, 303, 333, 364>>
LpDays == <<-1, 30, 59, 90, 120, 151, 181, 212, 243, 273, 304, 334, 365>>

\* C: an int of 16 bits, and the sign of % follows the dividend
Int16(x) == ((x + 32768) % 65536) - 32768
CMod(x, m) == IF x >= 0 THEN x % m ELSE -((-x) % m)
CDiv(x, m) == IF x >= 0 THEN x \div m ELSE -((-x) \div m)

is_leap_year(year) ==
    LET y == year + 1900 IN (y % 4 = 0 /\ y % 100 # 0) \/ y % 400 = 0

DaysTable(year) == IF is_leap_year(year) THEN LpDays ELSE Days

----------------------------------------------------------------------------
(* gmtime.c, mktime.c *)

\* Where the years of a four-year interval begin; the third is the leap year.
YearStart == <<0, YearSec, 2 * YearSec, 3 * YearSec + DaySec>>

MonthTable(k) == IF k = 3 THEN LpDays ELSE Days

\* gmtime_r
Gmtime(t) ==
    LET c == t % FourYearSec
        k == CHOOSE i \in 1..4 : YearStart[i] <= c /\ (i = 4 \/ c < YearStart[i + 1])
        mdays == MonthTable(k)
        yday  == (c - YearStart[k]) \div DaySec
        mon   == CHOOSE m \in 0..11 : mdays[m + 2] >= yday /\ (m = 0 \/ mdays[m + 1] < yday)
        inDay == (c - YearStart[k]) % DaySec
    IN  [year |-> 4 * (t \div FourYearSec) + 69 + k, yday |-> yday, mon |-> mon,
         mday |-> yday - mdays[mon + 1], wday |-> (t \div DaySec + 4) % 7,
         hour |-> inDay \div HourSec, rest |-> inDay % HourSec, isdst |-> FALSE]

\* The month and the year __mktime calculates with
NormalMon(tm)  == IF tm.mon \in 0..11 THEN tm.mon ELSE tm.mon % 12
NormalYear_Truncated(tm) == tm.year + CDiv(tm.mon, 12)

NormalYear(tm) ==
    IF tm.mon \in 0..11 THEN tm.year
    ELSE tm.year + CDiv(tm.mon, 12) - IF CMod(tm.mon, 12) < 0 THEN 1 ELSE 0

\* __mktime
Mktime(tm, tz) ==
    LET mon  == NormalMon(tm)
        year == NormalYear(tm)
        days == (year - 70) * 365 + (year - 1) \div 4 - 17 + Days[mon + 1]
                + IF is_leap_year(year) /\ mon > 1 THEN 1 ELSE 0
    IN  (days + tm.mday) * DaySec + tm.hour * HourSec + tm.rest
        + IF tz THEN Timezone + IF tm.isdst THEN DstBias ELSE 0 ELSE 0

----------------------------------------------------------------------------
(* time.c *)

\* cvtdate with datetype 1: the day of the year of the given weekday of the
\* month; week 5 is the last one.
TransitionDay(year, month, week, dayofweek) ==
    LET first == 1 + DaysTable(year)[month]
        dow   == CMod(Int16(first + Int16((year - 70) * 365) + (year - 1) \div 4) - 17 + 4, 7)
        day   == first + (dayofweek - dow) + 7 * IF dow <= dayofweek THEN week - 1 ELSE week
    IN  IF week = 5 /\ day > DaysTable(year)[month + 1] THEN day - 7 ELSE day

\* cvtdate, trantype 1: the last Sunday of March, 2 AM
DstStart(year) == [yr |-> year, yd |-> TransitionDay(year, 3, 5, 0), at |-> 2 * HourSec]

\* cvtdate, trantype 0: the last Sunday of October, 2 AM of the saving time,
\* which is converted to standard time
DstEnd(year) ==
    LET yd == TransitionDay(year, 10, 5, 0)
        at == 2 * HourSec + DstBias
    IN  IF at < 0 THEN [yr |-> year, yd |-> yd - 1, at |-> at + DaySec]
        ELSE IF at >= DaySec THEN [yr |-> year, yd |-> yd + 1, at |-> at - DaySec]
        ELSE [yr |-> year, yd |-> yd, at |-> at]

\* The comparisons of time_isindst
InDst(tm, from, to) ==
    LET at == tm.hour * HourSec + tm.rest IN
    IF from.yd < to.yd /\ (tm.yday < from.yd \/ tm.yday > to.yd) THEN FALSE
    ELSE IF from.yd < to.yd /\ tm.yday > from.yd /\ tm.yday < to.yd THEN TRUE
    ELSE IF from.yd >= to.yd /\ (tm.yday < to.yd \/ tm.yday > from.yd) THEN TRUE
    ELSE IF from.yd >= to.yd /\ tm.yday > to.yd /\ tm.yday < from.yd THEN FALSE
    ELSE IF tm.yday = from.yd THEN at >= from.at
    ELSE at < to.at
----------------------------------------------------------------------------
(* Actions *)

\* stime
Stime(t) ==
    /\ sys_time' = t
    /\ UNCHANGED <<milis, dststart, dstend, call>>

\* time_inc, in the interrupt of the system clock
TimeInc ==
    /\ sys_time \in TickTimes
    /\ milis' = (milis + 1) % MILIS
    /\ sys_time' = IF milis' = 0 THEN sys_time + 1 ELSE sys_time
    /\ UNCHANGED <<dststart, dstend, call>>

\* Without CONFIG_PREEMPT nobody gets into the middle of a call.
Turn(c) == CalPreempt \/ \A o \in Callers \ {c} : call[o].pc \in {"out", "done", "made"}

\* localtime_r(time(NULL)) up to the call of time_isindst
Localtime(c) ==
    /\ Turn(c) /\ call[c].pc \in {"out", "made"}
    /\ call' = [call EXCEPT ![c] = [pc |-> "check", t |-> sys_time,
                                    tm |-> Gmtime(sys_time - Timezone)]]
    /\ UNCHANGED <<sys_time, milis, dststart, dstend>>

Stale_Never(tm) == dststart.yr = -1

\* time_isindst: are the transition dates those of another year?
Stale(tm) == tm.year # dststart.yr \/ tm.year # dstend.yr

DstCheck(c) ==
    /\ Turn(c) /\ call[c].pc = "check"
    /\ call' = [call EXCEPT ![c].pc = IF Stale(call[c].tm) THEN "cvtstart" ELSE "compare"]
    /\ UNCHANGED <<sys_time, milis, dststart, dstend>>

\* The two calls of cvtdate
CvtStart(c) ==
    /\ Turn(c) /\ call[c].pc = "cvtstart"
    /\ dststart' = DstStart(call[c].tm.year)
    /\ call' = [call EXCEPT ![c].pc = "cvtend"]
    /\ UNCHANGED <<sys_time, milis, dstend>>

CvtEnd(c) ==
    /\ Turn(c) /\ call[c].pc = "cvtend"
    /\ dstend' = DstEnd(call[c].tm.year)
    /\ call' = [call EXCEPT ![c].pc = "compare"]
    /\ UNCHANGED <<sys_time, milis, dststart>>

\* The rest of time_isindst and of localtime_r
DstCompare(c) ==
    /\ Turn(c) /\ call[c].pc = "compare"
    /\ call' = [call EXCEPT ![c].pc = "done", ![c].tm =
          IF InDst(call[c].tm, dststart, dstend)
          THEN [Gmtime(call[c].t - Timezone - DstBias) EXCEPT !.isdst = TRUE] ELSE @]
    /\ UNCHANGED <<sys_time, milis, dststart, dstend>>

\* The caller goes n months on in its struct tm and calls mktime, which
\* corrects tm_mon and not tm_year.
MktimeCall(c, n) ==
    /\ Turn(c) /\ call[c].pc = "done"
    /\ LET tm == [call[c].tm EXCEPT !.mon = @ + n]
       IN  call' = [call EXCEPT ![c] = [pc |-> "made", t |-> Mktime(tm, TRUE),
                                        tm |-> [tm EXCEPT !.mon = NormalMon(tm)],
                                        asked |-> tm]]
    /\ UNCHANGED <<sys_time, milis, dststart, dstend>>

CalInit ==
    /\ sys_time \in BootTimes /\ milis = 0
    /\ dststart = [yr |-> -1, yd |-> 0, at |-> 0] /\ dstend = [yr |-> -1, yd |-> 0, at |-> 0]
    /\ call = [c \in Callers |-> [pc |-> "out"]]

CalNext ==
    \/ TimeInc \/ \E t \in SetTimes : Stime(t)
    \/ \E c \in Callers :
        \/ Localtime(c) \/ DstCheck(c) \/ CvtStart(c) \/ CvtEnd(c) \/ DstCompare(c)
        \/ \E n \in MonthSteps : MktimeCall(c, n)

CalSpec == CalInit /\ [][CalNext]_calVars

----------------------------------------------------------------------------
(* The Gregorian calendar as a reference *)

Leaps(y) == y \div 4 - y \div 100 + y \div 400
DayOfYear(y) == 365 * (y - 1970) + Leaps(y - 1) - Leaps(1969)
MonthLen(y, m) == IF m = 2 THEN (IF Leaps(y) # Leaps(y - 1) THEN 29 ELSE 28)
                  ELSE IF m \in {4, 6, 9, 11} THEN 30 ELSE 31

RECURSIVE DayOf(_, _)
DayOf(y, m) == IF m = 1 THEN DayOfYear(y) ELSE DayOf(y, m - 1) + MonthLen(y, m - 1)

\* The day since 1970 of the last Sunday of a month; 1-1-1970 was a Thursday.
LastSunday(y, m) ==
    CHOOSE d \in (DayOf(y, m) + MonthLen(y, m) - 7)..(DayOf(y, m) + MonthLen(y, m) - 1) :
        (d + 4) % 7 = 0

\* Saving time of the year y, in local standard time
Summer(y) == (DaySec * LastSunday(y, 3) + 2 * HourSec)..(DaySec * LastSunday(y, 10) + HourSec - 1)

\* tm is the broken-down form of t.
IsDate(tm, t) ==
    LET y == tm.year + 1900  m == tm.mon + 1  d == t \div DaySec IN
    /\ m \in 1..12 /\ tm.mday \in 1..MonthLen(y, m)
    /\ d = DayOf(y, m) + tm.mday - 1
    /\ tm.yday = d - DayOfYear(y) /\ tm.wday = (d + 4) % 7
    /\ tm.hour = (t % DaySec) \div HourSec /\ tm.rest = t % HourSec

----------------------------------------------------------------------------
(* Properties *)

\* What localtime_r returns is the local date of the time stamp, with saving
\* time from the last Sunday of March to that of October, whatever year the
\* transition dates were cached for and whoever else is calling.
LocaltimeRight ==
    \A c \in Callers : call[c].pc = "done" =>
        LET std == call[c].t - Timezone
            tm  == call[c].tm
        IN  /\ IsDate(tm, IF tm.isdst THEN std - DstBias ELSE std)
            /\ tm.isdst <=> std \in Summer(Gmtime(std).year + 1900)

\* mktime undoes localtime_r, and takes a month outside the year as so many
\* months from January.
MktimeRight ==
    \A c \in Callers : call[c].pc = "made" =>
        LET tm == call[c].asked
            y  == 1900 + (12 * tm.year + tm.mon) \div 12
        IN  call[c].t = Timezone + (IF tm.isdst THEN DstBias ELSE 0)
                        + (DayOf(y, 1 + (tm.mon % 12)) + tm.mday - 1) * DaySec
                        + tm.hour * HourSec + tm.rest
=============================================================================
