SPECIFICATION ClockSpec
CONSTANTS
    t1 = t1
    t2 = t2
    t3 = t3
    app = app
    Slots = {t1, t2, t3}
    Delays = {1, 2}
    UintMod = 2
    MaxCount = 3
    MaxMade = 1
    Callers = {app}
    Years = {1970, 1972, 2000, 2001, 2023, 2058}
    YearDays <- WholeYear
    BootTimes <- Boots
    SetTimes <- Sets
    TickTimes <- Ticks
    MonthSteps <- Steps
    HourSec = 1
    MILIS = 2
    CalPreempt = FALSE
INVARIANTS OnlyForThoseAhead LocaltimeRight MktimeRight
SYMMETRY Symmetry
