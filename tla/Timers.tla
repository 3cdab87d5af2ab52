------------------------------- MODULE Timers -------------------------------
(***************************************************************************)
(* The timers of kernel/time/{timer,hrtimer,clocksource,irq}.c.            *)
(*                                                                         *)
(* Two clock sources keep a list of timers each.  The soft timers of the   *)
(* system clock are run by whoever calls timer_process (the scheduler, or  *)
(* an application); the timers of the high resolution clock are run by its *)
(* own interrupt.  A list is walked with its spinlock held and interrupts  *)
(* off, one timer an action: no tick falls into a walk, and nobody but a   *)
(* handler runs, which may use the other source.  Whoever creates a timer  *)
(* reads the tick before it takes the lock: interrupts and other threads   *)
(* come in between.  Time is absolute, as in the code, and bounded by      *)
(* MaxCount.                                                               *)
(***************************************************************************)
EXTENDS Integers, Sequences, FiniteSets, SequencesExt

CONSTANTS
    Slots,      \* the memory kzalloc has for struct timer and struct hrtimer
    Delays,     \* the delays asked for, in ticks of their source
    UintMod,    \* 2^w of unsigned int, the type of timer->interval
    MaxCount,   \* bound on the tick count
    MaxMade     \* bound on the creations under way at once

ASSUME DelayAssumption == Delays \subseteq Nat /\ UintMod \in Nat \ {0}
ASSUME CountAssumption == MaxCount \in Nat
ASSUME SlotsAssumption == Slots \cap {"idle", "end"} = {}

Sources == {"sys", "hr"}

VARIABLES
    count,      \* clocksource->count
    tcUpdate,   \* clocksource->tc_update: the tick of the last walk
    timers,     \* clocksource->timers
    walk,       \* the timers a walk has still before it, in list order
    made,       \* timers filled in by a creation that is not yet at the lock
    fresh       \* history: who was put on the list since the last walk began

tvars == <<count, tcUpdate, timers, walk, made, fresh>>

\* bound is a history variable: the latest expiry among the timer and those
\* that stood in front of it when it was put on the list.
Timer == [id : Slots, expire_at : Nat, interval : Nat, bound : Nat]

\* What a creation has filled in before it takes the lock of its source
Pending == [source : Sources, id : Slots, expire_at : Nat, interval : Nat]

Listed(cs) == {timers[cs][i].id : i \in 1..Len(timers[cs])}

\* The slots kzalloc has given out
Taken == Listed("sys") \cup Listed("hr") \cup {tm.id : tm \in made}

----------------------------------------------------------------------------
(* clocksource.c *)

\* The places the walk of raw_clocksource_insert_timer may stop at: it goes
\* behind the last timer without a look at it.
Later(l, at) == {i \in 1..(Len(l) - 1) : at <= l[i].expire_at}

Place_Behind(l, at) ==
    LET later == {i \in 1..(Len(l) - 1) : at >= l[i].expire_at}
    IN  IF later = {} THEN Len(l) + 1
        ELSE CHOOSE i \in later : \A j \in later : i <= j

\* Where the new timer goes
Place(l, at) ==
    IF Later(l, at) = {} THEN Len(l) + 1
    ELSE CHOOSE i \in Later(l, at) : \A j \in Later(l, at) : i <= j

\* raw_clocksource_insert_timer
Insert(l, id, at, interval) ==
    LET p == Place(l, at) IN
    InsertAt(l, p, [id |-> id, expire_at |-> at, interval |-> interval,
                    bound |-> Max({at} \cup {l[i].expire_at : i \in 1..(p - 1)})])

\* list_del
Unlink(l, i) == RemoveAt(l, i)

----------------------------------------------------------------------------
(* timer.c and hrtimer.c *)

Idle(cs) == walk[cs] = "idle"

\* Interrupts are on, and a thread runs.
Quiet == \A cs \in Sources : Idle(cs)

\* timer_create, hrtimer_create up to the insertion: the tick is read with no
\* lock held.  The interval of a soft timer is an unsigned int, its first expiry
\* a time_t; both are wide in struct hrtimer.
Made(cs, id, ticks, oneshot) ==
    [source |-> cs, id |-> id, expire_at |-> count[cs] + ticks,
     interval |-> IF oneshot THEN 0 ELSE IF cs = "sys" THEN ticks % UintMod ELSE ticks]

CreateRead(cs, id, ticks, oneshot) ==
    /\ Quiet /\ Cardinality(made) < MaxMade
    /\ id \notin Taken
    /\ made' = made \cup {Made(cs, id, ticks, oneshot)}
    /\ UNCHANGED <<count, tcUpdate, timers, walk, fresh>>

\* clocksource_insert_timer of a timer that was filled in
Link(tm) ==
    /\ Idle(tm.source)
    /\ timers' = [timers EXCEPT ![tm.source] = Insert(@, tm.id, tm.expire_at, tm.interval)]
    /\ fresh' = [fresh EXCEPT ![tm.source] = @ \cup {tm.id}]

\* The rest of timer_create and hrtimer_create, however much later
CreateInsert(tm) ==
    /\ Quiet /\ Link(tm)
    /\ made' = made \ {tm}
    /\ UNCHANGED <<count, tcUpdate, walk>>

\* A handler creates a timer of the other source, with interrupts off throughout.
HandlerCreate(cs, id, ticks, oneshot) ==
    /\ ~ Quiet
    /\ id \notin Taken
    /\ Link(Made(cs, id, ticks, oneshot))
    /\ UNCHANGED <<count, tcUpdate, walk, made>>

\* timer_stop, hrtimer_stop: list_del and kfree
Stop(cs, i) ==
    /\ Idle(cs)
    /\ timers' = [timers EXCEPT ![cs] = Unlink(@, i)]
    /\ fresh' = [fresh EXCEPT ![cs] = @ \ {timers[cs][i].id}]
    /\ UNCHANGED <<count, tcUpdate, walk, made>>

\* The element at i as list_for_each_safe sees it, "end" behind the last
At(l, i) == IF i <= Len(l) THEN l[i].id ELSE "end"

\* timer_process up to its loop
TimerProcess ==
    /\ Quiet
    /\ tcUpdate' = [tcUpdate EXCEPT !["sys"] = count["sys"]]
    /\ walk' = [walk EXCEPT !["sys"] = At(timers["sys"], 1)]
    /\ fresh' = [fresh EXCEPT !["sys"] = {}]
    /\ UNCHANGED <<count, timers, made>>

\* hrtimer_tick: the interrupt of the high resolution clock, and
\* hrtimer_handle up to its loop
HrtimerTick ==
    /\ Quiet
    /\ count["hr"] < MaxCount
    /\ count' = [count EXCEPT !["hr"] = @ + 1]
    /\ tcUpdate' = [tcUpdate EXCEPT !["hr"] = count'["hr"]]
    /\ walk' = [walk EXCEPT !["hr"] = At(timers["hr"], 1)]
    /\ fresh' = [fresh EXCEPT !["hr"] = {}]
    /\ UNCHANGED <<timers, made>>

\* timer_irq_handle: timer_source_inc (the system time is in Calendar)
SysTick ==
    /\ Quiet
    /\ count["sys"] < MaxCount
    /\ count' = [count EXCEPT !["sys"] = @ + 1]
    /\ UNCHANGED <<tcUpdate, timers, walk, made, fresh>>

Expired(cs, i) == count[cs] >= timers[cs][i].expire_at

\* An expired timer leaves the list, its handler runs, and it comes back if it
\* has an interval.  The walk goes on where it would have gone before.
Fire(cs, i) ==
    LET tm   == timers[cs][i]
        rest == Unlink(timers[cs], i)
    IN  /\ walk[cs] = tm.id /\ Expired(cs, i)
        /\ timers' = [timers EXCEPT ![cs] =
              IF tm.interval = 0 THEN rest
              ELSE Insert(rest, tm.id, tm.interval + count[cs], tm.interval)]
        /\ walk' = [walk EXCEPT ![cs] = At(timers[cs], i + 1)]
        /\ UNCHANGED <<count, tcUpdate, made, fresh>>

\* The loop ends at the first timer that has not expired, or at the last.
Break(cs) ==
    /\ \/ walk[cs] = "end"
       \/ \E i \in 1..Len(timers[cs]) : walk[cs] = timers[cs][i].id /\ ~Expired(cs, i)
    /\ walk' = [walk EXCEPT ![cs] = "idle"]
    /\ UNCHANGED <<count, tcUpdate, timers, made, fresh>>

----------------------------------------------------------------------------

TimersInit ==
    /\ count = [cs \in Sources |-> 0] /\ tcUpdate = [cs \in Sources |-> 0]
    /\ timers = [cs \in Sources |-> <<>>]
    /\ walk = [cs \in Sources |-> "idle"]
    /\ made = {} /\ fresh = [cs \in Sources |-> {}]

TimersNext ==
    \/ SysTick \/ HrtimerTick \/ TimerProcess
    \/ \E tm \in made : CreateInsert(tm)
    \/ \E cs \in Sources :
        \/ Break(cs)
        \/ \E i \in 1..Len(timers[cs]) : Fire(cs, i) \/ Stop(cs, i)
        \/ \E id \in Slots, ticks \in Delays, oneshot \in BOOLEAN :
            CreateRead(cs, id, ticks, oneshot) \/ HandlerCreate(cs, id, ticks, oneshot)

TimersSpec == TimersInit /\ [][TimersNext]_tvars

----------------------------------------------------------------------------
(* Properties *)

TimersTypeOK ==
    /\ count \in [Sources -> Nat] /\ tcUpdate \in [Sources -> Nat]
    /\ timers \in [Sources -> Seq(Timer)]
    /\ walk \in [Sources -> Slots \cup {"idle", "end"}]
    /\ made \subseteq Pending
    /\ fresh \in [Sources -> SUBSET Slots]

\* The list is not sorted, because insertion never looks at the last timer.
\* Still, whatever is in front of a timer expires no later than something that
\* was in front of it when it was inserted: later arrivals never delay it.
AheadBounded ==
    \A cs \in Sources : \A i \in 1..Len(timers[cs]) : \A j \in 1..i :
        timers[cs][j].expire_at <= timers[cs][i].bound

\* When timer_process or hrtimer_handle is through, whoever was on the list when
\* it began, and still is, has not expired or stood behind one that has not: no
\* timer is passed over, or held up by one that was put on the list after it.
\* A timer that was put there since may have expired before it came: its creation
\* read the tick before it had the lock.  The next walk makes no such exception.
OnlyForThoseAhead ==
    \A cs \in Sources : Idle(cs) =>
        \A i \in 1..Len(timers[cs]) :
            timers[cs][i].id \in fresh[cs] \/ timers[cs][i].bound > tcUpdate[cs]
=============================================================================
