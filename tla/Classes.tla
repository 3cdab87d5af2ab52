------------------------------ MODULE Classes ------------------------------
(***************************************************************************)
(* The scheduling classes kernel/sched/{edf,lottery}.c under the part of   *)
(* kernel/sched/core.c that calls them.                                    *)
(*                                                                         *)
(* Module Sched has the scheduler step by step, for the classes whose      *)
(* queues do not depend on time or chance.  Here one entry of __schedule   *)
(* is one action: interrupts are off from its lock to the switch.  Why a   *)
(* thread waits and what wakes it is left to Sched.                        *)
(***************************************************************************)
EXTENDS Integers, Sequences, FiniteSets, SequencesExt

CONSTANTS
    Threads, Idle,  \* the threads, and the idle thread among them
    Prios,          \* the priorities applications use
    Configs,        \* [class, preempt, fair]: CONFIG_SYS_*, _PREEMPT, _SCHED_FAIR
    IdleDelay,      \* what edf.c adds to the deadline of the idle thread
    Steps,          \* the ticks that may pass with nobody entering the kernel
    MaxTick,        \* bound on the tick count
    MaxCreated      \* bound on the threads created

ASSUME IdleAssumption == Idle \in Threads
ASSUME PrioAssumption == Prios \subseteq 0..254
ASSUME TimeAssumption == MaxTick \in Nat /\ Steps \subseteq Nat /\ IdleDelay \in Nat
ASSUME LateIdle == IdleDelay > MaxTick + 255

VARIABLES
    config,     \* the kernel that was built
    tick,       \* the ticks of the scheduler's clock source
    created,    \* the number of threads created so far
    current,    \* rq->current
    runq,       \* rq->rr_rq.run_queue
    state,      \* "none" | "ready" (RUNNING) | "blocked"
    prio,       \* thread->prio
    cputime,    \* thread->cputime
    resched,    \* THREAD_NEED_RESCHED_FLAG of the current thread
    deadline,   \* thread->se.deadline
    readied,    \* history: the tick at which the deadline was set
    tickets,    \* thread->se.tickets, from the head of the list
    pool,       \* lottery_tickets.tickets, from its head
    num         \* lottery_tickets.num

edfVars == <<deadline, readied>>
lotVars == <<tickets, pool, num>>
cvars == <<config, tick, created, current, runq, state, prio, cputime, resched,
           edfVars, lotVars>>

Edf == config.class = "edf"
Queued == ToSet(runq)

\* The queue q with t in front of the first of the places S, or behind all
InsertBefore(q, S, t) ==
    IF S = {} THEN Append(q, t) ELSE InsertAt(q, CHOOSE i \in S : \A j \in S : i <= j, t)

----------------------------------------------------------------------------
(* edf.c *)

\* edf_calc_ratio
Ratio(p) == (13 * p) \div 24 + 10

\* The deadline raw_edf_insert gives a thread
DeadlineOf(t, p) == tick + Ratio(p) + IF t = Idle THEN IdleDelay ELSE 0

EdfInsert_Behind(q, t, p) == Append(q, t)

\* The walk of raw_edf_insert: edf_sort_before lets the newcomer pass its equals
EdfInsert(q, t, p) ==
    InsertBefore(q, {i \in 1..Len(q) : DeadlineOf(t, p) <= deadline[q[i]]}, t)

\* Every insertion sets a new deadline
SetDeadline(t, p) ==
    /\ deadline' = [deadline EXCEPT ![t] = DeadlineOf(t, p)]
    /\ readied' = [readied EXCEPT ![t] = tick]

\* edf_next_runnable: everyone on the run queue is RUNNING
EdfNextRunnable == {Head(runq)}

\* edf_preempt_check
EdfPreempts(cur, p, next) ==
    /\ next # Idle
    /\ \/ deadline[next] < deadline[cur]
       \/ deadline[next] = deadline[cur] /\ prio[next] < p

----------------------------------------------------------------------------
(* lottery.c *)

LOTTERY_POOL_SIZE == 20
LOTTERY_RESIZE_SIZE == 5

\* lottery_init puts each new ticket in front of the last
Numbers(from, n) == [i \in 1..n |-> from + n - i]

\* round(10 - 0.04 * prio)
TicketCount(p) == IF p < 250 THEN (1050 - 4 * p) \div 100 ELSE 1

\* How often lottery_take_ticket finds the pool empty when n tickets are taken
Refills(n) == IF n <= Len(pool) THEN 0
              ELSE (n - Len(pool) + LOTTERY_RESIZE_SIZE - 1) \div LOTTERY_RESIZE_SIZE

\* The tickets of k calls of lottery_generate_tickets as the list has them: of each
\* batch the last one made comes first
Generated(k) ==
    [i \in 1..(k * LOTTERY_RESIZE_SIZE) |->
        LET batch == (i - 1) \div LOTTERY_RESIZE_SIZE
            place == (i - 1) % LOTTERY_RESIZE_SIZE
        IN  num + batch * LOTTERY_RESIZE_SIZE + (LOTTERY_RESIZE_SIZE - 1 - place)]

\* The tickets in the order n calls of lottery_take_ticket hand them out, and what
\* is left of the last batch
Supply(n) == pool \o Generated(Refills(n))

\* lottery_add_thread gives tickets to a thread that has none
TakeTickets(t, p) ==
    LET n == TicketCount(p) IN
    IF tickets[t] # <<>> THEN UNCHANGED lotVars
    ELSE /\ tickets' = [tickets EXCEPT ![t] = Reverse(SubSeq(Supply(n), 1, n))]
         /\ num' = num + Refills(n) * LOTTERY_RESIZE_SIZE
         /\ pool' = SubSeq(Supply(n), n + 1, Len(Supply(n)))

\* rr_shared_queue_insert
RrSharedQueueInsert(q, t, p) ==
    InsertBefore(q, {i \in 1..Len(q) : prio[q[i]] > p}, t)

ReturnTickets_Lost(t) == tickets' = [tickets EXCEPT ![t] = <<>>] /\ UNCHANGED <<pool, num>>

\* lottery_kill_thread: lottery_return_ticket puts each in front of the pool
ReturnTickets(t) ==
    /\ tickets' = [tickets EXCEPT ![t] = <<>>]
    /\ pool' = Reverse(tickets[t]) \o pool
    /\ UNCHANGED num

\* lottery_preempt_chk
LotteryPreempts(p, next) == TicketCount(p) >= TicketCount(prio[next])

\* What random_m(lottery_tickets.num) may return
Draw == 0..num

\* The threads lottery_next_runnable may return.  Nothing is drawn for a single thread.
\* Otherwise it draws until a thread on the queue holds the number: nothing ends the
\* loop when none of them holds any.
LotteryNextRunnable ==
    IF Len(runq) = 1 THEN Queued ELSE {t \in Queued : ToSet(tickets[t]) \cap Draw # {}}

----------------------------------------------------------------------------
(* core.c *)

\* sched_get_next_runnable
NextRunnable ==
    IF runq = <<>> THEN {current} ELSE IF Edf THEN EdfNextRunnable ELSE LotteryNextRunnable

\* class->add_thread: the queue q with t, of priority p, on it
RqInsert(q, t, p) == IF Edf THEN EdfInsert(q, t, p) ELSE RrSharedQueueInsert(q, t, p)

\* class->rm_thread
RqRemove(q, t) == RemoveFirst(q, t)

\* What class->add_thread gives the thread
Admit(t, p) == \/ Edf /\ SetDeadline(t, p) /\ UNCHANGED lotVars
               \/ ~Edf /\ TakeTickets(t, p) /\ UNCHANGED edfVars

\* should_resched_cputime
ShouldResched(cur, next) ==
    \/ ~config.fair
    \/ next # Idle /\ (cur = Idle \/ cputime[next] <= cputime[cur])

\* preempt_check, for a current thread of priority p
PreemptCheck(cur, p, next) ==
    \/ IF Edf THEN EdfPreempts(cur, p, next) ELSE LotteryPreempts(p, next)
    \/ ShouldResched(cur, next)

\* reschedule_decide; sliced: sched_clock_tick has set PREEMPT_NEED_RESCHED
RescheduleDecide(next, p, need, sliced) ==
    IF config.preempt
    THEN /\ current # next
         /\ \/ need
            \/ next # Idle /\ (sliced \/ PreemptCheck(current, p, next))
    ELSE need

\* rq_switch_context: the thread that leaves is added before next is removed.
SwitchContext(next, stay, p) ==
    /\ current' = next /\ resched' = FALSE
    /\ runq' = RqRemove(IF stay THEN RqInsert(runq, current, p) ELSE runq, next)

\* __schedule, entered by a current thread of priority p with NEED_RESCHED need
Schedule(p, need, sliced) == \E next \in NextRunnable :
    IF RescheduleDecide(next, p, need, sliced)
    THEN SwitchContext(next, TRUE, p) /\ Admit(current, p)
    ELSE /\ resched' = FALSE
         /\ UNCHANGED <<current, runq, edfVars, lotVars>>

\* __schedule, entered by a thread that is no longer RUNNING
ScheduleOut == \E next \in NextRunnable : SwitchContext(next, FALSE, prio[current])

----------------------------------------------------------------------------
(* The threads and the clock *)

\* Time passes, all of it the current thread's: sched_clock_tick
Tick(d) ==
    /\ tick + d <= MaxTick
    /\ tick' = tick + d
    /\ cputime' = [cputime EXCEPT ![current] = IF config.fair THEN @ + d ELSE @]
    /\ UNCHANGED <<config, created, current, runq, state, prio, resched, edfVars, lotVars>>

\* The time slice of the current thread ends: sched_clock_tick preempts it, unless it
\* is the idle thread, which runs with preemption disabled.
SliceEnds ==
    /\ config.preempt /\ current # Idle
    /\ Schedule(prio[current], resched, TRUE)
    /\ UNCHANGED <<config, tick, created, state, prio, cputime>>

\* idle_thread_func
IdleLoop ==
    /\ current = Idle
    /\ Schedule(prio[Idle], TRUE, FALSE)
    /\ UNCHANGED <<config, tick, created, state, prio, cputime>>

\* nice(p), and yield when p is the priority the thread has.  sched_yield asks the
\* class for a thread of its own: another draw.
Nice(p) ==
    /\ current # Idle
    /\ prio' = [prio EXCEPT ![current] = p]
    /\ \E other \in NextRunnable :
          Schedule(p, resched \/ (IF other = current THEN p ELSE prio[other]) <= p, FALSE)
    /\ UNCHANGED <<config, tick, created, state, cputime>>

\* sleep, event_wait, ...: the current thread stops RUNNING and reschedules.
Block ==
    /\ current # Idle
    /\ state' = [state EXCEPT ![current] = "blocked"]
    /\ ScheduleOut
    /\ UNCHANGED <<config, tick, created, prio, cputime, edfVars, lotVars>>

\* raw_rq_add_thread for a thread that waited, by a timer or by rq_signal_event_queue,
\* which asks for a reschedule if the thread is as urgent as the current one.
Wake(t) ==
    /\ state[t] = "blocked"
    /\ state' = [state EXCEPT ![t] = "ready"]
    /\ runq' = RqInsert(runq, t, prio[t]) /\ Admit(t, prio[t])
    /\ \/ resched' = (resched \/ prio[t] <= prio[current])
       \/ UNCHANGED resched
    /\ UNCHANGED <<config, tick, created, current, prio, cputime>>

\* thread_initialise; the idle thread starts the first one
Create(t, p) ==
    /\ created < MaxCreated /\ state[t] = "none"
    /\ created' = created + 1
    /\ state' = [state EXCEPT ![t] = "ready"]
    /\ prio' = [prio EXCEPT ![t] = p]
    /\ cputime' = [cputime EXCEPT ![t] = 0]
    /\ runq' = RqInsert(runq, t, p) /\ Admit(t, p)
    /\ UNCHANGED <<config, tick, current, resched>>

\* kill: the tickets go back to the pool
Kill ==
    /\ current # Idle
    /\ state' = [state EXCEPT ![current] = "none"]
    /\ IF Edf THEN UNCHANGED lotVars ELSE ReturnTickets(current)
    /\ ScheduleOut
    /\ UNCHANGED <<config, tick, created, prio, cputime, edfVars>>

\* sched_init and sched_start: the idle thread runs, the class is initialised.
ClassesInit ==
    /\ config \in Configs
    /\ tick = 0 /\ created = 0
    /\ current = Idle /\ runq = <<>>
    /\ state = [t \in Threads |-> IF t = Idle THEN "ready" ELSE "none"]
    /\ prio = [t \in Threads |-> 255]
    /\ cputime = [t \in Threads |-> 0]
    /\ resched = FALSE
    /\ deadline = [t \in Threads |-> 0] /\ readied = [t \in Threads |-> 0]
    /\ tickets = [t \in Threads |-> <<>>]
    /\ pool = Numbers(0, LOTTERY_POOL_SIZE) /\ num = LOTTERY_POOL_SIZE

ClassesNext ==
    \/ \E d \in Steps : Tick(d)
    \/ SliceEnds \/ IdleLoop \/ Block \/ Kill
    \/ \E p \in Prios : Nice(p)
    \/ \E t \in Threads : Wake(t)
    \/ \E t \in Threads, p \in Prios : Create(t, p)

ClassesSpec == ClassesInit /\ [][ClassesNext]_cvars

----------------------------------------------------------------------------
(* Properties *)

\* Earliest deadline first: no thread is made to wait by one that became ready after
\* its deadline, and the idle thread runs when nobody else is ready.
EdfInTime == [][
    Edf /\ current' # current
        => \A t \in Queued \ {current'} : current' # Idle /\ readied[current'] <= deadline[t]
    ]_cvars

Holders(n) == {t \in Threads : n \in ToSet(tickets[t])}

\* The lottery: every ticket ever made is in the pool or with one thread, once; those
\* of the dead are back in the pool; and everyone on the queue has one to be drawn
\* with, or lottery_next_runnable would try again for ever, interrupts off.
TicketsSound == ~Edf =>
    /\ \A n \in 0..(num - 1) :
          Cardinality(Holders(n)) = IF n \in ToSet(pool) THEN 0 ELSE 1
    /\ \A l \in {pool} \cup {tickets[t] : t \in Threads} : IsInjective(l) /\ ToSet(l) \subseteq 0..(num - 1)
    /\ \A t \in Threads : state[t] = "none" => tickets[t] = <<>>
    /\ \A t \in Queued : tickets[t] # <<>>
=============================================================================
