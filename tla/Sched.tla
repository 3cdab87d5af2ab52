------------------------------- MODULE Sched -------------------------------
(***************************************************************************)
(* The ETA/OS scheduling core: kernel/sched/{core,thread,event,fifo,rr,    *)
(* rr-shared,clock}.c with the soft timers of kernel/time it is built on.  *)
(*                                                                         *)
(* One CPU runs one thread at a time.  The actors that interleave are the  *)
(* running thread (its API calls, one action per step another actor can    *)
(* see), the scheduler entered on behalf of that thread, and interrupts    *)
(* (the tick and the drivers' event_notify_irq), which are taken only      *)
(* while interrupts are enabled.  Code between an IRQ-off and an IRQ-on is *)
(* one action, except that each expired timer and each pending event is a  *)
(* step of its own, in the order in which the code visits them.            *)
(*                                                                         *)
(* Kconfig options are constants.  Left out: CONFIG_DYN_PRIO and           *)
(* CONFIG_SCHED_FAIR (both off here), and the length of a time slice: with *)
(* CONFIG_PREEMPT any tick may be the one that ends the slice.             *)
(***************************************************************************)
EXTENDS Integers, Sequences, FiniteSets, SequencesExt

CONSTANTS
    Threads,      \* every struct thread
    Idle, Main,   \* the two threads that exist after boot
    Queues,       \* event queues (struct thread_queue) of the application
    IrqQueues,    \* the queues interrupt handlers notify
    InitPrio,     \* priority given to each thread when it is created
    Prios,        \* priorities a thread may take with nice()
    Durations,    \* timeouts in ticks
    Ops,          \* the API calls the application makes
    PREEMPT,      \* CONFIG_PREEMPT
    CLASS,        \* sys_sched_class: "fifo" or "rr"
    PromptSwitch, \* a thread that arms a timer is off the CPU before it expires
    MaxEc         \* bound on the pending events of one waiter

ASSUME ThreadsAssumption == Idle \in Threads /\ Main \in Threads /\ Idle # Main
ASSUME QueuesAssumption  == Queues \cap Threads = {} /\ IrqQueues \subseteq Queues
ASSUME PrioAssumption    == /\ InitPrio \in [Threads -> Nat]
                            /\ Prios \subseteq Nat
ASSUME TimeAssumption    == Durations \subseteq Nat
ASSUME ConfigAssumption  == /\ PREEMPT \in BOOLEAN
                            /\ CLASS \in {"fifo", "rr"}
                            /\ PromptSwitch \in BOOLEAN
                            /\ MaxEc \in Nat

VARIABLES
    current,  \* rq->current
    runq,     \* rq->rr_rq.run_queue
    num,      \* rq->num
    flags,    \* thread->flags
    on_rq,    \* thread->on_rq
    prio,     \* thread->prio
    wake,     \* rq->wake_head, most recent waiter first
    killq,    \* rq->kill_head
    queue,    \* the threads chained from a queue's qhead
    sig,      \* the queues whose qhead is SIGNALED
    ec,       \* thread->ec: events an IRQ posted to the head of a queue
    timers,   \* clocksource->timers, each with the ticks it has left
    tmr,      \* thread->timer
    freed,    \* threads whose stack has been returned to the heap
    cnt,      \* thread->preempt_cnt, without the scheduler's own share
    irqExec,  \* CPU_IRQ_EXEC_FLAG of the CPU
    cpuState, \* thread->cpu_state
    sc,       \* how far a thread is in schedule()
    isr,      \* the phase the tick interrupt that runs the scheduler goes back to
    scan,     \* what is left of the wake list in rq_signal_threads
    pc,       \* how far a thread is in an API call
    arg       \* the arguments of that call

rqVars    == <<current, runq, num, on_rq, prio>>
evVars    == <<wake, queue, sig, ec>>
tmrVars   == <<timers, tmr>>
deadVars  == <<killq, freed>>
irqVars   == <<irqExec, cpuState, isr>>
callVars  == <<pc, arg>>
vars == <<rqVars, flags, evVars, tmrVars, deadVars, irqVars, cnt, sc, scan, callVars>>

----------------------------------------------------------------------------
(* Values *)

Flags == {"RUNNING", "SLEEPING", "WAITING", "EXIT", "NEED_RESCHED",
          "PREEMPT_NEED_RESCHED", "SYSTEM_STACK", "REMOTE_KILL"}

\* A thread's joinq is named by the thread.
QueueIds == Queues \cup Threads

Timer == [tp : Threads, left : Int, fn : {"sleep", "event"}, q : QueueIds]

Args == [q : QueueIds, ms : Nat, tp : Threads, head : {"NULL", "SIGNALED", "THREAD"}]
NoArg == [q |-> Idle, ms |-> 0, tp |-> Idle, head |-> "NULL"]

Phases == {"uncreated", "fresh", "none", "enter", "clock", "signal", "tail", "bcast"}

Labels == {"app", "idle", "ev_check", "ev_enqueue", "ev_return", "notify",
           "broadcast", "broadcast_yield", "created", "wait_resched", "wait_stop", "kill_resched",
           "kill_stop", "kill_join", "kill_broadcast", "kill_queue", "dead", "join_wait",
           "signal_add", "signal_on_rq"}

Has(t, f) == f \in flags[t]
NeedResched(t) == \/ Has(t, "NEED_RESCHED")
                  \/ PREEMPT /\ Has(t, "PREEMPT_NEED_RESCHED")

\* Interrupts are off from the lock in __schedule to the switch, and in an ISR.
IrqsOn == sc[current] \in {"none", "enter", "tail", "bcast"} /\ isr[current] = "no"

----------------------------------------------------------------------------
(* Queues of threads *)

First(S) == CHOOSE i \in S : \A j \in S : i <= j

\* fifo_queue_insert: behind all others
FifoQueueInsert(q, t) == Append(q, t)

\* rr_shared_queue_insert: behind every thread of the same or a more urgent priority
RrSharedQueueInsert(q, t) ==
    LET after == {i \in 1..Len(q) : prio[q[i]] > prio[t]}
    IN  IF after = {} THEN Append(q, t) ELSE InsertAt(q, First(after), t)


\* rq->sched_class->add_thread
RqInsert(q, t) == IF CLASS = "rr" THEN RrSharedQueueInsert(q, t) ELSE FifoQueueInsert(q, t)

RqRemove_Nothing(q, t) == q

\* rr_shared_queue_remove
RqRemove(q, t) == RemoveFirst(q, t)

\* The places of the run queue {fifo,rr}_next_runnable does not pass over
Runnable == {i \in 1..Len(runq) : Has(runq[i], "RUNNING")}

\* sched_get_next_runnable: the first of them, or else the current thread
NextRunnable == IF Runnable = {} THEN current ELSE runq[First(Runnable)]

HandOver_KeepsOwn(e, q, i) == e
HandOver_Drops(e, q, i) == [e EXCEPT ![q[i]] = 0]

\* rr_shared_queue_remove gives the events of the thread at i to its successor.
HandOver(e, q, i) ==
    IF e[q[i]] = 0 THEN e
    ELSE [t \in Threads |-> IF t = q[i] THEN 0
                            ELSE IF i < Len(q) /\ t = q[i + 1] THEN e[q[i]]
                            ELSE e[t]]

RawRqAddThread_NoInsert(t) ==
    on_rq' = [on_rq EXCEPT ![t] = TRUE] /\ UNCHANGED <<runq, num>>

\* raw_rq_add_thread, the run queue's side
RawRqAddThread(t) ==
    /\ runq' = RqInsert(runq, t)
    /\ num' = num + 1
    /\ on_rq' = [on_rq EXCEPT ![t] = TRUE]

\* rq_add_thread: a thread that is on the run queue is taken off it first
RqAddThread(t) ==
    LET rest == IF on_rq[t] /\ Has(t, "RUNNING") THEN RqRemove(runq, t) ELSE runq
    IN  /\ runq' = RqInsert(rest, t)
        /\ num' = num + 1 - (Len(runq) - Len(rest))
        /\ on_rq' = [on_rq EXCEPT ![t] = TRUE]

----------------------------------------------------------------------------
(* Timers *)

\* raw_clocksource_insert_timer: the last element is passed without a look.
TimerInsert(l, r) ==
    LET before == {i \in 1..(Len(l) - 1) : r.left <= l[i].left}
    IN  IF before = {} THEN Append(l, r)
        ELSE InsertAt(l, First(before), r)

\* timer_create
TimerCreate(t, ms, fn, q) ==
    /\ timers' = TimerInsert(timers, [tp |-> t, left |-> ms, fn |-> fn, q |-> q])
    /\ tmr' = [tmr EXCEPT ![t] = "SET"]

\* timer_stop(tp->timer)
TimerStop(t) ==
    LET own == {i \in 1..Len(timers) : timers[i].tp = t}
    IN  IF tmr[t] = "SET" /\ own # {} THEN RemoveAt(timers, First(own)) ELSE timers

Expired == timers # <<>> /\ Head(timers).left <= 0

----------------------------------------------------------------------------
(* Waking a waiter *)

\* The thread at position i leaves the wake list and its queue, and a queue
\* that becomes empty is left SIGNALED; e is ec after the caller's own change.
Dequeue(q, i, e) ==
    /\ wake' = RemoveFirst(wake, queue[q][i])
    /\ queue' = [queue EXCEPT ![q] = RemoveAt(@, i)]
    /\ sig' = IF Len(queue[q]) = 1 THEN sig \cup {q} ELSE sig
    /\ ec' = HandOver(e, queue[q], i)

\* What __raw_event_notify and rq_signal_event_queue do with the head of q;
\* add is the way onto the run queue, timer what becomes of tp->timer.
WakeHead(q, e, add, timer) ==
    LET tp == Head(queue[q]) IN
    /\ Dequeue(q, 1, e)
    /\ timers' = TimerStop(tp)
    /\ tmr' = [tmr EXCEPT ![tp] = IF @ = "SET" THEN timer ELSE @]
    /\ IF tp # current
       THEN /\ IF add = "raw" THEN RawRqAddThread(tp) ELSE RqAddThread(tp)
            /\ flags' = [flags EXCEPT
                  ![tp] = @ \cup {"RUNNING"},
                  ![current] = @ \cup IF prio[tp] <= prio[current]
                                      THEN {"NEED_RESCHED"} ELSE {}]
       ELSE /\ flags' = [flags EXCEPT ![tp] = @ \cup {"RUNNING"}]
            /\ on_rq' = [on_rq EXCEPT ![tp] = TRUE]
            /\ UNCHANGED <<runq, num>>

\* event_notify_irq
EventNotifyIrq(q) ==
    /\ sig' = IF queue[q] = <<>> THEN sig \cup {q} ELSE sig
    /\ ec' = IF queue[q] = <<>> THEN ec ELSE [ec EXCEPT ![Head(queue[q])] = @ + 1]

\* One round of raw_event_notify_broadcast.  event_notify takes the IRQ path
\* when CPU_IRQ_EXEC_FLAG is set, which leaves the waiter where it is.
BroadcastStep(q) ==
    \/ /\ queue[q] = <<>>
       /\ sig' = sig \ {q}
       /\ UNCHANGED <<runq, num, on_rq, flags, wake, queue, ec, tmrVars>>
    \/ /\ queue[q] # <<>> /\ irqExec
       /\ ec' = [ec EXCEPT ![Head(queue[q])] = (@ + 1) % (MaxEc + 1)]
       /\ UNCHANGED <<runq, num, on_rq, flags, wake, queue, sig, tmrVars>>
    \/ /\ queue[q] # <<>> /\ ~irqExec
       /\ WakeHead(q, ec, "rq", "NULL")

BroadcastLast_FirstOnly(q) == TRUE

BroadcastLast(q) == queue[q] = <<>> \/ (Len(queue[q]) = 1 /\ ~irqExec)

----------------------------------------------------------------------------
(* __schedule and the loop around it *)

\* timer_process: sched_sleep_timeout
SleepTimeout(t) ==
    LET tp == Head(timers).tp IN
    /\ t = current /\ sc[t] \in {"enter", "clock"}
    /\ Expired /\ Head(timers).fn = "sleep"
    /\ timers' = Tail(timers)
    /\ flags' = [flags EXCEPT ![tp] = (@ \ {"SLEEPING"}) \cup {"RUNNING"}]
    /\ RawRqAddThread(tp)
    /\ sc' = [sc EXCEPT ![t] = "clock"]
    /\ UNCHANGED <<current, prio, evVars, tmr, deadVars, irqVars, cnt, scan, callVars>>

\* timer_process: event_tmo
EventTimeout(t) ==
    LET q  == Head(timers).q
        tp == Head(timers).tp
        at == {i \in 1..Len(queue[q]) : queue[q][i] = tp /\ tmr[tp] = "SET"}
    IN
    /\ t = current /\ sc[t] \in {"enter", "clock"}
    /\ Expired /\ Head(timers).fn = "event"
    /\ timers' = Tail(timers)
    /\ IF at = {}
       THEN UNCHANGED <<runq, num, on_rq, flags, evVars, tmr>>
       ELSE /\ Dequeue(q, First(at), ec)
            /\ tmr' = [tmr EXCEPT ![tp] = "SIGNALED"]
            /\ RawRqAddThread(tp)
            /\ flags' = [[flags EXCEPT ![tp] = @ \cup {"RUNNING"}] EXCEPT
                  ![t] = @ \cup IF prio[tp] <= prio[t] THEN {"NEED_RESCHED"} ELSE {}]
    /\ sc' = [sc EXCEPT ![t] = "clock"]
    /\ UNCHANGED <<current, prio, deadVars, irqVars, cnt, scan, callVars>>

\* No timer is left to run: rq_signal_threads starts on the wake list.
ClockDone(t) ==
    /\ t = current /\ sc[t] \in {"enter", "clock"} /\ ~Expired
    /\ sc' = [sc EXCEPT ![t] = "signal"]
    /\ scan' = wake
    /\ UNCHANGED <<rqVars, flags, evVars, tmrVars, deadVars, irqVars, cnt, callVars>>

Pending_NoEvents == {i \in 1..Len(scan) : ec[scan[i]] > 1}

Pending == {i \in 1..Len(scan) : ec[scan[i]] > 0}

\* rq_signal_threads: the next waiter on the list that has an event wakes the
\* head of its queue, if the queue has one
SignalThread(t) ==
    LET i  == First(Pending)
        it == scan[i]
        e  == [ec EXCEPT ![it] = @ - 1]
    IN
    /\ t = current /\ sc[t] = "signal" /\ Pending # {}
    /\ scan' = SubSeq(scan, i + 1, Len(scan))
    /\ IF queue[arg[it].q] # <<>> THEN WakeHead(arg[it].q, e, "raw", "SET")
       ELSE ec' = e /\ UNCHANGED <<runq, num, on_rq, flags, wake, queue, sig, tmrVars>>
    /\ UNCHANGED <<current, prio, deadVars, irqVars, cnt, sc, callVars>>

\* preempt_check: without CONFIG_SCHED_FAIR should_resched_cputime is always true
PreemptCheck(t) == flags[t] \cup IF PREEMPT THEN {"PREEMPT_NEED_RESCHED"} ELSE {}

\* reschedule_decide
RescheduleDecide(cur, next, f) ==
    IF PREEMPT
    THEN /\ cur # next
         /\ \/ "NEED_RESCHED" \in f
            \/ "PREEMPT_NEED_RESCHED" \in f /\ next # Idle
    ELSE "NEED_RESCHED" \in f

\* reschedule_decide test-and-clears the flags it looks at
Decided(f) == f \ IF PREEMPT THEN {"NEED_RESCHED", "PREEMPT_NEED_RESCHED"}
                             ELSE {"NEED_RESCHED"}

\* __schedule decides to keep the current thread
KeepCurrent(t) ==
    /\ t = current /\ sc[t] = "signal" /\ Pending = {}
    /\ ~RescheduleDecide(t, NextRunnable, PreemptCheck(t))
    /\ flags' = [flags EXCEPT ![t] = Decided(PreemptCheck(t))]
    /\ sc' = [sc EXCEPT ![t] = "tail"]
    /\ scan' = <<>>
    /\ UNCHANGED <<rqVars, evVars, tmrVars, deadVars, irqVars, cnt, callVars>>

\* __schedule_prepare, rq_switch_context and the resumed thread's rq_update.  A
\* thread that never ran starts at its handle: it sees no rq_update, no tail.
SwitchContext(t) ==
    LET next == NextRunnable
        stay == Has(t, "RUNNING")
        full == IF stay THEN RqInsert(runq, t) ELSE runq
    IN
    /\ t = current /\ sc[t] = "signal" /\ Pending = {}
    /\ RescheduleDecide(t, next, PreemptCheck(t))
    /\ current' = next
    /\ flags' = [flags EXCEPT ![t] = Decided(PreemptCheck(t))]
    /\ on_rq' = [on_rq EXCEPT ![t] = stay]
    /\ runq' = RqRemove(full, next)
    /\ num' = num + Len(RqRemove(full, next)) - Len(runq)
    /\ cpuState' = [cpuState EXCEPT ![t] = irqExec]
    /\ irqExec' = IF sc[next] = "fresh" THEN irqExec
                  ELSE IF next = t THEN irqExec ELSE cpuState[next]
    /\ sc' = [[sc EXCEPT ![t] = "tail"] EXCEPT ![next] = IF @ = "fresh" THEN "none" ELSE @]
    /\ scan' = <<>>
    /\ UNCHANGED <<prio, evVars, tmrVars, deadVars, isr, cnt, callVars>>

LeaveOrLoop_AlwaysIrq(t, f) ==
    /\ sc' = [sc EXCEPT ![t] = IF "NEED_RESCHED" \in f THEN "enter" ELSE isr[t]]
    /\ isr' = [isr EXCEPT ![t] = "no"]
    /\ irqExec' = FALSE

\* schedule() and preempt_schedule_irq loop while need_resched()
LeaveOrLoop(t, f) ==
    LET again == \/ "NEED_RESCHED" \in f
                 \/ PREEMPT /\ "PREEMPT_NEED_RESCHED" \in f
    IN
    /\ sc' = [sc EXCEPT ![t] = IF isr[t] = "no" THEN IF again THEN "enter" ELSE "none"
                               ELSE IF again THEN "clock" ELSE isr[t]]
    /\ isr' = [isr EXCEPT ![t] = IF again THEN @ ELSE "no"]
    /\ irqExec' = (irqExec /\ (again \/ isr[t] = "no"))

Reclaim_AfterRemoteKill ==
    freed \cup {u \in ToSet(killq) \cup {current} :
                   Has(u, "SYSTEM_STACK") /\ (u # current \/ Has(u, "REMOTE_KILL"))}
Reclaim == freed \cup {u \in ToSet(killq) : Has(u, "SYSTEM_STACK")}

ScheduleTail_KeepsDead(t) ==
    /\ t = current /\ sc[t] = "tail" /\ ~Has(t, "REMOTE_KILL")
    /\ LeaveOrLoop(t, flags[t])
    /\ UNCHANGED <<rqVars, flags, evVars, tmrVars, deadVars, cpuState, cnt, scan, callVars>>

\* rq_destroy_kill_q, then sched_remote_kill_if finds nothing to do
ScheduleTail(t) ==
    /\ t = current /\ sc[t] = "tail" /\ ~Has(t, "REMOTE_KILL")
    /\ killq' = <<>> /\ freed' = Reclaim
    /\ LeaveOrLoop(t, flags[t])
    /\ UNCHANGED <<rqVars, flags, evVars, tmrVars, cpuState, cnt, scan, callVars>>

\* rq_destroy_kill_q, then sched_remote_kill_if up to its broadcast
RemoteKillIf(t) ==
    /\ t = current /\ sc[t] = "tail" /\ Has(t, "REMOTE_KILL")
    /\ killq' = <<t>> /\ freed' = Reclaim
    /\ flags' = [flags EXCEPT ![t] = (@ \cup {"NEED_RESCHED", "EXIT"}) \ {"RUNNING"}]
    /\ sc' = [sc EXCEPT ![t] = "bcast"]
    /\ UNCHANGED <<rqVars, evVars, tmrVars, irqVars, cnt, scan, callVars>>

\* raw_event_notify_broadcast(&tp->joinq) in sched_remote_kill_if
RemoteKillBroadcast(t) ==
    /\ t = current /\ sc[t] = "bcast"
    /\ BroadcastStep(t)
    /\ IF BroadcastLast(t) THEN LeaveOrLoop(t, flags[t] \cup {"NEED_RESCHED"})
                           ELSE UNCHANGED <<sc, isr, irqExec>>
    /\ UNCHANGED <<current, prio, deadVars, cpuState, cnt, scan, callVars>>

Schedule(t) == \/ SleepTimeout(t) \/ EventTimeout(t) \/ ClockDone(t)
               \/ SignalThread(t) \/ KeepCurrent(t) \/ SwitchContext(t)
               \/ ScheduleTail(t) \/ RemoteKillIf(t) \/ RemoteKillBroadcast(t)

----------------------------------------------------------------------------
(* The API, called by the running thread *)

Running(t, label) == t = current /\ sc[t] = "none" /\ pc[t] = label
Calls(t, op) == Running(t, "app") /\ op \in Ops

Goto(t, label) == pc' = [pc EXCEPT ![t] = label]
Return(t) == /\ pc' = [pc EXCEPT ![t] = "app"]
             /\ arg' = [arg EXCEPT ![t] = NoArg]
CallSchedule(t) == sc' = [sc EXCEPT ![t] = "enter"]

\* preempt_disable and preempt_enable count only with CONFIG_PREEMPT
Step == IF PREEMPT THEN 1 ELSE 0
PreemptDisable(t) == cnt' = [cnt EXCEPT ![t] = @ + Step]
PreemptEnableNoResched(t) == cnt' = [cnt EXCEPT ![t] = @ - Step]

\* The scheduler is entered by a preempt_enable that leaves the counter at c.
PreemptEnable(t, c, f) ==
    sc' = [sc EXCEPT ![t] =
              IF PREEMPT /\ c = 0 /\ f \cap {"NEED_RESCHED", "PREEMPT_NEED_RESCHED"} # {}
              THEN "enter" ELSE @]

\* idle_thread_func
IdleLoop(t) ==
    /\ Running(t, "idle")
    /\ flags' = [flags EXCEPT ![t] = @ \cup {"NEED_RESCHED"}]
    /\ CallSchedule(t)
    /\ UNCHANGED <<rqVars, evVars, tmrVars, deadVars, irqVars, cnt, scan, callVars>>

YieldFlags_Strict(t, p) ==
    flags[t] \cup IF prio[NextRunnable] < p THEN {"NEED_RESCHED"} ELSE {}

\* sched_yield with t at priority p
YieldFlags(t, p) ==
    flags[t] \cup IF \/ PREEMPT /\ NeedResched(t)
                     \/ (IF NextRunnable = t THEN p ELSE prio[NextRunnable]) <= p
                  THEN {"NEED_RESCHED"} ELSE {}

\* yield
Yield(t) ==
    /\ Calls(t, "yield")
    /\ flags' = [flags EXCEPT ![t] = YieldFlags(t, prio[t])]
    /\ CallSchedule(t)
    /\ UNCHANGED <<rqVars, evVars, tmrVars, deadVars, irqVars, cnt, scan, callVars>>

\* nice: set the priority, then yield
Nice(t, p) ==
    /\ Calls(t, "nice") /\ p # prio[t]
    /\ prio' = [prio EXCEPT ![t] = IF p = 255 THEN 254 ELSE p]
    /\ flags' = [flags EXCEPT ![t] = YieldFlags(t, IF p = 255 THEN 254 ELSE p)]
    /\ CallSchedule(t)
    /\ UNCHANGED <<current, runq, num, on_rq, evVars, tmrVars, deadVars, irqVars, cnt,
                   scan, callVars>>

Sleep_NoResched(t, ms) ==
    /\ Calls(t, "sleep")
    /\ flags' = [flags EXCEPT ![t] = (@ \cup {"SLEEPING"}) \ {"RUNNING"}]
    /\ TimerCreate(t, ms, "sleep", t)
    /\ CallSchedule(t)
    /\ UNCHANGED <<rqVars, evVars, deadVars, irqVars, cnt, scan, callVars>>

\* sleep: sched_setup_sleep_thread, then schedule
Sleep(t, ms) ==
    /\ Calls(t, "sleep")
    /\ flags' = [flags EXCEPT ![t] = (@ \cup {"SLEEPING", "NEED_RESCHED"}) \ {"RUNNING"}]
    /\ TimerCreate(t, ms, "sleep", t)
    /\ CallSchedule(t)
    /\ UNCHANGED <<rqVars, evVars, deadVars, irqVars, cnt, scan, callVars>>

\* thread_create: thread_init down to the preempt_enable of thread_initialise
ThreadCreate(t, u) ==
    /\ Calls(t, "create") /\ sc[u] = "uncreated"
    /\ RqAddThread(u)
    /\ flags' = [flags EXCEPT ![u] = {"RUNNING"}]
    /\ prio' = [prio EXCEPT ![u] = InitPrio[u]]
    /\ sc' = [sc EXCEPT ![u] = "fresh",
                        ![t] = IF PREEMPT /\ cnt[t] = 0 /\ NeedResched(t) THEN "enter" ELSE @]
    /\ Goto(t, "created")
    /\ arg' = [arg EXCEPT ![t].tp = u]
    /\ UNCHANGED <<current, evVars, tmrVars, deadVars, irqVars, cnt, scan>>

\* thread_init marks the stack it allocated only after the thread was started
ThreadCreated(t) ==
    /\ Running(t, "created")
    /\ flags' = [flags EXCEPT ![arg[t].tp] = @ \cup {"SYSTEM_STACK"}]
    /\ Return(t)
    /\ UNCHANGED <<rqVars, evVars, tmrVars, deadVars, irqVars, cnt, sc, scan>>

\* wait: three writes to the flags, then schedule
Wait(t) ==
    /\ Calls(t, "wait")
    /\ flags' = [flags EXCEPT ![t] = @ \cup {"WAITING"}]
    /\ Goto(t, "wait_resched")
    /\ UNCHANGED <<rqVars, evVars, tmrVars, deadVars, irqVars, cnt, sc, scan, arg>>

WaitResched(t) ==
    /\ Running(t, "wait_resched")
    /\ flags' = [flags EXCEPT ![t] = @ \cup {"NEED_RESCHED"}]
    /\ Goto(t, "wait_stop")
    /\ UNCHANGED <<rqVars, evVars, tmrVars, deadVars, irqVars, cnt, sc, scan, arg>>

WaitStop(t) ==
    /\ Running(t, "wait_stop")
    /\ flags' = [flags EXCEPT ![t] = @ \ {"RUNNING"}]
    /\ CallSchedule(t)
    /\ Return(t)
    /\ UNCHANGED <<rqVars, evVars, tmrVars, deadVars, irqVars, cnt, scan>>

\* signal: test and clear the WAITING flag, mark the thread running
Signal(t, u) ==
    /\ Calls(t, "signal") /\ Has(u, "WAITING")
    /\ flags' = [flags EXCEPT ![u] = (@ \ {"WAITING"}) \cup {"RUNNING"}]
    /\ Goto(t, "signal_add")
    /\ arg' = [arg EXCEPT ![t].tp = u]
    /\ UNCHANGED <<rqVars, evVars, tmrVars, deadVars, irqVars, cnt, sc, scan>>

\* signal: rq_add_thread up to its unlock
SignalAdd(t) ==
    LET u    == arg[t].tp
        rest == IF on_rq[u] THEN RqRemove(runq, u) ELSE runq
    IN
    /\ Running(t, "signal_add")
    /\ runq' = RqInsert(rest, u)
    /\ num' = num + 1 - (Len(runq) - Len(rest))
    /\ on_rq' = [on_rq EXCEPT ![u] = FALSE]
    /\ flags' = [flags EXCEPT ![u] = @ \cup {"RUNNING"}]
    /\ Goto(t, "signal_on_rq")
    /\ UNCHANGED <<current, prio, evVars, tmrVars, deadVars, irqVars, cnt, sc, scan, arg>>

\* signal: the last write of rq_add_thread, then yield
SignalOnRq(t) ==
    /\ Running(t, "signal_on_rq")
    /\ on_rq' = [on_rq EXCEPT ![arg[t].tp] = TRUE]
    /\ flags' = [flags EXCEPT ![t] = YieldFlags(t, prio[t])]
    /\ CallSchedule(t)
    /\ Return(t)
    /\ UNCHANGED <<current, runq, num, prio, evVars, tmrVars, deadVars, irqVars, cnt, scan>>

\* kill: three writes to the flags, the broadcast, the kill queue, schedule
Kill(t) ==
    /\ Calls(t, "kill")
    /\ flags' = [flags EXCEPT ![t] = @ \cup {"EXIT"}]
    /\ Goto(t, "kill_resched")
    /\ UNCHANGED <<rqVars, evVars, tmrVars, deadVars, irqVars, cnt, sc, scan, arg>>

KillResched(t) ==
    /\ Running(t, "kill_resched")
    /\ flags' = [flags EXCEPT ![t] = @ \cup {"NEED_RESCHED"}]
    /\ Goto(t, "kill_stop")
    /\ UNCHANGED <<rqVars, evVars, tmrVars, deadVars, irqVars, cnt, sc, scan, arg>>

KillStop(t) ==
    /\ Running(t, "kill_stop")
    /\ flags' = [flags EXCEPT ![t] = @ \ {"RUNNING"}]
    /\ Goto(t, "kill_join")
    /\ UNCHANGED <<rqVars, evVars, tmrVars, deadVars, irqVars, cnt, sc, scan, arg>>

KillJoin(t) ==
    /\ Running(t, "kill_join")
    /\ PreemptDisable(t)
    /\ Goto(t, "kill_broadcast")
    /\ UNCHANGED <<rqVars, flags, evVars, tmrVars, deadVars, irqVars, sc, scan, arg>>

KillBroadcast(t) ==
    /\ Running(t, "kill_broadcast")
    /\ BroadcastStep(t)
    /\ IF BroadcastLast(t)
       THEN PreemptEnableNoResched(t) /\ Goto(t, "kill_queue")
       ELSE UNCHANGED <<cnt, pc>>
    /\ UNCHANGED <<current, prio, deadVars, irqVars, sc, scan, arg>>

KillQueue(t) ==
    /\ Running(t, "kill_queue")
    /\ killq' = <<t>> \o killq
    /\ CallSchedule(t)
    /\ Goto(t, "dead")
    /\ UNCHANGED <<rqVars, flags, evVars, tmrVars, freed, irqVars, cnt, scan, arg>>

\* thread_destroy of another thread: sched_mark_remote_kill
ThreadDestroy(t, u) ==
    /\ Calls(t, "destroy") /\ u \notin {t, Idle}
    /\ sc[u] # "uncreated" /\ ~Has(u, "EXIT")
    /\ flags' = [[flags EXCEPT ![u] = @ \cup {"REMOTE_KILL"}] EXCEPT
          ![t] = @ \cup IF {"SLEEPING", "WAITING"} \cap flags[u] = {}
                        THEN {"NEED_RESCHED"} ELSE {}]
    /\ UNCHANGED <<rqVars, evVars, tmrVars, deadVars, irqVars, cnt, sc, scan, callVars>>

----------------------------------------------------------------------------
(* Event queues *)

\* raw_event_wait up to the unlock
RawEventWaitCheck(t, q, ms) ==
    IF q \in sig
    THEN /\ sig' = sig \ {q}
         /\ PreemptEnable(t, cnt[t], flags[t])
         /\ Return(t)
         /\ UNCHANGED cnt
    ELSE /\ PreemptDisable(t)
         /\ Goto(t, "ev_enqueue")
         /\ arg' = [arg EXCEPT ![t].q = q, ![t].ms = ms]
         /\ UNCHANGED <<sig, sc>>

RawEventWait(t, q, ms) ==
    /\ Calls(t, "raw_event_wait")
    /\ RawEventWaitCheck(t, q, ms)
    /\ UNCHANGED <<rqVars, flags, wake, queue, ec, tmrVars, deadVars, irqVars, scan>>

EvCheck(t) ==
    /\ Running(t, "ev_check")
    /\ RawEventWaitCheck(t, arg[t].q, arg[t].ms)
    /\ UNCHANGED <<rqVars, flags, wake, queue, ec, tmrVars, deadVars, irqVars, scan>>

\* raw_event_wait from timer_create to schedule: thread_add_to_wake_q and
\* queue_add_thread, whose insert turns a signal that came in the meantime
\* into an event of the new head
EvEnqueue(t) ==
    LET q == arg[t].q IN
    /\ Running(t, "ev_enqueue")
    /\ IF arg[t].ms # 0 THEN TimerCreate(t, arg[t].ms, "event", q)
       ELSE tmr' = [tmr EXCEPT ![t] = "NULL"] /\ UNCHANGED timers
    /\ wake' = <<t>> \o wake
    /\ flags' = [flags EXCEPT ![t] = IF on_rq[t] /\ "RUNNING" \in @
                                     THEN (@ \cup {"NEED_RESCHED"}) \ {"RUNNING"} ELSE @]
    /\ queue' = [queue EXCEPT ![q] = Append(@, t)]
    /\ ec' = [ec EXCEPT ![t] = IF q \in sig THEN 1 ELSE 0]
    /\ sig' = sig \ {q}
    /\ PreemptEnableNoResched(t)
    /\ CallSchedule(t)
    /\ Goto(t, "ev_return")
    /\ UNCHANGED <<rqVars, deadVars, irqVars, scan, arg>>

\* raw_event_wait after schedule
EvReturn(t) ==
    /\ Running(t, "ev_return")
    /\ tmr' = [tmr EXCEPT ![t] = IF @ = "SIGNALED" THEN "NULL" ELSE @]
    /\ Return(t)
    /\ UNCHANGED <<rqVars, flags, evVars, timers, deadVars, irqVars, cnt, sc, scan>>

\* event_wait: forget a signal, then raw_event_wait
ForgetSignal(t, q, ms) ==
    /\ sig' = sig \ {q}
    /\ Goto(t, "ev_check")
    /\ arg' = [arg EXCEPT ![t].q = q, ![t].ms = ms]
    /\ UNCHANGED <<rqVars, flags, wake, queue, ec, tmrVars, deadVars, irqVars, cnt, sc, scan>>

EventWait(t, q, ms) == Calls(t, "event_wait") /\ ForgetSignal(t, q, ms)

\* join: look at the EXIT flag, then event_wait on the thread's joinq
Join(t, u) ==
    /\ Calls(t, "join") /\ u # t
    /\ sc[u] # "uncreated" /\ ~Has(u, "EXIT")
    /\ Goto(t, "join_wait")
    /\ arg' = [arg EXCEPT ![t].tp = u]
    /\ UNCHANGED <<rqVars, flags, evVars, tmrVars, deadVars, irqVars, cnt, sc, scan>>

JoinWait(t) == Running(t, "join_wait") /\ ForgetSignal(t, arg[t].tp, 0)

\* event_notify: with CPU_IRQ_EXEC_FLAG it is event_notify_irq, else it reads
\* qhead before it disables preemption
EventNotify(t, q) ==
    /\ Calls(t, "event_notify")
    /\ IF irqExec
       THEN /\ \A u \in Threads : ec[u] < MaxEc
            /\ EventNotifyIrq(q)
            /\ UNCHANGED callVars
       ELSE /\ Goto(t, "notify")
            /\ arg' = [arg EXCEPT ![t].q = q, ![t].head =
                  IF q \in sig THEN "SIGNALED" ELSE IF queue[q] = <<>> THEN "NULL" ELSE "THREAD"]
            /\ UNCHANGED <<sig, ec>>
    /\ UNCHANGED <<rqVars, flags, wake, queue, tmrVars, deadVars, irqVars, cnt, sc, scan>>

\* event_notify, acting on the qhead it read.  (If the waiter it saw is gone
\* the code follows a pointer that is none; the model then does nothing.)
EventNotifyAct(t) ==
    LET q == arg[t].q IN
    /\ Running(t, "notify")
    /\ CASE arg[t].head = "NULL" ->
              /\ sig' = sig \cup {q}
              /\ queue' = [queue EXCEPT ![q] = <<>>]
              /\ UNCHANGED <<runq, num, on_rq, flags, wake, ec, tmrVars>>
         [] arg[t].head = "THREAD" /\ queue[q] # <<>> ->
              WakeHead(q, ec, "rq", "NULL")
         [] OTHER -> UNCHANGED <<runq, num, on_rq, flags, evVars, tmrVars>>
    /\ PreemptEnable(t, cnt[t], flags'[t])
    /\ Return(t)
    /\ UNCHANGED <<current, prio, deadVars, irqVars, cnt, scan>>

\* event_notify_broadcast: raw_event_notify_broadcast, then yield
EventBroadcast(t, q) ==
    /\ Calls(t, "event_notify_broadcast")
    /\ PreemptDisable(t)
    /\ Goto(t, "broadcast")
    /\ arg' = [arg EXCEPT ![t].q = q]
    /\ UNCHANGED <<rqVars, flags, evVars, tmrVars, deadVars, irqVars, sc, scan>>

EventBroadcastStep(t) ==
    LET q == arg[t].q IN
    /\ Running(t, "broadcast")
    /\ BroadcastStep(q)
    /\ IF BroadcastLast(q)
       THEN /\ PreemptEnableNoResched(t)
            /\ Goto(t, "broadcast_yield")
       ELSE UNCHANGED <<cnt, pc>>
    /\ UNCHANGED <<current, prio, deadVars, irqVars, sc, scan, arg>>

EventBroadcastYield(t) ==
    /\ Running(t, "broadcast_yield")
    /\ flags' = [flags EXCEPT ![t] = YieldFlags(t, prio[t])]
    /\ CallSchedule(t)
    /\ Return(t)
    /\ UNCHANGED <<rqVars, evVars, tmrVars, deadVars, irqVars, cnt, scan>>

----------------------------------------------------------------------------
(* Interrupts *)

\* preempt_schedule_irq: the scheduler runs inside the interrupt
Preemptible == cnt[current] = 0 /\ sc[current] \in {"none", "enter"}
PreemptScheduleIrq == /\ sc' = [sc EXCEPT ![current] = "clock"]
                      /\ isr' = [isr EXCEPT ![current] = sc[current]]

\* A driver's interrupt handler calls event_notify_irq; most vectors then call
\* preempt_schedule_irq.
IrqNotify(q) ==
    /\ IrqsOn
    /\ \A t \in Threads : ec[t] < MaxEc
    /\ EventNotifyIrq(q)
    /\ irqExec' = FALSE
    /\ \/ UNCHANGED <<sc, isr>>
       \/ PREEMPT /\ Preemptible /\ PreemptScheduleIrq
    /\ UNCHANGED <<rqVars, flags, wake, queue, tmrVars, deadVars, cpuState, cnt, scan, callVars>>

Later(l) == [i \in 1..Len(l) |-> [l[i] EXCEPT !.left = IF @ > -1 THEN @ - 1 ELSE @]]

\* The tick of the system clock; sched_clock_tick ends the slice when expire,
\* and calls preempt_schedule_irq.
Tick(expire) ==
    /\ IrqsOn
    /\ timers # <<>> \/ expire \/ irqExec
    /\ expire => PREEMPT
    /\ PromptSwitch => \A i \in 1..Len(timers) :
                          timers[i].tp = current => timers[i].left > 1
    /\ timers' = Later(timers)
    /\ flags' = [flags EXCEPT ![current] =
                    @ \cup IF expire THEN {"PREEMPT_NEED_RESCHED"} ELSE {}]
    /\ IF expire /\ Preemptible THEN PreemptScheduleIrq /\ irqExec' = TRUE
       ELSE irqExec' = FALSE /\ UNCHANGED <<sc, isr>>
    /\ UNCHANGED <<rqVars, evVars, tmr, deadVars, cpuState, cnt, scan, callVars>>

----------------------------------------------------------------------------
(* The specification *)

\* Boot: sched_start runs the idle thread, which has started the main thread
\* and disabled preemption for itself.
Init ==
    /\ current = Idle
    /\ runq = <<Main>> /\ num = 1
    /\ flags = [t \in Threads |-> IF t = Idle THEN {"RUNNING", "SYSTEM_STACK"}
                                  ELSE IF t = Main THEN {"RUNNING"} ELSE {}]
    /\ on_rq = [t \in Threads |-> t = Main]
    /\ prio = InitPrio
    /\ wake = <<>> /\ killq = <<>> /\ freed = {}
    /\ queue = [q \in QueueIds |-> <<>>] /\ sig = QueueIds
    /\ ec = [t \in Threads |-> 0]
    /\ timers = <<>> /\ tmr = [t \in Threads |-> "NULL"]
    /\ cnt = [t \in Threads |-> IF t = Idle THEN Step ELSE 0]
    /\ irqExec = FALSE /\ cpuState = [t \in Threads |-> FALSE]
    /\ sc = [t \in Threads |-> IF t = Idle THEN "none"
                               ELSE IF t = Main THEN "fresh" ELSE "uncreated"]
    /\ isr = [t \in Threads |-> "no"] /\ scan = <<>>
    /\ pc = [t \in Threads |-> IF t = Idle THEN "idle" ELSE "app"]
    /\ arg = [t \in Threads |-> NoArg]

\* The rest of an API call that was begun.
Continue(t) ==
    \/ IdleLoop(t) \/ ThreadCreated(t)
    \/ WaitResched(t) \/ WaitStop(t) \/ SignalAdd(t) \/ SignalOnRq(t)
    \/ KillResched(t) \/ KillStop(t) \/ KillJoin(t) \/ KillBroadcast(t) \/ KillQueue(t)
    \/ EvCheck(t) \/ EvEnqueue(t) \/ EvReturn(t) \/ JoinWait(t)
    \/ EventNotifyAct(t) \/ EventBroadcastStep(t) \/ EventBroadcastYield(t)

\* A call the application makes.
Call(t) ==
    \/ Yield(t) \/ Wait(t) \/ Kill(t)
    \/ \E p \in Prios : Nice(t, p)
    \/ \E ms \in Durations : Sleep(t, ms)
    \/ \E u \in Threads : ThreadCreate(t, u) \/ Signal(t, u) \/ ThreadDestroy(t, u) \/ Join(t, u)
    \/ \E q \in Queues : EventNotify(t, q) \/ EventBroadcast(t, q)
    \/ \E q \in Queues, ms \in Durations \cup {0} : RawEventWait(t, q, ms) \/ EventWait(t, q, ms)

Interrupt == \/ \E q \in IrqQueues : IrqNotify(q)
             \/ \E expire \in BOOLEAN : Tick(expire)

Kernel == \E t \in Threads : Schedule(t) \/ Continue(t)

Next == Kernel \/ Interrupt \/ \E t \in Threads : Call(t)

Spec == Init /\ [][Next]_vars

\* The running thread goes through kernel code without stopping; the tick
\* interrupt stays pending while interrupts are off and is taken at last; and
\* a thread that keeps running calls yield now and then.
FairSpec == /\ Spec
            /\ WF_vars(Kernel)
            /\ SF_vars(Tick(FALSE))
            /\ \A t \in Threads : SF_vars(Yield(t))

----------------------------------------------------------------------------
(* Properties *)

TypeOK ==
    /\ current \in Threads
    /\ runq \in Seq(Threads) /\ num \in Int
    /\ flags \in [Threads -> SUBSET Flags]
    /\ on_rq \in [Threads -> BOOLEAN]
    /\ prio \in [Threads -> Nat]
    /\ wake \in Seq(Threads) /\ killq \in Seq(Threads) /\ freed \subseteq Threads
    /\ queue \in [QueueIds -> Seq(Threads)] /\ sig \subseteq QueueIds
    /\ ec \in [Threads -> Nat]
    /\ timers \in Seq(Timer) /\ tmr \in [Threads -> {"NULL", "SIGNALED", "SET"}]
    /\ cnt \in [Threads -> Int]
    /\ irqExec \in BOOLEAN /\ cpuState \in [Threads -> BOOLEAN]
    /\ sc \in [Threads -> Phases] /\ isr \in [Threads -> {"no", "none", "enter"}]
    /\ scan \in Seq(Threads)
    /\ pc \in [Threads -> Labels] /\ arg \in [Threads -> Args]

\* rq->num is "the number of threads in the run queue", no thread is on it
\* twice, and the running thread is not on it: rq_switch_context put it back
\* or dropped it, and took the next one off.
RunQueueSound ==
    /\ num = Len(runq)
    /\ Cardinality(ToSet(runq)) = Len(runq)
    /\ current \notin ToSet(runq)
    /\ \A t \in ToSet(runq) :
          /\ Has(t, "RUNNING")
          /\ on_rq[t] \/ \E u \in Threads : pc[u] = "signal_on_rq" /\ arg[u].tp = t

\* Every thread that is alive and not running can be found again: it is on the
\* run queue, has a timer, waits in an event queue or waits for signal().
NoLostThread ==
    \A t \in Threads \ {current} :
        \/ sc[t] = "uncreated" \/ Has(t, "EXIT")
        \/ t \in ToSet(runq)
        \/ Has(t, "WAITING")
        \/ \E u \in Threads : pc[u] \in {"signal_add", "signal_on_rq"} /\ arg[u].tp = t
        \/ Has(t, "SLEEPING") /\ \E i \in 1..Len(timers) : timers[i].tp = t
        \/ \E q \in QueueIds : t \in ToSet(queue[q])

\* "All threads which are put in a waiting queue are also listed on this queue":
\* the wake list and the event queues hold the same threads, once each.
WakeListMatches ==
    /\ ToSet(wake) = UNION {ToSet(queue[q]) : q \in QueueIds}
    /\ Cardinality(ToSet(wake)) = Len(wake)
    /\ \A q \in QueueIds : \A t \in ToSet(queue[q]) : arg[t].q = q
    /\ \A q \in sig : queue[q] = <<>>

\* A change to a queue whose head has events pending keeps them, less the one
\* that rq_signal_threads delivers, as long as somebody still waits for them.
Posted(q) == IF queue[q] = <<>> THEN 0 ELSE ec[Head(queue[q])]
EventsKept ==
    [][\A q \in QueueIds : queue'[q] # <<>> =>
          Posted(q)' >= Posted(q) - IF sc[current] = "signal" THEN 1 ELSE 0]_vars

\* Events posted by an ISR are counted in the head of the queue, where
\* rq_signal_threads expects them, and nowhere else.
EventCountAtHead ==
    \A t \in Threads : ec[t] > 0 => \E q \in QueueIds : queue[q] # <<>> /\ Head(queue[q]) = t

\* A waiter's tp->timer is the timer that will wake it, exactly when it set
\* one: timer_stop never sees a timer that was freed.
WaitTimerLive ==
    \A q \in QueueIds : \A t \in ToSet(queue[q]) :
        /\ (tmr[t] = "SET") <=> \E i \in 1..Len(timers) : timers[i].tp = t
        /\ tmr[t] # "SIGNALED"

\* sleep(), raw_event_wait() and wait() come back to the application only when
\* the thread was made runnable again.
BlockedStaysOff ==
    sc[current] = "none" /\ pc[current] \in {"app", "ev_return", "idle"}
        => Has(current, "RUNNING")

\* The queues, the wake list, the timers and the flags agree with each other:
\* every thread is where the next operation on it looks for it.
QueuesSound ==
    /\ RunQueueSound /\ NoLostThread /\ WakeListMatches
    /\ EventCountAtHead /\ WaitTimerLive /\ BlockedStaysOff

\* rq_destroy_kill_q frees the stack of no thread that can still run.
FreedNeverRuns == \A t \in freed : t # current /\ t \notin ToSet(runq) \cup ToSet(wake)

\* A thread that is gone will never run again: it exited and lost the CPU.
Gone(t) == Has(t, "EXIT") /\ ~Has(t, "RUNNING") /\ t # current

\* A thread that is gone has woken its joiners, and nobody is on the way to
\* wait for it: join() "waits until the thread terminates".
JoinersReleased ==
    \A u \in Threads : Gone(u) =>
        /\ queue[u] = <<>>
        /\ \A t \in Threads : ~(pc[t] = "join_wait" /\ arg[t].tp = u)

\* "Memory objects they own will be returned to the heap": the allocated stack
\* of a thread that went through the kill queue is free.
StackReclaimed ==
    \A t \in Threads \ {Idle, Main} :
        Gone(t) /\ (pc[t] = "dead" \/ Has(t, "REMOTE_KILL")) => t \in ToSet(killq) \cup freed

\* A stack is freed exactly when its thread is through with it.
StacksSound == FreedNeverRuns /\ StackReclaimed

\* A waiter to which an ISR posted an event leaves its queue.
IrqEventDelivered == \A t \in Threads : ec[t] > 0 ~> (ec[t] = 0 /\ t \notin ToSet(wake))

\* A sleeping thread is put back on the run queue.
SleeperWakes == \A t \in Threads : Has(t, "SLEEPING") ~> t \in ToSet(runq)

\* A runnable thread gets the CPU, when nobody is more urgent.
ReadyRuns == \A t \in Threads \ {Idle} : t \in ToSet(runq) ~> t = current

\* The stack of a thread on the kill queue is freed.
KillQueueDrains == \A t \in Threads : t \in ToSet(killq) ~> t \notin ToSet(killq)

----------------------------------------------------------------------------
(* What comments of the repository say of the code, and the code does not do *)

\* rq_switch_context: "prev != new (this condition is ensured by __schedule)".
\* (Without CONFIG_PREEMPT the idle thread does switch to itself, which its
\* being put on the empty run queue and taken off again makes harmless.)
SwitchesToOther ==
    [][\A t \in Threads \ {Idle} : SwitchContext(t) => current' # t]_vars

\* kill(): "this function doesn't return".
KillDoesNotReturn == ~(pc[current] = "dead" /\ sc[current] = "none")

\* wait(): "This function doesn't return untill it is signaled."
WaitsForSignal ==
    ~(pc[current] = "app" /\ sc[current] = "none" /\ Has(current, "WAITING"))

\* join(): "Wait on a waiting queue until the thread \p tp terminates": nobody
\* waits for a thread that is through with kill().
JoinEnds == \A u \in Threads : Gone(u) /\ pc[u] = "dead" => queue[u] = <<>>

\* sched_mark_remote_kill: "the thread will be removed from the system the next
\* time the scheduler attempts to run it": the broadcast that comes first ends.
RemoteKillEnds == \A t \in Threads : sc[t] = "bcast" ~> sc[t] # "bcast"
============================================================================
