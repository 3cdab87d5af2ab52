------------------------------ MODULE Semaphore ------------------------------
(***************************************************************************)
(* kernel/sched/semaphore.c on top of the scheduler.  The counter has no   *)
(* lock: its load and its store are two steps, so that with CONFIG_PREEMPT *)
(* two threads may work on the same old value.                             *)
(*                                                                         *)
(* sem_init leaves sem->qp.sched_class alone; the semaphores here are ones *)
(* whose owner has set it (thread_queue_init), otherwise queue_add_thread  *)
(* does not put the waiter in the queue at all.                            *)
(***************************************************************************)
EXTENDS Sched

CONSTANTS
    sem,        \* the semaphore; its sem->qp is the queue of this name
    SemValue    \* the value given to sem_init

ASSUME SemAssumption == sem \in Queues /\ SemValue \in Nat /\ IsFiniteSet(Threads)

VARIABLES
    value,   \* sem->value
    sready,  \* whether sem_init has been called
    sreg,    \* the value a thread has loaded
    spc      \* how far a thread is in a call on the semaphore

semVars == <<value, sready, sreg, spc>>

SemLabels == {"out", "wait_store", "wait_block", "waiting", "held",
              "signal_store", "signal_notify", "signalled"}

SemAt(t, label) == Running(t, "app") /\ spc[t] = label
SemGoto(t, label) == spc' = [spc EXCEPT ![t] = label]

\* sem_init
SemInit(t) ==
    /\ Calls(t, "sem") /\ ~sready
    /\ sready' = TRUE
    /\ sig' = sig \ {sem}
    /\ value' = SemValue
    /\ UNCHANGED <<rqVars, flags, wake, queue, ec, tmrVars, deadVars, irqVars, cnt, sc, scan,
                   callVars, sreg, spc>>

\* sem_wait: sem->value--
SemWait(t) ==
    /\ Calls(t, "sem") /\ sready /\ spc[t] = "out"
    /\ sreg' = [sreg EXCEPT ![t] = value]
    /\ SemGoto(t, "wait_store")
    /\ UNCHANGED <<vars, value, sready>>

\* sem_try_wait: does nothing unless the value is positive
SemTryWait(t) == value > 0 /\ SemWait(t)

SemWaitStore(t) ==
    /\ SemAt(t, "wait_store")
    /\ value' = sreg[t] - 1
    /\ SemGoto(t, IF sreg[t] - 1 < 0 THEN "wait_block" ELSE "held")
    /\ UNCHANGED <<vars, sready, sreg>>

\* raw_event_wait(&sem->qp, EVM_WAIT_INFINITE)
SemWaitBlock(t) ==
    /\ SemAt(t, "wait_block")
    /\ RawEventWait(t, sem, 0)
    /\ SemGoto(t, "waiting")
    /\ UNCHANGED <<value, sready, sreg>>

SemWaitReturn(t) ==
    /\ SemAt(t, "waiting")
    /\ SemGoto(t, "held")
    /\ UNCHANGED <<vars, value, sready, sreg>>

\* sem_signal: sem->value++
SemSignal(t) ==
    /\ SemAt(t, "held")
    /\ sreg' = [sreg EXCEPT ![t] = value]
    /\ SemGoto(t, "signal_store")
    /\ UNCHANGED <<vars, value, sready>>

SemSignalStore_Strict(t) ==
    /\ SemAt(t, "signal_store")
    /\ value' = sreg[t] + 1
    /\ SemGoto(t, IF sreg[t] + 1 < 0 THEN "signal_notify" ELSE "out")
    /\ UNCHANGED <<vars, sready, sreg>>

SemSignalStore(t) ==
    /\ SemAt(t, "signal_store")
    /\ value' = sreg[t] + 1
    /\ SemGoto(t, IF sreg[t] + 1 <= 0 THEN "signal_notify" ELSE "out")
    /\ UNCHANGED <<vars, sready, sreg>>

\* event_notify(&sem->qp)
SemSignalNotify(t) ==
    /\ SemAt(t, "signal_notify")
    /\ EventNotify(t, sem)
    /\ SemGoto(t, "signalled")
    /\ UNCHANGED <<value, sready, sreg>>

SemSignalReturn(t) ==
    /\ SemAt(t, "signalled")
    /\ SemGoto(t, "out")
    /\ UNCHANGED <<vars, value, sready, sreg>>

SemBegin == value = 0 /\ sready = FALSE /\ sreg = [t \in Threads |-> 0] /\ spc = [t \in Threads |-> "out"]

SemContinue(t) == \/ SemWaitStore(t) \/ SemWaitBlock(t) \/ SemWaitReturn(t)
                  \/ SemSignalStore(t) \/ SemSignalNotify(t) \/ SemSignalReturn(t)

SemCall(t) == SemInit(t) \/ SemWait(t) \/ SemTryWait(t) \/ SemSignal(t)

----------------------------------------------------------------------------
(* Properties *)

\* Threads that have been let through and have not handed their unit on
SemHolders ==
    {t \in Threads : \/ spc[t] \in {"held", "signal_store", "signal_notify"}
                     \/ spc[t] = "signalled" /\ pc[t] = "notify"
                     \/ /\ spc[t] = "waiting" /\ t \notin ToSet(queue[sem])
                        /\ pc[t] # "ev_enqueue"}

\* While a thread waits, no unit of the semaphore is idle.
SemNoIdleUnit == queue[sem] # <<>> => Cardinality(SemHolders) >= SemValue

\* sem_wait: "If the value of the semaphore is 0 or less, the calling thread will
\* not return from this function untill the semaphore becomes available": no
\* more threads are let through than the semaphore has units.
SemExcludes == Cardinality(SemHolders) <= SemValue
=============================================================================
