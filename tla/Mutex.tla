------------------------------- MODULE Mutex -------------------------------
(***************************************************************************)
(* kernel/sched/mutex.c on top of the scheduler: threads that lock, lock   *)
(* again, block inside the critical section and unlock.  The mutex has no  *)
(* lock of its own: between the test of mutex->count and the increment it  *)
(* relies on preempt_disable alone, and on the event queue to keep a wake. *)
(*                                                                         *)
(* mutex_wait and mutex_unlock_irq, which use a mutex as a plain event     *)
(* queue, are Sched's EventWait and IrqNotify.                             *)
(***************************************************************************)
EXTENDS Sched

CONSTANTS
    mutex,    \* the mutex; its mutex->qp is the queue of this name
    NULL,     \* no owner
    MaxDepth  \* bound on recursive locking

ASSUME MutexAssumption == mutex \in Queues /\ NULL \notin Threads /\ MaxDepth \in Nat \ {0}

VARIABLES
    count,  \* mutex->count
    owner,  \* mutex->owner
    mpc     \* how far a thread is in mutex_lock or mutex_unlock

mVars == <<count, owner, mpc>>
allVars == <<vars, mVars>>

MLabels == {"out", "lock_test", "lock_take", "held", "unlock_owner", "unlock_notify",
            "unlock_enable"}

At(t, label) == Running(t, "app") /\ mpc[t] = label
MGoto(t, label) == mpc' = [mpc EXCEPT ![t] = label]

\* What a step of mutex.c itself leaves alone: all of the scheduler but these.
SchedButCnt == <<rqVars, flags, evVars, tmrVars, deadVars, irqVars, scan, callVars>>

----------------------------------------------------------------------------
(* mutex_lock *)

LockEnter_NoDisable(t) ==
    /\ Calls(t, "mutex_lock")
    /\ mpc[t] = "out" \/ (mpc[t] = "held" /\ count < MaxDepth)
    /\ MGoto(t, IF owner = t THEN "lock_take" ELSE "lock_test")
    /\ UNCHANGED <<cnt, SchedButCnt, sc, count, owner>>

\* preempt_disable, then a thread that owns the mutex skips the loop
LockEnter(t) ==
    /\ Calls(t, "mutex_lock")
    /\ mpc[t] = "out" \/ (mpc[t] = "held" /\ count < MaxDepth)
    /\ PreemptDisable(t)
    /\ MGoto(t, IF owner = t THEN "lock_take" ELSE "lock_test")
    /\ UNCHANGED <<SchedButCnt, sc, count, owner>>

\* while(mutex->count != 0) raw_event_wait(...): the way out of the loop
LockPass(t) ==
    /\ At(t, "lock_test") /\ count = 0
    /\ MGoto(t, "lock_take")
    /\ UNCHANGED <<vars, count, owner>>

LockWait_If(t) ==
    /\ At(t, "lock_test") /\ count # 0
    /\ RawEventWait(t, mutex, 0)
    /\ MGoto(t, "lock_take")
    /\ UNCHANGED <<count, owner>>

\* ... and another round
LockWait(t) ==
    /\ At(t, "lock_test") /\ count # 0
    /\ RawEventWait(t, mutex, 0)
    /\ UNCHANGED mVars

\* mutex->count++, mutex->owner = tp
LockTake(t) ==
    /\ At(t, "lock_take")
    /\ count' = count + 1 /\ owner' = t
    /\ MGoto(t, "held")
    /\ UNCHANGED vars

----------------------------------------------------------------------------
(* mutex_unlock *)

\* The check of the owner (panic) and mutex->count -= 1
Unlock(t) ==
    /\ Calls(t, "mutex_unlock") /\ mpc[t] = "held" /\ owner = t
    /\ count' = count - 1
    /\ MGoto(t, IF count = 1 THEN "unlock_owner" ELSE "unlock_enable")
    /\ UNCHANGED <<vars, owner>>

UnlockOwner_NoNotify(t) ==
    /\ At(t, "unlock_owner")
    /\ owner' = NULL
    /\ MGoto(t, "unlock_enable")
    /\ UNCHANGED <<vars, count>>

\* mutex->owner = NULL
UnlockOwner(t) ==
    /\ At(t, "unlock_owner")
    /\ owner' = NULL
    /\ MGoto(t, "unlock_notify")
    /\ UNCHANGED <<vars, count>>

\* event_notify(&mutex->qp)
UnlockNotify(t) ==
    /\ At(t, "unlock_notify")
    /\ EventNotify(t, mutex)
    /\ MGoto(t, "unlock_enable")
    /\ UNCHANGED <<count, owner>>

UnlockEnable_Leaks(t) ==
    /\ At(t, "unlock_enable")
    /\ PreemptEnable(t, cnt[t] - Step, flags[t])
    /\ MGoto(t, IF owner = t THEN "held" ELSE "out")
    /\ UNCHANGED <<cnt, SchedButCnt, count, owner>>

\* preempt_enable
UnlockEnable(t) ==
    /\ At(t, "unlock_enable")
    /\ PreemptEnableNoResched(t)
    /\ PreemptEnable(t, cnt[t] - Step, flags[t])
    /\ MGoto(t, IF owner = t THEN "held" ELSE "out")
    /\ UNCHANGED <<SchedButCnt, count, owner>>

----------------------------------------------------------------------------
(* The specification *)

\* What the application does between the two, with the mutex or without it; it
\* neither dies nor waits for ever while it holds the mutex.
AppCall(t) ==
    /\ mpc[t] \in {"out", "held"}
    /\ \/ Yield(t)
       \/ \E ms \in Durations : Sleep(t, ms)
       \/ \E u \in Threads : ThreadCreate(t, u)
       \/ \E q \in Queues \ {mutex}, ms \in Durations \cup {0} :
              (ms = 0 => mpc[t] = "out") /\ RawEventWait(t, q, ms)
       \/ mpc[t] = "out" /\ Kill(t)
    /\ UNCHANGED mVars

MInit == Init /\ count = 0 /\ owner = NULL /\ mpc = [t \in Threads |-> "out"]

\* The rest of a call that was begun.
MContinue(t) == \/ LockPass(t) \/ LockWait(t) \/ LockTake(t)
                \/ UnlockOwner(t) \/ UnlockNotify(t) \/ UnlockEnable(t)

MKernel == \/ Kernel /\ UNCHANGED mVars
           \/ \E t \in Threads : MContinue(t)

MNext == \/ MKernel
         \/ Interrupt /\ UNCHANGED mVars
         \/ \E t \in Threads : AppCall(t) \/ LockEnter(t) \/ Unlock(t)

MSpec == MInit /\ [][MNext]_allVars

\* As FairSpec of Sched; besides, a thread that holds the mutex and gets the
\* CPU again and again unlocks it at last.
MFairSpec == /\ MSpec
             /\ WF_allVars(MKernel)
             /\ SF_allVars(Tick(FALSE) /\ UNCHANGED mVars)
             /\ \A t \in Threads : /\ SF_allVars(Yield(t) /\ UNCHANGED mVars)
                                   /\ SF_allVars(Unlock(t))

----------------------------------------------------------------------------
(* Properties *)

MTypeOK == count \in Nat /\ owner \in Threads \cup {NULL} /\ mpc \in [Threads -> MLabels]

\* Between the test of count and its increment, and while count and owner are
\* out of step in mutex_unlock, no other thread gets the CPU.
Undisturbed ==
    \A t \in Threads : mpc[t] \in {"lock_take", "unlock_owner"} =>
        /\ t = current /\ sc[t] = "none" /\ pc[t] = "app"
        /\ mpc[t] = "lock_take" => count = 0 \/ owner = t
        /\ mpc[t] = "unlock_owner" => count = 0 /\ owner = t

\* A thread is in the critical section only as the owner: no two threads are,
\* and mutex_unlock never panics with "Faulty mutex unlock!".
HolderOwns == \A t \in Threads : mpc[t] = "held" => owner = t /\ count > 0

\* mutex_lock and mutex_unlock leave the preemption counter as high as the
\* number of times the mutex is held, whatever happens in between.
Inside(t) == IF pc[t] \in {"ev_enqueue", "kill_broadcast", "broadcast"} THEN 1 ELSE 0
Level(t) == (IF owner = t THEN count ELSE 0)
              + (IF mpc[t] \in {"out", "held"} THEN 0 ELSE 1)
              + (IF t = Idle THEN 1 ELSE 0)
PreemptBalanced == \A t \in Threads : cnt[t] = Step * (Level(t) + Inside(t))

\* When the mutex is free and a thread waits for it, the waiter has an event or
\* somebody is on the way who will either take the mutex or wake the waiter.
NoStrandedWaiter ==
    count = 0 /\ queue[mutex] # <<>> =>
        \/ ec[Head(queue[mutex])] > 0
        \/ \E t \in Threads \ ToSet(queue[mutex]) :
              \/ mpc[t] \in {"lock_test", "lock_take", "unlock_owner", "unlock_notify"}
              \/ pc[t] = "notify"

\* mutex.c implements the abstract lock.
Lock == INSTANCE AbstractLock WITH
            Clients <- Threads, NoClient <- NULL, depth <- count,
            holder <- IF count = 0 THEN NULL ELSE owner
ImplementsLock == Lock!LockSpec

\* A thread that waits in mutex_lock is woken.
WaiterWoken == \A t \in Threads : t \in ToSet(queue[mutex]) ~> t \notin ToSet(queue[mutex])
============================================================================
