------------------------------ MODULE Condition ------------------------------
(***************************************************************************)
(* kernel/sched/condition.c: a mutex and an event queue.  The actions of   *)
(* Mutex stand for mutex_lock and mutex_unlock on cond->lock, which        *)
(* condition_lock and condition_unlock pass on.                            *)
(***************************************************************************)
EXTENDS Mutex

CONSTANT cond   \* the queue cond->qp

ASSUME CondAssumption == cond \in Queues \ {mutex}

VARIABLES
    cpc,   \* how far a thread is in __condition_wait_for
    pred   \* what the threads wait for: application state under cond->lock

condVars == <<cpc, pred>>

CondLabels == {"out", "unlock", "unlocking", "waiting", "locking", "woken"}

CondAt(t, label) == Running(t, "app") /\ cpc[t] = label
CondGoto(t, label) == cpc' = [cpc EXCEPT ![t] = label]

\* condition_wait, condition_wait_for: preempt_disable.  As with any condition
\* variable the caller holds the lock, once, and found pred to be false.
CondWait(t) ==
    /\ Calls(t, "cond") /\ cpc[t] \in {"out", "woken"}
    /\ mpc[t] = "held" /\ count = 1 /\ ~pred
    /\ PreemptDisable(t)
    /\ CondGoto(t, "unlock")
    /\ UNCHANGED <<SchedButCnt, sc, mVars, pred>>

\* mutex_unlock(&condi->lock)
CondUnlock(t) ==
    /\ CondAt(t, "unlock")
    /\ Unlock(t)
    /\ CondGoto(t, "unlocking")
    /\ UNCHANGED pred

\* event_wait(&condi->qp, ms)
CondEventWait(t, ms) ==
    /\ CondAt(t, "unlocking") /\ mpc[t] = "out"
    /\ EventWait(t, cond, ms)
    /\ CondGoto(t, "waiting")
    /\ UNCHANGED <<mVars, pred>>

\* mutex_lock(&condi->lock)
CondLock(t) ==
    /\ CondAt(t, "waiting")
    /\ LockEnter(t)
    /\ CondGoto(t, "locking")
    /\ UNCHANGED pred

\* preempt_enable
CondReturn(t) ==
    /\ CondAt(t, "locking") /\ mpc[t] = "held"
    /\ PreemptEnableNoResched(t)
    /\ PreemptEnable(t, cnt[t] - Step, flags[t])
    /\ CondGoto(t, "woken")
    /\ UNCHANGED <<SchedButCnt, mVars, pred>>

CondSignal_Forgets(t) ==
    /\ CondAt(t, "out") /\ mpc[t] = "held" /\ ~pred
    /\ pred' = TRUE
    /\ UNCHANGED <<allVars, cpc>>

\* The application makes pred true and calls condition_signal.
CondSignal(t) ==
    /\ CondAt(t, "out") /\ mpc[t] = "held" /\ ~pred
    /\ pred' = TRUE
    /\ EventNotify(t, cond)
    /\ UNCHANGED <<mVars, cpc>>

\* ... or condition_bcast
CondBcast(t) ==
    /\ CondAt(t, "out") /\ mpc[t] = "held" /\ ~pred
    /\ pred' = TRUE
    /\ EventBroadcast(t, cond)
    /\ UNCHANGED <<mVars, cpc>>

\* A thread that finds pred true uses it up.
CondConsume(t) ==
    /\ CondAt(t, "out") \/ CondAt(t, "woken")
    /\ mpc[t] = "held" /\ pred
    /\ pred' = FALSE
    /\ CondGoto(t, "out")
    /\ UNCHANGED allVars

CondBegin == cpc = [t \in Threads |-> "out"] /\ pred = FALSE

CondContinue(t) == \/ CondUnlock(t) \/ CondLock(t) \/ CondReturn(t)
                   \/ \E ms \in Durations \cup {0} : CondEventWait(t, ms)

CondCall(t) == CondWait(t) \/ CondSignal(t) \/ CondBcast(t) \/ CondConsume(t)

----------------------------------------------------------------------------
(* Properties *)

\* No signal is lost: when pred is true and a thread waits on the condition
\* variable, the signal is on its way to it, or another thread was woken (or
\* signals just now) and will look at pred.
CondNoLostSignal ==
    pred /\ queue[cond] # <<>> =>
        \/ ec[Head(queue[cond])] > 0
        \/ \E t \in Threads \ ToSet(queue[cond]) :
              \/ cpc[t] \in {"waiting", "locking", "woken"}
              \/ pc[t] \in {"notify", "broadcast"} /\ arg[t].q = cond
=============================================================================
