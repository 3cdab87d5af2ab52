--------------------------- MODULE Mutex_proofs ---------------------------
(***************************************************************************)
(* The mutex excludes, for any number of threads, any scheduling class and *)
(* with preemption or without.  The argument: preempt_disable keeps the    *)
(* counter of the running thread above zero from the test of count to its  *)
(* increment (PreemptBalanced), a tick does not switch threads then, no    *)
(* step of the kernel is under way, and so nobody sees the mutex half      *)
(* taken (Undisturbed).                                                    *)
(*                                                                         *)
(* Without preemption, besides, no waiter is stranded: whoever wakes a     *)
(* waiter makes it the one that looks at the mutex next (WaitersInv).      *)
(***************************************************************************)
EXTENDS Mutex, Sched_proofs

\* Where a thread can be in mutex.c without owning the mutex.
Apart == \A t \in Threads :
    /\ mpc[t] \in {"lock_test", "unlock_notify"} => owner # t
    /\ mpc[t] = "unlock_enable" /\ owner = t => count > 0

MInv == TypeOK /\ MTypeOK /\ Undisturbed /\ HolderOwns /\ PreemptBalanced /\ Apart

----------------------------------------------------------------------------
(* What the steps of the scheduler do to a thread inside mutex.c *)

\* A thread that runs application code is in no kernel call: the scheduler and
\* the API have no step to make.
LEMMA NoKernelStep ==
    ASSUME sc[current] = "none", pc[current] = "app", NEW t \in Threads,
           Schedule(t) \/ Continue(t)
    PROVE  FALSE
<1>1. CASE Schedule(t)
  BY <1>1 DEF Schedule, SleepTimeout, EventTimeout, ClockDone, SignalThread, KeepCurrent,
              SwitchContext, ScheduleTail, RemoteKillIf, RemoteKillBroadcast
<1>2. CASE Continue(t)
  BY <1>2 DEF Continue, IdleLoop, ThreadCreated, WaitResched, WaitStop, SignalAdd,
              SignalOnRq, KillResched, KillStop, KillJoin, KillBroadcast, KillQueue,
              EvCheck, EvEnqueue, EvReturn, JoinWait, EventNotifyAct, EventBroadcastStep,
              EventBroadcastYield, Running
<1>3. QED
  BY <1>1, <1>2

\* An interrupt does not take the CPU from a thread that disabled preemption.
LEMMA InterruptKeeps ==
    ASSUME TypeOK, Interrupt, PREEMPT => cnt[current] # 0, sc[current] = "none"
    PROVE  UNCHANGED <<current, sc, pc, cnt>>
BY DEF Interrupt, IrqNotify, Tick, Preemptible, rqVars, callVars

\* Interrupts leave the preemption counters and the progress of calls alone.
LEMMA InterruptCount ==
    ASSUME Interrupt
    PROVE  UNCHANGED <<cnt, pc>>
BY DEF Interrupt, IrqNotify, Tick, callVars

\* Every API call that raises the counter lowers it again: a kernel step moves
\* cnt exactly as it enters or leaves a section with preemption disabled.
Balance == \A u \in Threads : cnt'[u] - Step * Inside(u)' = cnt[u] - Step * Inside(u)

\* What preempt_disable adds to the counter.
LEMMA StepType == Step \in Int /\ (PREEMPT => Step = 1) /\ (~PREEMPT => Step = 0)
BY DEF Step

\* No counter changes, and no thread enters or leaves such a section.
LEMMA BalanceSame ==
    ASSUME TypeOK, UNCHANGED cnt, NEW t \in Threads, NEW l,
           pc' = [pc EXCEPT ![t] = l],
           {pc[t], l} \cap {"ev_enqueue", "kill_broadcast", "broadcast"} = {}
    PROVE  Balance
<1>1. \A u \in Threads : Inside(u)' = Inside(u)
  BY DEF TypeOK, Inside
<1>2. QED
  BY <1>1 DEF Balance

\* One thread enters a section and its counter goes up by Step.
LEMMA BalanceEnter ==
    ASSUME TypeOK, NEW t \in Threads, PreemptDisable(t), NEW l,
           pc' = [pc EXCEPT ![t] = l],
           pc[t] \notin {"ev_enqueue", "kill_broadcast", "broadcast"},
           l \in {"ev_enqueue", "kill_broadcast", "broadcast"}
    PROVE  Balance
<1>1. Inside(t) = 0 /\ Inside(t)' = 1
  BY DEF TypeOK, Inside
<1>2. \A u \in Threads \ {t} : Inside(u)' = Inside(u) /\ cnt'[u] = cnt[u]
  BY DEF TypeOK, Inside, PreemptDisable
<1>3. cnt'[t] = cnt[t] + Step /\ cnt[t] \in Int
  BY DEF TypeOK, PreemptDisable
<1>4. QED
  BY <1>1, <1>2, <1>3, StepType DEF Balance

\* One thread leaves a section and its counter goes down by Step.
LEMMA BalanceLeave ==
    ASSUME TypeOK, NEW t \in Threads, PreemptEnableNoResched(t), NEW l,
           pc' = [pc EXCEPT ![t] = l],
           pc[t] \in {"ev_enqueue", "kill_broadcast", "broadcast"},
           l \notin {"ev_enqueue", "kill_broadcast", "broadcast"}
    PROVE  Balance
<1>1. Inside(t) = 1 /\ Inside(t)' = 0
  BY DEF TypeOK, Inside
<1>2. \A u \in Threads \ {t} : Inside(u)' = Inside(u) /\ cnt'[u] = cnt[u]
  BY DEF TypeOK, Inside, PreemptEnableNoResched
<1>3. cnt'[t] = cnt[t] - Step /\ cnt[t] \in Int
  BY DEF TypeOK, PreemptEnableNoResched
<1>4. QED
  BY <1>1, <1>2, <1>3, StepType DEF Balance

\* A step that leaves the counters and the labels alone keeps the
\* balance of the preemption counters.
LEMMA BalanceUnchanged ==
    ASSUME UNCHANGED <<cnt, pc>>
    PROVE  Balance
<1>1. \A u \in Threads : Inside(u)' = Inside(u)
  BY DEF Inside
<1>2. QED
  BY <1>1 DEF Balance

\* raw_event_wait returns at once or goes on with preemption disabled.
LEMMA RawEventWaitBalance ==
    ASSUME TypeOK, NEW t \in Threads, NEW q, NEW ms, RawEventWaitCheck(t, q, ms),
           pc[t] \in {"app", "ev_check"}
    PROVE  Balance
<1>1. CASE q \in sig
  <2>1. UNCHANGED cnt /\ pc' = [pc EXCEPT ![t] = "app"]
    BY <1>1 DEF RawEventWaitCheck, Return
  <2>2. QED
    BY <2>1, BalanceSame
<1>2. CASE q \notin sig
  <2>1. PreemptDisable(t) /\ pc' = [pc EXCEPT ![t] = "ev_enqueue"]
    BY <1>2 DEF RawEventWaitCheck, Goto
  <2>2. QED
    BY <2>1, BalanceEnter
<1>3. QED
  BY <1>1, <1>2

\* No step of __schedule touches a preemption counter or an API label.
LEMMA ScheduleBalance ==
    ASSUME NEW t \in Threads, Schedule(t)
    PROVE  Balance
<1>1. UNCHANGED <<cnt, pc>>
  BY DEF Schedule, SleepTimeout, EventTimeout, ClockDone, SignalThread, KeepCurrent,
         SwitchContext, ScheduleTail, RemoteKillIf, RemoteKillBroadcast, callVars
<1>2. QED
  BY <1>1, BalanceUnchanged

\* The rest of an API call keeps counter and label in step: what disables
\* preemption enters a label of Inside, what enables it leaves one.
LEMMA ContinueBalance ==
    ASSUME TypeOK, NEW t \in Threads, Continue(t)
    PROVE  Balance
<1>1. CASE IdleLoop(t)
  BY <1>1, BalanceUnchanged DEF IdleLoop, callVars
<1>2. CASE ThreadCreated(t) \/ WaitStop(t) \/ SignalOnRq(t) \/ EvReturn(t)
             \/ EventNotifyAct(t) \/ EventBroadcastYield(t)
  <2>1. /\ UNCHANGED cnt /\ pc' = [pc EXCEPT ![t] = "app"]
        /\ pc[t] \in {"created", "wait_stop", "signal_on_rq", "ev_return", "notify",
                      "broadcast_yield"}
    BY <1>2 DEF ThreadCreated, WaitStop, SignalOnRq, EvReturn, EventNotifyAct,
                EventBroadcastYield, Return, Running
  <2>2. QED
    BY <2>1, BalanceSame
<1>3. CASE WaitResched(t) \/ SignalAdd(t) \/ KillResched(t) \/ KillStop(t)
             \/ KillQueue(t) \/ JoinWait(t)
  <2>1. PICK l \in {"wait_stop", "signal_on_rq", "kill_stop", "kill_join", "dead",
                    "ev_check"} : pc' = [pc EXCEPT ![t] = l]
    BY <1>3 DEF WaitResched, SignalAdd, KillResched, KillStop, KillQueue, JoinWait,
                ForgetSignal, Goto
  <2>2. /\ UNCHANGED cnt
        /\ pc[t] \in {"wait_resched", "signal_add", "kill_resched", "kill_stop",
                      "kill_queue", "join_wait"}
    BY <1>3 DEF WaitResched, SignalAdd, KillResched, KillStop, KillQueue, JoinWait,
                ForgetSignal, Running
  <2>3. QED
    BY <2>1, <2>2, BalanceSame
<1>4. CASE KillJoin(t)
  BY <1>4, BalanceEnter DEF KillJoin, Running, Goto
<1>5. CASE KillBroadcast(t) \/ EventBroadcastStep(t)
  <2>1. \/ UNCHANGED <<cnt, pc>>
        \/ /\ PreemptEnableNoResched(t)
           /\ pc[t] \in {"kill_broadcast", "broadcast"}
           /\ Goto(t, "kill_queue") \/ Goto(t, "broadcast_yield")
    BY <1>5 DEF KillBroadcast, EventBroadcastStep, Running
  <2>2. QED
    BY <2>1, BalanceUnchanged, BalanceLeave DEF Goto
<1>6. CASE EvCheck(t)
  BY <1>6, RawEventWaitBalance DEF EvCheck, Running
<1>7. CASE EvEnqueue(t)
  BY <1>7, BalanceLeave DEF EvEnqueue, Running, Goto
<1>8. QED
  BY <1>1, <1>2, <1>3, <1>4, <1>5, <1>6, <1>7 DEF Continue

----------------------------------------------------------------------------
(* MInv is inductive *)

\* The number of times a thread has disabled preemption is an integer.
LEMMA LevelType ==
    ASSUME MTypeOK, NEW t \in Threads
    PROVE  /\ Level(t) \in Nat /\ Inside(t) \in {0, 1}
           /\ mpc[t] \notin {"out", "held"} => Level(t) > 0
BY DEF MTypeOK, Level, Inside

\* A scheduler step that keeps the balance, with the mutex untouched.
LEMMA BalancedStep ==
    ASSUME MInv, TypeOK', Balance, UNCHANGED mVars
    PROVE  PreemptBalanced'
<1>. SUFFICES ASSUME NEW t \in Threads
              PROVE  cnt'[t] = Step * (Level(t)' + Inside(t)')
  BY DEF PreemptBalanced, Step
<1>1. Level(t)' = Level(t) /\ Level(t) \in Nat /\ Inside(t) \in {0, 1} /\ Inside(t)' \in {0, 1}
  BY LevelType DEF MInv, Level, mVars, Inside
<1>2. cnt[t] = Step * (Level(t) + Inside(t)) /\ cnt[t] \in Int /\ cnt'[t] \in Int
  BY DEF MInv, PreemptBalanced, TypeOK
<1>3. cnt'[t] - Step * Inside(t)' = cnt[t] - Step * Inside(t)
  BY DEF Balance
<1>4. CASE PREEMPT
  BY <1>1, <1>2, <1>3, <1>4, StepType
<1>5. CASE ~PREEMPT
  BY <1>1, <1>2, <1>3, <1>5, StepType
<1>6. QED
  BY <1>4, <1>5

\* The parts of MInv that speak of the mutex's variables alone.
LEMMA MutexUntouched ==
    ASSUME MInv, UNCHANGED mVars
    PROVE  MTypeOK' /\ HolderOwns' /\ Apart'
BY DEF MInv, MTypeOK, HolderOwns, Apart, mVars

\* A step of the scheduler or of the API.
LEMMA KernelInv ==
    ASSUME MInv, NEW t \in Threads, Schedule(t) \/ Continue(t), UNCHANGED mVars
    PROVE  MInv'
<1>1. TypeOK'
  BY ScheduleType, ContinueType DEF MInv
<1>2. PreemptBalanced'
  BY <1>1, ScheduleBalance, ContinueBalance, BalancedStep DEF MInv
<1>3. Undisturbed'
  <2>1. \A u \in Threads : mpc[u] \notin {"lock_take", "unlock_owner"}
    BY NoKernelStep DEF MInv, Undisturbed
  <2>2. QED
    BY <2>1 DEF Undisturbed, mVars
<1>4. QED
  BY <1>1, <1>2, <1>3, MutexUntouched DEF MInv

\* An interrupt: here the counter matters.
LEMMA InterruptInv ==
    ASSUME MInv, Interrupt, UNCHANGED mVars
    PROVE  MInv'
<1>1. TypeOK'
  BY IrqNotifyType, TickType, QueuesAssumption DEF MInv, Interrupt, QueueIds
<1>2. PreemptBalanced'
  BY <1>1, InterruptCount, BalanceUnchanged, BalancedStep
<1>3. Undisturbed'
  <2>. SUFFICES ASSUME NEW u \in Threads, mpc[u] \in {"lock_take", "unlock_owner"}
                PROVE  UNCHANGED <<current, sc, pc>>
    BY DEF Undisturbed, mVars, MInv
  <2>1. u = current /\ sc[current] = "none"
    BY DEF MInv, Undisturbed
  <2>2. PREEMPT => cnt[u] # 0
    <3>1. Level(u) \in Nat /\ Level(u) > 0 /\ Inside(u) \in {0, 1}
      BY LevelType DEF MInv
    <3>2. cnt[u] = Step * (Level(u) + Inside(u))
      BY DEF MInv, PreemptBalanced
    <3>3. QED
      BY <3>1, <3>2, StepType
  <2>3. QED
    BY <2>1, <2>2, InterruptKeeps DEF MInv
<1>4. QED
  BY <1>1, <1>2, <1>3, MutexUntouched DEF MInv

\* A call of the application outside mutex.c.
LEMMA AppCallInv ==
    ASSUME MInv, NEW t \in Threads, AppCall(t)
    PROVE  MInv'
<1>. USE DEF MInv
<1>1. UNCHANGED mVars /\ Running(t, "app") /\ mpc[t] \in {"out", "held"}
  BY DEF AppCall, Yield, Sleep, ThreadCreate, Kill, RawEventWait, Calls
<1>2. Call(t)
  BY DEF AppCall, Call
<1>3. TypeOK'
  BY <1>2, CallType
<1>4. Balance
  <2>1. ASSUME NEW q \in Queues, NEW ms \in Durations \cup {0}, RawEventWait(t, q, ms)
        PROVE  Balance
    BY <2>1, <1>1, RawEventWaitBalance DEF RawEventWait, Running
  <2>2. ASSUME \/ Yield(t) \/ Kill(t)
               \/ \E ms \in Durations : Sleep(t, ms)
               \/ \E u \in Threads : ThreadCreate(t, u)
        PROVE  Balance
    <3>1. PICK l \in {"app", "created", "kill_resched"} : pc' = [pc EXCEPT ![t] = l]
      BY <1>1, <2>2 DEF Yield, Sleep, ThreadCreate, Kill, Goto, callVars, TypeOK, Running
    <3>2. UNCHANGED cnt /\ pc[t] = "app"
      BY <1>1, <2>2 DEF Yield, Sleep, ThreadCreate, Kill, Running
    <3>3. QED
      BY <3>1, <3>2, BalanceSame
  <2>3. QED
    BY <2>1, <2>2 DEF AppCall
<1>5. Undisturbed'
  <2>1. \A u \in Threads : mpc[u] \notin {"lock_take", "unlock_owner"}
    BY <1>1 DEF Undisturbed, Running
  <2>2. QED
    BY <1>1, <2>1 DEF Undisturbed, mVars
<1>6. QED
  BY <1>1, <1>3, <1>4, <1>5, BalancedStep, MutexUntouched

\* A step of mutex.c that leaves the scheduler alone keeps its types.
LEMMA TypeUnchanged ==
    ASSUME TypeOK, UNCHANGED vars
    PROVE  TypeOK'
BY DEF vars, rqVars, evVars, tmrVars, deadVars, irqVars, callVars, TypeOK

\* A step of mutex.c that moves only a counter and a phase keeps the types.
LEMMA TypeButCnt ==
    ASSUME TypeOK, CntOK', ScOK', UNCHANGED SchedButCnt
    PROVE  TypeOK'
BY TypeParts DEF SchedButCnt, rqVars, evVars, tmrVars, deadVars, irqVars, callVars,
                 RqOK, FlagsOK, EvOK, TmrOK, CurOK, DeadOK, IrqOK, CallOK

\* A step in which t alone moves inside mutex.c: if its counter and its level
\* move together, the counters stay balanced.
LEMMA BalancedMove ==
    ASSUME MInv, MTypeOK', NEW t \in Threads,
           \/ PreemptDisable(t) /\ Level(t)' = Level(t) + 1
           \/ PreemptEnableNoResched(t) /\ Level(t)' = Level(t) - 1,
           \A u \in Threads \ {t} : Level(u)' = Level(u), UNCHANGED pc
    PROVE  PreemptBalanced'
<1>. SUFFICES ASSUME NEW u \in Threads
              PROVE  cnt'[u] = Step * (Level(u)' + Inside(u)')
  BY DEF PreemptBalanced, Step
<1>1. Level(u) \in Nat /\ Inside(u) \in {0, 1} /\ Inside(u)' = Inside(u)
  BY LevelType DEF MInv, Inside
<1>2. cnt[u] = Step * (Level(u) + Inside(u)) /\ cnt[u] \in Int
  BY DEF MInv, PreemptBalanced, TypeOK
<1>3. cnt \in [Threads -> Int]
  BY DEF MInv, TypeOK
<1>4. CASE u = t
  <2>1. \/ cnt'[u] = cnt[u] + Step /\ Level(u)' = Level(u) + 1
        \/ cnt'[u] = cnt[u] - Step /\ Level(u)' = Level(u) - 1
    BY <1>3, <1>4 DEF PreemptDisable, PreemptEnableNoResched
  <2>2. CASE PREEMPT
    BY <1>1, <1>2, <2>1, <2>2, StepType
  <2>3. CASE ~PREEMPT
    BY <1>1, <1>2, <2>1, <2>3, StepType
  <2>4. QED
    BY <2>2, <2>3
<1>5. CASE u # t
  <2>1. cnt'[u] = cnt[u] /\ Level(u)' = Level(u)
    BY <1>3, <1>5 DEF PreemptDisable, PreemptEnableNoResched
  <2>2. QED
    BY <1>1, <1>2, <2>1
<1>6. QED
  BY <1>4, <1>5

\* mutex_lock, entered: preemption is off before count is looked at.
LEMMA LockEnterInv ==
    ASSUME MInv, NEW t \in Threads, LockEnter(t)
    PROVE  MInv'
<1>. USE DEF MInv
<1>1. /\ Running(t, "app") /\ mpc[t] \in {"out", "held"}
      /\ mpc' = [mpc EXCEPT ![t] = IF owner = t THEN "lock_take" ELSE "lock_test"]
      /\ UNCHANGED <<current, sc, pc, count, owner>>
      /\ PreemptDisable(t)
  BY DEF LockEnter, Calls, MGoto, SchedButCnt, rqVars, callVars
<1>2. TypeOK'
  <2>1. CntOK' /\ ScOK'
    BY PreemptCountType, TypeParts DEF LockEnter, SchedButCnt, irqVars, ScOK
  <2>2. QED
    BY <2>1, TypeButCnt DEF LockEnter
<1>3. MTypeOK'
  BY <1>1 DEF MTypeOK, MLabels
<1>4. Undisturbed'
  BY <1>1 DEF Undisturbed, Running, MTypeOK
<1>5. HolderOwns' /\ Apart'
  BY <1>1 DEF HolderOwns, Apart, MTypeOK
<1>6. PreemptBalanced'
  <2>1. Level(t)' = Level(t) + 1 /\ \A u \in Threads \ {t} : Level(u)' = Level(u)
    BY <1>1 DEF Level, MTypeOK
  <2>2. QED
    BY <1>1, <1>3, <2>1, BalancedMove
<1>7. QED
  BY <1>2, <1>3, <1>4, <1>5, <1>6

\* mutex_lock leaves its loop only with count = 0, and still on the CPU.
LEMMA LockPassInv ==
    ASSUME MInv, NEW t \in Threads, LockPass(t)
    PROVE  MInv'
<1>. USE DEF MInv
<1>1. /\ Running(t, "app") /\ mpc[t] = "lock_test" /\ count = 0
      /\ mpc' = [mpc EXCEPT ![t] = "lock_take"]
      /\ UNCHANGED <<vars, count, owner>>
  BY DEF LockPass, At, MGoto
<1>2. TypeOK' /\ MTypeOK'
  BY <1>1, TypeUnchanged DEF MTypeOK, MLabels
<1>3. Undisturbed'
  BY <1>1 DEF Undisturbed, Running, MTypeOK, vars, rqVars, callVars
<1>4. HolderOwns' /\ Apart'
  BY <1>1 DEF HolderOwns, Apart, MTypeOK
<1>5. PreemptBalanced'
  <2>1. \A u \in Threads : Level(u)' = Level(u) /\ Inside(u)' = Inside(u)
    BY <1>1 DEF Level, Inside, MTypeOK, vars, callVars
  <2>2. QED
    BY <1>1, <2>1 DEF PreemptBalanced, vars, Step
<1>6. QED
  BY <1>2, <1>3, <1>4, <1>5

\* mutex_lock waits for the owner to notify.
LEMMA LockWaitInv ==
    ASSUME MInv, NEW t \in Threads, LockWait(t)
    PROVE  MInv'
<1>. USE DEF MInv
<1>1. /\ Running(t, "app") /\ mpc[t] = "lock_test" /\ UNCHANGED mVars
      /\ RawEventWaitCheck(t, mutex, 0)
      /\ UNCHANGED <<rqVars, flags, wake, queue, ec, tmrVars, deadVars, irqVars, scan>>
  BY DEF LockWait, At, RawEventWait
<1>2. TypeOK'
  BY <1>1, RawEventWaitCheckType, MutexAssumption DEF QueueIds
<1>3. PreemptBalanced'
  BY <1>1, <1>2, RawEventWaitBalance, BalancedStep DEF Running
<1>4. Undisturbed'
  <2>1. \A u \in Threads : mpc[u] \notin {"lock_take", "unlock_owner"}
    BY <1>1 DEF Undisturbed, Running
  <2>2. QED
    BY <1>1, <2>1 DEF Undisturbed, mVars
<1>5. QED
  BY <1>1, <1>2, <1>3, <1>4, MutexUntouched

\* mutex_lock takes a mutex that is free or already its own.
LEMMA LockTakeInv ==
    ASSUME MInv, NEW t \in Threads, LockTake(t)
    PROVE  MInv'
<1>. USE DEF MInv
<1>1. /\ mpc[t] = "lock_take" /\ (count = 0 \/ owner = t)
      /\ mpc' = [mpc EXCEPT ![t] = "held"]
      /\ count' = count + 1 /\ owner' = t /\ UNCHANGED vars
  BY DEF LockTake, At, MGoto, Undisturbed
<1>2. TypeOK' /\ MTypeOK'
  BY <1>1, TypeUnchanged DEF MTypeOK, MLabels
<1>3. Undisturbed'
  BY <1>1 DEF Undisturbed, MTypeOK
<1>4. HolderOwns' /\ Apart'
  BY <1>1 DEF HolderOwns, Apart, MTypeOK
<1>5. PreemptBalanced'
  <2>1. \A u \in Threads : Level(u)' = Level(u) /\ Inside(u)' = Inside(u)
    BY <1>1 DEF Level, Inside, MTypeOK, vars, callVars
  <2>2. QED
    BY <1>1, <2>1 DEF PreemptBalanced, vars, Step
<1>6. QED
  BY <1>2, <1>3, <1>4, <1>5

\* mutex_unlock decrements count; the owner stays until the next step.
LEMMA UnlockInv ==
    ASSUME MInv, NEW t \in Threads, Unlock(t)
    PROVE  MInv'
<1>. USE DEF MInv
<1>1. /\ Running(t, "app") /\ mpc[t] = "held" /\ owner = t /\ count > 0
      /\ mpc' = [mpc EXCEPT ![t] = IF count = 1 THEN "unlock_owner" ELSE "unlock_enable"]
      /\ count' = count - 1 /\ UNCHANGED <<vars, owner>>
  BY DEF Unlock, Calls, MGoto, HolderOwns
<1>2. TypeOK' /\ MTypeOK'
  BY <1>1, TypeUnchanged DEF MTypeOK, MLabels
<1>3. Undisturbed'
  BY <1>1 DEF Undisturbed, Running, MTypeOK, vars, rqVars, callVars
<1>4. HolderOwns' /\ Apart'
  BY <1>1 DEF HolderOwns, Apart, MTypeOK
<1>5. PreemptBalanced'
  <2>1. \A u \in Threads : Level(u)' = Level(u) /\ Inside(u)' = Inside(u)
    BY <1>1 DEF Level, Inside, MTypeOK, vars, callVars
  <2>2. QED
    BY <1>1, <2>1 DEF PreemptBalanced, vars, Step
<1>6. QED
  BY <1>2, <1>3, <1>4, <1>5

\* mutex_unlock clears the owner of a mutex whose count it brought to 0.
LEMMA UnlockOwnerInv ==
    ASSUME MInv, NEW t \in Threads, UnlockOwner(t)
    PROVE  MInv'
<1>. USE DEF MInv
<1>1. /\ Running(t, "app") /\ mpc[t] = "unlock_owner" /\ owner = t /\ count = 0
      /\ mpc' = [mpc EXCEPT ![t] = "unlock_notify"]
      /\ owner' = NULL /\ UNCHANGED <<vars, count>>
  BY DEF UnlockOwner, At, MGoto, Undisturbed
<1>2. TypeOK' /\ MTypeOK'
  BY <1>1, TypeUnchanged DEF MTypeOK, MLabels
<1>3. Undisturbed'
  BY <1>1 DEF Undisturbed, Running, MTypeOK
<1>4. HolderOwns' /\ Apart'
  BY <1>1, MutexAssumption DEF HolderOwns, Apart, MTypeOK
<1>5. PreemptBalanced'
  <2>1. \A u \in Threads : Level(u)' = Level(u) /\ Inside(u)' = Inside(u)
    BY <1>1, MutexAssumption DEF Level, Inside, MTypeOK, vars, callVars
  <2>2. QED
    BY <1>1, <2>1 DEF PreemptBalanced, vars, Step
<1>6. QED
  BY <1>2, <1>3, <1>4, <1>5

\* unlock's event_notify runs with the mutex already free.
LEMMA UnlockNotifyInv ==
    ASSUME MInv, NEW t \in Threads, UnlockNotify(t)
    PROVE  MInv'
<1>. USE DEF MInv
<1>1. /\ Running(t, "app") /\ mpc[t] = "unlock_notify" /\ EventNotify(t, mutex)
      /\ mpc' = [mpc EXCEPT ![t] = "unlock_enable"] /\ UNCHANGED <<count, owner>>
  BY DEF UnlockNotify, At, MGoto
<1>2. TypeOK' /\ MTypeOK'
  BY <1>1, EventNotifyType, MutexAssumption DEF QueueIds, MTypeOK, MLabels
<1>3. /\ UNCHANGED cnt /\ pc[t] = "app"
      /\ pc' = [pc EXCEPT ![t] = "notify"] \/ UNCHANGED pc
  BY <1>1 DEF EventNotify, Running, Goto, callVars
<1>4. Undisturbed'
  <2>1. \A u \in Threads : mpc[u] \notin {"lock_take", "unlock_owner"}
    BY <1>1 DEF Undisturbed, Running
  <2>2. QED
    BY <1>1, <2>1 DEF Undisturbed, MTypeOK
<1>5. HolderOwns' /\ Apart'
  BY <1>1 DEF HolderOwns, Apart, MTypeOK
<1>6. PreemptBalanced'
  <2>1. \A u \in Threads : Level(u)' = Level(u)
    BY <1>1 DEF Level, MTypeOK
  <2>2. \A u \in Threads : Inside(u)' = Inside(u)
    BY <1>3 DEF Inside, TypeOK
  <2>3. QED
    BY <1>3, <2>1, <2>2 DEF PreemptBalanced, Step
<1>7. QED
  BY <1>2, <1>4, <1>5, <1>6

\* mutex_unlock gives back the preempt_disable of the matching mutex_lock.
LEMMA UnlockEnableInv ==
    ASSUME MInv, NEW t \in Threads, UnlockEnable(t)
    PROVE  MInv'
<1>. USE DEF MInv
<1>1. /\ Running(t, "app") /\ mpc[t] = "unlock_enable"
      /\ mpc' = [mpc EXCEPT ![t] = IF owner = t THEN "held" ELSE "out"]
      /\ UNCHANGED <<current, pc, isr, count, owner>>
      /\ PreemptEnableNoResched(t)
      /\ PreemptEnable(t, cnt[t] - Step, flags[t])
  BY DEF UnlockEnable, At, MGoto, SchedButCnt, rqVars, callVars,
         irqVars
<1>2. TypeOK'
  <2>1. CntOK' /\ ScOK'
    BY <1>1, PreemptCountType, PreemptEnableType, TypeParts DEF UnlockEnable
  <2>2. QED
    BY <2>1, TypeButCnt DEF UnlockEnable
<1>3. MTypeOK'
  BY <1>1 DEF MTypeOK, MLabels
<1>4. Undisturbed'
  <2>1. \A u \in Threads : mpc[u] \notin {"lock_take", "unlock_owner"}
    BY <1>1 DEF Undisturbed, Running
  <2>2. QED
    BY <1>1, <2>1 DEF Undisturbed, MTypeOK
<1>5. HolderOwns' /\ Apart'
  BY <1>1 DEF HolderOwns, Apart, MTypeOK
<1>6. PreemptBalanced'
  <2>1. Level(t)' = Level(t) - 1 /\ \A u \in Threads \ {t} : Level(u)' = Level(u)
    BY <1>1 DEF Level, MTypeOK
  <2>2. QED
    BY <1>1, <1>3, <2>1, BalancedMove
<1>7. QED
  BY <1>2, <1>3, <1>4, <1>5, <1>6

\* The inductive invariant holds after mutex_init.
LEMMA MInitInv == MInit => MInv
<1>. SUFFICES ASSUME MInit PROVE MInv
  OBVIOUS
<1>1. TypeOK
  BY InitType DEF MInit
<1>2. MTypeOK /\ Undisturbed /\ HolderOwns /\ Apart
  BY DEF MInit, MTypeOK, MLabels, Undisturbed, HolderOwns, Apart
<1>3. PreemptBalanced
  <2>. SUFFICES ASSUME NEW t \in Threads PROVE cnt[t] = Step * (Level(t) + Inside(t))
    BY DEF PreemptBalanced
  <2>1. Inside(t) = 0 /\ Level(t) = IF t = Idle THEN 1 ELSE 0
    BY MutexAssumption DEF MInit, Init, Inside, Level
  <2>2. cnt[t] = IF t = Idle THEN Step ELSE 0
    BY DEF MInit, Init
  <2>3. QED
    BY <2>1, <2>2, StepType
<1>4. QED
  BY <1>1, <1>2, <1>3 DEF MInv

\* Every step of the scheduler, an interrupt or the mutex keeps the inductive
\* invariant.
LEMMA MNextInv == MInv /\ [MNext]_allVars => MInv'
<1>. SUFFICES ASSUME MInv, [MNext]_allVars PROVE MInv'
  OBVIOUS
<1>1. ASSUME NEW t \in Threads, MContinue(t) PROVE MInv'
  BY <1>1, LockPassInv, LockWaitInv, LockTakeInv, UnlockOwnerInv, UnlockNotifyInv,
     UnlockEnableInv DEF MContinue
<1>2. CASE Kernel /\ UNCHANGED mVars
  BY <1>2, KernelInv DEF Kernel
<1>3. CASE Interrupt /\ UNCHANGED mVars
  BY <1>3, InterruptInv
<1>4. ASSUME NEW t \in Threads, AppCall(t) \/ LockEnter(t) \/ Unlock(t) PROVE MInv'
  BY <1>4, AppCallInv, LockEnterInv, UnlockInv
<1>5. CASE UNCHANGED allVars
  <2>1. TypeOK' /\ UNCHANGED <<mVars, cnt, pc, current, sc>>
    BY <1>5, TypeUnchanged DEF allVars, vars, rqVars, callVars, MInv
  <2>2. PreemptBalanced'
    BY <2>1, BalanceUnchanged, BalancedStep
  <2>3. Undisturbed'
    BY <2>1 DEF Undisturbed, mVars, MInv
  <2>4. QED
    BY <2>1, <2>2, <2>3, MutexUntouched DEF MInv
<1>6. QED
  BY <1>1, <1>2, <1>3, <1>4, <1>5 DEF MNext, MKernel

----------------------------------------------------------------------------
(* The theorems *)

\* No thread but the owner is in the critical section, no thread sees the mutex
\* half taken, and the preemption counters fit the nesting: for any threads.
THEOREM MutexSafe == MSpec => [](Undisturbed /\ HolderOwns /\ PreemptBalanced)
<1>1. MInv => Undisturbed /\ HolderOwns /\ PreemptBalanced
  BY DEF MInv
<1>2. QED
  BY <1>1, MInitInv, MNextInv, PTL DEF MSpec

\* Wherever a thread that has just been switched in could look, count and owner
\* of the mutex agree: the two are never changed apart.
THEOREM NeverHalfTaken == MSpec => []Undisturbed
BY MutexSafe, PTL

\* The preemption counter of every thread is what the calls it is inside of make
\* it: no path through mutex.c or the event queues forgets a preempt_enable.
THEOREM CountersBalanced == MSpec => []PreemptBalanced
BY MutexSafe, PTL

\* At most one thread is between a mutex_lock that returned and its unlock.
THEOREM MutualExclusion ==
    MSpec => [](\A t, u \in Threads : mpc[t] = "held" /\ mpc[u] = "held" => t = u)
<1>1. MInv => \A t, u \in Threads : mpc[t] = "held" /\ mpc[u] = "held" => t = u
  BY DEF MInv, HolderOwns
<1>2. QED
  BY <1>1, MInitInv, MNextInv, PTL DEF MSpec

\* Every step of the mutex, the scheduler and the interrupts is a step of the
\* abstract lock, or leaves it as it is.
LEMMA RefinesStep ==
    ASSUME MInv, [MNext]_allVars
    PROVE  [Lock!LockNext]_(Lock!lockVars)
<1>. USE DEF Lock!LockNext, Lock!lockVars, Lock!Acquire, Lock!Release, Lock!Free
<1>1. CASE UNCHANGED <<count, owner>>
  BY <1>1
<1>2. ASSUME NEW t \in Threads, LockTake(t) PROVE Lock!Acquire(t)
  <2>1. count' = count + 1 /\ owner' = t /\ count \in Nat /\ (count = 0 \/ owner = t)
    BY <1>2 DEF LockTake, At, MInv, Undisturbed, MTypeOK
  <2>2. QED
    BY <2>1
<1>3. ASSUME NEW t \in Threads, Unlock(t) PROVE Lock!Release(t)
  <2>1. count' = count - 1 /\ owner' = owner /\ owner = t /\ count \in Nat /\ count > 0
    BY <1>3 DEF Unlock, MInv, HolderOwns, MTypeOK
  <2>2. QED
    BY <2>1
<1>4. ASSUME NEW t \in Threads, UnlockOwner(t) PROVE UNCHANGED Lock!lockVars
  BY <1>4 DEF UnlockOwner, At, MInv, Undisturbed
<1>5. \/ UNCHANGED <<count, owner>>
      \/ \E t \in Threads : LockTake(t) \/ Unlock(t) \/ UnlockOwner(t)
  BY DEF MNext, MKernel, MContinue, AppCall, LockEnter, LockPass, LockWait, UnlockNotify,
         UnlockEnable, allVars, mVars
<1>6. QED
  BY <1>1, <1>2, <1>3, <1>4, <1>5

\* mutex.c, run by the scheduler under preemption, implements the lock.
THEOREM MutexRefines == MSpec => ImplementsLock
<1>1. MInit => Lock!Free
  BY DEF MInit, Lock!Free
<1>2. QED
  BY <1>1, MInitInv, MNextInv, RefinesStep, PTL DEF MSpec, ImplementsLock, Lock!LockSpec

----------------------------------------------------------------------------
(* No waiter is stranded *)

\* Whoever comes to wait for the mutex found it taken, and stays in the loop;
\* when it is free and a thread waits, somebody is on the way to take it or to
\* wake the waiter.
Heeded(t) == \/ mpc[t] \in {"lock_test", "lock_take", "unlock_owner", "unlock_notify"}
             \/ Notifying(t, mutex)

WaitersInv ==
    /\ \A t \in Threads : Entering(t, mutex) => mpc[t] = "lock_test" /\ count # 0
    /\ \A t \in Threads : t \in InQ(mutex) => mpc[t] = "lock_test"
    /\ count = 0 /\ queue[mutex] # <<>> => \E t \in Threads : t \notin InQ(mutex) /\ Heeded(t)

\* A step of anybody else
LEMMA TameWaiters ==
    ASSUME CoopInv, CoopInv', WaitersInv, Tame(mutex), UNCHANGED mVars
    PROVE  WaitersInv'
<1>1. mutex \in QueueIds /\ queue \in [QueueIds -> Seq(Threads)] /\ queue' \in [QueueIds -> Seq(Threads)]
  BY MutexAssumption DEF CoopInv, TypeOK, QueueIds
<1>2. (queue[mutex] = <<>> <=> InQ(mutex) = {}) /\ (queue'[mutex] = <<>> <=> InQ(mutex)' = {}) /\ InQ(mutex)' \subseteq Threads
  BY <1>1, EmptyList DEF InQ
<1>3. \A t \in Threads : Entering(t, mutex)' => mpc'[t] = "lock_test" /\ count' # 0
  BY DEF Tame, WaitersInv, mVars
<1>4. \A t \in Threads : t \in InQ(mutex)' => mpc'[t] = "lock_test"
  BY DEF Tame, WaitersInv, mVars, Entering
<1>5. ASSUME count' = 0, queue'[mutex] # <<>>
      PROVE  \E t \in Threads : t \notin InQ(mutex)' /\ Heeded(t)'
  <2>1. InQ(mutex)' \subseteq InQ(mutex)
    BY <1>2, <1>5 DEF Tame, WaitersInv, mVars, Entering
  <2>2. count = 0 /\ queue[mutex] # <<>>
    BY <1>2, <1>5, <2>1 DEF mVars
  <2>3. PICK t \in Threads : t \notin InQ(mutex) /\ Heeded(t)
    BY <2>2 DEF WaitersInv
  <2>4. CASE Heeded(t)'
    BY <2>1, <2>3, <2>4
  <2>5. CASE ~Heeded(t)'
    <3>1. PICK w \in Threads : w \in InQ(mutex) /\ w \notin InQ(mutex)'
      BY <2>2, <2>3, <2>5 DEF Tame, Heeded, mVars
    <3>2. Heeded(w)'
      BY <3>1 DEF WaitersInv, Heeded, mVars
    <3>3. QED
      BY <3>1, <3>2
  <2>6. QED
    BY <2>4, <2>5
<1>6. QED
  BY <1>3, <1>4, <1>5 DEF WaitersInv

\* A thread inside mutex.c runs, and is neither in a queue nor on the way to one.
LEMMA InsideRuns ==
    ASSUME CoopInv, NEW t \in Threads, Running(t, "app")
    PROVE  /\ \A q \in QueueIds : t \notin InQ(q)
           /\ \A u \in Threads : pc[u] \in {"ev_check", "ev_enqueue", "notify", "broadcast"} => FALSE
           /\ mutex \in QueueIds
<1>1. mutex \in QueueIds
  BY MutexAssumption DEF QueueIds
<1>2. QED
  BY <1>1, InQueue DEF CoopInv, ControlInv, Outside, Running

\* A step inside mutex.c that leaves queues and calls alone
LEMMA InsideWaiters ==
    ASSUME CoopInv, MTypeOK, WaitersInv, NEW t \in Threads, Running(t, "app"), UNCHANGED <<queue, pc, arg>>,
           NEW l, mpc' = [mpc EXCEPT ![t] = l],
           \/ count' # 0
           \/ count' = count /\ (Heeded(t) => l \in {"lock_test", "lock_take", "unlock_owner", "unlock_notify"})
           \/ l \in {"lock_test", "lock_take", "unlock_owner", "unlock_notify"}
    PROVE  WaitersInv'
<1>1. t \notin InQ(mutex) /\ mutex \in QueueIds /\ \A u \in Threads : ~Entering(u, mutex) /\ ~Notifying(u, mutex)
  BY InsideRuns DEF Entering, Notifying
<1>2. InQ(mutex)' = InQ(mutex) /\ \A u \in Threads : ~Entering(u, mutex)' /\ ~Notifying(u, mutex)'
  BY <1>1 DEF InQ, Entering, Notifying
<1>3. mpc'[t] = l /\ \A u \in Threads \ {t} : mpc'[u] = mpc[u]
  BY DEF MTypeOK
<1>4. \A u \in Threads : u \in InQ(mutex)' => mpc'[u] = "lock_test"
  BY <1>1, <1>2, <1>3 DEF WaitersInv
<1>5. ASSUME count' = 0, queue'[mutex] # <<>>
      PROVE  \E u \in Threads : u \notin InQ(mutex)' /\ Heeded(u)'
  <2>1. CASE l \in {"lock_test", "lock_take", "unlock_owner", "unlock_notify"}
    BY <1>1, <1>2, <1>3, <2>1 DEF Heeded
  <2>2. CASE count' = count /\ ~Heeded(t)
    <3>1. PICK u \in Threads : u \notin InQ(mutex) /\ Heeded(u)
      BY <1>5, <2>2 DEF WaitersInv
    <3>2. u # t /\ Heeded(u)'
      BY <1>1, <1>3, <2>2, <3>1 DEF Heeded
    <3>3. QED
      BY <1>2, <3>1, <3>2
  <2>3. QED
    BY <1>5, <2>1, <2>2
<1>6. QED
  BY <1>2, <1>4, <1>5 DEF WaitersInv

\* mutex_lock and mutex_unlock keep it.
LEMMA MutexWaiters ==
    ASSUME CoopInv, MTypeOK, HolderOwns, WaitersInv, NEW t \in Threads, LockEnter(t) \/ MContinue(t) \/ Unlock(t)
    PROVE  WaitersInv'
<1>1. mpc \in [Threads -> MLabels] /\ count \in Nat
  BY DEF MTypeOK
<1>2. CASE LockEnter(t)
  BY <1>2, InsideWaiters, InsideRuns DEF LockEnter, Calls, MGoto, SchedButCnt, evVars, callVars, Heeded, Notifying
<1>3. CASE LockPass(t)
  BY <1>3, InsideWaiters DEF LockPass, At, MGoto, vars, evVars, callVars
<1>4. CASE LockTake(t)
  <2>1. count' # 0
    BY <1>1, <1>4 DEF LockTake
  <2>2. QED
    BY <1>4, <2>1, InsideWaiters DEF LockTake, At, MGoto, vars, evVars, callVars
<1>5. CASE Unlock(t)
  <2>1. count' = 0 => count = 1
    BY <1>1, <1>5 DEF Unlock, HolderOwns
  <2>2. QED
    BY <1>5, <2>1, InsideWaiters DEF Unlock, Calls, MGoto, vars, evVars, callVars
<1>6. CASE UnlockOwner(t)
  BY <1>6, InsideWaiters DEF UnlockOwner, At, MGoto, vars, evVars, callVars
<1>7. CASE UnlockEnable(t)
  BY <1>7, InsideWaiters, InsideRuns DEF UnlockEnable, At, MGoto, SchedButCnt, evVars, callVars, Heeded, Notifying
<1>8. CASE LockWait(t)
  <2>1. Running(t, "app") /\ mpc[t] = "lock_test" /\ count # 0 /\ UNCHANGED <<queue, count, mpc>>
        /\ \A u \in Threads \ {t} : pc'[u] = pc[u] /\ arg'[u] = arg[u]
    BY <1>8 DEF LockWait, At, RawEventWait, RawEventWaitCheck, Goto, Return, mVars, CoopInv, TypeOK
  <2>2. \A u \in Threads : Entering(u, mutex)' => u = t
    BY <2>1, InsideRuns DEF Entering
  <2>3. QED
    BY <2>1, <2>2 DEF WaitersInv, InQ
<1>9. CASE UnlockNotify(t)
  <2>1. Running(t, "app") /\ mpc' = [mpc EXCEPT ![t] = "unlock_enable"] /\ UNCHANGED <<queue, count>> /\ ~irqExec
    BY <1>9 DEF UnlockNotify, At, MGoto, EventNotify, CoopInv, ControlInv
  <2>2. pc' = [pc EXCEPT ![t] = "notify"] /\ arg'[t].q = mutex
    <3>1. PICK h : pc' = [pc EXCEPT ![t] = "notify"] /\ arg' = [arg EXCEPT ![t].q = mutex, ![t].head = h]
      BY <1>9, <2>1 DEF UnlockNotify, EventNotify, Goto
    <3>2. arg \in [Threads -> Args]
      BY DEF CoopInv, TypeOK
    <3>3. QED
      BY <3>1, <3>2 DEF Args
  <2>3. t \notin InQ(mutex) /\ mutex \in QueueIds /\ \A u \in Threads : pc[u] \in {"ev_check", "ev_enqueue"} => FALSE
    BY <2>1, InsideRuns
  <2>4. \A u \in Threads : ~Entering(u, mutex)'
    BY <2>2, <2>3 DEF Entering, CoopInv, TypeOK
  <2>5. Heeded(t)' /\ InQ(mutex)' = InQ(mutex)
    BY <2>1, <2>2 DEF Heeded, Notifying, CoopInv, TypeOK, InQ
  <2>6. \A u \in Threads : u \in InQ(mutex)' => mpc'[u] = "lock_test"
    BY <1>1, <2>1, <2>3, <2>5 DEF WaitersInv
  <2>7. QED
    BY <2>3, <2>4, <2>5, <2>6 DEF WaitersInv
<1>10. QED
  BY <1>2, <1>3, <1>4, <1>5, <1>6, <1>7, <1>8, <1>9 DEF MContinue

\* What the application does beside the mutex
LEMMA AppElsewhere ==
    ASSUME NEW t \in Threads, AppCall(t), pc \in [Threads -> Labels], arg \in [Threads -> Args]
    PROVE  Elsewhere(mutex)
<1>1. pc[t] = "app"
  BY DEF AppCall, Yield, Sleep, ThreadCreate, RawEventWait, Kill, Calls, Running
<1>2. UNCHANGED queue
  BY DEF AppCall, Yield, Sleep, ThreadCreate, RawEventWait, Kill, evVars
<1>3. \A u \in Threads \ {t} : pc'[u] = pc[u] /\ arg'[u] = arg[u]
  BY DEF AppCall, Yield, Sleep, ThreadCreate, RawEventWait, RawEventWaitCheck, Kill, callVars, Goto, Return
<1>4. pc'[t] \in {"ev_check", "ev_enqueue"} => arg'[t].q # mutex
  <2>1. CASE Yield(t)
    BY <1>1, <2>1 DEF Yield, callVars
  <2>2. CASE \E ms \in Durations : Sleep(t, ms)
    BY <1>1, <2>2 DEF Sleep, callVars
  <2>3. CASE \E u \in Threads : ThreadCreate(t, u)
    BY <2>3 DEF ThreadCreate, Goto
  <2>4. CASE Kill(t)
    BY <2>4 DEF Kill, Goto
  <2>5. ASSUME NEW q \in Queues \ {mutex}, NEW ms \in Durations \cup {0}, RawEventWait(t, q, ms)
        PROVE  pc'[t] \in {"ev_check", "ev_enqueue"} => arg'[t].q # mutex
    BY <2>5 DEF RawEventWait, RawEventWaitCheck, Goto, Return, Args
  <2>6. QED
    BY <2>1, <2>2, <2>3, <2>4, <2>5 DEF AppCall
<1>5. QED
  BY <1>1, <1>2, <1>3, <1>4 DEF Elsewhere

\* Interrupts move no call.
LEMMA InterruptElsewhere ==
    ASSUME Interrupt, NEW q
    PROVE  Elsewhere(q)
BY DEF Interrupt, IrqNotify, Tick, evVars, callVars, Elsewhere

\* Without CONFIG_PREEMPT the mutex makes calls of the scheduler or none.
LEMMA MutexCalls ==
    ASSUME Cooperative, TypeOK, NEW t \in Threads,
           AppCall(t) \/ LockEnter(t) \/ MContinue(t) \/ Unlock(t)
    PROVE  Call(t) \/ UNCHANGED vars
<1>1. Step = 0 /\ cnt \in [Threads -> Int] /\ sc \in [Threads -> Phases]
  BY DEF Cooperative, Step, TypeOK
<1>2. CASE LockEnter(t)
  BY <1>1, <1>2 DEF LockEnter, PreemptDisable, SchedButCnt, vars
<1>3. CASE UnlockEnable(t)
  BY <1>1, <1>3 DEF UnlockEnable, PreemptEnableNoResched, PreemptEnable, Cooperative, SchedButCnt, vars
<1>4. CASE LockPass(t) \/ LockTake(t) \/ Unlock(t) \/ UnlockOwner(t)
  BY <1>4 DEF LockPass, LockTake, Unlock, UnlockOwner
<1>5. CASE LockWait(t) \/ UnlockNotify(t)
  BY <1>5, MutexAssumption DEF LockWait, UnlockNotify, Call
<1>6. CASE AppCall(t)
  BY <1>6 DEF AppCall, Call
<1>7. QED
  BY <1>2, <1>3, <1>4, <1>5, <1>6 DEF MContinue

\* The mutex of the cooperative kernel keeps the scheduler's invariant.
LEMMA MutexCoop ==
    ASSUME Cooperative, CoopInv, [MNext]_allVars
    PROVE  CoopInv'
<1>1. CASE UNCHANGED allVars
  BY <1>1, CoopNext DEF allVars
<1>2. CASE MNext
  <2>1. Next \/ UNCHANGED vars
    BY <1>2, MutexCalls DEF MNext, MKernel, Next, CoopInv
  <2>2. QED
    BY <2>1, CoopNext
<1>3. QED
  BY <1>1, <1>2

StrandInv == CoopInv /\ MInv /\ WaitersInv

\* Every step keeps the waiters of the mutex looked after.
LEMMA StrandNext ==
    ASSUME Cooperative, StrandInv, [MNext]_allVars
    PROVE  StrandInv'
<1>1. CoopInv' /\ MInv'
  BY MutexCoop, MNextInv DEF StrandInv
<1>2. CoopInv /\ MTypeOK /\ HolderOwns /\ WaitersInv /\ mutex \in Queues
  BY MutexAssumption DEF StrandInv, MInv
<1>3. pc \in [Threads -> Labels] /\ arg \in [Threads -> Args]
  BY <1>2 DEF CoopInv, TypeOK
<1>4. CASE UNCHANGED allVars
  BY <1>1, <1>2, <1>4 DEF StrandInv, WaitersInv, Heeded, Entering, Notifying, InQ, allVars, mVars, vars, evVars, callVars
<1>5. CASE Kernel /\ UNCHANGED mVars
  BY <1>1, <1>2, <1>5, KernelTame, TameWaiters DEF StrandInv
<1>6. CASE Interrupt /\ UNCHANGED mVars
  BY <1>1, <1>2, <1>6, InterruptElsewhere, ElsewhereTame, TameWaiters DEF StrandInv
<1>7. ASSUME NEW t \in Threads, AppCall(t)
      PROVE  WaitersInv'
  BY <1>1, <1>2, <1>3, <1>7, AppElsewhere, ElsewhereTame, TameWaiters DEF AppCall
<1>8. ASSUME NEW t \in Threads, LockEnter(t) \/ MContinue(t) \/ Unlock(t)
      PROVE  WaitersInv'
  BY <1>2, <1>8, MutexWaiters
<1>9. QED
  BY <1>1, <1>4, <1>5, <1>6, <1>7, <1>8 DEF MNext, MKernel, StrandInv

\* What mutex_unlock and mutex_lock promise each other without a lock: a free
\* mutex never has a waiter that nobody will wake.
THEOREM NobodyStranded ==
    ASSUME Cooperative
    PROVE  MSpec => []NoStrandedWaiter
<1>1. MInit => StrandInv
  <2>1. ASSUME MInit
        PROVE  WaitersInv
    <3>1. \A t \in Threads : ~Entering(t, mutex) /\ queue[mutex] = <<>> /\ t \notin InQ(mutex)
      BY <2>1, MutexAssumption DEF MInit, Init, Entering, InQ, ToSet, QueueIds
    <3>2. QED
      BY <3>1, ThreadsAssumption DEF WaitersInv
  <2>2. QED
    BY <2>1, CoopInit, MInitInv DEF MInit, StrandInv
<1>2. StrandInv /\ [MNext]_allVars => StrandInv'
  BY StrandNext
<1>3. StrandInv => NoStrandedWaiter
  <2>1. ASSUME StrandInv, count = 0, queue[mutex] # <<>>
        PROVE  \E t \in Threads \ ToSet(queue[mutex]) :
                  \/ mpc[t] \in {"lock_test", "lock_take", "unlock_owner", "unlock_notify"}
                  \/ pc[t] = "notify"
    BY <2>1 DEF StrandInv, WaitersInv, Heeded, Notifying, InQ
  <2>2. QED
    BY <2>1 DEF NoStrandedWaiter
<1>4. QED
  BY <1>1, <1>2, <1>3, PTL DEF MSpec
=============================================================================
