---------------------------- MODULE Sched_proofs ----------------------------
(***************************************************************************)
(* Theorems about Sched, for any number of threads and queues.  First that *)
(* the state stays well typed, in every configuration; then the queues of  *)
(* the cooperative kernel, whatever mix of calls is made: every thread is  *)
(* where the next operation on it looks for it, whatever the interrupts    *)
(* and the timers do.                                                      *)
(***************************************************************************)
EXTENDS Sched, Lists_proofs, FiniteSetTheorems

----------------------------------------------------------------------------
(* Sequences: what the list operations of the kernel return *)

\* A non-empty set of positions has a first one: the loops that walk a list
\* until a condition holds stop at a node of that list.
LEMMA FirstExists ==
    ASSUME NEW S, S \subseteq Nat, S # {}
    PROVE  First(S) \in S /\ \A j \in S : First(S) <= j
<1>. DEFINE R == {ss \in Nat \X Nat : ss[1] < ss[2]}
<1>1. R = OpToRel(<, Nat)
  BY Zenon DEF OpToRel
<1>2. PICK x \in S : \A y \in S : ~ (<<y, x>> \in R)
  <2>. HIDE DEF R
  <2>1. IsWellFoundedOn(R, Nat)
    BY <1>1, NatLessThanWellFounded, Zenon
  <2>2. QED
    BY <2>1, WFMin, Zenon
<1>3. ASSUME NEW y \in S PROVE x <= y
  <2>1. <<y, x>> \in Nat \X Nat /\ ~ (<<y, x>> \in R)
    BY <1>2
  <2>2. QED
    BY <2>1
<1>4. QED
  BY <1>3 DEF First

\* SubSeq of a list stays a list of the same elements.
LEMMA SubSeqType ==
    ASSUME NEW S, NEW s \in Seq(S), NEW m \in Nat, NEW n \in Int, m >= 1, n <= Len(s)
    PROVE  SubSeq(s, m, n) \in Seq(S)
<1>1. \A i \in m..n : s[i] \in S
  BY ElementOfSeq, LenProperties
<1>2. QED
  BY <1>1, SubSeqProperties, m \in Int

\* A list with an element put in is a list (list_add).
LEMMA InsertAtType ==
    ASSUME NEW S, NEW s \in Seq(S), NEW i \in 1..Len(s), NEW e \in S
    PROVE  InsertAt(s, i, e) \in Seq(S)
<1>1. Len(s) \in Nat
  BY LenProperties
<1>2. SubSeq(s, 1, i - 1) \in Seq(S) /\ SubSeq(s, i, Len(s)) \in Seq(S)
  BY <1>1, SubSeqType
<1>3. <<e>> \in Seq(S)
  OBVIOUS
<1>4. QED
  BY <1>2, <1>3, ConcatProperties DEF InsertAt

\* A list with an element taken out is a list (list_del).
LEMMA RemoveAtType ==
    ASSUME NEW S, NEW s \in Seq(S), NEW i \in 1..Len(s)
    PROVE  RemoveAt(s, i) \in Seq(S)
<1>1. Len(s) \in Nat
  BY LenProperties
<1>2. SubSeq(s, 1, i - 1) \in Seq(S) /\ SubSeq(s, i + 1, Len(s)) \in Seq(S)
  BY <1>1, SubSeqType
<1>3. QED
  BY <1>2, ConcatProperties DEF RemoveAt

\* Taking out the first occurrence of an element leaves a list.
LEMMA RemoveFirstType ==
    ASSUME NEW S, NEW s \in Seq(S), NEW e
    PROVE  RemoveFirst(s, e) \in Seq(S)
<1>1. CASE \E i \in 1..Len(s) : s[i] = e
  <2>. DEFINE I == {i \in 1..Len(s) : s[i] = e}
  <2>1. I # {} /\ I \subseteq Nat
    BY <1>1
  <2>2. First(I) \in I
    BY <2>1, FirstExists
  <2>3. Min(I) \in I
    BY <2>2, <2>1, FirstExists DEF Min, First
  <2>4. RemoveFirst(s, e) = RemoveAt(s, Min(I))
    BY <1>1, <2>1 DEF RemoveFirst, SelectInSeq, SelectInSubSeq
  <2>5. QED
    BY <2>3, <2>4, RemoveAtType
<1>2. CASE ~ \E i \in 1..Len(s) : s[i] = e
  BY <1>2 DEF RemoveFirst
<1>3. QED
  BY <1>1, <1>2

----------------------------------------------------------------------------
(* Types: the operators the actions are built from *)

\* The parts of TypeOK that the operations on queues and timers change.
RqOK    == runq \in Seq(Threads) /\ num \in Int /\ on_rq \in [Threads -> BOOLEAN]
FlagsOK == flags \in [Threads -> SUBSET Flags]
EvOK    == /\ wake \in Seq(Threads) /\ queue \in [QueueIds -> Seq(Threads)]
           /\ sig \subseteq QueueIds /\ ec \in [Threads -> Nat]
TmrOK   == timers \in Seq(Timer) /\ tmr \in [Threads -> {"NULL", "SIGNALED", "SET"}]

\* {fifo,rr_shared}_queue_insert returns a list of threads.
LEMMA RqInsertType ==
    ASSUME NEW q \in Seq(Threads), NEW t \in Threads
    PROVE  RqInsert(q, t) \in Seq(Threads)
<1>. DEFINE after == {i \in 1..Len(q) : prio[q[i]] > prio[t]}
<1>1. Append(q, t) \in Seq(Threads)
  BY AppendProperties
<1>2. RrSharedQueueInsert(q, t) \in Seq(Threads)
  <2>1. CASE after = {}
    BY <1>1, <2>1 DEF RrSharedQueueInsert
  <2>2. CASE after # {}
    <3>1. after \subseteq Nat
      OBVIOUS
    <3>2. First(after) \in 1..Len(q)
      BY <2>2, <3>1, FirstExists
    <3>3. RrSharedQueueInsert(q, t) = InsertAt(q, First(after), t)
      BY <2>2 DEF RrSharedQueueInsert
    <3>4. QED
      BY <3>2, <3>3, InsertAtType
  <2>3. QED
    BY <2>1, <2>2
<1>3. QED
  BY <1>1, <1>2 DEF RqInsert, FifoQueueInsert

\* rr_shared_queue_remove returns a list of threads.
LEMMA RqRemoveType ==
    ASSUME NEW q \in Seq(Threads), NEW t \in Threads
    PROVE  RqRemove(q, t) \in Seq(Threads)
BY RemoveFirstType DEF RqRemove

\* sched_get_next_runnable returns a thread.
LEMMA NextRunnableType ==
    ASSUME runq \in Seq(Threads), current \in Threads
    PROVE  NextRunnable \in Threads
<1>1. CASE Runnable # {}
  <2>1. Runnable \subseteq Nat /\ Runnable \subseteq 1..Len(runq)
    BY DEF Runnable
  <2>2. First(Runnable) \in 1..Len(runq)
    BY <1>1, <2>1, FirstExists
  <2>3. runq[First(Runnable)] \in Threads
    BY <2>2, ElementOfSeq
  <2>4. QED
    BY <1>1, <2>3 DEF NextRunnable
<1>2. QED
  BY <1>1 DEF NextRunnable

\* The events handed over by rr_shared_queue_remove stay a count per thread.
LEMMA HandOverType ==
    ASSUME NEW e \in [Threads -> Nat], NEW q \in Seq(Threads), NEW i \in 1..Len(q)
    PROVE  HandOver(e, q, i) \in [Threads -> Nat]
<1>1. q[i] \in Threads
  BY ElementOfSeq
<1>2. QED
  BY <1>1 DEF HandOver

\* raw_rq_add_thread and rq_add_thread keep the run queue's types.
LEMMA RawRqAddThreadType ==
    ASSUME RqOK, NEW t \in Threads, RawRqAddThread(t)
    PROVE  RqOK'
BY RqInsertType DEF RqOK, RawRqAddThread

\* rq_add_thread leaves a run queue of threads, whatever it took off first.
LEMMA RqAddThreadType ==
    ASSUME RqOK, NEW t \in Threads, RqAddThread(t)
    PROVE  RqOK'
<1>. DEFINE rest == IF on_rq[t] /\ Has(t, "RUNNING") THEN RqRemove(runq, t) ELSE runq
<1>1. rest \in Seq(Threads) /\ runq \in Seq(Threads)
  BY RqRemoveType DEF RqOK
<1>2. RqInsert(rest, t) \in Seq(Threads) /\ Len(rest) \in Nat /\ Len(runq) \in Nat
  BY <1>1, RqInsertType, LenProperties
<1>3. /\ runq' = RqInsert(rest, t)
      /\ num' = num + 1 - (Len(runq) - Len(rest))
      /\ on_rq' = [on_rq EXCEPT ![t] = TRUE]
  BY DEF RqAddThread
<1>. HIDE DEF rest
<1>4. QED
  BY <1>2, <1>3 DEF RqOK

\* The list of timers stays one when a timer is inserted or stopped.
LEMMA TimerInsertType ==
    ASSUME NEW l \in Seq(Timer), NEW r \in Timer
    PROVE  TimerInsert(l, r) \in Seq(Timer)
<1>. DEFINE before == {i \in 1..(Len(l) - 1) : r.left <= l[i].left}
<1>1. CASE before = {}
  BY <1>1, AppendProperties DEF TimerInsert
<1>2. CASE before # {}
  <2>1. Len(l) \in Nat
    BY LenProperties
  <2>2. before \subseteq Nat
    BY <2>1
  <2>3. First(before) \in 1..Len(l)
    <3>1. First(before) \in before
      BY <1>2, <2>2, FirstExists
    <3>2. First(before) \in 1..(Len(l) - 1)
      BY <3>1
    <3>3. QED
      BY <3>2, <2>1
  <2>4. TimerInsert(l, r) = InsertAt(l, First(before), r)
    BY <1>2 DEF TimerInsert
  <2>5. QED
    BY <2>3, <2>4, InsertAtType
<1>3. QED
  BY <1>1, <1>2

\* timer_create leaves a list of timers.
LEMMA TimerCreateType ==
    ASSUME TmrOK, NEW t \in Threads, NEW ms \in Nat, NEW fn \in {"sleep", "event"},
           NEW q \in QueueIds, TimerCreate(t, ms, fn, q)
    PROVE  TmrOK'
<1>1. [tp |-> t, left |-> ms, fn |-> fn, q |-> q] \in Timer
  BY DEF Timer
<1>2. timers' \in Seq(Timer)
  BY <1>1, TimerInsertType DEF TimerCreate, TmrOK
<1>3. QED
  BY <1>2 DEF TimerCreate, TmrOK

\* timer_stop leaves a list of timers.
LEMMA TimerStopType ==
    ASSUME timers \in Seq(Timer), NEW t \in Threads
    PROVE  TimerStop(t) \in Seq(Timer)
<1>. DEFINE own == {i \in 1..Len(timers) : timers[i].tp = t}
<1>1. own # {} => First(own) \in 1..Len(timers)
  <2>1. own \subseteq Nat
    OBVIOUS
  <2>2. QED
    BY <2>1, FirstExists
<1>2. own # {} => RemoveAt(timers, First(own)) \in Seq(Timer)
  BY <1>1, RemoveAtType
<1>3. QED
  BY <1>2 DEF TimerStop

\* Taking a waiter out of its queue keeps the types of queues and counters.
LEMMA DequeueType ==
    ASSUME EvOK, NEW q \in QueueIds, NEW i \in 1..Len(queue[q]),
           NEW e \in [Threads -> Nat], Dequeue(q, i, e)
    PROVE  EvOK'
<1>1. queue[q] \in Seq(Threads)
  BY DEF EvOK
<1>2. wake' \in Seq(Threads)
  BY RemoveFirstType DEF Dequeue, EvOK
<1>3. RemoveAt(queue[q], i) \in Seq(Threads)
  BY <1>1, RemoveAtType
<1>4. ec' \in [Threads -> Nat]
  BY <1>1, HandOverType DEF Dequeue
<1>5. QED
  BY <1>2, <1>3, <1>4 DEF Dequeue, EvOK

\* Waking the head of a queue keeps every type, whichever way onto the run
\* queue is taken.
LEMMA WakeHeadType ==
    ASSUME RqOK, FlagsOK, EvOK, TmrOK, current \in Threads,
           NEW q \in QueueIds, queue[q] # <<>>, NEW e \in [Threads -> Nat],
           NEW timer \in {"NULL", "SET"},
           \/ WakeHead(q, e, "raw", timer)
           \/ WakeHead(q, e, "rq", timer)
    PROVE  RqOK' /\ FlagsOK' /\ EvOK' /\ TmrOK'
<1>. DEFINE tp == Head(queue[q])
<1>1. queue[q] \in Seq(Threads) /\ tp \in Threads /\ 1 \in 1..Len(queue[q])
  <2>1. queue[q] \in Seq(Threads)
    BY DEF EvOK
  <2>2. QED
    BY <2>1, HeadTailProperties, EmptySeq
<1>2. /\ Dequeue(q, 1, e)
      /\ timers' = TimerStop(tp)
      /\ tmr' = [tmr EXCEPT ![tp] = IF @ = "SET" THEN timer ELSE @]
      /\ IF tp # current
         THEN /\ RawRqAddThread(tp) \/ RqAddThread(tp)
              /\ flags' = [flags EXCEPT
                    ![tp] = @ \cup {"RUNNING"},
                    ![current] = @ \cup IF prio[tp] <= prio[current]
                                        THEN {"NEED_RESCHED"} ELSE {}]
         ELSE /\ flags' = [flags EXCEPT ![tp] = @ \cup {"RUNNING"}]
              /\ on_rq' = [on_rq EXCEPT ![tp] = TRUE]
              /\ UNCHANGED <<runq, num>>
  BY DEF WakeHead
<1>. HIDE DEF tp
<1>3. EvOK'
  BY <1>1, <1>2, DequeueType
<1>4. TmrOK'
  BY <1>1, <1>2, TimerStopType DEF TmrOK
<1>5. FlagsOK'
  BY <1>1, <1>2 DEF FlagsOK, Flags
<1>6. RqOK'
  <2>1. CASE tp # current
    BY <2>1, <1>1, <1>2, RawRqAddThreadType, RqAddThreadType
  <2>2. CASE tp = current
    BY <2>2, <1>1, <1>2 DEF RqOK
  <2>3. QED
    BY <2>1, <2>2
<1>7. QED
  BY <1>3, <1>4, <1>5, <1>6

\* One round of raw_event_notify_broadcast keeps every type.
LEMMA BroadcastStepType ==
    ASSUME RqOK, FlagsOK, EvOK, TmrOK, current \in Threads,
           NEW q \in QueueIds, BroadcastStep(q)
    PROVE  RqOK' /\ FlagsOK' /\ EvOK' /\ TmrOK'
<1>1. CASE queue[q] = <<>> /\ sig' = sig \ {q}
           /\ UNCHANGED <<runq, num, on_rq, flags, wake, queue, ec, tmrVars>>
  BY <1>1 DEF RqOK, FlagsOK, EvOK, TmrOK, tmrVars
<1>2. CASE /\ queue[q] # <<>>
           /\ ec' = [ec EXCEPT ![Head(queue[q])] = (@ + 1) % (MaxEc + 1)]
           /\ UNCHANGED <<runq, num, on_rq, flags, wake, queue, sig, tmrVars>>
  <2>1. Head(queue[q]) \in Threads
    BY <1>2, HeadTailProperties DEF EvOK
  <2>2. (ec[Head(queue[q])] + 1) % (MaxEc + 1) \in Nat
    BY <2>1, ConfigAssumption DEF EvOK
  <2>3. ec' \in [Threads -> Nat]
    BY <1>2, <2>1, <2>2 DEF EvOK
  <2>4. QED
    BY <1>2, <2>3 DEF RqOK, FlagsOK, EvOK, TmrOK, tmrVars
<1>3. CASE queue[q] # <<>> /\ WakeHead(q, ec, "rq", "NULL")
  <2>1. ec \in [Threads -> Nat]
    BY DEF EvOK
  <2>2. QED
    BY <1>3, <2>1, WakeHeadType
<1>4. QED
  BY <1>1, <1>2, <1>3 DEF BroadcastStep

\* event_notify_irq keeps the counters' types.
LEMMA EventNotifyIrqType ==
    ASSUME EvOK, NEW q \in QueueIds, EventNotifyIrq(q), UNCHANGED <<wake, queue>>
    PROVE  EvOK'
<1>1. queue[q] # <<>> => Head(queue[q]) \in Threads
  BY HeadTailProperties DEF EvOK
<1>2. QED
  BY <1>1 DEF EventNotifyIrq, EvOK

----------------------------------------------------------------------------
(* Types: the rest of the state, and the operators that change it *)

CurOK  == current \in Threads /\ prio \in [Threads -> Nat] /\ scan \in Seq(Threads)
DeadOK == killq \in Seq(Threads) /\ freed \subseteq Threads
CntOK  == cnt \in [Threads -> Int]
IrqOK  == cpuState \in [Threads -> BOOLEAN] /\ irqExec \in BOOLEAN
ScOK   == sc \in [Threads -> Phases] /\ isr \in [Threads -> {"no", "none", "enter"}]
CallOK == pc \in [Threads -> Labels] /\ arg \in [Threads -> Args]

\* The parts make up TypeOK, in this state and in the next.
LEMMA TypeParts ==
    /\ TypeOK <=> /\ RqOK /\ FlagsOK /\ EvOK /\ TmrOK /\ CurOK
                  /\ DeadOK /\ CntOK /\ IrqOK /\ ScOK /\ CallOK
    /\ TypeOK' <=> /\ RqOK' /\ FlagsOK' /\ EvOK' /\ TmrOK' /\ CurOK'
                   /\ DeadOK' /\ CntOK' /\ IrqOK' /\ ScOK' /\ CallOK'
BY DEF TypeOK, RqOK, FlagsOK, EvOK, TmrOK, CurOK, DeadOK, CntOK, IrqOK, ScOK, CallOK

\* A call that returns leaves pc and arg well typed.
LEMMA ReturnType ==
    ASSUME CallOK, NEW t \in Threads, Return(t)
    PROVE  CallOK'
<1>1. NoArg \in Args
  BY ThreadsAssumption DEF NoArg, Args, QueueIds
<1>2. QED
  BY <1>1 DEF CallOK, Return, Labels

\* Storing a queue and a timeout, a thread, or what qhead was, as arguments.
LEMMA ArgType ==
    ASSUME CallOK, NEW t \in Threads
    PROVE  /\ \A u \in Threads : [arg EXCEPT ![t].tp = u] \in [Threads -> Args]
           /\ \A q \in QueueIds : [arg EXCEPT ![t].q = q] \in [Threads -> Args]
           /\ \A q \in QueueIds, ms \in Nat :
                 [arg EXCEPT ![t].q = q, ![t].ms = ms] \in [Threads -> Args]
           /\ \A q \in QueueIds, h \in {"NULL", "SIGNALED", "THREAD"} :
                 [arg EXCEPT ![t].q = q, ![t].head = h] \in [Threads -> Args]
<1>1. arg \in [Threads -> Args] /\ arg[t] \in Args
  BY DEF CallOK
<1>2. ASSUME NEW u \in Threads PROVE [arg[t] EXCEPT !.tp = u] \in Args
  BY <1>1 DEF Args
<1>3. ASSUME NEW q \in QueueIds PROVE [arg[t] EXCEPT !.q = q] \in Args
  BY <1>1 DEF Args
<1>4. ASSUME NEW q \in QueueIds, NEW ms \in Nat
      PROVE  [arg[t] EXCEPT !.q = q, !.ms = ms] \in Args
  BY <1>1 DEF Args
<1>5. ASSUME NEW q \in QueueIds, NEW h \in {"NULL", "SIGNALED", "THREAD"}
      PROVE  [arg[t] EXCEPT !.q = q, !.head = h] \in Args
  BY <1>1 DEF Args
<1>6. QED
  BY <1>1, <1>2, <1>3, <1>4, <1>5

\* Entering schedule() is a phase.
LEMMA CallScheduleType ==
    ASSUME ScOK, NEW t \in Threads, CallSchedule(t), UNCHANGED isr
    PROVE  ScOK'
BY DEF ScOK, CallSchedule, Phases

\* preempt_disable and preempt_enable_no_resched keep the counters integers.
LEMMA PreemptCountType ==
    ASSUME CntOK, NEW t \in Threads, PreemptDisable(t) \/ PreemptEnableNoResched(t)
    PROVE  CntOK'
<1>1. Step \in Int
  BY DEF Step
<1>2. QED
  BY <1>1 DEF CntOK, PreemptDisable, PreemptEnableNoResched

\* preempt_enable leaves the thread in its phase or enters the scheduler.
LEMMA PreemptEnableType ==
    ASSUME ScOK, NEW t \in Threads, NEW c, NEW f, PreemptEnable(t, c, f), UNCHANGED isr
    PROVE  ScOK'
BY DEF ScOK, PreemptEnable, Phases

\* The loop around __schedule goes on or returns to where it was called.
LEMMA LeaveOrLoopType ==
    ASSUME ScOK, IrqOK, NEW t \in Threads, NEW f, LeaveOrLoop(t, f), UNCHANGED cpuState
    PROVE  ScOK' /\ IrqOK'
BY DEF ScOK, IrqOK, LeaveOrLoop, Phases

\* Adding flags to a thread, and removing them, yields flags.
LEMMA FlagsType ==
    ASSUME FlagsOK, NEW t \in Threads
    PROVE  /\ \A p : YieldFlags(t, p) \in SUBSET Flags
           /\ Decided(PreemptCheck(t)) \in SUBSET Flags
           /\ \A f \in SUBSET Flags : [flags EXCEPT ![t] = f] \in [Threads -> SUBSET Flags]
BY DEF FlagsOK, YieldFlags, Decided, PreemptCheck, Flags

\* rq_destroy_kill_q frees stacks of threads only.
LEMMA ReclaimType ==
    ASSUME DeadOK
    PROVE  Reclaim \subseteq Threads
<1>1. ToSet(killq) \subseteq Threads
  BY ElementOfSeq, LenProperties DEF DeadOK, ToSet
<1>2. QED
  BY <1>1 DEF DeadOK, Reclaim

----------------------------------------------------------------------------
(* TypeOK is an invariant: one step per action *)

\* event_tmo and rq_signal_threads: the two timer and event steps that wake a
\* waiter from inside __schedule.
LEMMA EventTimeoutType ==
    ASSUME TypeOK, NEW t \in Threads, EventTimeout(t)
    PROVE  TypeOK'
<1>. USE TypeParts DEF rqVars, evVars, tmrVars, deadVars, irqVars, callVars
<1>. DEFINE q  == Head(timers).q
            tp == Head(timers).tp
            at == {i \in 1..Len(queue[q]) : queue[q][i] = tp /\ tmr[tp] = "SET"}
<1>1. Head(timers) \in Timer /\ Tail(timers) \in Seq(Timer)
  BY HeadTailProperties DEF EventTimeout, Expired, TmrOK
<1>2. tp \in Threads /\ q \in QueueIds
  BY <1>1 DEF Timer
<1>3. /\ timers' = Tail(timers)
      /\ sc' = [sc EXCEPT ![t] = "clock"]
      /\ UNCHANGED <<current, prio, deadVars, irqVars, cnt, scan, callVars>>
      /\ IF at = {}
         THEN UNCHANGED <<runq, num, on_rq, flags, evVars, tmr>>
         ELSE /\ Dequeue(q, First(at), ec)
              /\ tmr' = [tmr EXCEPT ![tp] = "SIGNALED"]
              /\ RawRqAddThread(tp)
              /\ flags' = [[flags EXCEPT ![tp] = @ \cup {"RUNNING"}] EXCEPT
                    ![t] = @ \cup IF prio[tp] <= prio[t] THEN {"NEED_RESCHED"} ELSE {}]
  BY DEF EventTimeout
<1>4. ScOK' /\ CurOK' /\ DeadOK' /\ CntOK' /\ IrqOK' /\ CallOK'
  BY <1>3 DEF ScOK, Phases, CurOK, DeadOK, CntOK, IrqOK, CallOK
<1>5. CASE at = {}
  BY <1>1, <1>3, <1>4, <1>5 DEF RqOK, FlagsOK, EvOK, TmrOK
<1>6. CASE at # {}
  <2>1. First(at) \in 1..Len(queue[q])
    <3>1. at \subseteq Nat
      OBVIOUS
    <3>2. QED
      BY <1>6, <3>1, FirstExists
  <2>. HIDE DEF at, tp, q
  <2>2. EvOK'
    BY <1>2, <1>3, <1>6, <2>1, DequeueType DEF EvOK
  <2>3. RqOK'
    BY <1>2, <1>3, <1>6, RawRqAddThreadType
  <2>4. FlagsOK'
    BY <1>2, <1>3, <1>6 DEF FlagsOK, Flags
  <2>5. TmrOK'
    BY <1>1, <1>2, <1>3, <1>6 DEF TmrOK
  <2>6. QED
    BY <1>4, <2>2, <2>3, <2>4, <2>5
<1>7. QED
  BY <1>5, <1>6

\* A round of rq_signal_threads keeps the types: scan only gets shorter, and
\* ec is decremented only where it is positive.
LEMMA SignalThreadType ==
    ASSUME TypeOK, NEW t \in Threads, SignalThread(t)
    PROVE  TypeOK'
<1>. USE TypeParts DEF rqVars, evVars, tmrVars, deadVars, irqVars, callVars
<1>. DEFINE i  == First(Pending)
            it == scan[i]
            q  == arg[it].q
            e  == [ec EXCEPT ![it] = @ - 1]
<1>1. i \in 1..Len(scan) /\ ec[it] > 0
  <2>1. Pending \subseteq Nat /\ Pending # {}
    BY DEF SignalThread, Pending
  <2>2. i \in Pending
    BY <2>1, FirstExists
  <2>3. QED
    BY <2>2 DEF Pending
<1>2. scan \in Seq(Threads) /\ Len(scan) \in Nat
  BY LenProperties DEF CurOK
<1>3. it \in Threads
  BY <1>1, <1>2, ElementOfSeq
<1>4. q \in QueueIds
  BY <1>3 DEF CallOK, Args
<1>5. e \in [Threads -> Nat]
  BY <1>1, <1>3 DEF EvOK
<1>6. /\ scan' = SubSeq(scan, i + 1, Len(scan))
      /\ \/ queue[q] # <<>> /\ WakeHead(q, e, "raw", "SET")
         \/ ec' = e /\ UNCHANGED <<runq, num, on_rq, flags, wake, queue, sig, tmrVars>>
      /\ UNCHANGED <<current, prio, deadVars, irqVars, cnt, sc, callVars>>
  BY DEF SignalThread
<1>. HIDE DEF i, it, q, e
<1>7. CurOK'
  BY <1>1, <1>2, <1>6, SubSeqType DEF CurOK
<1>8. RqOK' /\ FlagsOK' /\ EvOK' /\ TmrOK'
  <2>1. CASE queue[q] # <<>> /\ WakeHead(q, e, "raw", "SET")
    BY <2>1, <1>4, <1>5, WakeHeadType DEF CurOK
  <2>2. CASE ec' = e /\ UNCHANGED <<runq, num, on_rq, flags, wake, queue, sig, tmrVars>>
    BY <2>2, <1>5 DEF RqOK, FlagsOK, EvOK, TmrOK
  <2>3. QED
    BY <1>6, <2>1, <2>2
<1>9. QED
  BY <1>6, <1>7, <1>8 DEF DeadOK, CntOK, IrqOK, ScOK, CallOK

\* rq_switch_context
LEMMA SwitchContextType ==
    ASSUME TypeOK, NEW t \in Threads, SwitchContext(t)
    PROVE  TypeOK'
<1>. USE TypeParts DEF rqVars, evVars, tmrVars, deadVars, irqVars, callVars
<1>. DEFINE next == NextRunnable
            full == IF Has(t, "RUNNING") THEN RqInsert(runq, t) ELSE runq
            rest == RqRemove(full, next)
<1>1. next \in Threads
  BY NextRunnableType DEF RqOK, CurOK
<1>2. rest \in Seq(Threads) /\ Len(rest) \in Nat /\ Len(runq) \in Nat
  <2>1. full \in Seq(Threads)
    BY RqInsertType DEF RqOK
  <2>2. rest \in Seq(Threads)
    BY <1>1, <2>1, RqRemoveType
  <2>3. QED
    BY <2>2, LenProperties DEF RqOK
<1>3. RqOK'
  <2>1. /\ runq' = rest
        /\ num' = num + Len(rest) - Len(runq)
        /\ on_rq' = [on_rq EXCEPT ![t] = Has(t, "RUNNING")]
    BY DEF SwitchContext
  <2>2. Has(t, "RUNNING") \in BOOLEAN
    BY DEF Has
  <2>. HIDE DEF rest
  <2>3. QED
    BY <1>2, <2>1, <2>2 DEF RqOK
<1>. HIDE DEF full, rest
<1>4. FlagsOK'
  BY FlagsType DEF SwitchContext, FlagsOK
<1>5. CurOK'
  BY <1>1, EmptySeq DEF SwitchContext, CurOK
<1>6. ScOK'
  BY <1>1 DEF SwitchContext, ScOK, Phases
<1>7. IrqOK'
  BY <1>1 DEF SwitchContext, IrqOK
<1>8. QED
  BY <1>3, <1>4, <1>5, <1>6, <1>7
  DEF SwitchContext, EvOK, TmrOK, DeadOK, CntOK, CallOK

\* raw_event_wait: the check of qhead, and the part after it.
LEMMA RawEventWaitCheckType ==
    ASSUME TypeOK, NEW t \in Threads, NEW q \in QueueIds, NEW ms \in Nat,
           RawEventWaitCheck(t, q, ms),
           UNCHANGED <<rqVars, flags, wake, queue, ec, tmrVars, deadVars, irqVars, scan>>
    PROVE  TypeOK'
<1>. USE TypeParts DEF rqVars, evVars, tmrVars, deadVars, irqVars, callVars
<1>1. CASE q \in sig
  <2>1. CallOK' /\ ScOK' /\ sig' = sig \ {q} /\ UNCHANGED cnt
    BY <1>1, ReturnType, PreemptEnableType DEF RawEventWaitCheck
  <2>2. QED
    BY <2>1 DEF RqOK, FlagsOK, EvOK, TmrOK, CurOK, DeadOK, CntOK, IrqOK
<1>2. CASE q \notin sig
  <2>1. CntOK' /\ UNCHANGED <<sig, sc>>
    BY <1>2, PreemptCountType DEF RawEventWaitCheck
  <2>2. CallOK'
    <3>1. Goto(t, "ev_enqueue") /\ arg' = [arg EXCEPT ![t].q = q, ![t].ms = ms]
      BY <1>2 DEF RawEventWaitCheck
    <3>2. arg' \in [Threads -> Args]
      BY <3>1, ArgType
    <3>3. QED
      BY <3>1, <3>2 DEF CallOK, Goto, Labels
  <2>3. QED
    BY <2>1, <2>2 DEF RqOK, FlagsOK, EvOK, TmrOK, CurOK, DeadOK, IrqOK, ScOK
<1>3. QED
  BY <1>1, <1>2

\* event_wait up to its call of raw_event_wait keeps the types.
LEMMA ForgetSignalType ==
    ASSUME TypeOK, NEW t \in Threads, NEW q \in QueueIds, NEW ms \in Nat,
           ForgetSignal(t, q, ms)
    PROVE  TypeOK'
<1>. USE TypeParts DEF rqVars, evVars, tmrVars, deadVars, irqVars, callVars
<1>1. CallOK'
  BY ArgType DEF ForgetSignal, CallOK, Goto, Labels
<1>2. QED
  BY <1>1 DEF ForgetSignal, RqOK, FlagsOK, EvOK, TmrOK, CurOK, DeadOK, CntOK, IrqOK, ScOK

\* raw_event_wait from timer_create to schedule keeps the types.
LEMMA EvEnqueueType ==
    ASSUME TypeOK, NEW t \in Threads, EvEnqueue(t)
    PROVE  TypeOK'
<1>. USE TypeParts DEF EvEnqueue, rqVars, evVars, tmrVars, deadVars, irqVars, callVars
<1>1. arg[t].q \in QueueIds /\ arg[t].ms \in Nat
  BY DEF CallOK, Args
<1>2. TmrOK'
  BY <1>1, TimerCreateType DEF TmrOK
<1>3. FlagsOK'
  BY DEF FlagsOK, Flags
<1>4. EvOK'
  <2>1. Append(queue[arg[t].q], t) \in Seq(Threads)
    BY <1>1, AppendProperties DEF EvOK
  <2>2. wake' \in Seq(Threads)
    BY <<t>> \in Seq(Threads), ConcatProperties DEF EvOK
  <2>3. QED
    BY <1>1, <2>1, <2>2 DEF EvOK
<1>5. CntOK' /\ ScOK'
  BY PreemptCountType, CallScheduleType
<1>6. CallOK'
  BY DEF CallOK, Goto, Labels
<1>7. QED
  BY <1>2, <1>3, <1>4, <1>5, <1>6 DEF RqOK, CurOK, DeadOK, IrqOK

\* signal: rq_add_thread up to its unlock
LEMMA SignalAddType ==
    ASSUME TypeOK, NEW t \in Threads, SignalAdd(t)
    PROVE  TypeOK'
<1>. USE TypeParts DEF rqVars, evVars, tmrVars, deadVars, irqVars, callVars
<1>. DEFINE u    == arg[t].tp
            rest == IF on_rq[u] THEN RqRemove(runq, u) ELSE runq
<1>1. u \in Threads
  BY DEF CallOK, Args
<1>2. RqInsert(rest, u) \in Seq(Threads) /\ Len(rest) \in Nat /\ Len(runq) \in Nat
  <2>1. rest \in Seq(Threads) /\ runq \in Seq(Threads)
    BY <1>1, RqRemoveType DEF RqOK
  <2>2. QED
    BY <1>1, <2>1, RqInsertType, LenProperties
<1>3. RqOK'
  <2>1. /\ runq' = RqInsert(rest, u)
        /\ num' = num + 1 - (Len(runq) - Len(rest))
        /\ on_rq' = [on_rq EXCEPT ![u] = FALSE]
    BY DEF SignalAdd
  <2>. HIDE DEF rest
  <2>2. QED
    BY <1>1, <1>2, <2>1 DEF RqOK
<1>. HIDE DEF rest
<1>4. FlagsOK'
  BY <1>1 DEF SignalAdd, FlagsOK, Flags
<1>5. CallOK'
  BY DEF SignalAdd, CallOK, Goto, Labels
<1>6. QED
  BY <1>3, <1>4, <1>5 DEF SignalAdd, EvOK, TmrOK, CurOK, DeadOK, CntOK, IrqOK, ScOK

\* event_notify, acting on the qhead it read
LEMMA EventNotifyActType ==
    ASSUME TypeOK, NEW t \in Threads, EventNotifyAct(t)
    PROVE  TypeOK'
<1>. USE TypeParts DEF rqVars, evVars, tmrVars, deadVars, irqVars, callVars
<1>. DEFINE q == arg[t].q
<1>1. q \in QueueIds
  BY DEF CallOK, Args
<1>2. /\ \/ /\ sig' = sig \cup {q}
            /\ queue' = [queue EXCEPT ![q] = <<>>]
            /\ UNCHANGED <<runq, num, on_rq, flags, wake, ec, tmrVars>>
         \/ queue[q] # <<>> /\ WakeHead(q, ec, "rq", "NULL")
         \/ UNCHANGED <<runq, num, on_rq, flags, evVars, tmrVars>>
      /\ PreemptEnable(t, cnt[t], flags'[t])
      /\ Return(t)
      /\ UNCHANGED <<current, prio, deadVars, irqVars, cnt, scan>>
  BY DEF EventNotifyAct
<1>. HIDE DEF q
<1>3. RqOK' /\ FlagsOK' /\ EvOK' /\ TmrOK'
  <2>1. CASE /\ sig' = sig \cup {q}
             /\ queue' = [queue EXCEPT ![q] = <<>>]
             /\ UNCHANGED <<runq, num, on_rq, flags, wake, ec, tmrVars>>
    BY <1>1, <2>1, EmptySeq DEF RqOK, FlagsOK, EvOK, TmrOK
  <2>2. CASE queue[q] # <<>> /\ WakeHead(q, ec, "rq", "NULL")
    <3>1. ec \in [Threads -> Nat] /\ current \in Threads
      BY DEF EvOK, CurOK
    <3>2. QED
      BY <1>1, <2>2, <3>1, WakeHeadType
  <2>3. CASE UNCHANGED <<runq, num, on_rq, flags, evVars, tmrVars>>
    BY <2>3 DEF RqOK, FlagsOK, EvOK, TmrOK
  <2>4. QED
    BY <1>2, <2>1, <2>2, <2>3
<1>4. ScOK' /\ CallOK'
  BY <1>2, PreemptEnableType, ReturnType
<1>5. QED
  BY <1>2, <1>3, <1>4 DEF CurOK, DeadOK, CntOK, IrqOK

\* event_notify up to its read of qhead
LEMMA EventNotifyType ==
    ASSUME TypeOK, NEW t \in Threads, NEW q \in QueueIds, EventNotify(t, q)
    PROVE  TypeOK'
<1>. USE TypeParts DEF rqVars, evVars, tmrVars, deadVars, irqVars, callVars
<1>1. RqOK' /\ FlagsOK' /\ TmrOK' /\ CurOK' /\ DeadOK' /\ CntOK' /\ IrqOK' /\ ScOK'
  BY DEF EventNotify, RqOK, FlagsOK, TmrOK, CurOK, DeadOK, CntOK, IrqOK, ScOK
<1>2. CASE irqExec
  BY <1>1, <1>2, EventNotifyIrqType DEF EventNotify, CallOK
<1>3. CASE ~irqExec
  <2>1. CallOK'
    <3>. DEFINE h == IF q \in sig THEN "SIGNALED"
                     ELSE IF queue[q] = <<>> THEN "NULL" ELSE "THREAD"
    <3>1. Goto(t, "notify") /\ arg' = [arg EXCEPT ![t].q = q, ![t].head = h]
      BY <1>3 DEF EventNotify
    <3>2. h \in {"NULL", "SIGNALED", "THREAD"}
      OBVIOUS
    <3>. HIDE DEF h
    <3>3. arg' \in [Threads -> Args]
      BY <3>1, <3>2, ArgType
    <3>4. QED
      BY <3>1, <3>3 DEF CallOK, Goto, Labels
  <2>2. QED
    BY <1>1, <1>3, <2>1 DEF EventNotify, EvOK
<1>4. QED
  BY <1>2, <1>3

\* The tick interrupt
LEMMA TickType ==
    ASSUME TypeOK, NEW expire \in BOOLEAN, Tick(expire)
    PROVE  TypeOK'
<1>. USE TypeParts DEF rqVars, evVars, tmrVars, deadVars, irqVars, callVars
<1>1. Later(timers) \in Seq(Timer)
  <2>1. timers \in Seq(Timer) /\ Len(timers) \in Nat
    BY LenProperties DEF TmrOK
  <2>2. ASSUME NEW i \in 1..Len(timers)
        PROVE  [timers[i] EXCEPT !.left = IF @ > -1 THEN @ - 1 ELSE @] \in Timer
    <3>1. timers[i] \in Timer
      BY <2>1, ElementOfSeq
    <3>2. QED
      BY <3>1 DEF Timer
  <2>3. Later(timers) \in [1..Len(timers) -> Timer]
    BY <2>2 DEF Later
  <2>4. QED
    BY <2>1, <2>3, SeqDef
<1>2. TmrOK'
  BY <1>1 DEF Tick, TmrOK
<1>3. FlagsOK'
  BY DEF Tick, FlagsOK, Flags, CurOK
<1>4. ScOK' /\ IrqOK'
  BY DEF Tick, Preemptible, PreemptScheduleIrq, ScOK, IrqOK, CurOK, Phases
<1>5. QED
  BY <1>2, <1>3, <1>4 DEF Tick, RqOK, EvOK, CurOK, DeadOK, CntOK, CallOK

\* A device interrupt
LEMMA IrqNotifyType ==
    ASSUME TypeOK, NEW q \in QueueIds, IrqNotify(q)
    PROVE  TypeOK'
<1>. USE TypeParts DEF IrqNotify, rqVars, evVars, tmrVars, deadVars, irqVars, callVars
<1>1. EvOK'
  BY EventNotifyIrqType
<1>2. ScOK' /\ IrqOK'
  BY DEF Preemptible, PreemptScheduleIrq, ScOK, IrqOK, CurOK, Phases
<1>3. QED
  BY <1>1, <1>2 DEF RqOK, FlagsOK, TmrOK, CurOK, DeadOK, CntOK, CallOK

\* __schedule and the loop around it
LEMMA ScheduleType ==
    ASSUME TypeOK, NEW t \in Threads, Schedule(t)
    PROVE  TypeOK'
<1>. USE TypeParts DEF QueueIds, rqVars, evVars, tmrVars, deadVars, irqVars, callVars
<1>1. CASE SleepTimeout(t)
  <2>. USE <1>1 DEF SleepTimeout
  <2>1. Head(timers) \in Timer /\ Tail(timers) \in Seq(Timer)
    BY HeadTailProperties DEF Expired, TmrOK
  <2>2. Head(timers).tp \in Threads
    BY <2>1 DEF Timer
  <2>3. RqOK'
    BY <2>2, RawRqAddThreadType
  <2>4. FlagsOK'
    BY <2>2 DEF FlagsOK, Flags
  <2>5. ScOK'
    BY DEF ScOK, Phases
  <2>6. TmrOK'
    BY <2>1 DEF TmrOK
  <2>7. QED
    BY <2>1, <2>2, <2>3, <2>4, <2>5, <2>6
    DEF EvOK, CurOK, DeadOK, CntOK, IrqOK, CallOK
<1>2. CASE EventTimeout(t)
  BY <1>2, EventTimeoutType
<1>3. CASE ClockDone(t)
  <2>. USE <1>3 DEF ClockDone
  <2>1. ScOK' /\ CurOK'
    BY DEF ScOK, CurOK, EvOK, Phases, rqVars
  <2>2. QED
    BY <2>1
    DEF RqOK, FlagsOK, EvOK, TmrOK, DeadOK, CntOK, IrqOK, CallOK
<1>4. CASE SignalThread(t)
  BY <1>4, SignalThreadType
<1>5. CASE KeepCurrent(t)
  <2>. USE <1>5 DEF KeepCurrent
  <2>1. FlagsOK'
    BY FlagsType DEF FlagsOK
  <2>2. ScOK'
    BY DEF ScOK, Phases, irqVars
  <2>3. CurOK'
    BY EmptySeq DEF CurOK, rqVars
  <2>4. QED
    BY <2>1, <2>2, <2>3
    DEF RqOK, EvOK, TmrOK, DeadOK, CntOK, IrqOK, CallOK
<1>6. CASE SwitchContext(t)
  BY <1>6, SwitchContextType
<1>7. CASE ScheduleTail(t)
  <2>. USE <1>7 DEF ScheduleTail
  <2>1. DeadOK'
    BY ReclaimType, EmptySeq DEF DeadOK
  <2>2. ScOK' /\ IrqOK'
    BY LeaveOrLoopType
  <2>3. QED
    BY <2>1, <2>2
    DEF RqOK, FlagsOK, EvOK, TmrOK, CurOK, CntOK, CallOK
<1>8. CASE RemoteKillIf(t)
  <2>. USE <1>8 DEF RemoteKillIf
  <2>1. DeadOK'
    BY ReclaimType DEF DeadOK
  <2>2. FlagsOK'
    BY DEF FlagsOK, Flags
  <2>3. ScOK'
    BY DEF ScOK, Phases, irqVars
  <2>4. QED
    BY <2>1, <2>2, <2>3
    DEF RqOK, EvOK, TmrOK, CurOK, CntOK, IrqOK, CallOK
<1>9. CASE RemoteKillBroadcast(t)
  <2>. USE <1>9 DEF RemoteKillBroadcast
  <2>1. RqOK' /\ FlagsOK' /\ EvOK' /\ TmrOK'
    BY t \in QueueIds, BroadcastStepType DEF CurOK
  <2>2. ScOK' /\ IrqOK'
    BY LeaveOrLoopType DEF ScOK, IrqOK
  <2>3. QED
    BY <2>1, <2>2
    DEF CurOK, DeadOK, CntOK, CallOK
<1>10. QED
  BY <1>1, <1>2, <1>3, <1>4, <1>5, <1>6, <1>7, <1>8, <1>9 DEF Schedule

\* The later steps of API calls
LEMMA ContinueType ==
    ASSUME TypeOK, NEW t \in Threads, Continue(t)
    PROVE  TypeOK'
<1>. USE TypeParts DEF QueueIds, rqVars, evVars, tmrVars, deadVars, irqVars, callVars
<1>1. CASE IdleLoop(t)
  <2>. USE <1>1 DEF IdleLoop
  <2>1. FlagsOK'
    BY DEF FlagsOK, Flags
  <2>2. ScOK'
    BY CallScheduleType
  <2>3. QED
    BY <2>1, <2>2
    DEF RqOK, EvOK, TmrOK, CurOK, DeadOK, CntOK, IrqOK, CallOK
<1>2. CASE ThreadCreated(t)
  <2>. USE <1>2 DEF ThreadCreated
  <2>1. arg[t].tp \in Threads
    BY DEF CallOK, Args
  <2>2. FlagsOK'
    BY <2>1 DEF FlagsOK, Flags
  <2>3. CallOK'
    BY ReturnType
  <2>4. QED
    BY <2>1, <2>2, <2>3
    DEF RqOK, EvOK, TmrOK, CurOK, DeadOK, CntOK, IrqOK, ScOK
<1>3. CASE WaitResched(t)
  <2>. USE <1>3 DEF WaitResched
  <2>1. FlagsOK'
    BY DEF FlagsOK, Flags
  <2>2. CallOK'
    BY DEF CallOK, Goto, Labels
  <2>3. QED
    BY <2>1, <2>2
    DEF RqOK, EvOK, TmrOK, CurOK, DeadOK, CntOK, IrqOK, ScOK
<1>4. CASE WaitStop(t)
  <2>. USE <1>4 DEF WaitStop
  <2>1. FlagsOK'
    BY DEF FlagsOK, Flags
  <2>2. ScOK'
    BY CallScheduleType
  <2>3. CallOK'
    BY ReturnType
  <2>4. QED
    BY <2>1, <2>2, <2>3
    DEF RqOK, EvOK, TmrOK, CurOK, DeadOK, CntOK, IrqOK
<1>5. CASE SignalAdd(t)
  BY <1>5, SignalAddType
<1>6. CASE SignalOnRq(t)
  <2>. USE <1>6 DEF SignalOnRq
  <2>1. arg[t].tp \in Threads
    BY DEF CallOK, Args
  <2>2. RqOK'
    BY <2>1 DEF RqOK
  <2>3. FlagsOK'
    BY FlagsType DEF FlagsOK
  <2>4. ScOK'
    BY CallScheduleType
  <2>5. CallOK'
    BY ReturnType
  <2>6. QED
    BY <2>1, <2>2, <2>3, <2>4, <2>5
    DEF EvOK, TmrOK, CurOK, DeadOK, CntOK, IrqOK
<1>7. CASE KillResched(t)
  <2>. USE <1>7 DEF KillResched
  <2>1. FlagsOK'
    BY DEF FlagsOK, Flags
  <2>2. CallOK'
    BY DEF CallOK, Goto, Labels
  <2>3. QED
    BY <2>1, <2>2
    DEF RqOK, EvOK, TmrOK, CurOK, DeadOK, CntOK, IrqOK, ScOK
<1>8. CASE KillStop(t)
  <2>. USE <1>8 DEF KillStop
  <2>1. FlagsOK'
    BY DEF FlagsOK, Flags
  <2>2. CallOK'
    BY DEF CallOK, Goto, Labels
  <2>3. QED
    BY <2>1, <2>2
    DEF RqOK, EvOK, TmrOK, CurOK, DeadOK, CntOK, IrqOK, ScOK
<1>9. CASE KillJoin(t)
  <2>. USE <1>9 DEF KillJoin
  <2>1. CntOK'
    BY PreemptCountType
  <2>2. CallOK'
    BY DEF CallOK, Goto, Labels
  <2>3. QED
    BY <2>1, <2>2
    DEF RqOK, FlagsOK, EvOK, TmrOK, CurOK, DeadOK, IrqOK, ScOK
<1>10. CASE KillBroadcast(t)
  <2>. USE <1>10 DEF KillBroadcast
  <2>1. RqOK' /\ FlagsOK' /\ EvOK' /\ TmrOK'
    BY t \in QueueIds, BroadcastStepType DEF CurOK
  <2>2. CntOK'
    BY PreemptCountType DEF CntOK
  <2>3. CallOK'
    BY DEF CallOK, Goto, Labels
  <2>4. QED
    BY <2>1, <2>2, <2>3
    DEF CurOK, DeadOK, IrqOK, ScOK
<1>11. CASE KillQueue(t)
  <2>. USE <1>11 DEF KillQueue
  <2>1. DeadOK'
    BY <<t>> \in Seq(Threads), ConcatProperties DEF DeadOK
  <2>2. ScOK'
    BY CallScheduleType
  <2>3. CallOK'
    BY DEF CallOK, Goto, Labels
  <2>4. QED
    BY <2>1, <2>2, <2>3
    DEF RqOK, FlagsOK, EvOK, TmrOK, CurOK, CntOK, IrqOK
<1>12. CASE EvCheck(t)
  <2>. USE <1>12 DEF EvCheck
  <2>1. arg[t].q \in QueueIds /\ arg[t].ms \in Nat
    BY DEF CallOK, Args
  <2>2. QED
    BY <2>1, RawEventWaitCheckType
<1>13. CASE EvEnqueue(t)
  BY <1>13, EvEnqueueType
<1>14. CASE EvReturn(t)
  <2>. USE <1>14 DEF EvReturn
  <2>1. TmrOK'
    BY DEF TmrOK
  <2>2. CallOK'
    BY ReturnType
  <2>3. QED
    BY <2>1, <2>2
    DEF RqOK, FlagsOK, EvOK, CurOK, DeadOK, CntOK, IrqOK, ScOK
<1>15. CASE JoinWait(t)
  <2>. USE <1>15 DEF JoinWait
  <2>1. arg[t].tp \in QueueIds
    BY DEF CallOK, Args
  <2>2. QED
    BY <2>1, ForgetSignalType
<1>16. CASE EventNotifyAct(t)
  BY <1>16, EventNotifyActType
<1>17. CASE EventBroadcastStep(t)
  <2>. USE <1>17 DEF EventBroadcastStep
  <2>1. arg[t].q \in QueueIds
    BY DEF CallOK, Args
  <2>2. RqOK' /\ FlagsOK' /\ EvOK' /\ TmrOK'
    BY <2>1, BroadcastStepType DEF CurOK
  <2>3. CntOK'
    BY PreemptCountType DEF CntOK
  <2>4. CallOK'
    BY DEF CallOK, Goto, Labels
  <2>5. QED
    BY <2>1, <2>2, <2>3, <2>4
    DEF CurOK, DeadOK, IrqOK, ScOK
<1>18. CASE EventBroadcastYield(t)
  <2>. USE <1>18 DEF EventBroadcastYield
  <2>1. FlagsOK'
    BY FlagsType DEF FlagsOK
  <2>2. ScOK'
    BY CallScheduleType
  <2>3. CallOK'
    BY ReturnType
  <2>4. QED
    BY <2>1, <2>2, <2>3
    DEF RqOK, EvOK, TmrOK, CurOK, DeadOK, CntOK, IrqOK
<1>19. QED
  BY <1>1, <1>2, <1>3, <1>4, <1>5, <1>6, <1>7, <1>8, <1>9, <1>10, <1>11, <1>12, <1>13, <1>14, <1>15, <1>16, <1>17, <1>18 DEF Continue

\* The calls of the application
LEMMA CallType ==
    ASSUME TypeOK, NEW t \in Threads, Call(t)
    PROVE  TypeOK'
<1>. USE TypeParts DEF QueueIds, rqVars, evVars, tmrVars, deadVars, irqVars, callVars
<1>1. CASE Yield(t)
  <2>. USE <1>1 DEF Yield
  <2>1. FlagsOK'
    BY FlagsType DEF FlagsOK
  <2>2. ScOK'
    BY CallScheduleType
  <2>3. QED
    BY <2>1, <2>2
    DEF RqOK, EvOK, TmrOK, CurOK, DeadOK, CntOK, IrqOK, CallOK
<1>2. CASE Wait(t)
  <2>. USE <1>2 DEF Wait
  <2>1. FlagsOK'
    BY DEF FlagsOK, Flags
  <2>2. CallOK'
    BY DEF CallOK, Goto, Labels
  <2>3. QED
    BY <2>1, <2>2
    DEF RqOK, EvOK, TmrOK, CurOK, DeadOK, CntOK, IrqOK, ScOK
<1>3. CASE Kill(t)
  <2>. USE <1>3 DEF Kill
  <2>1. FlagsOK'
    BY DEF FlagsOK, Flags
  <2>2. CallOK'
    BY DEF CallOK, Goto, Labels
  <2>3. QED
    BY <2>1, <2>2
    DEF RqOK, EvOK, TmrOK, CurOK, DeadOK, CntOK, IrqOK, ScOK
<1>4. ASSUME NEW p \in Prios, Nice(t, p)
      PROVE  TypeOK'
  <2>. USE <1>4 DEF Nice
  <2>1. CurOK'
    BY PrioAssumption DEF CurOK
  <2>2. FlagsOK'
    BY FlagsType DEF FlagsOK
  <2>3. ScOK'
    BY CallScheduleType
  <2>4. QED
    BY <2>1, <2>2, <2>3
    DEF RqOK, EvOK, TmrOK, DeadOK, CntOK, IrqOK, CallOK
<1>5. ASSUME NEW ms \in Durations, Sleep(t, ms)
      PROVE  TypeOK'
  <2>. USE <1>5 DEF Sleep
  <2>1. t \in QueueIds /\ ms \in Nat
    BY TimeAssumption
  <2>2. FlagsOK'
    BY DEF FlagsOK, Flags
  <2>3. TmrOK'
    BY <2>1, TimerCreateType
  <2>4. ScOK'
    BY CallScheduleType
  <2>5. QED
    BY <2>1, <2>2, <2>3, <2>4
    DEF RqOK, EvOK, CurOK, DeadOK, CntOK, IrqOK, CallOK
<1>6. ASSUME NEW u \in Threads, ThreadCreate(t, u)
      PROVE  TypeOK'
  <2>. USE <1>6 DEF ThreadCreate
  <2>1. RqOK'
    BY RqAddThreadType
  <2>2. FlagsOK'
    BY DEF FlagsOK, Flags
  <2>3. CurOK'
    BY PrioAssumption DEF CurOK
  <2>4. ScOK'
    BY DEF ScOK, Phases
  <2>5. CallOK'
    BY ArgType DEF CallOK, Goto, Labels
  <2>6. QED
    BY <2>1, <2>2, <2>3, <2>4, <2>5
    DEF EvOK, TmrOK, DeadOK, CntOK, IrqOK
<1>7. ASSUME NEW u \in Threads, Signal(t, u)
      PROVE  TypeOK'
  <2>. USE <1>7 DEF Signal
  <2>1. FlagsOK'
    BY DEF FlagsOK, Flags
  <2>2. CallOK'
    BY ArgType DEF CallOK, Goto, Labels
  <2>3. QED
    BY <2>1, <2>2
    DEF RqOK, EvOK, TmrOK, CurOK, DeadOK, CntOK, IrqOK, ScOK
<1>8. ASSUME NEW u \in Threads, ThreadDestroy(t, u)
      PROVE  TypeOK'
  <2>. USE <1>8 DEF ThreadDestroy
  <2>1. FlagsOK'
    BY DEF FlagsOK, Flags
  <2>2. QED
    BY <2>1
    DEF RqOK, EvOK, TmrOK, CurOK, DeadOK, CntOK, IrqOK, ScOK, CallOK
<1>9. ASSUME NEW u \in Threads, Join(t, u)
      PROVE  TypeOK'
  <2>. USE <1>9 DEF Join
  <2>1. CallOK'
    BY ArgType DEF CallOK, Goto, Labels
  <2>2. QED
    BY <2>1
    DEF RqOK, FlagsOK, EvOK, TmrOK, CurOK, DeadOK, CntOK, IrqOK, ScOK
<1>10. ASSUME NEW q \in Queues, EventNotify(t, q)
      PROVE  TypeOK'
  BY <1>10, EventNotifyType
<1>11. ASSUME NEW q \in Queues, EventBroadcast(t, q)
      PROVE  TypeOK'
  <2>. USE <1>11 DEF EventBroadcast
  <2>1. CntOK'
    BY PreemptCountType
  <2>2. CallOK'
    BY ArgType DEF CallOK, Goto, Labels
  <2>3. QED
    BY <2>1, <2>2
    DEF RqOK, FlagsOK, EvOK, TmrOK, CurOK, DeadOK, IrqOK, ScOK
<1>12. ASSUME NEW q \in Queues, NEW ms \in Durations \cup {0}, RawEventWait(t, q, ms)
      PROVE  TypeOK'
  BY <1>12, RawEventWaitCheckType, TimeAssumption DEF RawEventWait
<1>13. ASSUME NEW q \in Queues, NEW ms \in Durations \cup {0}, EventWait(t, q, ms)
      PROVE  TypeOK'
  BY <1>13, ForgetSignalType, TimeAssumption DEF EventWait
<1>14. QED
  BY <1>1, <1>2, <1>3, <1>4, <1>5, <1>6, <1>7, <1>8, <1>9, <1>10, <1>11, <1>12, <1>13 DEF Call

\* The initial state
LEMMA InitType == Init => TypeOK
<1>. SUFFICES ASSUME Init PROVE TypeOK
  OBVIOUS
<1>. USE ThreadsAssumption, EmptySeq
<1>1. RqOK /\ EvOK /\ TmrOK /\ DeadOK
  BY DEF Init, RqOK, EvOK, TmrOK, DeadOK, QueueIds
<1>2. FlagsOK /\ CurOK
  BY PrioAssumption DEF Init, FlagsOK, Flags, CurOK
<1>3. CntOK /\ IrqOK /\ ScOK
  <2>1. Step \in Int
    BY DEF Step
  <2>2. CntOK
    BY <2>1 DEF Init, CntOK
  <2>3. IrqOK
    BY DEF Init, IrqOK
  <2>4. ScOK
    BY DEF Init, ScOK, Phases
  <2>5. QED
    BY <2>2, <2>3, <2>4
<1>4. NoArg \in Args
  BY DEF NoArg, Args, QueueIds
<1>5. CallOK
  BY <1>4 DEF Init, CallOK, Labels
<1>6. QED
  BY <1>1, <1>2, <1>3, <1>5, TypeParts

\* The state of the scheduler stays well formed: whatever the threads call and
\* whenever interrupts come, lists hold threads, counters are numbers, and no
\* step of kernel/sched works on something that is not there.
THEOREM TypeCorrect == Spec => []TypeOK
<1>1. TypeOK /\ [Next]_vars => TypeOK'
  <2>. SUFFICES ASSUME TypeOK, [Next]_vars PROVE TypeOK'
    OBVIOUS
  <2>1. ASSUME NEW t \in Threads, Schedule(t) PROVE TypeOK'
    BY <2>1, ScheduleType
  <2>2. ASSUME NEW t \in Threads, Continue(t) PROVE TypeOK'
    BY <2>2, ContinueType
  <2>3. ASSUME NEW t \in Threads, Call(t) PROVE TypeOK'
    BY <2>3, CallType
  <2>4. CASE Interrupt
    BY <2>4, IrqNotifyType, TickType, QueuesAssumption DEF Interrupt, QueueIds
  <2>5. CASE UNCHANGED vars
    BY <2>5 DEF vars, rqVars, evVars, tmrVars, deadVars, irqVars, callVars, TypeOK
  <2>6. QED
    BY <2>1, <2>2, <2>3, <2>4, <2>5 DEF Next, Kernel
<1>2. QED
  BY InitType, <1>1, PTL DEF Spec

----------------------------------------------------------------------------
(* What the theorems about the queues are about: no CONFIG_PREEMPT, a       *)
(* thread is switched out before a timer it set expires, and nobody sleeps  *)
(* for no time at all.                                                      *)

Cooperative == ~PREEMPT /\ PromptSwitch /\ 0 \notin Durations

(* The invariant *)

Stopping == {"kill_join", "kill_broadcast", "kill_queue"}
Dying == {"kill_resched", "kill_stop"}
Waits == {"wait_resched", "wait_stop"}

\* The labels at which a thread may lose the processor
Outside == {"app", "idle", "ev_return", "dead"}

\* Where each thread is in the code
ControlInv ==
    /\ ~irqExec /\ \A t \in Threads : ~cpuState[t] /\ isr[t] = "no"
    /\ sc[current] \in {"none", "enter", "clock", "signal", "tail", "bcast"}
    /\ \A t \in Threads : /\ t # current => sc[t] \in {"uncreated", "fresh", "tail"}
                          /\ pc[t] \notin Outside => t = current /\ sc[t] = "none"
                          /\ sc[t] \in {"uncreated", "fresh"} => pc[t] = "app"
                          /\ pc[t] = "idle" <=> t = Idle

\* The thread signal() has marked and not yet put on the run queue, or not yet
\* marked as being there
Marked(t) == pc[current] = "signal_add" /\ arg[current].tp = t
Added(t) == pc[current] = "signal_on_rq" /\ arg[current].tp = t

\* What the flags of a thread say of it
FlagsInv ==
    /\ sc[current] \in {"none", "tail"} /\ pc[current] \notin Stopping => Has(current, "RUNNING")
    /\ sc[current] = "bcast" \/ pc[current] \in Stopping
          => Has(current, "EXIT") /\ ~Has(current, "RUNNING")
    /\ ~Has(current, "RUNNING") \/ pc[current] \in {"kill_stop", "wait_stop"}
          => Has(current, "NEED_RESCHED")
    /\ \A t \in Threads :
          /\ Has(t, "EXIT") => ~Has(t, "RUNNING") \/ pc[t] \in Dying
          /\ pc[t] \in Dying \cup {"dead"} => Has(t, "EXIT")
          /\ Has(t, "WAITING") => ~Has(t, "RUNNING") \/ pc[t] \in Waits
          /\ Has(t, "WAITING") => ~Has(t, "EXIT")
          /\ pc[t] \in Waits => Has(t, "WAITING")
          /\ sc[t] = "uncreated" => flags[t] = {}
          /\ sc[t] = "fresh" => Has(t, "RUNNING")
          /\ Marked(t) \/ Added(t) => Has(t, "RUNNING") /\ t # current
    /\ Has(Idle, "RUNNING") /\ ~Has(Idle, "REMOTE_KILL")

\* The run queue: whoever is RUNNING and does not run
RunInv ==
    /\ num = Len(runq) /\ Once(runq)
    /\ \A t \in Threads :
          /\ t \in ToSet(runq) <=> t # current /\ Has(t, "RUNNING") /\ ~Marked(t)
          /\ Has(t, "RUNNING") /\ (t = Idle => t # current) /\ ~Marked(t) /\ ~Added(t) => on_rq[t]

Armed(t) == \E r \in ToSet(timers) : r.tp = t

\* No thread has two timers.
Sole(l) == Once(l) /\ \A r, s \in ToSet(l) : r.tp = s.tp => r = s

\* Why a thread is not RUNNING
PlaceInv ==
    \A t \in Threads :
        /\ ~Has(t, "RUNNING") => \/ sc[t] = "uncreated" \/ Has(t, "EXIT") \/ Has(t, "WAITING")
                                 \/ t \in ToSet(wake)
                                 \/ Has(t, "SLEEPING") /\ Armed(t)
        /\ t \in ToSet(wake) \/ Armed(t)
              => ~Has(t, "RUNNING") /\ ~Has(t, "WAITING") /\ ~Has(t, "EXIT") /\ sc[t] # "uncreated"
        /\ t \in ToSet(wake) => pc[t] = "ev_return"

\* The timers
TimerInv ==
    /\ Sole(timers)
    /\ \A r \in ToSet(timers) :
          /\ r.fn = "event" <=> r.tp \in ToSet(wake)
          /\ r.fn = "event" => r.q = arg[r.tp].q
          /\ r.tp = current => r.left > 0
    /\ \A t \in ToSet(wake) : (tmr[t] = "SET" <=> Armed(t)) /\ tmr[t] # "SIGNALED"

\* The event queues and the wake list
EventInv ==
    /\ Once(wake)
    /\ \A q \in QueueIds :
          /\ Once(queue[q])
          /\ \A t \in Threads : t \in ToSet(queue[q]) <=> t \in ToSet(wake) /\ arg[t].q = q
          /\ q \in sig => queue[q] = <<>>
    /\ \A t \in Threads : ec[t] > 0 => t \in ToSet(wake) /\ queue[arg[t].q][1] = t

\* What a call has looked at is still so when it acts on it.
CallInv ==
    /\ pc[current] = "notify" /\ arg[current].head # "THREAD" => queue[arg[current].q] = <<>>
    /\ pc[current] = "created" => sc[arg[current].tp] # "uncreated"
    /\ pc[current] = "join_wait" => ~Has(arg[current].tp, "EXIT")
    /\ pc[current] \in {"ev_check", "ev_enqueue"} /\ arg[current].q \in Threads
          => ~Has(arg[current].q, "EXIT")

\* A thread that is about to tell its joiners
Telling(t) == t = current /\ (sc[t] = "bcast" \/ pc[t] \in Dying \cup {"kill_join", "kill_broadcast"})

\* The dead
DeadInv ==
    /\ current \notin freed
    /\ \A t \in Threads :
          /\ Has(t, "EXIT") /\ ~Telling(t) => queue[t] = <<>>
          /\ t \in ToSet(killq) \cup freed => Has(t, "EXIT") /\ ~Has(t, "RUNNING")
          /\ t # Main /\ Has(t, "EXIT") /\ (t # current \/ sc[t] # "none")
                => t \in ToSet(killq) \cup freed
          /\ t # Main /\ sc[t] # "uncreated" /\ ~(pc[current] = "created" /\ arg[current].tp = t)
                => Has(t, "SYSTEM_STACK")

CoopInv ==
    /\ TypeOK /\ ControlInv /\ FlagsInv /\ RunInv /\ PlaceInv /\ TimerInv /\ EventInv
    /\ CallInv /\ DeadInv

----------------------------------------------------------------------------
(* Steps that leave the queues alone *)

\* No queue is marked SIGNALED while threads wait in it.
Settled == \A q \in QueueIds : q \in sig' => q \in sig \/ queue[q] = <<>>

\* The running thread writes to its flags, its place in the code and its
\* arguments; of the others it may mark one as killed, or its stack.
Quiet(t) ==
    /\ t = current /\ sc'[t] # "uncreated" /\ Settled
    /\ UNCHANGED <<current, runq, num, on_rq, wake, queue, ec, timers>>
    /\ {pc[t], pc'[t]} \cap {"signal_add", "signal_on_rq"} = {}
    /\ \A u \in Threads \ {t} :
          /\ sc'[u] = sc[u] /\ pc'[u] = pc[u] /\ arg'[u] = arg[u] /\ tmr'[u] = tmr[u]
          /\ \A f \in {"RUNNING", "EXIT", "WAITING", "SLEEPING"} : f \in flags'[u] <=> f \in flags[u]
    /\ \/ /\ Has(t, "RUNNING") \/ Has(t, "EXIT")
          /\ "RUNNING" \in flags'[t] => Has(t, "RUNNING")
          /\ "RUNNING" \notin flags'[t] => flags'[t] \cap {"EXIT", "WAITING"} # {}
       \/ /\ pc'[t] = pc[t] /\ arg'[t] = arg[t] /\ tmr'[t] = tmr[t]
          /\ \A f \in {"RUNNING", "EXIT", "WAITING", "SLEEPING"} : f \in flags'[t] <=> f \in flags[t]

\* Timers and the wake list are about threads.
LEMMA TimerOwners ==
    ASSUME TypeOK
    PROVE  /\ \A r \in ToSet(timers) : r.tp \in Threads /\ r \in Timer
           /\ ToSet(wake) \subseteq Threads
<1>1. \A r \in Timer : r.tp \in Threads
  BY DEF Timer
<1>2. timers \in Seq(Timer) /\ wake \in Seq(Threads)
  BY DEF TypeOK
<1>3. ToSet(timers) \subseteq Timer /\ ToSet(wake) \subseteq Threads
  BY <1>2, ElementPlace
<1>4. QED
  BY <1>1, <1>3

\* A quiet step keeps what is said of the queues.
LEMMA QuietKeeps ==
    ASSUME CoopInv, NEW t \in Threads, Quiet(t)
    PROVE  RunInv' /\ PlaceInv' /\ TimerInv' /\ EventInv'
<1>1. \/ t \notin ToSet(wake) /\ ~Armed(t)
      \/ /\ pc'[t] = pc[t] /\ arg'[t] = arg[t] /\ tmr'[t] = tmr[t]
         /\ \A f \in {"RUNNING", "EXIT", "WAITING", "SLEEPING"} : f \in flags'[t] <=> f \in flags[t]
  BY DEF CoopInv, PlaceInv, Quiet
<1>2. RunInv'
  BY DEF CoopInv, RunInv, Quiet, Has, Marked, Added
<1>3. PlaceInv'
  BY <1>1 DEF CoopInv, ControlInv, PlaceInv, Quiet, Has, Armed
<1>4. TimerInv'
  <2>1. \A r \in ToSet(timers) : r.tp \in Threads
    BY TimerOwners DEF CoopInv
  <2>2. ToSet(wake) \subseteq Threads
    BY TimerOwners DEF CoopInv
  <2>3. QED
    BY <1>1, <2>1, <2>2 DEF CoopInv, TimerInv, Quiet, Armed, Sole
<1>5. EventInv'
  BY <1>1 DEF CoopInv, EventInv, Quiet, Settled
<1>6. QED
  BY <1>2, <1>3, <1>4, <1>5

\* The labels of a call that neither waits for signal(), dies nor makes threads
Plain == {"app", "idle", "ev_check", "ev_enqueue", "ev_return", "notify", "broadcast",
          "broadcast_yield", "join_wait"}

\* A quiet step between two of them
Calm(t) ==
    /\ t = current /\ sc[t] = "none" /\ Settled
    /\ {pc[t], pc'[t]} \subseteq Plain /\ (pc'[t] = "idle" <=> pc[t] = "idle")
    /\ sc'[t] = "none" \/ (sc'[t] = "enter" /\ pc'[t] \in Outside)
    /\ UNCHANGED <<current, runq, num, on_rq, wake, queue, ec, timers, killq, freed, irqExec, cpuState, isr>>
    /\ \A u \in Threads \ {t} : sc'[u] = sc[u] /\ pc'[u] = pc[u] /\ arg'[u] = arg[u] /\ tmr'[u] = tmr[u]
    /\ \A u \in Threads :
          /\ flags[u] \subseteq flags'[u] /\ flags'[u] \subseteq flags[u] \cup {"NEED_RESCHED", "REMOTE_KILL"}
          /\ sc[u] = "uncreated" => flags'[u] = flags[u]
    /\ ~Has(Idle, "REMOTE_KILL")'

\* A calm step keeps the invariant, if what the call looked at is so.
LEMMA CalmKeeps ==
    ASSUME CoopInv, TypeOK', NEW t \in Threads, Calm(t), CallInv'
    PROVE  CoopInv'
<1>1. /\ t = current /\ current' = t /\ killq' = killq /\ freed' = freed /\ queue' = queue
      /\ sc[t] = "none" /\ pc[t] \in Plain /\ pc'[t] \in Plain /\ sc'[t] \in {"none", "enter"}
      /\ \A u \in Threads \ {t} : sc'[u] = sc[u] /\ pc'[u] = pc[u] /\ arg'[u] = arg[u]
      /\ Has(t, "RUNNING") /\ ~Has(t, "EXIT") /\ ~Has(t, "WAITING")
  BY DEF CoopInv, Calm, ControlInv, FlagsInv, Outside, Plain, Stopping, Dying, Waits
<1>2. \A u \in Threads : /\ Has(u, "RUNNING")' <=> Has(u, "RUNNING")
                         /\ Has(u, "EXIT")' <=> Has(u, "EXIT")
                         /\ Has(u, "WAITING")' <=> Has(u, "WAITING")
                         /\ Has(u, "SLEEPING")' <=> Has(u, "SLEEPING")
                         /\ Has(u, "SYSTEM_STACK")' <=> Has(u, "SYSTEM_STACK")
                         /\ Has(u, "NEED_RESCHED") => Has(u, "NEED_RESCHED")'
                         /\ sc[u] = "uncreated" => flags'[u] = flags[u]
  BY DEF Calm, Has
<1>3. Quiet(t)
  BY <1>1, <1>2 DEF Quiet, Calm, Plain, Has
<1>4. ControlInv'
  BY <1>1 DEF CoopInv, ControlInv, Calm, Plain
<1>5. FlagsInv'
  <2>1. /\ sc'[t] = "none" => Has(t, "RUNNING")'
        /\ sc'[t] # "bcast" /\ pc'[t] \notin Stopping /\ Has(t, "RUNNING")'
        /\ pc'[t] \notin {"kill_stop", "wait_stop"} /\ Has(Idle, "RUNNING")' /\ ~Has(Idle, "REMOTE_KILL")'
    BY <1>1, <1>2, ThreadsAssumption DEF CoopInv, FlagsInv, Plain, Stopping, Calm
  <2>2. \A u \in Threads :
          /\ Has(u, "EXIT")' => ~Has(u, "RUNNING")' \/ pc'[u] \in Dying
          /\ pc'[u] \in Dying \cup {"dead"} => Has(u, "EXIT")'
          /\ Has(u, "WAITING")' => ~Has(u, "RUNNING")' \/ pc'[u] \in Waits
          /\ Has(u, "WAITING")' => ~Has(u, "EXIT")'
          /\ pc'[u] \in Waits => Has(u, "WAITING")'
          /\ sc'[u] = "uncreated" => flags'[u] = {}
          /\ sc'[u] = "fresh" => Has(u, "RUNNING")'
    BY <1>1, <1>2 DEF CoopInv, FlagsInv, Plain, Dying, Waits
  <2>3. \A u \in Threads : ~Marked(u)' /\ ~Added(u)'
    BY <1>1 DEF Marked, Added, Plain
  <2>4. QED
    BY <1>1, <2>1, <2>2, <2>3 DEF FlagsInv
<1>6. DeadInv'
  BY <1>1, <1>2 DEF CoopInv, DeadInv, Plain, Telling, Dying
<1>7. QED
  BY <1>3, <1>4, <1>5, <1>6, QuietKeeps DEF CoopInv

\* The running thread goes from label a to b, and into the scheduler if ph says so.
Turn(t, a, b, ph) == pc[t] = a /\ pc'[t] = b /\ sc'[t] = ph

\* wait() and kill() write to the flags in steps of their own.
FlagStep(t) ==
    /\ t = current /\ sc[t] = "none"
    /\ UNCHANGED <<current, runq, num, on_rq, wake, queue, ec, timers, tmr, freed, irqExec, cpuState, isr>> /\ Settled
    /\ \A u \in Threads \ {t} : sc'[u] = sc[u] /\ pc'[u] = pc[u] /\ arg'[u] = arg[u] /\ flags'[u] = flags[u]
    /\ ToSet(killq)' = ToSet(killq) \cup IF pc[t] = "kill_queue" THEN {t} ELSE {}
    /\ \/ Turn(t, "app", "wait_resched", "none") /\ flags'[t] = flags[t] \cup {"WAITING"}
       \/ Turn(t, "wait_resched", "wait_stop", "none") /\ flags'[t] = flags[t] \cup {"NEED_RESCHED"}
       \/ Turn(t, "wait_stop", "app", "enter") /\ flags'[t] = flags[t] \ {"RUNNING"}
       \/ Turn(t, "app", "kill_resched", "none") /\ flags'[t] = flags[t] \cup {"EXIT"}
       \/ Turn(t, "kill_resched", "kill_stop", "none") /\ flags'[t] = flags[t] \cup {"NEED_RESCHED"}
       \/ Turn(t, "kill_stop", "kill_join", "none") /\ flags'[t] = flags[t] \ {"RUNNING"}
       \/ Turn(t, "kill_join", "kill_broadcast", "none") /\ flags'[t] = flags[t]
       \/ Turn(t, "kill_broadcast", "kill_queue", "none") /\ flags'[t] = flags[t] /\ queue[t] = <<>>
       \/ Turn(t, "kill_queue", "dead", "enter") /\ flags'[t] = flags[t]

\* No prefix of the writes of wait() and kill() breaks the invariant.
LEMMA FlagStepKeeps ==
    ASSUME CoopInv, TypeOK', NEW t \in Threads, FlagStep(t)
    PROVE  CoopInv'
<1>1. /\ t = current /\ sc[t] = "none" /\ pc'[t] \in Labels
      /\ UNCHANGED <<current, runq, num, on_rq, wake, queue, ec, timers, tmr, freed, irqExec, cpuState, isr>> /\ Settled
      /\ \A u \in Threads \ {t} : sc'[u] = sc[u] /\ pc'[u] = pc[u] /\ arg'[u] = arg[u] /\ flags'[u] = flags[u]
      /\ ToSet(killq)' = ToSet(killq) \cup IF pc[t] = "kill_queue" THEN {t} ELSE {}
  BY DEF FlagStep, TypeOK
<1>2. /\ Has(t, "EXIT") => ~Has(t, "RUNNING") \/ pc[t] \in Dying
      /\ Has(t, "WAITING") => ~Has(t, "EXIT") /\ (~Has(t, "RUNNING") \/ pc[t] \in Waits)
      /\ Has(t, "RUNNING") <=> pc[t] \notin Stopping
      /\ pc[t] \in Stopping \cup Dying => Has(t, "EXIT")
      /\ pc[t] \in Waits => Has(t, "WAITING")
      /\ pc[t] \in Stopping \cup {"kill_stop", "wait_stop"} => Has(t, "NEED_RESCHED")
      /\ t # Idle
  BY <1>1 DEF FlagStep, Turn, CoopInv, ControlInv, FlagsInv, Stopping, Dying
<1>3. Quiet(t)
  BY <1>1, <1>2 DEF FlagStep, Turn, Quiet, Has, Stopping, Dying, Waits
<1>4. ControlInv'
  BY <1>1, <1>2 DEF FlagStep, Turn, CoopInv, ControlInv, Outside
<1>5. FlagsInv'
  <2>1. /\ sc'[t] \in {"none", "tail"} /\ pc'[t] \notin Stopping => Has(t, "RUNNING")'
        /\ sc'[t] = "bcast" \/ pc'[t] \in Stopping => Has(t, "EXIT")' /\ ~Has(t, "RUNNING")'
        /\ ~Has(t, "RUNNING")' \/ pc'[t] \in {"kill_stop", "wait_stop"} => Has(t, "NEED_RESCHED")'
        /\ Has(t, "EXIT")' => ~Has(t, "RUNNING")' \/ pc'[t] \in Dying
        /\ pc'[t] \in Dying \cup {"dead"} => Has(t, "EXIT")'
        /\ Has(t, "WAITING")' => ~Has(t, "RUNNING")' \/ pc'[t] \in Waits
        /\ Has(t, "WAITING")' => ~Has(t, "EXIT")'
        /\ pc'[t] \in Waits => Has(t, "WAITING")'
    BY <1>1, <1>2 DEF FlagStep, Turn, Stopping, Dying, Waits, Has
  <2>2. \A u \in Threads : ~Marked(u)' /\ ~Added(u)'
    BY <1>1 DEF FlagStep, Turn, Marked, Added
  <2>3. Has(Idle, "RUNNING")' /\ ~Has(Idle, "REMOTE_KILL")' /\ sc'[t] \notin {"uncreated", "fresh"}
    BY <1>1, <1>2, ThreadsAssumption DEF FlagStep, Turn, CoopInv, FlagsInv, Has
  <2>4. QED
    BY <1>1, <2>1, <2>2, <2>3 DEF CoopInv, FlagsInv, Has
<1>6. CallInv'
  BY <1>1 DEF FlagStep, Turn, CallInv
<1>7. DeadInv'
  <2>1. Has(t, "EXIT")' /\ ~Telling(t)' => queue[t] = <<>>
    BY <1>1, <1>2 DEF FlagStep, Turn, CoopInv, DeadInv, Telling, Stopping, Dying, Has
  <2>2. t \in ToSet(killq)' \cup freed' => Has(t, "EXIT")' /\ ~Has(t, "RUNNING")'
    BY <1>1, <1>2 DEF FlagStep, Turn, CoopInv, DeadInv, Stopping, Has
  <2>3. t # Main /\ Has(t, "EXIT")' /\ sc'[t] # "none" => t \in ToSet(killq)' \cup freed'
    BY <1>1, <1>2 DEF FlagStep, Turn, CoopInv, DeadInv, Stopping, Dying, Has
  <2>4. /\ Has(t, "SYSTEM_STACK")' <=> Has(t, "SYSTEM_STACK")
        /\ pc[t] # "created" /\ pc'[t] # "created" /\ sc[t] # "uncreated"
    BY <1>1 DEF FlagStep, Turn, Has
  <2>5. QED
    BY <1>1, <2>1, <2>2, <2>3, <2>4 DEF CoopInv, DeadInv, Telling, Has
<1>8. QED
  BY <1>3, <1>4, <1>5, <1>6, <1>7, QuietKeeps DEF CoopInv

\* yield keeps the invariant.
LEMMA YieldKeeps ==
    ASSUME Cooperative, CoopInv, TypeOK', NEW t \in Threads, Yield(t)
    PROVE  CoopInv'
<1>1. TypeOK /\ ~irqExec /\ "REMOTE_KILL" \notin flags[Idle] /\ Idle \in Threads
  BY ThreadsAssumption DEF CoopInv, ControlInv, FlagsInv, Has
<1>2. Calm(t)
  BY <1>1 DEF Calm, Settled, Plain, TypeOK, Has, Outside, Cooperative, Yield, YieldFlags,
     CallSchedule, Calls, Running, rqVars, evVars, tmrVars, deadVars, irqVars, callVars
<1>3. CallInv'
  BY QueuesAssumption DEF CoopInv, CallInv, TypeOK, Cooperative, Has, QueueIds, Yield,
     YieldFlags, CallSchedule, Calls, Running, rqVars, evVars, tmrVars, deadVars, irqVars,
     callVars
<1>4. QED
  BY <1>2, <1>3, CalmKeeps

\* nice keeps the invariant.
LEMMA NiceKeeps ==
    ASSUME Cooperative, CoopInv, TypeOK', NEW t \in Threads, NEW p, Nice(t, p)
    PROVE  CoopInv'
<1>1. TypeOK /\ ~irqExec /\ "REMOTE_KILL" \notin flags[Idle] /\ Idle \in Threads
  BY ThreadsAssumption DEF CoopInv, ControlInv, FlagsInv, Has
<1>2. Calm(t)
  BY <1>1 DEF Calm, Settled, Plain, TypeOK, Has, Outside, Cooperative, Nice, YieldFlags,
     CallSchedule, Calls, Running, rqVars, evVars, tmrVars, deadVars, irqVars, callVars
<1>3. CallInv'
  BY QueuesAssumption DEF CoopInv, CallInv, TypeOK, Cooperative, Has, QueueIds, Nice,
     YieldFlags, CallSchedule, Calls, Running, rqVars, evVars, tmrVars, deadVars, irqVars,
     callVars
<1>4. QED
  BY <1>2, <1>3, CalmKeeps

\* The yield at the end of event_notify_broadcast keeps the invariant.
LEMMA BroadcastYieldKeeps ==
    ASSUME Cooperative, CoopInv, TypeOK', NEW t \in Threads, EventBroadcastYield(t)
    PROVE  CoopInv'
<1>1. TypeOK /\ ~irqExec /\ "REMOTE_KILL" \notin flags[Idle] /\ Idle \in Threads
  BY ThreadsAssumption DEF CoopInv, ControlInv, FlagsInv, Has
<1>2. Calm(t)
  BY <1>1 DEF Calm, Settled, Plain, TypeOK, Has, Outside, Cooperative, EventBroadcastYield,
     YieldFlags, CallSchedule, Return, Calls, Running, rqVars, evVars, tmrVars, deadVars,
     irqVars, callVars
<1>3. CallInv'
  BY QueuesAssumption DEF CoopInv, CallInv, TypeOK, Cooperative, Has, QueueIds,
     EventBroadcastYield, YieldFlags, CallSchedule, Return, Calls, Running, rqVars, evVars,
     tmrVars, deadVars, irqVars, callVars
<1>4. QED
  BY <1>2, <1>3, CalmKeeps

\* The idle loop keeps the invariant.
LEMMA IdleLoopKeeps ==
    ASSUME Cooperative, CoopInv, TypeOK', NEW t \in Threads, IdleLoop(t)
    PROVE  CoopInv'
<1>1. TypeOK /\ ~irqExec /\ "REMOTE_KILL" \notin flags[Idle] /\ Idle \in Threads
  BY ThreadsAssumption DEF CoopInv, ControlInv, FlagsInv, Has
<1>2. Calm(t)
  BY <1>1 DEF Calm, Settled, Plain, TypeOK, Has, Outside, Cooperative, IdleLoop,
     CallSchedule, Calls, Running, rqVars, evVars, tmrVars, deadVars, irqVars, callVars
<1>3. CallInv'
  BY QueuesAssumption DEF CoopInv, CallInv, TypeOK, Cooperative, Has, QueueIds, IdleLoop,
     CallSchedule, Calls, Running, rqVars, evVars, tmrVars, deadVars, irqVars, callVars
<1>4. QED
  BY <1>2, <1>3, CalmKeeps

\* thread_destroy of another thread marks it and keeps the invariant.
LEMMA ThreadDestroyKeeps ==
    ASSUME Cooperative, CoopInv, TypeOK', NEW t \in Threads, NEW u \in Threads, ThreadDestroy(t, u)
    PROVE  CoopInv'
<1>1. TypeOK /\ ~irqExec /\ "REMOTE_KILL" \notin flags[Idle] /\ Idle \in Threads
  BY ThreadsAssumption DEF CoopInv, ControlInv, FlagsInv, Has
<1>2. Calm(t)
  BY <1>1 DEF Calm, Settled, Plain, TypeOK, Has, Outside, Cooperative, ThreadDestroy, Calls,
     Running, rqVars, evVars, tmrVars, deadVars, irqVars, callVars
<1>3. CallInv'
  BY QueuesAssumption DEF CoopInv, CallInv, TypeOK, Cooperative, Has, QueueIds,
     ThreadDestroy, Calls, Running, rqVars, evVars, tmrVars, deadVars, irqVars, callVars
<1>4. QED
  BY <1>2, <1>3, CalmKeeps

\* raw_event_wait returns with the invariant.
LEMMA EvReturnKeeps ==
    ASSUME Cooperative, CoopInv, TypeOK', NEW t \in Threads, EvReturn(t)
    PROVE  CoopInv'
<1>1. TypeOK /\ ~irqExec /\ "REMOTE_KILL" \notin flags[Idle] /\ Idle \in Threads
  BY ThreadsAssumption DEF CoopInv, ControlInv, FlagsInv, Has
<1>2. Calm(t)
  BY <1>1 DEF Calm, Settled, Plain, TypeOK, Has, Outside, Cooperative, EvReturn, Return,
     Calls, Running, rqVars, evVars, tmrVars, deadVars, irqVars, callVars
<1>3. CallInv'
  BY QueuesAssumption DEF CoopInv, CallInv, TypeOK, Cooperative, Has, QueueIds, EvReturn,
     Return, Calls, Running, rqVars, evVars, tmrVars, deadVars, irqVars, callVars
<1>4. QED
  BY <1>2, <1>3, CalmKeeps

\* join has seen a thread that lives.
LEMMA JoinKeeps ==
    ASSUME Cooperative, CoopInv, TypeOK', NEW t \in Threads, NEW u \in Threads, Join(t, u)
    PROVE  CoopInv'
<1>1. TypeOK /\ ~irqExec /\ "REMOTE_KILL" \notin flags[Idle] /\ Idle \in Threads
  BY ThreadsAssumption DEF CoopInv, ControlInv, FlagsInv, Has
<1>2. Calm(t)
  BY <1>1 DEF Calm, Settled, Plain, TypeOK, Has, Outside, Cooperative, Join, Goto, Calls,
     Running, rqVars, evVars, tmrVars, deadVars, irqVars, callVars
<1>3. CallInv'
  BY QueuesAssumption DEF CoopInv, CallInv, TypeOK, Cooperative, Has, QueueIds, Join, Goto,
     Calls, Running, rqVars, evVars, tmrVars, deadVars, irqVars, callVars
<1>4. QED
  BY <1>2, <1>3, CalmKeeps

\* join goes on to event_wait while the thread still lives.
LEMMA JoinWaitKeeps ==
    ASSUME Cooperative, CoopInv, TypeOK', NEW t \in Threads, JoinWait(t)
    PROVE  CoopInv'
<1>1. TypeOK /\ ~irqExec /\ "REMOTE_KILL" \notin flags[Idle] /\ Idle \in Threads
  BY ThreadsAssumption DEF CoopInv, ControlInv, FlagsInv, Has
<1>2. Calm(t)
  BY <1>1 DEF Calm, Settled, Plain, TypeOK, Has, Outside, Cooperative, JoinWait,
     ForgetSignal, Goto, Calls, Running, rqVars, evVars, tmrVars, deadVars, irqVars,
     callVars
<1>3. CallInv'
  BY QueuesAssumption DEF CoopInv, CallInv, TypeOK, Cooperative, Has, QueueIds, JoinWait,
     ForgetSignal, Goto, Calls, Running, rqVars, evVars, tmrVars, deadVars, irqVars,
     callVars
<1>4. QED
  BY <1>2, <1>3, CalmKeeps

\* event_wait forgets a signal of its queue only.
LEMMA EventWaitKeeps ==
    ASSUME Cooperative, CoopInv, TypeOK', NEW t \in Threads, NEW q \in Queues, NEW ms \in Nat, EventWait(t, q, ms)
    PROVE  CoopInv'
<1>1. TypeOK /\ ~irqExec /\ "REMOTE_KILL" \notin flags[Idle] /\ Idle \in Threads
  BY ThreadsAssumption DEF CoopInv, ControlInv, FlagsInv, Has
<1>2. Calm(t)
  BY <1>1 DEF Calm, Settled, Plain, TypeOK, Has, Outside, Cooperative, EventWait,
     ForgetSignal, Goto, Calls, Running, rqVars, evVars, tmrVars, deadVars, irqVars,
     callVars
<1>3. CallInv'
  BY QueuesAssumption DEF CoopInv, CallInv, TypeOK, Cooperative, Has, QueueIds, EventWait,
     ForgetSignal, Goto, Calls, Running, rqVars, evVars, tmrVars, deadVars, irqVars,
     callVars
<1>4. QED
  BY <1>2, <1>3, CalmKeeps

\* raw_event_wait takes a signal or goes on to enqueue itself.
LEMMA RawEventWaitKeeps ==
    ASSUME Cooperative, CoopInv, TypeOK', NEW t \in Threads, NEW q \in Queues, NEW ms \in Nat, RawEventWait(t, q, ms)
    PROVE  CoopInv'
<1>1. TypeOK /\ ~irqExec /\ "REMOTE_KILL" \notin flags[Idle] /\ Idle \in Threads
  BY ThreadsAssumption DEF CoopInv, ControlInv, FlagsInv, Has
<1>2. Calm(t)
  BY <1>1, SMTT(40) DEF Calm, Settled, Plain, TypeOK, Has, Outside, Cooperative, RawEventWait,
     RawEventWaitCheck, PreemptEnable, PreemptDisable, Return, Goto, Calls, Running, rqVars,
     evVars, tmrVars, deadVars, irqVars, callVars
<1>3. CallInv'
  <2>1. /\ t = current /\ current' = current /\ flags' = flags
        /\ pc'[t] = "app" \/ (pc'[t] = "ev_enqueue" /\ arg'[t].q = q)
    BY DEF CoopInv, TypeOK, Args, RawEventWait, Calls, RawEventWaitCheck, Running, Return,
       Goto, rqVars, evVars, tmrVars, deadVars, irqVars, callVars
  <2>2. q \in Threads => ~Has(q, "EXIT")
    BY QueuesAssumption DEF CoopInv, CallInv, RawEventWait, Calls, Running
  <2>3. QED
    BY <2>1, <2>2 DEF CallInv, Has
<1>4. QED
  BY <1>2, <1>3, CalmKeeps

\* So does the raw_event_wait inside event_wait.
LEMMA EvCheckKeeps ==
    ASSUME Cooperative, CoopInv, TypeOK', NEW t \in Threads, EvCheck(t)
    PROVE  CoopInv'
<1>1. TypeOK /\ ~irqExec /\ "REMOTE_KILL" \notin flags[Idle] /\ Idle \in Threads
  BY ThreadsAssumption DEF CoopInv, ControlInv, FlagsInv, Has
<1>2. Calm(t)
  BY <1>1 DEF Calm, Settled, Plain, TypeOK, Has, Outside, Cooperative, EvCheck,
     RawEventWaitCheck, PreemptEnable, PreemptDisable, Return, Goto, Calls, Running, rqVars,
     evVars, tmrVars, deadVars, irqVars, callVars
<1>3. CallInv'
  <2>1. /\ t = current /\ current' = current /\ flags' = flags
        /\ pc'[t] = "app" \/ (pc'[t] = "ev_enqueue" /\ arg'[t].q = arg[t].q)
    BY DEF CoopInv, TypeOK, Args, EvCheck, RawEventWaitCheck, Running, Return, Goto, rqVars,
       evVars, tmrVars, deadVars, irqVars, callVars
  <2>2. arg[t].q \in Threads => ~Has(arg[t].q, "EXIT")
    BY QueuesAssumption DEF CoopInv, CallInv, EvCheck, Running
  <2>3. QED
    BY <2>1, <2>2 DEF CallInv, Has
<1>4. QED
  BY <1>2, <1>3, CalmKeeps

\* event_notify_broadcast begins with the invariant.
LEMMA EventBroadcastKeeps ==
    ASSUME Cooperative, CoopInv, TypeOK', NEW t \in Threads, NEW q \in Queues, EventBroadcast(t, q)
    PROVE  CoopInv'
<1>1. TypeOK /\ ~irqExec /\ "REMOTE_KILL" \notin flags[Idle] /\ Idle \in Threads
  BY ThreadsAssumption DEF CoopInv, ControlInv, FlagsInv, Has
<1>2. Calm(t)
  BY <1>1 DEF Calm, Settled, Plain, TypeOK, Has, Outside, Cooperative, EventBroadcast, Goto,
     Calls, Running, rqVars, evVars, tmrVars, deadVars, irqVars, callVars
<1>3. CallInv'
  BY QueuesAssumption DEF CoopInv, CallInv, TypeOK, Cooperative, Has, QueueIds,
     EventBroadcast, Goto, Calls, Running, rqVars, evVars, tmrVars, deadVars, irqVars,
     callVars
<1>4. QED
  BY <1>2, <1>3, CalmKeeps

\* event_notify reads a qhead that will still be so when it acts on it.
LEMMA EventNotifyKeeps ==
    ASSUME Cooperative, CoopInv, TypeOK', NEW t \in Threads, NEW q \in Queues, EventNotify(t, q)
    PROVE  CoopInv'
<1>1. TypeOK /\ ~irqExec /\ "REMOTE_KILL" \notin flags[Idle] /\ Idle \in Threads
  BY ThreadsAssumption DEF CoopInv, ControlInv, FlagsInv, Has
<1>2. Calm(t)
  BY <1>1 DEF Calm, Settled, Plain, TypeOK, Has, Outside, Cooperative, EventNotify, Goto,
     Calls, Running, rqVars, evVars, tmrVars, deadVars, irqVars, callVars
<1>3. CallInv'
  <2>1. /\ t = current /\ current' = current /\ queue' = queue /\ pc'[t] = "notify"
        /\ arg'[t].q = q /\ (arg'[t].head # "THREAD" => queue[q] = <<>>)
    <3>0. TypeOK /\ ~irqExec /\ (q \in sig => queue[q] = <<>>)
      BY DEF CoopInv, ControlInv, EventInv, QueueIds
    <3>1. /\ arg' = [arg EXCEPT ![t].q = q, ![t].head =
                  IF q \in sig THEN "SIGNALED" ELSE IF queue[q] = <<>> THEN "NULL" ELSE "THREAD"]
          /\ t = current /\ current' = current /\ queue' = queue /\ pc'[t] = "notify"
          /\ arg[t] \in Args /\ arg \in [Threads -> Args]
      BY <3>0 DEF TypeOK, EventNotify, Calls, Running, Goto, rqVars, evVars, tmrVars,
         deadVars, irqVars, callVars
    <3>2. arg'[t] = [arg[t] EXCEPT !.q = q, !.head =
                  IF q \in sig THEN "SIGNALED" ELSE IF queue[q] = <<>> THEN "NULL" ELSE "THREAD"]
      BY <3>1
    <3>3. QED
      BY <3>0, <3>1, <3>2, q \in QueueIds DEF Args, QueueIds
  <2>2. QED
    BY <2>1 DEF CallInv
<1>4. QED
  BY <1>2, <1>3, CalmKeeps

\* wait sets WAITING first.
LEMMA WaitKeeps ==
    ASSUME Cooperative, CoopInv, TypeOK', NEW t \in Threads, Wait(t)
    PROVE  CoopInv'
<1>1. FlagStep(t)
  BY DEF FlagStep, Settled, Turn, CoopInv, TypeOK, Wait, Calls, Goto, Running, rqVars,
     evVars, tmrVars, deadVars, irqVars, callVars
<1>2. QED
  BY <1>1, FlagStepKeeps

\* wait sets NEED_RESCHED second.
LEMMA WaitReschedKeeps ==
    ASSUME Cooperative, CoopInv, TypeOK', NEW t \in Threads, WaitResched(t)
    PROVE  CoopInv'
<1>1. FlagStep(t)
  BY DEF FlagStep, Settled, Turn, CoopInv, TypeOK, WaitResched, Goto, Running, rqVars,
     evVars, tmrVars, deadVars, irqVars, callVars
<1>2. QED
  BY <1>1, FlagStepKeeps

\* wait clears RUNNING last.
LEMMA WaitStopKeeps ==
    ASSUME Cooperative, CoopInv, TypeOK', NEW t \in Threads, WaitStop(t)
    PROVE  CoopInv'
<1>1. FlagStep(t)
  BY DEF FlagStep, Settled, Turn, CoopInv, TypeOK, WaitStop, Return, CallSchedule, Running,
     rqVars, evVars, tmrVars, deadVars, irqVars, callVars
<1>2. QED
  BY <1>1, FlagStepKeeps

\* kill sets EXIT first.
LEMMA KillKeeps ==
    ASSUME Cooperative, CoopInv, TypeOK', NEW t \in Threads, Kill(t)
    PROVE  CoopInv'
<1>1. FlagStep(t)
  BY DEF FlagStep, Settled, Turn, CoopInv, TypeOK, Kill, Calls, Goto, Running, rqVars,
     evVars, tmrVars, deadVars, irqVars, callVars
<1>2. QED
  BY <1>1, FlagStepKeeps

\* kill sets NEED_RESCHED second.
LEMMA KillReschedKeeps ==
    ASSUME Cooperative, CoopInv, TypeOK', NEW t \in Threads, KillResched(t)
    PROVE  CoopInv'
<1>1. FlagStep(t)
  BY DEF FlagStep, Settled, Turn, CoopInv, TypeOK, KillResched, Goto, Running, rqVars,
     evVars, tmrVars, deadVars, irqVars, callVars
<1>2. QED
  BY <1>1, FlagStepKeeps

\* kill clears RUNNING third.
LEMMA KillStopKeeps ==
    ASSUME Cooperative, CoopInv, TypeOK', NEW t \in Threads, KillStop(t)
    PROVE  CoopInv'
<1>1. FlagStep(t)
  BY DEF FlagStep, Settled, Turn, CoopInv, TypeOK, KillStop, Goto, Running, rqVars, evVars,
     tmrVars, deadVars, irqVars, callVars
<1>2. QED
  BY <1>1, FlagStepKeeps

\* kill begins to tell the joiners.
LEMMA KillJoinKeeps ==
    ASSUME Cooperative, CoopInv, TypeOK', NEW t \in Threads, KillJoin(t)
    PROVE  CoopInv'
<1>1. FlagStep(t)
  BY DEF FlagStep, Settled, Turn, CoopInv, TypeOK, KillJoin, Goto, PreemptDisable, Running,
     rqVars, evVars, tmrVars, deadVars, irqVars, callVars
<1>2. QED
  BY <1>1, FlagStepKeeps

\* kill puts the thread on the kill queue when its joiners are told.
LEMMA KillQueueKeeps ==
    ASSUME Cooperative, CoopInv, TypeOK', NEW t \in Threads, KillQueue(t)
    PROVE  CoopInv'
<1>1. ToSet(killq)' = ToSet(killq) \cup {t}
  <2>1. killq \in Seq(Threads) /\ <<t>> \in Seq(Threads) /\ killq' = <<t>> \o killq
    BY DEF CoopInv, TypeOK, KillQueue
  <2>2. ToSet(<<t>>) = {t}
    BY DEF ToSet
  <2>3. ToSet(<<t>> \o killq) = ToSet(<<t>>) \cup ToSet(killq)
    BY <2>1, ConcatOnce, ZenonT(40)
  <2>4. QED
    BY <2>1, <2>2, <2>3
<1>2. FlagStep(t)
  BY <1>1 DEF FlagStep, Settled, Turn, CoopInv, TypeOK, KillQueue, Goto, CallSchedule,
     Running, rqVars, evVars, tmrVars, deadVars, irqVars, callVars
<1>3. QED
  BY <1>2, FlagStepKeeps

\* A step of the scheduler that only moves on
PhaseStep(t) ==
    /\ t = current /\ Settled
    /\ UNCHANGED <<current, runq, num, on_rq, wake, queue, ec, timers, tmr, pc, arg, flags, killq, freed, irqExec, cpuState, isr>>
    /\ \A u \in Threads \ {t} : sc'[u] = sc[u]
    /\ \/ sc[t] \in {"enter", "clock"} /\ sc'[t] = "signal"
       \/ sc[t] = "signal" /\ sc'[t] = "tail" /\ Has(t, "RUNNING")
       \/ sc[t] = "bcast" /\ sc'[t] = "enter" /\ queue[t] = <<>>

\* A move to the next phase of the scheduler keeps the invariant.
LEMMA PhaseKeeps ==
    ASSUME CoopInv, TypeOK', NEW t \in Threads, PhaseStep(t)
    PROVE  CoopInv'
<1>1. /\ t = current /\ UNCHANGED <<current, flags, pc, arg, queue, killq, freed>>
      /\ \A u \in Threads \ {t} : sc'[u] = sc[u]
      /\ sc[t] \in {"enter", "clock", "signal", "bcast"} /\ sc'[t] \in {"signal", "tail", "enter"}
  BY DEF PhaseStep
<1>2. pc[t] \in Outside
  BY <1>1 DEF CoopInv, ControlInv
<1>3. Quiet(t)
  BY <1>1, <1>2 DEF PhaseStep, Quiet, Outside
<1>4. ControlInv'
  BY <1>1 DEF PhaseStep, CoopInv, ControlInv
<1>5. FlagsInv'
  BY <1>1, <1>2 DEF PhaseStep, CoopInv, FlagsInv, Has, Marked, Added, Outside, Stopping
<1>6. CallInv'
  BY <1>1, <1>2 DEF CoopInv, CallInv, Has, Outside
<1>7. DeadInv'
  BY <1>1, <1>2 DEF PhaseStep, CoopInv, DeadInv, Telling, Has, Outside, Dying
<1>8. QED
  BY <1>3, <1>4, <1>5, <1>6, <1>7, QuietKeeps DEF CoopInv

\* The end of the timers keeps the invariant.
LEMMA ClockDoneKeeps ==
    ASSUME Cooperative, CoopInv, TypeOK', NEW t \in Threads, ClockDone(t)
    PROVE  CoopInv'
<1>1. PhaseStep(t)
  BY DEF PhaseStep, Settled, CoopInv, TypeOK, ClockDone, rqVars, evVars, tmrVars, deadVars,
     irqVars, callVars
<1>2. QED
  BY <1>1, PhaseKeeps

\* Without CONFIG_PREEMPT reschedule_decide looks at NEED_RESCHED and clears it.
LEMMA Decides ==
    ASSUME Cooperative, TypeOK, NEW t \in Threads, NEW n
    PROVE  /\ RescheduleDecide(t, n, PreemptCheck(t)) <=> Has(t, "NEED_RESCHED")
           /\ Decided(PreemptCheck(t)) = flags[t] \ {"NEED_RESCHED"}
BY DEF Cooperative, TypeOK, RescheduleDecide, PreemptCheck, Decided, Has

\* The scheduler keeps a thread only if it is RUNNING.
LEMMA KeepCurrentKeeps ==
    ASSUME Cooperative, CoopInv, TypeOK', NEW t \in Threads, KeepCurrent(t)
    PROVE  CoopInv'
<1>1. TypeOK /\ t = current /\ sc[t] = "signal"
  BY DEF CoopInv, KeepCurrent
<1>2. ~Has(t, "NEED_RESCHED") /\ flags' = [flags EXCEPT ![t] = flags[t] \ {"NEED_RESCHED"}]
  <2>1. ~RescheduleDecide(t, NextRunnable, PreemptCheck(t)) /\ flags' = [flags EXCEPT ![t] = Decided(PreemptCheck(t))]
    BY DEF KeepCurrent
  <2>2. QED
    BY <1>1, <2>1, Decides
<1>3. Has(t, "RUNNING")
  BY <1>1, <1>2 DEF CoopInv, FlagsInv
<1>4. flags' = flags
  <2>1. flags[t] \ {"NEED_RESCHED"} = flags[t]
    BY <1>2 DEF Has
  <2>2. QED
    BY <1>1, <1>2, <2>1 DEF TypeOK
<1>5. PhaseStep(t)
  BY <1>1, <1>3, <1>4 DEF PhaseStep, Settled, TypeOK, KeepCurrent, rqVars, evVars, tmrVars,
     deadVars, irqVars, callVars
<1>6. QED
  BY <1>5, PhaseKeeps

\* rq_destroy_kill_q frees the stacks of the dead only.
LEMMA ScheduleTailKeeps ==
    ASSUME Cooperative, CoopInv, TypeOK', NEW t \in Threads, ScheduleTail(t)
    PROVE  CoopInv'
<1>1. /\ t = current /\ sc[t] = "tail"
      /\ UNCHANGED <<current, runq, num, on_rq, wake, queue, sig, ec, timers, tmr, pc, arg, cpuState>>
      /\ \A u \in Threads \ {t} : sc'[u] = sc[u]
      /\ flags' = flags
      /\ sc'[t] \in {"none", "enter"}
      /\ ~irqExec' /\ isr' = isr
  BY DEF CoopInv, TypeOK, ControlInv, ScheduleTail, LeaveOrLoop, Cooperative, rqVars, evVars,
     tmrVars, deadVars, irqVars, callVars
<1>2. ToSet(killq)' = {} /\ freed' = freed \cup {u \in ToSet(killq) : Has(u, "SYSTEM_STACK")}
  BY DEF ScheduleTail, Reclaim, ToSet
<1>3. Has(t, "RUNNING") /\ ~Has(t, "EXIT") /\ ~Has(t, "WAITING") /\ pc[t] \in Outside
  BY <1>1 DEF CoopInv, ControlInv, FlagsInv, Outside, Stopping, Dying, Waits, ScheduleTail
<1>4. Quiet(t)
  BY <1>1, <1>3 DEF Quiet, Settled, Outside, Has
<1>5. ControlInv'
  BY <1>1, <1>3 DEF CoopInv, ControlInv
<1>6. FlagsInv'
  BY <1>1, <1>3 DEF CoopInv, FlagsInv, Has, Marked, Added, Outside, Stopping, Dying, Waits,
     Flags
<1>7. CallInv'
  BY <1>1, <1>3 DEF CallInv, Outside
<1>8. DeadInv'
  <2>1. \A u \in Threads : u # Main /\ u \in ToSet(killq) => Has(u, "SYSTEM_STACK")
    BY <1>1, <1>3 DEF CoopInv, DeadInv, FlagsInv, Outside, Has
  <2>2. /\ Has(t, "EXIT") <=> FALSE
        /\ t \notin ToSet(killq) \cup freed
    BY <1>3 DEF CoopInv, DeadInv
  <2>3. current' \notin freed'
    BY <1>1, <1>2, <2>2
  <2>4. \A u \in Threads \ {t} : u \in ToSet(killq)' \cup freed' => Has(u, "EXIT") /\ ~Has(u, "RUNNING")
    BY <1>1, <1>2 DEF CoopInv, DeadInv
  <2>5. \A u \in Threads \ {t} : u # Main /\ Has(u, "EXIT") => u \in freed'
    BY <1>1, <1>2, <2>1 DEF CoopInv, DeadInv
  <2>6. QED
    BY <1>1, <1>2, <1>3, <2>2, <2>3, <2>4, <2>5 DEF CoopInv, DeadInv, Has, Telling, Outside,
       Dying
<1>9. QED
  BY <1>4, <1>5, <1>6, <1>7, <1>8, QuietKeeps DEF CoopInv

\* sched_remote_kill_if kills the thread that runs, and it alone.
LEMMA RemoteKillIfKeeps ==
    ASSUME Cooperative, CoopInv, TypeOK', NEW t \in Threads, RemoteKillIf(t)
    PROVE  CoopInv'
<1>1. /\ t = current /\ sc[t] = "tail"
      /\ UNCHANGED <<current, runq, num, on_rq, wake, queue, sig, ec, timers, tmr, pc, arg, cpuState>>
      /\ \A u \in Threads \ {t} : sc'[u] = sc[u]
      /\ \A u \in Threads \ {t} : flags'[u] = flags[u]
      /\ flags'[t] = (flags[t] \cup {"NEED_RESCHED", "EXIT"}) \ {"RUNNING"}
      /\ sc'[t] = "bcast"
      /\ ~irqExec' /\ isr' = isr
  BY DEF CoopInv, TypeOK, ControlInv, RemoteKillIf, rqVars, evVars, tmrVars, deadVars,
     irqVars, callVars
<1>2. ToSet(killq)' = {t} /\ freed' = freed \cup {u \in ToSet(killq) : Has(u, "SYSTEM_STACK")}
  BY DEF RemoteKillIf, Reclaim, ToSet
<1>3. Has(t, "RUNNING") /\ ~Has(t, "EXIT") /\ ~Has(t, "WAITING") /\ pc[t] \in Outside /\ t # Idle
  BY <1>1 DEF CoopInv, ControlInv, FlagsInv, Outside, Stopping, Dying, Waits, RemoteKillIf
<1>4. Quiet(t)
  BY <1>1, <1>3 DEF Quiet, Settled, Outside, Has
<1>5. ControlInv'
  BY <1>1, <1>3 DEF CoopInv, ControlInv
<1>6. FlagsInv'
  <2>1. /\ Has(t, "EXIT")' /\ ~Has(t, "RUNNING")' /\ ~Has(t, "WAITING")' /\ Has(t, "NEED_RESCHED")'
        /\ pc'[t] \notin Dying \cup Waits \cup Stopping /\ pc'[t] \notin {"kill_stop", "wait_stop", "signal_add", "signal_on_rq"}
    BY <1>1, <1>3 DEF Has, Outside, Dying, Waits, Stopping
  <2>2. \A u \in Threads : ~Marked(u)' /\ ~Added(u)'
    BY <1>1, <2>1 DEF Marked, Added
  <2>3. /\ Has(Idle, "RUNNING")' /\ ~Has(Idle, "REMOTE_KILL")'
    BY <1>1, <1>3, ThreadsAssumption DEF CoopInv, FlagsInv, Has
  <2>4. QED
    BY <1>1, <2>1, <2>2, <2>3 DEF CoopInv, FlagsInv, Has
<1>7. CallInv'
  BY <1>1, <1>3 DEF CallInv, Outside
<1>8. DeadInv'
  <2>1. \A u \in Threads : u # Main /\ u \in ToSet(killq) => Has(u, "SYSTEM_STACK")
    BY <1>1, <1>3 DEF CoopInv, DeadInv, FlagsInv, Outside, Has
  <2>2. /\ Has(t, "EXIT") <=> FALSE
        /\ t \notin ToSet(killq) \cup freed
    BY <1>3 DEF CoopInv, DeadInv
  <2>3. current' \notin freed'
    BY <1>1, <1>2, <2>2
  <2>4. \A u \in Threads \ {t} : u \in ToSet(killq)' \cup freed' => Has(u, "EXIT") /\ ~Has(u, "RUNNING")
    BY <1>1, <1>2 DEF CoopInv, DeadInv
  <2>5. \A u \in Threads \ {t} : u # Main /\ Has(u, "EXIT") => u \in freed'
    BY <1>1, <1>2, <2>1 DEF CoopInv, DeadInv
  <2>6. QED
    BY <1>1, <1>2, <1>3, <2>2, <2>3, <2>4, <2>5 DEF CoopInv, DeadInv, Has, Telling, Outside,
       Dying
<1>9. QED
  BY <1>4, <1>5, <1>6, <1>7, <1>8, QuietKeeps DEF CoopInv

\* thread_init marks the stack of a thread that has not run yet, or has.
LEMMA ThreadCreatedKeeps ==
    ASSUME Cooperative, CoopInv, TypeOK', NEW t \in Threads, ThreadCreated(t)
    PROVE  CoopInv'
<1>1. PICK u \in Threads : u = arg[t].tp /\ sc[u] # "uncreated"
  BY DEF CoopInv, TypeOK, Args, CallInv, ThreadCreated, Running
<1>2. /\ t = current /\ sc[t] = "none" /\ pc[t] = "created" /\ pc'[t] = "app" /\ sc' = sc
      /\ UNCHANGED <<current, runq, num, on_rq, wake, queue, sig, ec, timers, tmr, killq, freed, irqExec, cpuState, isr>>
      /\ \A v \in Threads \ {t} : pc'[v] = pc[v] /\ arg'[v] = arg[v]
      /\ flags' = [flags EXCEPT ![u] = @ \cup {"SYSTEM_STACK"}]
  BY <1>1 DEF CoopInv, TypeOK, ThreadCreated, Running, Return, rqVars, evVars, tmrVars,
     deadVars, irqVars
<1>3. /\ \A v \in Threads : \A f \in Flags \ {"SYSTEM_STACK"} : Has(v, f)' <=> Has(v, f)
      /\ \A v \in Threads : /\ Has(v, "SYSTEM_STACK") => Has(v, "SYSTEM_STACK")'
                            /\ sc[v] = "uncreated" => flags'[v] = flags[v]
      /\ Has(u, "SYSTEM_STACK")'
  <2>1. flags \in [Threads -> SUBSET Flags]
    BY DEF CoopInv, TypeOK
  <2>2. /\ flags'[u] = flags[u] \cup {"SYSTEM_STACK"}
        /\ \A v \in Threads \ {u} : flags'[v] = flags[v]
    BY <1>1, <1>2, <2>1
  <2>3. QED
    BY <1>1, <2>2 DEF Has
<1>4. /\ Has(t, "RUNNING") /\ t # Idle
  BY <1>2 DEF CoopInv, FlagsInv, ControlInv, Stopping
<1>5. Quiet(t)
  BY <1>2, <1>3, <1>4 DEF Quiet, Settled, Has, Flags
<1>6. ControlInv'
  BY <1>2, <1>4 DEF CoopInv, ControlInv, Outside
<1>7. FlagsInv'
  BY <1>2, <1>3, <1>4, ThreadsAssumption DEF CoopInv, FlagsInv, Flags, Marked, Added,
     Stopping, Dying, Waits
<1>8. CallInv'
  BY <1>2 DEF CallInv
<1>9. DeadInv'
  <2>1. /\ \A v \in Threads : v # Main /\ sc[v] # "uncreated" => Has(v, "SYSTEM_STACK")'
    <3>1. \A v \in Threads \ {u} : v # Main /\ sc[v] # "uncreated" => Has(v, "SYSTEM_STACK")
      BY <1>1, <1>2 DEF CoopInv, DeadInv
    <3>2. QED
      BY <1>3, <3>1
  <2>2. QED
    BY <1>2, <1>3, <2>1 DEF CoopInv, DeadInv, Telling, Dying, Flags
<1>10. QED
  BY <1>5, <1>6, <1>7, <1>8, <1>9, QuietKeeps DEF CoopInv

----------------------------------------------------------------------------
(* What the operations on the lists do to the sets of their elements *)

\* raw_rq_add_thread: the run queue holds one thread more.
LEMMA RqInsertJoins ==
    ASSUME NEW q \in Seq(Threads), NEW t \in Threads
    PROVE  Joined(q, t, RqInsert(q, t)) /\ Len(RqInsert(q, t)) = Len(q) + 1
<1>. DEFINE after == {i \in 1..Len(q) : prio[q[i]] > prio[t]}
<1>1. \E p \in 1..(Len(q) + 1) : Inserted(q, p, t, RqInsert(q, t))
  <2>1. RqInsert(q, t) = Append(q, t) => Inserted(q, Len(q) + 1, t, RqInsert(q, t)) /\ Len(q) + 1 \in 1..(Len(q) + 1)
    BY AppendInserts
  <2>2. CASE RqInsert(q, t) # Append(q, t)
    <3>1. after # {} /\ RqInsert(q, t) = InsertAt(q, First(after), t)
      BY <2>2 DEF RqInsert, RrSharedQueueInsert, FifoQueueInsert
    <3>2. after \subseteq Nat /\ Len(q) \in Nat
      OBVIOUS
    <3>0. First(after) \in after
      BY <3>1, <3>2, FirstExists
    <3>3. First(after) \in 1..(Len(q) + 1)
      BY <3>0, <3>2
    <3>4. Inserted(q, First(after), t, InsertAt(q, First(after), t))
      BY <3>3, InsertAtProperties
    <3>5. QED
      BY <3>1, <3>3, <3>4
  <2>3. QED
    BY <2>1, <2>2
<1>2. PICK p \in 1..(Len(q) + 1) : Inserted(q, p, t, RqInsert(q, t))
  BY <1>1
<1>3. RqInsert(q, t) \in Seq(Threads)
  BY RqInsertType
<1>4. Joined(q, t, RqInsert(q, t))
  BY <1>2, <1>3, InsertedJoins
<1>5. QED
  BY <1>2, <1>4 DEF Inserted

\* timer_create: the list holds one timer more.
LEMMA TimerInsertJoins ==
    ASSUME NEW l \in Seq(Timer), NEW r \in Timer
    PROVE  Joined(l, r, TimerInsert(l, r))
<1>. DEFINE before == {i \in 1..(Len(l) - 1) : r.left <= l[i].left}
<1>0. Len(l) \in Nat
  BY LenProperties
<1>1. \E p \in 1..(Len(l) + 1) : Inserted(l, p, r, TimerInsert(l, r))
  <2>1. CASE before = {}
    BY <2>1, AppendInserts DEF TimerInsert
  <2>2. CASE before # {}
    <3>2. before \subseteq Nat
      BY <1>0
    <3>3. First(before) \in before
      BY <2>2, <3>2, FirstExists
    <3>4. First(before) \in 1..(Len(l) + 1)
      BY <3>3, <1>0
    <3>5. TimerInsert(l, r) = InsertAt(l, First(before), r)
      BY <2>2 DEF TimerInsert
    <3>. HIDE DEF before
    <3>6. Inserted(l, First(before), r, InsertAt(l, First(before), r))
      BY <3>4, InsertAtProperties
    <3>7. QED
      BY <3>4, <3>5, <3>6
  <2>3. QED
    BY <2>1, <2>2
<1>2. PICK p \in 1..(Len(l) + 1) : Inserted(l, p, r, TimerInsert(l, r))
  BY <1>1
<1>3. TimerInsert(l, r) \in Seq(Timer)
  BY TimerInsertType
<1>4. QED
  BY <1>2, <1>3, InsertedJoins

\* The timers of all threads but one
Others(l, t) == {r \in ToSet(l) : r.tp # t}

\* A list without the timer of a thread holds the timers of the others.
LEMMA DropTimer ==
    ASSUME NEW l, NEW m, Sole(l), NEW r \in ToSet(l), Left(l, r, m)
    PROVE  ToSet(m) = Others(l, r.tp) /\ Sole(m)
BY DEF Sole, Left, Others

\* clocksource_handle takes the first timer off the list.
LEMMA TailDrops ==
    ASSUME NEW l \in Seq(Timer), l # <<>>, Sole(l)
    PROVE  ToSet(Tail(l)) = Others(l, Head(l).tp) /\ Sole(Tail(l)) /\ Head(l) \in ToSet(l)
<1>1. /\ Len(l) \in Nat /\ 1 \in 1..Len(l) /\ Head(l) = l[1]
      /\ Tail(l) \in Seq(Timer) /\ Len(Tail(l)) = Len(l) - 1
      /\ \A k \in 1..(Len(l) - 1) : Tail(l)[k] = l[k + 1]
  BY HeadTailProperties, EmptySeq
<1>2. Removed(l, 1, Tail(l))
  <2>1. \A k \in 1..(Len(l) - 1) : Up(1, k) = k + 1 /\ k + 1 \in 1..Len(l)
    BY <1>1 DEF Up
  <2>2. ASSUME NEW k \in 1..Len(l), k # 1 PROVE \E j \in 1..(Len(l) - 1) : k = Up(1, j)
    <3>1. k - 1 \in 1..(Len(l) - 1) /\ k = (k - 1) + 1
      BY <1>1, <2>2
    <3>2. QED
      BY <2>1, <3>1
  <2>3. QED
    BY <1>1, <2>1, <2>2, SMTT(40) DEF Removed
<1>3. Head(l) \in ToSet(l)
  BY <1>1, ElementPlace
<1>4. Once(l)
  BY DEF Sole
<1>5. Left(l, l[1], Tail(l))
  BY <1>1, <1>2, <1>4, RemovedLeaves
<1>6. QED
  BY <1>1, <1>3, <1>5, DropTimer

\* timer_stop(tp->timer) stops the timer of tp.
LEMMA StopDrops ==
    ASSUME TypeOK, Sole(timers), NEW t \in Threads, tmr[t] = "SET" <=> Armed(t)
    PROVE  ToSet(TimerStop(t)) = Others(timers, t) /\ Sole(TimerStop(t))
<1>. DEFINE own == {i \in 1..Len(timers) : timers[i].tp = t}
<1>1. timers \in Seq(Timer)
  BY DEF TypeOK
<1>2. CASE Armed(t)
  <2>1. PICK r \in ToSet(timers) : r.tp = t
    BY <1>2 DEF Armed
  <2>2. PICK i \in 1..Len(timers) : timers[i] = r
    BY <1>1, ElementPlace
  <2>3. own # {} /\ own \subseteq Nat
    BY <2>1, <2>2
  <2>4. First(own) \in own
    BY <2>3, FirstExists
  <2>5. TimerStop(t) = RemoveAt(timers, First(own))
    BY <1>2, <2>3 DEF TimerStop
  <2>6. PICK p \in 1..Len(timers) : p = First(own) /\ timers[p].tp = t
    BY <2>4
  <2>7. RemoveAt(timers, p) \in Seq(Timer) /\ Removed(timers, p, RemoveAt(timers, p))
    BY <1>1, RemoveAtProperties
  <2>8. Left(timers, timers[p], RemoveAt(timers, p))
    BY <1>1, <2>7, RemovedLeaves DEF Sole
  <2>9. timers[p] \in ToSet(timers)
    BY <1>1, ElementPlace
  <2>10. QED
    BY <2>5, <2>6, <2>8, <2>9, DropTimer
<1>3. CASE ~Armed(t)
  <2>1. TimerStop(t) = timers
    BY <1>3 DEF TimerStop
  <2>2. QED
    BY <1>3, <2>1 DEF Armed, Others
<1>4. QED
  BY <1>2, <1>3

----------------------------------------------------------------------------
(* A waiter leaves its queue *)

\* The events of a queue that keeps waiters are still there; e counts them.
Kept(e) == \A p \in QueueIds : queue'[p] # <<>> /\ queue[p] # <<>> => ec'[queue'[p][1]] >= e[queue[p][1]]

\* What is left of the queues
Leaves(w, e) ==
    /\ EventInv' /\ Kept(e)
    /\ ToSet(wake)' = ToSet(wake) \ {w}
    /\ \A p \in QueueIds : queue[p] = <<>> => queue'[p] = <<>>

\* queue_remove_thread and the wake list: one waiter leaves, and its events
\* go to its successor.
LEMMA DequeueLeaves ==
    ASSUME TypeOK, EventInv, NEW q \in QueueIds, NEW i \in 1..Len(queue[q]),
           NEW e \in [Threads -> Nat], \A u \in Threads : e[u] <= ec[u], Dequeue(q, i, e),
           \A u \in ToSet(wake) : arg'[u] = arg[u]
    PROVE  /\ Leaves(queue[q][i], e) /\ queue[q][i] \in ToSet(wake)
           /\ Len(queue[q]) = 1 => queue'[q] = <<>>
<1>1. PICK s \in Seq(Threads) : s = queue[q]
  BY DEF TypeOK
<1>2. PICK w \in Threads : w = s[i] /\ w = queue[q][i] /\ w \in ToSet(s)
  BY <1>1, ElementOfSeq, ElementPlace
<1>3. PICK m \in Seq(Threads) : m = queue'[q] /\ Removed(s, i, m)
  <2>1. queue'[q] = RemoveAt(s, i)
    BY <1>1 DEF Dequeue, TypeOK
  <2>2. RemoveAt(s, i) \in Seq(Threads) /\ Removed(s, i, RemoveAt(s, i))
    BY <1>1, RemoveAtProperties
  <2>3. QED
    BY <2>1, <2>2
<1>4. Once(s) /\ Once(wake) /\ wake \in Seq(Threads)
  BY <1>1 DEF EventInv, TypeOK
<1>5. Left(s, w, m)
  BY <1>1, <1>2, <1>3, <1>4, RemovedLeaves
<1>6. /\ ToSet(wake') = ToSet(wake) \ {w} /\ Once(wake')
  <2>1. Left(wake, w, RemoveFirst(wake, w))
    BY <1>4, RemoveFirstProperties
  <2>2. QED
    BY <1>2, <2>1 DEF Dequeue, Left
<1>7. \A p \in QueueIds \ {q} : queue'[p] = queue[p]
  BY DEF Dequeue, TypeOK
<1>8. w \in ToSet(wake) /\ arg[w].q = q
  BY <1>1, <1>2 DEF EventInv
<1>9. Len(s) \in Nat /\ (Len(s) = 1 => m = <<>>) /\ Len(m) = Len(s) - 1
  <2>1. Len(s) \in Nat /\ Len(m) = Len(s) - 1
    BY <1>3, LenProperties DEF Removed
  <2>2. Len(s) = 1 => Len(m) = 0
    BY <2>1
  <2>3. QED
    BY <2>1, <2>2, <1>3, EmptySeq
<1>10. \A p \in QueueIds : queue[p] = <<>> => queue'[p] = <<>>
  <2>1. queue[q] # <<>>
    BY <1>1, <1>9, EmptySeq
  <2>2. QED
    BY <1>7, <2>1
<1>11. \A p \in QueueIds :
          /\ Once(queue'[p])
          /\ \A t \in Threads : t \in ToSet(queue'[p]) <=> t \in ToSet(wake') /\ arg'[t].q = p
          /\ p \in sig' => queue'[p] = <<>>
  <2>1. ASSUME NEW p \in QueueIds \ {q}
        PROVE  /\ Once(queue'[p])
               /\ \A t \in Threads : t \in ToSet(queue'[p]) <=> t \in ToSet(wake') /\ arg'[t].q = p
               /\ p \in sig' => queue'[p] = <<>>
    <3>1. p \in sig' => p \in sig
      BY DEF Dequeue
    <3>2. QED
      BY <1>6, <1>7, <1>8, <3>1, SMTT(40) DEF EventInv
  <2>2. /\ Once(queue'[q])
        /\ \A t \in Threads : t \in ToSet(queue'[q]) <=> t \in ToSet(wake') /\ arg'[t].q = q
    <3>1. \A t \in Threads : t \in ToSet(s) <=> t \in ToSet(wake) /\ arg[t].q = q
      BY <1>1 DEF EventInv
    <3>2. QED
      BY <1>3, <1>5, <1>6, <3>1 DEF Left
  <2>3. q \in sig' => queue'[q] = <<>>
    <3>1. q \notin sig
      <4>1. queue[q] # <<>>
        BY <1>1, <1>9, EmptySeq
      <4>2. QED
        BY <4>1 DEF EventInv
    <3>2. QED
      BY <1>1, <1>3, <1>9, <3>1 DEF Dequeue
  <2>4. QED
    BY <2>1, <2>2, <2>3
<1>12. PICK c : c = ec' /\ c = HandOver(e, s, i)
  BY <1>1 DEF Dequeue
<1>13. e[w] > 0 => i = 1
  <2>1. ASSUME e[w] > 0 PROVE i = 1
    <3>1. ec[w] > 0
      BY <2>1, SMTT(40) DEF TypeOK
    <3>2. s[1] = w
      BY <1>1, <1>8, <3>1 DEF EventInv
    <3>3. 1 \in 1..Len(s)
      BY <1>1, <1>9
    <3>4. QED
      BY <1>1, <1>2, <1>4, <3>2, <3>3 DEF Once
  <2>2. QED
    BY <2>1
<1>14. /\ e[w] = 0 => c = e
       /\ e[w] > 0 => /\ c[w] = 0 /\ (1 < Len(s) => c[s[2]] = e[w] /\ s[2] # w)
                      /\ \A t \in Threads : t # w /\ (1 < Len(s) => t # s[2]) => c[t] = e[t]
  <2>1. e[w] = 0 => c = e
    BY <1>2, <1>12 DEF HandOver
  <2>2. ASSUME e[w] > 0
        PROVE  /\ c[w] = 0 /\ (1 < Len(s) => c[s[2]] = e[w] /\ s[2] # w)
               /\ \A t \in Threads : t # w /\ (1 < Len(s) => t # s[2]) => c[t] = e[t]
    <3>1. i = 1 /\ e[s[1]] # 0 /\ s[1] = w
      <4>1. e[w] # 0 /\ i = 1
        BY <1>2, <1>13, <2>2
      <4>2. QED
        BY <1>2, <4>1
    <3>2. c = [t \in Threads |-> IF t = s[1] THEN 0 ELSE IF 1 < Len(s) /\ t = s[2] THEN e[s[1]] ELSE e[t]]
      BY <1>12, <3>1 DEF HandOver
    <3>3. 1 < Len(s) => s[2] \in Threads /\ s[2] # s[1]
      <4>1. ASSUME 1 < Len(s) PROVE 1 \in 1..Len(s) /\ 2 \in 1..Len(s)
        BY <1>9, <4>1
      <4>2. QED
        BY <1>4, <4>1, ElementOfSeq DEF Once
    <3>4. QED
      BY <3>1, <3>2, <3>3
  <2>3. QED
    BY <2>1, <2>2
<1>15. /\ i # 1 /\ 1 \in 1..Len(m) => m[1] = s[1]
       /\ i = 1 /\ 1 \in 1..Len(m) => m[1] = s[2] /\ 1 < Len(s)
       /\ i # 1 => 1 \in 1..Len(m)
  <2>1. i \in Int /\ i \in 1..Len(s) /\ Len(m) \in Int /\ \A k \in 1..Len(m) : m[k] = s[Up(i, k)]
    BY <1>1, <1>3, <1>9 DEF Removed
  <2>2. (i # 1 => Up(i, 1) = 1) /\ (i = 1 => Up(i, 1) = 2)
    BY <2>1 DEF Up
  <2>3. (i # 1 => 1 \in 1..Len(m)) /\ (1 \in 1..Len(m) => 1 < Len(s))
    BY <1>9, <2>1
  <2>4. QED
    BY <2>1, <2>2, <2>3
<1>16. ASSUME NEW t \in Threads, c[t] > 0 PROVE t \in ToSet(wake') /\ queue'[arg'[t].q][1] = t
  <2>1. ASSUME NEW u \in Threads, e[u] > 0
        PROVE  u \in ToSet(wake) /\ arg[u].q \in QueueIds /\ queue[arg[u].q][1] = u /\ arg'[u] = arg[u]
    <3>1. ec[u] > 0 /\ arg[u].q \in QueueIds
      <4>1. e[u] <= ec[u] /\ e[u] \in Nat /\ ec[u] \in Nat
        BY DEF TypeOK
      <4>2. arg[u].q \in QueueIds
        BY DEF TypeOK, Args
      <4>3. QED
        BY <2>1, <4>1, <4>2
    <3>2. QED
      BY <3>1 DEF EventInv
  <2>2. CASE e[w] = 0
    <3>1. e[t] > 0 /\ t # w
      BY <1>14, <1>16, <2>2
    <3>2. CASE arg[t].q # q
      BY <1>6, <1>7, <2>1, <3>1, <3>2
    <3>3. CASE arg[t].q = q
      <4>1. s[1] = t /\ i # 1
        BY <1>1, <1>2, <2>1, <3>1, <3>3
      <4>2. m[1] = t
        BY <1>15, <4>1
      <4>3. QED
        BY <1>3, <1>6, <2>1, <3>1, <3>3, <4>2
    <3>4. QED
      BY <3>2, <3>3
  <2>3. CASE e[w] > 0
    <3>0. i = 1 /\ s[1] = w /\ t # w
      <4>1. i = 1 /\ c[w] = 0
        BY <1>13, <1>14, <2>3
      <4>2. s[1] = w
        BY <1>2, <4>1
      <4>3. t # w
        <5>1. c[w] = 0 /\ c[t] > 0
          BY <1>16, <4>1
        <5>2. QED
          BY <5>1
      <4>4. QED
        BY <4>1, <4>2, <4>3
    <3>1. CASE 1 < Len(s) /\ t = s[2]
      <4>1. m[1] = t
        BY <1>9, <1>15, <3>0, <3>1
      <4>2. t \in ToSet(s) /\ 2 \in 1..Len(s)
        <5>1. 2 \in 1..Len(s)
          BY <1>9, <3>1
        <5>2. QED
          BY <3>1, <5>1, ElementPlace
      <4>3. t \in ToSet(wake) /\ arg[t].q = q
        BY <1>1, <4>2 DEF EventInv
      <4>4. QED
        BY <1>3, <1>6, <3>0, <4>1, <4>3
    <3>2. CASE ~(1 < Len(s) /\ t = s[2])
      <4>1. e[t] > 0
        BY <1>14, <1>16, <2>3, <3>0, <3>2
      <4>2. arg[t].q # q
        BY <1>1, <2>1, <3>0, <4>1
      <4>3. QED
        BY <1>6, <1>7, <2>1, <3>0, <4>1, <4>2
    <3>3. QED
      BY <3>1, <3>2
  <2>4. QED
    BY <2>2, <2>3
<1>17. EventInv'
  BY <1>6, <1>11, <1>12, <1>16 DEF EventInv
<1>18. ASSUME NEW p \in QueueIds, queue'[p] # <<>>, queue[p] # <<>> PROVE c[queue'[p][1]] >= e[queue[p][1]]
  <2>1. CASE p # q
    <3>1. queue'[p] = queue[p] /\ queue[p] \in Seq(Threads) /\ 1 \in 1..Len(queue[p])
      BY <1>7, <1>18, <2>1, EmptySeq DEF TypeOK
    <3>2. PICK h \in Threads : h = queue[p][1] /\ h \in ToSet(queue[p])
      BY <3>1, ElementOfSeq, ElementPlace
    <3>3. arg[h].q = p
      BY <3>2 DEF EventInv
    <3>4. h \notin ToSet(s)
      BY <1>1, <2>1, <3>3 DEF EventInv
    <3>5. h # w /\ (1 < Len(s) => h # s[2])
      BY <1>2, <1>9, <3>4, ElementPlace
    <3>6. e[w] = 0 \/ e[w] > 0
      OBVIOUS
    <3>7. c[h] = e[h]
      BY <1>14, <3>5, <3>6
    <3>8. QED
      BY <3>1, <3>2, <3>7
  <2>2. CASE p = q
    <3>1. m # <<>> /\ 1 \in 1..Len(m)
      BY <1>3, <1>18, <2>2, EmptySeq
    <3>2. CASE i # 1
      <4>1. e[w] = 0
        BY <1>13, <3>2
      <4>2. m[1] = s[1] /\ s[1] \in Threads
        BY <1>1, <1>9, <1>15, <3>1, <3>2, ElementOfSeq
      <4>3. QED
        BY <1>1, <1>3, <1>14, <2>2, <4>1, <4>2
    <3>3. CASE i = 1
      <4>1. m[1] = s[2] /\ 1 < Len(s) /\ s[1] = w /\ s[2] \in Threads
        BY <1>2, <1>9, <1>15, <3>1, <3>3, ElementOfSeq
      <4>2. e[w] = 0 => c[s[2]] >= e[w]
        BY <1>14, <4>1
      <4>3. e[w] > 0 => c[s[2]] >= e[w]
        BY <1>14, <4>1
      <4>4. QED
        BY <1>1, <1>3, <2>2, <4>1, <4>2, <4>3
    <3>4. QED
      BY <3>2, <3>3
  <2>3. QED
    BY <2>1, <2>2
<1>19. Kept(e)
  BY <1>12, <1>18 DEF Kept
<1>20. QED
  BY <1>1, <1>2, <1>3, <1>6, <1>8, <1>9, <1>10, <1>17, <1>19 DEF Leaves

----------------------------------------------------------------------------
(* A thread is made ready *)

\* Its flags and its place: w was blocked and is on the run queue, or still
\* the running thread.
Readied(w) ==
    /\ Has(w, "RUNNING")'
    /\ \A u \in Threads \ {w} : /\ Has(u, "RUNNING")' <=> Has(u, "RUNNING")
                                /\ Has(u, "SLEEPING")' <=> Has(u, "SLEEPING")
    /\ \A u \in Threads : /\ Has(u, "EXIT")' <=> Has(u, "EXIT")
                          /\ Has(u, "WAITING")' <=> Has(u, "WAITING")
                          /\ Has(u, "SYSTEM_STACK")' <=> Has(u, "SYSTEM_STACK")
                          /\ Has(u, "REMOTE_KILL")' <=> Has(u, "REMOTE_KILL")
                          /\ Has(u, "NEED_RESCHED") => Has(u, "NEED_RESCHED")'
                          /\ sc[u] = "uncreated" => flags'[u] = flags[u]
    /\ IF w # current THEN RawRqAddThread(w)
       ELSE on_rq' = [on_rq EXCEPT ![w] = TRUE] /\ UNCHANGED <<runq, num>>

\* Nothing else will wake w.
Rouse(w) ==
    /\ w \in ToSet(wake) \/ Armed(w)
    /\ UNCHANGED <<current, killq, freed, cpuState, isr>> /\ ~irqExec'
    /\ Readied(w)
    /\ ToSet(wake)' = ToSet(wake) \ {w}
    /\ ToSet(timers)' = Others(timers, w) /\ Sole(timers)'
    /\ \A u \in Threads \ {w} : tmr'[u] = tmr[u]
    /\ \A p \in QueueIds : queue[p] = <<>> => queue'[p] = <<>>
    /\ EventInv'

\* Where the code that does it goes on
Moves(t) ==
    /\ t = current
    /\ \A u \in Threads \ {t} : sc'[u] = sc[u] /\ pc'[u] = pc[u] /\ arg'[u] = arg[u]
    /\ \/ /\ pc'[t] = pc[t] /\ arg'[t] = arg[t]
          /\ \/ sc[t] \in {"enter", "clock"} /\ sc'[t] = "clock"
             \/ sc[t] \in {"signal", "bcast"} /\ sc'[t] = sc[t]
             \/ sc[t] = "bcast" /\ sc'[t] = "enter" /\ queue'[t] = <<>>
       \/ /\ sc[t] = "none"
          /\ \/ Turn(t, "notify", "app", "none")
             \/ Turn(t, "broadcast", "broadcast", "none")
             \/ Turn(t, "broadcast", "broadcast_yield", "none")
             \/ Turn(t, "kill_broadcast", "kill_broadcast", "none")
             \/ Turn(t, "kill_broadcast", "kill_queue", "none") /\ queue'[t] = <<>>

\* Waking a waiter keeps the invariant, wherever the code that does it goes on.
LEMMA RouseKeeps ==
    ASSUME CoopInv, TypeOK', NEW t \in Threads, NEW w \in Threads, Moves(t), Rouse(w)
    PROVE  CoopInv'
<1>1. /\ ~Has(w, "RUNNING") /\ ~Has(w, "EXIT") /\ ~Has(w, "WAITING") /\ sc[w] # "uncreated"
  BY DEF CoopInv, PlaceInv, Rouse
<1>2. /\ t = current /\ current' = t
      /\ \A u \in Threads \ {t} : sc'[u] = sc[u] /\ pc'[u] = pc[u] /\ arg'[u] = arg[u]
      /\ {pc[t], pc'[t]} \cap {"signal_add", "signal_on_rq"} = {}
      /\ sc[t] # "none" => pc[t] \in Outside /\ pc'[t] = pc[t] /\ arg'[t] = arg[t]
      /\ sc[t] = "none" => Has(t, "RUNNING") \/ Has(t, "EXIT")
      /\ sc[t] \notin {"uncreated", "fresh", "tail"} /\ sc'[t] \notin {"uncreated", "fresh", "tail"}
  <2>1. t = current /\ current' = t /\ sc[t] \notin {"uncreated", "fresh", "tail"} /\ sc'[t] \notin {"uncreated", "fresh", "tail"}
        /\ (sc[t] # "none" => pc'[t] = pc[t] /\ arg'[t] = arg[t])
    BY DEF Moves, Rouse, Turn
  <2>2. sc[t] # "none" => pc[t] \in Outside
    BY <2>1 DEF CoopInv, ControlInv
  <2>3. sc[t] = "none" => Has(t, "RUNNING") \/ Has(t, "EXIT")
    BY <2>1 DEF CoopInv, FlagsInv
  <2>4. {pc[t], pc'[t]} \cap {"signal_add", "signal_on_rq"} = {}
    BY <2>1, <2>2 DEF Moves, Turn, Outside
  <2>5. QED
    BY <2>1, <2>2, <2>3, <2>4 DEF Moves
<1>3. /\ \A u \in Threads : Has(u, "RUNNING")' <=> u = w \/ Has(u, "RUNNING")
      /\ \A u \in Threads : Has(u, "SLEEPING")' /\ u # w <=> Has(u, "SLEEPING") /\ u # w
      /\ \A u \in Threads : /\ Has(u, "EXIT")' <=> Has(u, "EXIT")
                            /\ Has(u, "WAITING")' <=> Has(u, "WAITING")
                            /\ Has(u, "SYSTEM_STACK")' <=> Has(u, "SYSTEM_STACK")
                            /\ Has(u, "REMOTE_KILL")' <=> Has(u, "REMOTE_KILL")
                            /\ Has(u, "NEED_RESCHED") => Has(u, "NEED_RESCHED")'
                            /\ sc[u] = "uncreated" => flags'[u] = flags[u]
  BY DEF Rouse, Readied
<1>4. t \in ToSet(wake) \/ Armed(t) => sc[t] # "none"
  BY <1>2 DEF CoopInv, PlaceInv
<1>5. \A r \in ToSet(timers) : r.tp \in Threads
  BY TimerOwners DEF CoopInv
<1>6. \A u \in Threads : Armed(u)' <=> Armed(u) /\ u # w
  BY DEF Rouse, Others, Armed
<1>7. \A u \in Threads : ~Marked(u) /\ ~Added(u) /\ ~Marked(u)' /\ ~Added(u)'
  BY <1>2 DEF Marked, Added
<1>8. ControlInv'
  <2>1. ~irqExec' /\ cpuState' = cpuState /\ isr' = isr
    BY DEF Rouse
  <2>2. /\ sc'[t] \in {"none", "enter", "clock", "signal", "tail", "bcast"}
        /\ pc'[t] \notin Outside => sc'[t] = "none"
        /\ pc'[t] = "idle" <=> pc[t] = "idle"
    BY <1>2 DEF Moves, Turn
  <2>3. QED
    BY <1>2, <2>1, <2>2 DEF CoopInv, ControlInv
<1>9. FlagsInv'
  <2>1. /\ sc'[t] \in {"none", "tail"} /\ pc'[t] \notin Stopping => Has(t, "RUNNING")'
        /\ sc'[t] = "bcast" \/ pc'[t] \in Stopping => Has(t, "EXIT")' /\ ~Has(t, "RUNNING")'
        /\ ~Has(t, "RUNNING")' \/ pc'[t] \in {"kill_stop", "wait_stop"} => Has(t, "NEED_RESCHED")'
        /\ pc'[t] \in Dying \cup {"dead"} => Has(t, "EXIT")'
        /\ pc'[t] \in Dying \/ pc[t] \notin Dying
        /\ pc'[t] \in Waits <=> pc[t] \in Waits
    BY <1>1, <1>2, <1>3 DEF CoopInv, FlagsInv, Moves, Turn, Stopping, Dying, Waits, Outside
  <2>2. \A u \in Threads :
          /\ Has(u, "EXIT")' => ~Has(u, "RUNNING")' \/ pc'[u] \in Dying
          /\ pc'[u] \in Dying \cup {"dead"} => Has(u, "EXIT")'
          /\ Has(u, "WAITING")' => ~Has(u, "RUNNING")' \/ pc'[u] \in Waits
          /\ Has(u, "WAITING")' => ~Has(u, "EXIT")'
          /\ pc'[u] \in Waits => Has(u, "WAITING")'
          /\ sc'[u] = "uncreated" => flags'[u] = {}
          /\ sc'[u] = "fresh" => Has(u, "RUNNING")'
    BY <1>1, <1>2, <1>3, <2>1 DEF CoopInv, FlagsInv
  <2>3. Has(Idle, "RUNNING")' /\ ~Has(Idle, "REMOTE_KILL")'
    BY <1>3, ThreadsAssumption DEF CoopInv, FlagsInv
  <2>4. QED
    BY <1>2, <1>7, <2>1, <2>2, <2>3 DEF FlagsInv
<1>10. RunInv'
  <2>1. w \notin ToSet(runq) /\ num = Len(runq) /\ Once(runq)
    BY <1>1 DEF CoopInv, RunInv
  <2>2. CASE w # current
    <3>1. runq' = RqInsert(runq, w) /\ num' = num + 1 /\ on_rq' = [on_rq EXCEPT ![w] = TRUE]
      BY <2>2 DEF Rouse, Readied, RawRqAddThread
    <3>2. runq \in Seq(Threads) /\ on_rq \in [Threads -> BOOLEAN]
      BY DEF CoopInv, TypeOK
    <3>3. Joined(runq, w, runq') /\ Len(runq') = Len(runq) + 1
      BY <3>1, <3>2, RqInsertJoins
    <3>4. ToSet(runq)' = ToSet(runq) \cup {w} /\ Once(runq)' /\ num' = Len(runq)'
      BY <2>1, <3>1, <3>3 DEF Joined
    <3>5. \A u \in Threads : on_rq'[u] <=> u = w \/ on_rq[u]
      BY <3>1, <3>2
    <3>6. QED
      BY <1>2, <1>3, <1>7, <2>2, <3>4, <3>5 DEF CoopInv, RunInv
  <2>3. CASE w = current
    <3>1. on_rq' = [on_rq EXCEPT ![w] = TRUE] /\ runq' = runq /\ num' = num
      BY <2>3 DEF Rouse, Readied
    <3>2. \A u \in Threads : on_rq'[u] <=> u = w \/ on_rq[u]
      BY <3>1 DEF CoopInv, TypeOK
    <3>3. QED
      BY <1>2, <1>3, <1>7, <2>1, <2>3, <3>1, <3>2 DEF CoopInv, RunInv
  <2>4. QED
    BY <2>2, <2>3
<1>11. PlaceInv'
  <2>1. ToSet(wake)' = ToSet(wake) \ {w}
    BY DEF Rouse
  <2>2. \A u \in Threads : u \in ToSet(wake)' => pc'[u] = pc[u]
    BY <1>2, <1>4, <2>1
  <2>3. \A u \in Threads : sc'[u] = "uncreated" <=> sc[u] = "uncreated"
    BY <1>2
  <2>4. QED
    BY <1>3, <1>6, <2>1, <2>2, <2>3 DEF CoopInv, PlaceInv
<1>12. TimerInv'
  <2>1. /\ ToSet(wake)' = ToSet(wake) \ {w}
        /\ ToSet(timers)' = Others(timers, w) /\ Sole(timers)'
        /\ \A u \in Threads \ {w} : tmr'[u] = tmr[u]
    BY DEF Rouse
  <2>2. \A u \in Threads : u \in ToSet(wake) => arg'[u] = arg[u]
    BY <1>2, <1>4
  <2>3. ASSUME NEW r \in ToSet(timers)'
        PROVE  /\ r.fn = "event" <=> r.tp \in ToSet(wake)'
               /\ r.fn = "event" => r.q = arg'[r.tp].q
               /\ r.tp = current' => r.left > 0
    <3>1. r \in ToSet(timers) /\ r.tp # w /\ r.tp \in Threads
      BY <1>5, <2>1, <2>3 DEF Others
    <3>2. QED
      BY <1>2, <2>1, <2>2, <3>1 DEF CoopInv, TimerInv
  <2>4. ASSUME NEW u \in ToSet(wake)' PROVE (tmr'[u] = "SET" <=> Armed(u)') /\ tmr'[u] # "SIGNALED"
    <3>1. u \in ToSet(wake) /\ u # w /\ u \in Threads
      BY <2>1, <2>4, TimerOwners DEF CoopInv
    <3>2. QED
      BY <1>6, <2>1, <3>1 DEF CoopInv, TimerInv
  <2>5. QED
    BY <2>1, <2>3, <2>4 DEF TimerInv
<1>13. CallInv'
  BY <1>2 DEF CallInv, Moves, Turn, Outside
<1>14. DeadInv'
  <2>1. /\ killq' = killq /\ freed' = freed
        /\ \A p \in QueueIds : queue[p] = <<>> => queue'[p] = <<>>
    BY DEF Rouse
  <2>2. Has(t, "EXIT") /\ ~Telling(t)' => queue'[t] = <<>>
    <3>1. Telling(t) /\ ~Telling(t)' => queue'[t] = <<>>
      BY <1>2 DEF Moves, Turn, Telling, Dying, Outside
    <3>2. QED
      BY <2>1, <3>1 DEF CoopInv, DeadInv, QueueIds
  <2>3. \A u \in Threads : Has(u, "EXIT") /\ ~Telling(u)' => queue'[u] = <<>>
    BY <1>2, <2>1, <2>2 DEF CoopInv, DeadInv, Telling, QueueIds
  <2>4. w \notin ToSet(killq) \cup freed
    BY <1>1 DEF CoopInv, DeadInv
  <2>5. /\ pc[t] # "created" /\ pc'[t] # "created"
        /\ \A u \in Threads : sc'[u] = "uncreated" <=> sc[u] = "uncreated"
        /\ sc'[t] = "none" <=> sc[t] = "none"
    BY <1>2 DEF Moves, Turn, Outside
  <2>6. QED
    BY <1>2, <1>3, <2>1, <2>3, <2>4, <2>5 DEF CoopInv, DeadInv
<1>15. QED
  BY <1>8, <1>9, <1>10, <1>11, <1>12, <1>13, <1>14 DEF CoopInv, Rouse

\* __raw_event_notify and rq_signal_event_queue make the head of a queue ready.
LEMMA WakeHeadRouses ==
    ASSUME CoopInv, NEW q \in QueueIds, queue[q] # <<>>, NEW e \in [Threads -> Nat],
           \A u \in Threads : e[u] <= ec[u], NEW timer \in {"NULL", "SET"},
           WakeHead(q, e, "raw", timer) \/ WakeHead(q, e, "rq", timer),
           UNCHANGED <<current, killq, freed, cpuState, isr>>, ~irqExec',
           \A u \in ToSet(wake) : arg'[u] = arg[u]
    PROVE  /\ \E w \in Threads : Rouse(w) /\ w \in ToSet(wake) /\ w = queue[q][1]
           /\ Kept(e)
           /\ Len(queue[q]) = 1 => queue'[q] = <<>>
<1>1. PICK w \in Threads : w = Head(queue[q]) /\ w = queue[q][1] /\ 1 \in 1..Len(queue[q])
  <2>1. queue[q] \in Seq(Threads)
    BY DEF CoopInv, TypeOK
  <2>2. QED
    BY <2>1, HeadTailProperties, EmptySeq
<1>2. /\ Dequeue(q, 1, e)
      /\ timers' = TimerStop(w)
      /\ tmr' = [tmr EXCEPT ![w] = IF @ = "SET" THEN timer ELSE @]
      /\ IF w # current
         THEN /\ RawRqAddThread(w) \/ RqAddThread(w)
              /\ flags' = [flags EXCEPT
                    ![w] = @ \cup {"RUNNING"},
                    ![current] = @ \cup IF prio[w] <= prio[current]
                                        THEN {"NEED_RESCHED"} ELSE {}]
         ELSE /\ flags' = [flags EXCEPT ![w] = @ \cup {"RUNNING"}]
              /\ on_rq' = [on_rq EXCEPT ![w] = TRUE]
              /\ UNCHANGED <<runq, num>>
  BY <1>1 DEF WakeHead
<1>3. /\ Leaves(w, e) /\ w \in ToSet(wake)
      /\ Len(queue[q]) = 1 => queue'[q] = <<>>
  BY <1>1, <1>2, DequeueLeaves DEF CoopInv
<1>4. ~Has(w, "RUNNING") /\ sc[w] # "uncreated" /\ sc[current] # "uncreated"
  BY <1>3 DEF CoopInv, PlaceInv, ControlInv
<1>5. ToSet(timers)' = Others(timers, w) /\ Sole(timers)'
  <2>1. Sole(timers) /\ (tmr[w] = "SET" <=> Armed(w)) /\ TypeOK
    BY <1>3 DEF CoopInv, TimerInv
  <2>2. ToSet(TimerStop(w)) = Others(timers, w) /\ Sole(TimerStop(w))
    BY <2>1, StopDrops
  <2>3. QED
    BY <1>2, <2>2 DEF Sole
<1>6. Readied(w)
  <2>1. w # current => RawRqAddThread(w)
    <3>1. RqAddThread(w) => RawRqAddThread(w)
      <4>1. Len(runq) \in Nat /\ num \in Int
        BY LenProperties DEF CoopInv, TypeOK
      <4>2. QED
        BY <1>4, <4>1 DEF RqAddThread, RawRqAddThread
    <3>2. QED
      BY <1>2, <3>1
  <2>2. flags \in [Threads -> SUBSET Flags] /\ current \in Threads
    BY DEF CoopInv, TypeOK
  <2>3. /\ flags'[w] = flags[w] \cup {"RUNNING"}
        /\ \A u \in Threads \ {w, current} : flags'[u] = flags[u]
        /\ current # w => \E f \in {{}, {"NEED_RESCHED"}} : flags'[current] = flags[current] \cup f
    BY <1>2, <2>2
  <2>4. /\ Has(w, "RUNNING")'
        /\ \A u \in Threads \ {w} : /\ Has(u, "RUNNING")' <=> Has(u, "RUNNING")
                                    /\ Has(u, "SLEEPING")' <=> Has(u, "SLEEPING")
        /\ \A u \in Threads : /\ Has(u, "EXIT")' <=> Has(u, "EXIT")
                              /\ Has(u, "WAITING")' <=> Has(u, "WAITING")
                              /\ Has(u, "SYSTEM_STACK")' <=> Has(u, "SYSTEM_STACK")
                              /\ Has(u, "REMOTE_KILL")' <=> Has(u, "REMOTE_KILL")
                              /\ Has(u, "NEED_RESCHED") => Has(u, "NEED_RESCHED")'
                              /\ sc[u] = "uncreated" => flags'[u] = flags[u]
    BY <1>4, <2>2, <2>3 DEF Has
  <2>5. QED
    BY <1>2, <2>1, <2>4 DEF Readied
<1>7. \A u \in Threads \ {w} : tmr'[u] = tmr[u]
  BY <1>2 DEF CoopInv, TypeOK
<1>8. Rouse(w) /\ Kept(e)
  BY <1>3, <1>5, <1>6, <1>7 DEF Rouse, Leaves
<1>9. QED
  BY <1>1, <1>3, <1>8

\* sched_sleep_timeout wakes a sleeper that is nowhere else.
LEMMA SleepTimeoutKeeps ==
    ASSUME Cooperative, CoopInv, TypeOK', NEW t \in Threads, SleepTimeout(t)
    PROVE  CoopInv'
<1>1. timers \in Seq(Timer) /\ timers # <<>> /\ Sole(timers)
  BY DEF CoopInv, TypeOK, TimerInv, SleepTimeout, Expired
<1>2. PICK r \in Timer : r = Head(timers) /\ r \in ToSet(timers)
  BY <1>1, TailDrops, TimerOwners DEF CoopInv
<1>3. r.fn = "sleep" /\ r.left <= 0 /\ r.tp \in Threads /\ r.left \in Int
  BY <1>2 DEF SleepTimeout, Expired, Timer
<1>4. PICK w \in Threads : w = r.tp
  BY <1>3
<1>5. Armed(w) /\ w \notin ToSet(wake) /\ w # current
  BY <1>2, <1>3, <1>4 DEF CoopInv, TimerInv, Armed
<1>6. ToSet(timers)' = Others(timers, w) /\ Sole(timers)'
  <2>1. timers' = Tail(timers)
    BY DEF SleepTimeout
  <2>2. ToSet(Tail(timers)) = Others(timers, w) /\ Sole(Tail(timers))
    BY <1>1, <1>2, <1>4, TailDrops
  <2>3. QED
    BY <2>1, <2>2 DEF Sole
<1>7. Moves(t)
  BY DEF Moves, SleepTimeout, CoopInv, TypeOK, callVars
<1>8. Readied(w)
  <2>1. /\ RawRqAddThread(w) /\ flags' = [flags EXCEPT ![w] = (@ \ {"SLEEPING"}) \cup {"RUNNING"}]
        /\ flags \in [Threads -> SUBSET Flags] /\ sc[w] # "uncreated"
    BY <1>2, <1>4, <1>5 DEF CoopInv, TypeOK, PlaceInv, SleepTimeout
  <2>2. flags'[w] = (flags[w] \ {"SLEEPING"}) \cup {"RUNNING"} /\ \A u \in Threads \ {w} : flags'[u] = flags[u]
    BY <2>1
  <2>3. QED
    BY <1>5, <2>1, <2>2 DEF Readied, Has
<1>9. UNCHANGED <<current, killq, freed, cpuState, isr, irqExec, tmr, queue, wake, sig, ec, arg>>
  BY DEF SleepTimeout, evVars, deadVars, irqVars, callVars
<1>10. EventInv' /\ ~irqExec'
  BY <1>9 DEF CoopInv, EventInv, ControlInv
<1>11. Rouse(w)
  BY <1>5, <1>6, <1>8, <1>9, <1>10 DEF Rouse
<1>12. QED
  BY <1>7, <1>11, RouseKeeps

\* A timer that expires finds its waiter in the queue.
LEMMA EventTimeoutRouses ==
    ASSUME Cooperative, CoopInv, NEW t \in Threads, EventTimeout(t)
    PROVE  \E w \in Threads : Rouse(w) /\ Moves(t) /\ Kept(ec) /\ w \in ToSet(wake) /\ tmr'[w] = "SIGNALED"
<1>1. timers \in Seq(Timer) /\ timers # <<>> /\ Sole(timers)
  BY DEF CoopInv, TypeOK, TimerInv, EventTimeout, Expired
<1>2. PICK r \in Timer : r = Head(timers) /\ r \in ToSet(timers)
  BY <1>1, TailDrops, TimerOwners DEF CoopInv
<1>3. r.fn = "event" /\ r.left <= 0 /\ r.tp \in Threads /\ r.left \in Int /\ r.q \in QueueIds
  BY <1>2 DEF EventTimeout, Expired, Timer
<1>4. PICK w \in Threads : w = r.tp
  BY <1>3
<1>5. PICK q \in QueueIds : q = r.q
  BY <1>3
<1>6. w \in ToSet(wake) /\ w # current /\ arg[w].q = q /\ tmr[w] = "SET"
  BY <1>2, <1>3, <1>4, <1>5 DEF CoopInv, TimerInv, Armed
<1>7. w \in ToSet(queue[q]) /\ queue[q] \in Seq(Threads)
  BY <1>6 DEF CoopInv, TypeOK, EventInv
<1>. DEFINE at == {i \in 1..Len(queue[q]) : queue[q][i] = w /\ tmr[w] = "SET"}
<1>8. at # {} /\ at \subseteq Nat
  BY <1>6, <1>7, ElementPlace
<1>9. First(at) \in at
  BY <1>8, FirstExists
<1>10. PICK i \in 1..Len(queue[q]) : i = First(at) /\ queue[q][i] = w
  BY <1>9
<1>11. /\ t = current /\ sc[t] \in {"enter", "clock"} /\ timers' = Tail(timers)
       /\ Dequeue(q, i, ec)
       /\ tmr' = [tmr EXCEPT ![w] = "SIGNALED"]
       /\ RawRqAddThread(w)
       /\ flags' = [[flags EXCEPT ![w] = @ \cup {"RUNNING"}] EXCEPT
                  ![t] = @ \cup IF prio[w] <= prio[t] THEN {"NEED_RESCHED"} ELSE {}]
       /\ sc' = [sc EXCEPT ![t] = "clock"]
       /\ UNCHANGED <<current, killq, freed, cpuState, isr, irqExec, pc, arg>>
  BY <1>2, <1>4, <1>5, <1>8, <1>10 DEF EventTimeout, deadVars, irqVars, callVars
<1>. HIDE DEF at
<1>12. Leaves(w, ec)
  <2>1. ec \in [Threads -> Nat] /\ TypeOK /\ EventInv
    BY DEF CoopInv, TypeOK
  <2>2. \A u \in Threads : ec[u] <= ec[u]
    BY <2>1
  <2>3. Leaves(queue[q][i], ec)
    BY <1>11, <2>1, <2>2, DequeueLeaves
  <2>4. QED
    BY <1>10, <2>3
<1>13. ToSet(timers)' = Others(timers, w) /\ Sole(timers)'
  <2>1. ToSet(Tail(timers)) = Others(timers, w) /\ Sole(Tail(timers))
    BY <1>1, <1>2, <1>4, TailDrops
  <2>2. QED
    BY <1>11, <2>1 DEF Sole
<1>14. Moves(t)
  BY <1>11 DEF Moves, CoopInv, TypeOK
<1>15. Readied(w)
  <2>1. flags \in [Threads -> SUBSET Flags] /\ sc[w] # "uncreated" /\ sc[t] # "uncreated" /\ w # t
    BY <1>6, <1>11 DEF CoopInv, TypeOK, PlaceInv
  <2>2. /\ flags'[w] = flags[w] \cup {"RUNNING"} /\ \A u \in Threads \ {w, t} : flags'[u] = flags[u]
        /\ \E f \in {{}, {"NEED_RESCHED"}} : flags'[t] = flags[t] \cup f
    BY <1>11, <2>1
  <2>3. /\ Has(w, "RUNNING")'
        /\ \A u \in Threads \ {w} : /\ Has(u, "RUNNING")' <=> Has(u, "RUNNING")
                                    /\ Has(u, "SLEEPING")' <=> Has(u, "SLEEPING")
        /\ \A u \in Threads : /\ Has(u, "EXIT")' <=> Has(u, "EXIT")
                              /\ Has(u, "WAITING")' <=> Has(u, "WAITING")
                              /\ Has(u, "SYSTEM_STACK")' <=> Has(u, "SYSTEM_STACK")
                              /\ Has(u, "REMOTE_KILL")' <=> Has(u, "REMOTE_KILL")
                              /\ Has(u, "NEED_RESCHED") => Has(u, "NEED_RESCHED")'
                              /\ sc[u] = "uncreated" => flags'[u] = flags[u]
    BY <2>1, <2>2 DEF Has
  <2>4. QED
    BY <1>6, <1>11, <2>3 DEF Readied
<1>16. /\ ~irqExec' /\ \A u \in Threads \ {w} : tmr'[u] = tmr[u]
  BY <1>11 DEF CoopInv, TypeOK, ControlInv
<1>17. Rouse(w) /\ Kept(ec)
  BY <1>6, <1>11, <1>12, <1>13, <1>15, <1>16 DEF Rouse, Leaves
<1>18. tmr'[w] = "SIGNALED"
  BY <1>11 DEF CoopInv, TypeOK
<1>19. QED
  BY <1>6, <1>14, <1>17, <1>18

\* event_tmo keeps the invariant.
LEMMA EventTimeoutKeeps ==
    ASSUME Cooperative, CoopInv, TypeOK', NEW t \in Threads, EventTimeout(t)
    PROVE  CoopInv'
BY EventTimeoutRouses, RouseKeeps

\* Who leaves queues and counters alone loses no event.
LEMMA KeptSame ==
    ASSUME TypeOK, UNCHANGED <<queue, ec>>
    PROVE  Kept(ec)
<1>1. ASSUME NEW p \in QueueIds, queue[p] # <<>> PROVE ec[queue[p][1]] \in Nat
  <2>1. queue[p] \in Seq(Threads) /\ 1 \in 1..Len(queue[p])
    BY <1>1, EmptySeq DEF TypeOK
  <2>2. queue[p][1] \in Threads
    BY <2>1, ElementOfSeq
  <2>3. QED
    BY <2>2 DEF TypeOK
<1>2. QED
  BY <1>1 DEF Kept

\* The events e the threads have, less the one that is delivered
OneLess(e) == e \in [Threads -> Nat] /\ \A u \in Threads : e[u] <= ec[u] /\ e[u] >= ec[u] - 1

\* An event of a waiter wakes that waiter.
LEMMA SignalThreadRouses ==
    ASSUME Cooperative, CoopInv, NEW t \in Threads, SignalThread(t)
    PROVE  /\ \E w \in Threads : Rouse(w) /\ Moves(t) /\ w \in ToSet(wake) /\ ec[w] > 0
           /\ \E e \in [Threads -> Nat] : OneLess(e) /\ Kept(e)
<1>1. Pending # {} /\ Pending \subseteq Nat /\ scan \in Seq(Threads)
  <2>1. Pending \subseteq Nat /\ scan \in Seq(Threads)
    BY DEF Pending, CoopInv, TypeOK
  <2>2. QED
    BY <2>1 DEF SignalThread
<1>2. First(Pending) \in Pending
  BY <1>1, FirstExists
<1>3. PICK it \in Threads : it = scan[First(Pending)] /\ ec[it] > 0
  BY <1>1, <1>2, ElementOfSeq DEF Pending
<1>4. PICK q \in QueueIds : q = arg[it].q
  BY DEF CoopInv, TypeOK, Args
<1>5. it \in ToSet(queue[q]) /\ queue[q] \in Seq(Threads)
  BY <1>3, <1>4 DEF CoopInv, EventInv, TypeOK
<1>6. queue[q] # <<>>
  BY <1>5, ElementPlace, EmptySeq
<1>7. PICK e : e = [ec EXCEPT ![it] = @ - 1]
  OBVIOUS
<1>8. OneLess(e)
  <2>1. ec \in [Threads -> Nat]
    BY DEF CoopInv, TypeOK
  <2>2. e \in [Threads -> Nat] /\ \A u \in Threads : e[u] = IF u = it THEN ec[u] - 1 ELSE ec[u]
    BY <1>3, <1>7, <2>1
  <2>3. QED
    BY <2>1, <2>2 DEF OneLess
<1>9. /\ WakeHead(q, e, "raw", "SET")
      /\ t = current /\ sc[t] = "signal"
      /\ UNCHANGED <<current, killq, freed, cpuState, isr, irqExec, sc, pc, arg>>
  BY <1>3, <1>4, <1>6, <1>7 DEF SignalThread, deadVars, irqVars, callVars
<1>10. ~irqExec' /\ \A u \in ToSet(wake) : arg'[u] = arg[u]
  BY <1>9 DEF CoopInv, ControlInv
<1>11. (\E w \in Threads : Rouse(w) /\ w \in ToSet(wake) /\ w = queue[q][1]) /\ Kept(e)
  BY <1>6, <1>8, <1>9, <1>10, WakeHeadRouses DEF OneLess
<1>12. Moves(t)
  BY <1>9 DEF Moves
<1>13. it = queue[q][1]
  BY <1>3, <1>4 DEF CoopInv, EventInv
<1>14. QED
  BY <1>3, <1>8, <1>11, <1>12, <1>13 DEF OneLess

\* rq_signal_threads keeps the invariant.
LEMMA SignalThreadKeeps ==
    ASSUME Cooperative, CoopInv, TypeOK', NEW t \in Threads, SignalThread(t)
    PROVE  CoopInv'
BY SignalThreadRouses, RouseKeeps

\* event_notify of a queue with waiters
LEMMA NotifyRouses ==
    ASSUME CoopInv, NEW q \in QueueIds, queue[q] # <<>>, WakeHead(q, ec, "rq", "NULL"),
           UNCHANGED <<current, killq, freed, cpuState, isr>>, ~irqExec',
           \A u \in ToSet(wake) : arg'[u] = arg[u]
    PROVE  /\ \E w \in Threads : Rouse(w) /\ w \in ToSet(wake) /\ w = queue[q][1]
           /\ Kept(ec)
           /\ Len(queue[q]) = 1 => queue'[q] = <<>>
<1>1. ec \in [Threads -> Nat] /\ \A u \in Threads : ec[u] <= ec[u]
  <2>1. ec \in [Threads -> Nat]
    BY DEF CoopInv, TypeOK
  <2>2. QED
    BY <2>1
<1>2. "NULL" \in {"NULL", "SET"}
  OBVIOUS
<1>3. QED
  BY <1>1, <1>2, WakeHeadRouses, Zenon

\* The rounds of raw_event_notify_broadcast
LEMMA BroadcastRounds ==
    ASSUME CoopInv, NEW q \in QueueIds, BroadcastStep(q)
    PROVE  \/ /\ queue[q] = <<>> /\ sig' = sig \ {q} /\ BroadcastLast(q)
              /\ UNCHANGED <<runq, num, on_rq, flags, wake, queue, ec, timers, tmr>>
           \/ /\ queue[q] # <<>> /\ WakeHead(q, ec, "rq", "NULL")
              /\ BroadcastLast(q) <=> Len(queue[q]) = 1
<1>1. ~irqExec
  BY DEF CoopInv, ControlInv
<1>2. QED
  BY <1>1 DEF BroadcastStep, BroadcastLast, tmrVars

\* One round of the broadcast in kill keeps the invariant and the events.
LEMMA KillBroadcastKeeps ==
    ASSUME Cooperative, CoopInv, TypeOK', NEW t \in Threads, KillBroadcast(t)
    PROVE  CoopInv' /\ Kept(ec)
<1>1. /\ t = current /\ sc[t] = "none" /\ pc[t] = "kill_broadcast" /\ BroadcastStep(t)
      /\ IF BroadcastLast(t) THEN pc' = [pc EXCEPT ![t] = "kill_queue"] ELSE pc' = pc
      /\ UNCHANGED <<current, killq, freed, cpuState, isr, irqExec, sc, arg>>
      /\ ~irqExec' /\ t \in QueueIds
  BY DEF KillBroadcast, Running, Goto, deadVars, irqVars, QueueIds, CoopInv, ControlInv
<1>2. pc \in [Threads -> Labels]
  BY DEF CoopInv, TypeOK
<1>3. CASE queue[t] = <<>>
  <2>1. /\ UNCHANGED <<runq, num, on_rq, flags, wake, queue, ec, timers, tmr>>
        /\ sig' = sig \ {t} /\ pc' = [pc EXCEPT ![t] = "kill_queue"]
    BY <1>1, <1>3, BroadcastRounds
  <2>2. FlagStep(t)
    BY <1>1, <1>2, <1>3, <2>1 DEF FlagStep, Settled, Turn
  <2>3. Kept(ec)
    BY <2>1, KeptSame DEF CoopInv
  <2>4. QED
    BY <2>2, <2>3, FlagStepKeeps
<1>4. CASE queue[t] # <<>>
  <2>1. WakeHead(t, ec, "rq", "NULL") /\ (BroadcastLast(t) <=> Len(queue[t]) = 1)
    BY <1>1, <1>4, BroadcastRounds
  <2>2. (\E w \in Threads : Rouse(w)) /\ Kept(ec) /\ (Len(queue[t]) = 1 => queue'[t] = <<>>)
    BY <1>1, <1>4, <2>1, NotifyRouses
  <2>3. Moves(t)
    BY <1>1, <1>2, <2>1, <2>2 DEF Moves, Turn
  <2>4. QED
    BY <2>2, <2>3, RouseKeeps
<1>5. QED
  BY <1>3, <1>4

\* One round of event_notify_broadcast keeps the invariant and the events.
LEMMA EventBroadcastStepKeeps ==
    ASSUME Cooperative, CoopInv, TypeOK', NEW t \in Threads, EventBroadcastStep(t)
    PROVE  CoopInv' /\ Kept(ec)
<1>1. PICK q \in QueueIds : q = arg[t].q
  BY DEF CoopInv, TypeOK, Args
<1>2. /\ t = current /\ sc[t] = "none" /\ pc[t] = "broadcast" /\ BroadcastStep(q)
      /\ IF BroadcastLast(q) THEN pc' = [pc EXCEPT ![t] = "broadcast_yield"] ELSE pc' = pc
      /\ UNCHANGED <<current, killq, freed, cpuState, isr, irqExec, sc, arg>>
      /\ ~irqExec'
  BY <1>1 DEF EventBroadcastStep, Running, Goto, deadVars, irqVars, CoopInv, ControlInv
<1>3. pc \in [Threads -> Labels]
  BY DEF CoopInv, TypeOK
<1>4. CASE queue[q] = <<>>
  <2>1. /\ UNCHANGED <<runq, num, on_rq, flags, wake, queue, ec, timers, tmr>>
        /\ sig' = sig \ {q} /\ pc' = [pc EXCEPT ![t] = "broadcast_yield"]
    BY <1>2, <1>4, BroadcastRounds
  <2>2. Calm(t)
    BY <1>2, <1>3, <2>1 DEF Calm, Settled, Plain, CoopInv, FlagsInv, Has
  <2>3. CallInv' /\ Kept(ec)
    BY <1>2, <1>3, <2>1, KeptSame DEF CallInv, CoopInv
  <2>4. QED
    BY <2>2, <2>3, CalmKeeps
<1>5. CASE queue[q] # <<>>
  <2>1. WakeHead(q, ec, "rq", "NULL") /\ (BroadcastLast(q) <=> Len(queue[q]) = 1)
    BY <1>2, <1>5, BroadcastRounds
  <2>2. (\E w \in Threads : Rouse(w)) /\ Kept(ec)
    BY <1>2, <1>5, <2>1, NotifyRouses
  <2>3. Moves(t)
    BY <1>2, <1>3, <2>1, <2>2 DEF Moves, Turn
  <2>4. QED
    BY <2>2, <2>3, RouseKeeps
<1>6. QED
  BY <1>4, <1>5

\* One round of the broadcast in sched_remote_kill_if keeps the invariant and
\* the events.
LEMMA RemoteKillBroadcastKeeps ==
    ASSUME Cooperative, CoopInv, TypeOK', NEW t \in Threads, RemoteKillBroadcast(t)
    PROVE  CoopInv' /\ Kept(ec)
<1>1. TypeOK /\ isr[t] = "no" /\ ~irqExec
  BY DEF CoopInv, ControlInv
<1>2. /\ t = current /\ sc[t] = "bcast" /\ BroadcastStep(t)
      /\ IF BroadcastLast(t) THEN sc' = [sc EXCEPT ![t] = "enter"] ELSE sc' = sc
      /\ UNCHANGED <<current, killq, freed, cpuState, isr, irqExec, pc, arg>>
      /\ ~irqExec' /\ t \in QueueIds
  BY <1>1 DEF RemoteKillBroadcast, LeaveOrLoop, TypeOK, deadVars, callVars, QueueIds
<1>3. CASE queue[t] = <<>>
  <2>1. /\ UNCHANGED <<runq, num, on_rq, flags, wake, queue, ec, timers, tmr>>
        /\ sig' = sig \ {t} /\ sc' = [sc EXCEPT ![t] = "enter"]
    BY <1>2, <1>3, BroadcastRounds
  <2>2. PhaseStep(t)
    BY <1>1, <1>2, <1>3, <2>1 DEF PhaseStep, Settled, TypeOK
  <2>3. Kept(ec)
    BY <1>1, <2>1, KeptSame
  <2>4. QED
    BY <2>2, <2>3, PhaseKeeps
<1>4. CASE queue[t] # <<>>
  <2>1. WakeHead(t, ec, "rq", "NULL") /\ (BroadcastLast(t) <=> Len(queue[t]) = 1)
    BY <1>2, <1>4, BroadcastRounds
  <2>2. (\E w \in Threads : Rouse(w)) /\ Kept(ec) /\ (Len(queue[t]) = 1 => queue'[t] = <<>>)
    BY <1>2, <1>4, <2>1, NotifyRouses
  <2>3. Moves(t)
    BY <1>1, <1>2, <2>1, <2>2 DEF Moves, TypeOK
  <2>4. QED
    BY <2>2, <2>3, RouseKeeps
<1>5. QED
  BY <1>3, <1>4

\* event_notify keeps the invariant and the events of the other waiters.
LEMMA EventNotifyActKeeps ==
    ASSUME Cooperative, CoopInv, TypeOK', NEW t \in Threads, EventNotifyAct(t)
    PROVE  CoopInv' /\ Kept(ec)
<1>1. PICK q \in QueueIds : q = arg[t].q
  BY DEF CoopInv, TypeOK, Args
<1>2. TypeOK /\ ~irqExec
  BY DEF CoopInv, ControlInv
<1>3. /\ t = current /\ sc[t] = "none" /\ pc[t] = "notify"
      /\ pc' = [pc EXCEPT ![t] = "app"] /\ arg' = [arg EXCEPT ![t] = NoArg] /\ sc' = sc
      /\ UNCHANGED <<current, killq, freed, cpuState, isr, irqExec>>
      /\ ~irqExec'
  BY <1>2 DEF EventNotifyAct, Running, Return, PreemptEnable, Cooperative, TypeOK, deadVars,
     irqVars
<1>4. CallInv' /\ t \notin ToSet(wake)
  BY <1>2, <1>3 DEF CallInv, CoopInv, PlaceInv, TypeOK
<1>5. CASE /\ \A p \in sig' : p \in sig \/ (p = q /\ queue[q] = <<>>)
           /\ UNCHANGED <<runq, num, on_rq, flags, wake, queue, ec, timers, tmr>>
  <2>1. Calm(t)
    BY <1>2, <1>3, <1>5 DEF Calm, Settled, Plain, CoopInv, FlagsInv, Has, TypeOK
  <2>2. Kept(ec)
    BY <1>2, <1>5, KeptSame
  <2>3. QED
    BY <1>4, <2>1, <2>2, CalmKeeps
<1>6. CASE queue[q] # <<>> /\ WakeHead(q, ec, "rq", "NULL")
  <2>1. \A u \in ToSet(wake) : arg'[u] = arg[u]
    BY <1>2, <1>3, <1>4, TimerOwners DEF TypeOK
  <2>2. (\E w \in Threads : Rouse(w)) /\ Kept(ec)
    BY <1>3, <1>6, <2>1, NotifyRouses
  <2>3. Moves(t)
    BY <1>2, <1>3 DEF Moves, Turn, TypeOK
  <2>4. QED
    BY <2>2, <2>3, RouseKeeps
<1>7. \/ /\ arg[t].head = "NULL" /\ sig' = sig \cup {q} /\ queue' = [queue EXCEPT ![q] = <<>>]
         /\ UNCHANGED <<runq, num, on_rq, flags, wake, ec, tmrVars>>
      \/ queue[q] # <<>> /\ WakeHead(q, ec, "rq", "NULL")
      \/ UNCHANGED <<runq, num, on_rq, flags, evVars, tmrVars>>
  BY <1>1 DEF EventNotifyAct
<1>8. CASE /\ arg[t].head = "NULL" /\ sig' = sig \cup {q} /\ queue' = [queue EXCEPT ![q] = <<>>]
           /\ UNCHANGED <<runq, num, on_rq, flags, wake, ec, tmrVars>>
  <2>1. queue[q] = <<>>
    BY <1>1, <1>3, <1>8 DEF CoopInv, CallInv
  <2>2. queue' = queue
    BY <1>2, <1>8, <2>1 DEF TypeOK
  <2>3. QED
    BY <1>5, <1>8, <2>1, <2>2 DEF tmrVars
<1>9. CASE UNCHANGED <<runq, num, on_rq, flags, evVars, tmrVars>>
  BY <1>5, <1>9 DEF evVars, tmrVars
<1>10. QED
  BY <1>6, <1>7, <1>8, <1>9

----------------------------------------------------------------------------
(* Interrupts *)

\* event_notify_irq counts the event where rq_signal_threads looks for it.
LEMMA IrqNotifyKeeps ==
    ASSUME Cooperative, CoopInv, TypeOK', NEW q \in QueueIds, IrqNotify(q)
    PROVE  CoopInv' /\ Kept(ec)
<1>1. /\ EventNotifyIrq(q) /\ ~irqExec'
      /\ UNCHANGED <<current, runq, num, on_rq, flags, wake, queue, timers, tmr, killq, freed, cpuState, sc, isr, pc, arg>>
  BY DEF Cooperative, IrqNotify, Preemptible, PreemptScheduleIrq, rqVars, tmrVars, deadVars,
     callVars
<1>2. queue[q] \in Seq(Threads) /\ ec \in [Threads -> Nat]
  BY DEF CoopInv, TypeOK
<1>3. EventInv' /\ Kept(ec)
  <2>1. CASE queue[q] = <<>>
    <3>1. sig' = sig \cup {q} /\ ec' = ec
      BY <1>1, <2>1 DEF EventNotifyIrq
    <3>2. QED
      BY <1>1, <2>1, <3>1, KeptSame DEF CoopInv, EventInv
  <2>2. CASE queue[q] # <<>>
    <3>1. PICK h \in Threads : h = Head(queue[q]) /\ h = queue[q][1] /\ h \in ToSet(queue[q])
      BY <1>2, <2>2, HeadTailProperties, EmptySeq, ElementPlace
    <3>2. sig' = sig /\ ec' = [ec EXCEPT ![h] = @ + 1]
      BY <1>1, <2>2, <3>1 DEF EventNotifyIrq
    <3>3. h \in ToSet(wake) /\ arg[h].q = q
      BY <3>1 DEF CoopInv, EventInv
    <3>4. \A u \in Threads : ec'[u] > 0 => u = h \/ ec[u] > 0
      BY <1>2, <3>2
    <3>5. EventInv'
      BY <1>1, <3>1, <3>2, <3>3, <3>4 DEF CoopInv, EventInv
    <3>6. \A u \in Threads : ec'[u] >= ec[u]
      BY <1>2, <3>2
    <3>7. ASSUME NEW p \in QueueIds, queue[p] # <<>> PROVE queue[p][1] \in Threads
      <4>1. queue[p] \in Seq(Threads) /\ 1 \in 1..Len(queue[p])
        BY <3>7, EmptySeq DEF CoopInv, TypeOK
      <4>2. QED
        BY <4>1, ElementOfSeq
    <3>8. Kept(ec)
      BY <1>1, <3>6, <3>7 DEF Kept
    <3>9. QED
      BY <3>5, <3>8
  <2>3. QED
    BY <2>1, <2>2
<1>4. ControlInv' /\ FlagsInv' /\ RunInv' /\ PlaceInv'
  BY <1>1 DEF CoopInv, ControlInv, FlagsInv, RunInv, PlaceInv, Has, Marked, Added, Armed
<1>5. TimerInv' /\ CallInv' /\ DeadInv'
  BY <1>1 DEF CoopInv, TimerInv, CallInv, DeadInv, Has, Armed, Sole, Telling
<1>6. QED
  BY <1>3, <1>4, <1>5 DEF CoopInv

\* r is s one tick later.
Aged(r, s) == /\ r.tp = s.tp /\ r.fn = s.fn /\ r.q = s.q
              /\ r.left = IF s.left > -1 THEN s.left - 1 ELSE s.left

\* A tick changes no timer but in the ticks it has left.
LEMMA LaterAges ==
    ASSUME NEW l \in Seq(Timer), Sole(l)
    PROVE  /\ Sole(Later(l))
           /\ \A r \in ToSet(Later(l)) : \E s \in ToSet(l) : Aged(r, s)
           /\ \A s \in ToSet(l) : \E r \in ToSet(Later(l)) : Aged(r, s)
<1>. DEFINE m == Later(l)
<1>1. Len(l) \in Nat /\ \A i \in 1..Len(l) : l[i] \in Timer
  BY LenProperties, ElementOfSeq
<1>2. ASSUME NEW i \in 1..Len(l) PROVE m[i] \in Timer /\ Aged(m[i], l[i])
  <2>1. m[i] = [l[i] EXCEPT !.left = IF @ > -1 THEN @ - 1 ELSE @]
    BY DEF Later
  <2>2. PICK s \in Timer : s = l[i]
    BY <1>1
  <2>3. [s EXCEPT !.left = IF @ > -1 THEN @ - 1 ELSE @] \in Timer /\ Aged([s EXCEPT !.left = IF @ > -1 THEN @ - 1 ELSE @], s)
    BY DEF Timer, Aged
  <2>4. QED
    BY <2>1, <2>2, <2>3
<1>3. Len(m) = Len(l) /\ m \in Seq(Timer)
  <2>1. m = [i \in 1..Len(l) |-> m[i]]
    BY DEF Later
  <2>. HIDE DEF m
  <2>2. QED
    BY <1>1, <1>2, <2>1
<1>. HIDE DEF m
<1>4. \A r \in ToSet(m) : \E s \in ToSet(l) : Aged(r, s)
  <2>1. ASSUME NEW r \in ToSet(m) PROVE \E s \in ToSet(l) : Aged(r, s)
    <3>1. PICK i \in 1..Len(l) : m[i] = r
      BY <1>3, ElementPlace
    <3>2. l[i] \in ToSet(l) /\ Aged(r, l[i])
      BY <1>2, <3>1, ElementPlace
    <3>3. QED
      BY <3>2
  <2>2. QED
    BY <2>1
<1>5. \A s \in ToSet(l) : \E r \in ToSet(m) : Aged(r, s)
  <2>1. ASSUME NEW s \in ToSet(l) PROVE \E r \in ToSet(m) : Aged(r, s)
    <3>1. PICK i \in 1..Len(l) : l[i] = s
      BY ElementPlace
    <3>2. m[i] \in ToSet(m) /\ Aged(m[i], s)
      BY <1>2, <1>3, <3>1, ElementPlace
    <3>3. QED
      BY <3>2
  <2>2. QED
    BY <2>1
<1>6. ASSUME NEW i \in 1..Len(l), NEW j \in 1..Len(l), m[i].tp = m[j].tp PROVE i = j
  <2>1. l[i].tp = l[j].tp /\ l[i] \in ToSet(l) /\ l[j] \in ToSet(l)
    BY <1>2, <1>6, ElementPlace DEF Aged
  <2>2. QED
    BY <2>1 DEF Sole, Once
<1>7. Sole(m)
  <2>1. Once(m)
    BY <1>3, <1>6 DEF Once
  <2>2. ASSUME NEW r \in ToSet(m), NEW s \in ToSet(m), r.tp = s.tp PROVE r = s
    <3>1. PICK i \in 1..Len(l) : m[i] = r
      BY <1>3, ElementPlace
    <3>2. PICK j \in 1..Len(l) : m[j] = s
      BY <1>3, ElementPlace
    <3>3. QED
      BY <1>6, <2>2, <3>1, <3>2
  <2>3. QED
    BY <2>1, <2>2 DEF Sole
<1>8. QED
  BY <1>4, <1>5, <1>7 DEF m

\* The tick keeps the invariant and the events.
LEMMA TickKeeps ==
    ASSUME Cooperative, CoopInv, TypeOK', NEW expire \in BOOLEAN, Tick(expire)
    PROVE  CoopInv' /\ Kept(ec)
<1>1. TypeOK /\ ~expire
  BY DEF CoopInv, Cooperative, Tick
<1>2. flags' = flags
  BY <1>1 DEF Tick, TypeOK
<1>3. /\ timers' = Later(timers) /\ ~irqExec'
      /\ UNCHANGED <<current, runq, num, on_rq, wake, queue, sig, ec, tmr, killq, freed, cpuState, sc, isr, pc, arg>>
  BY <1>1 DEF Tick, rqVars, evVars, deadVars, callVars
<1>4. timers \in Seq(Timer) /\ Sole(timers)
  BY <1>1 DEF CoopInv, TypeOK, TimerInv
<1>5. /\ Sole(timers)'
      /\ \A r \in ToSet(timers)' : \E s \in ToSet(timers) : Aged(r, s)
      /\ \A s \in ToSet(timers) : \E r \in ToSet(timers)' : Aged(r, s)
  <2>1. /\ Sole(Later(timers))
        /\ \A r \in ToSet(Later(timers)) : \E s \in ToSet(timers) : Aged(r, s)
        /\ \A s \in ToSet(timers) : \E r \in ToSet(Later(timers)) : Aged(r, s)
    BY <1>4, LaterAges
  <2>2. QED
    BY <1>3, <2>1 DEF Sole
<1>6. \A u \in Threads : Armed(u)' <=> Armed(u)
  BY <1>5 DEF Armed, Aged
<1>7. TimerInv'
  <2>1. ASSUME NEW r \in ToSet(timers)'
        PROVE  /\ r.fn = "event" <=> r.tp \in ToSet(wake)'
               /\ r.fn = "event" => r.q = arg'[r.tp].q
               /\ r.tp = current' => r.left > 0
    <3>1. PICK s \in ToSet(timers) : Aged(r, s)
      BY <1>5, <2>1
    <3>2. s \in Timer
      BY <1>1, TimerOwners
    <3>3. s.tp = current => s.left > 1
      <4>1. PICK i \in 1..Len(timers) : timers[i] = s
        BY <1>4, ElementPlace
      <4>2. QED
        BY <4>1 DEF Tick, Cooperative
    <3>4. s.left \in Int
      BY <3>2 DEF Timer
    <3>5. QED
      BY <1>3, <3>1, <3>3, <3>4 DEF CoopInv, TimerInv, Aged
  <2>2. ToSet(wake) \subseteq Threads
    BY <1>1, TimerOwners
  <2>3. QED
    BY <1>3, <1>5, <1>6, <2>1, <2>2 DEF CoopInv, TimerInv
<1>8. ControlInv' /\ FlagsInv' /\ RunInv' /\ PlaceInv'
  BY <1>2, <1>3, <1>6 DEF CoopInv, ControlInv, FlagsInv, RunInv, PlaceInv, Has, Marked, Added
<1>9. EventInv' /\ CallInv' /\ DeadInv'
  BY <1>2, <1>3 DEF CoopInv, EventInv, CallInv, DeadInv, Has, Telling
<1>10. QED
  BY <1>1, <1>3, <1>7, <1>8, <1>9, KeptSame DEF CoopInv

----------------------------------------------------------------------------
(* signal(), thread_create() and sleep() *)

\* A thread that makes a call and neither dies nor waits for signal() is awake.
LEMMA Awake ==
    ASSUME CoopInv, NEW t \in Threads, t = current, sc[t] = "none",
           pc[t] \notin Stopping \cup Dying \cup Waits
    PROVE  /\ Has(t, "RUNNING") /\ ~Has(t, "EXIT") /\ ~Has(t, "WAITING")
           /\ t \notin ToSet(wake) /\ ~Armed(t) /\ t \notin ToSet(runq)
BY DEF CoopInv, FlagsInv, PlaceInv, RunInv

\* signal marks a thread that waits for it.
LEMMA SignalKeeps ==
    ASSUME Cooperative, CoopInv, TypeOK', NEW t \in Threads, NEW u \in Threads, Signal(t, u)
    PROVE  CoopInv'
<1>1. /\ t = current /\ sc[t] = "none" /\ pc[t] = "app" /\ pc'[t] = "signal_add" /\ arg'[t].tp = u
      /\ \A v \in Threads \ {t} : pc'[v] = pc[v] /\ arg'[v] = arg[v]
      /\ UNCHANGED <<current, runq, num, on_rq, wake, queue, sig, ec, timers, tmr, killq, freed, irqExec, cpuState, isr, sc>>
  BY DEF CoopInv, TypeOK, Args, Signal, Calls, Running, Goto, rqVars, evVars, tmrVars,
     deadVars, irqVars
<1>2. /\ Has(t, "RUNNING") /\ ~Has(t, "EXIT") /\ ~Has(t, "WAITING") /\ t # Idle
      /\ t \notin ToSet(wake) /\ ~Armed(t) /\ t \notin ToSet(runq)
  BY <1>1, Awake DEF CoopInv, ControlInv, Stopping, Dying, Waits
<1>3. /\ Has(u, "WAITING") /\ u # t /\ ~Has(u, "EXIT") /\ ~Has(u, "RUNNING") /\ sc[u] # "uncreated"
      /\ pc[u] \in Outside
  <2>1. Has(u, "WAITING") /\ u # t
    BY <1>2 DEF Signal
  <2>2. pc[u] \in Outside
    BY <1>1, <2>1 DEF CoopInv, ControlInv
  <2>3. QED
    BY <2>1, <2>2 DEF CoopInv, FlagsInv, Has, Outside, Waits
<1>4. /\ Has(u, "RUNNING")' /\ ~Has(u, "WAITING")'
      /\ \A f \in Flags \ {"RUNNING", "WAITING"} : Has(u, f)' <=> Has(u, f)
      /\ \A v \in Threads \ {u} : flags'[v] = flags[v]
  <2>1. flags \in [Threads -> SUBSET Flags] /\ flags' = [flags EXCEPT ![u] = (@ \ {"WAITING"}) \cup {"RUNNING"}]
    BY DEF CoopInv, TypeOK, Signal
  <2>2. flags'[u] = (flags[u] \ {"WAITING"}) \cup {"RUNNING"} /\ \A v \in Threads \ {u} : flags'[v] = flags[v]
    BY <2>1
  <2>3. QED
    BY <2>2 DEF Has
<1>5. /\ \A v \in Threads : Marked(v)' <=> v = u
      /\ \A v \in Threads : ~Marked(v) /\ ~Added(v) /\ ~Added(v)'
  BY <1>1 DEF Marked, Added
<1>6. ControlInv'
  BY <1>1, <1>2 DEF CoopInv, ControlInv, Outside
<1>7. FlagsInv'
  <2>1. \A v \in Threads \ {t, u} : Has(v, "RUNNING")' <=> Has(v, "RUNNING")
    BY <1>4 DEF Has
  <2>2. Has(t, "RUNNING")' /\ ~Has(t, "EXIT")' /\ ~Has(t, "WAITING")'
    BY <1>2, <1>3, <1>4 DEF Has
  <2>3. Has(Idle, "RUNNING")' /\ ~Has(Idle, "REMOTE_KILL")'
    BY <1>4, ThreadsAssumption DEF CoopInv, FlagsInv, Has, Flags
  <2>4. ~Has(u, "EXIT")'
    BY <1>3, <1>4 DEF Flags
  <2>5. QED
    BY <1>1, <1>3, <1>4, <1>5, <2>2, <2>3, <2>4 DEF CoopInv, FlagsInv, Has, Stopping, Dying,
       Waits, Outside
<1>8. RunInv'
  BY <1>1, <1>3, <1>4, <1>5 DEF CoopInv, RunInv, Has
<1>9. PlaceInv'
  BY <1>1, <1>2, <1>3, <1>4 DEF CoopInv, PlaceInv, Has, Armed, Flags
<1>10. EventInv'
  BY <1>1, <1>2 DEF CoopInv, EventInv
<1>11. TimerInv'
  <2>1. \A r \in ToSet(timers) : r.tp \in Threads /\ r.tp # t
    BY <1>2, TimerOwners DEF CoopInv, Armed
  <2>2. ToSet(wake) \subseteq Threads
    BY TimerOwners DEF CoopInv
  <2>3. QED
    BY <1>1, <1>2, <2>1, <2>2 DEF CoopInv, TimerInv, Armed, Sole
<1>12. CallInv'
  BY <1>1 DEF CallInv
<1>13. DeadInv'
  <2>1. \A v \in Threads : (Has(v, "EXIT")' <=> Has(v, "EXIT")) /\ (Has(v, "SYSTEM_STACK")' <=> Has(v, "SYSTEM_STACK"))
    BY <1>4 DEF Has, Flags
  <2>2. u \notin ToSet(killq) \cup freed
    BY <1>3 DEF CoopInv, DeadInv
  <2>3. \A v \in Threads \ {u} : Has(v, "RUNNING")' <=> Has(v, "RUNNING")
    BY <1>4 DEF Has
  <2>4. QED
    BY <1>1, <2>1, <2>2, <2>3 DEF CoopInv, DeadInv, Telling, Dying
<1>14. QED
  BY <1>6, <1>7, <1>8, <1>9, <1>10, <1>11, <1>12, <1>13 DEF CoopInv

\* signal puts the marked thread on the run queue, which it was not on.
LEMMA SignalAddKeeps ==
    ASSUME Cooperative, CoopInv, TypeOK', NEW t \in Threads, SignalAdd(t)
    PROVE  CoopInv'
<1>1. PICK u \in Threads : u = arg[t].tp
  BY DEF CoopInv, TypeOK, Args
<1>2. /\ t = current /\ sc[t] = "none" /\ pc[t] = "signal_add" /\ pc'[t] = "signal_on_rq"
      /\ \A v \in Threads \ {t} : pc'[v] = pc[v]
      /\ UNCHANGED <<current, wake, queue, sig, ec, timers, tmr, killq, freed, irqExec, cpuState, isr, sc, arg>>
  BY DEF CoopInv, TypeOK, SignalAdd, Running, Goto, evVars, tmrVars, deadVars, irqVars
<1>3. /\ Has(t, "RUNNING") /\ ~Has(t, "EXIT") /\ ~Has(t, "WAITING") /\ t # Idle
      /\ t \notin ToSet(wake) /\ ~Armed(t) /\ t \notin ToSet(runq)
  BY <1>2, Awake DEF CoopInv, ControlInv, Stopping, Dying, Waits
<1>4. Marked(u) /\ Has(u, "RUNNING") /\ u # t /\ u \notin ToSet(runq)
  <2>1. Marked(u)
    BY <1>1, <1>2 DEF Marked
  <2>2. QED
    BY <1>2, <2>1 DEF CoopInv, FlagsInv, RunInv
<1>5. flags' = flags
  <2>1. flags \in [Threads -> SUBSET Flags] /\ flags' = [flags EXCEPT ![u] = @ \cup {"RUNNING"}]
    BY <1>1 DEF CoopInv, TypeOK, SignalAdd
  <2>2. flags[u] \cup {"RUNNING"} = flags[u]
    BY <1>4 DEF Has
  <2>3. QED
    BY <2>1, <2>2
<1>6. /\ \A v \in Threads : Added(v)' <=> v = u
      /\ \A v \in Threads : ~Added(v) /\ ~Marked(v)' /\ (Marked(v) <=> v = u)
  BY <1>1, <1>2 DEF Marked, Added
<1>7. runq \in Seq(Threads) /\ num = Len(runq) /\ Once(runq) /\ on_rq \in [Threads -> BOOLEAN]
  BY DEF CoopInv, TypeOK, RunInv
<1>8. runq' = RqInsert(runq, u) /\ num' = num + 1 /\ on_rq' = [on_rq EXCEPT ![u] = FALSE]
  <2>1. RqRemove(runq, u) = runq
    BY <1>4, <1>7, RemoveFirstProperties DEF RqRemove
  <2>2. num \in Int /\ Len(runq) \in Nat /\ Len(runq) - Len(runq) = 0
    BY <1>7
  <2>3. runq' = RqInsert(runq, u) /\ num' = num + 1 - (Len(runq) - Len(runq)) /\ on_rq' = [on_rq EXCEPT ![u] = FALSE]
    BY <1>1, <2>1 DEF SignalAdd
  <2>4. QED
    BY <2>2, <2>3
<1>9. RunInv'
  <2>1. Joined(runq, u, runq') /\ Len(runq') = Len(runq) + 1
    BY <1>7, <1>8, RqInsertJoins
  <2>2. ToSet(runq)' = ToSet(runq) \cup {u} /\ Once(runq)' /\ num' = Len(runq)'
    BY <1>4, <1>7, <1>8, <2>1 DEF Joined
  <2>3. \A v \in Threads \ {u} : on_rq'[v] = on_rq[v]
    BY <1>7, <1>8
  <2>4. QED
    BY <1>2, <1>4, <1>5, <1>6, <2>2, <2>3 DEF CoopInv, RunInv, Has
<1>10. ControlInv'
  BY <1>2, <1>3 DEF CoopInv, ControlInv, Outside
<1>11. FlagsInv'
  BY <1>2, <1>3, <1>4, <1>5, <1>6 DEF CoopInv, FlagsInv, Has, Stopping, Dying, Waits
<1>12. PlaceInv' /\ EventInv'
  BY <1>2, <1>3, <1>5 DEF CoopInv, PlaceInv, EventInv, Has, Armed
<1>13. TimerInv' /\ CallInv'
  BY <1>2 DEF CoopInv, TimerInv, CallInv, Armed, Sole
<1>14. DeadInv'
  BY <1>2, <1>5 DEF CoopInv, DeadInv, Telling, Has, Dying
<1>15. QED
  BY <1>9, <1>10, <1>11, <1>12, <1>13, <1>14 DEF CoopInv

\* signal sets on_rq last.
LEMMA SignalOnRqKeeps ==
    ASSUME Cooperative, CoopInv, TypeOK', NEW t \in Threads, SignalOnRq(t)
    PROVE  CoopInv'
<1>1. PICK u \in Threads : u = arg[t].tp
  BY DEF CoopInv, TypeOK, Args
<1>2. /\ t = current /\ sc[t] = "none" /\ pc[t] = "signal_on_rq" /\ pc'[t] = "app" /\ sc'[t] = "enter"
      /\ \A v \in Threads \ {t} : pc'[v] = pc[v] /\ arg'[v] = arg[v] /\ sc'[v] = sc[v]
      /\ UNCHANGED <<current, runq, num, wake, queue, sig, ec, timers, tmr, killq, freed, irqExec, cpuState, isr>>
  BY DEF CoopInv, TypeOK, SignalOnRq, Running, Return, CallSchedule, evVars, tmrVars,
     deadVars, irqVars
<1>3. /\ Has(t, "RUNNING") /\ ~Has(t, "EXIT") /\ ~Has(t, "WAITING") /\ t # Idle
      /\ t \notin ToSet(wake) /\ ~Armed(t) /\ t \notin ToSet(runq)
  BY <1>2, Awake DEF CoopInv, ControlInv, Stopping, Dying, Waits
<1>4. /\ \A v \in Threads \ {t} : flags'[v] = flags[v]
      /\ \E f \in {{}, {"NEED_RESCHED"}} : flags'[t] = flags[t] \cup f
  BY DEF CoopInv, TypeOK, SignalOnRq, YieldFlags
<1>5. /\ \A v \in Threads : \A f \in Flags \ {"NEED_RESCHED"} : Has(v, f)' <=> Has(v, f)
      /\ \A v \in Threads : Has(v, "NEED_RESCHED") => Has(v, "NEED_RESCHED")'
  BY <1>4 DEF Has
<1>6. /\ \A v \in Threads : ~Added(v)' /\ ~Marked(v)' /\ ~Marked(v) /\ (Added(v) <=> v = u)
  BY <1>1, <1>2 DEF Marked, Added
<1>7. \A v \in Threads : on_rq'[v] <=> v = u \/ on_rq[v]
  BY <1>1 DEF CoopInv, TypeOK, SignalOnRq
<1>8. RunInv'
  BY <1>2, <1>3, <1>5, <1>6, <1>7 DEF CoopInv, RunInv, Flags
<1>9. ControlInv'
  BY <1>2, <1>3 DEF CoopInv, ControlInv, Outside
<1>10. FlagsInv'
  BY <1>2, <1>3, <1>4, <1>5, <1>6, ThreadsAssumption DEF CoopInv, FlagsInv, Stopping, Dying,
     Waits, Flags
<1>11. PlaceInv'
  BY <1>2, <1>3, <1>5 DEF CoopInv, PlaceInv, Armed, Flags
<1>12. EventInv'
  BY <1>2, <1>3 DEF CoopInv, EventInv
<1>13. TimerInv'
  <2>1. \A r \in ToSet(timers) : r.tp \in Threads /\ r.tp # t
    BY <1>3, TimerOwners DEF CoopInv, Armed
  <2>2. ToSet(wake) \subseteq Threads
    BY TimerOwners DEF CoopInv
  <2>3. QED
    BY <1>2, <1>3, <2>1, <2>2 DEF CoopInv, TimerInv, Armed, Sole
<1>14. CallInv'
  BY <1>2 DEF CallInv
<1>15. DeadInv'
  BY <1>2, <1>3, <1>5 DEF CoopInv, DeadInv, Telling, Dying, Flags
<1>16. QED
  BY <1>8, <1>9, <1>10, <1>11, <1>12, <1>13, <1>14, <1>15 DEF CoopInv

\* A thread that goes to sleep has the only timer of its own.
LEMMA NewTimer ==
    ASSUME NEW l \in Seq(Timer), NEW r \in Timer, Sole(l), \A s \in ToSet(l) : s.tp # r.tp
    PROVE  ToSet(TimerInsert(l, r)) = ToSet(l) \cup {r} /\ Sole(TimerInsert(l, r))
<1>1. Joined(l, r, TimerInsert(l, r))
  BY TimerInsertJoins
<1>2. QED
  BY <1>1 DEF Joined, Sole

\* sleep leaves the thread with a timer of its own.
LEMMA SleepKeeps ==
    ASSUME Cooperative, CoopInv, TypeOK', NEW t \in Threads, NEW ms \in Durations, Sleep(t, ms)
    PROVE  CoopInv'
<1>1. /\ t = current /\ sc[t] = "none" /\ pc[t] = "app" /\ sc'[t] = "enter" /\ pc' = pc /\ arg' = arg
      /\ \A v \in Threads \ {t} : sc'[v] = sc[v] /\ tmr'[v] = tmr[v]
      /\ UNCHANGED <<current, runq, num, on_rq, wake, queue, sig, ec, killq, freed, irqExec, cpuState, isr>>
  BY DEF CoopInv, TypeOK, Sleep, TimerCreate, Calls, Running, CallSchedule, rqVars, evVars,
     deadVars, irqVars, callVars
<1>2. /\ Has(t, "RUNNING") /\ ~Has(t, "EXIT") /\ ~Has(t, "WAITING") /\ t # Idle
      /\ t \notin ToSet(wake) /\ ~Armed(t) /\ t \notin ToSet(runq)
  BY <1>1, Awake DEF CoopInv, ControlInv, Stopping, Dying, Waits
<1>3. /\ \A v \in Threads \ {t} : flags'[v] = flags[v]
      /\ flags'[t] = (flags[t] \cup {"SLEEPING", "NEED_RESCHED"}) \ {"RUNNING"}
  BY DEF CoopInv, TypeOK, Sleep
<1>4. /\ \A v \in Threads \ {t} : \A f \in Flags : Has(v, f)' <=> Has(v, f)
      /\ ~Has(t, "RUNNING")' /\ Has(t, "SLEEPING")' /\ Has(t, "NEED_RESCHED")'
      /\ \A f \in {"EXIT", "WAITING", "SYSTEM_STACK", "REMOTE_KILL"} : Has(t, f)' <=> Has(t, f)
  BY <1>3 DEF Has
<1>5. PICK r \in Timer : r.tp = t /\ r.fn = "sleep" /\ r.left > 0 /\ timers' = TimerInsert(timers, r)
  <2>1. ms \in Nat /\ ms # 0 /\ ms > 0
    BY TimeAssumption DEF Cooperative
  <2>2. [tp |-> t, left |-> ms, fn |-> "sleep", q |-> t] \in Timer
    BY <2>1 DEF Timer, QueueIds
  <2>3. QED
    BY <2>1, <2>2 DEF Sleep, TimerCreate
<1>6. ToSet(timers)' = ToSet(timers) \cup {r} /\ Sole(timers)'
  <2>1. timers \in Seq(Timer) /\ Sole(timers) /\ \A s \in ToSet(timers) : s.tp # r.tp
    BY <1>2, <1>5 DEF CoopInv, TypeOK, TimerInv, Armed
  <2>2. ToSet(TimerInsert(timers, r)) = ToSet(timers) \cup {r} /\ Sole(TimerInsert(timers, r))
    BY <2>1, NewTimer
  <2>3. QED
    BY <1>5, <2>2 DEF Sole
<1>7. \A v \in Threads : Armed(v)' <=> v = t \/ Armed(v)
  BY <1>5, <1>6 DEF Armed
<1>8. \A v \in Threads : ~Marked(v) /\ ~Added(v) /\ ~Marked(v)' /\ ~Added(v)'
  BY <1>1 DEF Marked, Added
<1>9. ControlInv'
  BY <1>1, <1>2 DEF CoopInv, ControlInv, Outside
<1>10. FlagsInv'
  <2>1. Has(Idle, "RUNNING")' /\ ~Has(Idle, "REMOTE_KILL")'
    BY <1>2, <1>4, ThreadsAssumption DEF CoopInv, FlagsInv, Flags
  <2>2. QED
    BY <1>1, <1>2, <1>3, <1>4, <1>8, <2>1 DEF CoopInv, FlagsInv, Stopping, Dying, Waits, Flags
<1>11. RunInv'
  BY <1>1, <1>2, <1>4, <1>8 DEF CoopInv, RunInv, Flags
<1>12. PlaceInv'
  BY <1>1, <1>2, <1>4, <1>7 DEF CoopInv, PlaceInv, Flags
<1>13. TimerInv'
  <2>1. ToSet(wake) \subseteq Threads
    BY TimerOwners DEF CoopInv
  <2>2. \A s \in ToSet(timers)' : s = r \/ s \in ToSet(timers)
    BY <1>6
  <2>3. QED
    BY <1>1, <1>2, <1>5, <1>6, <1>7, <2>1, <2>2 DEF CoopInv, TimerInv
<1>14. EventInv' /\ CallInv'
  BY <1>1 DEF CoopInv, EventInv, CallInv
<1>15. DeadInv'
  BY <1>1, <1>2, <1>4 DEF CoopInv, DeadInv, Telling, Dying, Flags
<1>16. QED
  BY <1>9, <1>10, <1>11, <1>12, <1>13, <1>14, <1>15 DEF CoopInv

\* thread_create puts a thread on the run queue that was nowhere.
LEMMA ThreadCreateKeeps ==
    ASSUME Cooperative, CoopInv, TypeOK', NEW t \in Threads, NEW u \in Threads, ThreadCreate(t, u)
    PROVE  CoopInv'
<1>1. /\ t = current /\ sc[t] = "none" /\ pc[t] = "app" /\ pc'[t] = "created" /\ arg'[t].tp = u /\ u # t
      /\ sc[u] = "uncreated" /\ sc'[u] = "fresh" /\ sc'[t] = "none"
      /\ \A v \in Threads \ {t} : pc'[v] = pc[v] /\ arg'[v] = arg[v]
      /\ \A v \in Threads \ {u} : sc'[v] = sc[v]
      /\ UNCHANGED <<current, wake, queue, sig, ec, timers, tmr, killq, freed, irqExec, cpuState, isr>>
  <2>1. t = current /\ sc[t] = "none" /\ pc[t] = "app" /\ sc[u] = "uncreated" /\ u # t
    BY DEF ThreadCreate, Calls, Running
  <2>2. /\ pc'[t] = "created" /\ \A v \in Threads \ {t} : pc'[v] = pc[v]
    BY DEF CoopInv, TypeOK, ThreadCreate, Goto
  <2>3. arg'[t].tp = u /\ \A v \in Threads \ {t} : arg'[v] = arg[v]
    BY DEF CoopInv, TypeOK, Args, ThreadCreate
  <2>4. sc'[u] = "fresh" /\ sc'[t] = "none" /\ \A v \in Threads \ {u} : sc'[v] = sc[v]
    BY <2>1 DEF CoopInv, TypeOK, Cooperative, ThreadCreate
  <2>5. UNCHANGED <<current, wake, queue, sig, ec, timers, tmr, killq, freed, irqExec, cpuState, isr>>
    BY DEF ThreadCreate, evVars, tmrVars, deadVars, irqVars
  <2>6. QED
    BY <2>1, <2>2, <2>3, <2>4, <2>5
<1>2. /\ Has(t, "RUNNING") /\ ~Has(t, "EXIT") /\ ~Has(t, "WAITING") /\ t # Idle
      /\ t \notin ToSet(wake) /\ ~Armed(t) /\ t \notin ToSet(runq)
  BY <1>1, Awake DEF CoopInv, ControlInv, Stopping, Dying, Waits
<1>3. flags[u] = {} /\ u \notin ToSet(runq) /\ u \notin ToSet(wake) /\ ~Armed(u) /\ u # Idle /\ pc[u] = "app"
  <2>1. flags[u] = {} /\ pc[u] = "app" /\ u # Idle
    BY <1>1 DEF CoopInv, FlagsInv, ControlInv
  <2>2. QED
    BY <1>1, <2>1 DEF CoopInv, RunInv, PlaceInv, Has
<1>4. flags'[u] = {"RUNNING"} /\ \A v \in Threads \ {u} : flags'[v] = flags[v]
  BY DEF CoopInv, TypeOK, ThreadCreate
<1>5. /\ \A v \in Threads \ {u} : \A f \in Flags : Has(v, f)' <=> Has(v, f)
      /\ Has(u, "RUNNING")' /\ \A f \in Flags \ {"RUNNING"} : ~Has(u, f)' /\ ~Has(u, f)
  BY <1>3, <1>4 DEF Has
<1>6. \A v \in Threads : ~Marked(v) /\ ~Added(v) /\ ~Marked(v)' /\ ~Added(v)'
  BY <1>1 DEF Marked, Added
<1>7. runq \in Seq(Threads) /\ num = Len(runq) /\ Once(runq) /\ on_rq \in [Threads -> BOOLEAN]
  BY DEF CoopInv, TypeOK, RunInv
<1>8. runq' = RqInsert(runq, u) /\ num' = num + 1 /\ on_rq' = [on_rq EXCEPT ![u] = TRUE]
  <2>1. ~Has(u, "RUNNING")
    BY <1>3 DEF Has
  <2>2. num \in Int /\ Len(runq) \in Nat /\ Len(runq) - Len(runq) = 0
    BY <1>7
  <2>3. runq' = RqInsert(runq, u) /\ num' = num + 1 - (Len(runq) - Len(runq)) /\ on_rq' = [on_rq EXCEPT ![u] = TRUE]
    BY <2>1 DEF ThreadCreate, RqAddThread
  <2>4. QED
    BY <2>2, <2>3
<1>9. RunInv'
  <2>1. Joined(runq, u, runq') /\ Len(runq') = Len(runq) + 1
    BY <1>7, <1>8, RqInsertJoins
  <2>2. ToSet(runq)' = ToSet(runq) \cup {u} /\ Once(runq)' /\ num' = Len(runq)'
    BY <1>3, <1>7, <1>8, <2>1 DEF Joined
  <2>3. on_rq'[u] /\ \A v \in Threads \ {u} : on_rq'[v] = on_rq[v]
    BY <1>7, <1>8
  <2>4. QED
    BY <1>1, <1>3, <1>5, <1>6, <2>2, <2>3 DEF CoopInv, RunInv, Flags
<1>10. ControlInv'
  BY <1>1, <1>2, <1>3 DEF CoopInv, ControlInv, Outside
<1>11. FlagsInv'
  <2>1. Has(Idle, "RUNNING")' /\ ~Has(Idle, "REMOTE_KILL")'
    BY <1>3, <1>5, ThreadsAssumption DEF CoopInv, FlagsInv, Flags
  <2>2. QED
    BY <1>1, <1>2, <1>3, <1>4, <1>5, <1>6, <2>1 DEF CoopInv, FlagsInv, Stopping, Dying,
       Waits, Flags
<1>12. PlaceInv'
  BY <1>1, <1>2, <1>3, <1>5 DEF CoopInv, PlaceInv, Armed, Flags
<1>13. EventInv'
  BY <1>1, <1>2 DEF CoopInv, EventInv
<1>14. TimerInv'
  <2>1. \A r \in ToSet(timers) : r.tp \in Threads /\ r.tp # t
    BY <1>2, TimerOwners DEF CoopInv, Armed
  <2>2. ToSet(wake) \subseteq Threads
    BY TimerOwners DEF CoopInv
  <2>3. QED
    BY <1>1, <1>2, <2>1, <2>2 DEF CoopInv, TimerInv, Armed, Sole
<1>15. CallInv'
  BY <1>1 DEF CallInv
<1>16. DeadInv'
  <2>1. u \notin ToSet(killq) \cup freed
    BY <1>3 DEF CoopInv, DeadInv, Has
  <2>2. ~Telling(t) /\ ~Telling(u) /\ ~Telling(t)' /\ ~Telling(u)'
    BY <1>1 DEF Telling, Dying
  <2>3. QED
    BY <1>1, <1>5, <2>1, <2>2 DEF CoopInv, DeadInv, Telling, Flags
<1>17. QED
  BY <1>9, <1>10, <1>11, <1>12, <1>13, <1>14, <1>15, <1>16 DEF CoopInv

\* The scheduler finds somebody to run: a thread of the run queue, or itself,
\* which then is the idle thread.
LEMMA NextRuns ==
    ASSUME CoopInv, sc[current] = "signal"
    PROVE  /\ NextRunnable \in Threads /\ Has(NextRunnable, "RUNNING")
           /\ NextRunnable \in ToSet(runq) \/ (NextRunnable = current /\ current = Idle)
<1>1. runq \in Seq(Threads) /\ current \in Threads /\ Len(runq) \in Nat
  BY DEF CoopInv, TypeOK
<1>2. \A u \in Threads : ~Marked(u)
  BY <1>1 DEF CoopInv, ControlInv, Outside, Marked
<1>3. \A u \in ToSet(runq) : u \in Threads /\ Has(u, "RUNNING")
  <2>1. ToSet(runq) \subseteq Threads
    BY <1>1, ElementPlace
  <2>2. QED
    BY <2>1 DEF CoopInv, RunInv
<1>4. CASE Runnable = {}
  <2>1. ToSet(runq) = {}
    <3>1. ASSUME NEW u \in ToSet(runq) PROVE FALSE
      <4>1. PICK i \in 1..Len(runq) : runq[i] = u
        BY <1>1, ElementPlace
      <4>2. i \in Runnable
        BY <1>3, <4>1 DEF Runnable
      <4>3. QED
        BY <1>4, <4>2
    <3>2. QED
      BY <3>1
  <2>2. current = Idle
    BY <1>2, <2>1, ThreadsAssumption DEF CoopInv, RunInv, FlagsInv
  <2>3. NextRunnable = current
    BY <1>4 DEF NextRunnable
  <2>4. QED
    BY <1>1, <2>2, <2>3 DEF CoopInv, FlagsInv
<1>5. CASE Runnable # {}
  <2>1. Runnable \subseteq Nat
    BY <1>1 DEF Runnable
  <2>2. First(Runnable) \in Runnable
    BY <1>5, <2>1, FirstExists
  <2>3. First(Runnable) \in 1..Len(runq)
    BY <2>2 DEF Runnable
  <2>4. runq[First(Runnable)] \in ToSet(runq)
    BY <1>1, <2>3, ElementPlace
  <2>5. NextRunnable = runq[First(Runnable)]
    BY <1>5 DEF NextRunnable
  <2>6. NextRunnable \in ToSet(runq)
    BY <2>4, <2>5
  <2>7. NextRunnable \in Threads /\ Has(NextRunnable, "RUNNING")
    BY <1>3, <2>6, Zenon
  <2>8. QED
    BY <2>6, <2>7, Zenon
<1>6. QED
  BY <1>4, <1>5

\* The switch puts the old thread back if it is RUNNING, and takes the next one
\* off the run queue.
LEMMA SwitchContextKeeps ==
    ASSUME Cooperative, CoopInv, TypeOK', NEW t \in Threads, SwitchContext(t)
    PROVE  CoopInv'
<1>1. /\ TypeOK /\ t = current /\ sc[t] = "signal"
      /\ UNCHANGED <<wake, queue, sig, ec, timers, tmr, killq, freed, isr, pc, arg>>
  BY DEF CoopInv, SwitchContext, evVars, tmrVars, deadVars, callVars
<1>2. PICK n \in Threads : n = NextRunnable /\ Has(n, "RUNNING") /\ (n \in ToSet(runq) \/ (n = t /\ t = Idle))
  BY <1>1, NextRuns
<1>3. \A v \in Threads : pc[v] \in Outside /\ ~Marked(v) /\ ~Added(v)
  BY <1>1 DEF CoopInv, ControlInv, Outside, Marked, Added
<1>4. current' = n
  BY <1>2 DEF SwitchContext
<1>5. \A v \in Threads : ~Marked(v)' /\ ~Added(v)'
  BY <1>1, <1>3, <1>4 DEF Outside, Marked, Added
<1>6. flags' = [flags EXCEPT ![t] = flags[t] \ {"NEED_RESCHED"}]
  <2>1. flags' = [flags EXCEPT ![t] = Decided(PreemptCheck(t))]
    BY DEF SwitchContext
  <2>2. QED
    BY <1>1, <2>1, Decides
<1>7. \A v \in Threads : /\ \A f \in Flags \ {"NEED_RESCHED"} : Has(v, f)' <=> Has(v, f)
                         /\ sc[v] = "uncreated" => flags'[v] = flags[v]
  <2>1. flags'[t] = flags[t] \ {"NEED_RESCHED"} /\ \A v \in Threads \ {t} : flags'[v] = flags[v]
    BY <1>1, <1>6 DEF TypeOK
  <2>2. QED
    BY <1>1, <2>1 DEF Has
<1>8. sc[n] # "uncreated" /\ sc[n] \in {"fresh", "tail", "signal"} /\ (n # t => sc[n] # "signal") /\ (n = t => sc[n] = "signal")
  <2>1. sc[n] # "uncreated"
    BY <1>2 DEF CoopInv, FlagsInv, Has
  <2>2. QED
    BY <1>1, <2>1 DEF CoopInv, ControlInv
<1>9. /\ sc'[n] \in {"none", "tail"} /\ (n # t => sc'[t] = "tail")
      /\ n # t => (sc'[n] = "none" <=> sc[n] = "fresh")
      /\ n = t => sc'[n] = "tail"
      /\ \A v \in Threads \ {t, n} : sc'[v] = sc[v]
  <2>1. sc' = [[sc EXCEPT ![t] = "tail"] EXCEPT ![n] = IF @ = "fresh" THEN "none" ELSE @]
    BY <1>2 DEF SwitchContext
  <2>2. sc \in [Threads -> Phases]
    BY <1>1 DEF TypeOK
  <2>3. QED
    BY <1>8, <2>1, <2>2
<1>10. ~irqExec' /\ \A v \in Threads : ~cpuState'[v] /\ isr'[v] = "no"
  <2>1. ~irqExec /\ (\A v \in Threads : ~cpuState[v] /\ isr[v] = "no") /\ cpuState \in [Threads -> BOOLEAN]
    BY <1>1 DEF CoopInv, ControlInv, TypeOK
  <2>2. cpuState' = [cpuState EXCEPT ![t] = irqExec]
    BY DEF SwitchContext
  <2>3. ~irqExec'
    BY <1>2, <2>1 DEF SwitchContext
  <2>4. QED
    BY <1>1, <2>1, <2>2, <2>3
<1>11. ControlInv'
  BY <1>1, <1>3, <1>4, <1>9, <1>10 DEF CoopInv, ControlInv
<1>12. FlagsInv'
  <2>1. Has(n, "RUNNING")' /\ Has(Idle, "RUNNING")' /\ ~Has(Idle, "REMOTE_KILL")'
    BY <1>2, <1>7, ThreadsAssumption DEF CoopInv, FlagsInv, Flags
  <2>2. \A v \in Threads : sc'[v] \in {"uncreated", "fresh"} => sc'[v] = sc[v]
    BY <1>9
  <2>3. \A v \in Threads : pc[v] \notin Stopping \cup {"kill_stop", "wait_stop"}
    BY <1>3 DEF Outside, Stopping
  <2>4. QED
    BY <1>1, <1>3, <1>4, <1>5, <1>7, <1>9, <2>1, <2>2, <2>3 DEF CoopInv, FlagsInv, Flags
<1>13. runq \in Seq(Threads) /\ num = Len(runq) /\ Once(runq) /\ on_rq \in [Threads -> BOOLEAN] /\ t \notin ToSet(runq)
  BY <1>1 DEF CoopInv, TypeOK, RunInv
<1>14. PICK full \in Seq(Threads) : /\ runq' = RqRemove(full, n) /\ Once(full)
                                    /\ ToSet(full) = ToSet(runq) \cup IF Has(t, "RUNNING") THEN {t} ELSE {}
  <2>1. CASE Has(t, "RUNNING")
    <3>1. runq' = RqRemove(RqInsert(runq, t), n)
      BY <1>2, <2>1 DEF SwitchContext
    <3>2. Joined(runq, t, RqInsert(runq, t)) /\ RqInsert(runq, t) \in Seq(Threads)
      BY <1>13, RqInsertJoins, RqInsertType
    <3>3. Once(RqInsert(runq, t)) /\ ToSet(RqInsert(runq, t)) = ToSet(runq) \cup {t}
      BY <1>13, <3>2 DEF Joined
    <3>4. QED
      BY <2>1, <3>1, <3>2, <3>3
  <2>2. CASE ~Has(t, "RUNNING")
    <3>1. runq' = RqRemove(runq, n)
      BY <1>2, <2>2 DEF SwitchContext
    <3>2. QED
      BY <1>13, <2>2, <3>1
  <2>3. QED
    BY <2>1, <2>2
<1>15. Once(runq)' /\ ToSet(runq)' = ToSet(full) \ {n} /\ num' = Len(runq)'
  <2>1. Left(full, n, RemoveFirst(full, n)) /\ RemoveFirst(full, n) \in Seq(Threads)
    BY <1>14, RemoveFirstProperties
  <2>2. num' = num + Len(runq') - Len(runq) /\ runq' = RemoveFirst(full, n)
    BY <1>2, <1>14 DEF SwitchContext, RqRemove
  <2>3. Len(RemoveFirst(full, n)) \in Int /\ Len(runq) \in Int
    BY <1>13, <2>1, LenProperties
  <2>4. num' = Len(runq')
    BY <1>13, <2>2, <2>3
  <2>5. QED
    BY <2>1, <2>2, <2>4 DEF Left, Once
<1>16. RunInv'
  <2>1. \A v \in Threads : on_rq'[v] <=> IF v = t THEN Has(t, "RUNNING") ELSE on_rq[v]
    BY <1>13 DEF SwitchContext
  <2>2. \A v \in Threads : Has(v, "RUNNING")' <=> Has(v, "RUNNING")
    BY <1>7 DEF Flags
  <2>3. \A v \in Threads : /\ v \in ToSet(runq)' <=> v # n /\ (v \in ToSet(runq) \/ (v = t /\ Has(t, "RUNNING")))
                           /\ v \in ToSet(runq) <=> v # t /\ Has(v, "RUNNING")
                           /\ Has(v, "RUNNING") /\ v # t => on_rq[v]
    BY <1>1, <1>3, <1>14, <1>15 DEF CoopInv, RunInv
  <2>4. \A v \in Threads : /\ v \in ToSet(runq)' <=> v # n /\ Has(v, "RUNNING")
                           /\ Has(v, "RUNNING") => on_rq'[v]
    BY <1>2, <2>1, <2>3
  <2>5. QED
    BY <1>4, <1>5, <1>15, <2>2, <2>4 DEF RunInv
<1>17. PlaceInv'
  <2>1. \A v \in Threads : sc'[v] = "uncreated" <=> sc[v] = "uncreated"
    BY <1>1, <1>8, <1>9
  <2>2. \A v \in Threads : Armed(v)' <=> Armed(v)
    BY <1>1 DEF Armed
  <2>3. QED
    BY <1>1, <1>7, <2>1, <2>2 DEF CoopInv, PlaceInv, Flags
<1>18. EventInv'
  BY <1>1 DEF CoopInv, EventInv
<1>19. TimerInv'
  <2>1. ~Armed(n)
    BY <1>2 DEF CoopInv, PlaceInv
  <2>2. \A r \in ToSet(timers) : r.tp # n
    BY <2>1 DEF Armed
  <2>3. QED
    BY <1>1, <1>4, <2>2 DEF CoopInv, TimerInv, Armed, Sole
<1>20. CallInv'
  BY <1>1, <1>3, <1>4 DEF CallInv, Outside
<1>21. DeadInv'
  <2>1. \A v \in Threads : ~Telling(v) /\ ~Telling(v)'
    BY <1>1, <1>3, <1>4, <1>9 DEF Telling, Outside, Dying
  <2>2. n \notin freed
    BY <1>2 DEF CoopInv, DeadInv
  <2>3. \A v \in Threads : sc'[v] = "uncreated" <=> sc[v] = "uncreated"
    BY <1>1, <1>8, <1>9
  <2>4. pc[t] # "created" /\ pc[n] # "created"
    BY <1>3 DEF Outside
  <2>5. \A v \in Threads : /\ Has(v, "EXIT")' <=> Has(v, "EXIT")
                           /\ Has(v, "RUNNING")' <=> Has(v, "RUNNING")
                           /\ Has(v, "SYSTEM_STACK")' <=> Has(v, "SYSTEM_STACK")
    BY <1>7 DEF Flags
  <2>6. QED
    BY <1>1, <1>4, <2>1, <2>2, <2>3, <2>4, <2>5 DEF CoopInv, DeadInv
<1>22. QED
  BY <1>11, <1>12, <1>16, <1>17, <1>18, <1>19, <1>20, <1>21 DEF CoopInv

\* raw_event_wait enqueues a thread that was nowhere else; a signal that came in
\* the meantime becomes its event.
LEMMA EvEnqueueKeeps ==
    ASSUME Cooperative, CoopInv, TypeOK', NEW t \in Threads, EvEnqueue(t)
    PROVE  CoopInv' /\ Kept(ec)
<1>1. PICK q \in QueueIds : q = arg[t].q
  BY DEF CoopInv, TypeOK, Args
<1>2. /\ t = current /\ sc[t] = "none" /\ pc[t] = "ev_enqueue" /\ sc'[t] = "enter" /\ pc'[t] = "ev_return"
      /\ \A v \in Threads \ {t} : sc'[v] = sc[v] /\ pc'[v] = pc[v]
      /\ UNCHANGED <<current, runq, num, on_rq, killq, freed, irqExec, cpuState, isr, arg>>
  BY DEF CoopInv, TypeOK, EvEnqueue, Running, Goto, CallSchedule, rqVars, deadVars, irqVars
<1>3. /\ Has(t, "RUNNING") /\ ~Has(t, "EXIT") /\ ~Has(t, "WAITING") /\ t # Idle
      /\ t \notin ToSet(wake) /\ ~Armed(t) /\ t \notin ToSet(runq)
  BY <1>2, Awake DEF CoopInv, ControlInv, Stopping, Dying, Waits
<1>4. \A v \in Threads : ~Marked(v) /\ ~Added(v) /\ ~Marked(v)' /\ ~Added(v)'
  BY <1>2 DEF Marked, Added
<1>5. on_rq[t]
  BY <1>3, <1>4 DEF CoopInv, RunInv
<1>6. /\ \A v \in Threads \ {t} : flags'[v] = flags[v]
      /\ flags'[t] = (flags[t] \cup {"NEED_RESCHED"}) \ {"RUNNING"}
  <2>1. flags \in [Threads -> SUBSET Flags] /\ "RUNNING" \in flags[t]
    BY <1>3 DEF CoopInv, TypeOK, Has
  <2>2. flags' = [flags EXCEPT ![t] = IF on_rq[t] /\ "RUNNING" \in @
                                     THEN (@ \cup {"NEED_RESCHED"}) \ {"RUNNING"} ELSE @]
    BY DEF EvEnqueue
  <2>3. QED
    BY <1>5, <2>1, <2>2
<1>7. /\ \A v \in Threads \ {t} : \A f \in Flags : Has(v, f)' <=> Has(v, f)
      /\ ~Has(t, "RUNNING")' /\ Has(t, "NEED_RESCHED")'
      /\ \A f \in {"EXIT", "WAITING", "SYSTEM_STACK", "REMOTE_KILL", "SLEEPING"} : Has(t, f)' <=> Has(t, f)
  BY <1>6 DEF Has
<1>8. ToSet(wake)' = ToSet(wake) \cup {t} /\ Once(wake)'
  <2>1. wake \in Seq(Threads) /\ Once(wake) /\ wake' = <<t>> \o wake
    BY DEF CoopInv, TypeOK, EventInv, EvEnqueue
  <2>2. <<t>> \in Seq(Threads) /\ ToSet(<<t>>) = {t} /\ Once(<<t>>)
    <3>1. <<t>> \in Seq(Threads) /\ Len(<<t>>) = 1 /\ <<t>>[1] = t
      OBVIOUS
    <3>2. \A i \in 1..1 : i = 1
      OBVIOUS
    <3>3. ToSet(<<t>>) = {t}
      BY <3>1, <3>2 DEF ToSet
    <3>4. QED
      BY <3>1, <3>2, <3>3 DEF Once
  <2>3. ToSet(<<t>> \o wake) = ToSet(wake) \cup {t} /\ Once(<<t>> \o wake)
    <3>1. PICK s \in Seq(Threads) : s = <<t>> /\ ToSet(s) = {t} /\ Once(s)
      BY <2>2
    <3>2. /\ ToSet(s \o wake) = ToSet(s) \cup ToSet(wake)
          /\ Once(s) /\ Once(wake) /\ ToSet(s) \cap ToSet(wake) = {} => Once(s \o wake)
      BY <2>1, ConcatOnce
    <3>3. ToSet(s) \cap ToSet(wake) = {}
      BY <1>3, <3>1
    <3>4. QED
      BY <2>1, <3>1, <3>2, <3>3
  <2>4. QED
    BY <2>1, <2>3 DEF Once
<1>9. /\ queue'[q] = Append(queue[q], t) /\ \A p \in QueueIds \ {q} : queue'[p] = queue[p]
      /\ sig' = sig \ {q}
      /\ ec'[t] = (IF q \in sig THEN 1 ELSE 0) /\ \A v \in Threads \ {t} : ec'[v] = ec[v]
      /\ queue[q] \in Seq(Threads) /\ Once(queue[q]) /\ t \notin ToSet(queue[q])
  <2>1. queue \in [QueueIds -> Seq(Threads)] /\ ec \in [Threads -> Nat]
    BY DEF CoopInv, TypeOK
  <2>2. t \notin ToSet(queue[q]) /\ Once(queue[q])
    BY <1>3 DEF CoopInv, EventInv
  <2>3. QED
    BY <1>1, <2>1, <2>2 DEF EvEnqueue
<1>10. /\ ToSet(queue'[q]) = ToSet(queue[q]) \cup {t} /\ Once(queue'[q]) /\ queue'[q] # <<>>
       /\ queue'[q][1] = IF queue[q] = <<>> THEN t ELSE queue[q][1]
  <2>1. /\ Append(queue[q], t) \in Seq(Threads) /\ Len(queue[q]) + 1 \in 1..(Len(queue[q]) + 1)
        /\ Inserted(queue[q], Len(queue[q]) + 1, t, Append(queue[q], t))
    BY <1>9, AppendInserts
  <2>2. Joined(queue[q], t, Append(queue[q], t))
    BY <1>9, <2>1, InsertedJoins
  <2>3. Append(queue[q], t) # <<>> /\ Append(queue[q], t)[1] = IF queue[q] = <<>> THEN t ELSE queue[q][1]
    <3>1. /\ Len(Append(queue[q], t)) = Len(queue[q]) + 1 /\ Len(queue[q]) \in Nat
          /\ Append(queue[q], t)[Len(queue[q]) + 1] = t
          /\ \A k \in 1..Len(queue[q]) : Append(queue[q], t)[k] = queue[q][k]
      BY <1>9, AppendProperties, LenProperties
    <3>2. queue[q] = <<>> <=> Len(queue[q]) = 0
      BY <1>9, EmptySeq
    <3>3. queue[q] # <<>> => 1 \in 1..Len(queue[q])
      BY <3>1, <3>2
    <3>4. Append(queue[q], t) # <<>>
      BY <2>1, <3>1, EmptySeq
    <3>5. QED
      BY <3>1, <3>2, <3>3, <3>4
  <2>4. QED
    BY <1>9, <2>2, <2>3 DEF Joined
<1>11. EventInv'
  <2>1. ASSUME NEW p \in QueueIds
        PROVE  /\ Once(queue'[p]) /\ (p \in sig' => queue'[p] = <<>>)
               /\ \A v \in Threads : v \in ToSet(queue'[p]) <=> v \in ToSet(wake)' /\ arg[v].q = p
    <3>1. /\ Once(queue[p]) /\ (p \in sig => queue[p] = <<>>)
          /\ \A v \in Threads : v \in ToSet(queue[p]) <=> v \in ToSet(wake) /\ arg[v].q = p
      BY DEF CoopInv, EventInv
    <3>2. CASE p = q
      <4>1. q \notin sig'
        BY <1>9
      <4>2. QED
        BY <1>1, <1>8, <1>10, <3>1, <3>2, <4>1
    <3>3. CASE p # q
      <4>1. queue'[p] = queue[p] /\ (p \in sig' => p \in sig) /\ arg[t].q # p
        BY <1>1, <1>9, <3>3
      <4>2. QED
        BY <1>8, <3>1, <4>1
    <3>4. QED
      BY <3>2, <3>3
  <2>2. ASSUME NEW v \in Threads, ec'[v] > 0 PROVE v \in ToSet(wake)' /\ queue'[arg[v].q][1] = v
    <3>1. CASE v = t
      <4>1. q \in sig
        BY <1>9, <2>2, <3>1
      <4>2. queue[q] = <<>>
        BY <4>1 DEF CoopInv, EventInv
      <4>3. QED
        BY <1>1, <1>8, <1>10, <3>1, <4>2
    <3>2. CASE v # t
      <4>1. v \in ToSet(wake) /\ queue[arg[v].q][1] = v /\ arg[v].q \in QueueIds
        BY <1>9, <2>2, <3>2 DEF CoopInv, EventInv, TypeOK, Args
      <4>2. arg[v].q = q => queue[q] # <<>>
        <5>1. arg[v].q = q => v \in ToSet(queue[q])
          BY <4>1 DEF CoopInv, EventInv
        <5>2. queue[q] = <<>> => ToSet(queue[q]) = {}
          BY DEF ToSet
        <5>3. QED
          BY <5>1, <5>2
      <4>3. QED
        BY <1>8, <1>9, <1>10, <4>1, <4>2
    <3>3. QED
      BY <3>1, <3>2
  <2>3. QED
    BY <1>2, <1>8, <2>1, <2>2 DEF EventInv, Once
<1>12. Kept(ec)
  <2>1. ASSUME NEW p \in QueueIds, queue[p] # <<>> PROVE ec'[queue'[p][1]] >= ec[queue[p][1]]
    <3>1. queue'[p][1] = queue[p][1]
      BY <1>9, <1>10, <2>1
    <3>2. queue[p] \in Seq(Threads) /\ 1 \in 1..Len(queue[p])
      BY <2>1, EmptySeq DEF CoopInv, TypeOK
    <3>3. queue[p][1] \in ToSet(queue[p]) /\ queue[p][1] \in Threads
      BY <3>2, ElementPlace
    <3>4. queue[p][1] # t
      BY <1>3, <3>3 DEF CoopInv, EventInv
    <3>5. ec'[queue[p][1]] = ec[queue[p][1]] /\ ec[queue[p][1]] \in Nat
      BY <1>9, <3>3, <3>4 DEF CoopInv, TypeOK
    <3>6. QED
      BY <3>1, <3>5
  <2>2. QED
    BY <2>1 DEF Kept
<1>13. /\ Sole(timers)' /\ (tmr'[t] = "SET" <=> Armed(t)') /\ tmr'[t] # "SIGNALED"
       /\ \A v \in Threads \ {t} : tmr'[v] = tmr[v] /\ (Armed(v)' <=> Armed(v))
       /\ \A s \in ToSet(timers)' : s \in ToSet(timers) \/ (s.tp = t /\ s.fn = "event" /\ s.q = q /\ s.left > 0)
  <2>1. arg[t].ms \in Nat /\ tmr \in [Threads -> {"NULL", "SIGNALED", "SET"}] /\ timers \in Seq(Timer) /\ Sole(timers)
    BY DEF CoopInv, TypeOK, Args, TimerInv
  <2>2. CASE arg[t].ms = 0
    <3>1. timers' = timers /\ tmr' = [tmr EXCEPT ![t] = "NULL"]
      BY <2>2 DEF EvEnqueue
    <3>2. QED
      BY <1>3, <2>1, <3>1 DEF Armed, Sole
  <2>3. CASE arg[t].ms # 0
    <3>1. PICK r \in Timer : r.tp = t /\ r.fn = "event" /\ r.q = q /\ r.left > 0 /\ timers' = TimerInsert(timers, r)
      <4>1. [tp |-> t, left |-> arg[t].ms, fn |-> "event", q |-> q] \in Timer
        BY <2>1 DEF Timer
      <4>2. arg[t].ms > 0
        BY <2>1, <2>3
      <4>3. QED
        BY <1>1, <2>3, <4>1, <4>2 DEF EvEnqueue, TimerCreate
    <3>2. tmr' = [tmr EXCEPT ![t] = "SET"]
      BY <2>3 DEF EvEnqueue, TimerCreate
    <3>3. ToSet(TimerInsert(timers, r)) = ToSet(timers) \cup {r} /\ Sole(TimerInsert(timers, r))
      BY <1>3, <2>1, <3>1, NewTimer DEF Armed
    <3>4. ToSet(timers)' = ToSet(timers) \cup {r} /\ Sole(timers)'
      BY <3>1, <3>3 DEF Sole
    <3>5. QED
      BY <2>1, <3>1, <3>2, <3>4 DEF Armed
  <2>4. QED
    BY <2>2, <2>3
<1>14. TimerInv'
  <2>1. ToSet(wake) \subseteq Threads /\ \A s \in ToSet(timers) : s.tp \in Threads /\ s.tp # t
    BY <1>3, TimerOwners DEF CoopInv, Armed
  <2>2. ASSUME NEW s \in ToSet(timers)'
        PROVE  /\ s.fn = "event" <=> s.tp \in ToSet(wake)'
               /\ s.fn = "event" => s.q = arg[s.tp].q
               /\ s.tp = t => s.left > 0
    <3>1. CASE s \in ToSet(timers)
      <4>1. s.tp # t /\ (s.fn = "event" <=> s.tp \in ToSet(wake)) /\ (s.fn = "event" => s.q = arg[s.tp].q)
        BY <2>1, <3>1 DEF CoopInv, TimerInv
      <4>2. QED
        BY <1>8, <4>1
    <3>2. QED
      BY <1>1, <1>8, <1>13, <3>1
  <2>3. ASSUME NEW v \in ToSet(wake)' PROVE (tmr'[v] = "SET" <=> Armed(v)') /\ tmr'[v] # "SIGNALED"
    <3>1. CASE v = t
      BY <1>13, <3>1
    <3>2. CASE v # t
      <4>1. v \in ToSet(wake) /\ v \in Threads
        BY <1>8, <2>1, <3>2
      <4>2. (tmr[v] = "SET" <=> Armed(v)) /\ tmr[v] # "SIGNALED"
        BY <4>1 DEF CoopInv, TimerInv
      <4>3. QED
        BY <1>13, <3>2, <4>1, <4>2
    <3>3. QED
      BY <3>1, <3>2
  <2>4. QED
    BY <1>2, <1>13, <2>2, <2>3 DEF TimerInv
<1>15. ControlInv'
  BY <1>2, <1>3 DEF CoopInv, ControlInv, Outside
<1>16. FlagsInv'
  <2>1. Has(Idle, "RUNNING")' /\ ~Has(Idle, "REMOTE_KILL")'
    BY <1>3, <1>7, ThreadsAssumption DEF CoopInv, FlagsInv, Flags
  <2>2. QED
    BY <1>2, <1>3, <1>4, <1>6, <1>7, <2>1 DEF CoopInv, FlagsInv, Stopping, Dying, Waits, Flags
<1>17. RunInv'
  BY <1>2, <1>3, <1>4, <1>7 DEF CoopInv, RunInv, Flags
<1>18. PlaceInv'
  BY <1>2, <1>3, <1>7, <1>8, <1>13 DEF CoopInv, PlaceInv, Flags
<1>19. CallInv'
  BY <1>2 DEF CallInv
<1>20. DeadInv'
  <2>1. q \in Threads => ~Has(q, "EXIT")
    BY <1>1, <1>2 DEF CoopInv, CallInv
  <2>2. \A v \in Threads : (Has(v, "EXIT")' <=> Has(v, "EXIT")) /\ (Has(v, "SYSTEM_STACK")' <=> Has(v, "SYSTEM_STACK"))
    BY <1>7 DEF Flags
  <2>3. \A v \in Threads : Has(v, "EXIT") => queue'[v] = queue[v]
    BY <1>9, <2>1 DEF QueueIds
  <2>4. \A v \in Threads : (Telling(v)' <=> Telling(v)) /\ (Has(v, "RUNNING")' => Has(v, "RUNNING"))
    BY <1>2, <1>7 DEF Telling, Dying, Flags
  <2>5. QED
    BY <1>2, <1>3, <2>2, <2>3, <2>4 DEF CoopInv, DeadInv
<1>21. QED
  BY <1>11, <1>12, <1>14, <1>15, <1>16, <1>17, <1>18, <1>19, <1>20 DEF CoopInv

----------------------------------------------------------------------------
(* The invariant holds *)

\* The invariant holds at boot.
LEMMA CoopInit == Init => CoopInv
<1>. SUFFICES ASSUME Init PROVE CoopInv
  OBVIOUS
<1>0. TypeOK
  BY InitType
<1>1. /\ current = Idle /\ Idle \in Threads /\ Main \in Threads /\ Idle # Main
      /\ wake = <<>> /\ killq = <<>> /\ freed = {} /\ timers = <<>> /\ runq = <<Main>> /\ num = 1
      /\ \A q \in QueueIds : queue[q] = <<>>
      /\ \A t \in Threads : /\ sc[t] = IF t = Idle THEN "none" ELSE IF t = Main THEN "fresh" ELSE "uncreated"
                            /\ pc[t] = IF t = Idle THEN "idle" ELSE "app"
                            /\ flags[t] = IF t = Idle THEN {"RUNNING", "SYSTEM_STACK"}
                                          ELSE IF t = Main THEN {"RUNNING"} ELSE {}
                            /\ on_rq[t] <=> t = Main
                            /\ ec[t] = 0 /\ ~cpuState[t] /\ isr[t] = "no"
      /\ ~irqExec
  BY ThreadsAssumption DEF Init
<1>2. \A t \in Threads : /\ Has(t, "RUNNING") <=> t \in {Idle, Main}
                         /\ Has(t, "SYSTEM_STACK") <=> t = Idle
                         /\ ~Has(t, "EXIT") /\ ~Has(t, "WAITING") /\ ~Has(t, "REMOTE_KILL")
                         /\ ~Marked(t) /\ ~Added(t)
  BY <1>1 DEF Has, Marked, Added
<1>3. ToSet(<<>>) = {} /\ Once(<<>>)
  BY DEF ToSet, Once
<1>4. ToSet(runq) = {Main} /\ Once(runq) /\ Len(runq) = 1
  <2>1. Len(<<Main>>) = 1 /\ <<Main>>[1] = Main
    OBVIOUS
  <2>2. \A i \in 1..1 : i = 1
    OBVIOUS
  <2>3. ToSet(<<Main>>) = {Main}
    BY <2>1, <2>2 DEF ToSet
  <2>4. QED
    BY <1>1, <2>1, <2>2, <2>3 DEF Once
<1>5. ControlInv
  BY <1>1 DEF ControlInv, Outside
<1>6. FlagsInv
  BY <1>1, <1>2 DEF FlagsInv, Stopping, Dying, Waits
<1>7. RunInv
  BY <1>1, <1>2, <1>4 DEF RunInv
<1>8. PlaceInv /\ TimerInv /\ EventInv
  BY <1>1, <1>2, <1>3 DEF PlaceInv, TimerInv, EventInv, Armed, Sole
<1>9. CallInv /\ DeadInv
  BY <1>1, <1>2, <1>3 DEF CallInv, DeadInv, QueueIds
<1>10. QED
  BY <1>0, <1>5, <1>6, <1>7, <1>8, <1>9 DEF CoopInv

\* The events a step leaves: all of them, or all but the one it delivers
Delivers == Kept(ec) \/ (sc[current] = "signal" /\ \E e \in [Threads -> Nat] : OneLess(e) /\ Kept(e))

\* Who leaves queues and counters alone delivers nothing.
LEMMA SameDelivers ==
    ASSUME CoopInv, UNCHANGED <<queue, ec>>
    PROVE  Delivers
BY KeptSame DEF CoopInv, Delivers

\* Every step of the scheduler keeps the invariant.
LEMMA ScheduleKeeps ==
    ASSUME Cooperative, CoopInv, NEW t \in Threads, Schedule(t)
    PROVE  CoopInv' /\ Delivers
<1>0. TypeOK'
  BY ScheduleType DEF CoopInv
<1>1. CASE SleepTimeout(t)
  BY <1>0, <1>1, SleepTimeoutKeeps, SameDelivers DEF SleepTimeout, evVars
<1>2. CASE EventTimeout(t)
  BY <1>0, <1>2, EventTimeoutKeeps, EventTimeoutRouses DEF Delivers
<1>3. CASE ClockDone(t)
  BY <1>0, <1>3, ClockDoneKeeps, SameDelivers DEF ClockDone, evVars
<1>4. CASE SignalThread(t)
  <2>1. sc[current] = "signal"
    BY <1>4 DEF SignalThread
  <2>2. QED
    BY <1>0, <1>4, <2>1, SignalThreadKeeps, SignalThreadRouses DEF Delivers
<1>5. CASE KeepCurrent(t)
  BY <1>0, <1>5, KeepCurrentKeeps, SameDelivers DEF KeepCurrent, evVars
<1>6. CASE SwitchContext(t)
  BY <1>0, <1>6, SwitchContextKeeps, SameDelivers DEF SwitchContext, evVars
<1>7. CASE ScheduleTail(t)
  BY <1>0, <1>7, ScheduleTailKeeps, SameDelivers DEF ScheduleTail, evVars
<1>8. CASE RemoteKillIf(t)
  BY <1>0, <1>8, RemoteKillIfKeeps, SameDelivers DEF RemoteKillIf, evVars
<1>9. CASE RemoteKillBroadcast(t)
  BY <1>0, <1>9, RemoteKillBroadcastKeeps DEF Delivers
<1>10. QED
  BY <1>1, <1>2, <1>3, <1>4, <1>5, <1>6, <1>7, <1>8, <1>9 DEF Schedule

\* Every further step of a call keeps the invariant.
LEMMA ContinueKeeps ==
    ASSUME Cooperative, CoopInv, NEW t \in Threads, Continue(t)
    PROVE  CoopInv' /\ Delivers
<1>0. TypeOK'
  BY ContinueType DEF CoopInv
<1>1. CASE IdleLoop(t)
  BY <1>0, <1>1, IdleLoopKeeps, SameDelivers DEF IdleLoop, evVars
<1>2. CASE ThreadCreated(t)
  BY <1>0, <1>2, ThreadCreatedKeeps, SameDelivers DEF ThreadCreated, evVars
<1>3. CASE WaitResched(t)
  BY <1>0, <1>3, WaitReschedKeeps, SameDelivers DEF WaitResched, evVars
<1>4. CASE WaitStop(t)
  BY <1>0, <1>4, WaitStopKeeps, SameDelivers DEF WaitStop, evVars
<1>5. CASE SignalAdd(t)
  BY <1>0, <1>5, SignalAddKeeps, SameDelivers DEF SignalAdd, evVars
<1>6. CASE SignalOnRq(t)
  BY <1>0, <1>6, SignalOnRqKeeps, SameDelivers DEF SignalOnRq, evVars
<1>7. CASE KillResched(t)
  BY <1>0, <1>7, KillReschedKeeps, SameDelivers DEF KillResched, evVars
<1>8. CASE KillStop(t)
  BY <1>0, <1>8, KillStopKeeps, SameDelivers DEF KillStop, evVars
<1>9. CASE KillJoin(t)
  BY <1>0, <1>9, KillJoinKeeps, SameDelivers DEF KillJoin, evVars
<1>10. CASE KillBroadcast(t)
  BY <1>0, <1>10, KillBroadcastKeeps DEF Delivers
<1>11. CASE KillQueue(t)
  BY <1>0, <1>11, KillQueueKeeps, SameDelivers DEF KillQueue, evVars
<1>12. CASE EvCheck(t)
  BY <1>0, <1>12, EvCheckKeeps, SameDelivers DEF EvCheck
<1>13. CASE EvEnqueue(t)
  BY <1>0, <1>13, EvEnqueueKeeps DEF Delivers
<1>14. CASE EvReturn(t)
  BY <1>0, <1>14, EvReturnKeeps, SameDelivers DEF EvReturn, evVars
<1>15. CASE JoinWait(t)
  BY <1>0, <1>15, JoinWaitKeeps, SameDelivers DEF JoinWait, ForgetSignal
<1>16. CASE EventNotifyAct(t)
  BY <1>0, <1>16, EventNotifyActKeeps DEF Delivers
<1>17. CASE EventBroadcastStep(t)
  BY <1>0, <1>17, EventBroadcastStepKeeps DEF Delivers
<1>18. CASE EventBroadcastYield(t)
  BY <1>0, <1>18, BroadcastYieldKeeps, SameDelivers DEF EventBroadcastYield, evVars
<1>19. QED
  BY <1>1, <1>2, <1>3, <1>4, <1>5, <1>6, <1>7, <1>8, <1>9, <1>10, <1>11, <1>12, <1>13, <1>14,
     <1>15, <1>16, <1>17, <1>18 DEF Continue

\* The first step of every call keeps the invariant.
LEMMA CallKeeps ==
    ASSUME Cooperative, CoopInv, NEW t \in Threads, Call(t)
    PROVE  CoopInv' /\ Delivers
<1>0. TypeOK'
  BY CallType DEF CoopInv
<1>1. CASE Yield(t)
  BY <1>0, <1>1, YieldKeeps, SameDelivers DEF Yield, evVars
<1>2. CASE Wait(t)
  BY <1>0, <1>2, WaitKeeps, SameDelivers DEF Wait, evVars
<1>3. CASE Kill(t)
  BY <1>0, <1>3, KillKeeps, SameDelivers DEF Kill, evVars
<1>4. ASSUME NEW p \in Prios, Nice(t, p) PROVE CoopInv' /\ Delivers
  BY <1>0, <1>4, NiceKeeps, SameDelivers DEF Nice, evVars
<1>5. ASSUME NEW ms \in Durations, Sleep(t, ms) PROVE CoopInv' /\ Delivers
  BY <1>0, <1>5, SleepKeeps, SameDelivers DEF Sleep, evVars
<1>6. ASSUME NEW u \in Threads, ThreadCreate(t, u) PROVE CoopInv' /\ Delivers
  BY <1>0, <1>6, ThreadCreateKeeps, SameDelivers DEF ThreadCreate, evVars
<1>7. ASSUME NEW u \in Threads, Signal(t, u) PROVE CoopInv' /\ Delivers
  BY <1>0, <1>7, SignalKeeps, SameDelivers DEF Signal, evVars
<1>8. ASSUME NEW u \in Threads, ThreadDestroy(t, u) PROVE CoopInv' /\ Delivers
  BY <1>0, <1>8, ThreadDestroyKeeps, SameDelivers DEF ThreadDestroy, evVars
<1>9. ASSUME NEW u \in Threads, Join(t, u) PROVE CoopInv' /\ Delivers
  BY <1>0, <1>9, JoinKeeps, SameDelivers DEF Join, evVars
<1>10. ASSUME NEW q \in Queues, EventNotify(t, q) PROVE CoopInv' /\ Delivers
  BY <1>0, <1>10, EventNotifyKeeps, SameDelivers DEF EventNotify, CoopInv, ControlInv
<1>11. ASSUME NEW q \in Queues, EventBroadcast(t, q) PROVE CoopInv' /\ Delivers
  BY <1>0, <1>11, EventBroadcastKeeps, SameDelivers DEF EventBroadcast, evVars
<1>12. ASSUME NEW q \in Queues, NEW ms \in Durations \cup {0}, RawEventWait(t, q, ms) PROVE CoopInv' /\ Delivers
  <2>1. ms \in Nat
    BY TimeAssumption
  <2>2. QED
    BY <1>0, <1>12, <2>1, RawEventWaitKeeps, SameDelivers DEF RawEventWait
<1>13. ASSUME NEW q \in Queues, NEW ms \in Durations \cup {0}, EventWait(t, q, ms) PROVE CoopInv' /\ Delivers
  <2>1. ms \in Nat
    BY TimeAssumption
  <2>2. QED
    BY <1>0, <1>13, <2>1, EventWaitKeeps, SameDelivers DEF EventWait, ForgetSignal
<1>14. QED
  BY <1>1, <1>2, <1>3, <1>4, <1>5, <1>6, <1>7, <1>8, <1>9, <1>10, <1>11, <1>12, <1>13 DEF Call

\* Every step of the cooperative kernel keeps the invariant.
LEMMA CoopNext ==
    ASSUME Cooperative, CoopInv, [Next]_vars
    PROVE  CoopInv' /\ Delivers
<1>1. ASSUME NEW t \in Threads, Schedule(t) PROVE CoopInv' /\ Delivers
  BY <1>1, ScheduleKeeps
<1>2. ASSUME NEW t \in Threads, Continue(t) PROVE CoopInv' /\ Delivers
  BY <1>2, ContinueKeeps
<1>3. ASSUME NEW t \in Threads, Call(t) PROVE CoopInv' /\ Delivers
  BY <1>3, CallKeeps
<1>4. ASSUME NEW q \in IrqQueues, IrqNotify(q) PROVE CoopInv' /\ Delivers
  <2>1. q \in QueueIds
    BY QueuesAssumption DEF QueueIds
  <2>2. TypeOK'
    BY <1>4, <2>1, IrqNotifyType DEF CoopInv
  <2>3. QED
    BY <1>4, <2>1, <2>2, IrqNotifyKeeps DEF Delivers
<1>5. ASSUME NEW expire \in BOOLEAN, Tick(expire) PROVE CoopInv' /\ Delivers
  <2>1. TypeOK'
    BY <1>5, TickType DEF CoopInv
  <2>2. QED
    BY <1>5, <2>1, TickKeeps DEF Delivers
<1>6. CASE UNCHANGED vars
  <2>1. UNCHANGED <<current, runq, num, on_rq, prio, flags, wake, queue, sig, ec, timers, tmr, killq, freed,
                    irqExec, cpuState, isr, cnt, sc, scan, pc, arg>>
    BY <1>6 DEF vars, rqVars, evVars, tmrVars, deadVars, irqVars, callVars
  <2>2. TypeOK'
    BY <2>1 DEF CoopInv, TypeOK
  <2>3. /\ (\A t \in Threads : Marked(t)' <=> Marked(t)) /\ (\A t \in Threads : Added(t)' <=> Added(t))
        /\ \A t \in Threads : (Armed(t)' <=> Armed(t)) /\ (Telling(t)' <=> Telling(t))
    BY <2>1 DEF Marked, Added, Armed, Telling
  <2>4. ControlInv' /\ FlagsInv' /\ RunInv' /\ CallInv'
    BY <2>1 DEF CoopInv, ControlInv, FlagsInv, RunInv, CallInv, Marked, Added, Has
  <2>5. PlaceInv' /\ TimerInv' /\ EventInv' /\ DeadInv'
    BY <2>1 DEF CoopInv, PlaceInv, TimerInv, EventInv, DeadInv, Armed, Sole, Telling, Has
  <2>6. QED
    BY <2>1, <2>2, <2>4, <2>5, SameDelivers DEF CoopInv
<1>7. QED
  BY <1>1, <1>2, <1>3, <1>4, <1>5, <1>6 DEF Next, Kernel, Interrupt

\* The invariant holds in every reachable state of the cooperative kernel.
LEMMA CoopAlways ==
    ASSUME Cooperative
    PROVE  Spec => []CoopInv
<1>1. CoopInv /\ [Next]_vars => CoopInv'
  BY CoopNext
<1>2. QED
  BY CoopInit, <1>1, PTL DEF Spec

----------------------------------------------------------------------------
(* What the invariant says of the queues *)

\* A list on which nothing is twice has as many nodes as elements.
LEMMA OnceCounts ==
    ASSUME NEW S, NEW s \in Seq(S), Once(s)
    PROVE  Cardinality(ToSet(s)) = Len(s)
<1>1. Len(s) \in Nat /\ s \in [1..Len(s) -> ToSet(s)]
  <2>1. Len(s) \in Nat /\ s \in [1..Len(s) -> S]
    BY LenProperties
  <2>2. \A i \in 1..Len(s) : s[i] \in ToSet(s)
    BY ElementPlace
  <2>3. QED
    BY <2>1, <2>2
<1>2. s \in Injection(1..Len(s), ToSet(s))
  <2>1. \A i, j \in 1..Len(s) : s[i] = s[j] => i = j
    BY DEF Once
  <2>2. IsInjective(s)
    BY <1>1, <2>1 DEF IsInjective
  <2>3. QED
    BY <1>1, <2>2 DEF Injection
<1>3. s \in Surjection(1..Len(s), ToSet(s))
  <2>1. \A e \in ToSet(s) : \E i \in 1..Len(s) : s[i] = e
    BY ElementPlace
  <2>2. QED
    BY <1>1, <2>1 DEF Surjection
<1>4. ExistsBijection(1..Len(s), ToSet(s))
  BY <1>2, <1>3 DEF ExistsBijection, Bijection
<1>5. QED
  BY <1>1, <1>4, FS_CountingElements

\* A thread has a timer when one of the list is its own.
LEMMA ArmedAt ==
    ASSUME TypeOK, NEW t
    PROVE  Armed(t) <=> \E i \in 1..Len(timers) : timers[i].tp = t
<1>1. timers \in Seq(Timer)
  BY DEF TypeOK
<1>2. QED
  BY <1>1, ElementPlace DEF Armed

\* The invariant implies what is promised of the queues.
LEMMA CoopQueues ==
    ASSUME CoopInv
    PROVE  QueuesSound
<1>1. /\ TypeOK /\ runq \in Seq(Threads) /\ wake \in Seq(Threads) /\ queue \in [QueueIds -> Seq(Threads)]
      /\ current \in Threads
  BY DEF CoopInv, TypeOK
<1>2. /\ ToSet(runq) \subseteq Threads /\ ToSet(wake) \subseteq Threads
      /\ \A q \in QueueIds : ToSet(queue[q]) \subseteq Threads
  BY <1>1, ElementPlace
<1>3. \A t \in Threads : t \in ToSet(wake) => arg[t].q \in QueueIds /\ t \in ToSet(queue[arg[t].q])
  <2>1. \A t \in Threads : arg[t].q \in QueueIds
    BY <1>1 DEF TypeOK, Args
  <2>2. QED
    BY <2>1 DEF CoopInv, EventInv
<1>4. RunQueueSound
  <2>1. Cardinality(ToSet(runq)) = Len(runq)
    BY <1>1, OnceCounts DEF CoopInv, RunInv
  <2>2. current \notin ToSet(runq) /\ num = Len(runq)
    BY <1>1 DEF CoopInv, RunInv
  <2>3. ASSUME NEW t \in ToSet(runq)
        PROVE  Has(t, "RUNNING") /\ (on_rq[t] \/ \E u \in Threads : pc[u] = "signal_on_rq" /\ arg[u].tp = t)
    BY <1>1, <1>2 DEF CoopInv, RunInv, Added
  <2>4. QED
    BY <2>1, <2>2, <2>3 DEF RunQueueSound
<1>5. NoLostThread
  <2>. SUFFICES ASSUME NEW t \in Threads \ {current}, sc[t] # "uncreated", ~Has(t, "EXIT"), t \notin ToSet(runq),
                       ~Has(t, "WAITING"),
                       ~\E u \in Threads : pc[u] \in {"signal_add", "signal_on_rq"} /\ arg[u].tp = t
                PROVE  \/ Has(t, "SLEEPING") /\ \E i \in 1..Len(timers) : timers[i].tp = t
                       \/ \E q \in QueueIds : t \in ToSet(queue[q])
    BY DEF NoLostThread
  <2>1. ~Has(t, "RUNNING")
    BY <1>1 DEF CoopInv, RunInv, Marked
  <2>2. t \in ToSet(wake) \/ (Has(t, "SLEEPING") /\ Armed(t))
    BY <2>1 DEF CoopInv, PlaceInv
  <2>3. QED
    BY <1>1, <1>3, <2>2, ArmedAt
<1>6. WakeListMatches
  <2>1. Cardinality(ToSet(wake)) = Len(wake)
    BY <1>1, OnceCounts DEF CoopInv, EventInv
  <2>2. \A q \in QueueIds : \A t \in ToSet(queue[q]) : t \in ToSet(wake) /\ arg[t].q = q
    BY <1>2 DEF CoopInv, EventInv
  <2>3. ToSet(wake) = UNION {ToSet(queue[q]) : q \in QueueIds}
    BY <1>2, <1>3, <2>2
  <2>4. \A q \in sig : queue[q] = <<>>
    BY <1>1 DEF CoopInv, EventInv, TypeOK
  <2>5. QED
    BY <2>1, <2>2, <2>3, <2>4 DEF WakeListMatches
<1>7. EventCountAtHead
  <2>. SUFFICES ASSUME NEW t \in Threads, ec[t] > 0
                PROVE  \E q \in QueueIds : queue[q] # <<>> /\ Head(queue[q]) = t
    BY DEF EventCountAtHead
  <2>1. t \in ToSet(wake) /\ queue[arg[t].q][1] = t
    BY DEF CoopInv, EventInv
  <2>2. PICK q \in QueueIds : q = arg[t].q /\ t \in ToSet(queue[q])
    BY <1>3, <2>1
  <2>3. queue[q] # <<>>
    BY <2>2 DEF ToSet
  <2>4. QED
    BY <2>1, <2>2, <2>3
<1>8. WaitTimerLive
  <2>1. ASSUME NEW q \in QueueIds, NEW t \in ToSet(queue[q])
        PROVE  ((tmr[t] = "SET") <=> \E i \in 1..Len(timers) : timers[i].tp = t) /\ tmr[t] # "SIGNALED"
    <3>1. t \in ToSet(wake)
      BY <1>2 DEF CoopInv, EventInv
    <3>2. (tmr[t] = "SET" <=> Armed(t)) /\ tmr[t] # "SIGNALED"
      BY <3>1 DEF CoopInv, TimerInv
    <3>3. QED
      BY <1>1, <3>2, ArmedAt
  <2>2. QED
    BY <2>1 DEF WaitTimerLive
<1>9. BlockedStaysOff
  BY DEF CoopInv, FlagsInv, BlockedStaysOff, Stopping
<1>10. QED
  BY <1>4, <1>5, <1>6, <1>7, <1>8, <1>9 DEF QueuesSound

\* The queues, the wake list, the timers and the flags of the cooperative
\* kernel agree with each other at every step of every call, interrupt and
\* timer: no thread is lost, on the run queue twice, or woken by a timer that
\* is not its own.
THEOREM QueuesAgree ==
    ASSUME Cooperative
    PROVE  Spec => []QueuesSound
<1>1. CoopInv => QueuesSound
  BY CoopQueues
<1>2. QED
  BY CoopAlways, <1>1, PTL

\* join() without CONFIG_PREEMPT misses no exit: whoever is gone has no joiner
\* in its queue, and nobody is between its look at EXIT and its wait.
THEOREM JoinersAlwaysReleased ==
    ASSUME Cooperative
    PROVE  Spec => []JoinersReleased
<1>1. CoopInv => JoinersReleased
  <2>. SUFFICES ASSUME CoopInv, NEW u \in Threads, Gone(u)
                PROVE  queue[u] = <<>> /\ \A t \in Threads : ~(pc[t] = "join_wait" /\ arg[t].tp = u)
    BY DEF JoinersReleased
  <2>1. Has(u, "EXIT") /\ u # current
    BY DEF Gone
  <2>2. queue[u] = <<>>
    BY <2>1 DEF CoopInv, DeadInv, Telling
  <2>3. \A t \in Threads : pc[t] = "join_wait" => t = current
    BY DEF CoopInv, ControlInv, Outside
  <2>4. QED
    BY <2>1, <2>2, <2>3 DEF CoopInv, CallInv
<1>2. QED
  BY CoopAlways, <1>1, PTL

\* rq_destroy_kill_q of the cooperative kernel frees no stack that is in use,
\* and every thread that is gone is on its list or was freed by it.
THEOREM StacksAlwaysSound ==
    ASSUME Cooperative
    PROVE  Spec => []StacksSound
<1>1. CoopInv => StacksSound
  <2>. SUFFICES ASSUME CoopInv PROVE StacksSound
    OBVIOUS
  <2>1. freed \subseteq Threads
    BY DEF CoopInv, TypeOK
  <2>2. FreedNeverRuns
    <3>1. ASSUME NEW t \in freed PROVE t # current /\ t \notin ToSet(runq) \cup ToSet(wake)
      <4>1. t \in Threads /\ Has(t, "EXIT") /\ ~Has(t, "RUNNING") /\ t # current
        BY <2>1 DEF CoopInv, DeadInv
      <4>2. QED
        BY <4>1 DEF CoopInv, RunInv, PlaceInv
    <3>2. QED
      BY <3>1 DEF FreedNeverRuns
  <2>3. StackReclaimed
    BY DEF StackReclaimed, Gone, CoopInv, DeadInv
  <2>4. QED
    BY <2>2, <2>3 DEF StacksSound
<1>2. QED
  BY CoopAlways, <1>1, PTL

\* In the cooperative kernel no change to a queue loses an event that an
\* interrupt posted: not a timeout of the waiter it was posted to, not a
\* notify or a broadcast that comes first.
THEOREM EventsAlwaysKept ==
    ASSUME Cooperative
    PROVE  Spec => EventsKept
<1>1. CoopInv /\ [Next]_vars /\ CoopInv' =>
          [\A q \in QueueIds : queue'[q] # <<>> =>
             Posted(q)' >= Posted(q) - IF sc[current] = "signal" THEN 1 ELSE 0]_vars
  <2>. SUFFICES ASSUME CoopInv, [Next]_vars, CoopInv', NEW q \in QueueIds, queue'[q] # <<>>
                PROVE  Posted(q)' >= Posted(q) - IF sc[current] = "signal" THEN 1 ELSE 0
    OBVIOUS
  <2>1. /\ queue[q] \in Seq(Threads) /\ ec \in [Threads -> Nat]
        /\ queue'[q] \in Seq(Threads) /\ ec' \in [Threads -> Nat]
    BY DEF CoopInv, TypeOK
  <2>2. Posted(q)' = ec'[queue'[q][1]] /\ queue'[q][1] \in Threads
    <3>1. 1 \in 1..Len(queue'[q]) /\ Head(queue'[q]) = queue'[q][1]
      BY <2>1, EmptySeq, HeadTailProperties
    <3>2. queue'[q][1] \in Threads
      BY <2>1, <3>1, ElementOfSeq
    <3>3. QED
      BY <3>1, <3>2 DEF Posted
  <2>3. CASE queue[q] = <<>>
    BY <2>1, <2>2, <2>3 DEF Posted
  <2>4. CASE queue[q] # <<>>
    <3>1. 1 \in 1..Len(queue[q]) /\ Head(queue[q]) = queue[q][1]
      BY <2>1, <2>4, EmptySeq, HeadTailProperties
    <3>2. PICK w \in Threads : w = queue[q][1] /\ Posted(q) = ec[w]
      BY <2>1, <2>4, <3>1, ElementOfSeq DEF Posted
    <3>3. Delivers
      BY CoopNext
    <3>4. CASE Kept(ec)
      <4>1. Posted(q)' >= Posted(q)
        BY <2>2, <2>4, <3>2, <3>4 DEF Kept
      <4>2. QED
        BY <2>1, <2>2, <3>2, <4>1, SMTT(40)
    <3>5. CASE ~Kept(ec)
      <4>1. sc[current] = "signal"
        BY <3>3, <3>5 DEF Delivers
      <4>2. PICK e \in [Threads -> Nat] : OneLess(e) /\ Kept(e)
        BY <3>3, <3>5 DEF Delivers
      <4>3. Posted(q)' >= e[w]
        BY <2>2, <2>4, <3>2, <4>2 DEF Kept
      <4>4. e[w] >= ec[w] - 1 /\ e[w] \in Nat
        BY <3>2, <4>2 DEF OneLess
      <4>5. PICK n \in Nat : n = ec'[queue'[q][1]]
        BY <2>1, <2>2
      <4>6. n >= e[w] /\ ec[w] \in Nat
        BY <2>1, <2>2, <4>3, <4>5
      <4>7. n >= ec[w] - 1
        BY <4>4, <4>6
      <4>8. QED
        BY <2>2, <3>2, <4>1, <4>5, <4>7
    <3>6. QED
      BY <3>4, <3>5
  <2>5. QED
    BY <2>3, <2>4
<1>2. QED
  BY CoopAlways, <1>1, PTL DEF Spec, EventsKept

----------------------------------------------------------------------------
(* What a step of the kernel does to those who wait *)

\* Why the kernel takes w off its queue: an event, a timeout, the end of the
\* thread it joins, or a notify of its queue.
Reason(t, w) ==
    \/ ec[w] > 0 \/ tmr'[w] = "SIGNALED" \/ arg[w].q = t
    \/ sc[t] = "none" /\ pc[t] \in {"notify", "broadcast"} /\ arg[t].q = arg[w].q

\* Nobody else moves, nobody but t begins to wait, and nobody leaves for nothing.
Waiters(t) ==
    /\ t = current
    /\ \A u \in Threads \ {t} : pc'[u] = pc[u] /\ arg'[u] = arg[u]
    /\ \A u \in Threads : u \in ToSet(wake)' => u \in ToSet(wake) \/ (u = t /\ Running(t, "ev_enqueue"))
    /\ \A u \in Threads : u \in ToSet(wake) /\ u \notin ToSet(wake)' => Reason(t, u)
    /\ \A u \in Threads : tmr'[u] = tmr[u] \/ u \in ToSet(wake) \/ (u = t /\ sc[t] = "none")

\* The labels of the calls that do not wait and do not notify
Aside == {"app", "idle", "created", "wait_resched", "wait_stop", "signal_add", "signal_on_rq",
          "kill_resched", "kill_stop", "kill_join", "kill_broadcast", "kill_queue", "dead", "broadcast_yield"}

\* Where the running thread goes
Course(t) ==
    \/ sc[t] # "none" /\ pc'[t] = pc[t] /\ arg'[t] = arg[t]
    \/ /\ sc[t] = "none" /\ current' = t
       /\ \/ Turn(t, "ev_check", "app", "none") /\ arg[t].q \in sig
          \/ Turn(t, "ev_check", "ev_enqueue", "none") /\ arg'[t].q = arg[t].q /\ sig' = sig
          \/ Turn(t, "ev_enqueue", "ev_return", "enter") /\ arg'[t] = arg[t] /\ t \in ToSet(wake)'
          \/ Turn(t, "ev_return", "app", "none")
          \/ /\ Turn(t, "notify", "app", "none")
             /\ queue[arg[t].q] # <<>> => \E w \in ToSet(queue[arg[t].q]) : w \in Threads /\ w \notin ToSet(wake)'
          \/ Turn(t, "broadcast", "broadcast", "none") /\ arg'[t] = arg[t]
          \/ Turn(t, "broadcast", "broadcast_yield", "none") /\ queue'[arg[t].q] = <<>>
          \/ Turn(t, "join_wait", "ev_check", "none") /\ arg'[t].q \in Threads
          \/ /\ pc[t] \in Aside \ {"app"} /\ pc'[t] \in Aside
             /\ pc'[t] \in {"signal_add", "signal_on_rq"} => pc[t] = "signal_add"

\* A step of the scheduler that leaves waiters, labels and timers of threads alone
LEMMA StillWaits ==
    ASSUME NEW t \in Threads, t = current, sc[t] # "none", UNCHANGED <<pc, arg, wake, tmr>>
    PROVE  Waiters(t) /\ Course(t)
BY DEF Waiters, Course

\* A step of a call that leaves the wake list alone
LEMMA CallWaits ==
    ASSUME NEW t \in Threads, t = current, sc[t] = "none", UNCHANGED wake,
           \A u \in Threads \ {t} : pc'[u] = pc[u] /\ arg'[u] = arg[u] /\ tmr'[u] = tmr[u]
    PROVE  Waiters(t)
BY DEF Waiters

\* A step that takes w off the wake list for a reason
LEMMA RousedWaits ==
    ASSUME NEW t \in Threads, NEW w \in Threads, Rouse(w), t = current, w \in ToSet(wake), Reason(t, w),
           \A u \in Threads \ {t} : pc'[u] = pc[u] /\ arg'[u] = arg[u]
    PROVE  Waiters(t)
BY DEF Waiters, Rouse

\* The head of a queue waits in that queue.
LEMMA HeadWaits ==
    ASSUME CoopInv, NEW q \in QueueIds, queue[q] # <<>>
    PROVE  queue[q][1] \in Threads /\ queue[q][1] \in ToSet(queue[q]) /\ arg[queue[q][1]].q = q
<1>1. queue[q] \in Seq(Threads) /\ 1 \in 1..Len(queue[q])
  BY EmptySeq DEF CoopInv, TypeOK
<1>2. queue[q][1] \in Threads /\ queue[q][1] \in ToSet(queue[q])
  BY <1>1, ElementOfSeq DEF ToSet
<1>3. QED
  BY <1>2 DEF CoopInv, EventInv

\* The scheduler takes a waiter off its queue when its time is over, or for an
\* event, and tells the joiners of the thread it kills.
LEMMA ScheduleWaits ==
    ASSUME Cooperative, CoopInv, NEW t \in Threads, Schedule(t)
    PROVE  Waiters(t) /\ Course(t)
<1>1. t = current /\ sc[t] # "none" /\ UNCHANGED <<pc, arg>>
  BY DEF Schedule, SleepTimeout, EventTimeout, ClockDone, SignalThread, KeepCurrent, SwitchContext, ScheduleTail,
     RemoteKillIf, RemoteKillBroadcast, callVars
<1>2. Course(t)
  BY <1>1 DEF Course
<1>3. CASE UNCHANGED <<wake, tmr>>
  BY <1>1, <1>3, StillWaits
<1>4. CASE EventTimeout(t)
  <2>1. PICK w \in Threads : Rouse(w) /\ w \in ToSet(wake) /\ tmr'[w] = "SIGNALED"
    BY <1>4, EventTimeoutRouses
  <2>2. QED
    BY <1>1, <1>2, <2>1, RousedWaits DEF Reason
<1>5. CASE SignalThread(t)
  <2>1. PICK w \in Threads : Rouse(w) /\ w \in ToSet(wake) /\ ec[w] > 0
    BY <1>5, SignalThreadRouses
  <2>2. QED
    BY <1>1, <1>2, <2>1, RousedWaits DEF Reason
<1>6. CASE RemoteKillBroadcast(t) /\ queue[t] # <<>>
  <2>1. WakeHead(t, ec, "rq", "NULL") /\ t \in QueueIds
    BY <1>6, BroadcastRounds DEF RemoteKillBroadcast, QueueIds
  <2>2. UNCHANGED <<current, killq, freed, cpuState, isr>> /\ ~irqExec'
    <3>1. isr[t] = "no" /\ ~irqExec /\ isr \in [Threads -> {"no", "none", "enter"}]
      BY DEF CoopInv, ControlInv, TypeOK
    <3>2. QED
      BY <1>6, <3>1 DEF RemoteKillBroadcast, LeaveOrLoop, deadVars
  <2>a. \A u \in ToSet(wake) : arg'[u] = arg[u]
    BY <1>1
  <2>3. PICK w \in Threads : Rouse(w) /\ w \in ToSet(wake) /\ w = queue[t][1]
    BY <1>6, <2>1, <2>2, <2>a, NotifyRouses
  <2>4. arg[w].q = t
    BY <1>6, <2>1, <2>3, HeadWaits
  <2>5. QED
    BY <1>1, <1>2, <2>3, <2>4, RousedWaits DEF Reason
<1>7. CASE RemoteKillBroadcast(t) /\ queue[t] = <<>>
  <2>1. UNCHANGED <<wake, tmr>>
    BY <1>7, BroadcastRounds DEF RemoteKillBroadcast, QueueIds
  <2>2. QED
    BY <1>3, <2>1
<1>8. QED
  BY <1>2, <1>3, <1>4, <1>5, <1>6, <1>7 DEF Schedule, SleepTimeout, ClockDone, KeepCurrent, SwitchContext, ScheduleTail,
     RemoteKillIf, evVars, tmrVars

\* What remains of a call that does not wait, does not notify and rouses nobody
LEMMA AsideWaits ==
    ASSUME Cooperative, CoopInv, NEW t \in Threads,
           \/ IdleLoop(t) \/ ThreadCreated(t) \/ WaitResched(t) \/ WaitStop(t) \/ SignalAdd(t) \/ SignalOnRq(t)
           \/ KillResched(t) \/ KillStop(t) \/ KillJoin(t) \/ KillQueue(t) \/ EventBroadcastYield(t)
    PROVE  Waiters(t) /\ Course(t)
<1>1. t = current /\ sc[t] = "none" /\ UNCHANGED <<current, wake, tmr>> /\ pc[t] \in Aside \ {"app"}
  BY DEF IdleLoop, ThreadCreated, WaitResched, WaitStop, SignalAdd, SignalOnRq, KillResched, KillStop, KillJoin,
     KillQueue, EventBroadcastYield, Running, Aside, rqVars, evVars, tmrVars
<1>2. pc \in [Threads -> Labels] /\ arg \in [Threads -> Args]
  BY DEF CoopInv, TypeOK
<1>3. /\ pc'[t] \in Aside /\ \A u \in Threads \ {t} : pc'[u] = pc[u] /\ arg'[u] = arg[u]
      /\ pc'[t] \in {"signal_add", "signal_on_rq"} => pc[t] = "signal_add"
  BY <1>1, <1>2 DEF IdleLoop, ThreadCreated, WaitResched, WaitStop, SignalAdd, SignalOnRq, KillResched, KillStop, KillJoin,
     KillQueue, EventBroadcastYield, Running, Goto, Return, Aside, callVars
<1>4. Waiters(t)
  BY <1>1, <1>3, CallWaits
<1>5. Course(t)
  BY <1>1, <1>3 DEF Course
<1>6. QED
  BY <1>4, <1>5

\* So does what remains of raw_event_wait and join.
LEMMA WaitingWaits ==
    ASSUME Cooperative, CoopInv, NEW t \in Threads, EvCheck(t) \/ EvEnqueue(t) \/ EvReturn(t) \/ JoinWait(t)
    PROVE  Waiters(t) /\ Course(t)
<1>1. t = current /\ sc[t] = "none" /\ UNCHANGED current
  BY DEF EvCheck, EvEnqueue, EvReturn, JoinWait, Running, ForgetSignal, rqVars
<1>2. pc \in [Threads -> Labels] /\ arg \in [Threads -> Args] /\ sc \in [Threads -> Phases] /\ tmr \in [Threads -> {"NULL", "SIGNALED", "SET"}]
      /\ wake \in Seq(Threads)
  BY DEF CoopInv, TypeOK
<1>3. CASE EvCheck(t)
  <2>1. \A u \in Threads \ {t} : pc'[u] = pc[u] /\ arg'[u] = arg[u] /\ tmr'[u] = tmr[u]
    BY <1>2, <1>3 DEF EvCheck, RawEventWaitCheck, Return, Goto, tmrVars
  <2>2. Waiters(t)
    BY <1>1, <1>3, <2>1, CallWaits DEF EvCheck
  <2>3. CASE arg[t].q \in sig
    <3>1. Turn(t, "ev_check", "app", "none")
      BY <1>1, <1>2, <1>3, <2>3 DEF EvCheck, RawEventWaitCheck, Return, PreemptEnable, Cooperative, Running, Turn
    <3>2. QED
      BY <1>1, <2>2, <2>3, <3>1 DEF Course
  <2>4. CASE arg[t].q \notin sig
    <3>1. Turn(t, "ev_check", "ev_enqueue", "none") /\ sig' = sig /\ arg'[t].q = arg[t].q
      BY <1>1, <1>2, <1>3, <2>4 DEF EvCheck, RawEventWaitCheck, Goto, Running, Turn, Args
    <3>2. QED
      BY <1>1, <2>2, <3>1 DEF Course
  <2>5. QED
    BY <2>3, <2>4
<1>4. CASE EvEnqueue(t)
  <2>1. Turn(t, "ev_enqueue", "ev_return", "enter") /\ UNCHANGED arg /\ \A u \in Threads \ {t} : pc'[u] = pc[u] /\ tmr'[u] = tmr[u]
    BY <1>1, <1>2, <1>4 DEF EvEnqueue, Running, Turn, Goto, CallSchedule, TimerCreate
  <2>2. ToSet(wake') = ToSet(wake) \cup {t}
    <3>1. wake' = <<t>> \o wake /\ <<t>> \in Seq(Threads)
      BY <1>4 DEF EvEnqueue
    <3>2. ToSet(<<t>>) = {t}
      <4>1. Len(<<t>>) = 1 /\ <<t>>[1] = t /\ \A i \in 1..1 : i = 1
        OBVIOUS
      <4>2. QED
        BY <4>1 DEF ToSet
    <3>3. PICK s \in Seq(Threads) : s = <<t>>
      BY <3>1
    <3>4. ToSet(s \o wake) = ToSet(s) \cup ToSet(wake)
      BY <1>2, ConcatOnce
    <3>5. QED
      BY <3>1, <3>2, <3>3, <3>4
  <2>3. Running(t, "ev_enqueue")
    BY <1>4 DEF EvEnqueue
  <2>4. Waiters(t)
    BY <1>1, <2>1, <2>2, <2>3 DEF Waiters
  <2>5. Course(t)
    BY <1>1, <2>1, <2>2 DEF Course
  <2>6. QED
    BY <2>4, <2>5
<1>5. CASE EvReturn(t)
  <2>1. Turn(t, "ev_return", "app", "none") /\ UNCHANGED wake /\ \A u \in Threads \ {t} : pc'[u] = pc[u] /\ arg'[u] = arg[u] /\ tmr'[u] = tmr[u]
    BY <1>1, <1>2, <1>5 DEF EvReturn, Running, Turn, Return, evVars
  <2>2. QED
    BY <1>1, <2>1, CallWaits DEF Course
<1>6. CASE JoinWait(t)
  <2>1. Turn(t, "join_wait", "ev_check", "none") /\ UNCHANGED wake /\ arg'[t].q \in Threads
        /\ \A u \in Threads \ {t} : pc'[u] = pc[u] /\ arg'[u] = arg[u] /\ tmr'[u] = tmr[u]
    BY <1>1, <1>2, <1>6 DEF JoinWait, ForgetSignal, Running, Turn, Goto, Args, tmrVars
  <2>2. QED
    BY <1>1, <2>1, CallWaits DEF Course
<1>7. QED
  BY <1>3, <1>4, <1>5, <1>6

\* event_notify and the two broadcasts take the head of the queue.
LEMMA NotifyingWaits ==
    ASSUME Cooperative, CoopInv, NEW t \in Threads, EventNotifyAct(t) \/ EventBroadcastStep(t) \/ KillBroadcast(t)
    PROVE  Waiters(t) /\ Course(t)
<1> DEFINE q == IF pc[t] = "kill_broadcast" THEN t ELSE arg[t].q
<1>1. t = current /\ sc[t] = "none" /\ UNCHANGED <<current, killq, freed, cpuState, isr>> /\ ~irqExec'
  BY DEF EventNotifyAct, EventBroadcastStep, KillBroadcast, Running, deadVars, irqVars, CoopInv, ControlInv
<1>2. pc \in [Threads -> Labels] /\ arg \in [Threads -> Args] /\ sc \in [Threads -> Phases]
  BY DEF CoopInv, TypeOK
<1>3. \A u \in Threads \ {t} : pc'[u] = pc[u] /\ arg'[u] = arg[u]
  BY <1>2 DEF EventNotifyAct, EventBroadcastStep, KillBroadcast, Goto, Return
<1>4. t \notin ToSet(wake)
  BY <1>1 DEF EventNotifyAct, EventBroadcastStep, KillBroadcast, Running, CoopInv, PlaceInv
<1>5. q \in QueueIds
  BY <1>2 DEF Args, QueueIds
<1>6. \/ UNCHANGED <<wake, tmr>> /\ queue[q] = <<>> /\ (pc[t] # "notify" => queue' = queue)
      \/ queue[q] # <<>> /\ WakeHead(q, ec, "rq", "NULL")
  <2>1. CASE EventNotifyAct(t)
    <3>1. pc[current] = "notify" /\ arg[current].head # "THREAD" => queue[arg[current].q] = <<>>
      BY DEF CoopInv, CallInv
    <3>2. QED
      BY <1>1, <2>1, <3>1 DEF EventNotifyAct, Running, evVars, tmrVars
  <2>2. CASE EventBroadcastStep(t)
    <3>1. BroadcastStep(q)
      BY <2>2 DEF EventBroadcastStep, Running
    <3>2. QED
      BY <1>5, <2>2, <3>1, BroadcastRounds
  <2>3. CASE KillBroadcast(t)
    <3>1. BroadcastStep(q)
      BY <2>3 DEF KillBroadcast, Running
    <3>2. QED
      BY <1>5, <2>3, <3>1, BroadcastRounds
  <2>4. QED
    BY <2>1, <2>2, <2>3
<1>7. \/ wake' = wake /\ tmr' = tmr /\ queue[q] = <<>> /\ (pc[t] # "notify" => queue'[q] = <<>>)
      \/ /\ \E w \in Threads : Rouse(w) /\ w \in ToSet(wake) /\ w \in ToSet(queue[q]) /\ arg[w].q = q
         /\ queue[q] # <<>>
         /\ Len(queue[q]) = 1 => queue'[q] = <<>>
  <2>1. CASE queue[q] # <<>> /\ WakeHead(q, ec, "rq", "NULL")
    <3>1. \A u \in ToSet(wake) : arg'[u] = arg[u]
      BY <1>3, <1>4, TimerOwners DEF CoopInv
    <3>2. /\ \E w \in Threads : Rouse(w) /\ w \in ToSet(wake) /\ w = queue[q][1]
          /\ Len(queue[q]) = 1 => queue'[q] = <<>>
      BY <1>1, <1>5, <2>1, <3>1, NotifyRouses
    <3>3. QED
      BY <1>5, <2>1, <3>2, HeadWaits
  <2>2. QED
    BY <1>6, <2>1
<1>8. Waiters(t)
  <2>1. CASE \E w \in Threads : Rouse(w) /\ w \in ToSet(wake) /\ arg[w].q = q
    <3>1. PICK w \in Threads : Rouse(w) /\ w \in ToSet(wake) /\ arg[w].q = q
      BY <2>1
    <3>2. Reason(t, w)
      BY <1>1, <3>1 DEF Reason, EventNotifyAct, EventBroadcastStep, KillBroadcast, Running
    <3>3. QED
      BY <1>1, <1>3, <3>1, <3>2, RousedWaits
  <2>2. CASE wake' = wake /\ tmr' = tmr
    BY <1>1, <1>3, <2>2, CallWaits
  <2>3. QED
    BY <1>7, <2>1, <2>2
<1>9. Course(t)
  <2>1. CASE EventNotifyAct(t)
    <3>1. Turn(t, "notify", "app", "none")
      BY <1>1, <1>2, <2>1 DEF EventNotifyAct, Running, Return, PreemptEnable, Cooperative, Turn
    <3>2. queue[arg[t].q] # <<>> => \E w \in ToSet(queue[arg[t].q]) : w \in Threads /\ w \notin ToSet(wake)'
      BY <1>7, <3>1 DEF Turn, Rouse
    <3>3. QED
      BY <1>1, <3>1, <3>2 DEF Course
  <2>2. CASE EventBroadcastStep(t)
    <3>1. CASE BroadcastLast(arg[t].q)
      <4>1. Turn(t, "broadcast", "broadcast_yield", "none")
        BY <1>1, <1>2, <2>2, <3>1 DEF EventBroadcastStep, Running, Goto, Turn
      <4>2. queue'[arg[t].q] = <<>>
        <5>1. q = arg[t].q /\ pc[t] # "notify"
          BY <4>1 DEF Turn
        <5>2. queue[q] = <<>> \/ Len(queue[q]) = 1
          BY <3>1, <5>1 DEF BroadcastLast
        <5>3. queue'[q] = <<>>
          BY <1>7, <5>1, <5>2
        <5>4. QED
          BY <5>1, <5>3
      <4>3. QED
        BY <1>1, <4>1, <4>2 DEF Course
    <3>2. CASE ~BroadcastLast(arg[t].q)
      <4>1. Turn(t, "broadcast", "broadcast", "none") /\ arg'[t] = arg[t]
        BY <1>1, <1>2, <2>2, <3>2 DEF EventBroadcastStep, Running, Turn
      <4>2. QED
        BY <1>1, <4>1 DEF Course
    <3>3. QED
      BY <3>1, <3>2
  <2>3. CASE KillBroadcast(t)
    <3>1. pc[t] = "kill_broadcast" /\ pc'[t] \in {"kill_broadcast", "kill_queue"}
      BY <1>1, <1>2, <2>3 DEF KillBroadcast, Running, Goto
    <3>2. QED
      BY <1>1, <3>1 DEF Course, Aside
  <2>4. QED
    BY <2>1, <2>2, <2>3
<1>10. QED
  BY <1>8, <1>9

\* A step of the kernel is one of these.
LEMMA KernelWaits ==
    ASSUME Cooperative, CoopInv, Kernel
    PROVE  Waiters(current) /\ Course(current)
<1>1. PICK t \in Threads : Schedule(t) \/ Continue(t)
  BY DEF Kernel
<1>2. Waiters(t) /\ Course(t)
  BY <1>1, ScheduleWaits, AsideWaits, WaitingWaits, NotifyingWaits DEF Continue
<1>3. QED
  BY <1>2 DEF Waiters

----------------------------------------------------------------------------
(* What a step does to one queue and those who use it *)

InQ(q) == ToSet(queue[q])
Entering(t, q) == pc[t] \in {"ev_check", "ev_enqueue"} /\ arg[t].q = q
Notifying(t, q) == pc[t] = "notify" /\ arg[t].q = q
Broadcasting(t, q) == pc[t] = "broadcast" /\ arg[t].q = q

\* Only a thread that is entering q comes to wait in it, and nobody begins to;
\* whoever notifies q goes on doing so, or has taken a waiter off it.
Tame(q) ==
    /\ \A u \in Threads : u \in InQ(q)' => u \in InQ(q) \/ (pc[u] = "ev_enqueue" /\ arg[u].q = q)
    /\ \A u \in Threads : Entering(u, q)' => Entering(u, q)
    /\ \A u \in Threads : Notifying(u, q) =>
          Notifying(u, q)' \/ queue[q] = <<>> \/ \E w \in Threads : w \in InQ(q) /\ w \notin InQ(q)'
    /\ \A u \in Threads : Broadcasting(u, q) => Broadcasting(u, q)' \/ queue'[q] = <<>>

\* A list is empty when nothing is on it.
LEMMA EmptyList ==
    ASSUME NEW S, NEW s \in Seq(S)
    PROVE  (s = <<>> <=> ToSet(s) = {}) /\ ToSet(s) \subseteq S
<1>1. ToSet(<<>>) = {}
  BY DEF ToSet
<1>2. s # <<>> => s[1] \in ToSet(s)
  BY EmptySeq, ElementPlace
<1>3. QED
  BY <1>1, <1>2, ElementPlace

\* Whoever is in a queue is a thread that waits.
LEMMA InQueue ==
    ASSUME CoopInv, NEW q \in QueueIds
    PROVE  /\ InQ(q) \subseteq Threads /\ (queue[q] = <<>> <=> InQ(q) = {})
           /\ \A u \in Threads : u \in InQ(q) <=> u \in ToSet(wake) /\ arg[u].q = q
           /\ \A u \in InQ(q) : pc[u] = "ev_return" /\ ~(u = current /\ sc[u] = "none")
<1>1. queue[q] \in Seq(Threads)
  BY DEF CoopInv, TypeOK
<1>2. \A u \in Threads : u \in InQ(q) <=> u \in ToSet(wake) /\ arg[u].q = q
  BY DEF CoopInv, EventInv, InQ
<1>3. InQ(q) \subseteq Threads
  BY <1>1, ElementPlace DEF InQ
<1>4. queue[q] = <<>> <=> InQ(q) = {}
  BY <1>1, EmptyList DEF InQ
<1>5. \A u \in Threads : u \in ToSet(wake) => pc[u] = "ev_return" /\ ~Has(u, "RUNNING")
  BY DEF CoopInv, PlaceInv
<1>6. sc[current] = "none" /\ pc[current] = "ev_return" => Has(current, "RUNNING")
  BY DEF CoopInv, FlagsInv, Stopping
<1>7. QED
  BY <1>2, <1>3, <1>4, <1>5, <1>6

\* Everybody else's calls are where they were: the kernel moves the running thread.
LEMMA KernelTame ==
    ASSUME Cooperative, CoopInv, CoopInv', Kernel, NEW q \in Queues
    PROVE  Tame(q)
<1> DEFINE t == current
<1>1. t \in Threads /\ q \in QueueIds /\ q \notin Threads
  BY QueuesAssumption DEF CoopInv, TypeOK, QueueIds
<1>2. Waiters(t) /\ Course(t)
  BY KernelWaits
<1>3. \A u \in Threads : pc[u] \in {"notify", "broadcast", "ev_check", "ev_enqueue"} => u = t /\ sc[t] = "none"
  BY DEF CoopInv, ControlInv, Outside
<1>4. /\ \A u \in Threads : u \in InQ(q) <=> u \in ToSet(wake) /\ arg[u].q = q
      /\ \A u \in InQ(q) : pc[u] = "ev_return" /\ ~(u = t /\ sc[u] = "none")
      /\ \A u \in Threads : u \in ToSet(wake) => pc[u] = "ev_return"
  BY <1>1, InQueue DEF CoopInv, PlaceInv
<1>5. (\A u \in Threads : u \in InQ(q) <=> u \in ToSet(wake) /\ arg[u].q = q)'
      /\ (queue[q] = <<>> <=> InQ(q) = {})' /\ (InQ(q) \subseteq Threads)'
  <2>1. queue' \in [QueueIds -> Seq(Threads)]
    BY DEF CoopInv, TypeOK
  <2>2. QED
    BY <1>1, <2>1, EmptyList DEF CoopInv, EventInv, InQ
<1>6. \A u \in Threads : u # t => pc'[u] = pc[u] /\ arg'[u] = arg[u]
  BY <1>2 DEF Waiters
<1>7. sc[t] # "none" => pc'[t] = pc[t] /\ arg'[t] = arg[t]
  BY <1>2 DEF Course
<1>8. ASSUME NEW u \in Threads, u \in InQ(q)', u \notin InQ(q)
      PROVE  pc[u] = "ev_enqueue" /\ arg[u].q = q
  <2>1. u \in ToSet(wake)' /\ arg'[u].q = q
    BY <1>5, <1>8
  <2>2. CASE u \in ToSet(wake)
    <3>1. arg'[u] # arg[u]
      BY <1>4, <1>8, <2>1, <2>2
    <3>2. u = t /\ sc[t] = "none" /\ pc[t] = "ev_return"
      BY <1>4, <1>6, <1>7, <2>2, <3>1
    <3>3. t \notin ToSet(wake)
      BY <1>1, <3>2, Awake DEF Stopping, Dying, Waits
    <3>4. QED
      BY <2>2, <3>2, <3>3
  <2>3. CASE u \notin ToSet(wake)
    <3>1. u = t /\ Running(t, "ev_enqueue")
      BY <1>2, <2>1, <2>3 DEF Waiters
    <3>2. arg'[t] = arg[t]
      BY <1>2, <3>1 DEF Course, Running, Turn, Aside
    <3>3. QED
      BY <2>1, <3>1, <3>2 DEF Running
  <2>4. QED
    BY <2>2, <2>3
<1>9. ASSUME NEW u \in Threads, Entering(u, q)'
      PROVE  Entering(u, q)
  <2>1. CASE u # t \/ sc[t] # "none"
    BY <1>6, <1>7, <1>9, <2>1 DEF Entering
  <2>2. CASE u = t /\ sc[t] = "none"
    BY <1>1, <1>2, <1>9, <2>2 DEF Entering, Course, Turn, Aside
  <2>3. QED
    BY <2>1, <2>2
<1>10. ASSUME NEW u \in Threads, Notifying(u, q), queue[q] # <<>>
       PROVE  \E w \in Threads : w \in InQ(q) /\ w \notin InQ(q)'
  <2>1. u = t /\ sc[t] = "none" /\ pc[t] = "notify" /\ arg[t].q = q
    BY <1>3, <1>10 DEF Notifying
  <2>2. \E w \in ToSet(queue[q]) : w \in Threads /\ w \notin ToSet(wake)'
    BY <1>2, <1>10, <2>1 DEF Course, Turn, Aside
  <2>3. QED
    BY <1>5, <2>2 DEF InQ
<1>11. ASSUME NEW u \in Threads, Broadcasting(u, q)
       PROVE  Broadcasting(u, q)' \/ queue'[q] = <<>>
  <2>1. u = t /\ sc[t] = "none" /\ pc[t] = "broadcast" /\ arg[t].q = q
    BY <1>3, <1>11 DEF Broadcasting
  <2>2. QED
    BY <1>2, <2>1 DEF Course, Turn, Aside, Broadcasting
<1>12. QED
  BY <1>8, <1>9, <1>10, <1>11 DEF Tame

\* A step that leaves the queues alone, and in which the running thread at most
\* begins something on another queue, or begins to notify
Elsewhere(q) ==
    /\ UNCHANGED queue
    /\ \A u \in Threads : \/ pc'[u] = pc[u] /\ arg'[u] = arg[u]
                          \/ pc[u] = "app" /\ (pc'[u] \in {"ev_check", "ev_enqueue"} => arg'[u].q # q)

\* Such a step does nothing to q.
LEMMA ElsewhereTame ==
    ASSUME NEW q \in Queues, Elsewhere(q)
    PROVE  Tame(q)
BY DEF Tame, Elsewhere, InQ, Entering, Notifying, Broadcasting

----------------------------------------------------------------------------
(* What a step does to a thread that neither waits in a queue nor sleeps *)

Lasting == {"WAITING", "EXIT", "SLEEPING", "REMOTE_KILL"}

\* u stays where it is, or goes on in wait().
Spared(u) ==
    /\ sc'[u] = "uncreated" <=> sc[u] = "uncreated"
    /\ \A f \in Lasting : Has(u, f)' <=> Has(u, f)
    /\ \/ pc'[u] = pc[u] /\ (Has(u, "RUNNING")' <=> Has(u, "RUNNING"))
       \/ pc[u] = "wait_resched" /\ pc'[u] = "wait_stop" /\ (Has(u, "RUNNING")' <=> Has(u, "RUNNING"))
       \/ pc[u] = "wait_stop" /\ pc'[u] = "app" /\ ~Has(u, "RUNNING")'

\* Nobody is made ready but a thread that waits or sleeps.
LEMMA RouseSpares ==
    ASSUME CoopInv, NEW t \in Threads, NEW w \in Threads, Rouse(w), Moves(t),
           NEW u \in Threads, u \notin ToSet(wake), ~Armed(u), pc[u] \in Waits \cup {"app"}
    PROVE  Spared(u)
<1>1. u # w
  BY DEF Rouse
<1>2. /\ \A f \in Lasting : Has(u, f)' <=> Has(u, f)
      /\ Has(u, "RUNNING")' <=> Has(u, "RUNNING")
  BY <1>1 DEF Rouse, Readied, Lasting
<1>3. pc'[u] = pc[u]
  BY DEF Moves, Turn, Waits
<1>4. sc'[u] = "uncreated" <=> sc[u] = "uncreated"
  BY DEF Moves, Turn
<1>5. QED
  BY <1>2, <1>3, <1>4 DEF Spared

\* The scheduler leaves it as it is, unless it is marked as killed.
LEMMA ScheduleSpares ==
    ASSUME Cooperative, CoopInv, NEW t \in Threads, Schedule(t),
           NEW u \in Threads, u \notin ToSet(wake), ~Armed(u), ~Has(u, "REMOTE_KILL"), pc[u] \in Waits \cup {"app"}
    PROVE  Spared(u)
<1>1. t = current /\ sc[t] \in {"enter", "clock", "signal", "tail", "bcast"} /\ pc' = pc
  BY DEF Schedule, SleepTimeout, EventTimeout, ClockDone, SignalThread, KeepCurrent, SwitchContext, ScheduleTail,
     RemoteKillIf, RemoteKillBroadcast, callVars
<1>2. sc \in [Threads -> Phases] /\ flags \in [Threads -> SUBSET Flags] /\ isr[t] = "no" /\ isr \in [Threads -> {"no", "none", "enter"}]
  BY DEF CoopInv, TypeOK, ControlInv
<1>3. CASE SleepTimeout(t)
  <2>1. timers \in Seq(Timer) /\ timers # <<>>
    BY <1>3 DEF SleepTimeout, Expired, CoopInv, TypeOK
  <2>2. Head(timers) \in ToSet(timers)
    BY <2>1, TailDrops DEF CoopInv, TimerInv
  <2>3. u # Head(timers).tp /\ Head(timers).tp \in Threads
    BY <2>2, TimerOwners DEF Armed, CoopInv
  <2>4. QED
    BY <1>1, <1>2, <1>3, <2>3 DEF SleepTimeout, Spared, Has
<1>4. CASE EventTimeout(t)
  BY <1>4, EventTimeoutRouses, RouseSpares
<1>5. CASE SignalThread(t)
  BY <1>5, SignalThreadRouses, RouseSpares
<1>6. CASE ClockDone(t)
  BY <1>1, <1>2, <1>6 DEF ClockDone, Spared, Has
<1>7. CASE KeepCurrent(t)
  <2>1. flags' = [flags EXCEPT ![t] = flags[t] \ {"NEED_RESCHED"}]
    BY <1>7, Decides DEF KeepCurrent, CoopInv
  <2>2. QED
    BY <1>1, <1>2, <1>7, <2>1 DEF KeepCurrent, Spared, Has, Lasting
<1>8. CASE SwitchContext(t)
  <2>1. flags' = [flags EXCEPT ![t] = flags[t] \ {"NEED_RESCHED"}]
    BY <1>8, Decides DEF SwitchContext, CoopInv
  <2>2. sc'[u] = "uncreated" <=> sc[u] = "uncreated"
    BY <1>1, <1>2, <1>8 DEF SwitchContext
  <2>3. QED
    BY <1>1, <1>2, <2>1, <2>2 DEF Spared, Has, Lasting
<1>9. CASE ScheduleTail(t)
  BY <1>1, <1>2, <1>9 DEF ScheduleTail, LeaveOrLoop, Spared, Has, Lasting
<1>10. CASE RemoteKillIf(t)
  <2>1. u # t
    BY <1>10 DEF RemoteKillIf
  <2>2. QED
    BY <1>1, <1>2, <1>10, <2>1 DEF RemoteKillIf, Spared, Has
<1>11. CASE RemoteKillBroadcast(t)
  <2>1. t \in QueueIds /\ BroadcastStep(t) /\ \A v \in ToSet(wake) : arg'[v] = arg[v]
    BY <1>1, <1>11 DEF RemoteKillBroadcast, QueueIds, callVars
  <2>2. sc'[u] = "uncreated" <=> sc[u] = "uncreated"
    BY <1>1, <1>2, <1>11 DEF RemoteKillBroadcast, LeaveOrLoop
  <2>3. UNCHANGED <<current, killq, freed, cpuState, isr>> /\ ~irqExec'
    <3>1. ~irqExec
      BY DEF CoopInv, ControlInv
    <3>2. QED
      BY <1>2, <1>11, <3>1 DEF RemoteKillBroadcast, LeaveOrLoop, deadVars
  <2>4. CASE UNCHANGED flags
    BY <1>1, <2>2, <2>4 DEF Spared, Has
  <2>5. CASE queue[t] # <<>> /\ WakeHead(t, ec, "rq", "NULL")
    <3>1. PICK w \in Threads : Rouse(w)
      BY <2>1, <2>3, <2>5, NotifyRouses
    <3>2. u # w
      BY <3>1 DEF Rouse
    <3>3. /\ \A f \in Lasting : Has(u, f)' <=> Has(u, f)
          /\ Has(u, "RUNNING")' <=> Has(u, "RUNNING")
      BY <3>1, <3>2 DEF Rouse, Readied, Lasting
    <3>4. QED
      BY <1>1, <2>2, <3>3 DEF Spared
  <2>6. QED
    BY <2>1, <2>4, <2>5, BroadcastRounds
<1>12. QED
  BY <1>3, <1>4, <1>5, <1>6, <1>7, <1>8, <1>9, <1>10, <1>11 DEF Schedule

\* Who wakes the head of a queue touches nobody else.
LEMMA NotifyingSpares ==
    ASSUME Cooperative, CoopInv, NEW t \in Threads, EventNotifyAct(t) \/ EventBroadcastStep(t) \/ KillBroadcast(t),
           NEW u \in Threads, u \notin ToSet(wake)
    PROVE  \A f \in Lasting \cup {"RUNNING"} : Has(u, f)' <=> Has(u, f)
<1> DEFINE q == IF pc[t] = "kill_broadcast" THEN t ELSE arg[t].q
<1>1. t = current /\ sc[t] = "none" /\ UNCHANGED <<current, killq, freed, cpuState, isr>> /\ ~irqExec'
  BY DEF EventNotifyAct, EventBroadcastStep, KillBroadcast, Running, deadVars, irqVars, CoopInv, ControlInv
<1>2. pc \in [Threads -> Labels] /\ arg \in [Threads -> Args]
  BY DEF CoopInv, TypeOK
<1>3. \A v \in ToSet(wake) : arg'[v] = arg[v]
  <2>1. t \notin ToSet(wake)
    BY <1>1 DEF EventNotifyAct, EventBroadcastStep, KillBroadcast, Running, CoopInv, PlaceInv
  <2>2. \A v \in Threads \ {t} : arg'[v] = arg[v]
    BY <1>2 DEF EventNotifyAct, EventBroadcastStep, KillBroadcast, Return
  <2>3. QED
    BY <2>1, <2>2, TimerOwners DEF CoopInv
<1>4. q \in QueueIds
  BY <1>2 DEF Args, QueueIds
<1>5. UNCHANGED flags \/ (queue[q] # <<>> /\ WakeHead(q, ec, "rq", "NULL"))
  <2>1. CASE EventNotifyAct(t)
    BY <1>1, <2>1 DEF EventNotifyAct, Running
  <2>2. CASE EventBroadcastStep(t)
    <3>1. BroadcastStep(q)
      BY <2>2 DEF EventBroadcastStep, Running
    <3>2. QED
      BY <1>4, <3>1, BroadcastRounds
  <2>3. CASE KillBroadcast(t)
    <3>1. BroadcastStep(q)
      BY <2>3 DEF KillBroadcast, Running
    <3>2. QED
      BY <1>4, <3>1, BroadcastRounds
  <2>4. QED
    BY <2>1, <2>2, <2>3
<1>6. CASE UNCHANGED flags
  BY <1>6 DEF Has
<1>7. CASE queue[q] # <<>> /\ WakeHead(q, ec, "rq", "NULL")
  <2>1. PICK w \in Threads : Rouse(w) /\ w \in ToSet(wake)
    BY <1>1, <1>3, <1>4, <1>7, NotifyRouses
  <2>2. QED
    BY <2>1 DEF Rouse, Readied, Lasting
<1>8. QED
  BY <1>5, <1>6, <1>7

\* The rest of a call leaves it as it is, but for its own wait().
LEMMA ContinueSpares ==
    ASSUME Cooperative, CoopInv, NEW t \in Threads, Continue(t),
           NEW u \in Threads, u \notin ToSet(wake), pc[u] \in Waits \cup {"app"}
    PROVE  Spared(u)
<1>1. t = current /\ sc[t] = "none"
  BY DEF Continue, IdleLoop, ThreadCreated, WaitResched, WaitStop, SignalAdd, SignalOnRq, KillResched, KillStop, KillJoin,
     KillBroadcast, KillQueue, EventBroadcastYield, EvCheck, EvEnqueue, EvReturn, JoinWait, EventNotifyAct, EventBroadcastStep, Running
<1>2. sc \in [Threads -> Phases] /\ flags \in [Threads -> SUBSET Flags] /\ pc \in [Threads -> Labels]
  BY DEF CoopInv, TypeOK
<1>3. \A v \in Threads : sc'[v] = "uncreated" <=> sc[v] = "uncreated"
  BY <1>1, <1>2 DEF Continue, IdleLoop, ThreadCreated, WaitResched, WaitStop, SignalAdd, SignalOnRq, KillResched, KillStop, KillJoin,
     KillBroadcast, KillQueue, EventBroadcastYield, EvCheck, EvEnqueue, EvReturn, JoinWait, EventNotifyAct, EventBroadcastStep,
     CallSchedule, RawEventWaitCheck, PreemptEnable, ForgetSignal, Cooperative
<1>4. CASE WaitResched(t)
  BY <1>1, <1>2, <1>3, <1>4 DEF WaitResched, Goto, Running, Spared, Has, Lasting
<1>5. CASE WaitStop(t)
  BY <1>1, <1>2, <1>3, <1>5 DEF WaitStop, Return, Running, Spared, Has, Lasting
<1>6. CASE ~(WaitResched(t) \/ WaitStop(t))
  <2>1. \A v \in Threads \ {t} : pc'[v] = pc[v]
    BY <1>2, <1>6 DEF Continue, IdleLoop, ThreadCreated, SignalAdd, SignalOnRq, KillResched, KillStop, KillJoin,
       KillBroadcast, KillQueue, EventBroadcastYield, EvCheck, EvEnqueue, EvReturn, JoinWait, EventNotifyAct, EventBroadcastStep,
       RawEventWaitCheck, ForgetSignal, Goto, Return, callVars
  <2>2. u # t
    BY <1>1, <1>6 DEF Continue, IdleLoop, ThreadCreated, SignalAdd, SignalOnRq, KillResched, KillStop, KillJoin,
       KillBroadcast, KillQueue, EventBroadcastYield, EvCheck, EvEnqueue, EvReturn, JoinWait, EventNotifyAct, EventBroadcastStep,
       Running, Waits
  <2>3. CASE EventNotifyAct(t) \/ EventBroadcastStep(t) \/ KillBroadcast(t)
    BY <1>3, <2>1, <2>2, <2>3, NotifyingSpares DEF Spared
  <2>4. CASE SignalAdd(t)
    <3>1. u # arg[t].tp \/ Has(u, "RUNNING")
      BY <1>1, <2>4 DEF SignalAdd, Running, CoopInv, FlagsInv, Marked
    <3>2. \A f \in Lasting \cup {"RUNNING"} : Has(u, f)' <=> Has(u, f)
      BY <1>2, <2>4, <3>1 DEF SignalAdd, Has, Lasting
    <3>3. QED
      BY <1>3, <2>1, <2>2, <3>2 DEF Spared
  <2>5. CASE ~(EventNotifyAct(t) \/ EventBroadcastStep(t) \/ KillBroadcast(t) \/ SignalAdd(t))
    <3>1. \A f \in Lasting \cup {"RUNNING"} : Has(u, f)' <=> Has(u, f)
      BY <1>2, <1>6, <2>2, <2>5 DEF Continue, IdleLoop, ThreadCreated, SignalOnRq, KillResched, KillStop, KillJoin,
         KillQueue, EventBroadcastYield, EvCheck, EvEnqueue, EvReturn, JoinWait, ForgetSignal, Has, Lasting
    <3>2. QED
      BY <1>3, <2>1, <2>2, <3>1 DEF Spared
  <2>6. QED
    BY <2>3, <2>4, <2>5
<1>7. QED
  BY <1>4, <1>5, <1>6

\* The running thread is marked as being on the run queue, except at boot.
OnRq == current # Idle => on_rq[current]

\* Only a switch changes the running thread, and it marks both.
LEMMA KernelOnRq ==
    ASSUME Cooperative, CoopInv, OnRq, Kernel, pc[current] # "signal_add"
    PROVE  OnRq'
<1>1. PICK t \in Threads : Schedule(t) \/ Continue(t)
  BY DEF Kernel
<1>2. on_rq \in [Threads -> BOOLEAN] /\ current \in Threads
  BY DEF CoopInv, TypeOK
<1>3. ASSUME UNCHANGED current, NEW x, on_rq' = [on_rq EXCEPT ![x] = TRUE] \/ on_rq' = on_rq
      PROVE  OnRq'
  BY <1>2, <1>3 DEF OnRq
<1>4. ASSUME NEW q, NEW e, NEW timer, WakeHead(q, e, "raw", timer) \/ WakeHead(q, e, "rq", timer)
      PROVE  \E x : on_rq' = [on_rq EXCEPT ![x] = TRUE]
  BY <1>4 DEF WakeHead, RawRqAddThread, RqAddThread
<1>5. CASE SwitchContext(t)
  <2>1. sc[current] = "signal"
    BY <1>5 DEF SwitchContext
  <2>2. /\ NextRunnable \in Threads /\ Has(NextRunnable, "RUNNING")
        /\ NextRunnable \in ToSet(runq) \/ (NextRunnable = current /\ current = Idle)
    BY <2>1, NextRuns
  <2>3. pc[current] \in Outside
    BY <1>2, <2>1 DEF CoopInv, ControlInv
  <2>4. NextRunnable # Idle => NextRunnable # current /\ on_rq[NextRunnable]
    BY <2>2, <2>3 DEF CoopInv, RunInv, Marked, Added, Outside
  <2>5. current' = NextRunnable /\ \A v \in Threads \ {current} : on_rq'[v] = on_rq[v]
    BY <1>2, <1>5 DEF SwitchContext
  <2>6. QED
    BY <2>2, <2>4, <2>5 DEF OnRq
<1>6. CASE SleepTimeout(t) \/ EventTimeout(t) \/ SignalThread(t)
  <2>1. UNCHANGED current
    BY <1>6 DEF SleepTimeout, EventTimeout, SignalThread
  <2>2. \E x : on_rq' = [on_rq EXCEPT ![x] = TRUE] \/ on_rq' = on_rq
    BY <1>4, <1>6 DEF SleepTimeout, EventTimeout, SignalThread, RawRqAddThread
  <2>3. QED
    BY <1>3, <2>1, <2>2
<1>7. CASE EventNotifyAct(t) \/ EventBroadcastStep(t) \/ KillBroadcast(t) \/ RemoteKillBroadcast(t)
  <2>1. UNCHANGED current
    BY <1>7 DEF EventNotifyAct, EventBroadcastStep, KillBroadcast, RemoteKillBroadcast
  <2>2. \E x : on_rq' = [on_rq EXCEPT ![x] = TRUE] \/ on_rq' = on_rq
    BY <1>4, <1>7 DEF EventNotifyAct, EventBroadcastStep, KillBroadcast, RemoteKillBroadcast, BroadcastStep
  <2>3. QED
    BY <1>3, <2>1, <2>2
<1>8. CASE SignalOnRq(t)
  BY <1>3, <1>8 DEF SignalOnRq
<1>9. CASE UNCHANGED <<current, on_rq>>
  BY <1>9 DEF OnRq
<1>10. ~SignalAdd(t)
  BY DEF SignalAdd, Running
<1>11. QED
  BY <1>1, <1>5, <1>6, <1>7, <1>8, <1>9, <1>10 DEF Schedule, ClockDone, KeepCurrent, ScheduleTail, RemoteKillIf,
     Continue, IdleLoop, ThreadCreated, WaitResched, WaitStop, KillResched, KillStop, KillJoin,
     KillQueue, EventBroadcastYield, EvCheck, EvEnqueue, EvReturn, JoinWait, ForgetSignal, rqVars

----------------------------------------------------------------------------
(* Where an event of a waiter can come from *)

\* One thread of q at least has an event.
HasEvents(q) == \E w \in InQ(q) : ec[w] > 0

\* Who has an event after a step had it before, or waits in the queue of one who had.
Hands ==
    \A u \in Threads : ec'[u] > 0 =>
        ec[u] > 0 \/ \E q \in QueueIds, w \in Threads : ec[w] > 0 /\ {u, w} \subseteq InQ(q)

\* queue_remove_thread hands the events of the head to the next of the queue.
LEMMA DequeueHands ==
    ASSUME TypeOK, NEW q \in QueueIds, NEW i \in 1..Len(queue[q]),
           NEW e \in [Threads -> Nat], \A u \in Threads : e[u] <= ec[u], Dequeue(q, i, e)
    PROVE  Hands
<1>1. PICK s \in Seq(Threads) : s = queue[q]
  BY DEF TypeOK
<1>2. ec \in [Threads -> Nat] /\ ec' = HandOver(e, s, i) /\ Len(s) \in Nat /\ i \in 1..Len(s)
  BY <1>1, LenProperties DEF TypeOK, Dequeue
<1>3. ASSUME NEW u \in Threads, ec'[u] > 0
      PROVE  e[u] > 0 \/ (i < Len(s) /\ u = s[i + 1] /\ s[i] \in Threads /\ e[s[i]] > 0)
  <2>1. s[i] \in Threads
    BY <1>2, ElementOfSeq
  <2>2. CASE e[s[i]] = 0
    BY <1>2, <1>3, <2>2 DEF HandOver
  <2>3. CASE e[s[i]] # 0
    <3>1. ec' = [t \in Threads |-> IF t = s[i] THEN 0 ELSE IF i < Len(s) /\ t = s[i + 1] THEN e[s[i]] ELSE e[t]]
      BY <1>2, <2>3 DEF HandOver
    <3>2. e[s[i]] > 0
      BY <2>1, <2>3
    <3>3. QED
      BY <1>3, <2>1, <3>1, <3>2
  <2>4. QED
    BY <2>2, <2>3
<1>4. ASSUME i < Len(s)
      PROVE  {s[i], s[i + 1]} \subseteq InQ(q)
  <2>1. i \in 1..Len(s) /\ i + 1 \in 1..Len(s)
    BY <1>2, <1>4
  <2>2. QED
    BY <1>1, <2>1, ElementPlace DEF InQ
<1>5. ASSUME NEW u \in Threads, ec'[u] > 0
      PROVE  ec[u] > 0 \/ \E p \in QueueIds, w \in Threads : ec[w] > 0 /\ {u, w} \subseteq InQ(p)
  <2>1. \A w \in Threads : e[w] > 0 => ec[w] > 0
    BY <1>2
  <2>2. QED
    BY <1>3, <1>4, <1>5, <2>1
<1>6. QED
  BY <1>5 DEF Hands

\* So do the wakeups of a head.
LEMMA WakeHeadHands ==
    ASSUME TypeOK, NEW q \in QueueIds, queue[q] # <<>>, NEW e \in [Threads -> Nat], \A u \in Threads : e[u] <= ec[u],
           NEW add, NEW timer, WakeHead(q, e, add, timer)
    PROVE  Hands
<1>1. queue[q] \in Seq(Threads)
  BY DEF TypeOK
<1>2. 1 \in 1..Len(queue[q])
  BY <1>1, LenProperties, EmptySeq
<1>3. Dequeue(q, 1, e)
  BY DEF WakeHead
<1>4. QED
  BY <1>2, <1>3, DequeueHands

\* A step that leaves the counters alone
LEMMA SameHands ==
    ASSUME UNCHANGED ec
    PROVE  Hands
BY DEF Hands

\* A timeout hands on the events of the waiter.
LEMMA EventTimeoutHands ==
    ASSUME Cooperative, CoopInv, NEW t \in Threads, EventTimeout(t)
    PROVE  Hands
<1>1. timers \in Seq(Timer) /\ timers # <<>> /\ Sole(timers)
  BY DEF CoopInv, TypeOK, TimerInv, EventTimeout, Expired
<1>2. PICK r \in Timer : r = Head(timers) /\ r \in ToSet(timers)
  BY <1>1, TailDrops, TimerOwners DEF CoopInv
<1>3. r.fn = "event" /\ r.tp \in Threads /\ r.q \in QueueIds
  BY <1>2 DEF EventTimeout, Timer
<1>4. TypeOK /\ ec \in [Threads -> Nat] /\ queue[r.q] \in Seq(Threads)
  BY <1>3 DEF CoopInv, TypeOK
<1> DEFINE at == {i \in 1..Len(queue[r.q]) : queue[r.q][i] = r.tp /\ tmr[r.tp] = "SET"}
<1>5. CASE at = {}
  BY <1>2, <1>5, SameHands DEF EventTimeout, evVars
<1>6. CASE at # {}
  <2>1. at \subseteq Nat
    BY <1>4, LenProperties
  <2>2. First(at) \in at
    BY <1>6, <2>1, FirstExists
  <2>3. PICK i \in 1..Len(queue[r.q]) : i = First(at)
    BY <2>2
  <2>4. Dequeue(r.q, i, ec)
    BY <1>2, <1>6, <2>3 DEF EventTimeout
  <2>5. \A u \in Threads : ec[u] <= ec[u]
    BY <1>4
  <2>6. QED
    BY <1>3, <1>4, <2>4, <2>5, DequeueHands
<1>7. QED
  BY <1>5, <1>6

\* rq_signal_threads takes one event off the counter of the head.
LEMMA SignalThreadHands ==
    ASSUME Cooperative, CoopInv, NEW t \in Threads, SignalThread(t)
    PROVE  Hands
<1>1. Pending \subseteq Nat /\ scan \in Seq(Threads) /\ TypeOK
  BY DEF Pending, CoopInv, TypeOK
<1>2. Pending # {}
  BY DEF SignalThread
<1>3. First(Pending) \in Pending
  BY <1>1, <1>2, FirstExists
<1>4. PICK it \in Threads : it = scan[First(Pending)] /\ ec[it] > 0
  BY <1>1, <1>3, ElementOfSeq DEF Pending
<1>5. PICK q \in QueueIds : q = arg[it].q
  BY <1>1 DEF TypeOK, Args
<1>6. it \in ToSet(queue[q]) /\ queue[q] \in Seq(Threads)
  BY <1>4, <1>5 DEF CoopInv, EventInv, TypeOK
<1>7. queue[q] # <<>>
  BY <1>6, ElementPlace, EmptySeq
<1>8. PICK e : e = [ec EXCEPT ![it] = @ - 1]
  OBVIOUS
<1>9. ec \in [Threads -> Nat]
  BY <1>1 DEF TypeOK
<1>10. e \in [Threads -> Nat] /\ \A u \in Threads : e[u] = IF u = it THEN ec[u] - 1 ELSE ec[u]
  BY <1>4, <1>8, <1>9
<1>11. \A u \in Threads : e[u] <= ec[u]
  BY <1>9, <1>10
<1>12. WakeHead(q, e, "raw", "SET")
  BY <1>4, <1>5, <1>7, <1>8 DEF SignalThread
<1>13. QED
  BY <1>1, <1>7, <1>10, <1>11, <1>12, WakeHeadHands

\* A round of a broadcast hands the events on.
LEMMA BroadcastHands ==
    ASSUME CoopInv, NEW q \in QueueIds, BroadcastStep(q)
    PROVE  Hands
<1>1. TypeOK /\ ec \in [Threads -> Nat]
  BY DEF CoopInv, TypeOK
<1>2. CASE UNCHANGED ec
  BY <1>2, SameHands
<1>3. CASE queue[q] # <<>> /\ WakeHead(q, ec, "rq", "NULL")
  BY <1>1, <1>3, WakeHeadHands
<1>4. QED
  BY <1>2, <1>3, BroadcastRounds

\* What the kernel does to the counters: a signal that came before the thread
\* was in the queue becomes its event, and the events of who leaves go to the next.
LEMMA KernelHands ==
    ASSUME Cooperative, CoopInv, NEW t \in Threads, Schedule(t) \/ Continue(t)
    PROVE  Hands \/ (Running(t, "ev_enqueue") /\ \A u \in Threads : ec'[u] > 0 => ec[u] > 0 \/ (u = t /\ arg[t].q \in sig))
<1>1. ec \in [Threads -> Nat] /\ arg \in [Threads -> Args] /\ TypeOK
  BY DEF CoopInv, TypeOK
<1>2. CASE EventTimeout(t)
  BY <1>2, EventTimeoutHands
<1>3. CASE SignalThread(t)
  BY <1>3, SignalThreadHands
<1>4. CASE KillBroadcast(t) \/ RemoteKillBroadcast(t) \/ EventBroadcastStep(t)
  <2>1. t \in QueueIds /\ arg[t].q \in QueueIds
    BY <1>1 DEF QueueIds, Args
  <2>2. QED
    BY <1>4, <2>1, BroadcastHands DEF KillBroadcast, RemoteKillBroadcast, EventBroadcastStep
<1>5. CASE EventNotifyAct(t)
  <2>1. arg[t].q \in QueueIds
    BY <1>1 DEF Args
  <2>2. CASE queue[arg[t].q] # <<>> /\ WakeHead(arg[t].q, ec, "rq", "NULL")
    BY <1>1, <2>1, <2>2, WakeHeadHands
  <2>3. CASE UNCHANGED ec
    BY <2>3, SameHands
  <2>4. QED
    BY <1>5, <2>2, <2>3 DEF EventNotifyAct, evVars
<1>6. CASE EvEnqueue(t)
  BY <1>1, <1>6 DEF EvEnqueue
<1>7. CASE SleepTimeout(t) \/ ClockDone(t) \/ KeepCurrent(t) \/ SwitchContext(t) \/ ScheduleTail(t) \/ RemoteKillIf(t)
  <2>1. UNCHANGED ec
    BY <1>7 DEF SleepTimeout, ClockDone, KeepCurrent, SwitchContext, ScheduleTail, RemoteKillIf, evVars, LeaveOrLoop
  <2>2. QED
    BY <2>1, SameHands
<1>8. CASE \/ IdleLoop(t) \/ ThreadCreated(t) \/ WaitResched(t) \/ WaitStop(t) \/ SignalAdd(t) \/ SignalOnRq(t)
           \/ KillResched(t) \/ KillStop(t) \/ KillJoin(t) \/ KillQueue(t) \/ EvCheck(t) \/ EvReturn(t) \/ JoinWait(t)
           \/ EventBroadcastYield(t)
  <2>1. UNCHANGED ec
    BY <1>8 DEF IdleLoop, ThreadCreated, WaitResched, WaitStop, SignalAdd, SignalOnRq, KillResched, KillStop, KillJoin,
       KillQueue, EvCheck, EvReturn, JoinWait, EventBroadcastYield, evVars, ForgetSignal
  <2>2. QED
    BY <2>1, SameHands
<1>9. QED
  BY <1>2, <1>3, <1>4, <1>5, <1>6, <1>7, <1>8 DEF Schedule, Continue

\* An event of a thread of q comes from one of q, or from a signal of q.
LEMMA KernelPosts ==
    ASSUME Cooperative, CoopInv, CoopInv', Kernel, NEW q \in Queues, HasEvents(q)'
    PROVE  HasEvents(q) \/ (q \in sig /\ \E u \in Threads : Running(u, "ev_enqueue") /\ arg[u].q = q)
<1>1. q \in QueueIds
  BY DEF QueueIds
<1>2. PICK t \in Threads : Schedule(t) \/ Continue(t)
  BY DEF Kernel
<1>3. InQ(q)' \subseteq Threads
  <2>1. queue'[q] \in Seq(Threads)
    BY <1>1 DEF CoopInv, TypeOK
  <2>2. QED
    BY <2>1, EmptyList DEF InQ
<1>4. PICK u \in Threads : u \in InQ(q)' /\ ec'[u] > 0
  BY <1>3 DEF HasEvents
<1>5. u \in InQ(q) \/ (pc[u] = "ev_enqueue" /\ arg[u].q = q)
  BY <1>4, KernelTame DEF Tame
<1>6. ASSUME NEW w \in Threads, ec[w] > 0, u = w \/ \E p \in QueueIds : {u, w} \subseteq InQ(p)
      PROVE  HasEvents(q)
  <2>1. w \in InQ(arg[w].q) /\ arg[w].q \in QueueIds
    <3>1. w \in ToSet(wake) /\ arg[w].q \in QueueIds
      BY <1>6 DEF CoopInv, EventInv, TypeOK, Args
    <3>2. QED
      BY <3>1, InQueue
  <2>2. u \in InQ(arg[w].q)
    BY <1>6, <2>1, InQueue
  <2>3. u \in InQ(q)
    <3>1. pc[u] = "ev_return"
      BY <2>1, <2>2, InQueue
    <3>2. QED
      BY <1>5, <3>1
  <2>4. arg[w].q = q
    BY <1>1, <2>1, <2>2, <2>3, InQueue
  <2>5. QED
    BY <1>6, <2>1, <2>4 DEF HasEvents
<1>7. CASE Hands
  BY <1>4, <1>6, <1>7 DEF Hands
<1>8. CASE Running(t, "ev_enqueue") /\ \A v \in Threads : ec'[v] > 0 => ec[v] > 0 \/ (v = t /\ arg[t].q \in sig)
  <2>1. CASE ec[u] > 0
    BY <1>6, <2>1
  <2>2. CASE u = t /\ arg[t].q \in sig
    <3>1. pc[u] = "ev_enqueue"
      BY <1>8, <2>2 DEF Running
    <3>2. u \notin InQ(q)
      BY <1>1, <3>1, InQueue
    <3>3. QED
      BY <1>5, <1>8, <2>2, <3>2
  <2>3. QED
    BY <1>4, <1>8, <2>1, <2>2
<1>9. QED
  BY <1>2, <1>7, <1>8, KernelHands
=============================================================================
