----------------------------- MODULE IrqThread -----------------------------
(***************************************************************************)
(* A threaded interrupt: kernel/irq/{irq,handle}.c, the irq_thread         *)
(* functions of kernel/sched/core.c, and the external interrupts and their *)
(* software triggers of arch/avr/kernel/{extirq,irq}.c, on top of the      *)
(* scheduler.  A thread requests the interrupt; its handler runs in a      *)
(* thread of its own, which the hard interrupt puts on the run queue.      *)
(*                                                                         *)
(* The hardware is external: an edge on the pin that the interrupt is      *)
(* sensitive to sets a flag, which stays until the interrupt is taken.     *)
(***************************************************************************)
EXTENDS Sched

CONSTANT ithread    \* the thread irq_request creates

ASSUME IthreadAssumption == ithread \in Threads \ {Idle, Main}

VARIABLES
    irq,    \* struct irq_data: the edges in its flags, IRQ_ENABLE_FLAG, pin and value;
            \* and the edges EICRA makes the hardware sensitive to
    intf,   \* the flag of the external interrupt (EIFR)
    qpc,    \* how far a thread is in a call on interrupts, or in irq_handle_fn
    came    \* history: the interrupts since the handler began last, "woken" if
            \* one found the thread off the run queue, else "missed" if any came

irqThreadVars == <<irq, intf, qpc, came>>

Edges == {"falling", "rising"}
NoIrq == [edges |-> {}, sense |-> {}, enabled |-> FALSE, pin |-> FALSE, value |-> FALSE]

QAt(t, label) == Running(t, "app") /\ qpc[t] = label
QGoto(t, label) == qpc' = [qpc EXCEPT ![t] = label]

----------------------------------------------------------------------------
(* irq.c *)

\* irq_request: irq_request_threaded_irq
IrqRequest(t) ==
    /\ QAt(t, "out") /\ irq = NoIrq /\ \A u \in Threads : qpc[u] # "request"
    /\ ThreadCreate(t, ithread)
    /\ qpc' = [qpc EXCEPT ![t] = "request", ![ithread] = "loop"]
    /\ UNCHANGED <<irq, intf, came>>

\* irq_request once it has its thread, and cpu_request_irq: falling edges are
\* looked at first, and hide the rising ones; no direction at all stands for both.
IrqRequested(t, dir) ==
    /\ QAt(t, "request")
    /\ irq' = [irq EXCEPT !.edges = IF dir = {} THEN Edges ELSE dir,
                          !.sense = IF dir = {} THEN Edges
                                    ELSE IF "falling" \in dir THEN {"falling"} ELSE dir,
                          !.enabled = TRUE]
    /\ QGoto(t, "out")
    /\ UNCHANGED <<vars, intf, came>>

\* irq_assign_pin: gpio_direction_output pulls the pin down
IrqAssignPin(t) ==
    /\ QAt(t, "out") /\ irq.enabled /\ ~irq.pin
    /\ irq' = [irq EXCEPT !.pin = TRUE, !.value = FALSE]
    /\ UNCHANGED <<vars, intf, qpc, came>>

\* cpu_trigger_irq writes these levels to the pin, one after the other.
Written ==
    IF irq.edges = Edges THEN <<~irq.value>>
    ELSE LET level == irq.edges = {"rising"}
         IN  IF irq.value = level THEN <<~level, level>> ELSE <<level>>

\* The edges that a sequence of levels makes, from the level the pin has
EdgesOf(levels) ==
    {IF levels[i] THEN "rising" ELSE "falling" :
        i \in {j \in 1..Len(levels) :
                  levels[j] # IF j = 1 THEN irq.value ELSE levels[j - 1]}}

\* irq_soft_trigger
IrqSoftTrigger(t) ==
    /\ QAt(t, "out") /\ irq.pin
    /\ irq' = [irq EXCEPT !.value = Last(Written)]
    /\ intf' = (intf \/ EdgesOf(Written) \cap irq.sense # {})
    /\ UNCHANGED <<vars, qpc, came>>

\* A device makes an edge on the pin, when software has not taken it.
DeviceEdge ==
    /\ irq.enabled /\ ~irq.pin /\ ~intf
    /\ intf' = TRUE
    /\ UNCHANGED <<vars, irq, qpc, came>>

----------------------------------------------------------------------------
(* handle.c and core.c *)

IrqThreadSignal_Twice ==
    /\ flags' = [[flags EXCEPT ![ithread] = (@ \cup {"RUNNING"}) \ {"WAITING"}] EXCEPT
                    ![current] = @ \cup {"PREEMPT_NEED_RESCHED"}]
    /\ RawRqAddThread(ithread)
    /\ came' = "woken"

\* irq_thread_signal
IrqThreadSignal ==
    \/ /\ on_rq[ithread]
       /\ came' = IF came = "no" THEN "missed" ELSE came
       /\ UNCHANGED <<flags, runq, num, on_rq>>
    \/ /\ ~on_rq[ithread]
       /\ flags' = [[flags EXCEPT ![ithread] = (@ \cup {"RUNNING"}) \ {"WAITING"}] EXCEPT
                       ![current] = @ \cup {"PREEMPT_NEED_RESCHED"}]
       /\ RawRqAddThread(ithread)
       /\ came' = "woken"

\* The vector of the external interrupt: irq_handle, irq_handle_hard_irq, and
\* preempt_schedule_irq
ExtIrq ==
    /\ intf /\ IrqsOn
    /\ intf' = FALSE
    /\ IrqThreadSignal
    /\ irqExec' = FALSE
    /\ IF PREEMPT /\ Preemptible THEN PreemptScheduleIrq ELSE UNCHANGED <<sc, isr>>
    /\ UNCHANGED <<current, prio, evVars, tmrVars, deadVars, cpuState, cnt, scan, callVars,
                   irq, qpc>>

\* irq_handle_fn: irq_thread_wait, which is wait() once more
IrqThreadWait(t) ==
    /\ QAt(t, "loop") /\ Wait(t)
    /\ QGoto(t, "wait")
    /\ UNCHANGED <<irq, intf, came>>

\* irq_thread_wait has returned, and irq->handler is called.  (EXIT is set in
\* kill only, which this thread does not call before it has seen it.)
IrqHandler(t) ==
    /\ QAt(t, "wait")
    /\ QGoto(t, "handler")
    /\ came' = "no"
    /\ UNCHANGED <<vars, irq, intf>>

\* The handler returns to the loop.
IrqHandled(t) ==
    /\ QAt(t, "handler")
    /\ QGoto(t, "loop")
    /\ UNCHANGED <<vars, irq, intf, came>>

IrqBegin == irq = NoIrq /\ intf = FALSE /\ qpc = [t \in Threads |-> "out"] /\ came = "no"

IrqContinue(t) == \/ \E dir \in SUBSET Edges : IrqRequested(t, dir)
                  \/ IrqThreadWait(t) \/ IrqHandler(t) \/ IrqHandled(t)
IrqCall(t) == IrqRequest(t) \/ IrqAssignPin(t) \/ IrqSoftTrigger(t)

----------------------------------------------------------------------------
(* Properties *)

\* An interrupt that finds its thread asleep is handled: until the handler
\* runs, the thread is on the run queue or has the CPU, once.  And the handler
\* runs only if one came: irq_thread_wait does not return by itself.
IrqServed ==
    /\ came = "woken" => Cardinality({i \in 1..Len(runq) : runq[i] = ithread})
                            + (IF current = ithread THEN 1 ELSE 0) = 1
    /\ QAt(ithread, "wait") => came = "woken"

\* irq_handle_fn: "Only sleep if there are no events waiting": an IRQ thread
\* that sleeps has handled every interrupt.
SleepsWhenDone == qpc[ithread] = "wait" /\ ~on_rq[ithread] => came = "no"
============================================================================
