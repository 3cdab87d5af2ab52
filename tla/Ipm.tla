-------------------------------- MODULE Ipm --------------------------------
(***************************************************************************)
(* kernel/sched/ipm.c: a queue of messages on top of the scheduler.  The   *)
(* indices are protected by iq->lock (interrupts off); the test for a full *)
(* queue and the message itself are not.                                   *)
(***************************************************************************)
EXTENDS Sched

CONSTANTS
    ipm,       \* the queue iq->qp
    Messages,  \* what threads send
    NumMsgs    \* iq->num, a uint8_t

ASSUME IpmAssumption == ipm \in Queues /\ NumMsgs \in 0..255

VARIABLES
    msgs,    \* iq->msgs, by index
    wr_idx,  \* iq->wr_idx
    rd_idx,  \* iq->rd_idx
    ipc,     \* how far a thread is in a call on the queue
    slot,    \* the slot ipm_post_msg has in hand
    got,     \* *msg of the ipm_get_msg that got a message last
    ready    \* whether ipm_queue_init has been called

ipmVars == <<msgs, wr_idx, rd_idx, ipc, slot, got, ready>>

NoMsg == "none"
IpmLabels == {"out", "post_slot", "post_fill", "post_notify", "get_wait", "get_again",
              "get_notify", "notifying"}

IpmAt(t, label) == Running(t, "app") /\ ipc[t] = label
IpmGoto(t, label) == ipc' = [ipc EXCEPT ![t] = label]

\* ipm_queue_init
IpmQueueInit(t) ==
    /\ Calls(t, "ipm") /\ ~ready
    /\ ready' = TRUE
    /\ sig' = sig \ {ipm}
    /\ UNCHANGED <<rqVars, flags, wake, queue, ec, tmrVars, deadVars, irqVars, cnt, sc, scan,
                   callVars, msgs, wr_idx, rd_idx, ipc, slot, got>>

\* ipm_queue_is_full
IpmQueueIsFull == wr_idx >= NumMsgs

\* ipm_post_msg: -EINVAL when the queue is full
IpmPost(t) ==
    /\ Calls(t, "ipm") /\ ipc[t] = "out" /\ ready
    /\ ~IpmQueueIsFull
    /\ IpmGoto(t, "post_slot")
    /\ UNCHANGED <<vars, msgs, wr_idx, rd_idx, slot, got, ready>>

\* the locked part
IpmPostSlot(t) ==
    /\ IpmAt(t, "post_slot")
    /\ slot' = [slot EXCEPT ![t] = wr_idx]
    /\ wr_idx' = (wr_idx + 1) % 256
    /\ IpmGoto(t, "post_fill")
    /\ UNCHANGED <<vars, msgs, rd_idx, got, ready>>

\* msg->data, msg->len
IpmPostFill(t, m) ==
    /\ IpmAt(t, "post_fill")
    /\ msgs' = [msgs EXCEPT ![slot[t]] = m]
    /\ IpmGoto(t, "post_notify")
    /\ UNCHANGED <<vars, wr_idx, rd_idx, slot, got, ready>>

IpmPostNotify_Skipped(t) ==
    /\ IpmAt(t, "post_notify")
    /\ IpmGoto(t, "notifying")
    /\ UNCHANGED <<vars, msgs, wr_idx, rd_idx, slot, got, ready>>

\* event_notify(&iq->qp)
IpmPostNotify(t) ==
    /\ IpmAt(t, "post_notify")
    /\ EventNotify(t, ipm)
    /\ IpmGoto(t, "notifying")
    /\ UNCHANGED <<msgs, wr_idx, rd_idx, slot, got, ready>>

IpmTake_KeepsRead(t) ==
    /\ IpmGoto(t, IF rd_idx + 1 # wr_idx THEN "get_notify" ELSE "out")
    /\ got' = msgs[rd_idx]
    /\ UNCHANGED <<vars, msgs, wr_idx, rd_idx, slot, ready>>

\* *msg = iq->msgs[iq->rd_idx], and event_notify if there are more
IpmTake(t) ==
    /\ IpmGoto(t, IF rd_idx + 1 # wr_idx THEN "get_notify" ELSE "out")
    /\ got' = msgs[rd_idx]
    /\ rd_idx' = rd_idx + 1
    /\ UNCHANGED <<vars, msgs, wr_idx, slot, ready>>

\* ipm_get_msg: the first locked part, with a message or without
IpmGet(t) ==
    /\ Calls(t, "ipm") /\ ipc[t] = "out" /\ ready
    /\ rd_idx < wr_idx
    /\ IpmTake(t)

IpmGetEmpty(t) ==
    /\ Calls(t, "ipm") /\ ipc[t] = "out" /\ ready
    /\ rd_idx >= wr_idx
    /\ IpmGoto(t, "get_wait")
    /\ UNCHANGED <<vars, msgs, wr_idx, rd_idx, slot, got, ready>>

\* raw_event_wait(&iq->qp, EVM_WAIT_INFINITE)
IpmGetWait(t) ==
    /\ IpmAt(t, "get_wait")
    /\ RawEventWait(t, ipm, 0)
    /\ IpmGoto(t, "get_again")
    /\ UNCHANGED <<msgs, wr_idx, rd_idx, slot, got, ready>>

\* the second locked part: -EINVAL if the queue is still empty
IpmGetAgain(t) ==
    /\ IpmAt(t, "get_again")
    /\ IF wr_idx = rd_idx
       THEN IpmGoto(t, "out") /\ UNCHANGED <<vars, msgs, wr_idx, rd_idx, slot, got, ready>>
       ELSE IpmTake(t)

IpmGetNotify(t) ==
    /\ IpmAt(t, "get_notify")
    /\ EventNotify(t, ipm)
    /\ IpmGoto(t, "notifying")
    /\ UNCHANGED <<msgs, wr_idx, rd_idx, slot, got, ready>>

\* event_notify has returned
IpmNotified(t) ==
    /\ IpmAt(t, "notifying")
    /\ IpmGoto(t, "out")
    /\ UNCHANGED <<vars, msgs, wr_idx, rd_idx, slot, got, ready>>

IpmReset_KeepsRead(t) ==
    /\ Calls(t, "ipm") /\ ipc[t] = "out" /\ ready
    /\ queue[ipm] = <<>>
    /\ sig' = sig \ {ipm}
    /\ wr_idx' = 0
    /\ UNCHANGED <<rqVars, flags, wake, queue, ec, tmrVars, deadVars, irqVars, cnt, sc, scan,
                   callVars, msgs, rd_idx, ipc, slot, got, ready>>

\* ipm_reset_queue: false while threads wait
IpmReset(t) ==
    /\ Calls(t, "ipm") /\ ipc[t] = "out" /\ ready
    /\ queue[ipm] = <<>>
    /\ sig' = sig \ {ipm}
    /\ wr_idx' = 0 /\ rd_idx' = 0
    /\ UNCHANGED <<rqVars, flags, wake, queue, ec, tmrVars, deadVars, irqVars, cnt, sc, scan,
                   callVars, msgs, ipc, slot, got, ready>>

IpmBegin ==
    /\ msgs = [i \in 0..(NumMsgs - 1) |-> NoMsg] /\ wr_idx = 0 /\ rd_idx = 0 /\ ready = FALSE
    /\ ipc = [t \in Threads |-> "out"] /\ slot = [t \in Threads |-> 0] /\ got = NoMsg

IpmContinue(t) ==
    \/ IpmPostSlot(t) \/ (\E m \in Messages : IpmPostFill(t, m)) \/ IpmPostNotify(t)
    \/ IpmGetWait(t) \/ IpmGetAgain(t) \/ IpmGetNotify(t) \/ IpmNotified(t)

IpmCall(t) == IpmQueueInit(t) \/ IpmPost(t) \/ IpmGet(t) \/ IpmGetEmpty(t) \/ IpmReset(t)

----------------------------------------------------------------------------
(* Properties *)

\* The messages a reader may have: up to the first slot that is not filled yet
Filled == LET open == {slot[t] : t \in {u \in Threads : ipc[u] = "post_fill"}} \cup {wr_idx}
          IN  CHOOSE i \in open : \A j \in open : i <= j
IpmContent == [i \in 1..(Filled - rd_idx) |->
                 IF rd_idx + i <= NumMsgs THEN msgs[rd_idx + i - 1] ELSE NoMsg]

\* ipm_get_msg copies a message into *msg.
IpmGets(t) == IpmGet(t) \/ (IpmGetAgain(t) /\ wr_idx # rd_idx)

\* ipm.c implements a bounded queue: the message that ipm_post_msg stores comes
\* last, ipm_get_msg hands out the first and no other, and once, ipm_reset_queue
\* drops all of them; and nothing else that happens adds a message, loses one or
\* brings one out.
Fifo == INSTANCE AbstractFifo WITH
            Items <- Messages, Capacity <- NumMsgs, content <- IpmContent
ImplementsFifo ==
    /\ Fifo!FifoSpec
    /\ [][/\ \A t \in Threads, m \in Messages : IpmPostFill(t, m) => Fifo!Put(m)
          /\ \A t \in Threads : (IpmGets(t) => Fifo!Take) /\ (IpmReset(t) => Fifo!Clear)
          /\ \/ UNCHANGED <<IpmContent, got>>
             \/ \E t \in Threads :
                   (\E m \in Messages : IpmPostFill(t, m)) \/ IpmGets(t) \/ IpmReset(t)]_ipmVars

\* When there are messages and a reader waits, its wake-up is on the way, or
\* another reader is who will look at the queue.
IpmNoStrandedReader ==
    rd_idx < wr_idx /\ queue[ipm] # <<>> =>
        \/ ec[Head(queue[ipm])] > 0
        \/ \E t \in Threads \ ToSet(queue[ipm]) :
              \/ ipc[t] \in {"post_fill", "post_notify", "get_notify", "get_again"}
              \/ pc[t] = "notify" /\ arg[t].q = ipm
============================================================================
