------------------------------- MODULE MCIpc -------------------------------
(* Instances of Ipc small enough for TLC. *)
EXTENDS Ipc

CONSTANTS idle, main, t1, t2, irqt, mtx, cnd, sm, iq, xq, null, m1, m2

AllThreads == {idle, main, t1, t2, irqt}
\* IRQ_THREAD_PRIO is more urgent than the default.
MCPrio == [t \in Threads |-> CASE t = idle -> 255 [] t = irqt -> 1 [] OTHER -> 2]
IpcOps == {"yield", "create", "wait", "raw_event_wait", "event_wait", "event_notify",
           "event_notify_broadcast", "mutex_lock", "mutex_unlock", "cond", "sem", "ipm"}
\* A byte is written, and two are read after a repeated start.
MCTransfers == {<<[rd |-> FALSE, len |-> 1], [rd |-> TRUE, len |-> 2]>>}

IpcSymmetry == Permutations({t1, t2}) \cup Permutations({m1, m2})
============================================================================
