------------------------------ MODULE MCMutex ------------------------------
(* Instances of Mutex small enough for TLC. *)
EXTENDS Mutex

CONSTANTS idle, main, t1, t2, ev, mtx, null

ThreeThreads == {idle, main, t1}
FourThreads == {idle, main, t1, t2}

\* The idle thread runs at 255; t2 is more urgent than main and t1.
MCPrio == [t \in Threads |-> IF t = idle THEN 255 ELSE IF t = t2 THEN 1 ELSE 2]

MutexOps == {"yield", "create", "kill", "sleep", "raw_event_wait", "event_notify",
             "mutex_lock", "mutex_unlock"}
LiveOps == MutexOps \ {"kill"}
============================================================================
