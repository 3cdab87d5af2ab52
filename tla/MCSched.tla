------------------------------ MODULE MCSched ------------------------------
(* Instances of Sched small enough for TLC. *)
EXTENDS Sched

CONSTANTS idle, main, t1, t2, ev

ThreeThreads == {idle, main, t1}
FourThreads == {idle, main, t1, t2}

\* The idle thread runs at 255; t2 is more urgent than main and t1.
MCPrio == [t \in Threads |-> IF t = idle THEN 255 ELSE IF t = t2 THEN 1 ELSE 2]

EventOps == {"yield", "create", "raw_event_wait", "event_wait", "event_notify",
             "event_notify_broadcast"}
ThreadOps == {"yield", "create", "kill", "destroy", "join", "sleep", "wait", "signal"}
LiveOps == {"yield", "create", "raw_event_wait", "sleep", "kill"}
SleepOps == {"sleep"}
WaitOps == {"wait", "signal"}
KillOps == {"create", "kill"}
JoinOps == {"create", "kill", "join"}
DestroyOps == {"yield", "create", "join", "destroy"}
NotifyOps == {"create", "raw_event_wait", "event_notify"}
PreemptOps == {"yield", "nice", "create", "raw_event_wait", "event_wait", "sleep",
               "event_notify_broadcast"}
============================================================================
