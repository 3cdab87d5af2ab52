--------------------------- MODULE AbstractLock ---------------------------
(* What mutex_lock and mutex_unlock promise: one holder at a time, which may *)
(* lock again and holds the lock until it has unlocked it as often.          *)
EXTENDS Naturals

CONSTANTS Clients, NoClient

VARIABLES holder, depth

lockVars == <<holder, depth>>

Free == holder = NoClient /\ depth = 0

Acquire(c) == /\ Free \/ holder = c
              /\ holder' = c /\ depth' = depth + 1

Release(c) == /\ holder = c
              /\ depth' = depth - 1
              /\ holder' = IF depth = 1 THEN NoClient ELSE c

LockNext == \E c \in Clients : Acquire(c) \/ Release(c)

LockSpec == Free /\ [][LockNext]_lockVars
===========================================================================
