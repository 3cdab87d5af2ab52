----------------------------- MODULE MCClasses -----------------------------
(***************************************************************************)
(* The scheduling classes for TLC.                                         *)
(***************************************************************************)
EXTENDS Classes

Symmetry == Permutations(Threads \ {Idle})

\* Both classes; without preemption CONFIG_SCHED_FAIR decides nothing.
Kernels == [class : {"edf", "lottery"}, preempt : {TRUE}, fair : BOOLEAN]
           \cup [class : {"edf", "lottery"}, preempt : {FALSE}, fair : {FALSE}]
=============================================================================
