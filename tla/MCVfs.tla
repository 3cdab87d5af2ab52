------------------------------- MODULE MCVfs -------------------------------
(***************************************************************************)
(* The file system for TLC.  Threads and unused ramfs files are alike.      *)
(***************************************************************************)
EXTENDS Vfs

Symmetry == Permutations(Callers) \cup Permutations(RamFiles)
=============================================================================
