------------------------------- MODULE MCHeap -------------------------------
(* Instances of Heap small enough for TLC. *)
EXTENDS Heap

\* Two regions that touch and a third that does not; on an AVR a header is
\* four bytes, two of which an allocated node keeps.
MCBlocks == {[addr |-> 1, size |-> 12], [addr |-> 13, size |-> 8], [addr |-> 23, size |-> 6]}
OneBlock == {[addr |-> 1, size |-> 24]}
=============================================================================
