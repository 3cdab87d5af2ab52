---------------------------- MODULE AbstractFifo ----------------------------
(* What a queue of messages promises: items are handed out in the order in *)
(* which they went in, each of them once, unless the queue is reset.       *)
EXTENDS Naturals, Sequences

CONSTANTS Items, Capacity

VARIABLES
    content,    \* the items that went in and are not handed out yet
    got         \* the item that was handed out last, anything before there is one

fifoVars == <<content, got>>

FifoInit == content = <<>>

Put(m) == Len(content) < Capacity /\ content' = Append(content, m) /\ UNCHANGED got
Take == content # <<>> /\ got' = Head(content) /\ content' = Tail(content)
Clear == content' = <<>> /\ UNCHANGED got

FifoNext == (\E m \in Items : Put(m)) \/ Take \/ Clear

FifoSpec == FifoInit /\ [][FifoNext]_fifoVars
=============================================================================
