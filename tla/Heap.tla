-------------------------------- MODULE Heap --------------------------------
(***************************************************************************)
(* mm/heap.c with its three comparators, and krealloc of the C library.    *)
(*                                                                         *)
(* The free list lives in the memory it manages: a node is a header with   *)
(* its size, and the list is kept in address order so that free can merge  *)
(* neighbours.  Every operation holds mlock with interrupts off and is one *)
(* step; krealloc is several of them, with other callers in between.       *)
(*                                                                         *)
(* MM_ALIGNMENT is 1, so that MM_TOP_ALIGN is the identity.  The guard     *)
(* patterns of CONFIG_MM_GUARD only take room: mm_validate_user_area       *)
(* accepts everything.                                                     *)
(***************************************************************************)
EXTENDS Integers, Sequences, FiniteSets, SequencesExt

CONSTANTS
    Blocks,         \* the regions given to mm_heap_add_block, as nodes
    Requests,       \* the sizes callers ask for
    Alignments,     \* ... and the alignments
    Fits,           \* the allocators in use: "best", "first", "worst"
    SIZEOF_NODE,    \* sizeof(struct heap_node)
    HEAP_OVERHEAD,  \* the part of it that an allocated node keeps
    MM_GUARD_BYTES,
    SIZE_LIMIT,     \* 2^w where size_t has w bits
    Reallocs        \* whether callers use krealloc

Node == [addr : Nat, size : Nat]

End(n) == n.addr + n.size
Bytes(n) == n.addr..(End(n) - 1)

\* The regions a port hands over are different pieces of RAM, and a header fits
\* into each: mm_heap_add_block writes one without a look at the size.
ASSUME BlocksAssumption == /\ Blocks \subseteq Node
                           /\ \A b \in Blocks : b.size >= SIZEOF_NODE
                           /\ \A b, c \in Blocks : b # c => Bytes(b) \cap Bytes(c) = {}
ASSUME RequestsAssumption == /\ Requests \subseteq Nat /\ Alignments \subseteq Nat \ {0}
                             /\ \A a \in Alignments : \E k \in 0..16 : a = 2^k
ASSUME FitsAssumption == Fits \subseteq {"best", "first", "worst"}
ASSUME SizesAssumption == /\ HEAP_OVERHEAD \in Nat /\ SIZEOF_NODE \in Nat
                          /\ HEAP_OVERHEAD < SIZEOF_NODE
                          /\ MM_GUARD_BYTES \in Nat /\ SIZE_LIMIT \in Nat \ {0}
                          /\ Reallocs \in BOOLEAN

VARIABLES
    free,   \* mm_free_list
    used,   \* the allocated nodes, each with the size its caller asked for
    rest,   \* the blocks that have not been added
    re      \* the nodes krealloc has in hand, as <<old, new>>, or <<>>

vars == <<free, used, rest, re>>

FreeNode(n) == [addr |-> n.addr, size |-> n.size]

----------------------------------------------------------------------------
(* raw_mm_heap_alloc *)

HEAP_MIN == SIZEOF_NODE + 2 * MM_GUARD_BYTES

\* The size of the node that serves a request, computed in size_t
Need(size) ==
    LET need == (size + HEAP_OVERHEAD + 2 * MM_GUARD_BYTES) % SIZE_LIMIT
    IN  IF need < SIZEOF_NODE THEN SIZEOF_NODE ELSE need

\* mm_{best,first,worst}_fit_compare, prev = 0 for none
BestFitCompare_NotWorse(l, prev, i) == prev = 0 \/ l[prev].size >= l[i].size
BestFitCompare(l, prev, i) == prev = 0 \/ l[prev].size > l[i].size
FirstFitCompare(l, prev, i) == TRUE
WorstFitCompare(l, prev, i) == prev = 0 \/ l[i].size > l[prev].size

Prefers(fit, l, prev, i) ==
    CASE fit = "best"  -> BestFitCompare(l, prev, i)
      [] fit = "first" -> FirstFitCompare(l, prev, i)
      [] fit = "worst" -> WorstFitCompare(l, prev, i)

\* The place of the node raw_mm_heap_alloc settles on, 0 if there is none: it
\* leaves the walk at a node that fits exactly or that first fit accepts.
Fit(l, need, fit) ==
    LET best[i \in 0..Len(l)] ==
            IF i = 0 THEN 0
            ELSE LET prev == best[i - 1] IN
                 IF prev # 0 /\ (l[prev].size = need \/ fit = "first") THEN prev
                 ELSE IF l[i].size >= need /\ Prefers(fit, l, prev, i) THEN i
                 ELSE prev
    IN  best[Len(l)]

\* Whether what remains of node n can be a node
Splits(n, need) == n.size - need >= HEAP_MIN

\* The caller asked for req bytes; size is what is asked of the free list.
RawHeapAlloc(size, req, fit) ==
    LET need == Need(size)
        p    == Fit(free, need, fit)
        n    == free[p]
    IN
    /\ p # 0
    /\ IF Splits(n, need)
       THEN /\ free' = [free EXCEPT ![p] = [addr |-> n.addr + need, size |-> n.size - need]]
            /\ used' = used \cup {[addr |-> n.addr, size |-> need, req |-> req]}
       ELSE /\ free' = RemoveAt(free, p)
            /\ used' = used \cup {[addr |-> n.addr, size |-> n.size, req |-> req]}

\* mm_alloc, mm_heap_alloc
Alloc(size, fit) == RawHeapAlloc(size, size, fit) /\ UNCHANGED <<rest, re>>

\* mm_alloc_aligned: it is the size that is rounded up
TopAlign(size, a) == ((size + a - 1) \div a) * a
AllocAligned(size, a, fit) == RawHeapAlloc(TopAlign(size, a), size, fit) /\ UNCHANGED <<rest, re>>

----------------------------------------------------------------------------
(* raw_mm_heap_free *)

MergeNext_Never(l, i) == l

\* The node at i grew: it takes in its successor if it now touches it.
MergeNext(l, i) ==
    IF i < Len(l) /\ End(l[i]) = l[i + 1].addr
    THEN RemoveAt([l EXCEPT ![i].size = @ + l[i + 1].size], i + 1)
    ELSE l

\* The places at which the walk through the free list ends
FreeStops_NoCheck(l, f) ==
    {i \in 1..Len(l) : End(l[i]) = f.addr \/ l[i].addr > f.addr}

FreeStops(l, f) ==
    {i \in 1..Len(l) : End(l[i]) = f.addr \/ l[i].addr > f.addr \/ End(l[i]) > f.addr}

\* The free list after f is given back; unchanged where the code returns -EINVAL
RawHeapFree(l, f) ==
    LET i == Min(FreeStops(l, f)) IN
    IF FreeStops(l, f) = {} THEN Append(l, f)
    ELSE IF End(l[i]) = f.addr THEN MergeNext([l EXCEPT ![i].size = @ + f.size], i)
    ELSE IF l[i].addr > f.addr
         THEN IF End(f) = l[i].addr
              THEN [l EXCEPT ![i] = [addr |-> f.addr, size |-> f.size + l[i].size]]
              ELSE InsertAt(l, i, f)
    ELSE l

\* mm_free
Free(n) ==
    /\ n \in used /\ n \notin ToSet(re)
    /\ free' = RawHeapFree(free, FreeNode(n))
    /\ used' = used \ {n}
    /\ UNCHANGED <<rest, re>>

\* mm_free of a region that is free already: its header is anywhere in a free
\* node and holds whatever size it had.
FreeAgain(a, size) ==
    /\ \E i \in 1..Len(free) : a \in free[i].addr..(End(free[i]) - 1)
    /\ free' = RawHeapFree(free, [addr |-> a, size |-> size])
    /\ UNCHANGED <<used, rest, re>>

\* mm_heap_add_block
AddBlock(b) ==
    /\ b \in rest
    /\ free' = RawHeapFree(free, b)
    /\ rest' = rest \ {b}
    /\ UNCHANGED <<used, re>>

----------------------------------------------------------------------------
(* krealloc *)

\* kzalloc(newsize)
Krealloc(old, newsize, fit) ==
    /\ Reallocs /\ re = <<>> /\ old \in used
    /\ RawHeapAlloc(newsize, newsize, fit)
    /\ re' = <<old, CHOOSE n \in used' \ used : TRUE>>
    /\ UNCHANGED rest

\* mm_node_size(old) = newsize: give the new node back and return the old one,
\* which from now on is to hold newsize bytes
KreallocKeep ==
    /\ re # <<>> /\ re[1].size = re[2].req
    /\ free' = RawHeapFree(free, FreeNode(re[2]))
    /\ used' = (used \ ToSet(re)) \cup {[re[1] EXCEPT !.req = re[2].req]}
    /\ re' = <<>>
    /\ UNCHANGED rest

\* otherwise copy, free the old one and return the new one
KreallocMove ==
    /\ re # <<>> /\ re[1].size # re[2].req
    /\ free' = RawHeapFree(free, FreeNode(re[1]))
    /\ used' = used \ {re[1]}
    /\ re' = <<>>
    /\ UNCHANGED rest

----------------------------------------------------------------------------
(* The specification *)

Init == free = <<>> /\ used = {} /\ rest = Blocks /\ re = <<>>

Next ==
    \/ \E b \in rest : AddBlock(b)
    \/ \E size \in Requests, fit \in Fits : Alloc(size, fit)
    \/ \E size \in Requests, a \in Alignments, fit \in Fits : AllocAligned(size, a, fit)
    \/ \E n \in used : Free(n)
    \/ \E i \in 1..Len(free), size \in Requests :
          \E a \in free[i].addr..(End(free[i]) - 1) : FreeAgain(a, size)
    \/ \E old \in used, size \in Requests, fit \in Fits : Krealloc(old, size, fit)
    \/ KreallocKeep \/ KreallocMove

Spec == Init /\ [][Next]_vars

----------------------------------------------------------------------------
(* Properties *)

TypeOK == /\ free \in Seq(Node)
          /\ used \subseteq [addr : Nat, size : Nat, req : Nat]
          /\ rest \subseteq Blocks
          /\ re = <<>> \/ re \in used \X used

Nodes == ToSet(free) \cup {FreeNode(n) : n \in used}

\* The free and the allocated nodes are apart, each of them large enough for a
\* header, and together they are all of the memory that was added: splitting
\* and merging lose no byte, and no caller's memory is handed out again, not
\* even after a second free of the same region.
NoByteLost ==
    /\ \A i, j \in 1..Len(free) : i # j => Bytes(free[i]) \cap Bytes(free[j]) = {}
    /\ \A m, n \in used : m # n => Bytes(m) \cap Bytes(n) = {}
    /\ \A n \in used : \A i \in 1..Len(free) : Bytes(n) \cap Bytes(free[i]) = {}
    /\ \A n \in Nodes : n.size >= SIZEOF_NODE
    /\ UNION {Bytes(n) : n \in Nodes} = UNION {Bytes(b) : b \in Blocks \ rest}

\* The free list is in address order and no two of its nodes touch: what is
\* free in one piece can be allocated in one piece.
Coalesced == \A i \in 1..(Len(free) - 1) : End(free[i]) < free[i + 1].addr

\* mm_alloc returns a region "of size size", and krealloc "the reallocated memory
\* of size newsize".
BigEnough == \A n \in used : n.req + HEAP_OVERHEAD + 2 * MM_GUARD_BYTES <= n.size

\* What the three allocators promise: first fit takes the first node that is
\* large enough, best fit the first of the smallest; worst fit the first of the
\* largest, unless the first that is large enough fits exactly.
FitAsPromised ==
    \A size \in Requests :
        LET need  == Need(size)
            large == {i \in 1..Len(free) : free[i].size >= need}
            least(i, j)   == free[i].size < free[j].size \/ (free[i].size = free[j].size /\ i <= j)
            largest(i, j) == free[i].size > free[j].size \/ (free[i].size = free[j].size /\ i <= j)
        IN  /\ large = {} => \A fit \in Fits : Fit(free, need, fit) = 0
            /\ large # {} =>
                 /\ "first" \in Fits => Fit(free, need, "first") = Min(large)
                 /\ "best" \in Fits =>
                      /\ Fit(free, need, "best") \in large
                      /\ \A j \in large : least(Fit(free, need, "best"), j)
                 /\ "worst" \in Fits =>
                      IF free[Min(large)].size = need
                      THEN Fit(free, need, "worst") = Min(large)
                      ELSE /\ Fit(free, need, "worst") \in large
                           /\ \A j \in large : largest(Fit(free, need, "worst"), j)
=============================================================================
