---------------------------- MODULE Heap_proofs ----------------------------
(***************************************************************************)
(* The heap loses no byte and hands out none twice, for any regions, any   *)
(* requests and any allocator.  The free list is described by the bytes it *)
(* has: allocation takes the bytes of one node out of it, freeing puts     *)
(* them back, and the order of the nodes is what lets a free find its      *)
(* neighbours and recognise a region that is free already.                 *)
(***************************************************************************)
EXTENDS Heap, Lists_proofs

----------------------------------------------------------------------------
(* Free lists *)

In(n, x) == n.addr <= x /\ x < End(n)
Has(l, x) == \E i \in 1..Len(l) : In(l[i], x)

Sizes(l)   == \A i \in 1..Len(l) : l[i].size >= SIZEOF_NODE
Ordered(l) == \A i, j \in 1..Len(l) : i < j => End(l[i]) < l[j].addr

\* A free list as it should be
FreeList(l) == l \in Seq(Node) /\ Sizes(l) /\ Ordered(l)

\* The fields of the nodes of a list
LEMMA NodeFields ==
    ASSUME NEW l \in Seq(Node)
    PROVE  /\ Len(l) \in Nat
           /\ \A k \in 1..Len(l) : /\ l[k] \in Node /\ End(l[k]) = l[k].addr + l[k].size
                                   /\ l[k].addr \in Nat /\ l[k].size \in Nat
<1>1. \A k \in 1..Len(l) : l[k] \in Node
  BY ElementOfSeq
<1>2. QED
  BY <1>1, LenProperties DEF Node, End

\* A header has at least a byte.
LEMMA HeaderSize == SIZEOF_NODE \in Nat /\ SIZEOF_NODE > 0 /\ HEAP_MIN \in Nat /\ HEAP_MIN >= SIZEOF_NODE
BY SizesAssumption DEF HEAP_MIN

\* Bytes as an interval
LEMMA BytesIn ==
    ASSUME NEW n, n.addr \in Nat, n.size \in Nat
    PROVE  Bytes(n) \subseteq Int /\ \A x \in Int : x \in Bytes(n) <=> In(n, x)
BY DEF Bytes, In, End

\* Two nodes that touch, made one
Join(m, n) == [addr |-> m.addr, size |-> m.size + n.size]

\* The joined node has the bytes of both.
LEMMA JoinProperties ==
    ASSUME NEW m, NEW n, m.addr \in Nat, m.size \in Nat, n.addr \in Nat, n.size \in Nat,
           End(m) = n.addr, m.size >= SIZEOF_NODE
    PROVE  /\ Join(m, n) \in Node /\ Join(m, n).addr = m.addr /\ Join(m, n).size >= SIZEOF_NODE
           /\ Join(m, n).size \in Nat
           /\ End(Join(m, n)) = End(n)
           /\ \A x \in Int : In(Join(m, n), x) <=> In(m, x) \/ In(n, x)
<1>. DEFINE j == Join(m, n)
<1>1. j \in Node /\ j.addr = m.addr /\ j.size = m.size + n.size
  BY DEF Join, Node
<1>. HIDE DEF j
<1>2. j.size \in Nat /\ j.size >= SIZEOF_NODE
  BY <1>1, HeaderSize
<1>3. End(j) = m.addr + (m.size + n.size) /\ End(n) = n.addr + n.size /\ End(m) = m.addr + m.size
  BY <1>1 DEF End
<1>4. End(j) = End(n)
  BY <1>3
<1>5. \A x \in Int : In(j, x) <=> In(m, x) \/ In(n, x)
  BY <1>1, <1>3 DEF In
<1>6. QED
  BY <1>1, <1>2, <1>4, <1>5 DEF j

\* A node that grows by the size of n
LEMMA Grow ==
    ASSUME NEW m \in Node, NEW n, n.size \in Nat
    PROVE  [m EXCEPT !.size = m.size + n.size] = Join(m, n)
BY DEF Node, Join

\* A node put in the place of the node at p
LEMMA ReplaceKeeps ==
    ASSUME NEW l, FreeList(l), NEW p \in 1..Len(l), NEW n \in Node, n.size >= SIZEOF_NODE,
           \A k \in 1..Len(l) : (k < p => End(l[k]) < n.addr) /\ (k > p => End(n) < l[k].addr)
    PROVE  LET r == [l EXCEPT ![p] = n] IN
           /\ FreeList(r)
           /\ \A x \in Int : Has(r, x) <=> In(n, x) \/ \E k \in 1..Len(l) : k # p /\ In(l[k], x)
<1>. DEFINE r == [l EXCEPT ![p] = n]
            N == 1..Len(l)
<1>1. l \in Seq(Node) /\ Len(l) \in Nat /\ p \in Nat
  BY NodeFields DEF FreeList
<1>2. r \in Seq(Node) /\ Len(r) = Len(l) /\ r[p] = n /\ \A k \in N : k # p => r[k] = l[k]
  BY <1>1
<1>. HIDE DEF r
<1>3. Sizes(r)
  BY <1>2 DEF FreeList, Sizes
<1>4. Ordered(r)
  <2>. SUFFICES ASSUME NEW i \in N, NEW j \in N, i < j PROVE End(r[i]) < r[j].addr
    BY <1>2 DEF Ordered
  <2>0. i \in Int /\ j \in Int /\ p \in Int
    BY <1>1
  <2>1. CASE i = p
    <3>1. j > p /\ j # p
      BY <2>0, <2>1
    <3>2. QED
      BY <3>1, <2>1, <1>2
  <2>2. CASE j = p
    <3>1. i < p /\ i # p
      BY <2>0, <2>2
    <3>2. QED
      BY <3>1, <2>2, <1>2
  <2>3. CASE i # p /\ j # p
    BY <2>3, <1>2 DEF FreeList, Ordered
  <2>4. QED
    BY <2>1, <2>2, <2>3
<1>5. ASSUME NEW x \in Int PROVE Has(r, x) <=> In(n, x) \/ \E k \in N : k # p /\ In(l[k], x)
  BY <1>2 DEF Has
<1>6. QED
  BY <1>2, <1>3, <1>4, <1>5 DEF FreeList, r

\* A node put in front of the node at p
LEMMA InsertKeeps ==
    ASSUME NEW l, FreeList(l), NEW p \in 1..(Len(l) + 1), NEW n \in Node, n.size >= SIZEOF_NODE,
           \A k \in 1..Len(l) : (k < p => End(l[k]) < n.addr) /\ (k >= p => End(n) < l[k].addr)
    PROVE  LET r == InsertAt(l, p, n) IN
           /\ FreeList(r)
           /\ \A x \in Int : Has(r, x) <=> In(n, x) \/ Has(l, x)
<1>. DEFINE r == InsertAt(l, p, n)
            N == 1..Len(l)
            R == 1..Len(r)
<1>1. l \in Seq(Node) /\ Len(l) \in Nat /\ p \in Nat
  BY NodeFields DEF FreeList
<1>2. r \in Seq(Node) /\ Inserted(l, p, n, r)
  BY <1>1, InsertAtProperties
<1>. HIDE DEF r
<1>3. /\ Len(r) = Len(l) + 1 /\ r[p] = n /\ p \in R
      /\ \A k \in N : Up(p, k) \in R /\ r[Up(p, k)] = l[k]
      /\ \A k \in R : k = p \/ \E j \in N : k = Up(p, j)
  BY <1>2 DEF Inserted
<1>4. Sizes(r)
  <2>. SUFFICES ASSUME NEW k \in R PROVE r[k].size >= SIZEOF_NODE
    BY DEF Sizes
  <2>1. k = p \/ \E j \in N : k = Up(p, j)
    BY <1>3
  <2>2. QED
    BY <2>1, <1>3 DEF FreeList, Sizes
<1>5. \A j, k \in N : /\ Up(p, j) < Up(p, k) => j < k
                      /\ Up(p, j) < p => j < p
                      /\ p < Up(p, j) => j >= p
  <2>. SUFFICES ASSUME NEW j \in N, NEW k \in N
                PROVE  /\ Up(p, j) < Up(p, k) => j < k
                       /\ Up(p, j) < p => j < p
                       /\ p < Up(p, j) => j >= p
    BY Zenon
  <2>1. j \in Int /\ k \in Int /\ p \in Int
    BY <1>1
  <2>. HIDE DEF N
  <2>2. QED
    BY <2>1 DEF Up
<1>6. Ordered(r)
  <2>. SUFFICES ASSUME NEW i \in R, NEW j \in R, i < j PROVE End(r[i]) < r[j].addr
    BY DEF Ordered
  <2>0. ~ (i = p /\ j = p)
    BY <1>1
  <2>1. ASSUME NEW a \in N, i = Up(p, a), j = p PROVE End(r[i]) < r[j].addr
    BY <2>1, <1>3, <1>5
  <2>2. ASSUME NEW a \in N, i = p, j = Up(p, a) PROVE End(r[i]) < r[j].addr
    BY <2>2, <1>3, <1>5
  <2>3. ASSUME NEW a \in N, NEW b \in N, i = Up(p, a), j = Up(p, b) PROVE End(r[i]) < r[j].addr
    BY <2>3, <1>3, <1>5 DEF FreeList, Ordered
  <2>4. (i = p \/ \E a \in N : i = Up(p, a)) /\ (j = p \/ \E b \in N : j = Up(p, b))
    BY <1>3
  <2>. HIDE DEF N, R
  <2>5. QED
    BY <2>0, <2>1, <2>2, <2>3, <2>4, Zenon
<1>7. ASSUME NEW x \in Int PROVE Has(r, x) <=> In(n, x) \/ Has(l, x)
  BY <1>3 DEF Has
<1>8. QED
  BY <1>2, <1>4, <1>6, <1>7 DEF FreeList, r

\* The node at p taken out; only the others need be in order.
LEMMA RemoveKeeps ==
    ASSUME NEW l \in Seq(Node), Sizes(l), NEW p \in 1..Len(l),
           \A i, j \in 1..Len(l) : i # p /\ j # p /\ i < j => End(l[i]) < l[j].addr
    PROVE  LET r == RemoveAt(l, p) IN
           /\ FreeList(r)
           /\ \A x \in Int : Has(r, x) <=> \E k \in 1..Len(l) : k # p /\ In(l[k], x)
<1>. DEFINE r == RemoveAt(l, p)
            N == 1..Len(l)
            R == 1..Len(r)
<1>1. Len(l) \in Nat /\ p \in Nat
  BY NodeFields
<1>2. r \in Seq(Node) /\ Removed(l, p, r)
  BY RemoveAtProperties
<1>. HIDE DEF r
<1>3. /\ Len(r) = Len(l) - 1 /\ Len(r) \in Nat
      /\ \A k \in R : Up(p, k) \in N /\ r[k] = l[Up(p, k)]
      /\ \A k \in N : k = p \/ \E j \in R : k = Up(p, j)
  BY <1>2 DEF Removed
<1>4. Sizes(r)
  BY <1>3 DEF Sizes
<1>5. \A j, k \in R : Up(p, j) # p /\ (j < k => Up(p, j) < Up(p, k))
  <2>. SUFFICES ASSUME NEW j \in R, NEW k \in R
                PROVE  Up(p, j) # p /\ (j < k => Up(p, j) < Up(p, k))
    BY Zenon
  <2>1. j \in Int /\ k \in Int /\ p \in Int
    BY <1>1, <1>3
  <2>. HIDE DEF R
  <2>2. QED
    BY <2>1 DEF Up
<1>6. Ordered(r)
  BY <1>3, <1>5 DEF Ordered
<1>7. ASSUME NEW x \in Int PROVE Has(r, x) <=> \E k \in N : k # p /\ In(l[k], x)
  <2>1. ASSUME NEW k \in R, In(r[k], x) PROVE \E j \in N : j # p /\ In(l[j], x)
    BY <2>1, <1>3, <1>5
  <2>2. ASSUME NEW j \in N, j # p, In(l[j], x) PROVE \E k \in R : In(r[k], x)
    BY <2>2, <1>3
  <2>3. QED
    BY <2>1, <2>2 DEF Has
<1>8. QED
  BY <1>2, <1>4, <1>6, <1>7 DEF FreeList, r

----------------------------------------------------------------------------
(* raw_mm_heap_free *)

\* Where the walk of raw_mm_heap_free ends: no node in front of it reaches f.
LEMMA StopFirst ==
    ASSUME NEW l \in Seq(Node), NEW f \in Node, FreeStops(l, f) # {}
    PROVE  LET i == Min(FreeStops(l, f)) IN
           /\ i \in FreeStops(l, f) /\ i \in 1..Len(l)
           /\ \A k \in 1..Len(l) : k < i => End(l[k]) < f.addr
<1>. DEFINE F == FreeStops(l, f)
            i == Min(F)
<1>1. /\ Len(l) \in Nat /\ f.addr \in Nat
      /\ \A k \in 1..Len(l) : /\ End(l[k]) = l[k].addr + l[k].size
                              /\ l[k].addr \in Nat /\ l[k].size \in Nat
  BY NodeFields DEF Node
<1>2. F \subseteq 1..Len(l)
  BY DEF FreeStops
<1>3. \E x \in F : \A y \in F : x <= y
  BY <1>1, <1>2, LeastExists
<1>4. i \in F /\ \A y \in F : i <= y
  BY <1>3 DEF Min
<1>5. ASSUME NEW k \in 1..Len(l), k < i PROVE End(l[k]) < f.addr
  <2>1. k \notin F
    BY <1>1, <1>2, <1>4, <1>5
  <2>2. QED
    BY <2>1, <1>1 DEF FreeStops
<1>6. QED
  BY <1>2, <1>4, <1>5

\* A node that shares no byte with the list lies on one side of each of its nodes.
LEMMA Beside ==
    ASSUME NEW l, FreeList(l), NEW f \in Node, f.size >= SIZEOF_NODE,
           \A x \in Int : In(f, x) => ~ Has(l, x), NEW k \in 1..Len(l)
    PROVE  End(l[k]) <= f.addr \/ End(f) <= l[k].addr
<1>1. /\ l[k].addr \in Nat /\ l[k].size \in Nat /\ f.addr \in Nat /\ f.size \in Nat
      /\ l[k].size >= SIZEOF_NODE /\ l \in Seq(Node)
  BY NodeFields DEF FreeList, Sizes, Node
<1>2. ~ (In(f, f.addr) /\ In(l[k], f.addr)) /\ ~ (In(f, l[k].addr) /\ In(l[k], l[k].addr))
  BY <1>1 DEF Has
<1>3. QED
  BY <1>1, <1>2, HeaderSize DEF In, End

\* mm_free and mm_heap_add_block: the list gets exactly the bytes of f.
LEMMA FreeKeeps ==
    ASSUME NEW l, FreeList(l), NEW f \in Node, f.size >= SIZEOF_NODE,
           \A x \in Int : In(f, x) => ~ Has(l, x)
    PROVE  LET r == RawHeapFree(l, f) IN
           /\ FreeList(r)
           /\ \A x \in Int : Has(r, x) <=> In(f, x) \/ Has(l, x)
<1>. DEFINE N == 1..Len(l)
            F == FreeStops(l, f)
            i == Min(F)
            r == RawHeapFree(l, f)
<1>1. /\ l \in Seq(Node) /\ Len(l) \in Nat
      /\ \A k \in N : /\ l[k].addr \in Nat /\ l[k].size \in Nat /\ l[k].size >= SIZEOF_NODE
                      /\ End(l[k]) = l[k].addr + l[k].size /\ End(l[k]) \in Nat
      /\ f.addr \in Nat /\ f.size \in Nat /\ End(f) = f.addr + f.size /\ End(f) \in Nat
  BY NodeFields DEF FreeList, Sizes, Node, End
<1>2. \A j, k \in N : j < k => End(l[j]) < l[k].addr
  BY DEF FreeList, Ordered
<1>3. \A k \in N : End(l[k]) <= f.addr \/ End(f) <= l[k].addr
  BY Beside
<1>4. CASE F = {}
  <2>1. r = Append(l, f)
    BY <1>4 DEF RawHeapFree
  <2>2. ASSUME NEW k \in N PROVE End(l[k]) < f.addr
    <3>1. End(l[k]) # f.addr /\ ~ (End(l[k]) > f.addr)
      BY <1>4 DEF FreeStops
    <3>2. End(l[k]) \in Nat /\ f.addr \in Nat
      BY <1>1
    <3>3. QED
      BY <3>1, <3>2
  <2>3. r \in Seq(Node) /\ Len(r) = Len(l) + 1 /\ r[Len(l) + 1] = f /\ \A k \in N : r[k] = l[k]
    BY <2>1, <1>1, AppendProperties
  <2>. HIDE DEF r
  <2>4. \A k \in 1..Len(r) : k = Len(l) + 1 \/ k \in N
    BY <2>3, <1>1
  <2>5. Sizes(r)
    BY <2>3, <2>4, <1>1 DEF Sizes
  <2>6. Ordered(r)
    <3>. SUFFICES ASSUME NEW j \in 1..Len(r), NEW k \in 1..Len(r), j < k PROVE End(r[j]) < r[k].addr
      BY DEF Ordered
    <3>1. j \in N
      BY <2>3, <2>4, <1>1
    <3>2. CASE k = Len(l) + 1
      BY <3>1, <3>2, <2>2, <2>3
    <3>3. CASE k \in N
      BY <3>1, <3>3, <2>3, <1>2
    <3>4. QED
      BY <3>2, <3>3, <2>4
  <2>7. ASSUME NEW x \in Int PROVE Has(r, x) <=> In(f, x) \/ Has(l, x)
    <3>1. Len(l) + 1 \in 1..Len(r) /\ \A k \in N : k \in 1..Len(r)
      BY <2>3, <1>1
    <3>2. QED
      BY <3>1, <2>3, <2>4 DEF Has
  <2>8. QED
    BY <2>3, <2>5, <2>6, <2>7 DEF FreeList, r
<1>5. CASE F # {}
  <2>1. i \in F /\ i \in N /\ \A k \in N : k < i => End(l[k]) < f.addr
    BY <1>1, <1>5, StopFirst
  <2>2. i \in Int /\ \A k \in N : k \in Int
    BY <1>1, <2>1
  <2>. HIDE DEF i
  <2>3. CASE End(l[i]) = f.addr
    <3>. DEFINE n == Join(l[i], f)
                m == [l EXCEPT ![i] = n]
    <3>1. /\ n \in Node /\ n.addr = l[i].addr /\ n.size >= SIZEOF_NODE /\ n.size \in Nat
          /\ End(n) = End(f) /\ End(n) \in Nat /\ n.addr \in Nat
          /\ \A x \in Int : In(n, x) <=> In(l[i], x) \/ In(f, x)
      BY <1>1, <2>1, <2>3, JoinProperties
    <3>2. r = MergeNext(m, i)
      <4>1. [l EXCEPT ![i].size = @ + f.size] = m
        <5>1. [l[i] EXCEPT !.size = l[i].size + f.size] = n
          BY <1>1, <2>1, NodeFields, Grow
        <5>2. QED
          BY <5>1
      <4>2. QED
        BY <4>1, <1>5, <2>3 DEF RawHeapFree, i
    <3>4. m \in Seq(Node) /\ Len(m) = Len(l) /\ m[i] = n /\ \A k \in N : k # i => m[k] = l[k]
      BY <3>1, <1>1, <2>1
    <3>. HIDE DEF n, r
    <3>5. \A k \in N : k > i => /\ End(n) <= l[k].addr
                                /\ i + 1 \in N
                                /\ k # i + 1 => End(l[i + 1]) < l[k].addr
      <4>1. ASSUME NEW k \in N, k > i PROVE End(n) <= l[k].addr
        <5>1. End(l[i]) < l[k].addr
          BY <4>1, <1>2, <2>1, <2>2
        <5>2. End(l[k]) <= f.addr \/ End(f) <= l[k].addr
          BY <1>3
        <5>3. l[k].addr \in Nat /\ l[k].size \in Nat /\ End(l[k]) = l[k].addr + l[k].size
          BY <1>1
        <5>4. QED
          BY <5>1, <5>2, <5>3, <3>1, <2>3, <1>1, SMTT(40)
      <4>2. ASSUME NEW k \in N, k > i PROVE i + 1 \in N /\ (k # i + 1 => i + 1 < k)
        BY <4>2, <2>1, <2>2, <1>1
      <4>3. QED
        BY <4>1, <4>2, <1>2
    <3>6. \A k \in N : k < i => End(l[k]) < n.addr
      BY <3>1, <1>2, <2>1
    <3>7. CASE i < Len(l) /\ End(n) = l[i + 1].addr
      <4>. DEFINE o == Join(n, l[i + 1])
                  q == [m EXCEPT ![i] = o]
      <4>1. i + 1 \in N /\ m[i + 1] = l[i + 1] /\ i + 1 # i
        BY <3>4, <3>7, <1>1, <2>1
      <4>2. /\ o \in Node /\ o.addr = n.addr /\ o.size >= SIZEOF_NODE
            /\ End(o) = End(l[i + 1])
            /\ \A x \in Int : In(o, x) <=> In(n, x) \/ In(l[i + 1], x)
        BY <3>1, <3>7, <4>1, <1>1, JoinProperties
      <4>3. r = RemoveAt(q, i + 1)
        <5>1. [m EXCEPT ![i].size = @ + m[i + 1].size] = q
          <6>1. [m[i] EXCEPT !.size = m[i].size + m[i + 1].size] = o
            <7>1. m[i] = n /\ m[i + 1] = l[i + 1] /\ n \in Node /\ l[i + 1].size \in Nat
              BY <3>1, <3>4, <4>1, <1>1
            <7>2. [n EXCEPT !.size = n.size + l[i + 1].size] = Join(n, l[i + 1])
              BY <7>1, Grow
            <7>3. QED
              BY <7>1, <7>2
          <6>2. QED
            BY <6>1
        <5>2. QED
          BY <5>1, <3>2, <3>4, <3>7, <4>1 DEF MergeNext
      <4>4. q \in Seq(Node) /\ Len(q) = Len(l) /\ q[i] = o /\ \A k \in N : k # i => q[k] = l[k]
        BY <3>4, <4>2, <1>1, <2>1
      <4>. HIDE DEF o, q
      <4>6. Sizes(q)
        BY <4>2, <4>4, <1>1 DEF Sizes
      <4>7. ASSUME NEW j \in N, NEW k \in N, j # i + 1, k # i + 1, j < k
            PROVE  End(q[j]) < q[k].addr
        <5>1. CASE j = i
          BY <5>1, <4>2, <4>4, <4>7, <3>5, <2>2
        <5>2. CASE k = i
          BY <5>2, <4>2, <4>4, <4>7, <3>6, <2>2
        <5>3. CASE j # i /\ k # i
          BY <5>3, <4>4, <4>7, <1>2
        <5>4. QED
          BY <5>1, <5>2, <5>3
      <4>8. /\ FreeList(r)
            /\ \A x \in Int : Has(r, x) <=> \E k \in N : k # i + 1 /\ In(q[k], x)
        BY <4>1, <4>3, <4>4, <4>6, <4>7, RemoveKeeps
      <4>9. ASSUME NEW x \in Int PROVE Has(r, x) <=> In(f, x) \/ Has(l, x)
        <5>1. (\E k \in N : k # i + 1 /\ In(q[k], x))
                <=> In(o, x) \/ \E k \in N : k # i + 1 /\ k # i /\ In(l[k], x)
          BY <4>1, <4>4, <2>1
        <5>2. Has(l, x) <=> In(l[i], x) \/ In(l[i + 1], x) \/ \E k \in N : k # i + 1 /\ k # i /\ In(l[k], x)
          BY <4>1, <2>1 DEF Has
        <5>3. QED
          BY <5>1, <5>2, <3>1, <4>2, <4>8
      <4>10. QED
        BY <4>8, <4>9 DEF r
    <3>8. CASE ~ (i < Len(l) /\ End(n) = l[i + 1].addr)
      <4>1. r = m
        <5>1. i < Len(l) => i + 1 \in N /\ i + 1 # i
          BY <1>1, <2>1, <2>2
        <5>2. QED
          BY <5>1, <3>2, <3>4, <3>8 DEF MergeNext
      <4>2. \A k \in N : k > i => End(n) < l[k].addr
        <5>1. ASSUME NEW k \in N, k > i PROVE End(n) < l[k].addr
          <6>1. i + 1 \in N /\ i + 1 > i /\ i < Len(l)
            BY <5>1, <2>2, <3>5, <1>1
          <6>2. End(n) < l[i + 1].addr
            <7>1. End(n) <= l[i + 1].addr /\ End(n) # l[i + 1].addr
              BY <6>1, <3>5, <3>8
            <7>2. End(n) \in Nat /\ l[i + 1].addr \in Nat
              BY <6>1, <3>1, <1>1
            <7>3. QED
              BY <7>1, <7>2
          <6>3. QED
            <7>1. CASE k = i + 1
              BY <7>1, <6>2
            <7>2. CASE k # i + 1
              <8>1. End(l[i + 1]) < l[k].addr
                BY <7>2, <5>1, <3>5
              <8>2. /\ End(n) \in Nat /\ l[i + 1].addr \in Nat /\ l[k].addr \in Nat
                    /\ End(l[i + 1]) = l[i + 1].addr + l[i + 1].size /\ l[i + 1].size \in Nat
                BY <6>1, <3>1, <1>1
              <8>3. QED
                BY <8>1, <8>2, <6>2
            <7>3. QED
              BY <7>1, <7>2
        <5>2. QED
          BY <5>1
      <4>3. /\ FreeList(m)
            /\ \A x \in Int : Has(m, x) <=> In(n, x) \/ \E k \in N : k # i /\ In(l[k], x)
        BY <3>1, <3>6, <4>2, <2>1, ReplaceKeeps
      <4>4. QED
        BY <4>1, <4>3, <3>1, <2>1 DEF Has, r
    <3>9. QED
      BY <3>7, <3>8
  <2>4. CASE End(l[i]) # f.addr /\ l[i].addr > f.addr
    <3>1. \A k \in N : k >= i => End(f) <= l[k].addr
      <4>1. End(f) <= l[i].addr
        BY <2>1, <2>4, <1>1, <1>3
      <4>2. QED
        BY <4>1, <2>1, <2>2, <1>1, <1>2, SMTT(40)
    <3>2. CASE End(f) = l[i].addr
      <4>. DEFINE n == Join(f, l[i])
      <4>1. /\ n \in Node /\ n.addr = f.addr /\ n.size >= SIZEOF_NODE /\ End(n) = End(l[i])
            /\ \A x \in Int : In(n, x) <=> In(f, x) \/ In(l[i], x)
        BY <1>1, <2>1, <3>2, JoinProperties
      <4>2. r = [l EXCEPT ![i] = n]
        BY <1>5, <2>4, <3>2 DEF RawHeapFree, i, Join
      <4>. HIDE DEF n
      <4>4. \A k \in N : (k < i => End(l[k]) < n.addr) /\ (k > i => End(n) < l[k].addr)
        BY <4>1, <1>2, <2>1
      <4>5. /\ FreeList([l EXCEPT ![i] = n])
            /\ \A x \in Int : Has([l EXCEPT ![i] = n], x)
                                <=> In(n, x) \/ \E k \in N : k # i /\ In(l[k], x)
        BY <4>1, <4>4, <2>1, ReplaceKeeps
      <4>. HIDE DEF r
      <4>6. \A x \in Int : Has(r, x) <=> In(n, x) \/ \E k \in N : k # i /\ In(l[k], x)
        BY <4>2, <4>5
      <4>7. QED
        BY <4>2, <4>5, <4>6, <4>1, <2>1 DEF Has, r
    <3>3. CASE End(f) # l[i].addr
      <4>1. r = InsertAt(l, i, f)
        BY <1>5, <2>4, <3>3 DEF RawHeapFree, i
      <4>2. i \in 1..(Len(l) + 1)
        BY <1>1, <2>1
      <4>3. End(f) < l[i].addr
        BY <3>1, <3>3, <1>1, <2>1, <2>2
      <4>4. ASSUME NEW k \in N, k >= i PROVE End(f) < l[k].addr
        <5>1. CASE k = i
          BY <5>1, <4>3
        <5>2. CASE k # i
          <6>1. End(l[i]) < l[k].addr
            BY <5>2, <4>4, <1>2, <2>1, <2>2
          <6>2. /\ End(f) \in Nat /\ l[i].addr \in Nat /\ l[k].addr \in Nat
                /\ End(l[i]) = l[i].addr + l[i].size /\ l[i].size \in Nat
            BY <1>1, <2>1
          <6>3. QED
            BY <6>1, <6>2, <4>3
        <5>3. QED
          BY <5>1, <5>2
      <4>5. QED
        BY <4>1, <4>2, <4>4, <2>1, InsertKeeps
    <3>4. QED
      BY <3>2, <3>3
  <2>5. CASE End(l[i]) # f.addr /\ ~ (l[i].addr > f.addr)
    <3>1. End(l[i]) > f.addr
      BY <2>1, <2>5 DEF FreeStops
    <3>2. FALSE
      BY <3>1, <2>1, <2>5, <1>1, <1>3, HeaderSize
    <3>3. QED
      BY <3>2
  <2>6. QED
    BY <2>3, <2>4, <2>5
<1>6. QED
  BY <1>4, <1>5

\* mm_free of a region that is free already: the walk ends at the node the
\* region is in, and the list stays as it is.
LEMMA FreeAgainRefused ==
    ASSUME NEW l, FreeList(l), NEW f \in Node, NEW k \in 1..Len(l), In(l[k], f.addr)
    PROVE  RawHeapFree(l, f) = l
<1>. DEFINE N == 1..Len(l)
            F == FreeStops(l, f)
            i == Min(F)
<1>1. /\ l \in Seq(Node) /\ Len(l) \in Nat /\ f.addr \in Nat
      /\ \A j \in N : /\ l[j].addr \in Nat /\ l[j].size \in Nat
                      /\ End(l[j]) = l[j].addr + l[j].size /\ End(l[j]) \in Nat
  BY NodeFields, SMTT(40) DEF FreeList, Node
<1>2. \A h, j \in N : h < j => End(l[h]) < l[j].addr
  BY DEF FreeList, Ordered
<1>3. l[k].addr <= f.addr /\ f.addr < End(l[k])
  BY DEF In
<1>4. k \in F
  BY <1>1, <1>3 DEF FreeStops
<1>5. i \in F /\ i \in N /\ \A j \in N : j < i => End(l[j]) < f.addr
  BY <1>1, <1>4, StopFirst
<1>. HIDE DEF i
<1>6. k \in Int /\ i \in Int
  BY <1>1, <1>5
<1>7. ~ (k < i)
  BY <1>1, <1>3, <1>5
<1>8. ~ (i < k)
  <2>. SUFFICES ASSUME i < k PROVE FALSE
    OBVIOUS
  <2>1. End(l[i]) < l[k].addr
    BY <1>2, <1>5
  <2>2. End(l[i]) < f.addr /\ l[i].addr < f.addr
    BY <2>1, <1>1, <1>3, <1>5, SMTT(40)
  <2>3. QED
    BY <2>2, <1>1, <1>5 DEF FreeStops
<1>9. i = k
  BY <1>6, <1>7, <1>8
<1>10. End(l[i]) # f.addr /\ ~ (l[i].addr > f.addr)
  BY <1>9, <1>1, <1>3
<1>11. QED
  BY <1>4, <1>10 DEF RawHeapFree, i

----------------------------------------------------------------------------
(* raw_mm_heap_alloc *)

\* One turn of the walk through the free list
Pick(l, need, fit, prev, i) ==
    IF prev # 0 /\ (l[prev].size = need \/ fit = "first") THEN prev
    ELSE IF l[i].size >= need /\ Prefers(fit, l, prev, i) THEN i
    ELSE prev

Chain(l, need, fit, g, n) ==
    g = [i \in 0..n |-> IF i = 0 THEN 0 ELSE Pick(l, need, fit, g[i - 1], i)]

\* The walk gives a node at every length of the list.
LEMMA ChainExists ==
    ASSUME NEW l \in Seq(Node), NEW need, NEW fit, NEW n \in 0..Len(l)
    PROVE  \E g : Chain(l, need, fit, g, n)
<1>. DEFINE Good(m) == \E g : Chain(l, need, fit, g, m)
            Bad == {m \in 0..Len(l) : ~ Good(m)}
<1>1. Len(l) \in Nat
  BY LenProperties
<1>2. Bad = {}
  <2>. SUFFICES ASSUME Bad # {} PROVE FALSE
    OBVIOUS
  <2>1. PICK m \in Bad : \A y \in Bad : m <= y
    <3>1. Bad \subseteq Nat
      BY <1>1
    <3>2. QED
      BY <3>1, LeastExists
  <2>2. Good(0)
    <3>1. Chain(l, need, fit, [i \in 0..0 |-> 0], 0)
      BY DEF Chain
    <3>2. QED
      BY <3>1
  <2>3. m \in Nat /\ m # 0
    <3>. HIDE DEF Good
    <3>. QED
      BY <2>1, <2>2, <1>1
  <2>4. m - 1 \in 0..Len(l) /\ ~ (m - 1 \in Bad)
    BY <2>1, <2>3, <1>1
  <2>5. PICK g : Chain(l, need, fit, g, m - 1)
    BY <2>4
  <2>. DEFINE h == [i \in 0..m |-> IF i = m THEN Pick(l, need, fit, g[m - 1], m) ELSE g[i]]
  <2>6. ASSUME NEW i \in 0..m
        PROVE  h[i] = IF i = 0 THEN 0 ELSE Pick(l, need, fit, h[i - 1], i)
    <3>1. CASE i = m
      <4>1. h[m] = Pick(l, need, fit, g[m - 1], m) /\ h[m - 1] = g[m - 1]
        BY <2>3
      <4>2. QED
        BY <3>1, <4>1, <2>3
    <3>2. CASE i # m
      <4>1. i \in 0..(m - 1) /\ h[i] = g[i]
        BY <3>2, <2>3
      <4>2. g[i] = IF i = 0 THEN 0 ELSE Pick(l, need, fit, g[i - 1], i)
        BY <4>1, <2>5 DEF Chain
      <4>3. i # 0 => h[i - 1] = g[i - 1]
        BY <4>1, <2>3
      <4>4. QED
        BY <4>1, <4>2, <4>3
    <3>3. QED
      BY <3>1, <3>2
  <2>7. h = [i \in 0..m |-> h[i]]
    OBVIOUS
  <2>. HIDE DEF h
  <2>8. Chain(l, need, fit, h, m)
    BY <2>6, <2>7 DEF Chain
  <2>9. QED
    BY <2>8, <2>1
<1>3. QED
  BY <1>2

\* Fit is what the walk holds at the end of the list.
LEMMA FitUnfolds ==
    ASSUME NEW l \in Seq(Node), NEW need, NEW fit
    PROVE  \E g : Chain(l, need, fit, g, Len(l)) /\ Fit(l, need, fit) = g[Len(l)]
<1>. DEFINE b == CHOOSE g : Chain(l, need, fit, g, Len(l))
            c == CHOOSE best : best = [i \in 0..Len(l) |->
                    IF i = 0 THEN 0
                    ELSE LET prev == best[i - 1] IN
                         IF prev # 0 /\ (l[prev].size = need \/ fit = "first") THEN prev
                         ELSE IF l[i].size >= need /\ Prefers(fit, l, prev, i) THEN i
                         ELSE prev]
<1>1. Chain(l, need, fit, b, Len(l))
  <2>1. Len(l) \in 0..Len(l)
    BY LenProperties
  <2>2. QED
    BY <2>1, ChainExists
<1>2. b = c
  BY DEF Chain, Pick
<1>3. Fit(l, need, fit) = c[Len(l)]
  BY DEF Fit
<1>. HIDE DEF b, c
<1>4. QED
  BY <1>1, <1>2, <1>3

\* The nodes among the first n that are large enough, and what the allocators
\* compare
Large(l, need, n) == {i \in 1..n : l[i].size >= need}
Least(l, i, j)    == l[i].size < l[j].size \/ (l[i].size = l[j].size /\ i <= j)
Largest(l, i, j)  == l[i].size > l[j].size \/ (l[i].size = l[j].size /\ i <= j)

\* p is what the allocator should hold after the first n nodes.
Promise(l, need, fit, n, p) ==
    /\ p = 0 => Large(l, need, n) = {}
    /\ p # 0 => p \in Large(l, need, n)
    /\ fit = "first" => \A j \in Large(l, need, n) : p <= j
    /\ fit = "best" => \A j \in Large(l, need, n) : Least(l, p, j)
    /\ fit = "worst" /\ p # 0 =>
         \E f \in Large(l, need, n) :
            /\ \A j \in Large(l, need, n) : f <= j
            /\ l[f].size = need => p = f
            /\ l[f].size # need => \A j \in Large(l, need, n) : Largest(l, p, j)

\* One turn keeps the promise.
LEMMA PickKeeps ==
    ASSUME NEW l \in Seq(Node), NEW need \in Nat, NEW fit \in {"best", "first", "worst"},
           NEW n \in 1..Len(l), NEW p, Promise(l, need, fit, n - 1, p)
    PROVE  Promise(l, need, fit, n, Pick(l, need, fit, p, n))
<1>. DEFINE L == Large(l, need, n - 1)
            M == Large(l, need, n)
            q == Pick(l, need, fit, p, n)
            big == l[n].size >= need
<1>1. Len(l) \in Nat /\ n \in Nat /\ n # 0 /\ \A k \in 1..Len(l) : k \in Int /\ l[k].size \in Nat
  BY NodeFields
<1>2. /\ \A k : k \in M <=> k \in L \/ (k = n /\ big)
      /\ \A k \in L : k \in 1..Len(l) /\ k < n /\ k # 0 /\ l[k].size >= need
      /\ n \in 1..Len(l) /\ (big => n \in M)
  <2>1. ASSUME NEW k PROVE k \in M <=> k \in L \/ (k = n /\ big)
    BY <1>1 DEF Large
  <2>2. ASSUME NEW k \in L PROVE k \in 1..Len(l) /\ k < n /\ k # 0 /\ l[k].size >= need
    BY <1>1 DEF Large
  <2>3. QED
    BY <2>1, <2>2
<1>3. /\ p = 0 => L = {}
      /\ p # 0 => p \in L
      /\ fit = "first" => \A j \in L : p <= j
      /\ fit = "best" => \A j \in L : Least(l, p, j)
      /\ fit = "worst" /\ p # 0 =>
           \E f \in L : /\ \A j \in L : f <= j
                        /\ l[f].size = need => p = f
                        /\ l[f].size # need => \A j \in L : Largest(l, p, j)
  BY DEF Promise
<1>. HIDE DEF L, M
<1>4. CASE fit = "first"
  <2>1. q = IF p # 0 THEN p ELSE IF big THEN n ELSE p
    BY <1>4 DEF Pick, Prefers, FirstFitCompare
  <2>. HIDE DEF q
  <2>2. /\ q = 0 => M = {}
        /\ q # 0 => q \in M
        /\ \A j \in M : q <= j
    BY <2>1, <1>1, <1>2, <1>3, <1>4
  <2>3. QED
    BY <2>2, <1>4 DEF Promise, M, q
<1>5. CASE fit = "best"
  <2>1. q = IF p # 0 /\ l[p].size = need THEN p
            ELSE IF big /\ (p = 0 \/ l[p].size > l[n].size) THEN n ELSE p
    BY <1>5 DEF Pick, Prefers, BestFitCompare
  <2>. HIDE DEF q
  <2>2. (q = 0 => M = {}) /\ (q # 0 => q \in M)
    BY <2>1, <1>1, <1>2, <1>3, <1>5
  <2>3. ASSUME NEW j \in M PROVE Least(l, q, j)
    BY <2>1, <1>1, <1>2, <1>3, <1>5 DEF Least
  <2>4. QED
    BY <2>2, <2>3, <1>5 DEF Promise, M, q
<1>6. CASE fit = "worst"
  <2>1. q = IF p # 0 /\ l[p].size = need THEN p
            ELSE IF big /\ (p = 0 \/ l[n].size > l[p].size) THEN n ELSE p
    BY <1>6 DEF Pick, Prefers, WorstFitCompare
  <2>. HIDE DEF q
  <2>2. (q = 0 => M = {}) /\ (q # 0 => q \in M)
    BY <2>1, <1>1, <1>2, <1>3, <1>6
  <2>3. ASSUME q # 0
        PROVE  \E f \in M : /\ \A j \in M : f <= j
                            /\ l[f].size = need => q = f
                            /\ l[f].size # need => \A j \in M : Largest(l, q, j)
    <3>1. CASE p = 0
      <4>1. q = n /\ M = {n}
        BY <2>1, <2>3, <3>1, <1>2, <1>3
      <4>2. QED
        BY <4>1, <1>1 DEF Largest
    <3>2. CASE p # 0
      <4>1. PICK f \in L : /\ \A j \in L : f <= j
                           /\ l[f].size = need => p = f
                           /\ l[f].size # need => \A j \in L : Largest(l, p, j)
        BY <3>2, <1>3, <1>6
      <4>2. f \in M /\ \A j \in M : f <= j
        BY <4>1, <1>1, <1>2
      <4>3. l[f].size = need => q = f
        BY <4>1, <2>1, <3>2, <1>2
      <4>4. ASSUME l[f].size # need, NEW j \in M PROVE Largest(l, q, j)
        <5>1. Largest(l, p, f) /\ p \in L /\ \A k \in L : Largest(l, p, k)
          BY <4>1, <4>4, <3>2, <1>3
        <5>2. l[p].size # need
          BY <5>1, <4>1, <4>4, <1>1, <1>2 DEF Largest
        <5>3. CASE big /\ l[n].size > l[p].size
          <6>1. q = n
            BY <5>2, <5>3, <2>1
          <6>2. CASE j = n
            BY <6>1, <6>2, <1>1 DEF Largest
          <6>3. CASE j \in L
            <7>1. l[n].size \in Nat /\ l[p].size \in Nat /\ l[j].size \in Nat
              BY <6>3, <5>1, <1>1, <1>2
            <7>2. l[p].size >= l[j].size
              BY <7>1, <6>3, <5>1 DEF Largest
            <7>3. l[n].size > l[j].size
              BY <7>1, <7>2, <5>3
            <7>4. QED
              BY <7>3, <6>1 DEF Largest
          <6>4. QED
            BY <6>2, <6>3, <1>2
        <5>4. CASE ~ (big /\ l[n].size > l[p].size)
          <6>1. q = p
            BY <5>2, <5>4, <2>1, <3>2
          <6>2. CASE j \in L
            BY <6>1, <6>2, <5>1
          <6>3. CASE j = n /\ big
            BY <6>1, <6>3, <5>1, <5>4, <1>1, <1>2 DEF Largest
          <6>4. QED
            BY <6>2, <6>3, <1>2
        <5>5. QED
          BY <5>3, <5>4
      <4>5. QED
        BY <4>2, <4>3, <4>4
    <3>3. QED
      BY <3>1, <3>2
  <2>4. QED
    BY <2>2, <2>3, <1>6 DEF Promise, M, q
<1>7. QED
  BY <1>4, <1>5, <1>6

\* The allocators do as they promise, on any list.
LEMMA FitRight ==
    ASSUME NEW l \in Seq(Node), NEW need \in Nat, NEW fit \in {"best", "first", "worst"}
    PROVE  Promise(l, need, fit, Len(l), Fit(l, need, fit))
<1>1. PICK g : Chain(l, need, fit, g, Len(l)) /\ Fit(l, need, fit) = g[Len(l)]
  BY FitUnfolds
<1>. DEFINE Bad == {m \in 0..Len(l) : ~ Promise(l, need, fit, m, g[m])}
<1>2. Len(l) \in Nat
  BY LenProperties
<1>3. g[0] = 0 /\ \A i \in 1..Len(l) : g[i] = Pick(l, need, fit, g[i - 1], i)
  BY <1>1, <1>2 DEF Chain
<1>4. Bad = {}
  <2>. SUFFICES ASSUME Bad # {} PROVE FALSE
    OBVIOUS
  <2>1. PICK m \in Bad : \A y \in Bad : m <= y
    <3>1. Bad \subseteq Nat
      BY <1>2
    <3>2. QED
      BY <3>1, LeastExists
  <2>2. Promise(l, need, fit, 0, g[0])
    BY <1>3 DEF Promise, Large
  <2>3. m \in 1..Len(l) /\ m - 1 \in 0..Len(l) /\ ~ (m - 1 \in Bad)
    BY <2>1, <2>2, <1>2
  <2>4. Promise(l, need, fit, m - 1, g[m - 1])
    BY <2>3
  <2>5. Promise(l, need, fit, m, g[m])
    BY <2>3, <2>4, <1>3, PickKeeps
  <2>6. QED
    BY <2>1, <2>5
<1>5. Promise(l, need, fit, Len(l), g[Len(l)])
  BY <1>2, <1>4
<1>6. QED
  BY <1>1, <1>5

\* A node of need bytes is taken from the node at p, whole or split: the list
\* loses exactly the bytes of the new node.
LEMMA TakeKeeps ==
    ASSUME NEW l, FreeList(l), NEW p \in 1..Len(l), NEW need \in Nat,
           need >= SIZEOF_NODE, l[p].size >= need
    PROVE  LET n == l[p]
               r == IF Splits(n, need)
                    THEN [l EXCEPT ![p] = [addr |-> n.addr + need, size |-> n.size - need]]
                    ELSE RemoveAt(l, p)
               v == [addr |-> n.addr, size |-> IF Splits(n, need) THEN need ELSE n.size]
           IN  /\ FreeList(r) /\ v \in Node /\ v.size >= SIZEOF_NODE
               /\ \A x \in Int : /\ Has(r, x) <=> Has(l, x) /\ ~ In(v, x)
                                 /\ In(v, x) => Has(l, x)
<1>. DEFINE N == 1..Len(l)
            n == l[p]
            u == [addr |-> n.addr + need, size |-> n.size - need]
            v == [addr |-> n.addr, size |-> IF Splits(n, need) THEN need ELSE n.size]
<1>1. /\ l \in Seq(Node) /\ Len(l) \in Nat /\ Sizes(l) /\ Ordered(l)
      /\ \A k \in N : /\ l[k].addr \in Nat /\ l[k].size \in Nat
                      /\ End(l[k]) = l[k].addr + l[k].size /\ End(l[k]) \in Nat
      /\ n.addr \in Nat /\ n.size \in Nat /\ End(n) = n.addr + n.size /\ p \in Int
  BY NodeFields DEF FreeList
<1>2. \A h, j \in N : h < j => End(l[h]) < l[j].addr
  BY <1>1 DEF Ordered
<1>3. ASSUME NEW x \in Int, In(n, x), NEW k \in N, k # p PROVE ~ In(l[k], x)
  <2>1. k \in Int /\ (k < p \/ p < k)
    BY <1>1, <1>3
  <2>2. CASE k < p
    <3>1. End(l[k]) < n.addr
      BY <2>2, <1>2
    <3>2. QED
      BY <3>1, <1>1, <1>3 DEF In
  <2>3. CASE p < k
    <3>1. End(n) < l[k].addr
      BY <2>3, <1>2
    <3>2. QED
      BY <3>1, <1>1, <1>3 DEF In
  <2>4. QED
    BY <2>1, <2>2, <2>3
<1>4. CASE Splits(n, need)
  <2>1. /\ u \in Node /\ u.addr = n.addr + need /\ u.size = n.size - need /\ u.size >= SIZEOF_NODE
    <3>1. n.addr + need \in Nat /\ n.size - need \in Nat /\ n.size - need >= SIZEOF_NODE
      <4>. HIDE DEF n
      <4>1. n.size - need >= HEAP_MIN
        BY <1>4 DEF Splits
      <4>2. QED
        BY <4>1, <1>1, HeaderSize, SMTT(40)
    <3>2. QED
      BY <3>1 DEF Node
  <2>2. End(u) = u.addr + u.size /\ End(u) = End(n)
    BY <2>1, <1>1 DEF End
  <2>3. v \in Node /\ v.addr = n.addr /\ v.size = need /\ v.size >= SIZEOF_NODE /\ End(v) = u.addr
    BY <2>1, <1>1, <1>4 DEF Node, End
  <2>. HIDE DEF u, v
  <2>4. \A x \in Int : /\ In(n, x) <=> In(u, x) \/ In(v, x)
                       /\ ~ (In(u, x) /\ In(v, x))
    BY <2>1, <2>2, <2>3, <1>1 DEF In
  <2>5. \A k \in N : (k < p => End(l[k]) < u.addr) /\ (k > p => End(u) < l[k].addr)
    <3>1. ASSUME NEW k \in N, k < p PROVE End(l[k]) < u.addr
      <4>1. End(l[k]) < n.addr /\ End(l[k]) \in Nat
        BY <3>1, <1>1, <1>2
      <4>2. QED
        BY <4>1, <2>1, <1>1
    <3>2. ASSUME NEW k \in N, k > p PROVE End(u) < l[k].addr
      BY <3>2, <2>2, <1>1, <1>2
    <3>3. QED
      BY <3>1, <3>2
  <2>. DEFINE r == [l EXCEPT ![p] = u]
  <2>6. /\ FreeList(r)
        /\ \A x \in Int : Has(r, x) <=> In(u, x) \/ \E k \in N : k # p /\ In(l[k], x)
    BY <2>1, <2>5, ReplaceKeeps
  <2>. HIDE DEF r
  <2>7. ASSUME NEW x \in Int
        PROVE  (Has(r, x) <=> Has(l, x) /\ ~ In(v, x)) /\ (In(v, x) => Has(l, x))
    <3>1. Has(l, x) <=> In(n, x) \/ \E k \in N : k # p /\ In(l[k], x)
      BY DEF Has
    <3>2. In(n, x) => ~ \E k \in N : k # p /\ In(l[k], x)
      BY <1>3
    <3>3. QED
      BY <3>1, <3>2, <2>4, <2>6
  <2>8. QED
    BY <2>3, <2>6, <2>7, <1>4 DEF r, u, v
<1>5. CASE ~ Splits(n, need)
  <2>1. v \in Node /\ v.addr = n.addr /\ v.size = n.size
    BY <1>1, <1>5 DEF Node
  <2>2. v.size >= SIZEOF_NODE /\ \A x \in Int : In(n, x) <=> In(v, x)
    BY <2>1, <1>1 DEF In, End, Sizes
  <2>. HIDE DEF v
  <2>. DEFINE r == RemoveAt(l, p)
  <2>3. /\ FreeList(r)
        /\ \A x \in Int : Has(r, x) <=> \E k \in N : k # p /\ In(l[k], x)
    BY <1>1, <1>2, RemoveKeeps
  <2>. HIDE DEF r
  <2>4. ASSUME NEW x \in Int
        PROVE  (Has(r, x) <=> Has(l, x) /\ ~ In(v, x)) /\ (In(v, x) => Has(l, x))
    <3>1. Has(l, x) <=> In(n, x) \/ \E k \in N : k # p /\ In(l[k], x)
      BY DEF Has
    <3>2. In(n, x) => ~ \E k \in N : k # p /\ In(l[k], x)
      BY <1>3
    <3>3. QED
      BY <3>1, <3>2, <2>2, <2>3
  <2>5. QED
    BY <2>1, <2>2, <2>3, <2>4, <1>5 DEF r, v
<1>6. QED
  BY <1>4, <1>5

----------------------------------------------------------------------------
(* The invariant *)

\* Free list l, allocated nodes u, regions still to come b: the allocated nodes
\* are apart from each other and from the free list, and with it they are the
\* bytes of the regions that were added.
Memory(l, u, b) ==
    /\ FreeList(l) /\ u \subseteq [addr : Nat, size : Nat, req : Nat] /\ b \subseteq Blocks
    /\ \A n \in u : n.size >= SIZEOF_NODE /\ \A x \in Int : In(n, x) => ~ Has(l, x)
    /\ \A m, n \in u : m # n => \A x \in Int : ~ (In(m, x) /\ In(n, x))
    /\ \A x \in Int : (Has(l, x) \/ \E n \in u : In(n, x)) <=> \E c \in Blocks \ b : In(c, x)

HInv == /\ Memory(free, used, rest)
        /\ re = <<>> \/ (re \in used \X used /\ re[1] # re[2])

\* A node of need bytes is handed out.
LEMMA TakeMemory ==
    ASSUME NEW l, NEW u, NEW b, Memory(l, u, b), NEW p \in 1..Len(l), NEW need \in Nat,
           need >= SIZEOF_NODE, l[p].size >= need, NEW req \in Nat
    PROVE  LET n == l[p]
               r == IF Splits(n, need)
                    THEN [l EXCEPT ![p] = [addr |-> n.addr + need, size |-> n.size - need]]
                    ELSE RemoveAt(l, p)
               w == [addr |-> n.addr, size |-> IF Splits(n, need) THEN need ELSE n.size, req |-> req]
           IN  Memory(r, u \cup {w}, b) /\ w \notin u
<1>. DEFINE n == l[p]
            r == IF Splits(n, need)
                 THEN [l EXCEPT ![p] = [addr |-> n.addr + need, size |-> n.size - need]]
                 ELSE RemoveAt(l, p)
            v == [addr |-> n.addr, size |-> IF Splits(n, need) THEN need ELSE n.size]
            w == [addr |-> n.addr, size |-> IF Splits(n, need) THEN need ELSE n.size, req |-> req]
<1>1. /\ FreeList(r) /\ v \in Node /\ v.size >= SIZEOF_NODE
      /\ \A x \in Int : /\ Has(r, x) <=> Has(l, x) /\ ~ In(v, x)
                        /\ In(v, x) => Has(l, x)
  BY TakeKeeps DEF Memory
<1>2. w.addr = v.addr /\ w.size = v.size /\ w.req = req /\ v.addr \in Nat /\ v.size \in Nat
  BY <1>1 DEF Node
<1>3. w \in [addr : Nat, size : Nat, req : Nat]
  BY <1>2
<1>. HIDE DEF r, v, w
<1>4. \A x \in Int : In(v, x) <=> In(w, x)
  BY <1>2 DEF In, End
<1>5. In(w, w.addr) /\ w.addr \in Int
  BY <1>1, <1>2, HeaderSize DEF In, End
<1>6. ASSUME NEW m \in u, NEW x \in Int, In(m, x) PROVE ~ In(w, x) /\ ~ Has(r, x)
  BY <1>1, <1>4, <1>6 DEF Memory
<1>7. w \notin u
  BY <1>5, <1>6
<1>8. /\ u \cup {w} \subseteq [addr : Nat, size : Nat, req : Nat] /\ b \subseteq Blocks
      /\ \A m \in u \cup {w} : m.size >= SIZEOF_NODE
  BY <1>1, <1>2, <1>3 DEF Memory
<1>9. \A m \in u \cup {w} : \A x \in Int : In(m, x) => ~ Has(r, x)
  BY <1>1, <1>4, <1>6
<1>10. \A m, k \in u \cup {w} : m # k => \A x \in Int : ~ (In(m, x) /\ In(k, x))
  BY <1>6 DEF Memory
<1>11. ASSUME NEW x \in Int
       PROVE  (Has(r, x) \/ \E m \in u \cup {w} : In(m, x)) <=> \E c \in Blocks \ b : In(c, x)
  <2>1. (Has(r, x) \/ \E m \in u \cup {w} : In(m, x)) <=> (Has(l, x) \/ \E m \in u : In(m, x))
    BY <1>1, <1>4
  <2>2. (Has(l, x) \/ \E m \in u : In(m, x)) <=> \E c \in Blocks \ b : In(c, x)
    BY DEF Memory
  <2>3. QED
    BY <2>1, <2>2
<1>12. Memory(r, u \cup {w}, b)
  BY <1>1, <1>8, <1>9, <1>10, <1>11 DEF Memory
<1>13. QED
  BY <1>7, <1>12 DEF r, w

\* A node is given back.
LEMMA GiveMemory ==
    ASSUME NEW l, NEW u, NEW b, Memory(l, u, b), NEW n \in u
    PROVE  Memory(RawHeapFree(l, FreeNode(n)), u \ {n}, b)
<1>. DEFINE f == FreeNode(n)
            r == RawHeapFree(l, f)
<1>1. /\ n \in [addr : Nat, size : Nat, req : Nat] /\ n.size >= SIZEOF_NODE
      /\ \A x \in Int : In(n, x) => ~ Has(l, x)
  BY DEF Memory
<1>2. f \in Node /\ f.addr = n.addr /\ f.size = n.size
  BY <1>1 DEF FreeNode, Node
<1>. HIDE DEF f
<1>3. \A x \in Int : In(f, x) <=> In(n, x)
  BY <1>2 DEF In, End
<1>4. FreeList(r) /\ \A x \in Int : Has(r, x) <=> In(f, x) \/ Has(l, x)
  BY <1>1, <1>2, <1>3, FreeKeeps DEF Memory
<1>. HIDE DEF r
<1>5. /\ u \ {n} \subseteq [addr : Nat, size : Nat, req : Nat] /\ b \subseteq Blocks
      /\ \A m \in u \ {n} : m.size >= SIZEOF_NODE
  BY DEF Memory
<1>6. ASSUME NEW m \in u \ {n}, NEW x \in Int, In(m, x) PROVE ~ Has(r, x)
  BY <1>3, <1>4, <1>6 DEF Memory
<1>7. \A m, k \in u \ {n} : m # k => \A x \in Int : ~ (In(m, x) /\ In(k, x))
  BY DEF Memory
<1>8. ASSUME NEW x \in Int
      PROVE  (Has(r, x) \/ \E m \in u \ {n} : In(m, x)) <=> \E c \in Blocks \ b : In(c, x)
  <2>1. (Has(r, x) \/ \E m \in u \ {n} : In(m, x)) <=> (Has(l, x) \/ \E m \in u : In(m, x))
    BY <1>3, <1>4
  <2>2. (Has(l, x) \/ \E m \in u : In(m, x)) <=> \E c \in Blocks \ b : In(c, x)
    BY DEF Memory
  <2>3. QED
    BY <2>1, <2>2
<1>9. Memory(r, u \ {n}, b)
  BY <1>4, <1>5, <1>6, <1>7, <1>8 DEF Memory
<1>10. QED
  BY <1>9 DEF r, f

\* A region is added.
LEMMA BlockMemory ==
    ASSUME NEW l, NEW u, NEW b, Memory(l, u, b), NEW f \in b
    PROVE  Memory(RawHeapFree(l, f), u, b \ {f})
<1>. DEFINE r == RawHeapFree(l, f)
<1>1. f \in Blocks /\ f \in Node /\ f.size >= SIZEOF_NODE
  BY BlocksAssumption DEF Memory
<1>2. ASSUME NEW x \in Int, In(f, x) PROVE ~ Has(l, x) /\ ~ \E n \in u : In(n, x)
  <2>1. ASSUME NEW c \in Blocks \ b PROVE ~ In(c, x)
    <3>1. c # f /\ c \in Node /\ Bytes(c) \cap Bytes(f) = {}
      BY <1>1, BlocksAssumption
    <3>2. (x \in Bytes(c) <=> In(c, x)) /\ (x \in Bytes(f) <=> In(f, x))
      BY <3>1, <1>1, BytesIn DEF Node
    <3>3. QED
      BY <3>1, <3>2, <1>2
  <2>2. QED
    BY <2>1 DEF Memory
<1>3. FreeList(r) /\ \A x \in Int : Has(r, x) <=> In(f, x) \/ Has(l, x)
  BY <1>1, <1>2, FreeKeeps DEF Memory
<1>. HIDE DEF r
<1>4. /\ u \subseteq [addr : Nat, size : Nat, req : Nat] /\ b \ {f} \subseteq Blocks
      /\ \A n \in u : n.size >= SIZEOF_NODE
      /\ \A m, n \in u : m # n => \A x \in Int : ~ (In(m, x) /\ In(n, x))
  BY DEF Memory
<1>5. ASSUME NEW m \in u, NEW x \in Int, In(m, x) PROVE ~ Has(r, x)
  BY <1>2, <1>3, <1>5 DEF Memory
<1>6. ASSUME NEW x \in Int
      PROVE  (Has(r, x) \/ \E m \in u : In(m, x)) <=> \E c \in Blocks \ (b \ {f}) : In(c, x)
  <2>1. (\E c \in Blocks \ (b \ {f}) : In(c, x)) <=> In(f, x) \/ \E c \in Blocks \ b : In(c, x)
    BY <1>1
  <2>2. (Has(l, x) \/ \E m \in u : In(m, x)) <=> \E c \in Blocks \ b : In(c, x)
    BY DEF Memory
  <2>3. QED
    BY <2>1, <2>2, <1>3
<1>7. Memory(r, u, b \ {f})
  BY <1>3, <1>4, <1>5, <1>6 DEF Memory
<1>8. QED
  BY <1>7 DEF r

\* A node is from now on to hold q bytes.
LEMMA RenameMemory ==
    ASSUME NEW l, NEW u, NEW b, Memory(l, u, b), NEW n \in u, NEW q \in Nat
    PROVE  Memory(l, (u \ {n}) \cup {[n EXCEPT !.req = q]}, b)
<1>. DEFINE k == [n EXCEPT !.req = q]
            U == (u \ {n}) \cup {k}
<1>1. n \in [addr : Nat, size : Nat, req : Nat]
  BY DEF Memory
<1>2. k \in [addr : Nat, size : Nat, req : Nat] /\ k.addr = n.addr /\ k.size = n.size
  BY <1>1
<1>. HIDE DEF k
<1>3. \A x \in Int : In(k, x) <=> In(n, x)
  BY <1>2 DEF In, End
<1>4. /\ FreeList(l) /\ U \subseteq [addr : Nat, size : Nat, req : Nat] /\ b \subseteq Blocks
      /\ \A m \in U : m.size >= SIZEOF_NODE /\ \A x \in Int : In(m, x) => ~ Has(l, x)
  BY <1>2, <1>3 DEF Memory
<1>5. \A m, o \in U : m # o => \A x \in Int : ~ (In(m, x) /\ In(o, x))
  BY <1>3 DEF Memory
<1>6. ASSUME NEW x \in Int
      PROVE  (Has(l, x) \/ \E m \in U : In(m, x)) <=> \E c \in Blocks \ b : In(c, x)
  <2>1. (\E m \in U : In(m, x)) <=> (\E m \in u : In(m, x))
    BY <1>3
  <2>2. (Has(l, x) \/ \E m \in u : In(m, x)) <=> \E c \in Blocks \ b : In(c, x)
    BY DEF Memory
  <2>3. QED
    BY <2>1, <2>2
<1>. HIDE DEF U
<1>7. Memory(l, U, b)
  BY <1>4, <1>5, <1>6 DEF Memory
<1>8. QED
  BY <1>7 DEF U, k

\* What a request needs of the free list
LEMMA NeedSize ==
    ASSUME NEW size \in Nat
    PROVE  Need(size) \in Nat /\ Need(size) >= SIZEOF_NODE
<1>. DEFINE need == (size + HEAP_OVERHEAD + 2 * MM_GUARD_BYTES) % SIZE_LIMIT
<1>1. need \in Nat
  BY SizesAssumption
<1>. HIDE DEF need
<1>2. Need(size) = IF need < SIZEOF_NODE THEN SIZEOF_NODE ELSE need
  BY DEF Need, need
<1>3. QED
  BY <1>1, <1>2, HeaderSize

\* A rounded request is a size again.
LEMMA TopAlignSize ==
    ASSUME NEW size \in Nat, NEW a \in Nat \ {0}
    PROVE  TopAlign(size, a) \in Nat
<1>1. (size + a - 1) \div a \in Nat
  OBVIOUS
<1>2. \A x, y \in Nat : x * y \in Nat
  OBVIOUS
<1>3. QED
  BY <1>1, <1>2 DEF TopAlign

\* raw_mm_heap_alloc
LEMMA AllocMemory ==
    ASSUME Memory(free, used, rest), NEW size \in Nat, NEW req \in Nat, NEW fit \in Fits,
           RawHeapAlloc(size, req, fit)
    PROVE  /\ Memory(free', used', rest)
           /\ \E w : w \notin used /\ used' = used \cup {w}
<1>. DEFINE need == Need(size)
            p == Fit(free, need, fit)
            n == free[p]
            r == IF Splits(n, need)
                 THEN [free EXCEPT ![p] = [addr |-> n.addr + need, size |-> n.size - need]]
                 ELSE RemoveAt(free, p)
            w == [addr |-> n.addr, size |-> IF Splits(n, need) THEN need ELSE n.size, req |-> req]
<1>1. need \in Nat /\ need >= SIZEOF_NODE
  BY NeedSize
<1>2. p # 0 /\ free' = r /\ used' = used \cup {w}
  BY DEF RawHeapAlloc
<1>. HIDE DEF need
<1>3. p \in 1..Len(free) /\ n.size >= need
  <2>1. free \in Seq(Node) /\ fit \in {"best", "first", "worst"}
    BY FitsAssumption DEF Memory, FreeList
  <2>2. Promise(free, need, fit, Len(free), p)
    BY <2>1, <1>1, FitRight
  <2>3. QED
    BY <2>2, <1>2 DEF Promise, Large
<1>. HIDE DEF p
<1>4. Memory(r, used \cup {w}, rest) /\ w \notin used
  BY <1>1, <1>3, TakeMemory
<1>. HIDE DEF r, w
<1>5. QED
  BY <1>2, <1>4

\* Every step keeps the invariant.
LEMMA HNextInv == HInv /\ [Next]_vars => HInv'
<1>. SUFFICES ASSUME HInv, [Next]_vars PROVE HInv'
  OBVIOUS
<1>0. Memory(free, used, rest) /\ Requests \subseteq Nat /\ Alignments \subseteq Nat \ {0}
  BY RequestsAssumption DEF HInv
<1>1. ASSUME NEW b \in rest, AddBlock(b) PROVE HInv'
  <2>1. Memory(RawHeapFree(free, b), used, rest \ {b})
    BY <1>0, BlockMemory
  <2>2. QED
    BY <1>1, <2>1 DEF AddBlock, HInv
<1>2. ASSUME NEW size \in Nat, NEW req \in Nat, NEW fit \in Fits,
             RawHeapAlloc(size, req, fit), UNCHANGED <<rest, re>>
      PROVE  HInv'
  <2>1. Memory(free', used', rest) /\ used \subseteq used'
    BY <1>0, <1>2, AllocMemory
  <2>2. re' = <<>> \/ (re' \in used' \X used' /\ re'[1] # re'[2])
    BY <1>2, <2>1 DEF HInv
  <2>3. QED
    BY <1>2, <2>1, <2>2 DEF HInv
<1>3. ASSUME NEW n \in used, Free(n) PROVE HInv'
  <2>1. Memory(RawHeapFree(free, FreeNode(n)), used \ {n}, rest)
    BY <1>0, GiveMemory
  <2>2. re' = <<>> \/ (re' \in used' \X used' /\ re'[1] # re'[2])
    <3>1. CASE re = <<>>
      BY <1>3, <3>1 DEF Free
    <3>2. ASSUME NEW x \in used, NEW y \in used, re = <<x, y>>, x # y
          PROVE  re' = <<>> \/ (re' \in used' \X used' /\ re'[1] # re'[2])
      <4>1. ToSet(re) = {x, y}
        BY <3>2 DEF ToSet
      <4>2. x # n /\ y # n /\ re' = <<x, y>> /\ used' = used \ {n}
        BY <1>3, <3>2, <4>1 DEF Free
      <4>3. QED
        BY <3>2, <4>2
    <3>3. QED
      BY <3>1, <3>2 DEF HInv
  <2>3. QED
    BY <1>3, <2>1, <2>2 DEF Free, HInv
<1>4. ASSUME NEW a \in Nat, NEW size \in Requests, FreeAgain(a, size) PROVE HInv'
  <2>. DEFINE f == [addr |-> a, size |-> size]
  <2>1. f \in Node /\ f.addr = a
    BY <1>0 DEF Node
  <2>2. PICK i \in 1..Len(free) : a \in free[i].addr..(End(free[i]) - 1)
    BY <1>4 DEF FreeAgain
  <2>3. free[i].addr \in Nat /\ End(free[i]) \in Nat
    BY <1>0, NodeFields DEF Memory, FreeList
  <2>4. In(free[i], f.addr)
    BY <2>1, <2>2, <2>3 DEF In
  <2>5. RawHeapFree(free, f) = free
    BY <1>0, <2>1, <2>4, FreeAgainRefused DEF Memory
  <2>6. QED
    BY <1>4, <2>5 DEF FreeAgain, HInv
<1>5. ASSUME NEW old \in used, NEW size \in Nat, NEW fit \in Fits, Krealloc(old, size, fit) PROVE HInv'
  <2>1. RawHeapAlloc(size, size, fit) /\ rest' = rest
    BY <1>5 DEF Krealloc
  <2>2. Memory(free', used', rest)
    BY <1>0, <2>1, AllocMemory
  <2>3. PICK w : w \notin used /\ used' = used \cup {w}
    BY <1>0, <2>1, AllocMemory
  <2>4. used' \ used = {w}
    BY <2>3
  <2>5. re' = <<old, w>>
    BY <2>4, <1>5 DEF Krealloc
  <2>6. re' \in used' \X used' /\ re'[1] # re'[2]
    BY <2>3, <2>5
  <2>7. QED
    BY <2>1, <2>2, <2>6 DEF HInv
<1>6. CASE KreallocKeep
  <2>1. PICK x \in used, y \in used : re = <<x, y>> /\ x # y
    BY <1>6 DEF KreallocKeep, HInv
  <2>2. ToSet(re) = {x, y}
    BY <2>1 DEF ToSet
  <2>3. /\ free' = RawHeapFree(free, FreeNode(y)) /\ rest' = rest /\ re' = <<>>
        /\ used' = (used \ {x, y}) \cup {[x EXCEPT !.req = y.req]}
    BY <1>6, <2>1, <2>2 DEF KreallocKeep
  <2>4. y.req \in Nat
    BY <1>0 DEF Memory
  <2>5. Memory(RawHeapFree(free, FreeNode(y)), used \ {y}, rest)
    BY <1>0, GiveMemory
  <2>6. Memory(RawHeapFree(free, FreeNode(y)),
               ((used \ {y}) \ {x}) \cup {[x EXCEPT !.req = y.req]}, rest)
    <3>1. x \in used \ {y}
      BY <2>1
    <3>2. QED
      BY <3>1, <2>4, <2>5, RenameMemory
  <2>7. (used \ {y}) \ {x} = used \ {x, y}
    OBVIOUS
  <2>8. QED
    BY <2>3, <2>6, <2>7 DEF HInv
<1>7. CASE KreallocMove
  <2>1. PICK x \in used, y \in used : re = <<x, y>> /\ x # y
    BY <1>7 DEF KreallocMove, HInv
  <2>2. /\ free' = RawHeapFree(free, FreeNode(x)) /\ rest' = rest /\ re' = <<>>
        /\ used' = used \ {x}
    BY <1>7, <2>1 DEF KreallocMove
  <2>3. Memory(RawHeapFree(free, FreeNode(x)), used \ {x}, rest)
    BY <1>0, GiveMemory
  <2>4. QED
    BY <2>2, <2>3 DEF HInv
<1>8. CASE UNCHANGED vars
  BY <1>8 DEF vars, HInv
<1>9. CASE Next
  <2>1. CASE \E b \in rest : AddBlock(b)
    BY <2>1, <1>1
  <2>2. CASE \E size \in Requests, fit \in Fits : Alloc(size, fit)
    BY <2>2, <1>0, <1>2 DEF Alloc
  <2>3. CASE \E size \in Requests, a \in Alignments, fit \in Fits : AllocAligned(size, a, fit)
    <3>1. PICK size \in Requests, a \in Alignments, fit \in Fits : AllocAligned(size, a, fit)
      BY <2>3
    <3>2. TopAlign(size, a) \in Nat /\ size \in Nat
      BY <1>0, TopAlignSize
    <3>3. QED
      BY <3>1, <3>2, <1>2 DEF AllocAligned
  <2>4. CASE \E n \in used : Free(n)
    BY <2>4, <1>3
  <2>5. CASE \E i \in 1..Len(free), size \in Requests :
               \E a \in free[i].addr..(End(free[i]) - 1) : FreeAgain(a, size)
    <3>1. PICK i \in 1..Len(free), size \in Requests :
               \E a \in free[i].addr..(End(free[i]) - 1) : FreeAgain(a, size)
      BY <2>5
    <3>2. PICK a \in free[i].addr..(End(free[i]) - 1) : FreeAgain(a, size)
      BY <3>1
    <3>3. a \in Nat
      BY <1>0, <3>2, NodeFields DEF Memory, FreeList
    <3>4. QED
      BY <3>2, <3>3, <1>4
  <2>6. CASE \E old \in used, size \in Requests, fit \in Fits : Krealloc(old, size, fit)
    BY <2>6, <1>0, <1>5
  <2>7. QED
    BY <1>9, <2>1, <2>2, <2>3, <2>4, <2>5, <2>6, <1>6, <1>7 DEF Next
<1>10. QED
  BY <1>8, <1>9

\* Nothing is free and nothing allocated before the first region is added.
LEMMA HInitInv == Init => HInv
<1>. SUFFICES ASSUME Init PROVE HInv
  OBVIOUS
<1>1. free = <<>> /\ used = {} /\ rest = Blocks /\ re = <<>>
  BY DEF Init
<1>2. FreeList(<<>>) /\ \A x \in Int : ~ Has(<<>>, x)
  BY DEF FreeList, Sizes, Ordered, Has
<1>3. Blocks \ Blocks = {}
  OBVIOUS
<1>4. Memory(<<>>, {}, Blocks)
  BY <1>2, <1>3 DEF Memory
<1>5. QED
  BY <1>1, <1>4 DEF HInv

----------------------------------------------------------------------------
(* The theorems *)

\* The state of the heap keeps its types: in particular the free list stays a
\* list of nodes and krealloc holds two nodes that are allocated.
THEOREM HeapTypes == Spec => []TypeOK
<1>1. HInv => TypeOK
  BY DEF HInv, Memory, FreeList, TypeOK
<1>2. QED
  BY <1>1, HInitInv, HNextInv, PTL DEF Spec

\* The free list is in address order and no two of its nodes touch, whatever is
\* allocated, freed, freed again and added in whatever order.
THEOREM AlwaysCoalesced == Spec => []Coalesced
<1>1. HInv => Coalesced
  <2>. SUFFICES ASSUME HInv, NEW i \in 1..(Len(free) - 1) PROVE End(free[i]) < free[i + 1].addr
    BY DEF Coalesced
  <2>1. free \in Seq(Node) /\ Ordered(free)
    BY DEF HInv, Memory, FreeList
  <2>2. i \in 1..Len(free) /\ i + 1 \in 1..Len(free) /\ i < i + 1
    BY <2>1, LenProperties
  <2>3. QED
    BY <2>1, <2>2 DEF Ordered
<1>2. QED
  BY <1>1, HInitInv, HNextInv, PTL DEF Spec

\* Free and allocated nodes are apart, large enough for a header, and together
\* all of the memory that was added: for any regions, requests and allocators.
THEOREM MemoryConserved == Spec => []NoByteLost
<1>1. HInv => NoByteLost
  <2>. SUFFICES ASSUME HInv PROVE NoByteLost
    OBVIOUS
  <2>. DEFINE N == 1..Len(free)
  <2>1. Memory(free, used, rest)
    BY DEF HInv
  <2>2. /\ free \in Seq(Node) /\ Ordered(free) /\ Len(free) \in Nat
        /\ \A i \in N : /\ free[i] \in Node /\ free[i].addr \in Nat /\ free[i].size \in Nat
                        /\ free[i].size >= SIZEOF_NODE /\ i \in Int
                        /\ End(free[i]) = free[i].addr + free[i].size
    BY <2>1, NodeFields DEF Memory, FreeList, Sizes
  <2>3. \A n \in used : n.addr \in Nat /\ n.size \in Nat /\ n.size >= SIZEOF_NODE
    BY <2>1 DEF Memory
  <2>4. \A i \in N : Bytes(free[i]) \subseteq Int /\ \A x \in Int : x \in Bytes(free[i]) <=> In(free[i], x)
    BY <2>2, BytesIn
  <2>5. \A n \in used : Bytes(n) \subseteq Int /\ \A x \in Int : x \in Bytes(n) <=> In(n, x)
    BY <2>3, BytesIn
  <2>6. ASSUME NEW i \in N, NEW j \in N, i # j PROVE Bytes(free[i]) \cap Bytes(free[j]) = {}
    <3>1. i < j \/ j < i
      BY <2>2, <2>6
    <3>2. End(free[i]) < free[j].addr \/ End(free[j]) < free[i].addr
      BY <3>1, <2>2 DEF Ordered
    <3>3. \A x \in Int : ~ (In(free[i], x) /\ In(free[j], x))
      BY <3>2, <2>2, SMTT(40) DEF In
    <3>4. QED
      BY <3>3, <2>4
  <2>7. \A m, n \in used : m # n => Bytes(m) \cap Bytes(n) = {}
    BY <2>1, <2>5 DEF Memory
  <2>8. ASSUME NEW n \in used, NEW i \in N PROVE Bytes(n) \cap Bytes(free[i]) = {}
    <3>1. \A x \in Int : In(n, x) => ~ In(free[i], x)
      BY <2>1 DEF Memory, Has
    <3>2. QED
      BY <3>1, <2>4, <2>5
  <2>9. \A n : n \in Nodes <=> (\E i \in N : n = free[i]) \/ \E m \in used : n = FreeNode(m)
    <3>1. DOMAIN free = N
      BY <2>2
    <3>2. QED
      BY <3>1 DEF Nodes, ToSet
  <2>10. \A m \in used : FreeNode(m).addr = m.addr /\ FreeNode(m).size = m.size
    BY DEF FreeNode
  <2>11. \A n \in Nodes : n.size >= SIZEOF_NODE
    BY <2>2, <2>3, <2>9, <2>10
  <2>12. \A m \in used : Bytes(FreeNode(m)) = Bytes(m)
    BY <2>10 DEF Bytes, End
  <2>. HIDE DEF N
  <2>13. ASSUME NEW x PROVE (\E n \in Nodes : x \in Bytes(n))
                              <=> \E b \in Blocks \ rest : x \in Bytes(b)
    <3>1. (\E n \in Nodes : x \in Bytes(n))
            <=> (\E i \in N : x \in Bytes(free[i])) \/ \E m \in used : x \in Bytes(m)
      BY <2>9, <2>12
    <3>2. \A b \in Blocks : Bytes(b) \subseteq Int /\ \A y \in Int : y \in Bytes(b) <=> In(b, y)
      BY BlocksAssumption, BytesIn DEF Node
    <3>3. CASE x \in Int
      <4>1. (Has(free, x) \/ \E n \in used : In(n, x)) <=> \E b \in Blocks \ rest : In(b, x)
        BY <3>3, <2>1 DEF Memory
      <4>2. Has(free, x) <=> \E i \in N : x \in Bytes(free[i])
        BY <3>3, <2>4 DEF Has, N
      <4>3. QED
        BY <4>1, <4>2, <3>1, <3>2, <3>3, <2>5
    <3>4. CASE x \notin Int
      BY <3>1, <3>2, <3>4, <2>4, <2>5
    <3>5. QED
      BY <3>3, <3>4
  <2>14. UNION {Bytes(n) : n \in Nodes} = UNION {Bytes(b) : b \in Blocks \ rest}
    BY <2>13
  <2>15. QED
    BY <2>6, <2>7, <2>8, <2>11, <2>14 DEF NoByteLost, N
<1>2. QED
  BY <1>1, HInitInv, HNextInv, PTL DEF Spec

\* first, best and worst fit settle on the node they promise, on any free list.
THEOREM FitsAsPromised == Spec => []FitAsPromised
<1>1. HInv => FitAsPromised
  <2>. SUFFICES ASSUME HInv, NEW size \in Requests
                PROVE  LET need  == Need(size)
                           large == {i \in 1..Len(free) : free[i].size >= need}
                           least(i, j)   == Least(free, i, j)
                           largest(i, j) == Largest(free, i, j)
                       IN  /\ large = {} => \A fit \in Fits : Fit(free, need, fit) = 0
                           /\ large # {} =>
                                /\ "first" \in Fits => Fit(free, need, "first") = Min(large)
                                /\ "best" \in Fits =>
                                     /\ Fit(free, need, "best") \in large
                                     /\ \A j \in large : least(Fit(free, need, "best"), j)
                                /\ "worst" \in Fits =>
                                     IF free[Min(large)].size = need
                                     THEN Fit(free, need, "worst") = Min(large)
                                     ELSE /\ Fit(free, need, "worst") \in large
                                          /\ \A j \in large : largest(Fit(free, need, "worst"), j)
    BY DEF FitAsPromised, Least, Largest
  <2>. DEFINE need == Need(size)
              large == {i \in 1..Len(free) : free[i].size >= need}
  <2>1. need \in Nat
    BY NeedSize, RequestsAssumption
  <2>2. free \in Seq(Node) /\ Len(free) \in Nat
    BY NodeFields DEF HInv, Memory, FreeList
  <2>. HIDE DEF need
  <2>3. large = Large(free, need, Len(free)) /\ large \subseteq Nat
    BY <2>2 DEF Large
  <2>. HIDE DEF large
  <2>4. ASSUME NEW fit \in {"best", "first", "worst"}
        PROVE  Promise(free, need, fit, Len(free), Fit(free, need, fit))
    BY <2>1, <2>2, FitRight
  <2>5. ASSUME large = {} PROVE \A fit \in Fits : Fit(free, need, fit) = 0
    <3>1. ASSUME NEW fit \in Fits PROVE Fit(free, need, fit) = 0
      <4>1. fit \in {"best", "first", "worst"}
        BY FitsAssumption
      <4>2. QED
        BY <4>1, <2>3, <2>4, <2>5 DEF Promise
    <3>2. QED
      BY <3>1
  <2>6. ASSUME large # {}
        PROVE  /\ Fit(free, need, "first") = Min(large)
               /\ Fit(free, need, "best") \in large
               /\ \A j \in large : Least(free, Fit(free, need, "best"), j)
               /\ IF free[Min(large)].size = need
                  THEN Fit(free, need, "worst") = Min(large)
                  ELSE /\ Fit(free, need, "worst") \in large
                       /\ \A j \in large : Largest(free, Fit(free, need, "worst"), j)
    <3>1. \E x \in large : \A y \in large : x <= y
      BY <2>3, <2>6, LeastExists
    <3>2. Min(large) \in large /\ \A y \in large : Min(large) <= y
      BY <3>1 DEF Min
    <3>3. ASSUME NEW x \in large, \A y \in large : x <= y PROVE x = Min(large)
      BY <3>2, <3>3, <2>3
    <3>4. Fit(free, need, "first") = Min(large)
      <4>1. Fit(free, need, "first") \in large /\ \A j \in large : Fit(free, need, "first") <= j
        BY <2>3, <2>4, <2>6 DEF Promise
      <4>2. QED
        BY <4>1, <3>3
    <3>5. Fit(free, need, "best") \in large /\ \A j \in large : Least(free, Fit(free, need, "best"), j)
      BY <2>3, <2>4, <2>6 DEF Promise
    <3>. DEFINE p == Fit(free, need, "worst")
    <3>6. p \in large /\ p # 0
      BY <2>3, <2>4, <2>6 DEF Promise
    <3>7. PICK f \in large : /\ \A j \in large : f <= j
                             /\ free[f].size = need => p = f
                             /\ free[f].size # need => \A j \in large : Largest(free, p, j)
      BY <3>6, <2>3, <2>4 DEF Promise
    <3>8. f = Min(large)
      BY <3>3, <3>7
    <3>9. QED
      BY <3>4, <3>5, <3>6, <3>7, <3>8
  <2>7. QED
    BY <2>5, <2>6 DEF large, need
<1>2. QED
  BY <1>1, HInitInv, HNextInv, PTL DEF Spec
=============================================================================
