---------------------------- MODULE Lists_proofs ----------------------------
(***************************************************************************)
(* Lemmas about the linked lists of the kernel, which the specifications   *)
(* model as sequences: list_add and list_del move the nodes behind the     *)
(* place by one and leave the order of all others alone.                   *)
(***************************************************************************)
EXTENDS Integers, Sequences, SequencesExt, SequenceTheorems, WellFoundedInduction, TLAPS

\* A non-empty set of numbers has a least one.
LEMMA LeastExists ==
    ASSUME NEW S, S \subseteq Nat, S # {}
    PROVE  \E x \in S : \A y \in S : x <= y
<1>. DEFINE R == {ss \in Nat \X Nat : ss[1] < ss[2]}
<1>1. R = OpToRel(<, Nat)
  BY Zenon DEF OpToRel
<1>2. PICK x \in S : \A y \in S : ~ (<<y, x>> \in R)
  <2>. HIDE DEF R
  <2>1. IsWellFoundedOn(R, Nat)
    BY <1>1, NatLessThanWellFounded, Zenon
  <2>2. QED
    BY <2>1, WFMin, Zenon
<1>3. ASSUME NEW y \in S PROVE x <= y
  <2>1. <<y, x>> \in Nat \X Nat /\ ~ (<<y, x>> \in R)
    BY <1>2
  <2>2. QED
    BY <2>1
<1>4. QED
  BY <1>3

\* list_add_tail in front of the node at i: the nodes from i on move up by one.
LEMMA InsertAtElements ==
    ASSUME NEW S, NEW s \in Seq(S), NEW i \in 1..(Len(s) + 1), NEW e \in S
    PROVE  /\ InsertAt(s, i, e) \in Seq(S)
           /\ Len(InsertAt(s, i, e)) = Len(s) + 1
           /\ \A k \in 1..(Len(s) + 1) : /\ k < i => InsertAt(s, i, e)[k] = s[k]
                                         /\ k = i => InsertAt(s, i, e)[k] = e
                                         /\ k > i => InsertAt(s, i, e)[k] = s[k - 1]
<1>. DEFINE a == SubSeq(s, 1, i - 1)
            b == SubSeq(s, i, Len(s))
<1>1. Len(s) \in Nat /\ i \in Nat /\ \A k \in 1..Len(s) : s[k] \in S
  BY LenProperties, ElementOfSeq
<1>2. a \in Seq(S) /\ Len(a) = i - 1 /\ \A k \in 1..(i - 1) : a[k] = s[k]
  BY <1>1, SubSeqProperties
<1>3. b \in Seq(S) /\ Len(b) = Len(s) - i + 1 /\ \A k \in 1..(Len(s) - i + 1) : b[k] = s[k + i - 1]
  BY <1>1, SubSeqProperties
<1>. HIDE DEF a, b
<1>4. <<e>> \in Seq(S) /\ Len(<<e>>) = 1 /\ <<e>>[1] = e
  OBVIOUS
<1>5. /\ a \o <<e>> \in Seq(S) /\ Len(a \o <<e>>) = i
      /\ \A k \in 1..i : (a \o <<e>>)[k] = IF k < i THEN s[k] ELSE e
  BY <1>1, <1>2, <1>4, ConcatProperties
<1>. DEFINE c == a \o <<e>>
<1>. HIDE DEF c
<1>6. /\ c \o b \in Seq(S) /\ Len(c \o b) = Len(s) + 1
      /\ \A k \in 1..(Len(s) + 1) : (c \o b)[k] = IF k <= i THEN c[k] ELSE b[k - i]
  <2>1. c \in Seq(S) /\ Len(c) = i
    BY <1>5 DEF c
  <2>2. /\ c \o b \in Seq(S) /\ Len(c \o b) = Len(c) + Len(b)
        /\ \A k \in 1..(Len(c) + Len(b)) : (c \o b)[k] = IF k <= Len(c) THEN c[k] ELSE b[k - Len(c)]
    BY <2>1, <1>3, ConcatProperties, Zenon
  <2>3. Len(c) + Len(b) = Len(s) + 1
    BY <2>1, <1>1, <1>3
  <2>4. QED
    BY <2>1, <2>2, <2>3
<1>7. InsertAt(s, i, e) = c \o b
  BY DEF InsertAt, a, b, c
<1>8. ASSUME NEW k \in 1..(Len(s) + 1)
      PROVE  /\ k < i => (c \o b)[k] = s[k]
             /\ k = i => (c \o b)[k] = e
             /\ k > i => (c \o b)[k] = s[k - 1]
  <2>1. CASE k <= i
    BY <2>1, <1>1, <1>5, <1>6 DEF c
  <2>2. CASE k > i
    <3>1. k - i \in 1..(Len(s) - i + 1) /\ (k - i) + i - 1 = k - 1
      BY <2>2, <1>1
    <3>2. b[k - i] = s[(k - i) + i - 1]
      BY <3>1, <1>3
    <3>3. (c \o b)[k] = b[k - i]
      BY <2>2, <1>1, <1>6
    <3>4. k \in Int /\ i \in Int
      BY <1>1
    <3>5. QED
      BY <3>1, <3>2, <3>3, <3>4, <2>2
  <2>3. k <= i \/ k > i
    BY <1>1
  <2>4. QED
    BY <2>1, <2>2, <2>3, Zenon
<1>9. QED
  BY <1>6, <1>7, <1>8

\* list_del of the node at i: the nodes behind it move down by one.
LEMMA RemoveAtElements ==
    ASSUME NEW S, NEW s \in Seq(S), NEW i \in 1..Len(s)
    PROVE  /\ RemoveAt(s, i) \in Seq(S)
           /\ Len(RemoveAt(s, i)) = Len(s) - 1
           /\ \A k \in 1..(Len(s) - 1) :
                 RemoveAt(s, i)[k] = IF k < i THEN s[k] ELSE s[k + 1]
<1>. DEFINE a == SubSeq(s, 1, i - 1)
            b == SubSeq(s, i + 1, Len(s))
<1>1. Len(s) \in Nat /\ i \in Nat /\ \A k \in 1..Len(s) : s[k] \in S
  BY LenProperties, ElementOfSeq
<1>2. a \in Seq(S) /\ Len(a) = i - 1 /\ \A k \in 1..(i - 1) : a[k] = s[k]
  BY <1>1, SubSeqProperties
<1>3. b \in Seq(S) /\ Len(b) = Len(s) - i /\ \A k \in 1..(Len(s) - i) : b[k] = s[k + i]
  BY <1>1, SubSeqProperties
<1>. HIDE DEF a, b
<1>4. /\ a \o b \in Seq(S) /\ Len(a \o b) = Len(s) - 1
      /\ \A k \in 1..(Len(s) - 1) : (a \o b)[k] = IF k < i THEN a[k] ELSE b[k - i + 1]
  BY <1>1, <1>2, <1>3, ConcatProperties
<1>5. RemoveAt(s, i) = a \o b
  BY DEF RemoveAt, a, b
<1>6. ASSUME NEW k \in 1..(Len(s) - 1)
      PROVE  (a \o b)[k] = IF k < i THEN s[k] ELSE s[k + 1]
  <2>1. CASE k < i
    BY <2>1, <1>1, <1>2, <1>4
  <2>2. CASE k >= i
    <3>1. k - i + 1 \in 1..(Len(s) - i) /\ (k - i + 1) + i = k + 1
      BY <2>2, <1>1
    <3>2. b[k - i + 1] = s[(k - i + 1) + i]
      BY <3>1, <1>3
    <3>3. (a \o b)[k] = b[k - i + 1]
      BY <2>2, <1>1, <1>4
    <3>4. k \in Int /\ i \in Int
      BY <1>1
    <3>5. QED
      BY <3>1, <3>2, <3>3, <3>4, <2>2
  <2>3. k < i \/ k >= i
    BY <1>1
  <2>4. QED
    BY <2>1, <2>2, <2>3, Zenon
<1>7. QED
  BY <1>4, <1>5, <1>6

----------------------------------------------------------------------------
(* Places: Up(p, k) is where the node at k is once one was put in at p, and
   where the node at k came from once the one at p was taken out. *)

Up(p, k) == IF k < p THEN k ELSE k + 1

\* Up keeps the order and leaves the place p free.
LEMMA UpOrder ==
    ASSUME NEW p \in Int, NEW j \in Int, NEW k \in Int
    PROVE  /\ Up(p, j) \in Int /\ Up(p, j) # p
           /\ Up(p, j) = Up(p, k) <=> j = k
           /\ Up(p, j) < Up(p, k) <=> j < k
           /\ Up(p, j) < p <=> j < p
           /\ j <= Up(p, j) /\ Up(p, j) <= j + 1
BY DEF Up

\* Every place but p is taken.
LEMMA UpOnto ==
    ASSUME NEW p \in Nat, NEW n \in Nat, p \in 1..(n + 1)
    PROVE  /\ \A j \in 1..n : Up(p, j) \in 1..(n + 1)
           /\ \A k \in 1..(n + 1) : k = p \/ \E j \in 1..n : k = Up(p, j)
<1>1. ASSUME NEW k \in 1..(n + 1), k # p PROVE \E j \in 1..n : k = Up(p, j)
  <2>1. CASE k < p
    BY <2>1 DEF Up
  <2>2. CASE k > p
    <3>1. k - 1 \in 1..n /\ k = Up(p, k - 1)
      BY <2>2 DEF Up
    <3>2. QED
      BY <3>1
  <2>3. QED
    BY <1>1, <2>1, <2>2
<1>2. QED
  BY <1>1 DEF Up

\* m is s with e in front of the node at p ...
Inserted(s, p, e, m) ==
    /\ Len(m) = Len(s) + 1 /\ m[p] = e
    /\ \A k \in 1..Len(s) : Up(p, k) \in 1..(Len(s) + 1) /\ m[Up(p, k)] = s[k]
    /\ \A k \in 1..(Len(s) + 1) : k = p \/ \E j \in 1..Len(s) : k = Up(p, j)

\* ... and without the node at p.
Removed(s, p, m) ==
    /\ Len(m) = Len(s) - 1 /\ Len(s) - 1 \in Nat
    /\ \A k \in 1..(Len(s) - 1) : Up(p, k) \in 1..Len(s) /\ m[k] = s[Up(p, k)]
    /\ \A k \in 1..Len(s) : k = p \/ \E j \in 1..(Len(s) - 1) : k = Up(p, j)

\* list_add in front of the node at p
LEMMA InsertAtProperties ==
    ASSUME NEW S, NEW s \in Seq(S), NEW p \in 1..(Len(s) + 1), NEW e \in S
    PROVE  /\ InsertAt(s, p, e) \in Seq(S)
           /\ Inserted(s, p, e, InsertAt(s, p, e))
<1>. DEFINE m == InsertAt(s, p, e)
<1>1. Len(s) \in Nat /\ p \in Nat
  BY LenProperties
<1>2. /\ m \in Seq(S) /\ Len(m) = Len(s) + 1
      /\ \A k \in 1..(Len(s) + 1) : /\ k < p => m[k] = s[k]
                                    /\ k = p => m[k] = e
                                    /\ k > p => m[k] = s[k - 1]
  <2>1. m \in Seq(S) /\ Len(m) = Len(s) + 1
    BY InsertAtElements
  <2>2. ASSUME NEW k \in 1..(Len(s) + 1)
        PROVE  (k < p => m[k] = s[k]) /\ (k = p => m[k] = e) /\ (k > p => m[k] = s[k - 1])
    BY InsertAtElements
  <2>3. QED
    BY <2>1, <2>2
<1>. HIDE DEF m
<1>3. m[p] = e
  BY <1>1, <1>2
<1>4. ASSUME NEW k \in 1..Len(s) PROVE m[Up(p, k)] = s[k]
  <2>1. CASE k < p
    <3>1. k \in 1..(Len(s) + 1) /\ Up(p, k) = k
      BY <2>1, <1>1 DEF Up
    <3>2. QED
      BY <2>1, <3>1, <1>2
  <2>2. CASE k >= p
    <3>1. k + 1 \in 1..(Len(s) + 1) /\ k + 1 > p /\ (k + 1) - 1 = k
      BY <2>2, <1>1
    <3>2. m[k + 1] = s[k]
      BY <3>1, <1>2
    <3>3. Up(p, k) = k + 1
      BY <2>2, <1>1 DEF Up
    <3>4. QED
      BY <3>2, <3>3
  <2>3. QED
    BY <2>1, <2>2, <1>1
<1>5. /\ \A j \in 1..Len(s) : Up(p, j) \in 1..(Len(s) + 1)
      /\ \A k \in 1..(Len(s) + 1) : k = p \/ \E j \in 1..Len(s) : k = Up(p, j)
  BY <1>1, UpOnto
<1>6. Inserted(s, p, e, m)
  BY <1>2, <1>3, <1>4, <1>5 DEF Inserted
<1>7. QED
  BY <1>2, <1>6 DEF m

\* list_del of the node at p
LEMMA RemoveAtProperties ==
    ASSUME NEW S, NEW s \in Seq(S), NEW p \in 1..Len(s)
    PROVE  /\ RemoveAt(s, p) \in Seq(S)
           /\ Removed(s, p, RemoveAt(s, p))
<1>. DEFINE m == RemoveAt(s, p)
            n == Len(s) - 1
<1>1. Len(s) \in Nat /\ p \in Nat /\ n \in Nat /\ n + 1 = Len(s)
  BY LenProperties
<1>2. /\ m \in Seq(S) /\ Len(m) = n
      /\ \A k \in 1..n : m[k] = IF k < p THEN s[k] ELSE s[k + 1]
  BY RemoveAtElements
<1>3. \A k \in 1..n : m[k] = s[Up(p, k)]
  <2>. HIDE DEF m, n
  <2>. QED
    BY <1>2 DEF Up
<1>4. p \in 1..(n + 1)
  BY <1>1
<1>5. QED
  <2>. HIDE DEF m, n
  <2>1. /\ \A j \in 1..n : Up(p, j) \in 1..(n + 1)
        /\ \A k \in 1..(n + 1) : k = p \/ \E j \in 1..n : k = Up(p, j)
    BY <1>1, <1>4, UpOnto
  <2>2. Removed(s, p, m)
    BY <1>1, <1>2, <1>3, <2>1 DEF n, Removed
  <2>3. QED
    BY <1>2, <2>2 DEF m

----------------------------------------------------------------------------
(* Lists in which no node is twice *)

Once(s) == \A i, j \in 1..Len(s) : s[i] = s[j] => i = j

\* The elements of a list by their places
LEMMA ElementPlace ==
    ASSUME NEW S, NEW s \in Seq(S), NEW e
    PROVE  /\ e \in ToSet(s) <=> \E i \in 1..Len(s) : s[i] = e
           /\ ToSet(s) \subseteq S
BY DEF ToSet

\* m holds what s holds, and e.
Joined(s, e, m) == ToSet(m) = ToSet(s) \cup {e} /\ (Once(s) /\ e \notin ToSet(s) => Once(m))

\* list_add: the list holds one element more, and none twice if it was new.
LEMMA InsertedJoins ==
    ASSUME NEW S, NEW s \in Seq(S), NEW p \in 1..(Len(s) + 1), NEW e \in S, NEW m \in Seq(S),
           Inserted(s, p, e, m)
    PROVE  Joined(s, e, m)
<1>1. Len(s) \in Nat /\ p \in Int /\ Len(m) = Len(s) + 1 /\ m[p] = e
  BY DEF Inserted
<1>2. ASSUME NEW k \in 1..Len(m) PROVE k = p \/ \E j \in 1..Len(s) : k = Up(p, j) /\ m[k] = s[j]
  BY <1>1 DEF Inserted
<1>3. ASSUME NEW j \in 1..Len(s) PROVE Up(p, j) \in 1..Len(m) /\ m[Up(p, j)] = s[j]
  BY <1>1 DEF Inserted
<1>4. ToSet(m) = ToSet(s) \cup {e}
  <2>1. ASSUME NEW x \in ToSet(m) PROVE x \in ToSet(s) \cup {e}
    <3>1. PICK k \in 1..Len(m) : m[k] = x
      BY <2>1, ElementPlace
    <3>2. QED
      BY <1>1, <1>2, <3>1, ElementPlace
  <2>2. ASSUME NEW x \in ToSet(s) PROVE x \in ToSet(m)
    <3>1. PICK j \in 1..Len(s) : s[j] = x
      BY <2>2, ElementPlace
    <3>2. QED
      BY <1>3, <3>1, ElementPlace
  <2>3. e \in ToSet(m)
    BY <1>1, ElementPlace
  <2>4. QED
    BY <2>1, <2>2, <2>3
<1>5. ASSUME Once(s), e \notin ToSet(s), NEW i \in 1..Len(m), NEW j \in 1..Len(m), m[i] = m[j]
      PROVE  i = j
  <2>1. ASSUME NEW k \in 1..Len(s) PROVE s[k] # e
    BY <1>5, ElementPlace
  <2>2. CASE i = p
    BY <1>1, <1>2, <1>5, <2>1, <2>2
  <2>3. CASE j = p
    BY <1>1, <1>2, <1>5, <2>1, <2>3
  <2>4. CASE i # p /\ j # p
    <3>1. PICK a \in 1..Len(s) : i = Up(p, a) /\ m[i] = s[a]
      BY <1>2, <2>4
    <3>2. PICK b \in 1..Len(s) : j = Up(p, b) /\ m[j] = s[b]
      BY <1>2, <2>4
    <3>3. a = b
      BY <1>5, <3>1, <3>2 DEF Once
    <3>4. QED
      BY <3>1, <3>2, <3>3
  <2>5. QED
    BY <2>2, <2>3, <2>4
<1>6. QED
  BY <1>4, <1>5 DEF Joined, Once

\* list_add_tail at the end
LEMMA AppendInserts ==
    ASSUME NEW S, NEW s \in Seq(S), NEW e \in S
    PROVE  /\ Append(s, e) \in Seq(S)
           /\ Len(s) + 1 \in 1..(Len(s) + 1)
           /\ Inserted(s, Len(s) + 1, e, Append(s, e))
<1>1. Len(s) \in Nat /\ Append(s, e) \in Seq(S) /\ Len(Append(s, e)) = Len(s) + 1
      /\ Append(s, e)[Len(s) + 1] = e /\ \A k \in 1..Len(s) : Append(s, e)[k] = s[k]
  BY AppendProperties, LenProperties
<1>2. ASSUME NEW k \in 1..Len(s) PROVE Up(Len(s) + 1, k) = k /\ k \in 1..(Len(s) + 1)
  BY <1>1 DEF Up
<1>3. ASSUME NEW k \in 1..(Len(s) + 1) PROVE k = Len(s) + 1 \/ \E j \in 1..Len(s) : k = Up(Len(s) + 1, j)
  <2>1. k = Len(s) + 1 \/ k \in 1..Len(s)
    BY <1>1
  <2>2. QED
    BY <1>2, <2>1
<1>4. \A k \in 1..Len(s) : Up(Len(s) + 1, k) \in 1..(Len(s) + 1) /\ Append(s, e)[Up(Len(s) + 1, k)] = s[k]
  BY <1>1, <1>2
<1>5. Len(s) + 1 \in 1..(Len(s) + 1)
  BY <1>1
<1>6. QED
  BY <1>1, <1>3, <1>4, <1>5 DEF Inserted

\* m holds what s holds, but for e.
Left(s, e, m) == ToSet(m) = ToSet(s) \ {e} /\ Once(m)

\* list_del: the list holds one element less.
LEMMA RemovedLeaves ==
    ASSUME NEW S, NEW s \in Seq(S), NEW p \in 1..Len(s), NEW m \in Seq(S), Removed(s, p, m), Once(s)
    PROVE  Left(s, s[p], m)
<1>1. Len(s) \in Nat /\ p \in Int /\ Len(m) = Len(s) - 1
  BY DEF Removed
<1>2. ASSUME NEW k \in 1..Len(m) PROVE Up(p, k) \in 1..Len(s) /\ m[k] = s[Up(p, k)] /\ Up(p, k) # p
  <2>1. k \in 1..(Len(s) - 1) /\ k \in Int
    BY <1>1
  <2>2. Up(p, k) # p
    BY <1>1, <2>1, UpOrder
  <2>3. QED
    BY <2>1, <2>2 DEF Removed
<1>3. ASSUME NEW k \in 1..Len(s), k # p PROVE \E j \in 1..Len(m) : m[j] = s[k]
  BY <1>1, <1>3 DEF Removed
<1>4. ToSet(m) = ToSet(s) \ {s[p]}
  <2>1. ASSUME NEW x \in ToSet(m) PROVE x \in ToSet(s) \ {s[p]}
    <3>1. PICK k \in 1..Len(m) : m[k] = x
      BY <2>1, ElementPlace
    <3>2. Up(p, k) \in 1..Len(s) /\ x = s[Up(p, k)] /\ Up(p, k) # p
      BY <1>2, <3>1
    <3>3. x # s[p]
      BY <3>2 DEF Once
    <3>4. QED
      BY <3>2, <3>3, ElementPlace
  <2>2. ASSUME NEW x \in ToSet(s) \ {s[p]} PROVE x \in ToSet(m)
    <3>1. PICK k \in 1..Len(s) : s[k] = x
      BY <2>2, ElementPlace
    <3>2. \E j \in 1..Len(m) : m[j] = x
      BY <1>3, <2>2, <3>1
    <3>3. QED
      BY <3>2, ElementPlace
  <2>3. QED
    BY <2>1, <2>2
<1>5. ASSUME NEW i \in 1..Len(m), NEW j \in 1..Len(m), m[i] = m[j] PROVE i = j
  <2>1. Up(p, i) = Up(p, j)
    BY <1>2, <1>5 DEF Once
  <2>2. QED
    BY <1>1, <2>1, UpOrder
<1>6. QED
  BY <1>4, <1>5 DEF Left, Once

\* The list without the first node that is e
LEMMA RemoveFirstProperties ==
    ASSUME NEW S, NEW s \in Seq(S), NEW e
    PROVE  /\ RemoveFirst(s, e) \in Seq(S)
           /\ e \in ToSet(s) => \E p \in 1..Len(s) : s[p] = e /\ Removed(s, p, RemoveFirst(s, e))
           /\ e \notin ToSet(s) => RemoveFirst(s, e) = s
           /\ Once(s) => Left(s, e, RemoveFirst(s, e))
<1>1. CASE e \in ToSet(s)
  <2> DEFINE I == {i \in 1..Len(s) : s[i] = e}
             P(x) == x \in I /\ \A y \in I : x <= y
  <2>1. I # {} /\ I \subseteq Nat /\ \E i \in 1..Len(s) : s[i] = e
    BY <1>1, ElementPlace
  <2>2. \E x \in I : \A y \in I : x <= y
    BY <2>1, LeastExists, Zenon
  <2>3. Min(I) \in I
    BY <2>2 DEF Min
  <2>4. RemoveFirst(s, e) = RemoveAt(s, Min(I))
    BY <2>1 DEF RemoveFirst, SelectInSeq
  <2>5. PICK p \in 1..Len(s) : s[p] = e /\ RemoveFirst(s, e) = RemoveAt(s, p)
    BY <2>3, <2>4
  <2>6. RemoveAt(s, p) \in Seq(S) /\ Removed(s, p, RemoveAt(s, p))
    BY RemoveAtProperties
  <2>7. Once(s) => Left(s, e, RemoveAt(s, p))
    BY <2>5, <2>6, RemovedLeaves
  <2>8. QED
    BY <1>1, <2>5, <2>6, <2>7
<1>2. CASE e \notin ToSet(s)
  <2>1. RemoveFirst(s, e) = s
    BY <1>2, ElementPlace DEF RemoveFirst
  <2>2. QED
    BY <1>2, <2>1 DEF Left
<1>3. QED
  BY <1>1, <1>2

\* One list behind the other
LEMMA ConcatOnce ==
    ASSUME NEW S, NEW s \in Seq(S), NEW u \in Seq(S)
    PROVE  /\ s \o u \in Seq(S) /\ Len(s \o u) = Len(s) + Len(u)
           /\ ToSet(s \o u) = ToSet(s) \cup ToSet(u)
           /\ Once(s) /\ Once(u) /\ ToSet(s) \cap ToSet(u) = {} => Once(s \o u)
<1> DEFINE m == s \o u
<1>1. Len(s) \in Nat /\ Len(u) \in Nat /\ m \in Seq(S) /\ Len(m) = Len(s) + Len(u)
  BY ConcatProperties, LenProperties
<1>2. \A k \in 1..(Len(s) + Len(u)) : m[k] = IF k <= Len(s) THEN s[k] ELSE u[k - Len(s)]
  BY ConcatProperties
<1> HIDE DEF m
<1>3. ASSUME NEW k \in 1..Len(m)
      PROVE  \/ k \in 1..Len(s) /\ m[k] = s[k]
             \/ k - Len(s) \in 1..Len(u) /\ m[k] = u[k - Len(s)]
  BY <1>1, <1>2
<1>4. ASSUME NEW k \in 1..Len(s) PROVE k \in 1..Len(m) /\ m[k] = s[k]
  BY <1>1, <1>2
<1>5. ASSUME NEW k \in 1..Len(u) PROVE k + Len(s) \in 1..Len(m) /\ m[k + Len(s)] = u[k]
  <2>1. k + Len(s) \in 1..(Len(s) + Len(u)) /\ ~(k + Len(s) <= Len(s)) /\ (k + Len(s)) - Len(s) = k
    BY <1>1
  <2>2. QED
    BY <1>1, <1>2, <2>1
<1>6. ToSet(m) = ToSet(s) \cup ToSet(u)
  <2>1. ASSUME NEW x \in ToSet(m) PROVE x \in ToSet(s) \cup ToSet(u)
    <3>1. PICK k \in 1..Len(m) : m[k] = x
      BY <1>1, <2>1, ElementPlace
    <3>2. QED
      BY <1>3, <3>1, ElementPlace
  <2>2. ASSUME NEW x \in ToSet(s) PROVE x \in ToSet(m)
    <3>1. PICK k \in 1..Len(s) : s[k] = x
      BY <2>2, ElementPlace
    <3>2. QED
      BY <1>1, <1>4, <3>1, ElementPlace
  <2>3. ASSUME NEW x \in ToSet(u) PROVE x \in ToSet(m)
    <3>1. PICK k \in 1..Len(u) : u[k] = x
      BY <2>3, ElementPlace
    <3>2. QED
      BY <1>1, <1>5, <3>1, ElementPlace
  <2>4. QED
    BY <2>1, <2>2, <2>3
<1>7. ASSUME Once(s), Once(u), ToSet(s) \cap ToSet(u) = {}, NEW i \in 1..Len(m), NEW j \in 1..Len(m), m[i] = m[j]
      PROVE  i = j
  <2>1. ASSUME NEW a \in 1..Len(s), NEW b \in 1..Len(u) PROVE s[a] # u[b]
    BY <1>7, ElementPlace
  <2>2. CASE i \in 1..Len(s) /\ m[i] = s[i] /\ j \in 1..Len(s) /\ m[j] = s[j]
    BY <1>7, <2>2 DEF Once
  <2>3. CASE i - Len(s) \in 1..Len(u) /\ m[i] = u[i - Len(s)] /\ j - Len(s) \in 1..Len(u) /\ m[j] = u[j - Len(s)]
    <3>1. i - Len(s) = j - Len(s)
      BY <1>7, <2>3 DEF Once
    <3>2. QED
      BY <1>1, <3>1
  <2>4. QED
    BY <1>3, <1>7, <2>1, <2>2, <2>3
<1>8. QED
  BY <1>1, <1>6, <1>7 DEF Once, m

\* A list from its end to its beginning
LEMMA ReverseOnce ==
    ASSUME NEW S, NEW s \in Seq(S)
    PROVE  /\ Reverse(s) \in Seq(S) /\ Len(Reverse(s)) = Len(s)
           /\ ToSet(Reverse(s)) = ToSet(s)
           /\ Once(s) => Once(Reverse(s))
<1> DEFINE m == Reverse(s)
<1>1. Len(s) \in Nat
  OBVIOUS
<1>2. \A k \in 1..Len(s) : (Len(s) - k) + 1 \in 1..Len(s) /\ (Len(s) - ((Len(s) - k) + 1)) + 1 = k
  BY <1>1
<1>3. m \in Seq(S) /\ Len(m) = Len(s) /\ \A k \in 1..Len(s) : m[k] = s[(Len(s) - k) + 1]
  BY <1>1, <1>2 DEF Reverse
<1> HIDE DEF m
<1>4. \A k \in 1..Len(s) : s[k] = m[(Len(s) - k) + 1]
  BY <1>2, <1>3
<1>5. ToSet(m) = ToSet(s)
  <2>1. ASSUME NEW x \in ToSet(m) PROVE x \in ToSet(s)
    <3>1. PICK k \in 1..Len(m) : m[k] = x
      BY <1>3, <2>1, ElementPlace
    <3>2. QED
      BY <1>2, <1>3, <3>1, ElementPlace
  <2>2. ASSUME NEW x \in ToSet(s) PROVE x \in ToSet(m)
    <3>1. PICK k \in 1..Len(s) : s[k] = x
      BY <2>2, ElementPlace
    <3>2. (Len(s) - k) + 1 \in 1..Len(m) /\ m[(Len(s) - k) + 1] = x
      BY <1>2, <1>3, <1>4, <3>1
    <3>3. QED
      BY <1>3, <3>2, ElementPlace
  <2>3. QED
    BY <2>1, <2>2
<1>6. ASSUME Once(s), NEW i \in 1..Len(m), NEW j \in 1..Len(m), m[i] = m[j]
      PROVE  i = j
  <2>1. (Len(s) - i) + 1 = (Len(s) - j) + 1
    BY <1>2, <1>3, <1>6 DEF Once
  <2>2. QED
    BY <1>1, <1>3, <2>1
<1>7. QED
  BY <1>3, <1>5, <1>6 DEF Once, m

\* The first n nodes of a list and the rest of it
Split(s, a, b) ==
    /\ ToSet(a) \cup ToSet(b) = ToSet(s)
    /\ Once(s) => Once(a) /\ Once(b) /\ ToSet(a) \cap ToSet(b) = {}

\* A list cut in two: the parts hold its elements, each in one of them.
LEMMA SplitOnce ==
    ASSUME NEW S, NEW s \in Seq(S), NEW n \in 0..Len(s)
    PROVE  /\ SubSeq(s, 1, n) \in Seq(S) /\ Len(SubSeq(s, 1, n)) = n
           /\ SubSeq(s, n + 1, Len(s)) \in Seq(S) /\ Len(SubSeq(s, n + 1, Len(s))) = Len(s) - n
           /\ Split(s, SubSeq(s, 1, n), SubSeq(s, n + 1, Len(s)))
<1> DEFINE a == SubSeq(s, 1, n)
           b == SubSeq(s, n + 1, Len(s))
<1>1. Len(s) \in Nat /\ n \in Nat /\ n <= Len(s) /\ \A k \in 1..Len(s) : s[k] \in S
  BY LenProperties, ElementOfSeq
<1>2. a \in Seq(S) /\ Len(a) = n /\ \A k \in 1..n : a[k] = s[k]
  BY <1>1, SubSeqProperties
<1>3. b \in Seq(S) /\ Len(b) = Len(s) - n /\ \A k \in 1..(Len(s) - n) : b[k] = s[k + n]
  BY <1>1, SubSeqProperties
<1> HIDE DEF a, b
<1>4. ASSUME NEW k \in 1..Len(s)
      PROVE  (k \in 1..n /\ a[k] = s[k]) \/ (k - n \in 1..Len(b) /\ b[k - n] = s[k])
  <2>1. CASE k <= n
    <3>1. k \in 1..n
      BY <1>1, <2>1
    <3>2. QED
      BY <1>2, <3>1
  <2>2. CASE k > n
    <3>1. k - n \in 1..(Len(s) - n) /\ (k - n) + n = k
      BY <1>1, <2>2
    <3>2. QED
      BY <1>3, <3>1
  <2>3. QED
    BY <1>1, <2>1, <2>2
<1>5. \A k \in 1..Len(a) : k \in 1..Len(s) /\ a[k] = s[k]
  BY <1>1, <1>2
<1>6. \A k \in 1..Len(b) : k + n \in 1..Len(s) /\ b[k] = s[k + n]
  BY <1>1, <1>3
<1>7. ToSet(a) \cup ToSet(b) = ToSet(s)
  <2>1. ASSUME NEW x \in ToSet(s) PROVE x \in ToSet(a) \cup ToSet(b)
    <3>1. PICK k \in 1..Len(s) : s[k] = x
      BY <2>1, ElementPlace
    <3>2. QED
      BY <1>2, <1>3, <1>4, <3>1, ElementPlace
  <2>2. ASSUME NEW x \in ToSet(a) PROVE x \in ToSet(s)
    BY <1>2, <1>5, <2>2, ElementPlace
  <2>3. ASSUME NEW x \in ToSet(b) PROVE x \in ToSet(s)
    BY <1>3, <1>6, <2>3, ElementPlace
  <2>4. QED
    BY <2>1, <2>2, <2>3
<1>8. ASSUME Once(s) PROVE Once(a) /\ Once(b) /\ ToSet(a) \cap ToSet(b) = {}
  <2>1. ASSUME NEW i \in 1..Len(a), NEW j \in 1..Len(a), a[i] = a[j] PROVE i = j
    BY <1>5, <1>8, <2>1 DEF Once
  <2>2. ASSUME NEW i \in 1..Len(b), NEW j \in 1..Len(b), b[i] = b[j] PROVE i = j
    <3>1. i + n = j + n
      BY <1>6, <1>8, <2>2 DEF Once
    <3>2. QED
      BY <1>1, <1>3, <3>1
  <2>3. ASSUME NEW x \in ToSet(a), x \in ToSet(b) PROVE FALSE
    <3>1. PICK i \in 1..Len(a) : a[i] = x
      BY <1>2, <2>3, ElementPlace
    <3>2. PICK j \in 1..Len(b) : b[j] = x
      BY <1>3, <2>3, ElementPlace
    <3>3. i = j + n
      BY <1>5, <1>6, <1>8, <3>1, <3>2, SMTT(40) DEF Once
    <3>4. QED
      BY <1>1, <1>2, <1>3, <3>3
  <2>4. QED
    BY <2>1, <2>2, <2>3 DEF Once
<1>9. QED
  BY <1>2, <1>3, <1>7, <1>8 DEF Split, a, b
=============================================================================
