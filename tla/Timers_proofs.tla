--------------------------- MODULE Timers_proofs ---------------------------
(***************************************************************************)
(* No timer is passed over or held up by one created after it, for any     *)
(* number of timers, any delays and any width of the interval.  The list   *)
(* need not be sorted: the argument is that whatever stands in front of a  *)
(* timer expires by the bound the timer got when it was inserted, and that *)
(* a walk leaves behind it only timers that expire later.  What a creation *)
(* inserts after that may have expired already, and is set apart.          *)
(***************************************************************************)
EXTENDS Timers, Lists_proofs

\* The timers of a list that a new one is put behind have a latest expiry.
LEMMA LatestExists ==
    ASSUME NEW l \in Seq(Timer), NEW at \in Nat, NEW n \in 0..Len(l)
    PROVE  LET S == {at} \cup {l[i].expire_at : i \in 1..n}
           IN  Max(S) \in S /\ \A y \in S : y <= Max(S)
<1>. DEFINE S(m) == {at} \cup {l[i].expire_at : i \in 1..m}
            Good(m) == \E x \in S(m) : \A y \in S(m) : x >= y
            Bad == {m \in 0..Len(l) : ~ Good(m)}
<1>1. Len(l) \in Nat /\ \A k \in 1..Len(l) : l[k].expire_at \in Nat
  <2>1. \A k \in 1..Len(l) : l[k] \in Timer
    BY ElementOfSeq
  <2>2. QED
    BY <2>1, LenProperties DEF Timer
<1>2. Bad = {}
  <2>. SUFFICES ASSUME Bad # {} PROVE FALSE
    OBVIOUS
  <2>1. PICK m \in Bad : \A y \in Bad : m <= y
    <3>1. Bad \subseteq Nat
      BY <1>1
    <3>2. QED
      BY <3>1, LeastExists
  <2>2. m # 0
    <3>1. S(0) = {at}
      OBVIOUS
    <3>2. Good(0)
      BY <3>1
    <3>3. QED
      BY <3>2, <2>1
  <2>3. m \in Nat /\ m - 1 \in 0..Len(l) /\ m \in 1..Len(l)
    BY <2>1, <2>2, <1>1
  <2>4. Good(m - 1)
    <3>. HIDE DEF Good
    <3>1. ~ (m - 1 \in Bad)
      BY <2>1, <2>3
    <3>2. QED
      BY <3>1, <2>3
  <2>5. PICK x \in S(m - 1) : \A y \in S(m - 1) : x >= y
    BY <2>4
  <2>6. S(m) = S(m - 1) \cup {l[m].expire_at}
    <3>1. 1..m = (1..(m - 1)) \cup {m}
      BY <2>3
    <3>2. QED
      BY <3>1
  <2>7. x \in Nat /\ l[m].expire_at \in Nat /\ \A y \in S(m - 1) : y \in Nat
    BY <1>1, <2>3, SMTT(40)
  <2>8. Good(m)
    <3>. DEFINE z == IF x >= l[m].expire_at THEN x ELSE l[m].expire_at
    <3>1. z \in S(m) /\ \A y \in S(m) : z >= y
      BY <2>5, <2>6, <2>7, SMTT(40)
    <3>2. QED
      BY <3>1
  <2>9. QED
    BY <2>8, <2>1
<1>3. Good(n)
  BY <1>2
<1>4. \A y \in S(n) : y \in Nat
  BY <1>1
<1>5. Max(S(n)) \in S(n) /\ \A y \in S(n) : Max(S(n)) >= y
  BY <1>3 DEF Max
<1>6. QED
  BY <1>4, <1>5


----------------------------------------------------------------------------
(* What insertion and removal do to one list *)

\* The parts of the invariant that are about one list l: no timer twice, and
\* nothing in front of a timer expires after its bound.
Unique(l)  == \A i, j \in 1..Len(l) : l[i].id = l[j].id => i = j
Bounded(l) == \A i \in 1..Len(l) : \A j \in 1..i : l[j].expire_at <= l[i].bound

\* The timers of a list
Ids(l) == {l[i].id : i \in 1..Len(l)}

\* Every timer of l that is not in f expires after tick tc, or waits for one that does.
Waiting(l, f, tc) == \A i \in 1..Len(l) : l[i].id \in f \/ l[i].bound > tc

\* A walk of tick tc is at w: what is in front of w expires after tc.
Walked(l, w, tc) ==
    \/ w = "end" /\ \A i \in 1..Len(l) : l[i].expire_at > tc
    \/ \E i \in 1..Len(l) : l[i].id = w /\ \A j \in 1..(i - 1) : l[j].expire_at > tc

\* The fields of the timers of a list
LEMMA TimerFields ==
    ASSUME NEW l \in Seq(Timer)
    PROVE  /\ Len(l) \in Nat
           /\ \A k \in 1..Len(l) : /\ l[k] \in Timer /\ l[k].id \in Slots
                                   /\ l[k].expire_at \in Nat /\ l[k].interval \in Nat
                                   /\ l[k].bound \in Nat
<1>1. \A k \in 1..Len(l) : l[k] \in Timer
  BY ElementOfSeq
<1>2. QED
  BY <1>1, LenProperties DEF Timer

\* raw_clocksource_insert_timer stops in front of a timer that expires no
\* earlier than the new one, or behind the last.
LEMMA PlaceProperties ==
    ASSUME NEW l \in Seq(Timer), NEW at \in Nat
    PROVE  /\ Place(l, at) \in 1..(Len(l) + 1)
           /\ Place(l, at) <= Len(l) => at <= l[Place(l, at)].expire_at
<1>1. Len(l) \in Nat
  BY LenProperties
<1>2. CASE Later(l, at) = {}
  BY <1>1, <1>2 DEF Place
<1>3. CASE Later(l, at) # {}
  <2>1. Later(l, at) \subseteq Nat
    BY <1>1 DEF Later
  <2>2. \E i \in Later(l, at) : \A j \in Later(l, at) : i <= j
    BY <1>3, <2>1, LeastExists
  <2>3. Place(l, at) \in Later(l, at)
    BY <1>3, <2>2 DEF Place
  <2>4. QED
    BY <2>3, <1>1 DEF Later
<1>4. QED
  BY <1>2, <1>3

\* An insertion keeps the list sound and what waits waiting, and does not disturb
\* a walk if the new timer expires later.
LEMMA InsertKeeps ==
    ASSUME NEW l \in Seq(Timer), Unique(l), Bounded(l),
           NEW id \in Slots, \A i \in 1..Len(l) : l[i].id # id,
           NEW at \in Nat, NEW every \in Nat, NEW tc \in Nat
    PROVE  LET m == Insert(l, id, at, every) IN
           /\ m \in Seq(Timer) /\ Unique(m) /\ Bounded(m) /\ Ids(m) \subseteq Ids(l) \cup {id}
           /\ \A f : Waiting(l, f, tc) => Waiting(m, f \cup {id}, tc)
           /\ \A w : Walked(l, w, tc) /\ at > tc => Walked(m, w, tc)
<1>. DEFINE p == Place(l, at)
            S == {at} \cup {l[i].expire_at : i \in 1..(p - 1)}
            e == [id |-> id, expire_at |-> at, interval |-> every, bound |-> Max(S)]
            m == Insert(l, id, at, every)
            N == 1..Len(l)
<1>1. /\ Len(l) \in Nat
      /\ \A k \in N : l[k].id \in Slots /\ l[k].expire_at \in Nat /\ l[k].bound \in Nat
  BY TimerFields
<1>2. p \in 1..(Len(l) + 1) /\ (p <= Len(l) => at <= l[p].expire_at)
  BY PlaceProperties
<1>3. Max(S) \in S /\ \A y \in S : y <= Max(S)
  <2>1. p - 1 \in 0..Len(l)
    BY <1>1, <1>2
  <2>2. QED
    BY <2>1, LatestExists
<1>. HIDE DEF p
<1>4. /\ Max(S) \in Nat /\ at <= Max(S)
      /\ \A k \in 1..(p - 1) : l[k].expire_at <= Max(S)
  <2>1. \A k \in 1..(p - 1) : k \in N
    BY <1>1, <1>2
  <2>2. at \in S /\ (\A k \in 1..(p - 1) : l[k].expire_at \in S) /\ \A y \in S : y \in Nat
    BY <2>1, <1>1
  <2>. HIDE DEF S
  <2>3. QED
    BY <2>2, <1>3
<1>5. e \in Timer /\ e.id = id /\ e.expire_at = at /\ e.bound = Max(S)
  BY <1>4 DEF Timer
<1>6. m = InsertAt(l, p, e)
  BY DEF Insert, p
<1>. HIDE DEF S, e, m
<1>7. /\ m \in Seq(Timer) /\ Len(m) = Len(l) + 1 /\ m[p] = e
      /\ \A k \in N : Up(p, k) \in 1..(Len(l) + 1) /\ m[Up(p, k)] = l[k]
      /\ \A k \in 1..(Len(l) + 1) : k = p \/ \E j \in N : k = Up(p, j)
  <2>1. p \in 1..(Len(l) + 1) /\ e \in Timer
    BY <1>2, <1>5
  <2>2. m \in Seq(Timer) /\ Inserted(l, p, e, m)
    BY <2>1, <1>6, InsertAtProperties
  <2>3. QED
    BY <2>2 DEF Inserted
<1>8. \A j, k \in N : /\ Up(p, j) # p
                      /\ Up(p, j) < Up(p, k) <=> j < k
                      /\ Up(p, j) <= Up(p, k) => j <= k
                      /\ Up(p, j) < p <=> j < p
                      /\ Up(p, j) \in Int
  <2>. SUFFICES ASSUME NEW j \in N, NEW k \in N
                PROVE  /\ Up(p, j) # p
                       /\ Up(p, j) < Up(p, k) <=> j < k
                       /\ Up(p, j) <= Up(p, k) => j <= k
                       /\ Up(p, j) < p <=> j < p
                       /\ Up(p, j) \in Int
    BY Zenon
  <2>1. j \in Int /\ k \in Int /\ p \in Int
    BY <1>1, <1>2
  <2>. HIDE DEF N
  <2>2. QED
    BY <2>1 DEF Up
<1>9. p \in Int
  BY <1>2
<1>. DEFINE M == 1..Len(m)
<1>10. \A k \in M : k = p \/ \E j \in N : k = Up(p, j)
  BY <1>7
<1>11. Unique(m)
  <2>. SUFFICES ASSUME NEW i \in M, NEW j \in M, m[i].id = m[j].id
                PROVE  i = j
    BY DEF Unique
  <2>1. CASE i = p /\ j = p
    BY <2>1
  <2>2. ASSUME NEW a \in N, i = Up(p, a) \/ j = Up(p, a), i = p \/ j = p PROVE FALSE
    <3>1. m[Up(p, a)].id = m[p].id
      BY <2>2, <1>8
    <3>2. QED
      BY <3>1, <1>5, <1>7
  <2>3. ASSUME NEW a \in N, NEW b \in N, i = Up(p, a), j = Up(p, b) PROVE i = j
    <3>1. l[a].id = l[b].id
      BY <2>3, <1>7
    <3>2. a = b
      BY <3>1 DEF Unique
    <3>3. QED
      BY <3>2, <2>3
  <2>4. (i = p \/ \E a \in N : i = Up(p, a)) /\ (j = p \/ \E b \in N : j = Up(p, b))
    BY <1>10
  <2>. HIDE DEF M, N
  <2>5. QED
    BY <2>1, <2>2, <2>3, <2>4, Zenon
<1>12. Bounded(m)
  <2>. SUFFICES ASSUME NEW i \in M, NEW j \in M, j <= i
                PROVE  m[j].expire_at <= m[i].bound
    <3>1. \A i \in M : \A j \in 1..i : j \in M /\ j <= i
      BY <1>1, <1>7
    <3>2. QED
      BY <3>1 DEF Bounded
  <2>0. \A a, b \in N : a <= b => l[a].expire_at <= l[b].bound
    BY <1>1 DEF Bounded
  <2>1. CASE i = p /\ j = p
    BY <2>1, <1>4, <1>5, <1>7
  <2>2. ASSUME NEW a \in N, i = p, j = Up(p, a) PROVE m[j].expire_at <= m[i].bound
    <3>1. a < p
      BY <2>2, <1>8, <1>9
    <3>2. a \in 1..(p - 1)
      BY <3>1, <1>1, <1>9
    <3>3. l[a].expire_at <= Max(S)
      BY <3>2, <1>4
    <3>4. QED
      BY <3>3, <2>2, <1>5, <1>7
  <2>3. ASSUME NEW a \in N, j = p, i = Up(p, a) PROVE m[j].expire_at <= m[i].bound
    <3>1. p <= a
      BY <2>3, <1>1, <1>8, <1>9
    <3>2. p \in N
      BY <3>1, <1>1, <1>2
    <3>3. at <= l[p].expire_at /\ l[p].expire_at <= l[a].bound
      BY <3>1, <3>2, <2>0, <1>1, <1>2
    <3>4. at <= l[a].bound
      BY <3>2, <3>3, <1>1
    <3>5. QED
      BY <3>4, <2>3, <1>5, <1>7
  <2>4. ASSUME NEW a \in N, NEW b \in N, i = Up(p, a), j = Up(p, b)
        PROVE  m[j].expire_at <= m[i].bound
    <3>1. b <= a
      BY <2>4, <1>8
    <3>2. QED
      BY <3>1, <2>0, <2>4, <1>7
  <2>5. (i = p \/ \E a \in N : i = Up(p, a)) /\ (j = p \/ \E b \in N : j = Up(p, b))
    BY <1>10
  <2>. HIDE DEF M, N
  <2>6. QED
    BY <2>1, <2>2, <2>3, <2>4, <2>5, Zenon
<1>13. ASSUME NEW f, Waiting(l, f, tc) PROVE Waiting(m, f \cup {id}, tc)
  <2>. SUFFICES ASSUME NEW i \in M
                PROVE  m[i].id \in f \cup {id} \/ m[i].bound > tc
    BY DEF Waiting
  <2>1. CASE i = p
    BY <2>1, <1>5, <1>7
  <2>2. ASSUME NEW a \in N, i = Up(p, a) PROVE m[i].id \in f \/ m[i].bound > tc
    BY <2>2, <1>13, <1>7 DEF Waiting
  <2>3. QED
    BY <2>1, <2>2, <1>10
<1>14. ASSUME NEW w, Walked(l, w, tc), at > tc PROVE Walked(m, w, tc)
  <2>1. CASE w = "end" /\ \A i \in N : l[i].expire_at > tc
    <3>1. ASSUME NEW i \in M PROVE m[i].expire_at > tc
      <4>1. CASE i = p
        BY <4>1, <1>14, <1>5, <1>7
      <4>2. ASSUME NEW a \in N, i = Up(p, a) PROVE m[i].expire_at > tc
        BY <4>2, <2>1, <1>7
      <4>3. QED
        BY <4>1, <4>2, <1>10
    <3>2. QED
      BY <2>1, <3>1 DEF Walked
  <2>2. ASSUME NEW i \in N, l[i].id = w, \A j \in 1..(i - 1) : l[j].expire_at > tc
        PROVE  Walked(m, w, tc)
    <3>1. Up(p, i) \in M /\ m[Up(p, i)].id = w
      BY <2>2, <1>7
    <3>2. ASSUME NEW j \in 1..(Up(p, i) - 1) PROVE m[j].expire_at > tc
      <4>0. j \in M /\ j < Up(p, i)
        BY <3>1, <1>1, <1>7, <1>8
      <4>1. CASE j = p
        BY <4>1, <1>14, <1>5, <1>7
      <4>2. ASSUME NEW a \in N, j = Up(p, a) PROVE m[j].expire_at > tc
        <5>1. a < i
          BY <4>0, <4>2, <1>8
        <5>2. a \in 1..(i - 1)
          BY <5>1, <1>1
        <5>3. QED
          BY <5>2, <4>2, <2>2, <1>7
      <4>3. QED
        BY <4>0, <4>1, <4>2, <1>10
    <3>3. QED
      BY <3>1, <3>2 DEF Walked
  <2>3. QED
    BY <2>1, <2>2, <1>14 DEF Walked
<1>15. Ids(m) \subseteq Ids(l) \cup {id}
  <2>. SUFFICES ASSUME NEW i \in M PROVE m[i].id \in Ids(l) \cup {id}
    BY DEF Ids
  <2>1. CASE i = p
    BY <2>1, <1>5, <1>7
  <2>2. ASSUME NEW a \in N, i = Up(p, a) PROVE m[i].id \in Ids(l)
    BY <2>2, <1>7 DEF Ids
  <2>3. QED
    BY <2>1, <2>2, <1>10
<1>16. QED
  BY <1>7, <1>11, <1>12, <1>13, <1>14, <1>15 DEF m

\* list_del keeps the list sound, and the walk that stood at the timer can go on
\* behind it.
LEMMA UnlinkKeeps ==
    ASSUME NEW l \in Seq(Timer), Unique(l), Bounded(l), NEW n \in 1..Len(l), NEW tc \in Nat
    PROVE  LET m == Unlink(l, n) IN
           /\ m \in Seq(Timer) /\ Unique(m) /\ Bounded(m) /\ Ids(m) \subseteq Ids(l)
           /\ \A i \in 1..Len(m) : m[i].id # l[n].id
           /\ \A f : Waiting(l, f, tc) => Waiting(m, f \ {l[n].id}, tc)
           /\ (\A j \in 1..(n - 1) : l[j].expire_at > tc) => Walked(m, At(l, n + 1), tc)
<1>. DEFINE m == Unlink(l, n)
            M == 1..Len(m)
            N == 1..Len(l)
<1>1. /\ Len(l) \in Nat /\ n \in Nat
      /\ \A k \in N : l[k].id \in Slots /\ l[k].expire_at \in Nat /\ l[k].bound \in Nat
  BY TimerFields
<1>2. m \in Seq(Timer) /\ Removed(l, n, m)
  BY RemoveAtProperties DEF Unlink
<1>. HIDE DEF m
<1>3. /\ Len(m) = Len(l) - 1 /\ Len(m) \in Nat
      /\ \A k \in M : Up(n, k) \in N /\ m[k] = l[Up(n, k)]
  BY <1>2 DEF Removed
<1>4. \A j, k \in M : /\ Up(n, j) # n
                      /\ Up(n, j) = Up(n, k) => j = k
                      /\ j <= k => Up(n, j) <= Up(n, k)
  <2>. SUFFICES ASSUME NEW j \in M, NEW k \in M
                PROVE  /\ Up(n, j) # n
                       /\ Up(n, j) = Up(n, k) => j = k
                       /\ j <= k => Up(n, j) <= Up(n, k)
    BY Zenon
  <2>1. j \in Int /\ k \in Int /\ n \in Int
    BY <1>1, <1>3
  <2>. HIDE DEF M
  <2>2. QED
    BY <2>1 DEF Up
<1>5. Unique(m)
  <2>. SUFFICES ASSUME NEW i \in M, NEW j \in M, m[i].id = m[j].id
                PROVE  i = j
    BY DEF Unique
  <2>1. Up(n, i) = Up(n, j)
    BY <1>3 DEF Unique
  <2>2. QED
    BY <2>1, <1>4
<1>6. Bounded(m)
  <2>. SUFFICES ASSUME NEW i \in M, NEW j \in M, j <= i
                PROVE  m[j].expire_at <= m[i].bound
    <3>1. \A i \in M : \A j \in 1..i : j \in M /\ j <= i
      BY <1>3
    <3>2. QED
      BY <3>1 DEF Bounded
  <2>1. \A a, b \in N : a <= b => l[a].expire_at <= l[b].bound
    BY <1>1 DEF Bounded
  <2>2. QED
    BY <2>1, <1>3, <1>4
<1>7. ASSUME NEW i \in M PROVE m[i].id # l[n].id
  BY <1>3, <1>4 DEF Unique
<1>8. ASSUME NEW f, Waiting(l, f, tc) PROVE Waiting(m, f \ {l[n].id}, tc)
  BY <1>3, <1>7, <1>8 DEF Waiting
<1>9. ASSUME \A j \in 1..(n - 1) : l[j].expire_at > tc
      PROVE  Walked(m, At(l, n + 1), tc)
  <2>1. ASSUME NEW k \in M, k < n PROVE m[k].expire_at > tc
    <3>1. Up(n, k) = k /\ k \in 1..(n - 1)
      BY <2>1, <1>1, <1>3 DEF Up
    <3>2. QED
      BY <3>1, <1>3, <1>9
  <2>2. CASE n < Len(l)
    <3>1. n \in M /\ Up(n, n) = n + 1
      BY <2>2, <1>1, <1>3 DEF Up
    <3>2. m[n].id = At(l, n + 1)
      BY <3>1, <2>2, <1>1, <1>3 DEF At
    <3>3. \A j \in 1..(n - 1) : m[j].expire_at > tc
      BY <2>1, <2>2, <1>1, <1>3
    <3>4. QED
      BY <3>1, <3>2, <3>3 DEF Walked
  <2>3. CASE n = Len(l)
    <3>1. At(l, n + 1) = "end"
      BY <2>3, <1>1 DEF At
    <3>2. \A k \in M : m[k].expire_at > tc
      BY <2>1, <2>3, <1>1, <1>3
    <3>3. QED
      BY <3>1, <3>2 DEF Walked
  <2>4. QED
    BY <2>2, <2>3, <1>1
<1>10. Ids(m) \subseteq Ids(l)
  BY <1>3 DEF Ids
<1>11. QED
  BY <1>2, <1>5, <1>6, <1>7, <1>8, <1>9, <1>10 DEF m

----------------------------------------------------------------------------
(* The invariant *)

\* A source with timers l, those in f put there since its last walk, the walk at w,
\* its last walk at tick tc and the time c: no tick falls into a walk, and outside
\* of a walk what was left on the list waits.
Sound(l, f, w, tc, c) ==
    /\ tc <= c /\ Unique(l) /\ Bounded(l)
    /\ w = "idle" => Waiting(l, f, tc)
    /\ w # "idle" => c = tc /\ Walked(l, w, tc)

SoundAt(cs) == Sound(timers[cs], fresh[cs], walk[cs], tcUpdate[cs], count[cs])

\* A creation has its timer to itself until it inserts it.
Apart ==
    /\ \A tm \in made, cs \in Sources : tm.id \notin Ids(timers[cs])
    /\ \A a, b \in made : a.id = b.id => a = b

TInv == TimersTypeOK /\ Apart /\ \A cs \in Sources : SoundAt(cs)

\* A walk begins at the first timer, with the time of now.
LEMMA BeginWalk ==
    ASSUME NEW l \in Seq(Timer), NEW tc \in Nat, NEW c \in Nat, NEW d \in Nat,
           NEW f, Sound(l, f, "idle", tc, c)
    PROVE  At(l, 1) \in (Slots \cup {"idle", "end"}) /\ Sound(l, {}, At(l, 1), d, d)
<1>1. Len(l) \in Nat /\ \A k \in 1..Len(l) : l[k].id \in Slots
  BY TimerFields
<1>2. CASE Len(l) = 0
  BY <1>1, <1>2 DEF At, Sound, Walked
<1>3. CASE Len(l) # 0
  <2>1. 1 \in 1..Len(l) /\ At(l, 1) = l[1].id /\ l[1].id \in Slots
    BY <1>1, <1>3 DEF At
  <2>2. Walked(l, At(l, 1), d)
    BY <2>1 DEF Walked
  <2>3. At(l, 1) # "idle"
    BY <2>1, SlotsAssumption
  <2>4. QED
    BY <2>1, <2>2, <2>3 DEF Sound
<1>4. QED
  BY <1>2, <1>3

\* The place of the timer a walk is at is the one that Walked speaks of.
LEMMA WalkedPlace ==
    ASSUME NEW l \in Seq(Timer), Unique(l), NEW tc \in Nat, NEW n \in 1..Len(l),
           Walked(l, l[n].id, tc)
    PROVE  \A j \in 1..(n - 1) : l[j].expire_at > tc
<1>1. l[n].id # "end"
  BY TimerFields, SlotsAssumption
<1>2. PICK i \in 1..Len(l) : l[i].id = l[n].id /\ \A j \in 1..(i - 1) : l[j].expire_at > tc
  BY <1>1 DEF Walked
<1>3. i = n
  BY <1>2 DEF Unique
<1>4. QED
  BY <1>2, <1>3

\* The loop ends: everything left behind waits.
LEMMA EndWalk ==
    ASSUME NEW l \in Seq(Timer), NEW w, NEW tc \in Nat, NEW c \in Nat,
           NEW f, Sound(l, f, w, tc, c), w # "idle",
           \/ w = "end"
           \/ \E i \in 1..Len(l) : w = l[i].id /\ ~ (c >= l[i].expire_at)
    PROVE  Sound(l, f, "idle", tc, c)
<1>1. /\ Len(l) \in Nat
      /\ \A k \in 1..Len(l) : l[k].id \in Slots /\ l[k].expire_at \in Nat /\ l[k].bound \in Nat
  BY TimerFields
<1>2. c = tc /\ Unique(l) /\ Walked(l, w, tc)
  BY DEF Sound
<1>3. \A i \in 1..Len(l) : \A j \in 1..i : l[j].expire_at <= l[i].bound
  BY DEF Sound, Bounded
<1>4. CASE w = "end"
  <2>1. \A i \in 1..Len(l) : l[i].expire_at > tc
    BY <1>1, <1>2, <1>4, SlotsAssumption DEF Walked
  <2>2. Waiting(l, f, tc)
    BY <2>1, <1>1, <1>3 DEF Waiting
  <2>3. QED
    BY <2>2 DEF Sound
<1>5. ASSUME NEW i \in 1..Len(l), w = l[i].id, ~ (c >= l[i].expire_at)
      PROVE  Sound(l, f, "idle", tc, c)
  <2>1. \A j \in 1..(i - 1) : l[j].expire_at > tc
    BY <1>2, <1>5, WalkedPlace
  <2>2. l[i].expire_at > tc
    BY <1>1, <1>2, <1>5
  <2>3. ASSUME NEW k \in 1..Len(l) PROVE l[k].bound > tc
    <3>1. k \in Int /\ i \in Int
      BY <1>1
    <3>2. CASE k < i
      <4>1. k \in 1..(i - 1) /\ k \in 1..k
        BY <3>1, <3>2
      <4>2. l[k].expire_at > tc /\ l[k].expire_at <= l[k].bound
        BY <4>1, <2>1, <1>3
      <4>3. QED
        BY <4>2, <1>1
    <3>3. CASE i <= k
      <4>1. i \in 1..k
        BY <3>1, <3>3
      <4>2. l[i].expire_at <= l[k].bound
        BY <4>1, <1>3
      <4>3. QED
        BY <4>2, <2>2, <1>1
    <3>4. QED
      BY <3>1, <3>2, <3>3
  <2>4. Waiting(l, f, tc)
    BY <2>3 DEF Waiting
  <2>5. QED
    BY <2>4 DEF Sound
<1>6. QED
  BY <1>4, <1>5

\* A timer fires at n: unlinked, and inserted again if it has an interval.
LEMMA FireKeeps ==
    ASSUME NEW l \in Seq(Timer), NEW tc \in Nat, NEW c \in Nat, NEW n \in 1..Len(l),
           NEW f, Sound(l, f, l[n].id, tc, c)
    PROVE  LET m == IF l[n].interval = 0 THEN Unlink(l, n)
                    ELSE Insert(Unlink(l, n), l[n].id, l[n].interval + c, l[n].interval)
           IN  /\ m \in Seq(Timer) /\ Ids(m) \subseteq Ids(l) /\ At(l, n + 1) \in (Slots \cup {"idle", "end"})
               /\ Sound(m, f, At(l, n + 1), tc, c)
<1>. DEFINE r == Unlink(l, n)
            w == At(l, n + 1)
            every == l[n].interval
            k == Insert(r, l[n].id, every + c, every)
<1>1. /\ Len(l) \in Nat /\ n \in Nat
      /\ \A i \in 1..Len(l) : l[i].id \in Slots
      /\ l[n].id \in Slots /\ every \in Nat
  BY TimerFields
<1>2. l[n].id # "idle" /\ w \in (Slots \cup {"end"}) /\ w # "idle"
  BY <1>1, SlotsAssumption DEF At
<1>3. c = tc /\ Unique(l) /\ Bounded(l) /\ Walked(l, l[n].id, tc)
  BY <1>2 DEF Sound
<1>4. \A j \in 1..(n - 1) : l[j].expire_at > tc
  BY <1>3, WalkedPlace
<1>5. /\ r \in Seq(Timer) /\ Unique(r) /\ Bounded(r) /\ Walked(r, w, tc)
      /\ Ids(r) \subseteq Ids(l)
      /\ \A i \in 1..Len(r) : r[i].id # l[n].id
  BY <1>3, <1>4, UnlinkKeeps
<1>6. CASE every = 0
  <2>1. Sound(r, f, w, tc, c)
    BY <1>2, <1>3, <1>5 DEF Sound
  <2>2. QED
    BY <2>1, <1>2, <1>5, <1>6
<1>7. CASE every # 0
  <2>1. every + c \in Nat /\ every + c > tc
    BY <1>1, <1>3, <1>7
  <2>. HIDE DEF r, w, every
  <2>0. l[n].id \in Ids(l)
    BY DEF Ids
  <2>2. /\ k \in Seq(Timer) /\ Unique(k) /\ Bounded(k) /\ Ids(k) \subseteq Ids(r) \cup {l[n].id}
        /\ \A x : Walked(r, x, tc) /\ every + c > tc => Walked(k, x, tc)
    BY <2>1, <1>1, <1>5, InsertKeeps
  <2>. HIDE DEF k
  <2>3. Walked(k, w, tc)
    BY <2>1, <2>2, <1>5
  <2>4. Sound(k, f, w, tc, c)
    BY <2>2, <2>3, <1>2, <1>3 DEF Sound
  <2>5. QED
    BY <2>0, <2>2, <2>4, <1>2, <1>5, <1>7 DEF k, r, w, every
<1>8. QED
  BY <1>6, <1>7

\* What the invariant says of one source
LEMMA SourceSound ==
    ASSUME TInv, NEW cs \in Sources
    PROVE  /\ timers[cs] \in Seq(Timer) /\ tcUpdate[cs] \in Nat /\ count[cs] \in Nat
           /\ walk[cs] \in (Slots \cup {"idle", "end"}) /\ fresh[cs] \in SUBSET Slots
           /\ Sound(timers[cs], fresh[cs], walk[cs], tcUpdate[cs], count[cs])
BY DEF TInv, TimersTypeOK, SoundAt

\* A timer in the hands of a creation is on no list.
LEMMA MadeApart ==
    ASSUME TInv, NEW cs \in Sources
    PROVE  \A tm \in made : tm.id \notin Ids(timers[cs])
BY DEF TInv, Apart

\* A step that changes one source only, and puts no timer in a creation's hands
LEMMA OneSource ==
    ASSUME TInv, NEW cs \in Sources, NEW m \in Seq(Timer), NEW f \in SUBSET Slots,
           NEW w \in (Slots \cup {"idle", "end"}),
           NEW tc \in Nat, NEW c \in Nat, Sound(m, f, w, tc, c),
           made' \subseteq made, \A tm \in made' : tm.id \notin Ids(m),
           timers' = [timers EXCEPT ![cs] = m], fresh' = [fresh EXCEPT ![cs] = f],
           walk' = [walk EXCEPT ![cs] = w],
           tcUpdate' = [tcUpdate EXCEPT ![cs] = tc], count' = [count EXCEPT ![cs] = c]
    PROVE  TInv'
<1>1. TimersTypeOK'
  BY DEF TInv, TimersTypeOK
<1>2. ASSUME NEW d \in Sources
      PROVE  SoundAt(d)' /\ \A tm \in made' : tm.id \notin Ids(timers'[d])
  <2>1. CASE d = cs
    <3>1. timers'[d] = m /\ walk'[d] = w /\ tcUpdate'[d] = tc /\ count'[d] = c /\ fresh'[d] = f
      BY <2>1 DEF TInv, TimersTypeOK
    <3>2. QED
      BY <3>1 DEF SoundAt
  <2>2. CASE d # cs
    <3>1. timers'[d] = timers[d] /\ walk'[d] = walk[d] /\ tcUpdate'[d] = tcUpdate[d]
          /\ count'[d] = count[d] /\ fresh'[d] = fresh[d]
      BY <2>2 DEF TInv, TimersTypeOK
    <3>2. Sound(timers[d], fresh[d], walk[d], tcUpdate[d], count[d])
      BY SourceSound
    <3>3. QED
      BY <3>1, <3>2, MadeApart DEF SoundAt
  <2>3. QED
    BY <2>1, <2>2
<1>3. Apart'
  BY <1>2 DEF TInv, Apart
<1>4. QED
  BY <1>1, <1>2, <1>3 DEF TInv

\* An insertion outside of a walk leaves the list sound.
LEMMA InsertSound ==
    ASSUME NEW l \in Seq(Timer), NEW id \in Slots, id \notin Ids(l),
           NEW at \in Nat, NEW every \in Nat, NEW tc \in Nat, NEW c \in Nat,
           NEW f, NEW w, w = "idle", Sound(l, f, w, tc, c)
    PROVE  LET m == Insert(l, id, at, every)
           IN  m \in Seq(Timer) /\ Ids(m) \subseteq Ids(l) \cup {id}
               /\ Sound(m, f \cup {id}, w, tc, c)
<1>. DEFINE m == Insert(l, id, at, every)
<1>1. Unique(l) /\ Bounded(l) /\ tc <= c /\ Waiting(l, f, tc)
  BY DEF Sound
<1>2. \A i \in 1..Len(l) : l[i].id # id
  BY DEF Ids
<1>3. /\ m \in Seq(Timer) /\ Unique(m) /\ Bounded(m) /\ Ids(m) \subseteq Ids(l) \cup {id}
      /\ \A g : Waiting(l, g, tc) => Waiting(m, g \cup {id}, tc)
  BY <1>1, <1>2, InsertKeeps
<1>. HIDE DEF m
<1>4. Sound(m, f \cup {id}, w, tc, c)
  BY <1>1, <1>3 DEF Sound
<1>5. QED
  BY <1>3, <1>4 DEF m

\* No time passes, and no walk goes on.
Still == count' = count /\ tcUpdate' = tcUpdate /\ walk' = walk

\* A timer that is linked in is new to its list, and the list stays sound.
LEMMA LinkKeeps ==
    ASSUME TInv, NEW tm \in Pending, Link(tm), tm.id \notin Ids(timers[tm.source]),
           Still, made' \subseteq made, \A a \in made' : a.id # tm.id
    PROVE  TInv'
<1>1. PICK cs \in Sources, id \in Slots, at \in Nat, every \in Nat :
          cs = tm.source /\ id = tm.id /\ at = tm.expire_at /\ every = tm.interval
  BY DEF Pending
<1>. DEFINE m == Insert(timers[cs], id, at, every)
            f == fresh[cs] \cup {id}
<1>2. walk[cs] = "idle" /\ walk[cs] \in (Slots \cup {"idle", "end"})
  BY <1>1 DEF Link, Idle
<1>3. /\ timers[cs] \in Seq(Timer) /\ tcUpdate[cs] \in Nat /\ count[cs] \in Nat
      /\ fresh[cs] \in SUBSET Slots
      /\ Sound(timers[cs], fresh[cs], walk[cs], tcUpdate[cs], count[cs])
  BY SourceSound
<1>4. id \notin Ids(timers[cs])
  BY <1>1
<1>5. /\ m \in Seq(Timer) /\ Ids(m) \subseteq Ids(timers[cs]) \cup {id}
      /\ Sound(m, f, walk[cs], tcUpdate[cs], count[cs])
  BY <1>2, <1>3, <1>4, InsertSound
<1>6. f \in SUBSET Slots
  BY <1>1, <1>3
<1>7. \A a \in made' : a.id \notin Ids(m)
  <2>1. \A a \in made : a.id \notin Ids(timers[cs])
    BY MadeApart
  <2>2. QED
    BY <2>1, <1>1, <1>5
<1>8. /\ made' \subseteq made /\ timers' = [timers EXCEPT ![cs] = m]
      /\ fresh' = [fresh EXCEPT ![cs] = f]
      /\ walk' = [walk EXCEPT ![cs] = walk[cs]]
      /\ tcUpdate' = [tcUpdate EXCEPT ![cs] = tcUpdate[cs]]
      /\ count' = [count EXCEPT ![cs] = count[cs]]
  BY <1>1, <1>2 DEF Still, Link, TInv, TimersTypeOK
<1>. HIDE DEF m, f
<1>9. QED
  BY <1>2, <1>3, <1>5, <1>6, <1>7, <1>8, OneSource

\* What a creation fills in
LEMMA MadePending ==
    ASSUME TInv, NEW cs \in Sources, NEW id \in Slots, NEW ticks \in Delays, NEW oneshot \in BOOLEAN
    PROVE  /\ Made(cs, id, ticks, oneshot) \in Pending
           /\ Made(cs, id, ticks, oneshot).id = id /\ Made(cs, id, ticks, oneshot).source = cs
<1>. DEFINE every == IF oneshot THEN 0 ELSE IF cs = "sys" THEN ticks % UintMod ELSE ticks
<1>1. every \in Nat /\ count[cs] + ticks \in Nat
  BY SourceSound, DelayAssumption
<1>. HIDE DEF every
<1>2. Made(cs, id, ticks, oneshot) =
      [source |-> cs, id |-> id, expire_at |-> count[cs] + ticks, interval |-> every]
  BY DEF Made, every
<1>3. QED
  BY <1>1, <1>2 DEF Pending

\* A slot that is not taken is neither on a list nor in the hands of a creation.
LEMMA NotTaken ==
    ASSUME NEW id, id \notin Taken
    PROVE  (\A cs \in Sources : id \notin Ids(timers[cs])) /\ \A tm \in made : tm.id # id
BY DEF Taken, Listed, Ids, Sources

\* Every step keeps the invariant.
LEMMA TNextInv == TInv /\ [TimersNext]_tvars => TInv'
<1>. SUFFICES ASSUME TInv, [TimersNext]_tvars PROVE TInv'
  OBVIOUS
<1>0. /\ "sys" \in Sources /\ "hr" \in Sources
      /\ \A cs \in Sources : /\ timers = [timers EXCEPT ![cs] = timers[cs]]
                             /\ walk = [walk EXCEPT ![cs] = walk[cs]]
                             /\ fresh = [fresh EXCEPT ![cs] = fresh[cs]]
                             /\ tcUpdate = [tcUpdate EXCEPT ![cs] = tcUpdate[cs]]
                             /\ count = [count EXCEPT ![cs] = count[cs]]
  BY DEF TInv, TimersTypeOK, Sources
<1>T. \A cs \in Sources : /\ timers[cs] \in Seq(Timer) /\ tcUpdate[cs] \in Nat
                           /\ count[cs] \in Nat /\ walk[cs] \in (Slots \cup {"idle", "end"})
                           /\ fresh[cs] \in SUBSET Slots
                           /\ \A tm \in made : tm.id \notin Ids(timers[cs])
  BY SourceSound, MadeApart
<1>S. made \subseteq made
  OBVIOUS
<1>1. CASE SysTick
  <2>1. /\ Sound(timers["sys"], fresh["sys"], walk["sys"], tcUpdate["sys"], count["sys"] + 1)
        /\ count["sys"] + 1 \in Nat
    BY <1>0, <1>1, SourceSound DEF SysTick, Quiet, Idle, Sound
  <2>2. /\ timers' = [timers EXCEPT !["sys"] = timers["sys"]] /\ made' = made
        /\ fresh' = [fresh EXCEPT !["sys"] = fresh["sys"]]
        /\ walk' = [walk EXCEPT !["sys"] = walk["sys"]]
        /\ tcUpdate' = [tcUpdate EXCEPT !["sys"] = tcUpdate["sys"]]
        /\ count' = [count EXCEPT !["sys"] = count["sys"] + 1]
    BY <1>0, <1>1 DEF SysTick
  <2>3. QED
    BY <1>0, <1>T, <1>S, <2>1, <2>2, OneSource
<1>2. CASE HrtimerTick
  <2>. DEFINE d == count["hr"] + 1
              w == At(timers["hr"], 1)
  <2>1. d \in Nat /\ walk["hr"] = "idle"
    BY <1>0, <1>2, SourceSound DEF HrtimerTick, Quiet, Idle
  <2>2. w \in (Slots \cup {"idle", "end"}) /\ Sound(timers["hr"], {}, w, d, d)
    BY <1>0, <2>1, SourceSound, BeginWalk
  <2>3. /\ tcUpdate' = [tcUpdate EXCEPT !["hr"] = d] /\ walk' = [walk EXCEPT !["hr"] = w]
        /\ count' = [count EXCEPT !["hr"] = d] /\ fresh' = [fresh EXCEPT !["hr"] = {}]
        /\ timers' = [timers EXCEPT !["hr"] = timers["hr"]] /\ made' = made
    BY <1>0, <1>2 DEF HrtimerTick, TInv, TimersTypeOK
  <2>4. {} \in SUBSET Slots
    OBVIOUS
  <2>. HIDE DEF d, w
  <2>5. QED
    BY <1>0, <1>T, <1>S, <2>1, <2>2, <2>3, <2>4, OneSource
<1>3. CASE TimerProcess
  <2>. DEFINE d == count["sys"]
              w == At(timers["sys"], 1)
  <2>1. d \in Nat /\ walk["sys"] = "idle"
    BY <1>0, <1>3, SourceSound DEF TimerProcess, Quiet, Idle
  <2>2. w \in (Slots \cup {"idle", "end"}) /\ Sound(timers["sys"], {}, w, d, d)
    BY <1>0, <2>1, SourceSound, BeginWalk
  <2>3. /\ tcUpdate' = [tcUpdate EXCEPT !["sys"] = d] /\ walk' = [walk EXCEPT !["sys"] = w]
        /\ count' = [count EXCEPT !["sys"] = d] /\ fresh' = [fresh EXCEPT !["sys"] = {}]
        /\ timers' = [timers EXCEPT !["sys"] = timers["sys"]] /\ made' = made
    BY <1>0, <1>3 DEF TimerProcess
  <2>4. {} \in SUBSET Slots
    OBVIOUS
  <2>. HIDE DEF d, w
  <2>5. QED
    BY <1>0, <1>T, <1>S, <2>1, <2>2, <2>3, <2>4, OneSource
<1>4. ASSUME NEW cs \in Sources, Break(cs) PROVE TInv'
  <2>1. walk[cs] # "idle"
    BY <1>4, SourceSound, TimerFields, SlotsAssumption DEF Break
  <2>2. Sound(timers[cs], fresh[cs], "idle", tcUpdate[cs], count[cs])
    BY <1>4, <2>1, SourceSound, EndWalk DEF Break, Expired
  <2>3. /\ timers' = [timers EXCEPT ![cs] = timers[cs]] /\ made' = made
        /\ fresh' = [fresh EXCEPT ![cs] = fresh[cs]]
        /\ walk' = [walk EXCEPT ![cs] = "idle"]
        /\ tcUpdate' = [tcUpdate EXCEPT ![cs] = tcUpdate[cs]]
        /\ count' = [count EXCEPT ![cs] = count[cs]]
    BY <1>0, <1>4 DEF Break
  <2>4. QED
    BY <1>T, <1>S, <2>2, <2>3, OneSource
<1>5. ASSUME NEW cs \in Sources, NEW n \in 1..Len(timers[cs]), Fire(cs, n) PROVE TInv'
  <2>. DEFINE l == timers[cs]
              m == IF l[n].interval = 0 THEN Unlink(l, n)
                   ELSE Insert(Unlink(l, n), l[n].id, l[n].interval + count[cs], l[n].interval)
              w == At(l, n + 1)
  <2>1. walk[cs] = l[n].id
    BY <1>5 DEF Fire
  <2>2. /\ m \in Seq(Timer) /\ w \in (Slots \cup {"idle", "end"}) /\ Ids(m) \subseteq Ids(l)
        /\ Sound(m, fresh[cs], w, tcUpdate[cs], count[cs])
    BY <2>1, SourceSound, FireKeeps
  <2>3. /\ timers' = [timers EXCEPT ![cs] = m] /\ walk' = [walk EXCEPT ![cs] = w]
        /\ tcUpdate' = [tcUpdate EXCEPT ![cs] = tcUpdate[cs]] /\ made' = made
        /\ fresh' = [fresh EXCEPT ![cs] = fresh[cs]]
        /\ count' = [count EXCEPT ![cs] = count[cs]]
    BY <1>0, <1>5 DEF Fire
  <2>4. \A tm \in made' : tm.id \notin Ids(m)
    BY <1>T, <2>2, <2>3
  <2>. HIDE DEF m, w
  <2>5. QED
    BY <1>T, <1>S, <2>2, <2>3, <2>4, OneSource
<1>6. ASSUME NEW cs \in Sources, NEW n \in 1..Len(timers[cs]), Stop(cs, n) PROVE TInv'
  <2>. DEFINE m == Unlink(timers[cs], n)
              f == fresh[cs] \ {timers[cs][n].id}
  <2>1. walk[cs] = "idle"
    BY <1>6 DEF Stop, Idle
  <2>2. /\ m \in Seq(Timer) /\ Unique(m) /\ Bounded(m) /\ Ids(m) \subseteq Ids(timers[cs])
        /\ Waiting(timers[cs], fresh[cs], tcUpdate[cs]) => Waiting(m, f, tcUpdate[cs])
    BY SourceSound, UnlinkKeeps DEF Sound
  <2>3. /\ timers' = [timers EXCEPT ![cs] = m] /\ made' = made
        /\ fresh' = [fresh EXCEPT ![cs] = f]
        /\ walk' = [walk EXCEPT ![cs] = walk[cs]]
        /\ tcUpdate' = [tcUpdate EXCEPT ![cs] = tcUpdate[cs]]
        /\ count' = [count EXCEPT ![cs] = count[cs]]
    BY <1>0, <1>6 DEF Stop
  <2>4. f \in SUBSET Slots /\ \A tm \in made' : tm.id \notin Ids(m)
    BY <1>T, <2>2, <2>3
  <2>. HIDE DEF m, f
  <2>5. Sound(m, f, walk[cs], tcUpdate[cs], count[cs])
    BY <2>1, <2>2, SourceSound DEF Sound
  <2>6. QED
    BY <1>T, <1>S, <2>2, <2>3, <2>4, <2>5, OneSource
<1>7. ASSUME NEW cs \in Sources, NEW id \in Slots, NEW ticks \in Delays,
             NEW oneshot \in BOOLEAN, CreateRead(cs, id, ticks, oneshot)
      PROVE  TInv'
  <2>. DEFINE e == Made(cs, id, ticks, oneshot)
  <2>1. e \in Pending /\ e.id = id
    BY MadePending
  <2>. HIDE DEF e
  <2>2. made' = made \cup {e} /\ UNCHANGED <<count, tcUpdate, timers, walk, fresh>>
    BY <1>7 DEF CreateRead, e
  <2>3. (\A d \in Sources : id \notin Ids(timers[d])) /\ \A tm \in made : tm.id # id
    BY <1>7, NotTaken DEF CreateRead
  <2>4. TimersTypeOK'
    BY <2>1, <2>2 DEF TInv, TimersTypeOK
  <2>5. Apart'
    BY <2>1, <2>2, <2>3 DEF TInv, Apart
  <2>6. \A d \in Sources : SoundAt(d)'
    BY <2>2 DEF TInv, SoundAt
  <2>7. QED
    BY <2>4, <2>5, <2>6 DEF TInv
<1>8. ASSUME NEW tm \in made, CreateInsert(tm) PROVE TInv'
  <2>1. tm \in Pending /\ tm.source \in Sources
    BY DEF TInv, TimersTypeOK, Pending
  <2>2. tm.id \notin Ids(timers[tm.source])
    BY <2>1, MadeApart
  <2>3. made' \subseteq made /\ \A a \in made' : a.id # tm.id
    BY <1>8 DEF CreateInsert, TInv, Apart
  <2>4. Link(tm) /\ Still
    BY <1>8 DEF CreateInsert, Still
  <2>5. QED
    BY <2>1, <2>2, <2>3, <2>4, LinkKeeps
<1>9. ASSUME NEW cs \in Sources, NEW id \in Slots, NEW ticks \in Delays,
             NEW oneshot \in BOOLEAN, HandlerCreate(cs, id, ticks, oneshot)
      PROVE  TInv'
  <2>. DEFINE e == Made(cs, id, ticks, oneshot)
  <2>1. e \in Pending /\ e.id = id /\ e.source = cs
    BY MadePending
  <2>. HIDE DEF e
  <2>2. made' = made /\ Link(e) /\ Still
    BY <1>9 DEF HandlerCreate, Still, e
  <2>3. e.id \notin Ids(timers[e.source]) /\ \A tm \in made : tm.id # e.id
    BY <1>9, <2>1, NotTaken DEF HandlerCreate
  <2>4. QED
    BY <2>1, <2>2, <2>3, LinkKeeps
<1>10. CASE UNCHANGED tvars
  BY <1>10 DEF tvars, TInv, TimersTypeOK, Apart, SoundAt
<1>11. QED
  BY <1>1, <1>2, <1>3, <1>4, <1>5, <1>6, <1>7, <1>8, <1>9, <1>10 DEF TimersNext

\* A walk leaves of the timers it finds on the list only those that have not expired,
\* or were put behind one that has not, whatever interrupts and other threads come
\* between the reading of the tick and the insertion of a new timer, and whatever
\* timers are stopped, restarted, and created by the handlers of the other source.
THEOREM TimersInTime == TimersSpec => []OnlyForThoseAhead
<1>1. TimersInit => TInv
  BY DEF TimersInit, TInv, TimersTypeOK, Sources, SoundAt, Sound, Unique,
     Bounded, Waiting, Apart
<1>2. TInv => OnlyForThoseAhead
  BY DEF TInv, SoundAt, Sound, Waiting, OnlyForThoseAhead, Idle
<1>3. QED
  BY <1>1, <1>2, TNextInv, PTL DEF TimersSpec

\* What stands in front of a timer expires by the bound the timer was given when
\* it was put on the list: a later arrival never delays it.
THEOREM NeverDelayed == TimersSpec => []AheadBounded
<1>1. TimersInit => TInv
  BY DEF TimersInit, TInv, TimersTypeOK, Sources, SoundAt, Sound, Unique,
     Bounded, Waiting, Apart
<1>2. TInv => AheadBounded
  BY DEF TInv, SoundAt, Sound, Bounded, AheadBounded
<1>3. QED
  BY <1>1, <1>2, TNextInv, PTL DEF TimersSpec
=============================================================================
