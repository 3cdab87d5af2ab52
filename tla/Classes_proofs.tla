--------------------------- MODULE Classes_proofs ---------------------------
(***************************************************************************)
(* The earliest-deadline-first and the lottery class, for any number of    *)
(* threads: threads run in the order of their deadlines, and no ticket is  *)
(* lost or handed out twice.                                               *)
(***************************************************************************)
EXTENDS Classes, Lists_proofs, FiniteSetTheorems

(* The invariant *)

\* Everybody who is ready is on the run queue, once, or runs; the idle thread
\* always is.
QueueInv ==
    /\ current \in Threads /\ runq \in Seq(Threads) /\ Once(runq) /\ current \notin Queued
    /\ state \in [Threads -> {"none", "ready", "blocked"}] /\ state[Idle] = "ready"
    /\ \A t \in Threads : state[t] = "ready" <=> t \in Queued \cup {current}
    /\ prio \in [Threads -> Prios \cup {255}]
    /\ tick \in 0..MaxTick
    /\ deadline \in [Threads -> Int] /\ readied \in [Threads -> Int]

\* The run queue of the EDF class is in the order of the deadlines.
Sorted(q, dl) == \A i, j \in 1..Len(q) : i < j => dl[q[i]] <= dl[q[j]]

\* A deadline comes after the tick it was set at, and that of the idle thread
\* after all others.
Due(t, d, r) == r <= d /\ (t = Idle => d >= IdleDelay) /\ (t # Idle => d <= MaxTick + 255)

EdfInv == Edf => Sorted(runq, deadline) /\ \A t \in Queued : Due(t, deadline[t], readied[t])

\* The tickets: those of the pool, those of each thread, and no others
TicketsOf(tk, pl, n) ==
    /\ tk \in [Threads -> Seq(Nat)] /\ pl \in Seq(Nat) /\ n \in Nat
    /\ Once(pl) /\ ToSet(pl) \subseteq 0..(n - 1)
    /\ \A t \in Threads : /\ Once(tk[t]) /\ ToSet(tk[t]) \subseteq 0..(n - 1)
                          /\ ToSet(tk[t]) \cap ToSet(pl) = {}
    /\ \A t, u \in Threads : t # u => ToSet(tk[t]) \cap ToSet(tk[u]) = {}
    /\ \A k \in 0..(n - 1) : k \in ToSet(pl) \/ \E t \in Threads : k \in ToSet(tk[t])

\* No priority in use rounds to no ticket at all: 238 to 249 do.
Drawable == \A p \in Prios : TicketCount(p) > 0

LotInv ==
    /\ TicketsOf(tickets, pool, num)
    /\ ~Edf => /\ \A t \in Threads : state[t] = "none" => tickets[t] = <<>>
               /\ Drawable => \A t \in Queued : tickets[t] # <<>>

CInv == QueueInv /\ EdfInv /\ LotInv

----------------------------------------------------------------------------
(* The run queue *)

\* The first of the places S of a queue, or the one behind its end
FirstPlace(q, S, p) == (\A i \in S : p <= i) /\ (p \in S \/ p = Len(q) + 1)

\* The walk to the place of a newcomer
LEMMA InsertBeforePlace ==
    ASSUME NEW q \in Seq(Threads), NEW S \in SUBSET (1..Len(q)), NEW t \in Threads
    PROVE  /\ InsertBefore(q, S, t) \in Seq(Threads)
           /\ \E p \in 1..(Len(q) + 1) :
                 Inserted(q, p, t, InsertBefore(q, S, t)) /\ FirstPlace(q, S, p)
<1>0. Len(q) \in Nat
  OBVIOUS
<1>1. CASE S = {}
  <2>1. InsertBefore(q, S, t) = Append(q, t)
    BY <1>1 DEF InsertBefore
  <2>2. /\ Append(q, t) \in Seq(Threads) /\ Len(q) + 1 \in 1..(Len(q) + 1)
        /\ Inserted(q, Len(q) + 1, t, Append(q, t))
    BY AppendInserts
  <2>3. FirstPlace(q, S, Len(q) + 1)
    BY <1>1 DEF FirstPlace
  <2>4. QED
    BY <2>1, <2>2, <2>3
<1>2. CASE S # {}
  <2> DEFINE p == CHOOSE i \in S : \A j \in S : i <= j
  <2>1. S \subseteq Nat
    BY <1>0
  <2>2. \E x \in S : \A y \in S : x <= y
    BY <1>2, <2>1, LeastExists, Zenon
  <2>3. p \in S /\ \A j \in S : p <= j
    BY <2>2
  <2>4. InsertBefore(q, S, t) = InsertAt(q, p, t)
    BY <1>2 DEF InsertBefore
  <2> HIDE DEF p
  <2>5. p \in 1..(Len(q) + 1)
    BY <1>0, <2>3
  <2>6. InsertAt(q, p, t) \in Seq(Threads) /\ Inserted(q, p, t, InsertAt(q, p, t))
    BY <2>5, InsertAtProperties
  <2>7. FirstPlace(q, S, p)
    BY <2>3 DEF FirstPlace
  <2>8. QED
    BY <2>4, <2>5, <2>6, <2>7
<1>3. QED
  BY <1>1, <1>2

\* class->add_thread adds the thread.
LEMMA RqInsertJoins ==
    ASSUME NEW q \in Seq(Threads), NEW t \in Threads, NEW p
    PROVE  RqInsert(q, t, p) \in Seq(Threads) /\ Joined(q, t, RqInsert(q, t, p))
<1>1. ASSUME NEW S \in SUBSET (1..Len(q))
      PROVE  InsertBefore(q, S, t) \in Seq(Threads) /\ Joined(q, t, InsertBefore(q, S, t))
  <2>1. InsertBefore(q, S, t) \in Seq(Threads)
    BY InsertBeforePlace
  <2>2. PICK k \in 1..(Len(q) + 1) : Inserted(q, k, t, InsertBefore(q, S, t))
    BY InsertBeforePlace
  <2>3. QED
    BY <2>1, <2>2, InsertedJoins
<1> DEFINE E == {i \in 1..Len(q) : DeadlineOf(t, p) <= deadline[q[i]]}
           R == {i \in 1..Len(q) : prio[q[i]] > p}
<1>2. RqInsert(q, t, p) = InsertBefore(q, E, t) \/ RqInsert(q, t, p) = InsertBefore(q, R, t)
  BY DEF RqInsert, EdfInsert, RrSharedQueueInsert
<1>3. E \in SUBSET (1..Len(q)) /\ R \in SUBSET (1..Len(q))
  OBVIOUS
<1> HIDE DEF E, R
<1>4. QED
  BY <1>1, <1>2, <1>3

\* class->next_runnable returns a thread of the queue, or the current one if
\* there is none.
LEMMA NextRunnableQueued ==
    ASSUME QueueInv, NEW next \in NextRunnable
    PROVE  /\ next \in Threads
           /\ runq # <<>> => next \in Queued
           /\ runq = <<>> => next = current
           /\ Edf /\ runq # <<>> => next = runq[1] /\ 1 \in 1..Len(runq)
<1>1. CASE runq = <<>>
  BY <1>1 DEF NextRunnable, QueueInv
<1>2. CASE runq # <<>>
  <2>1. 1 \in 1..Len(runq) /\ Head(runq) = runq[1]
    BY <1>2 DEF QueueInv
  <2>2. runq[1] \in Queued /\ Queued \subseteq Threads
    BY <2>1, ElementPlace DEF Queued, QueueInv
  <2>3. CASE Edf
    BY <1>2, <2>1, <2>2, <2>3 DEF NextRunnable, EdfNextRunnable
  <2>4. CASE ~Edf
    BY <1>2, <2>2, <2>4 DEF NextRunnable, LotteryNextRunnable
  <2>5. QED
    BY <2>3, <2>4
<1>3. QED
  BY <1>1, <1>2

\* rq_switch_context: the queue and the current thread together keep who they had
SwitchedIn(S) ==
    /\ current' \in Threads /\ runq' \in Seq(Threads) /\ Once(runq')
    /\ current' \notin ToSet(runq') /\ ToSet(runq') \cup {current'} = S

\* a thread that stays RUNNING ...
LEMMA SwitchQueue ==
    ASSUME QueueInv, NEW next \in NextRunnable, NEW p, SwitchContext(next, TRUE, p)
    PROVE  SwitchedIn(Queued \cup {current})
<1> DEFINE full == RqInsert(runq, current, p)
<1>1. full \in Seq(Threads) /\ Joined(runq, current, full)
  BY RqInsertJoins DEF QueueInv
<1>2. runq' = RemoveFirst(full, next) /\ current' = next
  BY DEF SwitchContext, RqRemove
<1> HIDE DEF full
<1>3. Once(full) /\ ToSet(full) = Queued \cup {current}
  BY <1>1 DEF Joined, QueueInv, Queued
<1>4. RemoveFirst(full, next) \in Seq(Threads) /\ Left(full, next, RemoveFirst(full, next))
  BY <1>1, <1>3, RemoveFirstProperties
<1>5. next \in Threads /\ next \in Queued \cup {current}
  BY NextRunnableQueued
<1>6. QED
  BY <1>2, <1>3, <1>4, <1>5 DEF Left, SwitchedIn

\* ... and one that does not
LEMMA SwitchOutQueue ==
    ASSUME QueueInv, current # Idle, ScheduleOut
    PROVE  SwitchedIn(Queued)
<1>1. PICK next \in NextRunnable : SwitchContext(next, FALSE, prio[current])
  BY DEF ScheduleOut
<1>2. Idle \in Queued
  BY IdleAssumption DEF QueueInv
<1>3. runq # <<>>
  BY <1>2 DEF Queued, ToSet
<1>4. next \in Threads /\ next \in Queued
  BY <1>3, NextRunnableQueued
<1>5. runq' = RemoveFirst(runq, next) /\ current' = next
  BY <1>1 DEF SwitchContext, RqRemove
<1>6. RemoveFirst(runq, next) \in Seq(Threads) /\ Left(runq, next, RemoveFirst(runq, next))
  BY RemoveFirstProperties DEF QueueInv
<1>7. QED
  BY <1>4, <1>5, <1>6 DEF Left, SwitchedIn, Queued

----------------------------------------------------------------------------
(* Deadlines *)

\* A priority is an unsigned char.
LEMMA PrioRange ==
    ASSUME NEW p \in Prios \cup {255}
    PROVE  p \in 0..255
BY PrioAssumption

\* edf_calc_ratio gives less than 255 ticks.
LEMMA DeadlineDue ==
    ASSUME QueueInv, NEW t \in Threads, NEW p \in 0..255
    PROVE  DeadlineOf(t, p) \in Int /\ Due(t, DeadlineOf(t, p), tick)
<1>1. Ratio(p) \in 0..255
  BY DEF Ratio
<1>2. tick \in Nat /\ tick <= MaxTick
  BY TimeAssumption DEF QueueInv
<1>3. CASE t = Idle
  BY <1>1, <1>2, <1>3, TimeAssumption DEF DeadlineOf, Due
<1>4. CASE t # Idle
  BY <1>1, <1>2, <1>4, TimeAssumption DEF DeadlineOf, Due
<1>5. QED
  BY <1>3, <1>4

\* A newcomer in front of the first that is not due before it
LEMMA InsertSorted ==
    ASSUME NEW q \in Seq(Threads), NEW dl \in [Threads -> Int], NEW t \in Threads, Sorted(q, dl),
           NEW S \in SUBSET (1..Len(q)), \A i \in 1..Len(q) : i \in S <=> dl[t] <= dl[q[i]]
    PROVE  Sorted(InsertBefore(q, S, t), dl)
<1> DEFINE m == InsertBefore(q, S, t)
<1>2. Len(q) \in Nat /\ dl[t] \in Int /\ \A i \in 1..Len(q) : q[i] \in Threads /\ dl[q[i]] \in Int
  OBVIOUS
<1> HIDE DEF m
<1>4. PICK k \in 1..(Len(q) + 1) : Inserted(q, k, t, m) /\ FirstPlace(q, S, k)
  BY InsertBeforePlace DEF m
<1>5. k \in Int /\ Len(q) \in Int
  BY <1>2
<1>6. ASSUME NEW i \in 1..Len(q), i < k PROVE dl[q[i]] <= dl[t]
  <2>1. i \notin S
    BY <1>4, <1>5, <1>6 DEF FirstPlace
  <2>2. QED
    BY <1>2, <2>1
<1>7. ASSUME NEW i \in 1..Len(q), i >= k PROVE dl[t] <= dl[q[i]]
  <2>1. k \in S
    BY <1>4, <1>5, <1>7 DEF FirstPlace
  <2>2. dl[t] <= dl[q[k]] /\ k \in 1..Len(q)
    BY <1>2, <1>5, <2>1
  <2>3. i = k \/ k < i
    BY <1>5, <1>7
  <2>4. dl[q[k]] <= dl[q[i]]
    BY <1>2, <2>2, <2>3 DEF Sorted
  <2>5. QED
    BY <1>2, <2>2, <2>4
<1>8. ASSUME NEW i \in 1..Len(m), NEW j \in 1..Len(m), i < j PROVE dl[m[i]] <= dl[m[j]]
  <2>1. i \in 1..(Len(q) + 1) /\ j \in 1..(Len(q) + 1) /\ m[k] = t
    BY <1>4 DEF Inserted
  <2>2. CASE i = k
    <3>1. PICK b \in 1..Len(q) : j = Up(k, b)
      BY <1>4, <1>8, <2>1, <2>2 DEF Inserted
    <3>2. m[j] = q[b]
      BY <1>4, <3>1 DEF Inserted
    <3>3. b >= k
      BY <1>2, <1>5, <1>8, <2>2, <3>1 DEF Up
    <3>4. QED
      BY <1>7, <2>1, <2>2, <3>2, <3>3
  <2>3. CASE j = k
    <3>1. PICK a \in 1..Len(q) : i = Up(k, a)
      BY <1>4, <1>8, <2>1, <2>3 DEF Inserted
    <3>2. m[i] = q[a]
      BY <1>4, <3>1 DEF Inserted
    <3>3. a < k
      BY <1>2, <1>5, <1>8, <2>3, <3>1 DEF Up
    <3>4. QED
      BY <1>6, <2>1, <2>3, <3>2, <3>3
  <2>4. CASE i # k /\ j # k
    <3>1. PICK a \in 1..Len(q) : i = Up(k, a)
      BY <1>4, <2>1, <2>4 DEF Inserted
    <3>2. PICK b \in 1..Len(q) : j = Up(k, b)
      BY <1>4, <2>1, <2>4 DEF Inserted
    <3>3. m[i] = q[a] /\ m[j] = q[b]
      BY <1>4, <3>1, <3>2 DEF Inserted
    <3>4. a < b
      BY <1>2, <1>5, <1>8, <3>1, <3>2, UpOrder
    <3>5. QED
      BY <1>2, <3>3, <3>4 DEF Sorted
  <2>5. QED
    BY <2>2, <2>3, <2>4
<1>9. QED
  BY <1>8 DEF Sorted, m

\* raw_edf_insert keeps the queue in the order of the deadlines.
LEMMA EdfInsertSorted ==
    ASSUME Edf, NEW q \in Seq(Threads), NEW dl \in [Threads -> Int], NEW t \in Threads, NEW p,
           Sorted(q, deadline), DeadlineOf(t, p) = dl[t], \A u \in ToSet(q) : dl[u] = deadline[u]
    PROVE  Sorted(RqInsert(q, t, p), dl)
<1> DEFINE S == {i \in 1..Len(q) : DeadlineOf(t, p) <= deadline[q[i]]}
<1>1. RqInsert(q, t, p) = InsertBefore(q, S, t)
  BY DEF RqInsert, EdfInsert
<1>2. \A i \in 1..Len(q) : dl[q[i]] = deadline[q[i]]
  BY ElementPlace
<1>3. S \in SUBSET (1..Len(q)) /\ \A i \in 1..Len(q) : i \in S <=> dl[t] <= dl[q[i]]
  BY <1>2
<1>4. Sorted(q, dl)
  BY <1>2 DEF Sorted
<1> HIDE DEF S
<1>5. QED
  BY <1>1, <1>3, <1>4, InsertSorted

\* A thread leaves: the others keep their order.
LEMMA RemoveSorted ==
    ASSUME NEW q \in Seq(Threads), NEW t, NEW dl, Sorted(q, dl)
    PROVE  Sorted(RemoveFirst(q, t), dl)
<1> DEFINE m == RemoveFirst(q, t)
<1>1. CASE t \notin ToSet(q)
  BY <1>1, RemoveFirstProperties
<1>2. CASE t \in ToSet(q)
  <2>1. PICK k \in 1..Len(q) : Removed(q, k, m)
    BY <1>2, RemoveFirstProperties
  <2> HIDE DEF m
  <2>2. Len(q) \in Nat /\ k \in Int
    OBVIOUS
  <2>3. ASSUME NEW i \in 1..Len(m), NEW j \in 1..Len(m), i < j PROVE dl[m[i]] <= dl[m[j]]
    <3>1. /\ i \in Int /\ j \in Int
          /\ Up(k, i) \in 1..Len(q) /\ m[i] = q[Up(k, i)]
          /\ Up(k, j) \in 1..Len(q) /\ m[j] = q[Up(k, j)]
      BY <2>1, <2>2 DEF Removed
    <3>2. Up(k, i) < Up(k, j)
      BY <2>2, <2>3, <3>1, UpOrder
    <3>3. QED
      BY <3>1, <3>2 DEF Sorted
  <2>4. QED
    BY <2>3 DEF Sorted, m
<1>3. QED
  BY <1>1, <1>2

----------------------------------------------------------------------------
(* Tickets *)

\* The number of tickets of a priority is a natural number.
LEMMA TicketCountType ==
    ASSUME NEW p \in 0..255
    PROVE  TicketCount(p) \in Nat
BY DEF TicketCount

\* lottery_generate_tickets makes new numbers, each once.
LEMMA GeneratedOnce ==
    ASSUME num \in Nat, NEW k \in Nat
    PROVE  /\ Generated(k) \in Seq(Nat) /\ Len(Generated(k)) = k * 5
           /\ Once(Generated(k))
           /\ ToSet(Generated(k)) = num..((num + k * 5) - 1)
<1> DEFINE g == Generated(k)
           V(i) == num + ((i - 1) \div 5) * 5 + (5 - 1 - ((i - 1) % 5))
<1>1. k * 5 \in Nat
  OBVIOUS
<1>2. g = [i \in 1..(k * 5) |-> V(i)]
  BY DEF Generated, LOTTERY_RESIZE_SIZE
<1>3. ASSUME NEW i \in 1..(k * 5)
      PROVE  V(i) \in Nat /\ V(i) >= num /\ V(i) <= num + k * 5 - 1
  OBVIOUS
<1>4. ASSUME NEW i \in 1..(k * 5), NEW j \in 1..(k * 5), V(i) = V(j) PROVE i = j
  BY <1>4
<1>5. ASSUME NEW x \in num..((num + k * 5) - 1)
      PROVE  \E i \in 1..(k * 5) : V(i) = x
  <2> DEFINE y == x - num
             i == (y \div 5) * 5 + (4 - (y % 5)) + 1
  <2>1. y \in Nat /\ y <= k * 5 - 1 /\ x = num + y
    OBVIOUS
  <2> HIDE DEF y
  <2>2. i \in 1..(k * 5)
    BY <2>1
  <2>3. (i - 1) \div 5 = y \div 5 /\ (i - 1) % 5 = 4 - (y % 5)
    BY <2>1
  <2> HIDE DEF i
  <2>4. V(i) = x
    BY <2>1, <2>2, <2>3
  <2>5. QED
    BY <2>2, <2>4
<1> HIDE DEF V
<1>6. g \in Seq(Nat) /\ Len(g) = k * 5 /\ \A i \in 1..(k * 5) : g[i] = V(i)
  BY <1>1, <1>2, <1>3
<1> HIDE DEF g
<1>7. Once(g)
  BY <1>4, <1>6 DEF Once
<1>8. ToSet(g) = num..((num + k * 5) - 1)
  <2>1. ASSUME NEW x \in ToSet(g) PROVE x \in num..((num + k * 5) - 1)
    <3>1. PICK i \in 1..(k * 5) : x = V(i)
      BY <1>6, <2>1, ElementPlace
    <3>2. QED
      BY <1>3, <3>1
  <2>2. ASSUME NEW x \in num..((num + k * 5) - 1) PROVE x \in ToSet(g)
    <3>1. PICK i \in 1..(k * 5) : V(i) = x
      BY <1>5
    <3>2. i \in 1..Len(g) /\ g[i] = x
      BY <1>6, <3>1
    <3>3. QED
      BY <1>6, <3>2, ElementPlace
  <2>3. QED
    BY <2>1, <2>2
<1>9. QED
  BY <1>6, <1>7, <1>8 DEF g

\* What lottery_take_ticket takes from is long enough and has no ticket twice.
LEMMA SupplyOnce ==
    ASSUME TicketsOf(tickets, pool, num), NEW n \in Nat
    PROVE  /\ Refills(n) \in Nat
           /\ Supply(n) \in Seq(Nat) /\ Once(Supply(n)) /\ n \in 0..Len(Supply(n))
           /\ ToSet(Supply(n)) = ToSet(pool) \cup (num..((num + Refills(n) * 5) - 1))
<1>1. Len(pool) \in Nat /\ num \in Nat /\ pool \in Seq(Nat) /\ Once(pool) /\ ToSet(pool) \subseteq 0..(num - 1)
  BY DEF TicketsOf
<1>2. Refills(n) \in Nat /\ n <= Len(pool) + Refills(n) * 5
  <2>1. CASE n <= Len(pool)
    BY <1>1, <2>1 DEF Refills
  <2>2. CASE ~(n <= Len(pool))
    <3>1. Refills(n) = (n - Len(pool) + 5 - 1) \div 5
      BY <2>2 DEF Refills, LOTTERY_RESIZE_SIZE
    <3>2. QED
      BY <1>1, <2>2, <3>1
  <2>3. QED
    BY <2>1, <2>2
<1> DEFINE k == Refills(n)
           g == Generated(k)
<1>3. g \in Seq(Nat) /\ Len(g) = k * 5 /\ Once(g) /\ ToSet(g) = num..((num + k * 5) - 1)
  BY <1>1, <1>2, GeneratedOnce
<1>4. Supply(n) = pool \o g
  BY DEF Supply
<1> HIDE DEF g, k
<1>5. ToSet(pool) \cap ToSet(g) = {}
  BY <1>1, <1>3
<1>6. /\ pool \o g \in Seq(Nat) /\ Len(pool \o g) = Len(pool) + Len(g)
      /\ ToSet(pool \o g) = ToSet(pool) \cup ToSet(g) /\ Once(pool \o g)
  <2>1. PICK pl, h : pl = pool /\ h = g
    OBVIOUS
  <2>2. pl \in Seq(Nat) /\ h \in Seq(Nat) /\ Once(pl) /\ Once(h) /\ ToSet(pl) \cap ToSet(h) = {}
    BY <1>1, <1>3, <1>5, <2>1
  <2>3. /\ pl \o h \in Seq(Nat) /\ Len(pl \o h) = Len(pl) + Len(h)
        /\ ToSet(pl \o h) = ToSet(pl) \cup ToSet(h) /\ Once(pl \o h)
    BY <2>2, ConcatOnce
  <2>4. QED
    BY <2>1, <2>3
<1>7. n \in 0..Len(pool \o g)
  BY <1>1, <1>2, <1>3, <1>6 DEF k
<1>8. QED
  BY <1>2, <1>3, <1>4, <1>6, <1>7 DEF k

\* t may have got tickets, everybody else has what it had.
Takes(t, old, new) == \A u \in Threads : u # t \/ old[u] # <<>> => new[u] = old[u]

\* What lottery_add_thread sees to
Supplied(t, p) ==
    /\ TicketsOf(tickets', pool', num') /\ Takes(t, tickets, tickets')
    /\ TicketCount(p) > 0 => tickets'[t] # <<>>

\* lottery_add_thread draws from the pool as many tickets as the priority asks for.
LEMMA TakeTicketsKeeps ==
    ASSUME TicketsOf(tickets, pool, num), NEW t \in Threads, NEW p \in 0..255, TakeTickets(t, p)
    PROVE  Supplied(t, p)
<1>1. CASE tickets[t] # <<>>
  BY <1>1 DEF TakeTickets, lotVars, Takes, Supplied
<1>2. CASE tickets[t] = <<>>
  <2>1. PICK n \in Nat : n = TicketCount(p)
    BY TicketCountType
  <2>0. /\ Refills(n) \in Nat
        /\ Supply(n) \in Seq(Nat) /\ Once(Supply(n)) /\ n \in 0..Len(Supply(n))
        /\ ToSet(Supply(n)) = ToSet(pool) \cup (num..((num + Refills(n) * 5) - 1))
    BY SupplyOnce, Zenon
  <2> DEFINE s == Supply(n)
             a == SubSeq(s, 1, n)
             b == SubSeq(s, n + 1, Len(s))
             r == Reverse(a)
             N == num + Refills(n) * 5
  <2>2. tickets' = [tickets EXCEPT ![t] = r] /\ pool' = b /\ num' = N
    BY <1>2, <2>1 DEF TakeTickets, LOTTERY_RESIZE_SIZE
  <2>3. /\ Refills(n) \in Nat /\ s \in Seq(Nat) /\ Once(s) /\ n \in 0..Len(s)
        /\ ToSet(s) = ToSet(pool) \cup (num..(N - 1))
    BY <2>0, Zenon
  <2> HIDE DEF s
  <2>4. a \in Seq(Nat) /\ Len(a) = n /\ b \in Seq(Nat) /\ Split(s, a, b)
    BY <2>3, SplitOnce
  <2> HIDE DEF a, b
  <2>5. r \in Seq(Nat) /\ Len(r) = n /\ ToSet(r) = ToSet(a) /\ (Once(a) => Once(r))
    BY <2>4, ReverseOnce
  <2> HIDE DEF r
  <2>6. /\ Once(r) /\ Once(b) /\ ToSet(r) \cap ToSet(b) = {}
        /\ ToSet(r) \cup ToSet(b) = ToSet(pool) \cup (num..(N - 1))
    BY <2>3, <2>4, <2>5 DEF Split
  <2>7. num \in Nat /\ N \in Nat /\ num <= N /\ ToSet(pool) \subseteq 0..(num - 1)
        /\ tickets \in [Threads -> Seq(Nat)]
    BY <2>3 DEF TicketsOf
  <2> HIDE DEF N
  <2>8. 0..(num - 1) \subseteq 0..(N - 1) /\ num..(N - 1) \subseteq 0..(N - 1)
    BY <2>7
  <2>9. ToSet(pool) \cup (num..(N - 1)) \subseteq 0..(N - 1)
    BY <2>7, <2>8
  <2>10. ASSUME NEW u \in Threads
         PROVE  /\ u = t => tickets'[u] = r
                /\ u # t => tickets'[u] = tickets[u]
    BY <2>2, <2>7
  <2>11. ASSUME NEW u \in Threads, u # t
         PROVE  /\ Once(tickets[u]) /\ ToSet(tickets[u]) \subseteq 0..(num - 1)
                /\ ToSet(tickets[u]) \cap ToSet(pool) = {}
                /\ ToSet(tickets[u]) \cap (ToSet(r) \cup ToSet(b)) = {}
    <3>1. /\ Once(tickets[u]) /\ ToSet(tickets[u]) \subseteq 0..(num - 1)
          /\ ToSet(tickets[u]) \cap ToSet(pool) = {}
      BY DEF TicketsOf
    <3>2. ToSet(tickets[u]) \cap (num..(N - 1)) = {}
      BY <2>7, <3>1
    <3>3. QED
      BY <2>6, <3>1, <3>2
  <2>12. tickets' \in [Threads -> Seq(Nat)]
    BY <2>2, <2>5, <2>7
  <2>13. ASSUME NEW u \in Threads
         PROVE  /\ Once(tickets'[u]) /\ ToSet(tickets'[u]) \subseteq 0..(N - 1)
                /\ ToSet(tickets'[u]) \cap ToSet(b) = {}
    <3>1. CASE u = t
      BY <2>6, <2>9, <2>10, <3>1
    <3>2. CASE u # t
      BY <2>8, <2>10, <2>11, <3>2
    <3>3. QED
      BY <3>1, <3>2
  <2>14. ASSUME NEW u \in Threads, NEW v \in Threads, u # v
         PROVE  ToSet(tickets'[u]) \cap ToSet(tickets'[v]) = {}
    <3>1. CASE u = t
      BY <2>10, <2>11, <2>14, <3>1
    <3>2. CASE v = t
      BY <2>10, <2>11, <2>14, <3>2
    <3>3. CASE u # t /\ v # t
      BY <2>10, <2>14, <3>3 DEF TicketsOf
    <3>4. QED
      BY <3>1, <3>2, <3>3
  <2>15. ASSUME NEW x \in 0..(N - 1)
         PROVE  x \in ToSet(b) \/ \E u \in Threads : x \in ToSet(tickets'[u])
    <3>1. x \in 0..(num - 1) \/ x \in num..(N - 1)
      BY <2>7
    <3>2. CASE x \in ToSet(pool) \cup (num..(N - 1))
      BY <2>6, <2>10, <3>2
    <3>3. CASE x \in 0..(num - 1) /\ x \notin ToSet(pool)
      <4>1. PICK u \in Threads : x \in ToSet(tickets[u])
        BY <3>3 DEF TicketsOf
      <4>2. u # t
        BY <1>2, <4>1 DEF ToSet
      <4>3. QED
        BY <2>10, <4>1, <4>2
    <3>4. QED
      BY <3>1, <3>2, <3>3
  <2>16. TicketsOf(tickets', pool', num')
    <3>1. ToSet(b) \subseteq 0..(N - 1)
      BY <2>6, <2>9
    <3>2. QED
      BY <2>2, <2>4, <2>6, <2>7, <2>12, <2>13, <2>14, <2>15, <3>1 DEF TicketsOf
  <2>17. Takes(t, tickets, tickets')
    BY <1>2, <2>10 DEF Takes
  <2>18. TicketCount(p) > 0 => tickets'[t] # <<>>
    BY <2>1, <2>5, <2>10
  <2>19. QED
    BY <2>16, <2>17, <2>18 DEF Supplied
<1>3. QED
  BY <1>1, <1>2

\* lottery_kill_thread gives all tickets of the thread back.
LEMMA ReturnTicketsKeeps ==
    ASSUME TicketsOf(tickets, pool, num), NEW t \in Threads, ReturnTickets(t)
    PROVE  TicketsOf(tickets', pool', num')
<1> DEFINE r == Reverse(tickets[t])
           b == r \o pool
<1>1. tickets' = [tickets EXCEPT ![t] = <<>>] /\ pool' = b /\ num' = num
  BY DEF ReturnTickets
<1>2. /\ tickets \in [Threads -> Seq(Nat)] /\ pool \in Seq(Nat) /\ num \in Nat /\ Once(pool)
      /\ ToSet(pool) \subseteq 0..(num - 1) /\ tickets[t] \in Seq(Nat) /\ Once(tickets[t])
      /\ ToSet(tickets[t]) \subseteq 0..(num - 1) /\ ToSet(tickets[t]) \cap ToSet(pool) = {}
  BY DEF TicketsOf
<1>3. r \in Seq(Nat) /\ ToSet(r) = ToSet(tickets[t]) /\ Once(r)
  BY <1>2, ReverseOnce
<1> HIDE DEF r
<1>4. b \in Seq(Nat) /\ ToSet(b) = ToSet(tickets[t]) \cup ToSet(pool) /\ Once(b)
  BY <1>2, <1>3, ConcatOnce
<1> HIDE DEF b
<1>5. ASSUME NEW u \in Threads
      PROVE  /\ u = t => tickets'[u] = <<>>
             /\ u # t => tickets'[u] = tickets[u]
  BY <1>1, <1>2
<1>6. <<>> \in Seq(Nat) /\ Once(<<>>) /\ ToSet(<<>>) = {}
  BY DEF Once, ToSet
<1>7. tickets' \in [Threads -> Seq(Nat)]
  BY <1>1, <1>2, <1>6
<1>8. ASSUME NEW u \in Threads
      PROVE  /\ Once(tickets'[u]) /\ ToSet(tickets'[u]) \subseteq 0..(num - 1)
             /\ ToSet(tickets'[u]) \cap ToSet(b) = {}
  <2>1. CASE u = t
    BY <1>5, <1>6, <2>1
  <2>2. CASE u # t
    <3>1. /\ Once(tickets[u]) /\ ToSet(tickets[u]) \subseteq 0..(num - 1)
          /\ ToSet(tickets[u]) \cap ToSet(pool) = {} /\ ToSet(tickets[u]) \cap ToSet(tickets[t]) = {}
      BY <2>2 DEF TicketsOf
    <3>2. QED
      BY <1>4, <1>5, <2>2, <3>1
  <2>3. QED
    BY <2>1, <2>2
<1>9. ASSUME NEW u \in Threads, NEW v \in Threads, u # v
      PROVE  ToSet(tickets'[u]) \cap ToSet(tickets'[v]) = {}
  <2>1. CASE u = t \/ v = t
    BY <1>5, <1>6, <2>1
  <2>2. CASE u # t /\ v # t
    BY <1>5, <1>9, <2>2 DEF TicketsOf
  <2>3. QED
    BY <2>1, <2>2
<1>10. ASSUME NEW x \in 0..(num - 1)
       PROVE  x \in ToSet(b) \/ \E u \in Threads : x \in ToSet(tickets'[u])
  <2>1. x \in ToSet(pool) \/ \E u \in Threads : x \in ToSet(tickets[u])
    BY DEF TicketsOf
  <2>2. QED
    BY <1>4, <1>5, <2>1
<1>11. QED
  BY <1>1, <1>2, <1>4, <1>7, <1>8, <1>9, <1>10 DEF TicketsOf

----------------------------------------------------------------------------
(* The steps of the system *)

\* The invariant holds again once class->add_thread has made its changes.
LEMMA AdmitKeeps ==
    ASSUME CInv, NEW t \in Threads, NEW p \in Prios \cup {255}, Admit(t, p), config' = config
    PROVE  /\ deadline' \in [Threads -> Int] /\ readied' \in [Threads -> Int]
           /\ Edf => /\ deadline'[t] = DeadlineOf(t, p) /\ Due(t, deadline'[t], readied'[t])
                     /\ \A u \in Threads \ {t} : deadline'[u] = deadline[u] /\ readied'[u] = readied[u]
           /\ TicketsOf(tickets', pool', num')
           /\ Takes(t, tickets, tickets')
           /\ ~Edf /\ Drawable => tickets'[t] # <<>>
<1>1. p \in 0..255
  BY PrioRange
<1>2. CASE Edf
  <2>1. SetDeadline(t, p) /\ UNCHANGED lotVars
    BY <1>2 DEF Admit
  <2>0. QueueInv /\ tick \in Int
    BY DEF CInv, QueueInv
  <2>2. DeadlineOf(t, p) \in Int /\ Due(t, DeadlineOf(t, p), tick) /\ tick \in Int
    BY <1>1, <2>0, DeadlineDue
  <2>3. deadline \in [Threads -> Int] /\ readied \in [Threads -> Int]
    BY DEF CInv, QueueInv
  <2>4. /\ deadline' \in [Threads -> Int] /\ readied' \in [Threads -> Int]
        /\ deadline'[t] = DeadlineOf(t, p) /\ readied'[t] = tick
        /\ \A u \in Threads \ {t} : deadline'[u] = deadline[u] /\ readied'[u] = readied[u]
    BY <2>1, <2>2, <2>3 DEF SetDeadline
  <2>5. TicketsOf(tickets', pool', num') /\ Takes(t, tickets, tickets')
    BY <2>1 DEF lotVars, CInv, LotInv, Takes
  <2>6. QED
    BY <1>2, <2>2, <2>4, <2>5
<1>3. CASE ~Edf
  <2>1. TakeTickets(t, p) /\ UNCHANGED edfVars
    BY <1>3 DEF Admit
  <2>2. /\ TicketsOf(tickets', pool', num') /\ Takes(t, tickets, tickets')
        /\ TicketCount(p) > 0 => tickets'[t] # <<>>
    <3>1. TicketsOf(tickets, pool, num)
      BY DEF CInv, LotInv
    <3>2. Supplied(t, p)
      BY <1>1, <2>1, <3>1, TakeTicketsKeeps
    <3>3. QED
      BY <3>2 DEF Supplied
  <2>3. Drawable => TicketCount(p) > 0
    BY DEF Drawable, TicketCount
  <2>4. QED
    BY <1>3, <2>1, <2>2, <2>3 DEF edfVars, CInv, QueueInv
<1>4. QED
  BY <1>2, <1>3

\* A step that leaves the queue and what the class keeps alone
LEMMA QuietStep ==
    ASSUME CInv, UNCHANGED <<config, current, runq, state, edfVars, lotVars>>,
           tick' \in 0..MaxTick, prio' \in [Threads -> Prios \cup {255}]
    PROVE  CInv'
BY DEF CInv, QueueInv, EdfInv, LotInv, edfVars, lotVars, Edf, Queued, Sorted

\* The tick moves time only.
LEMMA TickKeeps ==
    ASSUME CInv, NEW d \in Steps, Tick(d)
    PROVE  CInv'
<1>1. tick' \in 0..MaxTick
  BY TimeAssumption DEF Tick, CInv, QueueInv
<1>2. QED
  BY <1>1, QuietStep DEF Tick, CInv, QueueInv

\* __schedule, entered by a thread that stays RUNNING
LEMMA ScheduleKeeps ==
    ASSUME CInv, NEW p \in Prios \cup {255}, NEW need, NEW sliced, Schedule(p, need, sliced),
           UNCHANGED <<config, tick, state>>, prio' \in [Threads -> Prios \cup {255}]
    PROVE  CInv'
<1>1. PICK next \in NextRunnable :
          IF RescheduleDecide(next, p, need, sliced)
          THEN SwitchContext(next, TRUE, p) /\ Admit(current, p)
          ELSE resched' = FALSE /\ UNCHANGED <<current, runq, edfVars, lotVars>>
  BY DEF Schedule
<1>2. CASE ~RescheduleDecide(next, p, need, sliced)
  BY <1>1, <1>2, QuietStep DEF CInv, QueueInv
<1>3. CASE RescheduleDecide(next, p, need, sliced)
  <2>1. SwitchContext(next, TRUE, p) /\ Admit(current, p)
    BY <1>1, <1>3
  <2>2. QueueInv /\ current \in Threads
    BY DEF CInv, QueueInv
  <2>3. SwitchedIn(Queued \cup {current})
    BY <2>1, <2>2, SwitchQueue
  <2>4. /\ deadline' \in [Threads -> Int] /\ readied' \in [Threads -> Int]
        /\ Edf => /\ deadline'[current] = DeadlineOf(current, p) /\ Due(current, deadline'[current], readied'[current])
                  /\ \A u \in Threads \ {current} : deadline'[u] = deadline[u] /\ readied'[u] = readied[u]
        /\ TicketsOf(tickets', pool', num') /\ Takes(current, tickets, tickets')
        /\ ~Edf /\ Drawable => tickets'[current] # <<>>
    BY <2>1, <2>2, AdmitKeeps
  <2>5. QueueInv'
    BY <2>2, <2>3, <2>4 DEF QueueInv, SwitchedIn, Queued
  <2>6. EdfInv'
    <3>1. SUFFICES ASSUME Edf PROVE Sorted(runq, deadline)' /\ \A t \in Queued' : Due(t, deadline'[t], readied'[t])
      BY DEF EdfInv, Edf
    <3> DEFINE full == RqInsert(runq, current, p)
    <3>2. \A u \in ToSet(runq) : deadline'[u] = deadline[u]
      BY <2>2, <2>4, <3>1, ElementPlace DEF QueueInv, Queued
    <3>3. Sorted(full, deadline') /\ full \in Seq(Threads)
      <4>1. runq \in Seq(Threads) /\ Sorted(runq, deadline)
        BY <2>2, <3>1 DEF QueueInv, CInv, EdfInv
      <4>2. DeadlineOf(current, p) = deadline'[current]
        BY <2>4, <3>1
      <4>3. full \in Seq(Threads)
        BY <2>2, <4>1, RqInsertJoins
      <4>4. Sorted(full, deadline')
        <5>1. PICK dl : dl = deadline'
          OBVIOUS
        <5>2. /\ dl \in [Threads -> Int] /\ DeadlineOf(current, p) = dl[current]
              /\ \A u \in ToSet(runq) : dl[u] = deadline[u]
          BY <2>4, <3>2, <4>2, <5>1
        <5>3. Sorted(full, dl)
          BY <2>2, <3>1, <4>1, <5>2, EdfInsertSorted
        <5>4. QED
          BY <5>1, <5>3
      <4>5. QED
        BY <4>3, <4>4
    <3>4. runq' = RemoveFirst(full, next)
      BY <2>1 DEF SwitchContext, RqRemove
    <3> HIDE DEF full
    <3>5. Sorted(runq', deadline')
      BY <3>3, <3>4, RemoveSorted
    <3>6. ASSUME NEW t \in Queued' PROVE Due(t, deadline'[t], readied'[t])
      <4>1. t \in Queued \cup {current}
        BY <2>3 DEF SwitchedIn, Queued
      <4>2. CASE t = current
        BY <2>4, <3>1, <4>2
      <4>3. CASE t # current
        <5>1. t \in Queued /\ t \in Threads \ {current}
          BY <2>2, <4>1, <4>3, ElementPlace DEF QueueInv, Queued
        <5>2. QED
          BY <2>4, <3>1, <5>1 DEF CInv, EdfInv
      <4>4. QED
        BY <4>2, <4>3
    <3>7. QED
      BY <3>5, <3>6 DEF Sorted
  <2>7. LotInv'
    <3>1. SUFFICES ASSUME ~Edf
                   PROVE  /\ \A t \in Threads : state'[t] = "none" => tickets'[t] = <<>>
                          /\ Drawable => \A t \in Queued' : tickets'[t] # <<>>
      BY <2>4 DEF LotInv, Edf
    <3>2. ASSUME NEW t \in Threads, state'[t] = "none" PROVE tickets'[t] = <<>>
      <4>1. t # current /\ tickets[t] = <<>>
        BY <2>2, <3>1, <3>2 DEF QueueInv, CInv, LotInv
      <4>2. QED
        BY <2>4, <4>1 DEF Takes
    <3>3. ASSUME Drawable, NEW t \in Queued' PROVE tickets'[t] # <<>>
      <4>1. t \in Queued \cup {current}
        BY <2>3 DEF SwitchedIn, Queued
      <4>2. CASE t = current
        BY <2>4, <3>1, <3>3, <4>2
      <4>3. CASE t \in Queued
        <5>1. t \in Threads /\ tickets[t] # <<>>
          BY <2>2, <3>1, <3>3, <4>3, ElementPlace DEF QueueInv, Queued, CInv, LotInv
        <5>2. QED
          BY <2>4, <5>1 DEF Takes
      <4>4. QED
        BY <4>1, <4>2, <4>3
    <3>4. QED
      BY <3>2, <3>3
  <2>8. QED
    BY <2>5, <2>6, <2>7 DEF CInv
<1>4. QED
  BY <1>2, <1>3

\* A thread leaves the processor and does not go back to the run queue.
LEMMA LeaveKeeps ==
    ASSUME CInv, current # Idle, ScheduleOut, UNCHANGED <<config, tick, prio, edfVars>>,
           NEW s \in {"blocked", "none"}, state' = [state EXCEPT ![current] = s]
    PROVE  QueueInv' /\ EdfInv' /\ Queued' \subseteq Queued
<1>1. QueueInv /\ current \in Threads /\ current \notin Queued
  BY DEF CInv, QueueInv
<1>2. SwitchedIn(Queued)
  BY <1>1, SwitchOutQueue
<1>3. PICK next \in NextRunnable : runq' = RemoveFirst(runq, next)
  BY DEF ScheduleOut, SwitchContext, RqRemove
<1>4. Queued' \subseteq Queued
  BY <1>2 DEF SwitchedIn, Queued
<1>5. QueueInv'
  <2>1. /\ state' \in [Threads -> {"none", "ready", "blocked"}] /\ state'[Idle] = "ready"
        /\ state'[current] # "ready" /\ \A t \in Threads \ {current} : state'[t] = state[t]
    BY <1>1, IdleAssumption DEF QueueInv
  <2>2. \A t \in Threads : state'[t] = "ready" <=> t \in Queued' \cup {current'}
    BY <1>1, <1>2, <2>1 DEF SwitchedIn, Queued, QueueInv
  <2>3. QED
    BY <1>1, <1>2, <2>1, <2>2 DEF QueueInv, SwitchedIn, Queued, edfVars
<1>6. EdfInv'
  <2>1. SUFFICES ASSUME Edf PROVE Sorted(runq, deadline)' /\ \A t \in Queued' : Due(t, deadline'[t], readied'[t])
    BY DEF EdfInv, Edf
  <2>2. deadline' = deadline /\ readied' = readied
    BY DEF edfVars
  <2>3. Sorted(runq, deadline) /\ \A t \in Queued : Due(t, deadline[t], readied[t])
    BY <2>1 DEF CInv, EdfInv
  <2>4. Sorted(runq', deadline)
    BY <1>1, <1>3, <2>3, RemoveSorted DEF QueueInv
  <2>5. QED
    BY <1>4, <2>2, <2>3, <2>4 DEF Sorted
<1>7. QED
  BY <1>4, <1>5, <1>6

\* A thread that blocks leaves nothing behind on the run queue.
LEMMA BlockKeeps ==
    ASSUME CInv, Block
    PROVE  CInv'
<1>1. QueueInv' /\ EdfInv' /\ Queued' \subseteq Queued
  BY LeaveKeeps DEF Block
<1>2. UNCHANGED lotVars /\ config' = config /\ \A t \in Threads : state'[t] = "none" => state[t] = "none"
  BY DEF Block, CInv, QueueInv
<1>3. LotInv'
  BY <1>1, <1>2 DEF CInv, LotInv, lotVars, Edf
<1>4. QED
  BY <1>1, <1>3 DEF CInv

\* A thread that exits leaves nothing behind on the run queue.
LEMMA KillKeeps ==
    ASSUME CInv, Kill
    PROVE  CInv'
<1>1. QueueInv' /\ EdfInv' /\ Queued' \subseteq Queued
  BY LeaveKeeps DEF Kill
<1>2. config' = config /\ current \in Threads /\ current \notin Queued /\ Queued \subseteq Threads
  BY ElementPlace DEF Kill, CInv, QueueInv, Queued
<1>3. CASE Edf
  BY <1>1, <1>2, <1>3 DEF Kill, CInv, LotInv, lotVars, Edf
<1>4. CASE ~Edf
  <2>1. ReturnTickets(current)
    BY <1>4 DEF Kill
  <2>2. TicketsOf(tickets, pool, num) /\ tickets \in [Threads -> Seq(Nat)]
    BY DEF CInv, LotInv, TicketsOf
  <2>3. TicketsOf(tickets', pool', num')
    BY <1>2, <2>1, <2>2, ReturnTicketsKeeps
  <2>4. tickets'[current] = <<>> /\ \A t \in Threads \ {current} : tickets'[t] = tickets[t]
    BY <1>2, <2>1, <2>2 DEF ReturnTickets
  <2>5. \A t \in Threads \ {current} : state'[t] = state[t]
    BY <1>2 DEF Kill, CInv, QueueInv
  <2>6. \A t \in Threads : state'[t] = "none" => tickets'[t] = <<>>
    BY <1>4, <2>4, <2>5 DEF CInv, LotInv
  <2>7. Drawable => \A t \in Queued' : tickets'[t] # <<>>
    BY <1>1, <1>2, <1>4, <2>4 DEF CInv, LotInv
  <2>8. QED
    BY <1>1, <2>3, <2>6, <2>7 DEF CInv, LotInv
<1>5. QED
  BY <1>3, <1>4

\* class->add_thread for a thread that becomes RUNNING
LEMMA JoinKeeps ==
    ASSUME CInv, NEW t \in Threads, state[t] # "ready", NEW p \in Prios \cup {255},
           state' = [state EXCEPT ![t] = "ready"], runq' = RqInsert(runq, t, p), Admit(t, p),
           UNCHANGED <<config, tick, current>>, prio' \in [Threads -> Prios \cup {255}]
    PROVE  CInv'
<1>1. QueueInv /\ runq \in Seq(Threads) /\ t \notin Queued /\ t # current
  BY DEF CInv, QueueInv
<1>2. runq' \in Seq(Threads) /\ Joined(runq, t, runq')
  BY <1>1, RqInsertJoins
<1>3. Queued' = Queued \cup {t} /\ Once(runq') /\ Queued \subseteq Threads
  BY <1>1, <1>2, ElementPlace DEF Joined, QueueInv, Queued
<1>4. /\ deadline' \in [Threads -> Int] /\ readied' \in [Threads -> Int]
      /\ Edf => /\ deadline'[t] = DeadlineOf(t, p) /\ Due(t, deadline'[t], readied'[t])
                /\ \A u \in Threads \ {t} : deadline'[u] = deadline[u] /\ readied'[u] = readied[u]
      /\ TicketsOf(tickets', pool', num') /\ Takes(t, tickets, tickets')
      /\ ~Edf /\ Drawable => tickets'[t] # <<>>
  BY AdmitKeeps
<1>5. QueueInv'
  <2>1. /\ state' \in [Threads -> {"none", "ready", "blocked"}] /\ state'[Idle] = "ready"
        /\ state'[t] = "ready" /\ \A u \in Threads \ {t} : state'[u] = state[u]
    BY <1>1, IdleAssumption DEF QueueInv
  <2>2. \A u \in Threads : state'[u] = "ready" <=> u \in Queued' \cup {current'}
    BY <1>1, <1>3, <2>1 DEF QueueInv
  <2>3. QED
    BY <1>1, <1>2, <1>3, <1>4, <2>1, <2>2 DEF QueueInv
<1>6. EdfInv'
  <2>1. SUFFICES ASSUME Edf PROVE Sorted(runq, deadline)' /\ \A u \in Queued' : Due(u, deadline'[u], readied'[u])
    BY DEF EdfInv, Edf
  <2>2. Sorted(runq, deadline) /\ \A u \in Queued : Due(u, deadline[u], readied[u])
    BY <2>1 DEF CInv, EdfInv
  <2>3. \A u \in Queued : u \in Threads \ {t} /\ deadline'[u] = deadline[u] /\ readied'[u] = readied[u]
    BY <1>1, <1>3, <1>4, <2>1
  <2>4. PICK dl : dl = deadline'
    OBVIOUS
  <2>5. /\ dl \in [Threads -> Int] /\ DeadlineOf(t, p) = dl[t]
        /\ \A u \in ToSet(runq) : dl[u] = deadline[u]
    BY <1>4, <2>1, <2>3, <2>4 DEF Queued
  <2>6. Sorted(RqInsert(runq, t, p), dl)
    <3>1. runq \in Seq(Threads) /\ Sorted(runq, deadline)
      BY <1>1, <2>2
    <3>2. PICK q : q = runq
      OBVIOUS
    <3>3. /\ q \in Seq(Threads) /\ Sorted(q, deadline)
          /\ \A u \in ToSet(q) : dl[u] = deadline[u]
      BY <2>5, <3>1, <3>2
    <3>4. Sorted(RqInsert(q, t, p), dl)
      <4>1. q \in Seq(Threads)
        BY <3>3
      <4>2. dl \in [Threads -> Int]
        BY <2>5
      <4>3. Edf /\ Sorted(q, deadline) /\ DeadlineOf(t, p) = dl[t] /\ \A u \in ToSet(q) : dl[u] = deadline[u]
        BY <2>1, <2>5, <3>3
      <4>4. QED
        BY <4>1, <4>2, <4>3, EdfInsertSorted, SMTT(90)
    <3>5. QED
      BY <3>2, <3>4
  <2>7. \A u \in Queued' : Due(u, deadline'[u], readied'[u])
    BY <1>3, <1>4, <2>1, <2>2, <2>3
  <2>8. QED
    BY <2>4, <2>6, <2>7 DEF Sorted
<1>7. LotInv'
  <2>1. SUFFICES ASSUME ~Edf
                 PROVE  /\ \A u \in Threads : state'[u] = "none" => tickets'[u] = <<>>
                        /\ Drawable => \A u \in Queued' : tickets'[u] # <<>>
    BY <1>4 DEF LotInv, Edf
  <2>2. ASSUME NEW u \in Threads, state'[u] = "none" PROVE tickets'[u] = <<>>
    <3>1. u # t /\ tickets[u] = <<>>
      BY <1>1, <2>1, <2>2 DEF QueueInv, CInv, LotInv
    <3>2. QED
      BY <1>4, <3>1 DEF Takes
  <2>3. ASSUME Drawable, NEW u \in Queued' PROVE tickets'[u] # <<>>
    <3>1. CASE u = t
      BY <1>4, <2>1, <2>3, <3>1
    <3>2. CASE u \in Queued
      <4>1. u \in Threads /\ tickets[u] # <<>>
        BY <1>3, <2>1, <2>3, <3>2 DEF CInv, LotInv
      <4>2. QED
        BY <1>4, <4>1 DEF Takes
    <3>3. QED
      BY <1>3, <2>3, <3>1, <3>2
  <2>4. QED
    BY <2>2, <2>3
<1>8. QED
  BY <1>5, <1>6, <1>7 DEF CInv

\* class->init: the pool of the first tickets
LEMMA CInvInit == ClassesInit => CInv
<1>1. SUFFICES ASSUME ClassesInit PROVE CInv
  OBVIOUS
<1>2. runq = <<>> /\ Queued = {} /\ Once(runq) /\ runq \in Seq(Threads) /\ Len(runq) = 0
  BY <1>1 DEF ClassesInit, Queued, ToSet, Once
<1>3. QueueInv
  BY <1>1, <1>2, IdleAssumption, TimeAssumption DEF ClassesInit, QueueInv
<1>4. EdfInv
  BY <1>2 DEF EdfInv, Sorted
<1>5. /\ pool \in Seq(Nat) /\ Once(pool) /\ ToSet(pool) = 0..19
  <2>1. pool = [i \in 1..20 |-> 0 + 20 - i]
    BY <1>1 DEF ClassesInit, Numbers, LOTTERY_POOL_SIZE
  <2>2. pool \in Seq(Nat) /\ Len(pool) = 20 /\ \A i \in 1..20 : pool[i] = 20 - i
    BY <2>1
  <2>3. Once(pool)
    <3>1. \A i, j \in 1..20 : 20 - i = 20 - j => i = j
      OBVIOUS
    <3>2. QED
      BY <2>2, <3>1 DEF Once
  <2>4. ASSUME NEW x \in 0..19 PROVE x \in ToSet(pool)
    <3>1. PICK i \in 1..20 : 20 - i = x
      <4>1. 20 - x \in 1..20 /\ 20 - (20 - x) = x
        OBVIOUS
      <4>2. QED
        BY <4>1
    <3>2. i \in 1..Len(pool) /\ pool[i] = x
      BY <2>2, <3>1
    <3>3. QED
      BY <2>2, <3>2, ElementPlace, Zenon
  <2>5. ASSUME NEW x \in ToSet(pool) PROVE x \in 0..19
    <3>1. PICK i \in 1..Len(pool) : pool[i] = x
      BY <2>2 DEF ToSet
    <3>2. QED
      BY <2>2, <3>1
  <2>6. QED
    BY <2>2, <2>3, <2>4, <2>5
<1>6. num = 20 /\ tickets = [t \in Threads |-> <<>>]
  BY <1>1 DEF ClassesInit, LOTTERY_POOL_SIZE
<1>7. tickets \in [Threads -> Seq(Nat)] /\ \A t \in Threads : tickets[t] = <<>> /\ ToSet(tickets[t]) = {} /\ Once(tickets[t])
  BY <1>6 DEF ToSet, Once
<1>8. TicketsOf(tickets, pool, num)
  BY <1>5, <1>6, <1>7 DEF TicketsOf
<1>9. LotInv
  BY <1>2, <1>7, <1>8 DEF LotInv
<1>10. QED
  BY <1>3, <1>4, <1>9 DEF CInv

\* Every step keeps the invariant of the classes.
LEMMA CInvNext ==
    ASSUME CInv, [ClassesNext]_cvars
    PROVE  CInv'
<1>1. prio \in [Threads -> Prios \cup {255}] /\ current \in Threads /\ Idle \in Threads
  BY IdleAssumption DEF CInv, QueueInv
<1>2. CASE UNCHANGED cvars
  <2>1. tick \in 0..MaxTick
    BY DEF CInv, QueueInv
  <2>2. QED
    BY <1>1, <1>2, <2>1, QuietStep DEF cvars
<1>3. CASE \E d \in Steps : Tick(d)
  BY <1>3, TickKeeps
<1>4. CASE SliceEnds
  <2>0. prio[current] \in Prios \cup {255}
    BY <1>1
  <2>1. PICK p, need, sliced : p \in Prios \cup {255} /\ Schedule(p, need, sliced)
    BY <1>4, <2>0, Zenon DEF SliceEnds
  <2>2. UNCHANGED <<config, tick, state>> /\ prio' \in [Threads -> Prios \cup {255}]
    BY <1>1, <1>4 DEF SliceEnds
  <2>3. QED
    BY <2>1, <2>2, ScheduleKeeps
<1>5. CASE IdleLoop
  <2>0. prio[Idle] \in Prios \cup {255}
    BY <1>1
  <2>1. PICK p, need, sliced : p \in Prios \cup {255} /\ Schedule(p, need, sliced)
    BY <1>5, <2>0, Zenon DEF IdleLoop
  <2>2. UNCHANGED <<config, tick, state>> /\ prio' \in [Threads -> Prios \cup {255}]
    BY <1>1, <1>5 DEF IdleLoop
  <2>3. QED
    BY <2>1, <2>2, ScheduleKeeps
<1>6. CASE Block
  BY <1>6, BlockKeeps
<1>7. CASE Kill
  BY <1>7, KillKeeps
<1>8. ASSUME NEW p \in Prios, Nice(p) PROVE CInv'
  <2>1. PICK need : Schedule(p, need, FALSE)
    BY <1>8 DEF Nice
  <2>2. UNCHANGED <<config, tick, state>> /\ prio' \in [Threads -> Prios \cup {255}]
    BY <1>1, <1>8 DEF Nice
  <2>3. QED
    BY <2>1, <2>2, ScheduleKeeps
<1>9. ASSUME NEW t \in Threads, Wake(t) PROVE CInv'
  BY <1>1, <1>9, JoinKeeps DEF Wake
<1>10. ASSUME NEW t \in Threads, NEW p \in Prios, Create(t, p) PROVE CInv'
  BY <1>1, <1>10, JoinKeeps DEF Create
<1>11. QED
  BY <1>2, <1>3, <1>4, <1>5, <1>6, <1>7, <1>8, <1>9, <1>10 DEF ClassesNext

\* The invariant of the classes holds in every reachable state.
LEMMA CInvHolds == ClassesSpec => []CInv
<1>1. QED
  BY CInvInit, CInvNext, PTL DEF ClassesSpec

----------------------------------------------------------------------------
(* The theorems *)

\* The lottery keeps its books: every ticket ever made is in the pool or with one
\* thread, once, and no thread on the run queue is without one, so that the draw of
\* lottery_next_runnable ends, as long as no priority in use rounds to no ticket.
THEOREM TicketsKept ==
    ASSUME Drawable
    PROVE  ClassesSpec => []TicketsSound
<1>1. ASSUME CInv PROVE TicketsSound
  <2>1. SUFFICES ASSUME ~Edf PROVE TicketsSound
    BY DEF TicketsSound
  <2>2. TicketsOf(tickets, pool, num)
    BY <1>1 DEF CInv, LotInv
  <2>3. ASSUME NEW n \in 0..(num - 1)
        PROVE  Cardinality(Holders(n)) = IF n \in ToSet(pool) THEN 0 ELSE 1
    <3>1. CASE n \in ToSet(pool)
      <4>1. Holders(n) = {}
        BY <2>2, <3>1 DEF Holders, TicketsOf
      <4>2. QED
        BY <3>1, <4>1, FS_EmptySet
    <3>2. CASE n \notin ToSet(pool)
      <4>1. PICK t \in Threads : n \in ToSet(tickets[t])
        BY <2>2, <3>2 DEF TicketsOf
      <4>2. Holders(n) = {t}
        BY <2>2, <4>1 DEF Holders, TicketsOf
      <4>3. QED
        BY <3>2, <4>2, FS_Singleton
    <3>3. QED
      BY <3>1, <3>2
  <2>4. ASSUME NEW l \in {pool} \cup {tickets[t] : t \in Threads}
        PROVE  IsInjective(l) /\ ToSet(l) \subseteq 0..(num - 1)
    <3>1. l \in Seq(Nat) /\ Once(l) /\ ToSet(l) \subseteq 0..(num - 1)
      BY <2>2 DEF TicketsOf
    <3>2. QED
      BY <3>1 DEF IsInjective, Once
  <2>5. QED
    BY <1>1, <2>1, <2>3, <2>4 DEF TicketsSound, CInv, LotInv
<1>2. QED
  BY <1>1, CInvHolds, PTL

\* The head of the EDF queue is nobody's late comer, and not the idle thread if
\* there is another.
LEMMA HeadInTime ==
    ASSUME CInv, Edf, NEW next \in NextRunnable, next # current, NEW t \in Queued \ {next}
    PROVE  next # Idle /\ readied[next] <= deadline[t]
<1>1. QueueInv /\ runq \in Seq(Threads)
  BY DEF CInv, QueueInv
<1>2. next \in Threads /\ next \in Queued /\ next = runq[1] /\ 1 \in 1..Len(runq)
  BY <1>1, NextRunnableQueued
<1>3. Sorted(runq, deadline) /\ Due(next, deadline[next], readied[next]) /\ Due(t, deadline[t], readied[t])
  BY <1>2 DEF CInv, EdfInv
<1>4. PICK i \in 1..Len(runq) : runq[i] = t
  BY <1>1, ElementPlace DEF Queued
<1>5. t \in Threads
  BY <1>1, ElementPlace DEF Queued
<1>6. deadline[next] \in Int /\ deadline[t] \in Int /\ readied[next] \in Int
  BY <1>1, <1>2, <1>5 DEF QueueInv
<1>7. 1 < i
  BY <1>2, <1>4
<1>8. deadline[next] <= deadline[t]
  BY <1>2, <1>3, <1>4, <1>7 DEF Sorted
<1>9. next # Idle
  BY <1>3, <1>6, <1>8, LateIdle, TimeAssumption DEF Due
<1>10. QED
  BY <1>3, <1>6, <1>8, <1>9 DEF Due

\* Earliest deadline first: a switch never passes over a thread for one that became
\* ready after its deadline, and the idle thread runs only when nobody is ready.
THEOREM DeadlinesKept == ClassesSpec => EdfInTime
<1> DEFINE InTime == Edf /\ current' # current
               => \A t \in Queued \ {current'} : current' # Idle /\ readied[current'] <= deadline[t]
<1>1. ASSUME CInv, NEW next \in NextRunnable, current' = next PROVE InTime
  BY <1>1, HeadInTime
<1>2. ASSUME CInv, ClassesNext PROVE InTime
  <2>1. CASE current' = current
    BY <2>1
  <2>2. ASSUME NEW p, NEW need, NEW sliced, Schedule(p, need, sliced) PROVE InTime
    <3>1. current' = current \/ \E next \in NextRunnable : current' = next
      BY <2>2 DEF Schedule, SwitchContext
    <3>2. QED
      BY <1>1, <1>2, <2>1, <3>1
  <2>3. ASSUME ScheduleOut PROVE InTime
    <3>1. \E next \in NextRunnable : current' = next
      BY <2>3 DEF ScheduleOut, SwitchContext
    <3>2. QED
      BY <1>1, <1>2, <3>1
  <2> HIDE DEF InTime
  <2>4. CASE (\E d \in Steps : Tick(d)) \/ (\E t \in Threads : Wake(t))
             \/ (\E t \in Threads, p \in Prios : Create(t, p))
    <3>1. current' = current
      BY <2>4 DEF Tick, Wake, Create
    <3>2. QED
      BY <2>1, <3>1
  <2>5. CASE SliceEnds
    <3>1. \E p, need, sliced : Schedule(p, need, sliced)
      BY <2>5, Zenon DEF SliceEnds
    <3>2. QED
      BY <2>2, <3>1
  <2>6. CASE IdleLoop
    <3>1. \E p, need, sliced : Schedule(p, need, sliced)
      BY <2>6, Zenon DEF IdleLoop
    <3>2. QED
      BY <2>2, <3>1
  <2>7. CASE \E p \in Prios : Nice(p)
    <3>1. \E p, need, sliced : Schedule(p, need, sliced)
      BY <2>7, Zenon DEF Nice
    <3>2. QED
      BY <2>2, <3>1
  <2>8. CASE Block \/ Kill
    BY <2>3, <2>8 DEF Block, Kill
  <2>9. QED
    BY <1>2, <2>4, <2>5, <2>6, <2>7, <2>8 DEF ClassesNext
<1>3. ASSUME CInv, [ClassesNext]_cvars PROVE [InTime]_cvars
  BY <1>2, <1>3
<1>4. QED
  BY <1>3, CInvHolds, PTL DEF ClassesSpec, EdfInTime
=============================================================================
