----------------------------- MODULE Vfs_proofs -----------------------------
(***************************************************************************)
(* The file system, for any number of callers, files, directories and      *)
(* descriptors: the table of descriptors, the files and what the callers   *)
(* have from open agree, and so do the locks, copies and mutexes that open *)
(* takes; ramfs writes inside its buffers; directories are listed whole    *)
(* and found by their paths.                                               *)
(***************************************************************************)
EXTENDS Vfs, Lists_proofs, FiniteSetTheorems

(* What the theorems about descriptors are about: callers that open a file *)
(* once, leave a descriptor free, and leave the flash device to romfs.     *)

Prudent == Rash \cap {"reopen", "full", "flash"} = {}

----------------------------------------------------------------------------
(* The invariant *)

AnyName == FileNames \cup Files \cup {Std, NULL}

FileRec == [name : AnyName, fd : Fds, mode : SUBSET {"READ", "WRITE", "APPEND"}, index : Nat, rd : Nat, wr : Nat,
            size : Nat, locked : BOOLEAN, data : {"none", "copy", "zero"}, uses : Nat]

Tables == [fl : [Files \cup {Std} -> FileRec], io : [Fds -> Files \cup {Std, NULL}],
           mx : [DevFiles -> [owner : Callers \cup {NULL}, count : Nat]]]

Handles == [fd : 3..(MAX_OPEN - 1), f : Files]

IsOpen(s, f) == \E fd \in Fds : s.io[fd] = f
HasIt(hd, t, f) == \E h \in hd[t] : h.f = f

\* What opening f takes is taken exactly while it is open.
TakenWhileOpen(s, hd, f) ==
    /\ f \in RamFiles => (s.fl[f].locked <=> IsOpen(s, f)) /\ (s.fl[f].name = NULL => ~IsOpen(s, f))
    /\ f \in RomFiles => s.fl[f].uses = (IF IsOpen(s, f) THEN 1 ELSE 0) /\ (s.fl[f].data # "none" <=> IsOpen(s, f))
    /\ f \in DevFiles => /\ s.mx[f].count = (IF IsOpen(s, f) THEN 1 ELSE 0)
                         /\ s.mx[f].owner = NULL <=> ~IsOpen(s, f)
                         /\ \A t \in Callers : s.mx[f].owner = t <=> HasIt(hd, t, f)

\* The table of descriptors, the files and the descriptors hd that callers have
Sound(s, hd) ==
    /\ s \in Tables /\ hd \in [Callers -> SUBSET Handles]
    /\ \A fd \in Fds : IF fd < 3 THEN s.io[fd] = Std ELSE s.io[fd] # Std
    /\ \A t \in Callers : \A h \in hd[t] :
          s.io[h.fd] = h.f /\ s.fl[h.f].fd = h.fd /\ \A u \in Callers : h \in hd[u] => u = t
    /\ \A fd \in 3..(MAX_OPEN - 1) : s.io[fd] # NULL => \E t \in Callers : [fd |-> fd, f |-> s.io[fd]] \in hd[t]
    /\ \A f \in Files : TakenWhileOpen(s, hd, f)

\* Callers inside vfs_open
Waiting(cl) == {u \in Callers : cl[u] # NULL}

\* The buffer of a ramfs file has the length ramfs_create gave it, or more.
Sized(s) == \A f \in RamFiles : s.fl[f].name # NULL => s.fl[f].size >= RAMFS_BUFFER_SIZE

\* Every caller that waits will find a free descriptor, and waits for a device
\* it has not opened; romfs_open is never interrupted.
Standing(s, hd, cl) ==
    /\ Sound(s, hd) /\ ~IsOpen(s, Flash) /\ Sized(s)
    /\ cl \in [Callers -> {NULL} \cup [f : Devices, dev : Devices]]
    /\ \A t \in Callers : cl[t] # NULL => cl[t].f = cl[t].dev /\ ~HasIt(hd, t, cl[t].f)
    /\ Cardinality(FreeFds(s.io)) > Cardinality(Waiting(cl))

VInv == Standing(Here, held, call) /\ entries \in [Dirs -> Seq(Files)]

----------------------------------------------------------------------------
(* Opening and closing a descriptor *)

\* A file is open if and only if a caller has it.
LEMMA OpenIsHeld ==
    ASSUME NEW s, NEW hd, Sound(s, hd), NEW f \in Files
    PROVE  /\ IsOpen(s, f) <=> \E t \in Callers : HasIt(hd, t, f)
           /\ \A fd \in Fds : s.io[fd] = f => fd \in 3..(MAX_OPEN - 1) /\ fd = s.fl[f].fd
<1>1. f # Std /\ f # NULL /\ MAX_OPEN \in Nat /\ MAX_OPEN > 3
  BY FilesAssumption, FdAssumption
<1>2. ASSUME NEW fd \in Fds, s.io[fd] = f
      PROVE  /\ fd \in 3..(MAX_OPEN - 1) /\ fd = s.fl[f].fd
             /\ \E t \in Callers : HasIt(hd, t, f)
  <2>1. fd \in 3..(MAX_OPEN - 1)
    BY <1>1, <1>2 DEF Sound, Fds
  <2>2. PICK t \in Callers : [fd |-> fd, f |-> f] \in hd[t]
    BY <1>1, <1>2, <2>1 DEF Sound
  <2>3. s.fl[f].fd = fd
    <3>. DEFINE h == [fd |-> fd, f |-> f]
    <3>1. h.fd = fd /\ h.f = f /\ h \in hd[t]
      BY <2>2
    <3>. HIDE DEF h
    <3>2. QED
      BY <3>1 DEF Sound
  <2>4. HasIt(hd, t, f)
    BY <2>2 DEF HasIt
  <2>5. QED
    BY <2>1, <2>3, <2>4
<1>3. ASSUME NEW t \in Callers, HasIt(hd, t, f)
      PROVE  IsOpen(s, f)
  <2>1. PICK h \in hd[t] : h.f = f
    BY <1>3 DEF HasIt
  <2>2. h \in Handles /\ s.io[h.fd] = f
    BY <2>1 DEF Sound
  <2>3. h.fd \in Fds
    BY <1>1, <2>2 DEF Handles, Fds
  <2>4. QED
    BY <2>2, <2>3 DEF IsOpen
<1>4. QED
  BY <1>2, <1>3 DEF IsOpen

\* What Sound says of the file g is so in z if it is so in s.
Alike(s, z, g) ==
    /\ IsOpen(s, g) => z.fl[g].fd = s.fl[g].fd
    /\ g \in RamFiles => z.fl[g].locked = s.fl[g].locked /\ (z.fl[g].name = NULL <=> s.fl[g].name = NULL)
    /\ g \in RomFiles => z.fl[g].uses = s.fl[g].uses /\ z.fl[g].data = s.fl[g].data
    /\ g \in DevFiles => z.mx[g].owner = s.mx[g].owner /\ z.mx[g].count = s.mx[g].count

\* Places, modes and contents of files do not matter.
LEMMA AlikeSound ==
    ASSUME NEW s, NEW hd, Sound(s, hd), NEW z \in Tables, z.io = s.io, \A g \in Files : Alike(s, z, g)
    PROVE  Sound(z, hd)
<1>1. ASSUME NEW f \in Files
      PROVE  TakenWhileOpen(z, hd, f)
  <2>1. TakenWhileOpen(s, hd, f) /\ Alike(s, z, f) /\ (IsOpen(z, f) <=> IsOpen(s, f))
    BY DEF Sound, IsOpen
  <2>2. QED
    BY <2>1 DEF TakenWhileOpen, Alike
<1>2. ASSUME NEW t \in Callers, NEW h \in hd[t]
      PROVE  z.io[h.fd] = h.f /\ z.fl[h.f].fd = h.fd
  <2>1. h \in Handles /\ s.io[h.fd] = h.f /\ s.fl[h.f].fd = h.fd /\ h.f \in Files
    BY DEF Sound, Handles
  <2>2. IsOpen(s, h.f)
    BY <2>1, FdAssumption DEF IsOpen, Handles, Fds
  <2>3. QED
    BY <2>1, <2>2 DEF Alike
<1>3. QED
  BY <1>1, <1>2 DEF Sound

\* iob_add finds an entry if there is one.
LEMMA IobAddIs ==
    ASSUME NEW z \in Tables, NEW f \in Files, FreeFds(z.io) # {}
    PROVE  \E fd \in FreeFds(z.io) :
              IobAdd(z, f) = [fl |-> [z.fl EXCEPT ![f] = [@ EXCEPT !.fd = fd]], io |-> [z.io EXCEPT ![fd] = f], mx |-> z.mx]
<1>. DEFINE F == FreeFds(z.io)
            fd == Min(F)
<1>1. F \subseteq Nat /\ F # {}
  BY FdAssumption DEF FreeFds
<1>2. fd \in F
  BY <1>1, LeastExists DEF Min
<1>3. IobAdd(z, f) = [z EXCEPT !.io[fd] = f, !.fl[f].fd = fd]
  BY <1>1 DEF IobAdd
<1>. HIDE DEF fd
<1>. DEFINE w1 == [fl |-> z.fl, io |-> [z.io EXCEPT ![fd] = f], mx |-> z.mx]
            w  == [fl |-> [z.fl EXCEPT ![f] = [@ EXCEPT !.fd = fd]], io |-> [z.io EXCEPT ![fd] = f], mx |-> z.mx]
<1>4. [z EXCEPT !.io[fd] = f, !.fl[f].fd = fd] = [[z EXCEPT !.io[fd] = f] EXCEPT !.fl[f].fd = fd]
  OBVIOUS
<1>5. [z EXCEPT !.io[fd] = f] = w1
  <2>1. z = [fl |-> z.fl, io |-> z.io, mx |-> z.mx]
    BY DEF Tables
  <2>2. [[fl |-> z.fl, io |-> z.io, mx |-> z.mx] EXCEPT !.io[fd] = f] = w1
    OBVIOUS
  <2>3. QED
    BY <2>1, <2>2
<1>6. [w1 EXCEPT !.fl[f].fd = fd] = w
  OBVIOUS
<1>7. QED
  BY <1>2, <1>3, <1>4, <1>5, <1>6

\* The descriptors callers have once t has fd for f, too
With(hd, t, fd, f) == [hd EXCEPT ![t] = @ \cup {[fd |-> fd, f |-> f]}]

\* The descriptors callers have once t has closed h
Without(hd, t, h) == [hd EXCEPT ![t] = @ \ {h}]

\* What opening f takes is taken for t.
Got(z, t, f) ==
    /\ f \in RamFiles => z.fl[f].locked /\ z.fl[f].name # NULL
    /\ f \in RomFiles => z.fl[f].uses = 1 /\ z.fl[f].data # "none"
    /\ f \in DevFiles => z.mx[f].owner = t /\ z.mx[f].count = 1

\* A file that was not open gets a free descriptor, and everything agrees.
LEMMA AddSound ==
    ASSUME NEW s, NEW hd, Sound(s, hd), NEW f \in Files, ~IsOpen(s, f), NEW fd \in FreeFds(s.io), NEW t \in Callers,
           NEW w \in Tables, w.io = [s.io EXCEPT ![fd] = f], w.fl[f].fd = fd, Got(w, t, f),
           \A g \in Files \ {f} : Alike(s, w, g)
    PROVE  Sound(w, With(hd, t, fd, f))
<1>. DEFINE new == [fd |-> fd, f |-> f]
            H   == [hd EXCEPT ![t] = @ \cup {new}]
<1>1. /\ f # Std /\ f # NULL /\ MAX_OPEN \in Nat /\ MAX_OPEN > 3
      /\ fd \in 3..(MAX_OPEN - 1) /\ fd \in Fds /\ s.io[fd] = NULL
  BY FilesAssumption, FdAssumption DEF FreeFds, Fds
<1>2. /\ new \in Handles /\ new.fd = fd /\ new.f = f
      /\ hd \in [Callers -> SUBSET Handles] /\ s.io \in [Fds -> Files \cup {Std, NULL}]
  BY <1>1 DEF Handles, Sound, Tables
<1>3. H \in [Callers -> SUBSET Handles] /\ \A u \in Callers : H[u] = IF u = t THEN hd[u] \cup {new} ELSE hd[u]
  BY <1>2
<1>4. ASSUME NEW u \in Callers, NEW h \in hd[u]
      PROVE  /\ h \in Handles /\ h.fd # fd /\ h.fd \in Fds /\ h.f # f /\ h # new
             /\ s.io[h.fd] = h.f /\ s.fl[h.f].fd = h.fd /\ IsOpen(s, h.f)
  <2>1. h \in Handles /\ s.io[h.fd] = h.f /\ s.fl[h.f].fd = h.fd
    BY DEF Sound
  <2>2. h.f \in Files /\ h.fd \in Fds /\ h.f # NULL
    BY <1>1, <2>1, FilesAssumption DEF Handles, Fds
  <2>3. QED
    BY <1>1, <1>2, <2>1, <2>2 DEF IsOpen
<1>5. \A g \in Fds : w.io[g] = IF g = fd THEN f ELSE s.io[g]
  BY <1>1, <1>2
<1>. HIDE DEF H, new
<1>6. \A g \in Fds : IF g < 3 THEN w.io[g] = Std ELSE w.io[g] # Std
  BY <1>1, <1>5 DEF Sound, Fds
<1>7. ASSUME NEW u \in Callers, NEW h \in H[u]
      PROVE  w.io[h.fd] = h.f /\ w.fl[h.f].fd = h.fd /\ \A v \in Callers : h \in H[v] => v = u
  <2>1. CASE h = new
    <3>1. w.io[h.fd] = h.f /\ w.fl[h.f].fd = h.fd
      BY <1>1, <1>2, <1>5, <2>1
    <3>2. \A v \in Callers : h \in H[v] => v = t
      BY <1>3, <1>4, <2>1
    <3>3. QED
      BY <3>1, <3>2
  <2>2. CASE h # new
    <3>1. h \in hd[u] /\ \A v \in Callers : h \in H[v] => h \in hd[v]
      BY <1>3, <2>2
    <3>2. \A v \in Callers : h \in hd[v] => v = u
      BY <3>1 DEF Sound
    <3>3. h \in Handles /\ h.fd # fd /\ h.fd \in Fds /\ h.f # f /\ s.io[h.fd] = h.f /\ s.fl[h.f].fd = h.fd /\ IsOpen(s, h.f)
      BY <1>4, <3>1
    <3>4. h.f \in Files \ {f}
      BY <3>3 DEF Handles
    <3>5. w.fl[h.f].fd = h.fd
      BY <3>3, <3>4 DEF Alike
    <3>6. QED
      BY <1>5, <3>1, <3>2, <3>3, <3>5
  <2>3. QED
    BY <2>1, <2>2
<1>8. ASSUME NEW g \in 3..(MAX_OPEN - 1), w.io[g] # NULL
      PROVE  \E u \in Callers : [fd |-> g, f |-> w.io[g]] \in H[u]
  <2>1. g \in Fds
    BY <1>1 DEF Fds
  <2>2. CASE g = fd
    <3>1. [fd |-> g, f |-> w.io[g]] = new
      BY <1>5, <2>1, <2>2 DEF new
    <3>2. QED
      BY <1>3, <3>1
  <2>3. CASE g # fd
    <3>1. w.io[g] = s.io[g]
      BY <1>5, <2>1, <2>3
    <3>2. PICK u \in Callers : [fd |-> g, f |-> s.io[g]] \in hd[u]
      BY <1>8, <3>1 DEF Sound
    <3>3. QED
      BY <1>3, <3>1, <3>2
  <2>4. QED
    BY <2>2, <2>3
<1>9. ASSUME NEW g \in Files
      PROVE  TakenWhileOpen(w, H, g)
  <2>1. CASE g = f
    <3>1. IsOpen(w, g)
      BY <1>1, <1>5, <2>1 DEF IsOpen
    <3>2. \A u \in Callers : HasIt(H, u, g) <=> u = t
      <4>1. HasIt(H, t, g)
        BY <1>2, <1>3, <2>1 DEF HasIt
      <4>2. ASSUME NEW u \in Callers, u # t, NEW h \in H[u]
            PROVE  h.f # g
        BY <1>3, <1>4, <2>1, <4>2
      <4>3. QED
        BY <4>1, <4>2 DEF HasIt
    <3>3. t # NULL
      BY FilesAssumption
    <3>4. QED
      BY <2>1, <3>1, <3>2, <3>3 DEF Got, TakenWhileOpen
  <2>2. CASE g # f
    <3>1. IsOpen(w, g) <=> IsOpen(s, g)
      <4>1. g # NULL
        BY FilesAssumption
      <4>2. QED
        BY <1>1, <1>5, <2>2, <4>1 DEF IsOpen
    <3>2. \A u \in Callers : HasIt(H, u, g) <=> HasIt(hd, u, g)
      BY <1>2, <1>3, <2>2 DEF HasIt
    <3>3. TakenWhileOpen(s, hd, g) /\ Alike(s, w, g)
      BY <2>2 DEF Sound
    <3>4. QED
      BY <3>1, <3>2, <3>3 DEF TakenWhileOpen, Alike
  <2>3. QED
    BY <2>1, <2>2
<1>10. Sound(w, H)
  BY <1>3, <1>6, <1>7, <1>8, <1>9 DEF Sound
<1>11. QED
  BY <1>10 DEF H, new, With

\* What opening f takes is given back.
Given(s, z, f) ==
    /\ f \in RamFiles => ~z.fl[f].locked /\ (z.fl[f].name = NULL <=> s.fl[f].name = NULL) /\ z.fl[f].wr = 0
    /\ f \in RomFiles => z.fl[f].uses = 0 /\ z.fl[f].data = "none"
    /\ f \in DevFiles => z.mx[f].owner = NULL /\ z.mx[f].count = 0

\* The descriptor of a file that was open is free again, and everything agrees.
LEMMA RemoveSound ==
    ASSUME NEW s, NEW hd, Sound(s, hd), NEW t \in Callers, NEW h \in hd[t],
           NEW w \in Tables, w.io = [s.io EXCEPT ![h.fd] = NULL], Given(s, w, h.f),
           \A g \in Files \ {h.f} : Alike(s, w, g)
    PROVE  Sound(w, [hd EXCEPT ![t] = @ \ {h}])
<1>. DEFINE fd == h.fd
            f  == h.f
            H  == [hd EXCEPT ![t] = @ \ {h}]
<1>1. /\ MAX_OPEN \in Nat /\ MAX_OPEN > 3
      /\ h \in Handles /\ s.io[fd] = f /\ s.fl[f].fd = fd
      /\ hd \in [Callers -> SUBSET Handles] /\ s.io \in [Fds -> Files \cup {Std, NULL}]
  BY FdAssumption DEF Sound, Tables
<1>2. f \in Files /\ f # Std /\ f # NULL /\ fd \in 3..(MAX_OPEN - 1) /\ fd \in Fds /\ h = [fd |-> fd, f |-> f]
  BY <1>1, FilesAssumption DEF Handles, Fds
<1>3. H \in [Callers -> SUBSET Handles] /\ \A u \in Callers : H[u] = IF u = t THEN hd[u] \ {h} ELSE hd[u]
  BY <1>1
<1>4. \A u \in Callers : h \notin H[u]
  BY <1>3 DEF Sound
<1>5. \A g \in Fds : w.io[g] = IF g = fd THEN NULL ELSE s.io[g]
  BY <1>1, <1>2
<1>6. ASSUME NEW u \in Callers, NEW k \in hd[u], k # h
      PROVE  /\ k \in Handles /\ k.fd # fd /\ k.fd \in Fds /\ k.f # f /\ k.f \in Files
             /\ s.io[k.fd] = k.f /\ s.fl[k.f].fd = k.fd /\ IsOpen(s, k.f)
  <2>1. k \in Handles /\ s.io[k.fd] = k.f /\ s.fl[k.f].fd = k.fd
    BY DEF Sound
  <2>2. k.f \in Files /\ k.fd \in Fds /\ k = [fd |-> k.fd, f |-> k.f]
    BY <1>1, <2>1 DEF Handles, Fds
  <2>3. k.fd # fd /\ k.f # f
    BY <1>1, <1>2, <1>6, <2>1, <2>2
  <2>4. QED
    BY <2>1, <2>2, <2>3 DEF IsOpen
<1>. HIDE DEF H, f, fd
<1>7. \A g \in Fds : IF g < 3 THEN w.io[g] = Std ELSE w.io[g] # Std
  BY <1>2, <1>5, FilesAssumption DEF Sound, Fds
<1>8. ASSUME NEW u \in Callers, NEW k \in H[u]
      PROVE  w.io[k.fd] = k.f /\ w.fl[k.f].fd = k.fd /\ \A v \in Callers : k \in H[v] => v = u
  <2>1. k # h /\ k \in hd[u] /\ \A v \in Callers : k \in H[v] => k \in hd[v]
    BY <1>3, <1>4
  <2>2. \A v \in Callers : k \in hd[v] => v = u
    BY <2>1 DEF Sound
  <2>3. k.fd # fd /\ k.fd \in Fds /\ k.f # f /\ k.f \in Files /\ s.io[k.fd] = k.f /\ s.fl[k.f].fd = k.fd /\ IsOpen(s, k.f)
    BY <1>6, <2>1
  <2>4. w.fl[k.f].fd = k.fd
    BY <2>3 DEF Alike, f
  <2>5. QED
    BY <1>5, <2>1, <2>2, <2>3, <2>4
<1>9. ASSUME NEW g \in 3..(MAX_OPEN - 1), w.io[g] # NULL
      PROVE  \E u \in Callers : [fd |-> g, f |-> w.io[g]] \in H[u]
  <2>1. g \in Fds
    BY <1>1 DEF Fds
  <2>2. g # fd /\ w.io[g] = s.io[g]
    BY <1>5, <1>9, <2>1
  <2>3. PICK u \in Callers : [fd |-> g, f |-> s.io[g]] \in hd[u]
    BY <1>9, <2>2 DEF Sound
  <2>4. [fd |-> g, f |-> s.io[g]] # h
    BY <1>2, <2>2
  <2>5. QED
    BY <1>3, <2>2, <2>3, <2>4
<1>10. ASSUME NEW g \in Files
       PROVE  TakenWhileOpen(w, H, g)
  <2>1. CASE g = f
    <3>1. \A k \in Fds : s.io[k] = f => k = fd
      BY <1>1, <1>2, OpenIsHeld
    <3>2. ~IsOpen(w, g)
      BY <1>2, <1>5, <2>1, <3>1 DEF IsOpen
    <3>3. \A u \in Callers : ~HasIt(H, u, g)
      <4>1. \A u \in Callers : \A k \in H[u] : k \in hd[u] /\ k # h
        BY <1>3, <1>4
      <4>2. QED
        BY <1>6, <2>1, <4>1 DEF HasIt
    <3>4. NULL \notin Callers
      BY FilesAssumption
    <3>5. Given(s, w, g)
      BY <2>1 DEF f
    <3>6. QED
      BY <3>2, <3>3, <3>4, <3>5 DEF Given, TakenWhileOpen
  <2>2. CASE g # f
    <3>1. IsOpen(w, g) <=> IsOpen(s, g)
      <4>1. g # NULL
        BY FilesAssumption
      <4>2. QED
        BY <1>1, <1>2, <1>5, <2>2, <4>1 DEF IsOpen
    <3>2. \A u \in Callers : HasIt(H, u, g) <=> HasIt(hd, u, g)
      BY <1>3, <2>2 DEF HasIt, f
    <3>3. TakenWhileOpen(s, hd, g) /\ Alike(s, w, g)
      BY <2>2 DEF Sound, f
    <3>4. QED
      BY <3>1, <3>2, <3>3 DEF TakenWhileOpen, Alike
  <2>3. QED
    BY <2>1, <2>2
<1>11. Sound(w, H)
  BY <1>3, <1>7, <1>8, <1>9, <1>10 DEF Sound
<1>12. QED
  BY <1>11 DEF H

----------------------------------------------------------------------------
(* What the operations on the tables leave *)

\* The tables with the struct file r for f
Put(s, f, r) == [fl |-> [s.fl EXCEPT ![f] = r], io |-> s.io, mx |-> s.mx]

LEMMA PutIs ==
    ASSUME NEW s \in Tables, NEW f \in Files, NEW r \in FileRec
    PROVE  /\ [s EXCEPT !.fl[f] = r] = Put(s, f, r) /\ Put(s, f, r) \in Tables
           /\ Put(s, f, r).io = s.io /\ Put(s, f, r).mx = s.mx
           /\ Put(s, f, r).fl[f] = r /\ \A g \in Files \ {f} : Put(s, f, r).fl[g] = s.fl[g]
<1>1. s = [fl |-> s.fl, io |-> s.io, mx |-> s.mx] /\ s.fl \in [Files \cup {Std} -> FileRec]
  BY DEF Tables
<1>2. [[fl |-> s.fl, io |-> s.io, mx |-> s.mx] EXCEPT !.fl[f] = r] = Put(s, f, r)
  BY DEF Put
<1>3. QED
  BY <1>1, <1>2 DEF Put, Tables

\* file->close gives back what opening took, once.
LEMMA FileCloseIs ==
    ASSUME NEW s, NEW hd, Sound(s, hd), NEW f \in Files, IsOpen(s, f)
    PROVE  /\ FileClose(s, f) \in Tables /\ FileClose(s, f).io = s.io
           /\ \A g \in Files \ {f} : /\ FileClose(s, f).fl[g] = s.fl[g]
                                     /\ g \in DevFiles => FileClose(s, f).mx[g] = s.mx[g]
           /\ Given(s, FileClose(s, f), f)
           /\ f \in RamFiles => FileClose(s, f).fl[f].size = s.fl[f].size
<1>. DEFINE r == s.fl[f]
<1>1. s \in Tables /\ r \in FileRec /\ TakenWhileOpen(s, hd, f)
  BY DEF Sound, Tables
<1>2. CASE f \in RamFiles
  <2>. DEFINE q == [r EXCEPT !.rd = 0, !.wr = 0, !.locked = FALSE]
  <2>1. q \in FileRec /\ q.locked = FALSE /\ q.name = r.name /\ q.size = r.size /\ q.wr = 0
    BY <1>1 DEF FileRec
  <2>2. f \notin RomFiles /\ f \notin DevFiles
    BY <1>2, FilesAssumption
  <2>3. FileClose(s, f) = [s EXCEPT !.fl[f] = q]
    BY <1>2, <2>2 DEF FileClose
  <2>. HIDE DEF q
  <2>. DEFINE x == FileClose(s, f)
  <2>4. /\ x \in Tables /\ x.io = s.io /\ x.mx = s.mx
        /\ x.fl[f] = q /\ \A g \in Files \ {f} : x.fl[g] = s.fl[g]
    <3>1. [s EXCEPT !.fl[f] = q] = Put(s, f, q)
      BY <1>1, <2>1, PutIs
    <3>2. /\ Put(s, f, q) \in Tables /\ Put(s, f, q).io = s.io /\ Put(s, f, q).mx = s.mx
          /\ Put(s, f, q).fl[f] = q /\ \A g \in Files \ {f} : Put(s, f, q).fl[g] = s.fl[g]
      BY <1>1, <2>1, PutIs
    <3>3. x = Put(s, f, q)
      BY <2>3, <3>1
    <3>4. QED
      BY <3>2, <3>3
  <2>. HIDE DEF x
  <2>5. Given(s, x, f)
    BY <2>1, <2>2, <2>4 DEF Given
  <2>6. QED
    BY <2>1, <2>2, <2>4, <2>5 DEF x
<1>3. CASE f \in RomFiles
  <2>. DEFINE q == [r EXCEPT !.uses = 0, !.data = "none", !.index = 0]
  <2>1. q \in FileRec /\ q.uses = 0 /\ q.data = "none"
    BY <1>1 DEF FileRec
  <2>2. f \notin RamFiles /\ f \notin DevFiles
    BY <1>3, FilesAssumption
  <2>3. FileClose(s, f) = [s EXCEPT !.fl[f] = q]
    <3>1. s.fl[f].uses = 1
      BY <1>1, <1>3 DEF TakenWhileOpen
    <3>2. QED
      BY <1>3, <2>2, <3>1 DEF FileClose, RomfsClose
  <2>. HIDE DEF q
  <2>. DEFINE x == FileClose(s, f)
  <2>4. /\ x \in Tables /\ x.io = s.io /\ x.mx = s.mx
        /\ x.fl[f] = q /\ \A g \in Files \ {f} : x.fl[g] = s.fl[g]
    <3>1. [s EXCEPT !.fl[f] = q] = Put(s, f, q)
      BY <1>1, <2>1, PutIs
    <3>2. /\ Put(s, f, q) \in Tables /\ Put(s, f, q).io = s.io /\ Put(s, f, q).mx = s.mx
          /\ Put(s, f, q).fl[f] = q /\ \A g \in Files \ {f} : Put(s, f, q).fl[g] = s.fl[g]
      BY <1>1, <2>1, PutIs
    <3>3. x = Put(s, f, q)
      BY <2>3, <3>1
    <3>4. QED
      BY <3>2, <3>3
  <2>. HIDE DEF x
  <2>5. Given(s, x, f)
    BY <2>1, <2>2, <2>4 DEF Given
  <2>6. QED
    BY <2>1, <2>2, <2>4, <2>5 DEF x
<1>4. CASE f \in DevFiles
  <2>1. f \notin RamFiles /\ f \notin RomFiles
    BY <1>4, FilesAssumption
  <2>2. s.mx[f].count = 1
    BY <1>1, <1>4 DEF TakenWhileOpen
  <2>. DEFINE free == [owner |-> NULL, count |-> 0]
              x    == [fl |-> s.fl, io |-> s.io, mx |-> [s.mx EXCEPT ![f] = free]]
  <2>3. FileClose(s, f) = [s EXCEPT !.mx[f] = free]
    BY <1>4, <2>1, <2>2 DEF FileClose, DevUnlock
  <2>4. s = [fl |-> s.fl, io |-> s.io, mx |-> s.mx] /\ s.mx \in [DevFiles -> [owner : Callers \cup {NULL}, count : Nat]]
    BY <1>1 DEF Tables
  <2>5. [[fl |-> s.fl, io |-> s.io, mx |-> s.mx] EXCEPT !.mx[f] = free] = x
    OBVIOUS
  <2>6. FileClose(s, f) = x
    BY <2>3, <2>4, <2>5
  <2>7. x \in Tables
    BY <1>1, <2>4 DEF Tables
  <2>8. QED
    BY <1>4, <2>1, <2>4, <2>6, <2>7 DEF Given
<1>5. QED
  BY <1>2, <1>3, <1>4 DEF Files, DevFiles

\* vfs_close of the descriptor of an open file
LEMMA VfsCloseIs ==
    ASSUME NEW s, NEW hd, Sound(s, hd), NEW fd \in 3..(MAX_OPEN - 1), NEW f \in Files, s.io[fd] = f
    PROVE  /\ VfsClose(s, fd) \in Tables /\ VfsClose(s, fd).io = [s.io EXCEPT ![fd] = NULL]
           /\ \A g \in Files \ {f} : /\ VfsClose(s, fd).fl[g] = s.fl[g]
                                     /\ g \in DevFiles => VfsClose(s, fd).mx[g] = s.mx[g]
           /\ Given(s, VfsClose(s, fd), f)
           /\ f \in RamFiles => VfsClose(s, fd).fl[f].size = s.fl[f].size
<1>. DEFINE x == FileClose(s, f)
            y == [fl |-> x.fl, io |-> [x.io EXCEPT ![fd] = NULL], mx |-> x.mx]
            q == [x.fl[f] EXCEPT !.fd = 0, !.mode = {}]
<1>1. f # NULL /\ fd \in Fds /\ IsOpen(s, f)
  BY FilesAssumption, FdAssumption DEF IsOpen, Fds
<1>2. /\ x \in Tables /\ x.io = s.io
      /\ \A g \in Files \ {f} : x.fl[g] = s.fl[g] /\ (g \in DevFiles => x.mx[g] = s.mx[g])
      /\ Given(s, x, f) /\ (f \in RamFiles => x.fl[f].size = s.fl[f].size)
  BY <1>1, FileCloseIs
<1>3. VfsClose(s, fd) = [[x EXCEPT !.io[fd] = NULL, !.fl[f].fd = 0] EXCEPT !.fl[f].mode = {}]
  BY <1>1, <1>2 DEF VfsClose, IobRemove
<1>. HIDE DEF x
<1>4. [[x EXCEPT !.io[fd] = NULL, !.fl[f].fd = 0] EXCEPT !.fl[f].mode = {}] = [[x EXCEPT !.io[fd] = NULL] EXCEPT !.fl[f] = q]
  <2>1. [x EXCEPT !.io[fd] = NULL, !.fl[f].fd = 0] = [[x EXCEPT !.io[fd] = NULL] EXCEPT !.fl[f].fd = 0]
    OBVIOUS
  <2>2. [x EXCEPT !.io[fd] = NULL] = y
    <3>1. x = [fl |-> x.fl, io |-> x.io, mx |-> x.mx]
      BY <1>2 DEF Tables
    <3>2. [[fl |-> x.fl, io |-> x.io, mx |-> x.mx] EXCEPT !.io[fd] = NULL] = y
      OBVIOUS
    <3>3. QED
      BY <3>1, <3>2
  <2>3. [[y EXCEPT !.fl[f].fd = 0] EXCEPT !.fl[f].mode = {}] = [y EXCEPT !.fl[f] = [@ EXCEPT !.fd = 0, !.mode = {}]]
    OBVIOUS
  <2>4. QED
    BY <2>1, <2>2, <2>3
<1>5. [x EXCEPT !.io[fd] = NULL] = y /\ y \in Tables
  <2>1. x = [fl |-> x.fl, io |-> x.io, mx |-> x.mx] /\ x.io \in [Fds -> Files \cup {Std, NULL}]
    BY <1>2 DEF Tables
  <2>2. [[fl |-> x.fl, io |-> x.io, mx |-> x.mx] EXCEPT !.io[fd] = NULL] = y
    OBVIOUS
  <2>3. QED
    BY <1>1, <1>2, <2>1, <2>2 DEF Tables
<1>6. x.fl[f] \in FileRec
  BY <1>2 DEF Tables
<1>7. /\ q \in FileRec /\ q.locked = x.fl[f].locked /\ q.name = x.fl[f].name /\ q.size = x.fl[f].size
      /\ q.uses = x.fl[f].uses /\ q.data = x.fl[f].data /\ q.wr = x.fl[f].wr
  <2>. DEFINE p == x.fl[f]
  <2>1. p \in FileRec /\ 0 \in Fds
    BY <1>6, FdAssumption DEF Fds
  <2>2. q = [[p EXCEPT !.fd = 0] EXCEPT !.mode = {}]
    OBVIOUS
  <2>. HIDE DEF p, q
  <2>3. /\ q \in FileRec /\ q.locked = p.locked /\ q.name = p.name /\ q.size = p.size
        /\ q.uses = p.uses /\ q.data = p.data /\ q.wr = p.wr
    BY <2>1, <2>2 DEF FileRec
  <2>4. QED
    BY <2>3 DEF p
<1>. HIDE DEF q, y
<1>8. VfsClose(s, fd) = Put(y, f, q)
  <2>1. [y EXCEPT !.fl[f] = q] = Put(y, f, q)
    BY <1>5, <1>7, PutIs
  <2>2. QED
    BY <1>3, <1>4, <1>5, <2>1
<1>9. y.fl = x.fl /\ y.io = [s.io EXCEPT ![fd] = NULL] /\ y.mx = x.mx
  BY <1>2 DEF y
<1>10. Put(y, f, q).io = y.io /\ Put(y, f, q).mx = y.mx
  BY DEF Put
<1>11. QED
  BY <1>2, <1>5, <1>7, <1>8, <1>9, <1>10, PutIs DEF Given

\* close: the file is closed, and everything agrees.
LEMMA CloseSound ==
    ASSUME NEW s, NEW hd, Sound(s, hd), NEW t \in Callers, NEW h \in hd[t]
    PROVE  /\ Sound(VfsClose(s, h.fd), Without(hd, t, h))
           /\ h.fd \in 3..(MAX_OPEN - 1) /\ VfsClose(s, h.fd).io = [s.io EXCEPT ![h.fd] = NULL]
           /\ h.f \in Files /\ Given(s, VfsClose(s, h.fd), h.f)
           /\ \A g \in Files \ {h.f} : /\ VfsClose(s, h.fd).fl[g] = s.fl[g]
                                       /\ g \in DevFiles => VfsClose(s, h.fd).mx[g] = s.mx[g]
           /\ Sized(s) => Sized(VfsClose(s, h.fd))
<1>. DEFINE z == VfsClose(s, h.fd)
<1>1. h \in Handles /\ s.io[h.fd] = h.f /\ h.f \in Files /\ h.fd \in 3..(MAX_OPEN - 1)
  BY DEF Sound, Handles
<1>2. /\ z \in Tables /\ z.io = [s.io EXCEPT ![h.fd] = NULL]
      /\ \A g \in Files \ {h.f} : z.fl[g] = s.fl[g] /\ (g \in DevFiles => z.mx[g] = s.mx[g])
      /\ Given(s, z, h.f) /\ (h.f \in RamFiles => z.fl[h.f].size = s.fl[h.f].size)
  <2>. DEFINE fd == h.fd
              f  == h.f
  <2>1. fd \in 3..(MAX_OPEN - 1) /\ f \in Files /\ s.io[fd] = f
    BY <1>1
  <2>. HIDE DEF fd, f, z
  <2>2. /\ VfsClose(s, fd) \in Tables /\ VfsClose(s, fd).io = [s.io EXCEPT ![fd] = NULL]
        /\ \A g \in Files \ {f} : /\ VfsClose(s, fd).fl[g] = s.fl[g]
                                  /\ g \in DevFiles => VfsClose(s, fd).mx[g] = s.mx[g]
        /\ Given(s, VfsClose(s, fd), f)
        /\ f \in RamFiles => VfsClose(s, fd).fl[f].size = s.fl[f].size
    BY <2>1, VfsCloseIs
  <2>3. QED
    BY <2>2 DEF fd, f, z
<1>. HIDE DEF z
<1>3. \A g \in Files \ {h.f} : Alike(s, z, g)
  BY <1>2 DEF Alike
<1>4. Sound(z, Without(hd, t, h))
  BY <1>2, <1>3, RemoveSound DEF Without
<1>5. Sized(s) => Sized(z)
  <2>1. \A g \in RamFiles : z.fl[g].size = s.fl[g].size /\ (z.fl[g].name = NULL <=> s.fl[g].name = NULL)
    BY <1>2 DEF Given, Files
  <2>2. QED
    BY <2>1 DEF Sized
<1>6. QED
  BY <1>1, <1>2, <1>4, <1>5 DEF z

\* iob_add, at the end of vfs_open
LEMMA OpenSound ==
    ASSUME NEW s, NEW hd, Sound(s, hd), NEW f \in Files, ~IsOpen(s, f), FreeFds(s.io) # {}, NEW t \in Callers,
           NEW z \in Tables, z.io = s.io, Got(z, t, f), \A g \in Files \ {f} : Alike(s, z, g)
    PROVE  /\ Sound(IobAdd(z, f), With(hd, t, IobAdd(z, f).fl[f].fd, f))
           /\ IobAdd(z, f).fl[f].fd \in FreeFds(s.io)
           /\ IobAdd(z, f).io = [s.io EXCEPT ![IobAdd(z, f).fl[f].fd] = f]
           /\ \A g \in Files \ {f} : IobAdd(z, f).fl[g] = z.fl[g]
           /\ IobAdd(z, f).fl[f].size = z.fl[f].size /\ IobAdd(z, f).fl[f].name = z.fl[f].name
           /\ IobAdd(z, f).mx = z.mx
<1>. DEFINE w == IobAdd(z, f)
<1>1. PICK fd \in FreeFds(z.io) :
         w = [fl |-> [z.fl EXCEPT ![f] = [@ EXCEPT !.fd = fd]], io |-> [z.io EXCEPT ![fd] = f], mx |-> z.mx]
  BY IobAddIs
<1>2. fd \in Fds /\ z.fl \in [Files \cup {Std} -> FileRec] /\ z.io \in [Fds -> Files \cup {Std, NULL}]
  BY FdAssumption DEF FreeFds, Fds, Tables
<1>. HIDE DEF w
<1>3. /\ w.fl = [z.fl EXCEPT ![f] = [@ EXCEPT !.fd = fd]] /\ w.io = [s.io EXCEPT ![fd] = f] /\ w.mx = z.mx
      /\ w = [fl |-> w.fl, io |-> w.io, mx |-> w.mx]
  BY <1>1
<1>4. z.fl[f] \in FileRec /\ [z.fl[f] EXCEPT !.fd = fd] \in FileRec /\ w.fl[f] = [z.fl[f] EXCEPT !.fd = fd]
  BY <1>2, <1>3 DEF FileRec
<1>5. /\ w.fl[f].fd = fd /\ w.fl[f].locked = z.fl[f].locked /\ w.fl[f].name = z.fl[f].name /\ w.fl[f].size = z.fl[f].size
      /\ w.fl[f].uses = z.fl[f].uses /\ w.fl[f].data = z.fl[f].data
  BY <1>4 DEF FileRec
<1>6. \A g \in Files \ {f} : w.fl[g] = z.fl[g]
  BY <1>2, <1>3
<1>7. w \in Tables
  <2>1. w.fl \in [Files \cup {Std} -> FileRec]
    BY <1>2, <1>3, <1>4
  <2>2. w.io \in [Fds -> Files \cup {Std, NULL}]
    BY <1>2, <1>3
  <2>3. w.mx \in [DevFiles -> [owner : Callers \cup {NULL}, count : Nat]]
    BY <1>3 DEF Tables
  <2>4. QED
    BY <1>3, <2>1, <2>2, <2>3 DEF Tables
<1>8. \A g \in Files \ {f} : Alike(s, w, g)
  BY <1>3, <1>6 DEF Alike
<1>9. Got(w, t, f)
  BY <1>3, <1>5 DEF Got
<1>10. fd \in FreeFds(s.io)
  OBVIOUS
<1>11. Sound(w, With(hd, t, fd, f))
  BY <1>3, <1>5, <1>7, <1>8, <1>9, <1>10, AddSound
<1>12. QED
  BY <1>3, <1>4, <1>5, <1>6, <1>10, <1>11 DEF w

\* dev_lock of a device nobody has locked
LEMMA DevLockIs ==
    ASSUME NEW s \in Tables, NEW f \in DevFiles, NEW t \in Callers, s.mx[f].count = 0
    PROVE  /\ DevLock(s, f, t) \in Tables /\ DevLock(s, f, t).io = s.io /\ DevLock(s, f, t).fl = s.fl
           /\ DevLock(s, f, t).mx[f].owner = t /\ DevLock(s, f, t).mx[f].count = 1
           /\ \A g \in DevFiles \ {f} : DevLock(s, f, t).mx[g] = s.mx[g]
<1>. DEFINE taken == [owner |-> t, count |-> 1]
            x     == [fl |-> s.fl, io |-> s.io, mx |-> [s.mx EXCEPT ![f] = taken]]
<1>1. s = [fl |-> s.fl, io |-> s.io, mx |-> s.mx] /\ s.mx \in [DevFiles -> [owner : Callers \cup {NULL}, count : Nat]]
  BY DEF Tables
<1>2. DevLock(s, f, t) = [s EXCEPT !.mx[f] = taken]
  BY DEF DevLock
<1>3. [[fl |-> s.fl, io |-> s.io, mx |-> s.mx] EXCEPT !.mx[f] = taken] = x
  OBVIOUS
<1>4. DevLock(s, f, t) = x
  BY <1>1, <1>2, <1>3
<1>5. x \in Tables
  BY <1>1 DEF Tables
<1>6. QED
  BY <1>1, <1>4, <1>5

\* A device that is not open is locked and gets a descriptor.
LEMMA DevGot ==
    ASSUME NEW s, NEW hd, Sound(s, hd), NEW f \in DevFiles, ~IsOpen(s, f), NEW t \in Callers
    PROVE  LET z == DevLock(s, f, t) IN
           /\ z \in Tables /\ z.io = s.io /\ z.fl = s.fl /\ Got(z, t, f) /\ \A g \in Files \ {f} : Alike(s, z, g)
<1>1. s \in Tables /\ f \in Files /\ f \notin RamFiles /\ f \notin RomFiles /\ s.mx[f].count = 0
  <2>1. f \in Files /\ f \notin RamFiles /\ f \notin RomFiles
    BY FilesAssumption DEF Files, DevFiles
  <2>2. s \in Tables /\ TakenWhileOpen(s, hd, f)
    BY <2>1 DEF Sound
  <2>3. QED
    BY <2>1, <2>2 DEF TakenWhileOpen
<1>. DEFINE z == DevLock(s, f, t)
<1>2. /\ z \in Tables /\ z.io = s.io /\ z.fl = s.fl /\ z.mx[f].owner = t /\ z.mx[f].count = 1
      /\ \A g \in DevFiles \ {f} : z.mx[g] = s.mx[g]
  BY <1>1, DevLockIs
<1>. HIDE DEF z
<1>3. Got(z, t, f) /\ \A g \in Files \ {f} : Alike(s, z, g)
  BY <1>1, <1>2 DEF Got, Alike
<1>4. QED
  BY <1>2, <1>3 DEF z

\* The descriptor romfs_open has for the flash device is closed again, and
\* the file it opens has its copy.
LEMMA RomGot ==
    ASSUME NEW s, NEW hd, Sound(s, hd), NEW f \in RomFiles, ~IsOpen(s, f), ~IsOpen(s, Flash),
           FreeFds(s.io) # {}, NEW t \in Callers
    PROVE  LET z == RomfsCopy(s, f, t) IN
           /\ z \in Tables /\ z.io = s.io /\ Got(z, t, f) /\ \A g \in Files \ {f} : Alike(s, z, g)
           /\ \A g \in RamFiles : z.fl[g] = s.fl[g]
<1>. DEFINE d    == DevLock(s, Flash, t)
            dev  == IobAdd(d, Flash)
            fd   == dev.fl[Flash].fd
            h    == [fd |-> fd, f |-> Flash]
            H    == With(hd, t, fd, Flash)
            copy == IF dev.io[fd] = Flash /\ "READ" \in dev.fl[Flash].mode THEN "copy" ELSE "zero"
            moved == [dev.fl[Flash] EXCEPT !.index = RomLength]
            read == IF copy = "copy" THEN [dev EXCEPT !.fl[Flash].index = RomLength] ELSE dev
            c    == VfsClose(read, fd)
            q    == [c.fl[f] EXCEPT !.data = copy, !.uses = @ + 1]
            z    == RomfsCopy(s, f, t)
<1>1. /\ Flash \in DevFiles /\ Flash \in Files /\ f \in Files /\ f # Flash /\ f \notin RamFiles /\ f \notin DevFiles
      /\ Flash \notin RamFiles /\ Flash \notin RomFiles /\ RomLength \in Nat /\ Flash # NULL /\ t # NULL
  BY FilesAssumption, SizesAssumption DEF Files, DevFiles
<1>2. z = [c EXCEPT !.fl[f] = q]
  <2>1. z = [c EXCEPT !.fl[f].data = copy, !.fl[f].uses = @ + 1]
    BY Zenon DEF RomfsCopy
  <2>2. [c EXCEPT !.fl[f].data = copy, !.fl[f].uses = @ + 1] = [c EXCEPT !.fl[f] = q]
    <3>. HIDE DEF c, copy
    <3>1. QED
      OBVIOUS
  <2>. HIDE DEF c, copy, q, z
  <2>3. QED
    BY <2>1, <2>2
<1>3. d \in Tables /\ d.io = s.io /\ d.fl = s.fl /\ Got(d, t, Flash) /\ \A g \in Files \ {Flash} : Alike(s, d, g)
  BY <1>1, DevGot
<1>. HIDE DEF d
<1>4. /\ Sound(dev, H) /\ fd \in FreeFds(s.io) /\ dev.io = [s.io EXCEPT ![fd] = Flash]
      /\ dev.mx = d.mx /\ \A g \in Files \ {Flash} : dev.fl[g] = d.fl[g]
  BY <1>1, <1>3, OpenSound
<1>. HIDE DEF dev
<1>5. hd \in [Callers -> SUBSET Handles] /\ s \in Tables /\ s.io \in [Fds -> Files \cup {Std, NULL}]
  BY DEF Sound, Tables
<1>6. h \in H[t] /\ h.fd = fd /\ h.f = Flash /\ fd \in Fds /\ s.io[fd] = NULL
  BY <1>4, <1>5, FdAssumption DEF FreeFds, Fds, With
<1>7. H = [hd EXCEPT ![t] = hd[t] \cup {h}] /\ Without(H, t, h) = hd
  <2>1. h \notin hd[t]
    BY <1>1, <1>6, OpenIsHeld DEF HasIt
  <2>2. QED
    BY <1>5, <2>1 DEF With, Without
<1>. HIDE DEF h, H
<1>8. Sound(read, H) /\ read.io = dev.io /\ read.mx = dev.mx /\ \A g \in Files \ {Flash} : read.fl[g] = dev.fl[g]
  <2>1. dev \in Tables /\ moved \in FileRec /\ moved.fd = dev.fl[Flash].fd
    <3>. DEFINE p == dev.fl[Flash]
    <3>1. dev \in Tables /\ p \in FileRec
      BY <1>1, <1>4 DEF Sound, Tables
    <3>. HIDE DEF p
    <3>2. [p EXCEPT !.index = RomLength] \in FileRec /\ [p EXCEPT !.index = RomLength].fd = p.fd
      BY <1>1, <3>1 DEF FileRec
    <3>3. QED
      BY <3>1, <3>2 DEF p
  <2>2. CASE read = dev
    BY <1>4, <2>2
  <2>3. CASE read # dev
    <3>1. read = [dev EXCEPT !.fl[Flash] = moved]
      BY <2>3
    <3>. HIDE DEF moved, read, copy
    <3>2. read = Put(dev, Flash, moved)
      BY <1>1, <2>1, <3>1, PutIs
    <3>3. /\ read \in Tables /\ read.io = dev.io /\ read.mx = dev.mx /\ read.fl[Flash].fd = dev.fl[Flash].fd
          /\ \A g \in Files \ {Flash} : read.fl[g] = dev.fl[g]
      BY <1>1, <2>1, <3>2, PutIs
    <3>4. \A g \in Files : Alike(dev, read, g)
      BY <1>1, <3>3 DEF Alike
    <3>5. Sound(read, H)
      BY <1>4, <3>3, <3>4, AlikeSound
    <3>6. QED
      BY <3>3, <3>5
  <2>4. QED
    BY <2>2, <2>3
<1>9. copy \in {"copy", "zero"}
  OBVIOUS
<1>. HIDE DEF read, copy
<1>10. /\ Sound(c, hd) /\ c.io = [read.io EXCEPT ![fd] = NULL] /\ Given(read, c, Flash)
       /\ \A g \in Files \ {Flash} : c.fl[g] = read.fl[g] /\ (g \in DevFiles => c.mx[g] = read.mx[g])
  <2>1. /\ Sound(VfsClose(read, h.fd), Without(H, t, h)) /\ VfsClose(read, h.fd).io = [read.io EXCEPT ![h.fd] = NULL]
        /\ Given(read, VfsClose(read, h.fd), h.f)
        /\ \A g \in Files \ {h.f} : /\ VfsClose(read, h.fd).fl[g] = read.fl[g]
                                    /\ g \in DevFiles => VfsClose(read, h.fd).mx[g] = read.mx[g]
    BY <1>6, <1>8, CloseSound
  <2>2. QED
    BY <1>6, <1>7, <2>1
<1>. HIDE DEF c
<1>11. c.io = s.io
  BY <1>4, <1>5, <1>6, <1>8, <1>10
<1>12. \A g \in Files \ {Flash} : c.fl[g] = s.fl[g]
  BY <1>3, <1>4, <1>8, <1>10
<1>13. \A g \in DevFiles : c.mx[g].owner = s.mx[g].owner /\ c.mx[g].count = s.mx[g].count
  <2>1. TakenWhileOpen(s, hd, Flash)
    BY <1>1 DEF Sound
  <2>2. s.mx[Flash].owner = NULL /\ s.mx[Flash].count = 0
    BY <1>1, <2>1 DEF TakenWhileOpen
  <2>3. c.mx[Flash].owner = NULL /\ c.mx[Flash].count = 0
    BY <1>1, <1>10 DEF Given
  <2>4. ASSUME NEW g \in DevFiles \ {Flash}
        PROVE  c.mx[g].owner = s.mx[g].owner /\ c.mx[g].count = s.mx[g].count
    <3>1. g \in Files
      BY DEF DevFiles, Files
    <3>2. d.mx[g].owner = s.mx[g].owner /\ d.mx[g].count = s.mx[g].count
      BY <1>3, <3>1 DEF Alike
    <3>3. QED
      BY <1>4, <1>8, <1>10, <3>1, <3>2
  <2>5. QED
    BY <2>2, <2>3, <2>4
<1>14. /\ c \in Tables /\ c.fl[f] \in FileRec /\ c.fl[f].uses = 0
  <2>1. c \in Tables /\ TakenWhileOpen(c, hd, f) /\ ~IsOpen(c, f)
    BY <1>1, <1>10, <1>11 DEF Sound, IsOpen
  <2>2. QED
    BY <1>1, <2>1 DEF TakenWhileOpen, Tables
<1>15. q \in FileRec /\ q.uses = 1 /\ q.data = copy
  <2>. DEFINE p == c.fl[f]
  <2>1. p \in FileRec /\ p.uses = 0
    BY <1>14
  <2>. HIDE DEF p
  <2>2. [p EXCEPT !.data = copy, !.uses = @ + 1] = [[p EXCEPT !.data = copy] EXCEPT !.uses = 1]
    BY <2>1 DEF FileRec
  <2>3. [p EXCEPT !.data = copy] \in FileRec
    BY <1>9, <2>1 DEF FileRec
  <2>4. [[p EXCEPT !.data = copy] EXCEPT !.uses = 1] \in FileRec
    BY <2>3 DEF FileRec
  <2>5. QED
    BY <1>9, <2>1, <2>2, <2>3, <2>4 DEF p, FileRec
<1>. HIDE DEF q
<1>16. z = Put(c, f, q)
  BY <1>1, <1>2, <1>14, <1>15, PutIs
<1>17. /\ z \in Tables /\ z.io = c.io /\ z.mx = c.mx /\ z.fl[f] = q
       /\ \A g \in Files \ {f} : z.fl[g] = c.fl[g]
  BY <1>1, <1>14, <1>15, <1>16, PutIs
<1>. HIDE DEF z
<1>18. Got(z, t, f)
  BY <1>1, <1>9, <1>15, <1>17 DEF Got
<1>19. ASSUME NEW g \in Files \ {f}
       PROVE  Alike(s, z, g)
  <2>1. z.fl[g] = c.fl[g] /\ (g \in DevFiles => z.mx[g].owner = s.mx[g].owner /\ z.mx[g].count = s.mx[g].count)
    BY <1>13, <1>17
  <2>2. CASE g = Flash
    BY <1>1, <2>1, <2>2 DEF Alike
  <2>3. CASE g # Flash
    BY <1>12, <2>1, <2>3 DEF Alike
  <2>4. QED
    BY <2>2, <2>3
<1>20. \A g \in RamFiles : z.fl[g] = s.fl[g]
  BY <1>1, <1>12, <1>17 DEF Files
<1>21. QED
  BY <1>11, <1>17, <1>18, <1>19, <1>20 DEF z

----------------------------------------------------------------------------
(* Descriptors and callers that wait, counted *)

LEMMA FreeCounted ==
    ASSUME NEW io \in [Fds -> Files \cup {Std, NULL}], NEW fd \in 3..(MAX_OPEN - 1)
    PROVE  /\ IsFiniteSet(FreeFds(io)) /\ Cardinality(FreeFds(io)) \in Nat
           /\ \A f \in Files : fd \in FreeFds(io)
                 => Cardinality(FreeFds([io EXCEPT ![fd] = f])) = Cardinality(FreeFds(io)) - 1
           /\ Cardinality(FreeFds([io EXCEPT ![fd] = NULL])) >= Cardinality(FreeFds(io))
<1>. DEFINE F == FreeFds(io)
<1>1. MAX_OPEN \in Nat /\ fd \in Fds /\ F \subseteq 3..(MAX_OPEN - 1) /\ NULL \notin Files
  BY FdAssumption, FilesAssumption DEF FreeFds, Fds
<1>2. IsFiniteSet(F) /\ Cardinality(F) \in Nat
  <2>. HIDE DEF F
  <2>1. IsFiniteSet(3..(MAX_OPEN - 1))
    BY <1>1, FS_Interval
  <2>2. IsFiniteSet(F)
    BY <1>1, <2>1, FS_Subset
  <2>3. QED
    BY <2>2, FS_CardinalityType
<1>3. ASSUME NEW f \in Files, fd \in F
      PROVE  Cardinality(FreeFds([io EXCEPT ![fd] = f])) = Cardinality(F) - 1
  <2>1. FreeFds([io EXCEPT ![fd] = f]) = F \ {fd}
    BY <1>1 DEF FreeFds, Fds
  <2>2. QED
    BY <1>2, <1>3, <2>1, FS_RemoveElement
<1>4. Cardinality(FreeFds([io EXCEPT ![fd] = NULL])) >= Cardinality(F)
  <2>1. FreeFds([io EXCEPT ![fd] = NULL]) = F \cup {fd}
    BY <1>1 DEF FreeFds, Fds
  <2>. HIDE DEF F
  <2>2. Cardinality(F \cup {fd}) = IF fd \in F THEN Cardinality(F) ELSE Cardinality(F) + 1
    BY <1>2, FS_AddElement
  <2>3. Cardinality(F \cup {fd}) >= Cardinality(F)
    BY <1>2, <2>2
  <2>4. QED
    BY <2>1, <2>3
<1>5. QED
  BY <1>2, <1>3, <1>4

LEMMA WaitingCounted ==
    ASSUME NEW cl, NEW t \in Callers, NEW c, DOMAIN cl = Callers, cl = [u \in Callers |-> cl[u]]
    PROVE  /\ Cardinality(Waiting(cl)) \in Nat
           /\ Cardinality(Waiting([cl EXCEPT ![t] = c])) <= Cardinality(Waiting(cl)) + 1
           /\ Cardinality(Waiting([cl EXCEPT ![t] = NULL])) = Cardinality(Waiting(cl)) - (IF cl[t] = NULL THEN 0 ELSE 1)
           /\ Cardinality(Waiting([cl EXCEPT ![t] = c])) \in Nat
<1>. DEFINE W == Waiting(cl)
            V == Waiting([cl EXCEPT ![t] = c])
<1>1. IsFiniteSet(Callers) /\ W \subseteq Callers /\ V \subseteq W \cup {t} /\ (t \in W <=> cl[t] # NULL)
  BY FilesAssumption DEF Waiting
<1>2. Waiting([cl EXCEPT ![t] = NULL]) = W \ {t}
  BY DEF Waiting
<1>. HIDE DEF W, V
<1>3. IsFiniteSet(W) /\ Cardinality(W) \in Nat
  BY <1>1, FS_Subset, FS_CardinalityType
<1>4. IsFiniteSet(W \cup {t}) /\ Cardinality(W \cup {t}) \in Nat /\ Cardinality(W \cup {t}) <= Cardinality(W) + 1
  <2>1. /\ IsFiniteSet(W \cup {t})
        /\ Cardinality(W \cup {t}) = IF t \in W THEN Cardinality(W) ELSE Cardinality(W) + 1
    BY <1>3, FS_AddElement
  <2>2. QED
    BY <1>3, <2>1
<1>5. Cardinality(V) \in Nat /\ Cardinality(V) <= Cardinality(W \cup {t})
  BY <1>1, <1>4, FS_Subset, FS_CardinalityType
<1>6. Cardinality(W \ {t}) = Cardinality(W) - (IF t \in W THEN 1 ELSE 0)
  BY <1>3, FS_RemoveElement
<1>7. Cardinality(W \ {t}) = Cardinality(W) - (IF cl[t] = NULL THEN 0 ELSE 1) /\ Cardinality(V) <= Cardinality(W) + 1
  BY <1>1, <1>3, <1>4, <1>5, <1>6
<1>8. QED
  BY <1>2, <1>3, <1>5, <1>7 DEF W, V

----------------------------------------------------------------------------
(* What the calls leave standing *)

\* vfs_open of a file that is not open comes to its end.
LEMMA OpenStands ==
    ASSUME NEW s, NEW hd, NEW cl, Standing(s, hd, cl), NEW t \in Callers, NEW f \in Files \ {Flash}, ~IsOpen(s, f),
           cl[t] = NULL => Cardinality(FreeFds(s.io)) > 1 + Cardinality(Waiting(cl)),
           NEW z \in Tables, z.io = s.io, Got(z, t, f), \A g \in Files \ {f} : Alike(s, z, g), Sized(z)
    PROVE  /\ Standing(IobAdd(z, f), With(hd, t, IobAdd(z, f).fl[f].fd, f), [cl EXCEPT ![t] = NULL])
           /\ \A g \in Files \ {f} : IobAdd(z, f).fl[g] = z.fl[g]
<1>. DEFINE w  == IobAdd(z, f)
            fd == w.fl[f].fd
            H  == With(hd, t, fd, f)
            C  == [cl EXCEPT ![t] = NULL]
<1>1. /\ Sound(s, hd) /\ ~IsOpen(s, Flash) /\ s.io \in [Fds -> Files \cup {Std, NULL}]
      /\ cl \in [Callers -> {NULL} \cup [f : Devices, dev : Devices]] /\ hd \in [Callers -> SUBSET Handles]
      /\ Cardinality(FreeFds(s.io)) > Cardinality(Waiting(cl))
      /\ \A u \in Callers : cl[u] # NULL => cl[u].f = cl[u].dev /\ ~HasIt(hd, u, cl[u].f)
  BY DEF Standing, Sound, Tables
<1>2. /\ Cardinality(Waiting(cl)) \in Nat
      /\ Cardinality(Waiting(C)) = Cardinality(Waiting(cl)) - (IF cl[t] = NULL THEN 0 ELSE 1)
  BY <1>1, WaitingCounted
<1>3. IsFiniteSet(FreeFds(s.io)) /\ Cardinality(FreeFds(s.io)) \in Nat /\ FreeFds(s.io) # {}
  <2>1. 3 \in 3..(MAX_OPEN - 1)
    BY FdAssumption
  <2>2. IsFiniteSet(FreeFds(s.io)) /\ Cardinality(FreeFds(s.io)) \in Nat
    BY <1>1, <2>1, FreeCounted
  <2>3. QED
    BY <1>1, <1>2, <2>2, FS_EmptySet
<1>4. /\ Sound(w, H) /\ fd \in FreeFds(s.io) /\ w.io = [s.io EXCEPT ![fd] = f]
      /\ \A g \in Files \ {f} : w.fl[g] = z.fl[g]
      /\ w.fl[f].size = z.fl[f].size /\ w.fl[f].name = z.fl[f].name
  <2>1. f \in Files /\ Sound(s, hd) /\ FreeFds(s.io) # {}
    BY <1>1, <1>3
  <2>. HIDE DEF w, fd, H
  <2>2. /\ Sound(IobAdd(z, f), With(hd, t, IobAdd(z, f).fl[f].fd, f))
        /\ IobAdd(z, f).fl[f].fd \in FreeFds(s.io)
        /\ IobAdd(z, f).io = [s.io EXCEPT ![IobAdd(z, f).fl[f].fd] = f]
        /\ \A g \in Files \ {f} : IobAdd(z, f).fl[g] = z.fl[g]
        /\ IobAdd(z, f).fl[f].size = z.fl[f].size /\ IobAdd(z, f).fl[f].name = z.fl[f].name
    BY <2>1, OpenSound, SMTT(30)
  <2>3. QED
    BY <2>2 DEF w, fd, H
<1>. HIDE DEF w
<1>5. fd \in 3..(MAX_OPEN - 1) /\ fd \in Fds
  BY <1>4, FdAssumption DEF FreeFds, Fds
<1>6. Cardinality(FreeFds(w.io)) = Cardinality(FreeFds(s.io)) - 1
  <2>. HIDE DEF fd
  <2>1. Cardinality(FreeFds([s.io EXCEPT ![fd] = f])) = Cardinality(FreeFds(s.io)) - 1
    BY <1>1, <1>4, <1>5, FreeCounted
  <2>2. QED
    BY <1>4, <2>1
<1>7. Cardinality(FreeFds(w.io)) > Cardinality(Waiting(C))
  BY <1>1, <1>2, <1>3, <1>6
<1>8. ~IsOpen(w, Flash) /\ Sized(w)
  <2>1. ~IsOpen(w, Flash)
    BY <1>1, <1>4, <1>5 DEF IsOpen
  <2>2. Sized(w)
    BY <1>4 DEF Sized, Files
  <2>3. QED
    BY <2>1, <2>2
<1>9. C \in [Callers -> {NULL} \cup [f : Devices, dev : Devices]] /\ \A u \in Callers : C[u] = IF u = t THEN NULL ELSE cl[u]
  BY <1>1
<1>. HIDE DEF H, C, fd
<1>10. ASSUME NEW u \in Callers, C[u] # NULL
       PROVE  C[u].f = C[u].dev /\ ~HasIt(H, u, C[u].f)
  <2>1. u # t /\ C[u] = cl[u] /\ cl[u].f = cl[u].dev /\ ~HasIt(hd, u, cl[u].f) /\ cl[u].f \in Files
    BY <1>1, <1>9, <1>10 DEF Files
  <2>2. HasIt(H, u, cl[u].f) <=> HasIt(hd, u, cl[u].f)
    BY <1>1, <2>1 DEF H, With, HasIt
  <2>3. QED
    BY <2>1, <2>2
<1>11. Standing(w, H, C)
  BY <1>4, <1>7, <1>8, <1>9, <1>10 DEF Standing
<1>12. QED
  BY <1>4, <1>11 DEF w, H, C, fd

\* Places, modes and contents of files change; nobody opens or closes one.
LEMMA MoveStands ==
    ASSUME NEW s, NEW hd, NEW cl, Standing(s, hd, cl),
           NEW z \in Tables, z.io = s.io, \A g \in Files : Alike(s, z, g), Sized(z)
    PROVE  Standing(z, hd, cl)
<1>1. Sound(z, hd)
  BY AlikeSound DEF Standing
<1>2. ~IsOpen(z, Flash)
  BY DEF Standing, IsOpen
<1>3. QED
  BY <1>1, <1>2 DEF Standing

\* vfs_open waits for the mutex of a device.
LEMMA WaitStands ==
    ASSUME NEW s, NEW hd, NEW cl, Standing(s, hd, cl), NEW t \in Callers, NEW f \in Devices, ~HasIt(hd, t, f),
           Cardinality(FreeFds(s.io)) > 1 + Cardinality(Waiting(cl)),
           NEW z \in Tables, z.io = s.io, \A g \in Files : Alike(s, z, g), Sized(z)
    PROVE  Standing(z, hd, [cl EXCEPT ![t] = [f |-> f, dev |-> f]])
<1>. DEFINE c == [f |-> f, dev |-> f]
            C == [cl EXCEPT ![t] = c]
<1>1. Standing(z, hd, cl)
  BY MoveStands
<1>2. /\ cl \in [Callers -> {NULL} \cup [f : Devices, dev : Devices]]
      /\ \A u \in Callers : cl[u] # NULL => cl[u].f = cl[u].dev /\ ~HasIt(hd, u, cl[u].f)
  BY <1>1 DEF Standing
<1>3. c \in [f : Devices, dev : Devices] /\ c.f = f /\ c.dev = f
  OBVIOUS
<1>. HIDE DEF c
<1>4. C \in [Callers -> {NULL} \cup [f : Devices, dev : Devices]] /\ \A u \in Callers : C[u] = IF u = t THEN c ELSE cl[u]
  BY <1>2, <1>3
<1>5. Cardinality(Waiting(C)) <= Cardinality(Waiting(cl)) + 1 /\ Cardinality(Waiting(cl)) \in Nat /\ Cardinality(Waiting(C)) \in Nat
  BY <1>2, WaitingCounted
<1>6. Cardinality(FreeFds(s.io)) \in Nat
  <2>1. s.io \in [Fds -> Files \cup {Std, NULL}] /\ 3 \in 3..(MAX_OPEN - 1)
    BY FdAssumption DEF Standing, Sound, Tables
  <2>2. QED
    BY <2>1, FreeCounted
<1>. HIDE DEF C
<1>7. Cardinality(FreeFds(z.io)) > Cardinality(Waiting(C))
  BY <1>5, <1>6
<1>8. \A u \in Callers : C[u] # NULL => C[u].f = C[u].dev /\ ~HasIt(hd, u, C[u].f)
  BY <1>2, <1>3, <1>4
<1>9. Standing(z, hd, C)
  BY <1>1, <1>4, <1>7, <1>8 DEF Standing
<1>10. QED
  BY <1>9 DEF C, c

\* close
LEMMA CloseStands ==
    ASSUME NEW s, NEW hd, NEW cl, Standing(s, hd, cl), NEW t \in Callers, NEW h \in hd[t], cl[t] = NULL
    PROVE  Standing(VfsClose(s, h.fd), Without(hd, t, h), cl)
<1>. DEFINE z == VfsClose(s, h.fd)
            H == Without(hd, t, h)
<1>1. /\ Sound(s, hd) /\ ~IsOpen(s, Flash) /\ s.io \in [Fds -> Files \cup {Std, NULL}] /\ Sized(s)
      /\ cl \in [Callers -> {NULL} \cup [f : Devices, dev : Devices]] /\ hd \in [Callers -> SUBSET Handles]
      /\ Cardinality(FreeFds(s.io)) > Cardinality(Waiting(cl))
      /\ \A u \in Callers : cl[u] # NULL => cl[u].f = cl[u].dev /\ ~HasIt(hd, u, cl[u].f)
  BY DEF Standing, Sound, Tables
<1>2. /\ Sound(z, H) /\ h.fd \in 3..(MAX_OPEN - 1) /\ z.io = [s.io EXCEPT ![h.fd] = NULL]
      /\ Sized(z)
  BY <1>1, CloseSound, SMTT(30)
<1>. HIDE DEF z
<1>3. Cardinality(FreeFds(z.io)) >= Cardinality(FreeFds(s.io)) /\ Cardinality(FreeFds(s.io)) \in Nat
  <2>. DEFINE fd == h.fd
  <2>1. fd \in 3..(MAX_OPEN - 1) /\ z.io = [s.io EXCEPT ![fd] = NULL]
    BY <1>2
  <2>. HIDE DEF fd
  <2>2. Cardinality(FreeFds([s.io EXCEPT ![fd] = NULL])) >= Cardinality(FreeFds(s.io)) /\ Cardinality(FreeFds(s.io)) \in Nat
    BY <1>1, <2>1, FreeCounted
  <2>3. QED
    BY <2>1, <2>2
<1>4. Cardinality(FreeFds(z.io)) > Cardinality(Waiting(cl))
  <2>1. Cardinality(Waiting(cl)) \in Nat /\ Cardinality(FreeFds(z.io)) \in Nat
    <3>1. z.io \in [Fds -> Files \cup {Std, NULL}]
      BY <1>2 DEF Sound, Tables
    <3>2. QED
      BY <1>1, <1>2, <3>1, FreeCounted, WaitingCounted
  <2>2. QED
    BY <1>1, <1>3, <2>1
<1>5. ~IsOpen(z, Flash) /\ Sized(z)
  <2>1. h.fd \in Fds /\ Flash # NULL
    BY <1>2, FdAssumption, FilesAssumption DEF Fds, Files
  <2>2. ~IsOpen(z, Flash)
    BY <1>1, <1>2, <2>1 DEF IsOpen
  <2>3. QED
    BY <1>2, <2>2
<1>6. \A u \in Callers : cl[u] # NULL => ~HasIt(H, u, cl[u].f)
  BY <1>1 DEF HasIt, Without
<1>7. QED
  BY <1>1, <1>2, <1>4, <1>5, <1>6 DEF Standing, z

----------------------------------------------------------------------------
(* The calls *)

\* The step makes the tables those of x.
LEMMA BecomeStands ==
    ASSUME NEW x, Become(x), Standing(x, held', call')
    PROVE  Standing(Here, held, call)'
<1>1. x = [fl |-> x.fl, io |-> x.io, mx |-> x.mx]
  BY DEF Standing, Sound, Tables
<1>2. Here' = x
  BY <1>1 DEF Here, Become
<1>3. QED
  BY <1>2

LEMMA OpenedStands ==
    ASSUME Standing(Here, held, call), NEW s, Standing(s, held, call), NEW t \in Callers, NEW f \in Files \ {Flash},
           ~IsOpen(s, f), call[t] = NULL => Cardinality(FreeFds(s.io)) > 1 + Cardinality(Waiting(call)),
           NEW z \in Tables, z.io = s.io, Got(z, t, f), \A g \in Files \ {f} : Alike(s, z, g), Sized(z),
           Opened(t, z, f)
    PROVE  Standing(Here, held, call)' /\ \A g \in Files \ {f} : file'[g] = z.fl[g]
<1>1. /\ Standing(IobAdd(z, f), With(held, t, IobAdd(z, f).fl[f].fd, f), [call EXCEPT ![t] = NULL])
      /\ \A g \in Files \ {f} : IobAdd(z, f).fl[g] = z.fl[g]
  BY OpenStands
<1>2. /\ Become(IobAdd(z, f)) /\ held' = With(held, t, IobAdd(z, f).fl[f].fd, f)
      /\ call' = [call EXCEPT ![t] = NULL]
  BY DEF Opened, With
<1>3. QED
  BY <1>1, <1>2, BecomeStands DEF Become

\* dirent_find_file returns a file with the name.
LEMMA FoundFile ==
    ASSUME entries \in [Dirs -> Seq(Files)], NEW dir \in Dirs, NEW name, DirentFindFile(dir, name) # NULL
    PROVE  DirentFindFile(dir, name) \in Files /\ file[DirentFindFile(dir, name)].name = name
<1>. DEFINE I == {i \in 1..Len(entries[dir]) : file[entries[dir][i]].name = name}
            k == Min(I)
<1>1. entries[dir] \in Seq(Files)
  OBVIOUS
<1>2. I \subseteq Nat /\ I # {} /\ DirentFindFile(dir, name) = IF k = 0 THEN NULL ELSE entries[dir][k]
  BY DEF DirentFindFile, SelectInSeq
<1>3. k \in I
  BY <1>2, LeastExists DEF Min
<1>4. k \in 1..Len(entries[dir]) /\ file[entries[dir][k]].name = name /\ k # 0
  BY <1>3
<1>. HIDE DEF k, I
<1>5. QED
  BY <1>1, <1>2, <1>4

AnyMode == SUBSET {"READ", "WRITE", "APPEND"}

\* The mode of a file is written: nothing else changes.
LEMMA ModeStands ==
    ASSUME NEW s, NEW hd, NEW cl, Standing(s, hd, cl), NEW f \in Files, NEW mode \in AnyMode
    PROVE  LET z == [s EXCEPT !.fl[f].mode = mode] IN
           /\ z \in Tables /\ z.io = s.io /\ z.mx = s.mx /\ (\A g \in Files : Alike(s, z, g)) /\ Sized(z) /\ Standing(z, hd, cl)
           /\ \A g \in Files : /\ z.fl[g].locked = s.fl[g].locked /\ z.fl[g].name = s.fl[g].name
                               /\ z.fl[g].size = s.fl[g].size /\ z.fl[g].data = s.fl[g].data
                               /\ z.fl[g].wr = s.fl[g].wr
<1>. DEFINE r == s.fl[f]
            q == [r EXCEPT !.mode = mode]
            z == [s EXCEPT !.fl[f].mode = mode]
<1>1. s \in Tables /\ r \in FileRec /\ Sized(s)
  BY DEF Standing, Sound, Tables
<1>2. z = [s EXCEPT !.fl[f] = q]
  OBVIOUS
<1>. HIDE DEF r
<1>3. /\ q \in FileRec /\ q.locked = r.locked /\ q.name = r.name /\ q.size = r.size /\ q.data = r.data
      /\ q.uses = r.uses /\ q.fd = r.fd /\ q.wr = r.wr
  BY <1>1 DEF FileRec, AnyMode
<1>. HIDE DEF q, z
<1>4. /\ z \in Tables /\ z.io = s.io /\ z.mx = s.mx /\ z.fl[f] = q
      /\ \A g \in Files \ {f} : z.fl[g] = s.fl[g]
  <2>1. s \in Tables /\ q \in FileRec
    BY <1>1, <1>3
  <2>2. z = Put(s, f, q)
    BY <1>2, <2>1, PutIs
  <2>3. QED
    BY <2>1, <2>2, PutIs
<1>5. \A g \in Files : /\ z.fl[g].locked = s.fl[g].locked /\ z.fl[g].name = s.fl[g].name /\ z.fl[g].fd = s.fl[g].fd
                       /\ z.fl[g].size = s.fl[g].size /\ z.fl[g].data = s.fl[g].data /\ z.fl[g].uses = s.fl[g].uses
                       /\ z.fl[g].wr = s.fl[g].wr
  BY <1>3, <1>4 DEF r
<1>6. \A g \in Files : Alike(s, z, g)
  BY <1>4, <1>5 DEF Alike
<1>7. Sized(z)
  BY <1>1, <1>5 DEF Sized, Files
<1>8. Standing(z, hd, cl)
  BY <1>4, <1>6, <1>7, MoveStands
<1>9. QED
  BY <1>4, <1>5, <1>6, <1>7, <1>8 DEF z

\* ramfs_open locks the file.
LEMMA RamfsOpenIs ==
    ASSUME NEW r \in FileRec, NEW mode \in AnyMode
    PROVE  /\ RamfsOpen(r, mode) \in FileRec /\ RamfsOpen(r, mode).locked
           /\ RamfsOpen(r, mode).name = r.name /\ RamfsOpen(r, mode).size = r.size
<1>1. CASE "APPEND" \in mode
  <2>1. RamfsOpen(r, mode) = [[[r EXCEPT !.locked = TRUE] EXCEPT !.wr = r.index] EXCEPT !.mode = mode]
    BY <1>1 DEF RamfsOpen
  <2>2. QED
    BY <2>1 DEF FileRec, AnyMode
<1>2. CASE "APPEND" \notin mode
  <2>. DEFINE a == [r EXCEPT !.locked = TRUE]
              b == [a EXCEPT !.index = 0]
  <2>1. RamfsOpen(r, mode) = [b EXCEPT !.mode = mode]
    BY <1>2 DEF RamfsOpen
  <2>2. a \in FileRec /\ a.locked /\ a.name = r.name /\ a.size = r.size
    BY DEF FileRec
  <2>. HIDE DEF a
  <2>3. b \in FileRec /\ b.locked /\ b.name = r.name /\ b.size = r.size
    BY <2>2 DEF FileRec
  <2>. HIDE DEF b
  <2>4. QED
    BY <2>1, <2>3 DEF FileRec, AnyMode
<1>3. QED
  BY <1>1, <1>2

\* A ramfs file that is not open is locked with a name.
LEMMA RamGot ==
    ASSUME NEW s, NEW hd, NEW cl, Standing(s, hd, cl), NEW f \in RamFiles, NEW r \in FileRec, NEW t,
           r.locked, r.name # NULL, r.size >= RAMFS_BUFFER_SIZE
    PROVE  LET z == [s EXCEPT !.fl[f] = r] IN
           /\ z \in Tables /\ z.io = s.io /\ Got(z, t, f) /\ (\A g \in Files \ {f} : Alike(s, z, g)) /\ Sized(z)
<1>. DEFINE z == [s EXCEPT !.fl[f] = r]
<1>1. s \in Tables /\ f \in Files /\ f \notin RomFiles /\ f \notin DevFiles /\ Sized(s)
  BY FilesAssumption DEF Standing, Sound, Files
<1>. HIDE DEF z
<1>2. /\ z \in Tables /\ z.io = s.io /\ z.mx = s.mx /\ z.fl[f] = r
      /\ \A g \in Files \ {f} : z.fl[g] = s.fl[g]
  <2>1. s \in Tables /\ f \in Files
    BY <1>1
  <2>2. z = Put(s, f, r)
    BY <2>1, PutIs DEF z
  <2>3. QED
    BY <2>1, <2>2, PutIs
<1>3. Got(z, t, f)
  BY <1>1, <1>2 DEF Got
<1>4. \A g \in Files \ {f} : Alike(s, z, g)
  BY <1>2 DEF Alike
<1>5. Sized(z)
  BY <1>1, <1>2 DEF Sized, Files
<1>6. QED
  BY <1>2, <1>3, <1>4, <1>5 DEF z

\* What prudent callers see to before they open a file
LEMMA CarefulMeans ==
    ASSUME Standing(Here, held, call), Prudent, NEW t \in Callers, NEW f \in Files, Careful(t, f)
    PROVE  /\ f # Flash /\ ~HasIt(held, t, f) /\ (f \in RamFiles => ~file[f].locked)
           /\ Cardinality(FreeFds(Here.io)) > 1 + Cardinality(Waiting(call))
<1>1. /\ f \notin {h.f : h \in held[t]} /\ f # Flash /\ (f \in RamFiles => ~file[f].locked)
      /\ Cardinality(FreeFds(iob)) > 1 + Cardinality({u \in Callers : call[u] # NULL})
  BY DEF Prudent, Careful
<1>2. QED
  BY <1>1 DEF Waiting, HasIt, Here

\* vfs_open of a file that was found
LEMMA OpenFoundStands ==
    ASSUME Standing(Here, held, call), Prudent, NEW t \in Callers, NEW f \in Files, NEW mode \in AnyMode,
           call[t] = NULL, file[f].name # NULL, Careful(t, f), OpenFound(t, f, mode)
    PROVE  Standing(Here, held, call)' /\ \A g \in RamFiles \ {f} : file'[g].wr = file[g].wr
<1>. DEFINE s == [Here EXCEPT !.fl[f].mode = mode]
            n == [s EXCEPT !.fl[Flash].mode = {"READ"}]
<1>1. /\ f \in Files \ {Flash} /\ ~HasIt(held, t, f) /\ (f \in RamFiles => ~file[f].locked)
      /\ Cardinality(FreeFds(Here.io)) > 1 + Cardinality(Waiting(call))
  BY CarefulMeans
<1>2. Flash \in Files /\ Flash \in DevFiles /\ {"READ"} \in AnyMode
  BY DEF Files, DevFiles, AnyMode
<1>3. Here.fl = file /\ Here.io = iob /\ Here.mx = mutex
  BY DEF Here
<1>4. TakenWhileOpen(Here, held, f) /\ TakenWhileOpen(Here, held, Flash) /\ ~IsOpen(Here, Flash) /\ Sized(Here) /\ Here \in Tables
  BY <1>2 DEF Standing, Sound
<1>5. /\ s \in Tables /\ s.io = Here.io /\ s.mx = Here.mx /\ (\A g \in Files : Alike(Here, s, g)) /\ Sized(s)
      /\ Standing(s, held, call) /\ \A g \in Files : s.fl[g].wr = file[g].wr
  BY <1>3, ModeStands
<1>5a. RamFiles \subseteq Files
  BY DEF Files
<1>6. OpenFound(t, f, mode) <=>
        \/ /\ f \in RamFiles /\ ~file[f].locked
           /\ Opened(t, [s EXCEPT !.fl[f] = RamfsOpen(file[f], mode)], f)
           /\ UNCHANGED hung
        \/ /\ f \in RamFiles /\ file[f].locked
           /\ hung' = TRUE
           /\ UNCHANGED openVars
        \/ /\ f \in RomFiles /\ file[f].data # "none"
           /\ Become(s)
           /\ UNCHANGED <<call, held, hung>>
        \/ /\ f \in RomFiles /\ file[f].data = "none"
           /\ \/ Available(mutex, Flash, t) /\ Opened(t, RomfsCopy(n, f, t), f)
              \/ ~Available(mutex, Flash, t) /\ Waits(t, n, f, Flash)
           /\ UNCHANGED hung
        \/ /\ f \in DevFiles
           /\ \/ Available(mutex, f, t) /\ Opened(t, DevLock(s, f, t), f)
              \/ ~Available(mutex, f, t) /\ Waits(t, s, f, f)
           /\ UNCHANGED hung
  BY DEF OpenFound
<1>. HIDE DEF s
<1>7. CASE f \in RamFiles /\ Opened(t, [s EXCEPT !.fl[f] = RamfsOpen(file[f], mode)], f)
  <2>. DEFINE r == RamfsOpen(file[f], mode)
              z == [s EXCEPT !.fl[f] = r]
  <2>1. file[f] \in FileRec /\ file[f].size >= RAMFS_BUFFER_SIZE
    BY <1>3, <1>4, <1>7 DEF Tables, Sized
  <2>2. r \in FileRec /\ r.locked /\ r.name # NULL /\ r.size >= RAMFS_BUFFER_SIZE
    BY <2>1, RamfsOpenIs
  <2>. HIDE DEF r
  <2>3. /\ z \in Tables /\ z.io = s.io /\ Got(z, t, f) /\ (\A g \in Files \ {f} : Alike(s, z, g)) /\ Sized(z)
    BY <1>5, <1>7, <2>2, RamGot
  <2>4. ~IsOpen(s, f)
    BY <1>1, <1>3, <1>4, <1>5, <1>7 DEF TakenWhileOpen, IsOpen
  <2>5. Cardinality(FreeFds(s.io)) > 1 + Cardinality(Waiting(call)) /\ Opened(t, z, f)
    BY <1>1, <1>5, <1>7 DEF r
  <2>. HIDE DEF z
  <2>6. Standing(Here, held, call)' /\ \A g \in Files \ {f} : file'[g] = z.fl[g]
    BY <1>1, <1>5, <2>3, <2>4, <2>5, OpenedStands
  <2>7. \A g \in RamFiles \ {f} : z.fl[g] = s.fl[g]
    BY <1>5, <1>5a, <1>7, <2>2, PutIs DEF z
  <2>8. QED
    BY <1>5, <1>5a, <2>6, <2>7
<1>8. CASE f \in RomFiles /\ Become(s) /\ UNCHANGED <<call, held>>
  BY <1>5, <1>5a, <1>8, BecomeStands DEF Become
<1>9. CASE f \in RomFiles /\ file[f].data = "none" /\ Opened(t, RomfsCopy(n, f, t), f)
  <2>1. /\ n \in Tables /\ n.io = s.io /\ n.mx = s.mx /\ Sized(n) /\ Standing(n, held, call)
        /\ \A g \in Files : n.fl[g].wr = s.fl[g].wr
    <3>1. ASSUME NEW m \in AnyMode
          PROVE  LET z == [s EXCEPT !.fl[Flash].mode = m] IN
                 /\ z \in Tables /\ z.io = s.io /\ z.mx = s.mx /\ Sized(z) /\ Standing(z, held, call)
                 /\ \A g \in Files : z.fl[g].wr = s.fl[g].wr
      BY <1>2, <1>5, ModeStands
    <3>2. QED
      BY <1>2, <3>1
  <2>. HIDE DEF n
  <2>. DEFINE z == RomfsCopy(n, f, t)
  <2>2. ~IsOpen(n, f) /\ ~IsOpen(n, Flash) /\ Sound(n, held)
    <3>1. ~IsOpen(Here, f)
      BY <1>3, <1>4, <1>9 DEF TakenWhileOpen
    <3>2. QED
      BY <1>4, <1>5, <2>1, <3>1 DEF IsOpen, Standing
  <2>3. FreeFds(n.io) # {} /\ Cardinality(FreeFds(n.io)) > 1 + Cardinality(Waiting(call))
    <3>1. Cardinality(FreeFds(n.io)) > 1 + Cardinality(Waiting(call))
      BY <1>1, <1>5, <2>1
    <3>2. Cardinality(Waiting(call)) \in Nat
      BY WaitingCounted DEF Standing
    <3>3. IsFiniteSet(FreeFds(n.io))
      <4>1. n.io \in [Fds -> Files \cup {Std, NULL}] /\ 3 \in 3..(MAX_OPEN - 1)
        BY <2>1, FdAssumption DEF Tables
      <4>2. QED
        BY <4>1, FreeCounted
    <3>4. QED
      BY <3>1, <3>2, <3>3, FS_EmptySet
  <2>4. /\ z \in Tables /\ z.io = n.io /\ Got(z, t, f) /\ (\A g \in Files \ {f} : Alike(n, z, g))
        /\ \A g \in RamFiles : z.fl[g] = n.fl[g]
    BY <1>9, <2>2, <2>3, RomGot
  <2>5. Sized(z)
    <3>1. f \notin RamFiles /\ RamFiles \subseteq Files
      BY <1>9, FilesAssumption DEF Files
    <3>2. \A g \in RamFiles : z.fl[g].name = NULL <=> n.fl[g].name = NULL
      BY <2>4, <3>1 DEF Alike
    <3>3. QED
      BY <2>1, <2>4, <3>2 DEF Sized
  <2>. HIDE DEF z
  <2>6. Standing(Here, held, call)' /\ \A g \in Files \ {f} : file'[g] = z.fl[g]
    BY <1>1, <1>9, <2>1, <2>2, <2>3, <2>4, <2>5, OpenedStands DEF z
  <2>7. QED
    BY <1>5, <1>5a, <2>1, <2>4, <2>6
<1>10. ~(f \in RomFiles /\ ~Available(mutex, Flash, t))
  BY <1>2, <1>3, <1>4 DEF TakenWhileOpen, Available
<1>11. CASE f \in DevFiles /\ Available(mutex, f, t) /\ Opened(t, DevLock(s, f, t), f)
  <2>. DEFINE z == DevLock(s, f, t)
  <2>1. ~IsOpen(Here, f)
    <3>1. mutex[f].owner = NULL
      BY <1>1, <1>3, <1>4, <1>11 DEF TakenWhileOpen, Available
    <3>2. QED
      BY <1>3, <1>4, <1>11, <3>1 DEF TakenWhileOpen
  <2>2. ~IsOpen(s, f) /\ Sound(s, held)
    BY <1>5, <2>1 DEF IsOpen, Standing
  <2>3. z \in Tables /\ z.io = s.io /\ z.fl = s.fl /\ Got(z, t, f) /\ \A g \in Files \ {f} : Alike(s, z, g)
    BY <1>11, <2>2, DevGot
  <2>4. Sized(z)
    BY <1>5, <2>3 DEF Sized
  <2>5. Cardinality(FreeFds(s.io)) > 1 + Cardinality(Waiting(call)) /\ Opened(t, z, f)
    BY <1>1, <1>5, <1>11
  <2>. HIDE DEF z
  <2>6. Standing(Here, held, call)' /\ \A g \in Files \ {f} : file'[g] = z.fl[g]
    BY <1>1, <1>5, <2>2, <2>3, <2>4, <2>5, OpenedStands
  <2>7. QED
    BY <1>5, <1>5a, <2>3, <2>6
<1>12. CASE f \in DevFiles /\ Waits(t, s, f, f)
  <2>1. Become(s) /\ held' = held /\ call' = [call EXCEPT ![t] = [f |-> f, dev |-> f]] /\ f \in Devices
    BY <1>1, <1>12 DEF Waits, DevFiles
  <2>2. Standing(s, held, [call EXCEPT ![t] = [f |-> f, dev |-> f]])
    BY <1>1, <1>5, <2>1, WaitStands
  <2>3. QED
    BY <1>5, <1>5a, <2>1, <2>2, BecomeStands DEF Become
<1>13. QED
  BY <1>1, <1>6, <1>7, <1>8, <1>9, <1>10, <1>11, <1>12

\* vfs_open creates a ramfs file.
LEMMA CreateStands ==
    ASSUME Standing(Here, held, call), Prudent, NEW t \in Callers, NEW f \in RamFiles, NEW mode \in AnyMode, NEW name \in AnyName,
           call[t] = NULL, name # NULL, file[f].name = NULL, Careful(t, f),
           Opened(t, [Here EXCEPT !.fl[f] = RamfsOpen(RamfsCreate(name), mode)], f)
    PROVE  Standing(Here, held, call)' /\ \A g \in RamFiles \ {f} : file'[g].wr = file[g].wr
<1>. DEFINE c == RamfsCreate(name)
            r == RamfsOpen(c, mode)
            z == [Here EXCEPT !.fl[f] = r]
<1>1. /\ f \in Files \ {Flash} /\ RamFiles \subseteq Files
      /\ Cardinality(FreeFds(Here.io)) > 1 + Cardinality(Waiting(call))
  BY CarefulMeans DEF Files
<1>2. c \in FileRec /\ c.name = name /\ c.size = RAMFS_BUFFER_SIZE /\ RAMFS_BUFFER_SIZE \in Nat
  <2>. DEFINE a == [Fresh EXCEPT !.name = name]
  <2>1. Fresh \in FileRec
    BY FdAssumption DEF Fresh, FileRec, AnyName, Fds
  <2>2. a \in FileRec /\ a.name = name
    BY <2>1 DEF FileRec
  <2>3. c = [a EXCEPT !.size = RAMFS_BUFFER_SIZE]
    BY DEF RamfsCreate
  <2>. HIDE DEF a
  <2>4. QED
    BY <2>2, <2>3, SizesAssumption DEF FileRec
<1>. HIDE DEF c
<1>3. r \in FileRec /\ r.locked /\ r.name # NULL /\ r.size >= RAMFS_BUFFER_SIZE
  BY <1>2, RamfsOpenIs
<1>. HIDE DEF r
<1>4. /\ z \in Tables /\ z.io = Here.io /\ Got(z, t, f) /\ (\A g \in Files \ {f} : Alike(Here, z, g)) /\ Sized(z)
  BY <1>3, RamGot
<1>5. ~IsOpen(Here, f) /\ Here.fl = file /\ Here \in Tables
  BY <1>1 DEF Standing, Sound, TakenWhileOpen, Here
<1>6. Opened(t, z, f)
  BY DEF r, c
<1>7. \A g \in RamFiles \ {f} : z.fl[g] = file[g]
  BY <1>1, <1>3, <1>5, PutIs
<1>. HIDE DEF z
<1>8. Standing(Here, held, call)' /\ \A g \in Files \ {f} : file'[g] = z.fl[g]
  BY <1>1, <1>4, <1>5, <1>6, OpenedStands
<1>9. QED
  BY <1>1, <1>7, <1>8

\* The mutex of a device is there for a caller that waited in vfs_open.
LEMMA ResumeStands ==
    ASSUME Standing(Here, held, call), NEW t \in Callers, OpenResume(t)
    PROVE  Standing(Here, held, call)' /\ \A g \in RamFiles : file'[g].wr = file[g].wr
<1>. DEFINE f == call[t].f
            z == DevLock(Here, f, t)
<1>1. /\ call[t] # NULL /\ Available(mutex, call[t].dev, t) /\ f \in Devices /\ f = call[t].dev /\ ~HasIt(held, t, f)
  BY DEF OpenResume, Standing
<1>2. f \in DevFiles /\ f \in Files \ {Flash} /\ f \notin RomFiles /\ f \notin RamFiles /\ RamFiles \subseteq Files
  BY <1>1, FilesAssumption DEF DevFiles, Files
<1>3. Opened(t, z, f)
  BY <1>2 DEF OpenResume
<1>. HIDE DEF f
<1>4. Here.fl = file /\ Here.mx = mutex /\ Sound(Here, held) /\ Sized(Here)
  BY DEF Here, Standing
<1>5. ~IsOpen(Here, f)
  <2>1. TakenWhileOpen(Here, held, f)
    BY <1>2, <1>4 DEF Sound
  <2>2. mutex[f].owner = NULL
    BY <1>1, <1>2, <1>4, <2>1 DEF TakenWhileOpen, Available
  <2>3. QED
    BY <1>2, <1>4, <2>1, <2>2 DEF TakenWhileOpen
<1>6. z \in Tables /\ z.io = Here.io /\ z.fl = Here.fl /\ Got(z, t, f) /\ \A g \in Files \ {f} : Alike(Here, z, g)
  BY <1>2, <1>4, <1>5, DevGot
<1>. HIDE DEF z
<1>7. Sized(z)
  BY <1>4, <1>6 DEF Sized
<1>8. Standing(Here, held, call)' /\ \A g \in Files \ {f} : file'[g] = z.fl[g]
  BY <1>1, <1>2, <1>3, <1>5, <1>6, <1>7, OpenedStands
<1>9. QED
  BY <1>2, <1>4, <1>6, <1>8

\* close
LEMMA CloseCallStands ==
    ASSUME Standing(Here, held, call), NEW t \in Callers, NEW h \in held[t], Close(t, h)
    PROVE  Standing(Here, held, call)' /\ \A g \in RamFiles : file'[g].wr <= file[g].wr
<1>. DEFINE z == VfsClose(Here, h.fd)
<1>1. Become(z) /\ held' = Without(held, t, h) /\ call' = call /\ call[t] = NULL
  BY DEF Close, Without
<1>2. Standing(z, Without(held, t, h), call)
  BY <1>1, CloseStands
<1>3. Standing(Here, held, call)'
  BY <1>1, <1>2, BecomeStands
<1>4. Sound(Here, held) /\ Here.fl = file /\ RamFiles \subseteq Files /\ \A g \in Files : file[g].wr \in Nat
  BY DEF Standing, Sound, Tables, Here, Files, FileRec
<1>5. h.f \in Files /\ Given(Here, z, h.f) /\ \A g \in Files \ {h.f} : z.fl[g] = Here.fl[g]
  <2>. DEFINE fd == h.fd
              f  == h.f
  <2>1. fd \in 3..(MAX_OPEN - 1) /\ f \in Files /\ Here.io[fd] = f
    BY <1>4 DEF Sound, Handles
  <2>. HIDE DEF fd, f, z
  <2>2. /\ VfsClose(Here, fd) \in Tables /\ VfsClose(Here, fd).io = [Here.io EXCEPT ![fd] = NULL]
        /\ \A g \in Files \ {f} : /\ VfsClose(Here, fd).fl[g] = Here.fl[g]
                                  /\ g \in DevFiles => VfsClose(Here, fd).mx[g] = Here.mx[g]
        /\ Given(Here, VfsClose(Here, fd), f)
        /\ f \in RamFiles => VfsClose(Here, fd).fl[f].size = Here.fl[f].size
    BY <1>4, <2>1, VfsCloseIs
  <2>3. QED
    BY <2>1, <2>2 DEF fd, f, z
<1>. HIDE DEF z
<1>6. \A g \in RamFiles : file'[g].wr <= file[g].wr
  BY <1>1, <1>4, <1>5 DEF Become, Given
<1>7. QED
  BY <1>3, <1>6

----------------------------------------------------------------------------
(* Reading and writing *)

\* q is the struct file r whose caller moved on in it.
Moved(r, q) ==
    /\ q \in FileRec
    /\ q.name = r.name /\ q.fd = r.fd /\ q.locked = r.locked /\ q.data = r.data /\ q.uses = r.uses
    /\ r.size >= RAMFS_BUFFER_SIZE => q.size >= RAMFS_BUFFER_SIZE /\ (q.wr > r.wr => q.wr <= q.size)

LEMMA UptoIs ==
    ASSUME NEW at \in Nat, NEW n \in Nat, NEW length \in Nat
    PROVE  Upto(at, n, length) \in Nat /\ Upto(at, n, length) >= at
           /\ (Upto(at, n, length) = at \/ Upto(at, n, length) <= length)
<1>1. Min({at + n, length}) \in {at + n, length}
  <2>1. {at + n, length} \subseteq Nat /\ {at + n, length} # {}
    OBVIOUS
  <2>2. \E x \in {at + n, length} : \A y \in {at + n, length} : x <= y
    BY <2>1, LeastExists
  <2>3. QED
    BY <2>2 DEF Min
<1>2. \A y \in {at + n, length} : Min({at + n, length}) <= y
  <2>1. {at + n, length} \subseteq Nat /\ {at + n, length} # {}
    OBVIOUS
  <2>2. \E x \in {at + n, length} : \A y \in {at + n, length} : x <= y
    BY <2>1, LeastExists
  <2>3. QED
    BY <2>2 DEF Min
<1>. DEFINE m == Min({at + n, length})
<1>3. m <= length /\ (m = at + n \/ m = length)
  BY <1>1, <1>2
<1>4. Upto(at, n, length) = IF at >= length THEN at ELSE m
  BY DEF Upto
<1>. HIDE DEF m
<1>5. QED
  BY <1>3, <1>4

\* ramfs_expand makes room for n bytes where the next one is written.
LEMMA ExpandMoves ==
    ASSUME NEW r \in FileRec, NEW n \in Nat
    PROVE  LET q == RamfsExpand(r, n) IN
           /\ q \in FileRec /\ q.name = r.name /\ q.fd = r.fd /\ q.locked = r.locked /\ q.data = r.data /\ q.uses = r.uses
           /\ q.wr = r.wr /\ q.index = r.index
           /\ r.size >= RAMFS_BUFFER_SIZE => q.size >= RAMFS_BUFFER_SIZE /\ q.size >= r.wr + n
<1>1. RAMFS_BUFFER_SIZE \in Nat /\ r.wr \in Nat /\ r.size \in Nat
  BY SizesAssumption DEF FileRec
<1>2. CASE r.wr + n >= RAMFS_BUFFER_SIZE
  <2>1. RamfsExpand(r, n) = [r EXCEPT !.size = r.wr + n + 1] /\ r.wr + n + 1 \in Nat
    BY <1>1, <1>2 DEF RamfsExpand
  <2>2. QED
    BY <1>1, <1>2, <2>1 DEF FileRec
<1>3. CASE ~(r.wr + n >= RAMFS_BUFFER_SIZE)
  BY <1>1, <1>3 DEF RamfsExpand
<1>4. QED
  BY <1>2, <1>3

LEMMA WriteMoves ==
    ASSUME NEW r \in FileRec, NEW n \in Nat
    PROVE  Moved(r, RamfsWrite(r, n)) /\ Moved(r, RamfsPutc(r)) /\ Moved(r, DeviceMoves(r, n))
<1>1. RAMFS_BUFFER_SIZE \in Nat /\ r.wr \in Nat /\ r.size \in Nat /\ r.index \in Nat
  BY SizesAssumption DEF FileRec
<1>2. Moved(r, RamfsWrite(r, n))
  <2>. DEFINE x == RamfsExpand(r, n)
              w == Upto(r.wr, n, RAMFS_BUFFER_SIZE)
              y == [x EXCEPT !.wr = w]
  <2>1. /\ x \in FileRec /\ x.name = r.name /\ x.fd = r.fd /\ x.locked = r.locked /\ x.data = r.data /\ x.uses = r.uses
        /\ x.wr = r.wr /\ x.index = r.index
        /\ r.size >= RAMFS_BUFFER_SIZE => x.size >= RAMFS_BUFFER_SIZE /\ x.size >= r.wr + n
    BY ExpandMoves
  <2>2. w \in Nat /\ w >= r.wr /\ (w = r.wr \/ w <= RAMFS_BUFFER_SIZE)
    BY <1>1, UptoIs
  <2>3. RamfsWrite(r, n) = [y EXCEPT !.index = r.index + n]
    BY <2>1 DEF RamfsWrite, FileRec
  <2>. HIDE DEF w, x
  <2>4. /\ y \in FileRec /\ y.name = x.name /\ y.fd = x.fd /\ y.locked = x.locked /\ y.data = x.data /\ y.uses = x.uses
        /\ y.wr = w /\ y.size = x.size /\ x.size \in Nat
    BY <2>1, <2>2 DEF FileRec
  <2>. HIDE DEF y
  <2>5. QED
    BY <1>1, <2>1, <2>2, <2>3, <2>4 DEF Moved, FileRec
<1>3. Moved(r, RamfsPutc(r))
  <2>. DEFINE x == RamfsExpand(r, 1)
              y == [x EXCEPT !.wr = r.wr + 1]
  <2>1. /\ x \in FileRec /\ x.name = r.name /\ x.fd = r.fd /\ x.locked = r.locked /\ x.data = r.data /\ x.uses = r.uses
        /\ x.wr = r.wr /\ x.index = r.index
        /\ r.size >= RAMFS_BUFFER_SIZE => x.size >= RAMFS_BUFFER_SIZE /\ x.size >= r.wr + 1
    BY ExpandMoves
  <2>2. RamfsPutc(r) = [y EXCEPT !.index = r.index + 1]
    BY <2>1 DEF RamfsPutc, FileRec
  <2>. HIDE DEF x
  <2>3. /\ y \in FileRec /\ y.name = x.name /\ y.fd = x.fd /\ y.locked = x.locked /\ y.data = x.data /\ y.uses = x.uses
        /\ y.wr = r.wr + 1 /\ y.size = x.size /\ x.size \in Nat
    BY <1>1, <2>1 DEF FileRec
  <2>. HIDE DEF y
  <2>4. QED
    BY <1>1, <2>1, <2>2, <2>3 DEF Moved, FileRec
<1>4. Moved(r, DeviceMoves(r, n))
  BY <1>1 DEF Moved, DeviceMoves, FileRec
<1>5. QED
  BY <1>2, <1>3, <1>4

LEMMA ReadMoves ==
    ASSUME NEW r \in FileRec, NEW n \in Nat
    PROVE  Moved(r, RomfsRead(r, n)) /\ \A q \in RamfsReads(r, n) : Moved(r, q)
<1>1. RAMFS_BUFFER_SIZE \in Nat /\ RomLength \in Nat /\ r.rd \in Nat /\ r.size \in Nat /\ r.index \in Nat /\ r.wr \in Nat
  BY SizesAssumption DEF FileRec
<1>2. ASSUME NEW m \in Nat
      PROVE  Moved(r, [r EXCEPT !.index = m]) /\ Moved(r, [r EXCEPT !.rd = m])
  BY <1>1 DEF Moved, FileRec
<1>3. Upto(r.index, n, RomLength) \in Nat /\ Upto(r.rd, n, RAMFS_BUFFER_SIZE) \in Nat
  BY <1>1, UptoIs
<1>4. Moved(r, RomfsRead(r, n))
  BY <1>2, <1>3 DEF RomfsRead
<1>5. ASSUME NEW q \in RamfsReads(r, n)
      PROVE  Moved(r, q)
  <2>1. q = [r EXCEPT !.rd = Upto(r.rd, n, RAMFS_BUFFER_SIZE)] \/ q = [r EXCEPT !.rd = r.rd + 1]
    BY DEF RamfsReads
  <2>2. r.rd + 1 \in Nat
    BY <1>1
  <2>3. Moved(r, [r EXCEPT !.rd = Upto(r.rd, n, RAMFS_BUFFER_SIZE)]) /\ Moved(r, [r EXCEPT !.rd = r.rd + 1])
    BY <1>2, <1>3, <2>2
  <2>4. QED
    BY <2>1, <2>3
<1>6. QED
  BY <1>4, <1>5

LEMMA SeekMoves ==
    ASSUME NEW r \in FileRec, NEW to \in Nat
    PROVE  Moved(r, [r EXCEPT !.index = to]) /\ Moved(r, [r EXCEPT !.index = to, !.rd = 0, !.wr = 0])
<1>1. r.wr \in Nat /\ r.size \in Nat
  BY DEF FileRec
<1>2. Moved(r, [r EXCEPT !.index = to])
  BY <1>1 DEF Moved, FileRec
<1>3. Moved(r, [r EXCEPT !.index = to, !.rd = 0, !.wr = 0])
  <2>. DEFINE a == [r EXCEPT !.index = to]
              b == [a EXCEPT !.rd = 0]
  <2>1. [r EXCEPT !.index = to, !.rd = 0, !.wr = 0] = [b EXCEPT !.wr = 0]
    OBVIOUS
  <2>2. /\ a \in FileRec /\ a.name = r.name /\ a.fd = r.fd /\ a.locked = r.locked /\ a.data = r.data /\ a.uses = r.uses
        /\ a.size = r.size
    BY DEF FileRec
  <2>. HIDE DEF a
  <2>3. /\ b \in FileRec /\ b.name = r.name /\ b.fd = r.fd /\ b.locked = r.locked /\ b.data = r.data /\ b.uses = r.uses
        /\ b.size = r.size
    BY <2>2 DEF FileRec
  <2>. HIDE DEF b
  <2>4. QED
    BY <1>1, <2>1, <2>3 DEF Moved, FileRec
<1>4. QED
  BY <1>2, <1>3

\* A step that moves on in one file
LEMMA MoveCallStands ==
    ASSUME Standing(Here, held, call), NEW f \in Files, NEW q, Moved(file[f], q),
           file' = [file EXCEPT ![f] = q], UNCHANGED <<iob, mutex, call, held>>, f \in RamFiles => file[f].name # NULL
    PROVE  /\ Standing(Here, held, call)'
           /\ \A g \in RamFiles : file'[g].wr > file[g].wr => file'[g].wr <= file'[g].size
<1>. DEFINE z == Put(Here, f, q)
<1>1. /\ Here \in Tables /\ Here.fl = file /\ Here.io = iob /\ Here.mx = mutex /\ Sized(Here) /\ RamFiles \subseteq Files
      /\ file \in [Files \cup {Std} -> FileRec]
  BY DEF Standing, Sound, Here, Files, Tables
<1>2. q \in FileRec
  BY DEF Moved
<1>3. z \in Tables /\ z.fl = file' /\ z.io = Here.io /\ z.mx = Here.mx
  <2>1. z \in Tables
    BY <1>1, <1>2, PutIs
  <2>2. QED
    BY <1>1, <2>1 DEF Put
<1>4. \A g \in Files : file'[g] = IF g = f THEN q ELSE file[g]
  BY <1>1
<1>. HIDE DEF z
<1>5. \A g \in Files : Alike(Here, z, g)
  BY <1>1, <1>3, <1>4 DEF Alike, Moved
<1>6. Sized(z)
  BY <1>1, <1>3, <1>4 DEF Sized, Moved
<1>7. Standing(z, held, call)
  BY <1>3, <1>5, <1>6, MoveStands
<1>8. Become(z)
  BY <1>1, <1>3 DEF Become
<1>9. Standing(Here, held, call)'
  BY <1>7, <1>8, BecomeStands
<1>10. \A g \in RamFiles : file'[g].wr > file[g].wr => file'[g].wr <= file'[g].size
  <2>1. \A g \in Files : file[g].wr \in Nat
    BY <1>1 DEF FileRec
  <2>2. f \in RamFiles => file[f].size >= RAMFS_BUFFER_SIZE
    BY <1>1 DEF Sized
  <2>3. QED
    BY <1>1, <1>4, <2>1, <2>2 DEF Moved
<1>11. QED
  BY <1>9, <1>10

----------------------------------------------------------------------------
(* The invariant, from the start and over every step *)

\* What WritesInside says of a step
Inside == \A f \in RamFiles : (file[f].locked /\ file'[f].wr > file[f].wr) => file'[f].wr <= file'[f].size

LEMMA HereTyped ==
    ASSUME Standing(Here, held, call)
    PROVE  /\ file \in [Files \cup {Std} -> FileRec] /\ \A f \in Files : file[f] \in FileRec /\ file[f].wr \in Nat
           /\ RamFiles \subseteq Files
           /\ \A t \in Callers : \A h \in held[t] : h.f \in Files /\ (h.f \in RamFiles => file[h.f].name # NULL)
<1>1. /\ Sound(Here, held) /\ Here.fl = file /\ RamFiles \subseteq Files
      /\ file \in [Files \cup {Std} -> FileRec]
  BY DEF Standing, Sound, Tables, Here, Files
<1>2. \A f \in Files : file[f] \in FileRec /\ file[f].wr \in Nat
  BY <1>1 DEF FileRec
<1>3. ASSUME NEW t \in Callers, NEW h \in held[t]
      PROVE  h.f \in Files /\ (h.f \in RamFiles => file[h.f].name # NULL)
  <2>1. h.f \in Files
    BY <1>1 DEF Sound, Handles
  <2>2. HasIt(held, t, h.f)
    BY DEF HasIt
  <2>3. IsOpen(Here, h.f)
    BY <1>1, <2>1, <2>2, OpenIsHeld
  <2>4. TakenWhileOpen(Here, held, h.f)
    BY <1>1, <2>1 DEF Sound
  <2>5. QED
    BY <1>1, <2>1, <2>3, <2>4 DEF TakenWhileOpen
<1>4. QED
  BY <1>1, <1>2, <1>3

LEMMA NamesTyped ==
    ASSUME NEW name \in FileNames \cup RomFiles \cup DevFiles
    PROVE  name \in AnyName /\ name # NULL /\ Modes(name) \subseteq AnyMode
<1>1. name \in AnyName /\ name # NULL
  BY FilesAssumption DEF AnyName, Files, DevFiles
<1>2. Modes(name) \subseteq AnyMode
  BY DEF Modes, AnyMode
<1>3. QED
  BY <1>1, <1>2

\* Directories are read, made or searched: no file changes.
LEMMA TreeStands ==
    ASSUME VInv, UNCHANGED openVars, entries' \in [Dirs -> Seq(Files)]
    PROVE  VInv' /\ Inside
<1>1. Here' = Here /\ held' = held /\ call' = call /\ file' = file
  BY DEF Here, openVars
<1>2. Standing(Here, held, call)'
  BY <1>1 DEF VInv
<1>3. Inside
  BY <1>1, HereTyped DEF Inside, VInv
<1>4. QED
  BY <1>2, <1>3 DEF VInv

LEMMA OpenCallStands ==
    ASSUME VInv, Prudent, NEW t \in Callers, NEW path, NEW name \in FileNames \cup RomFiles \cup DevFiles,
           NEW mode \in Modes(name), VfsOpen(t, path, name, mode)
    PROVE  VInv' /\ Inside
<1>. DEFINE dir == DirentFind(path)
<1>1. Standing(Here, held, call) /\ entries \in [Dirs -> Seq(Files)] /\ mode \in AnyMode /\ name \in AnyName /\ name # NULL
  BY NamesTyped DEF VInv
<1>2. CASE Hang
  BY <1>1, <1>2, TreeStands DEF Hang, treeVars
<1>3. CASE /\ dir \in Dirs /\ DirentFindFile(dir, name) # NULL
           /\ Careful(t, DirentFindFile(dir, name))
           /\ OpenFound(t, DirentFindFile(dir, name), mode)
           /\ UNCHANGED <<treeVars, listing, rdEntry, work>>
  <2>. DEFINE f == DirentFindFile(dir, name)
  <2>1. f \in Files /\ file[f].name = name
    BY <1>1, <1>3, FoundFile
  <2>2. call[t] = NULL /\ Careful(t, f) /\ OpenFound(t, f, mode) /\ entries' = entries
    BY <1>3 DEF VfsOpen, treeVars
  <2>. HIDE DEF f
  <2>3. Standing(Here, held, call)' /\ \A g \in RamFiles \ {f} : file'[g].wr = file[g].wr
    BY <1>1, <2>1, <2>2, OpenFoundStands
  <2>4. f \in RamFiles => ~file[f].locked
    BY <1>1, <2>1, <2>2, CarefulMeans
  <2>5. Inside
    BY <1>1, <2>3, <2>4, HereTyped DEF Inside
  <2>6. QED
    BY <1>1, <2>2, <2>3, <2>5 DEF VInv
<1>4. ASSUME dir \in Dirs, NEW f \in RamFiles, file[f].name = NULL, Careful(t, f),
             entries' = [entries EXCEPT ![dir] = <<f>> \o @],
             Opened(t, [Here EXCEPT !.fl[f] = RamfsOpen(RamfsCreate(name), mode)], f)
      PROVE  VInv' /\ Inside
  <2>1. call[t] = NULL /\ f \in Files
    BY DEF VfsOpen, Files
  <2>2. Standing(Here, held, call)' /\ \A g \in RamFiles \ {f} : file'[g].wr = file[g].wr
    BY <1>1, <1>4, <2>1, CreateStands
  <2>3. ~file[f].locked
    BY <1>1, <1>4, <2>1, CarefulMeans
  <2>4. Inside
    BY <1>1, <2>2, <2>3, HereTyped DEF Inside
  <2>5. entries' \in [Dirs -> Seq(Files)]
    <3>1. <<f>> \o entries[dir] \in Seq(Files)
      BY <1>1, <1>4, <2>1
    <3>2. QED
      BY <1>1, <1>4, <3>1
  <2>6. QED
    BY <2>2, <2>4, <2>5 DEF VInv
<1>5. QED
  BY <1>2, <1>3, <1>4 DEF VfsOpen

LEMMA IoCallStands ==
    ASSUME VInv, NEW t \in Callers, NEW h \in held[t],
           \/ \E n \in Sizes : Read(t, h, n)
           \/ \E n \in Sizes : Write(t, h, n)
           \/ \E to \in 0..MaxIndex : Lseek(t, h, to)
    PROVE  VInv' /\ Inside
<1>1. /\ Standing(Here, held, call) /\ file[h.f] \in FileRec /\ Sizes \subseteq Nat /\ 0..MaxIndex \subseteq Nat
      /\ h.f \in Files /\ (h.f \in RamFiles => file[h.f].name # NULL) /\ entries \in [Dirs -> Seq(Files)]
  BY HereTyped, SizesAssumption DEF VInv
<1>2. UNCHANGED <<iob, mutex, call, held, entries>>
  BY DEF Read, Write, Lseek, treeVars
<1>3. \E q : Moved(file[h.f], q) /\ file' = [file EXCEPT ![h.f] = q]
  <2>. DEFINE f == h.f
              r == file[f]
  <2>1. ASSUME NEW n \in Sizes, Read(t, h, n)
        PROVE  \E q : Moved(r, q) /\ file' = [file EXCEPT ![f] = q]
    <3>1. n \in Nat /\ r \in FileRec
      BY <1>1
    <3>2. PICK q \in CASE f \in RamFiles -> RamfsReads(r, n)
                       [] f \in RomFiles -> {RomfsRead(r, n)}
                       [] OTHER -> {DeviceMoves(r, n)} : file' = [file EXCEPT ![f] = q]
      BY <2>1 DEF Read
    <3>. HIDE DEF r
    <3>3. f \notin RamFiles \/ f \notin RomFiles
      BY FilesAssumption
    <3>4. q \in RamfsReads(r, n) \/ q = RomfsRead(r, n) \/ q = DeviceMoves(r, n)
      BY <3>3
    <3>5. Moved(r, q)
      BY <3>1, <3>4, ReadMoves, WriteMoves
    <3>6. QED
      BY <3>2, <3>5
  <2>2. ASSUME NEW n \in Sizes, Write(t, h, n)
        PROVE  \E q : Moved(r, q) /\ file' = [file EXCEPT ![f] = q]
    <3>1. n \in Nat /\ r \in FileRec
      BY <1>1
    <3>2. Moved(r, RamfsWrite(r, n)) /\ Moved(r, RamfsPutc(r)) /\ Moved(r, DeviceMoves(r, n))
      BY <3>1, WriteMoves
    <3>3. \/ file' = [file EXCEPT ![f] = RamfsWrite(r, n)]
          \/ file' = [file EXCEPT ![f] = RamfsPutc(r)]
          \/ file' = [file EXCEPT ![f] = DeviceMoves(r, n)]
      BY <2>2 DEF Write
    <3>. HIDE DEF r
    <3>4. QED
      BY <3>2, <3>3
  <2>3. ASSUME NEW to \in 0..MaxIndex, Lseek(t, h, to)
        PROVE  \E q : Moved(r, q) /\ file' = [file EXCEPT ![f] = q]
    <3>1. to \in Nat /\ r \in FileRec
      BY <1>1
    <3>2. Moved(r, [r EXCEPT !.index = to]) /\ Moved(r, [r EXCEPT !.index = to, !.rd = 0, !.wr = 0])
      BY <3>1, SeekMoves
    <3>3. \/ file' = [file EXCEPT ![f] = [r EXCEPT !.index = to]]
          \/ file' = [file EXCEPT ![f] = [r EXCEPT !.index = to, !.rd = 0, !.wr = 0]]
      BY <2>3 DEF Lseek
    <3>. HIDE DEF r
    <3>4. QED
      BY <3>2, <3>3
  <2>4. QED
    BY <2>1, <2>2, <2>3
<1>4. /\ Standing(Here, held, call)'
      /\ \A g \in RamFiles : file'[g].wr > file[g].wr => file'[g].wr <= file'[g].size
  <2>. DEFINE f == h.f
  <2>1. PICK q : Moved(file[f], q) /\ file' = [file EXCEPT ![f] = q]
    BY <1>3
  <2>2. f \in Files /\ (f \in RamFiles => file[f].name # NULL)
    BY <1>1
  <2>. HIDE DEF f
  <2>3. QED
    BY <1>1, <1>2, <2>1, <2>2, MoveCallStands
<1>5. QED
  BY <1>1, <1>2, <1>4 DEF VInv, Inside

LEMMA StepStands ==
    ASSUME VInv, Prudent, [VfsNext]_vfsVars
    PROVE  VInv' /\ Inside
<1>1. Standing(Here, held, call) /\ entries \in [Dirs -> Seq(Files)]
  BY DEF VInv
<1>2. CASE UNCHANGED <<openVars, entries>>
  BY <1>1, <1>2, TreeStands
<1>3. CASE UNCHANGED vfsVars
  BY <1>2, <1>3 DEF vfsVars, treeVars
<1>4. ASSUME NEW t \in Callers, VfsCall(t)
      PROVE  VInv' /\ Inside
  <2>1. ASSUME NEW path, NEW name \in Names, NEW mode \in Modes(name), VfsOpen(t, path, name, mode)
        PROVE  VInv' /\ Inside
    <3>1. name \in FileNames \cup RomFiles \cup DevFiles
      BY DEF Names
    <3>2. QED
      BY <2>1, <3>1, OpenCallStands
  <2>2. CASE OpenResume(t)
    <3>1. Standing(Here, held, call)' /\ \A g \in RamFiles : file'[g].wr = file[g].wr
      BY <1>1, <2>2, ResumeStands
    <3>2. entries' = entries
      BY <2>2 DEF OpenResume, treeVars
    <3>3. Inside
      BY <1>1, <3>1, HereTyped DEF Inside
    <3>4. QED
      BY <1>1, <3>1, <3>2, <3>3 DEF VInv
  <2>3. ASSUME NEW h \in held[t], Close(t, h)
        PROVE  VInv' /\ Inside
    <3>1. Standing(Here, held, call)' /\ \A g \in RamFiles : file'[g].wr <= file[g].wr
      BY <1>1, <2>3, CloseCallStands
    <3>2. entries' = entries
      BY <2>3 DEF Close, treeVars
    <3>3. Inside
      <4>1. Standing(Here, held, call)' => \A g \in Files : file'[g].wr \in Nat
        BY DEF Standing, Sound, Tables, Here, FileRec
      <4>2. QED
        BY <1>1, <3>1, <4>1, HereTyped DEF Inside
    <3>4. QED
      BY <1>1, <3>1, <3>2, <3>3 DEF VInv
  <2>4. ASSUME NEW h \in held[t],
               \/ \E n \in Sizes : Read(t, h, n)
               \/ \E n \in Sizes : Write(t, h, n)
               \/ \E to \in 0..MaxIndex : Lseek(t, h, to)
        PROVE  VInv' /\ Inside
    BY <2>4, IoCallStands
  <2>5. CASE (\E path \in Known : Opendir(t, path)) \/ Readdir(t) \/ Closedir(t)
    <3>1. UNCHANGED <<openVars, entries>>
      BY <2>5 DEF Opendir, Readdir, Closedir, Hang, treeVars
    <3>2. QED
      BY <1>2, <3>1
  <2>6. QED
    BY <1>4, <2>1, <2>2, <2>3, <2>4, <2>5 DEF VfsCall
<1>5. ASSUME NEW path, NEW name, NEW d, Mkdir(path, name, d)
      PROVE  VInv' /\ Inside
  <2>1. UNCHANGED <<openVars, entries>>
    BY <1>5 DEF Mkdir, Hang, treeVars
  <2>2. QED
    BY <1>2, <2>1
<1>6. ASSUME NEW path, NEW name, Unlink(path, name)
      PROVE  VInv' /\ Inside
  <2>. DEFINE dir == DirentFind(path)
              f   == DirentFindFile(dir, name)
  <2>1. UNCHANGED openVars
    BY <1>6 DEF Unlink, Hang
  <2>2. entries' \in [Dirs -> Seq(Files)]
    <3>1. entries' = entries \/ (dir \in Dirs /\ entries' = [entries EXCEPT ![dir] = RemoveFirst(@, f)])
      BY <1>6 DEF Unlink, Hang, treeVars
    <3>. HIDE DEF f
    <3>2. dir \in Dirs => RemoveFirst(entries[dir], f) \in Seq(Files)
      BY <1>1, RemoveFirstProperties
    <3>. HIDE DEF dir
    <3>3. QED
      BY <1>1, <3>1, <3>2
  <2>3. QED
    BY <2>1, <2>2, TreeStands
<1>7. QED
  BY <1>3, <1>4, <1>5, <1>6 DEF VfsNext

\* A directory made at boot lists files.
LEMMA SetToSeqIs ==
    ASSUME NEW S, IsFiniteSet(S)
    PROVE  SetToSeq(S) \in Seq(S)
<1>1. Cardinality(S) \in Nat /\ \E f \in [1..Cardinality(S) -> S] : IsInjective(f)
  BY FS_CardinalityType DEF ExistsBijection, Bijection, Injection
<1>2. SetToSeq(S) \in [1..Cardinality(S) -> S]
  BY <1>1 DEF SetToSeq
<1>3. QED
  BY <1>1, <1>2

LEMMA InitStands ==
    ASSUME VfsInit
    PROVE  VInv
<1>1. /\ MAX_OPEN \in Nat /\ MAX_OPEN > 3 /\ 0 \in Fds /\ Std \notin Files /\ NULL \notin Files /\ Std # NULL
      /\ Flash \in Files /\ NULL \notin Callers /\ RamFiles \cap RomFiles = {} /\ RamFiles \cap DevFiles = {} /\ RomFiles \cap DevFiles = {}
      /\ RomFiles \subseteq Files /\ DevFiles \subseteq Files /\ RamFiles \subseteq Files
  BY FdAssumption, FilesAssumption DEF Fds, Files, DevFiles
<1>2. file \in [Files \cup {Std} -> FileRec] /\ \A f \in Files : file[f] = IF f \in RamFiles THEN Fresh ELSE [Fresh EXCEPT !.name = f]
  <2>1. \A f \in Files \cup {Std} : Fresh \in FileRec /\ [Fresh EXCEPT !.name = f] \in FileRec
    BY <1>1 DEF Fresh, FileRec, AnyName
  <2>2. file = [f \in Files \cup {Std} |-> IF f \in RamFiles THEN Fresh ELSE [Fresh EXCEPT !.name = f]]
    BY DEF VfsInit
  <2>3. QED
    BY <2>1, <2>2
<1>3. \A f \in Files : /\ file[f].locked = FALSE /\ file[f].uses = 0 /\ file[f].data = "none"
                       /\ f \in RamFiles => file[f].name = NULL
  BY <1>2 DEF Fresh
<1>4. iob \in [Fds -> Files \cup {Std, NULL}] /\ \A fd \in Fds : iob[fd] = IF fd < 3 THEN Std ELSE NULL
  BY DEF VfsInit
<1>5. /\ mutex \in [DevFiles -> [owner : Callers \cup {NULL}, count : Nat]]
      /\ \A d \in DevFiles : mutex[d].owner = NULL /\ mutex[d].count = 0
  BY DEF VfsInit
<1>6. /\ held \in [Callers -> SUBSET Handles] /\ \A t \in Callers : held[t] = {} /\ call[t] = NULL
      /\ call \in [Callers -> {NULL} \cup [f : Devices, dev : Devices]]
  BY DEF VfsInit
<1>7. /\ Here \in Tables /\ Here.fl = file /\ Here.io = iob /\ Here.mx = mutex
  BY <1>2, <1>4, <1>5 DEF Here, Tables
<1>8. \A f \in Files : ~IsOpen(Here, f) /\ \A t \in Callers : ~HasIt(held, t, f)
  BY <1>1, <1>4, <1>6, <1>7 DEF IsOpen, HasIt
<1>9. \A f \in Files : TakenWhileOpen(Here, held, f)
  BY <1>1, <1>3, <1>5, <1>7, <1>8 DEF TakenWhileOpen
<1>10. Sound(Here, held)
  BY <1>1, <1>4, <1>6, <1>7, <1>9 DEF Sound, Fds
<1>11. Cardinality(FreeFds(iob)) > Cardinality(Waiting(call))
  <2>1. FreeFds(iob) = 3..(MAX_OPEN - 1)
    BY <1>1, <1>4 DEF FreeFds, Fds
  <2>2. Cardinality(3..(MAX_OPEN - 1)) = MAX_OPEN - 3
    BY <1>1, FS_Interval
  <2>3. Waiting(call) = {}
    BY <1>6 DEF Waiting
  <2>4. Cardinality(Waiting(call)) = 0
    BY <2>3, FS_EmptySet, Zenon
  <2>5. QED
    BY <1>1, <2>1, <2>2, <2>4
<1>12. Standing(Here, held, call)
  <2>1. Sized(Here)
    BY <1>1, <1>3, <1>7 DEF Sized
  <2>2. QED
    BY <1>1, <1>6, <1>7, <1>8, <1>10, <1>11, <2>1 DEF Standing
<1>13. entries \in [Dirs -> Seq(Files)]
  <2>1. IsFiniteSet(RomFiles) /\ IsFiniteSet(DevFiles)
    BY FilesAssumption, FS_AddElement DEF DevFiles
  <2>2. SetToSeq(RomFiles) \in Seq(Files) /\ SetToSeq(DevFiles) \in Seq(Files)
    <3>1. SetToSeq(RomFiles) \in Seq(RomFiles) /\ SetToSeq(DevFiles) \in Seq(DevFiles)
      BY <2>1, SetToSeqIs
    <3>2. QED
      BY <1>1, <3>1
  <2>3. QED
    BY <2>2 DEF VfsInit
<1>14. QED
  BY <1>12, <1>13 DEF VInv

----------------------------------------------------------------------------
(* What the invariant says *)

\* A file has one descriptor at most.
LEMMA OpenOnce ==
    ASSUME NEW s, NEW hd, Sound(s, hd), NEW f \in Files
    PROVE  LET open == {fd \in Fds : s.io[fd] = f} IN
           Cardinality(open) = (IF IsOpen(s, f) THEN 1 ELSE 0) /\ (IsOpen(s, f) <=> open # {})
<1>. DEFINE open == {fd \in Fds : s.io[fd] = f}
<1>1. \A fd \in open : fd = s.fl[f].fd
  BY OpenIsHeld
<1>2. IsOpen(s, f) <=> open # {}
  BY DEF IsOpen
<1>3. CASE IsOpen(s, f)
  <2>1. open = {s.fl[f].fd}
    BY <1>1, <1>2, <1>3
  <2>2. QED
    BY <1>2, <1>3, <2>1, FS_Singleton
<1>4. CASE ~IsOpen(s, f)
  <2>1. open = {}
    BY <1>2, <1>4
  <2>2. Cardinality(open) = 0
    BY <2>1, FS_EmptySet, Zenon
  <2>3. QED
    BY <1>2, <1>4, <2>2
<1>5. QED
  BY <1>3, <1>4

LEMMA SoundMeansDescriptorsSound ==
    ASSUME Sound(Here, held)
    PROVE  DescriptorsSound
<1>. DEFINE Open(fd) == {p \in UNION {{t} \X held[t] : t \in Callers} : p[2].fd = fd}
<1>1. ASSUME NEW fd \in 3..(MAX_OPEN - 1)
      PROVE  /\ Cardinality(Open(fd)) = (IF iob[fd] = NULL THEN 0 ELSE 1)
             /\ \A p \in Open(fd) : iob[fd] = p[2].f /\ file[p[2].f].fd = fd
  <2>1. Here.fl = file /\ Here.io = iob /\ Here.mx = mutex
    BY DEF Here
  <2>2. \A t \in Callers : \A h \in held[t] :
           /\ h \in Handles /\ iob[h.fd] = h.f /\ file[h.f].fd = h.fd /\ h.f # NULL
           /\ \A u \in Callers : h \in held[u] => u = t
    BY <2>1, FilesAssumption DEF Sound, Handles
  <2>3. ASSUME NEW p \in Open(fd)
        PROVE  /\ p[1] \in Callers /\ p[2] \in held[p[1]] /\ p = <<p[1], p[2]>> /\ p[2].fd = fd
               /\ p[2] \in Handles /\ iob[fd] = p[2].f /\ file[p[2].f].fd = fd /\ p[2].f # NULL
    <3>1. PICK t \in Callers : p \in {t} \X held[t]
      OBVIOUS
    <3>2. p = <<p[1], p[2]>> /\ p[1] = t /\ p[2] \in held[t] /\ p[2].fd = fd
      BY <3>1
    <3>3. QED
      BY <2>2, <3>2
  <2>4. CASE iob[fd] = NULL
    <3>1. Open(fd) = {}
      BY <2>3, <2>4
    <3>. HIDE DEF Open
    <3>2. Cardinality(Open(fd)) = 0
      BY <3>1, FS_EmptySet, Zenon
    <3>3. QED
      BY <2>4, <3>1, <3>2
  <2>5. CASE iob[fd] # NULL
    <3>. DEFINE h == [fd |-> fd, f |-> iob[fd]]
    <3>1. PICK t \in Callers : h \in held[t]
      BY <2>1, <2>5 DEF Sound
    <3>2. h.fd = fd
      OBVIOUS
    <3>3. <<t, h>> \in Open(fd)
      BY <3>1, <3>2
    <3>4. ASSUME NEW p \in Open(fd)
          PROVE  p = <<t, h>>
      <4>1. p[2] = h
        BY <2>3 DEF Handles
      <4>2. p[1] = t
        BY <2>2, <2>3, <3>1, <4>1
      <4>3. QED
        BY <2>3, <4>1, <4>2
    <3>. HIDE DEF Open, h
    <3>5. Open(fd) = {<<t, h>>}
      BY <3>3, <3>4
    <3>6. Cardinality(Open(fd)) = 1
      BY <3>5, FS_Singleton, Zenon
    <3>7. QED
      BY <2>3, <2>5, <3>6 DEF Open
  <2>6. QED
    BY <2>4, <2>5
<1>2. QED
  BY <1>1 DEF DescriptorsSound

LEMMA SoundMeansHeldWhileOpen ==
    ASSUME Sound(Here, held)
    PROVE  HeldWhileOpen
<1>1. Here.fl = file /\ Here.io = iob /\ Here.mx = mutex
  BY DEF Here
<1>2. ASSUME NEW f \in Files
      PROVE  LET open == {fd \in Fds : iob[fd] = f} IN
             /\ f \in RamFiles => (file[f].locked <=> open # {})
             /\ f \in RomFiles => file[f].uses = Cardinality(open) /\ (file[f].data # "none" <=> open # {})
             /\ f \in DevFiles =>
                   /\ mutex[f].count = Cardinality(open)
                   /\ \A t \in Callers : mutex[f].owner = t <=> \E h \in held[t] : h.f = f
  <2>. DEFINE open == {fd \in Fds : iob[fd] = f}
  <2>1. Cardinality(open) = (IF IsOpen(Here, f) THEN 1 ELSE 0) /\ (IsOpen(Here, f) <=> open # {})
    BY <1>1, OpenOnce
  <2>2. TakenWhileOpen(Here, held, f)
    BY DEF Sound
  <2>. HIDE DEF open
  <2>3. /\ f \in RamFiles => (file[f].locked <=> open # {})
        /\ f \in RomFiles => file[f].uses = Cardinality(open) /\ (file[f].data # "none" <=> open # {})
        /\ f \in DevFiles => mutex[f].count = Cardinality(open)
    BY <1>1, <2>1, <2>2 DEF TakenWhileOpen
  <2>4. f \in DevFiles => \A t \in Callers : mutex[f].owner = t <=> \E h \in held[t] : h.f = f
    BY <1>1, <2>2 DEF TakenWhileOpen, HasIt
  <2>5. QED
    BY <2>3, <2>4 DEF open
<1>3. QED
  BY <1>2 DEF HeldWhileOpen

----------------------------------------------------------------------------
(* The theorems *)

LEMMA VfsInvariant ==
    ASSUME Prudent
    PROVE  VfsSpec => []VInv
<1>1. VfsInit => VInv
  BY InitStands
<1>2. VInv /\ [VfsNext]_vfsVars => VInv'
  BY StepStands
<1>3. QED
  BY <1>1, <1>2, PTL DEF VfsSpec

\* Every entry of __iob from 3 up is a descriptor that one caller got from
\* open and has not closed, under the number the file knows.
THEOREM EveryDescriptorOwned ==
    ASSUME Prudent
    PROVE  VfsSpec => []DescriptorsSound
<1>1. VInv => DescriptorsSound
  BY SoundMeansDescriptorsSound DEF VInv, Standing
<1>2. QED
  BY <1>1, VfsInvariant, PTL

\* The lock of a ramfs file, the copy of a romfs file and the mutex of a
\* device are taken by open and given back by close, and nothing else.
THEOREM TakenOnlyWhileOpen ==
    ASSUME Prudent
    PROVE  VfsSpec => []HeldWhileOpen
<1>1. VInv => HeldWhileOpen
  BY SoundMeansHeldWhileOpen DEF VInv, Standing
<1>2. QED
  BY <1>1, VfsInvariant, PTL

\* ramfs_write and ramfs_putc write inside the buffer ramfs_expand made.
THEOREM BuffersHoldWrites ==
    ASSUME Prudent
    PROVE  VfsSpec => WritesInside
<1>1. VInv /\ [VfsNext]_vfsVars
        => [\A f \in RamFiles : (file[f].locked /\ file'[f].wr > file[f].wr) => file'[f].wr <= file'[f].size]_vfsVars
  BY StepStands DEF Inside
<1>2. QED
  BY <1>1, VfsInvariant, PTL DEF VfsSpec, WritesInside

----------------------------------------------------------------------------
(* Directories that are read to the end *)

Listings == [dir : Dirs, seen : Seq(Dirs \cup {NULL}), all : SUBSET Dirs]

\* How many directories a caller got from readdir
Seen(l) == IF AtEnd(l) THEN Len(l.seen) - 1 ELSE Len(l.seen)

\* In the list k of children, what readdir returned stands behind the place
\* from, in one piece, and so does all that was there when the caller began.
Follows(k, l, from) ==
    /\ from \in 0..Len(k) /\ from + Seen(l) <= Len(k)
    /\ AtEnd(l) => from + Seen(l) = Len(k)
    /\ \A i \in 1..Seen(l) : l.seen[i] = k[from + i]
    /\ \A d \in l.all : \E j \in 1..Len(k) : j > from /\ k[j] = d

\* The last that readdir returned to a caller
At(l) == IF l.seen = <<>> THEN NULL ELSE l.seen[Len(l.seen)]

\* The caller has begun to read the list k and nothing has been left out.
Reading(k, l) ==
    /\ l \in Listings
    /\ IF l.seen = <<>> THEN l.all \subseteq ToSet(k) ELSE \E from \in Nat : Follows(k, l, from)

\* No directory is the child of another twice, and every child has a name.
TreeOK ==
    /\ kids \in [Dirs -> Seq(Dirs)] /\ DOMAIN dname = Dirs
    /\ \A d \in Dirs : Once(kids[d]) /\ \A e \in ToSet(kids[d]) : dname[e] # NULL

\* One caller reads at a time, and readdir's static entry is where it is.
ListInv ==
    /\ TreeOK /\ DOMAIN listing = Callers
    /\ (\A t \in Callers : listing[t] = NULL) => rdEntry = NULL
    /\ \A t, u \in Callers : listing[t] # NULL /\ listing[u] # NULL => t = u
    /\ \A t \in Callers : listing[t] # NULL =>
          Reading(kids[listing[t].dir], listing[t]) /\ rdEntry = At(listing[t])

\* How many directories a caller has seen, and which is the last
LEMMA SeenIs ==
    ASSUME NEW l \in Listings
    PROVE  /\ Len(l.seen) \in Nat /\ Seen(l) \in Nat
           /\ l.seen = <<>> <=> Len(l.seen) = 0
           /\ AtEnd(l) <=> Len(l.seen) > 0 /\ l.seen[Len(l.seen)] = NULL
<1>1. l.seen \in Seq(Dirs \cup {NULL})
  BY DEF Listings
<1>2. Len(l.seen) \in Nat /\ (l.seen = <<>> <=> Len(l.seen) = 0)
  BY <1>1, EmptySeq
<1>3. AtEnd(l) <=> Len(l.seen) > 0 /\ l.seen[Len(l.seen)] = NULL
  BY <1>2 DEF AtEnd, Last
<1>4. QED
  BY <1>2, <1>3 DEF Seen

\* mkdir puts the new directory in front.
LEMMA FrontFollows ==
    ASSUME NEW k \in Seq(Dirs), NEW d \in Dirs, NEW l, Reading(k, l)
    PROVE  Reading(<<d>> \o k, l)
<1>. DEFINE m == <<d>> \o k
<1>1. m \in Seq(Dirs) /\ Len(m) = Len(k) + 1 /\ Len(k) \in Nat /\ \A j \in 1..Len(k) : m[j + 1] = k[j]
  OBVIOUS
<1>2. ToSet(k) \subseteq ToSet(m)
  <2>1. \A j \in 1..Len(k) : j + 1 \in 1..Len(m)
    BY <1>1
  <2>. HIDE DEF m
  <2>2. \A e : e \in ToSet(k) <=> \E i \in 1..Len(k) : k[i] = e
    BY ElementPlace
  <2>3. \A e : e \in ToSet(m) <=> \E i \in 1..Len(m) : m[i] = e
    BY <1>1, ElementPlace
  <2>4. QED
    BY <1>1, <2>1, <2>2, <2>3
<1>. HIDE DEF m
<1>3. ASSUME NEW from \in Nat, Follows(k, l, from), l \in Listings
      PROVE  Follows(m, l, from + 1)
  <2>1. Seen(l) \in Nat
    BY <1>3, SeenIs
  <2>2. /\ from \in 0..Len(k) /\ from + Seen(l) <= Len(k) /\ (AtEnd(l) => from + Seen(l) = Len(k))
        /\ \A i \in 1..Seen(l) : l.seen[i] = k[from + i]
        /\ \A e \in l.all : \E j \in 1..Len(k) : j > from /\ k[j] = e
    BY <1>3 DEF Follows
  <2>3. ASSUME NEW i \in 1..Seen(l) PROVE l.seen[i] = m[(from + 1) + i]
    <3>1. from + i \in 1..Len(k) /\ (from + i) + 1 = (from + 1) + i
      BY <2>1, <2>2, <1>1
    <3>2. QED
      BY <3>1, <2>2, <1>1
  <2>4. ASSUME NEW e \in l.all PROVE \E j \in 1..Len(m) : j > from + 1 /\ m[j] = e
    <3>1. PICK j \in 1..Len(k) : j > from /\ k[j] = e
      BY <2>2
    <3>2. j + 1 \in 1..Len(m) /\ j + 1 > from + 1 /\ m[j + 1] = e
      BY <3>1, <1>1
    <3>3. QED
      BY <3>2
  <2>5. from + 1 \in 0..Len(m) /\ (from + 1) + Seen(l) <= Len(m) /\ (AtEnd(l) => (from + 1) + Seen(l) = Len(m))
    BY <2>1, <2>2, <1>1
  <2>6. QED
    BY <2>3, <2>4, <2>5 DEF Follows
<1>4. l \in Listings
  BY DEF Reading
<1>5. CASE l.seen = <<>>
  BY <1>2, <1>4, <1>5 DEF Reading, m
<1>6. CASE l.seen # <<>>
  <2>1. PICK from \in Nat : Follows(k, l, from)
    BY <1>6 DEF Reading
  <2>2. Follows(m, l, from + 1) /\ from + 1 \in Nat
    BY <1>3, <1>4, <2>1
  <2>3. QED
    BY <1>4, <1>6, <2>2 DEF Reading, m
<1>7. QED
  BY <1>5, <1>6

\* readdir_r: the first child, the one behind the entry, or none
LEMMA NextIs ==
    ASSUME NEW dir \in Dirs, NEW entry, kids[dir] \in Seq(Dirs), Once(kids[dir])
    PROVE  LET k == kids[dir] IN
           /\ entry = NULL => ReaddirNext(dir, entry) = IF Len(k) = 0 THEN NULL ELSE k[1]
           /\ \A i \in 1..Len(k) : entry = k[i] =>
                 ReaddirNext(dir, entry) = IF i = Len(k) THEN NULL ELSE k[i + 1]
<1>. DEFINE k == kids[dir]
            I == {i \in 1..Len(k) : k[i] = entry}
<1>1. NULL \notin Dirs /\ Len(k) \in Nat /\ \A i \in 1..Len(k) : k[i] # NULL
  BY FilesAssumption
<1>2. CASE entry = NULL
  BY <1>1, <1>2 DEF ReaddirNext
<1>3. ASSUME NEW i \in 1..Len(k), entry = k[i]
      PROVE  ReaddirNext(dir, entry) = IF i = Len(k) THEN NULL ELSE k[i + 1]
  <2>1. entry # NULL /\ i # 0
    BY <1>1, <1>3
  <2>2. I = {i}
    BY <1>3 DEF Once
  <2>3. Min({i}) = i
    BY DEF Min
  <2>4. SelectInSeq(kids[dir], LAMBDA d : d = entry) = i
    BY <2>2, <2>3 DEF SelectInSeq
  <2>5. QED
    BY <2>1, <2>4 DEF ReaddirNext
<1>4. QED
  BY <1>1, <1>2, <1>3

\* What readdir returns stands behind what it returned before.
LEMMA ReadFollows ==
    ASSUME NEW k \in Seq(Dirs), Once(k), NEW l, Reading(k, l), ~AtEnd(l), NEW next,
           At(l) = NULL => next = IF Len(k) = 0 THEN NULL ELSE k[1],
           \A i \in 1..Len(k) : At(l) = k[i] => next = IF i = Len(k) THEN NULL ELSE k[i + 1],
           NEW m \in Listings, m.all = l.all, m.seen = Append(l.seen, next)
    PROVE  Reading(k, m) /\ At(m) = next
<1>1. l \in Listings /\ l.seen \in Seq(Dirs \cup {NULL})
  BY DEF Reading, Listings
<1>2. /\ Len(l.seen) \in Nat /\ Seen(l) = Len(l.seen) /\ (l.seen = <<>> <=> Len(l.seen) = 0)
      /\ Len(m.seen) = Len(l.seen) + 1 /\ m.seen[Len(m.seen)] = next /\ m.seen # <<>>
      /\ \A i \in 1..Len(l.seen) : m.seen[i] = l.seen[i]
  <2>1. Len(l.seen) \in Nat /\ Seen(l) = Len(l.seen) /\ (l.seen = <<>> <=> Len(l.seen) = 0)
    BY <1>1, SeenIs DEF Seen
  <2>2. /\ Len(m.seen) = Len(l.seen) + 1 /\ m.seen[Len(l.seen) + 1] = next
        /\ \A i \in 1..Len(l.seen) : m.seen[i] = l.seen[i]
    BY <1>1, <2>1, AppendProperties
  <2>3. m.seen # <<>>
    BY <2>1, <2>2
  <2>4. QED
    BY <2>1, <2>2, <2>3
<1>3. (AtEnd(m) <=> next = NULL) /\ Seen(m) = (IF next = NULL THEN Len(l.seen) ELSE Len(l.seen) + 1)
  <2>1. AtEnd(m) <=> Len(m.seen) > 0 /\ m.seen[Len(m.seen)] = NULL
    BY SeenIs
  <2>2. QED
    BY <1>2, <2>1 DEF Seen
<1>4. NULL \notin Dirs /\ Len(k) \in Nat /\ \A i \in 1..Len(k) : k[i] \in Dirs
  BY FilesAssumption
<1>5. CASE l.seen = <<>>
  <2>1. next = (IF Len(k) = 0 THEN NULL ELSE k[1]) /\ l.all \subseteq ToSet(k)
    BY <1>5 DEF At, Reading
  <2>2. \A d \in m.all : \E j \in 1..Len(k) : j > 0 /\ k[j] = d
    BY <2>1, ElementPlace
  <2>3. Len(l.seen) = 0
    BY <1>2, <1>5
  <2>4. Seen(m) = (IF Len(k) = 0 THEN 0 ELSE 1) /\ (AtEnd(m) <=> Len(k) = 0)
    BY <1>3, <1>4, <2>1, <2>3
  <2>5. \A i \in 1..Seen(m) : m.seen[i] = k[0 + i]
    BY <1>2, <1>4, <2>1, <2>3, <2>4
  <2>6. Follows(k, m, 0)
    BY <1>4, <2>2, <2>4, <2>5 DEF Follows
  <2>7. QED
    BY <1>2, <2>6 DEF Reading, At
<1>6. CASE l.seen # <<>>
  <2>1. PICK from \in Nat : Follows(k, l, from)
    BY <1>6 DEF Reading
  <2>. DEFINE n == Len(l.seen)
  <2>2. /\ n \in Nat /\ n > 0 /\ from + n \in 1..Len(k) /\ \A i \in 1..n : l.seen[i] = k[from + i]
        /\ \A d \in l.all : \E j \in 1..Len(k) : j > from /\ k[j] = d
    BY <1>2, <1>4, <1>6, <2>1 DEF Follows
  <2>3. At(l) = k[from + n]
    BY <1>6, <2>2 DEF At
  <2>4. next = IF from + n = Len(k) THEN NULL ELSE k[(from + n) + 1]
    BY <2>2, <2>3
  <2>5. next = NULL <=> from + n = Len(k)
    BY <1>4, <2>2, <2>4
  <2>6. /\ from + Seen(m) <= Len(k) /\ (AtEnd(m) => from + Seen(m) = Len(k))
    BY <1>3, <1>4, <2>2, <2>5
  <2>7. ASSUME NEW i \in 1..Seen(m) PROVE m.seen[i] = k[from + i]
    <3>1. CASE i <= n
      BY <3>1, <1>2, <2>2
    <3>2. CASE i > n
      <4>1. i = n + 1 /\ next # NULL
        BY <3>2, <1>3, <2>2
      <4>2. m.seen[i] = next /\ from + i = (from + n) + 1
        BY <4>1, <1>2, <2>2
      <4>3. QED
        BY <4>1, <4>2, <2>4, <2>5
    <3>3. QED
      BY <3>1, <3>2, <1>3, <2>2
  <2>8. from \in 0..Len(k)
    BY <1>4, <2>2
  <2>9. Follows(k, m, from)
    BY <2>2, <2>6, <2>7, <2>8 DEF Follows
  <2>10. QED
    BY <1>2, <2>9 DEF Reading, At
<1>7. QED
  BY <1>5, <1>6

\* What was read contains what was there, and nothing twice.
LEMMA ReadingMeansListed ==
    ASSUME NEW k \in Seq(Dirs), Once(k), NEW l, Reading(k, l)
    PROVE  /\ Cardinality(Range(l.seen)) = Len(l.seen)
           /\ AtEnd(l) => l.all \subseteq Range(l.seen)
<1>. DEFINE n == Len(l.seen)
<1>1. l \in Listings /\ l.seen \in Seq(Dirs \cup {NULL})
  BY DEF Reading, Listings
<1>2. /\ n \in Nat /\ Seen(l) = (IF AtEnd(l) THEN n - 1 ELSE n)
      /\ l.seen = <<>> <=> n = 0
      /\ AtEnd(l) <=> n > 0 /\ l.seen[n] = NULL
  BY <1>1, SeenIs DEF Seen
<1>3. NULL \notin Dirs /\ Len(k) \in Nat /\ \A i \in 1..Len(k) : k[i] \in Dirs
  BY FilesAssumption
<1>4. ASSUME NEW from \in Nat, Follows(k, l, from)
      PROVE  /\ \A i, j \in 1..n : l.seen[i] = l.seen[j] => i = j
             /\ AtEnd(l) => \A d \in l.all : \E i \in 1..n : l.seen[i] = d
  <2>1. /\ from + Seen(l) <= Len(k) /\ (AtEnd(l) => from + Seen(l) = Len(k))
        /\ \A i \in 1..Seen(l) : l.seen[i] = k[from + i] /\ from + i \in 1..Len(k)
        /\ \A d \in l.all : \E j \in 1..Len(k) : j > from /\ k[j] = d
    BY <1>2, <1>3, <1>4 DEF Follows
  <2>2. ASSUME NEW i \in 1..n, NEW j \in 1..n, l.seen[i] = l.seen[j] PROVE i = j
    <3>1. CASE i \in 1..Seen(l) /\ j \in 1..Seen(l)
      <4>1. k[from + i] = k[from + j] /\ from + i \in 1..Len(k) /\ from + j \in 1..Len(k)
        BY <2>1, <2>2, <3>1
      <4>2. from + i = from + j
        BY <4>1 DEF Once
      <4>3. QED
        BY <4>2
    <3>2. CASE ~(i \in 1..Seen(l) /\ j \in 1..Seen(l))
      <4>1. AtEnd(l) /\ Seen(l) = n - 1 /\ l.seen[n] = NULL /\ (i = n \/ j = n)
        BY <1>2, <3>2
      <4>2. l.seen[i] = NULL /\ l.seen[j] = NULL
        BY <2>2, <4>1
      <4>3. i \notin 1..Seen(l) /\ j \notin 1..Seen(l)
        BY <1>3, <2>1, <4>2
      <4>4. QED
        BY <1>2, <4>1, <4>3
    <3>3. QED
      BY <3>1, <3>2
  <2>3. ASSUME AtEnd(l), NEW d \in l.all PROVE \E i \in 1..n : l.seen[i] = d
    <3>1. PICK j \in 1..Len(k) : j > from /\ k[j] = d
      BY <2>1
    <3>2. j - from \in 1..Seen(l) /\ from + (j - from) = j
      BY <1>2, <1>3, <2>1, <2>3, <3>1
    <3>3. l.seen[j - from] = d /\ j - from \in 1..n
      BY <1>2, <2>1, <3>1, <3>2
    <3>4. QED
      BY <3>3
  <2>4. QED
    BY <2>2, <2>3
<1>5. /\ \A i, j \in 1..n : l.seen[i] = l.seen[j] => i = j
      /\ AtEnd(l) => \A d \in l.all : \E i \in 1..n : l.seen[i] = d
  <2>1. CASE l.seen = <<>>
    BY <2>1, <1>2
  <2>2. CASE l.seen # <<>>
    BY <2>2, <1>4 DEF Reading
  <2>3. QED
    BY <2>1, <2>2
<1>6. Range(l.seen) = {l.seen[i] : i \in 1..n}
  BY <1>1 DEF Range
<1>7. ExistsBijection(1..n, Range(l.seen))
  <2>1. l.seen \in [1..n -> Range(l.seen)]
    BY <1>1, <1>6
  <2>2. l.seen \in Surjection(1..n, Range(l.seen))
    BY <2>1, <1>6 DEF Surjection
  <2>3. l.seen \in Injection(1..n, Range(l.seen))
    BY <2>1, <1>5 DEF Injection, IsInjective
  <2>4. QED
    BY <2>2, <2>3 DEF Bijection, ExistsBijection
<1>8. Cardinality(Range(l.seen)) = n
  BY <1>2, <1>7, FS_CountingElements
<1>9. QED
  BY <1>5, <1>6, <1>8

LEMMA SameReading ==
    ASSUME ListInv, UNCHANGED <<kids, dname, listing, rdEntry>>
    PROVE  ListInv'
BY DEF ListInv, TreeOK

\* The list of children p with d in front, and d named
Mounted(p, d, name) ==
    /\ p \in Dirs /\ d \in Dirs \ {Root} /\ dname[d] = NULL
    /\ \A c \in Dirs : /\ kids'[c] = IF c = p THEN <<d>> \o kids[c] ELSE kids[c]
                       /\ ToSet(kids'[c]) = IF c = p THEN {d} \cup ToSet(kids[c]) ELSE ToSet(kids[c])
                       /\ dname'[c] = IF c = d THEN name ELSE dname[c]

\* mkdir adds to one list a directory that is in none, or nothing.
LEMMA MkdirTree ==
    ASSUME TreeOK, NEW path, NEW name \in DirNames, NEW d \in Dirs, Mkdir(path, name, d)
    PROVE  /\ TreeOK' /\ UNCHANGED <<listing, rdEntry>>
           /\ UNCHANGED <<kids, dname>> \/ Mounted(DirentFind(path), d, name)
<1>. DEFINE p == DirentFind(path)
<1>1. CASE Hang
  <2>1. UNCHANGED <<kids, dname, listing, rdEntry>>
    BY <1>1 DEF Hang, treeVars
  <2>2. QED
    BY <2>1 DEF TreeOK
<1>2. CASE /\ p \in Dirs /\ d \in Dirs \ {Root} /\ dname[d] = NULL
           /\ kids' = [kids EXCEPT ![p] = <<d>> \o @] /\ dname' = [dname EXCEPT ![d] = name]
           /\ UNCHANGED <<listing, rdEntry>>
  <2>. HIDE DEF p
  <2>1. TreeOK /\ NULL \notin DirNames
    BY FilesAssumption
  <2>2. <<d>> \o kids[p] \in Seq(Dirs)
    BY <1>2, <2>1 DEF TreeOK
  <2>3. kids' \in [Dirs -> Seq(Dirs)] /\ DOMAIN dname' = Dirs
    BY <1>2, <2>1, <2>2 DEF TreeOK
  <2>4. ASSUME NEW e \in Dirs PROVE dname'[e] = IF e = d THEN name ELSE dname[e]
    BY <1>2, <2>1 DEF TreeOK
  <2>5. ASSUME NEW c \in Dirs
        PROVE  /\ Once(kids'[c]) /\ \A e \in ToSet(kids'[c]) : dname'[e] # NULL
               /\ kids'[c] = IF c = p THEN <<d>> \o kids[c] ELSE kids[c]
               /\ ToSet(kids'[c]) = IF c = p THEN {d} \cup ToSet(kids[c]) ELSE ToSet(kids[c])
    <3>1. /\ kids[c] \in Seq(Dirs) /\ Once(kids[c]) /\ ToSet(kids[c]) \subseteq Dirs
          /\ \A e \in ToSet(kids[c]) : dname[e] # NULL
      BY <2>1, ElementPlace DEF TreeOK
    <3>2. CASE c # p
      <4>1. kids'[c] = kids[c]
        BY <1>2, <2>1, <3>2 DEF TreeOK
      <4>2. QED
        BY <2>1, <2>4, <3>1, <3>2, <4>1
    <3>3. CASE c = p
      <4>1. kids'[c] = <<d>> \o kids[c]
        BY <1>2, <2>1, <3>3 DEF TreeOK
      <4>2. d \notin ToSet(kids[c])
        BY <1>2, <3>1
      <4>3. <<d>> \in Seq(Dirs) /\ ToSet(<<d>>) = {d} /\ Once(<<d>>)
        BY DEF ToSet, Once
      <4>4. PICK u : u = <<d>>
        OBVIOUS
      <4>5. ToSet(u \o kids[c]) = {d} \cup ToSet(kids[c]) /\ Once(u \o kids[c])
        <5>1. u \in Seq(Dirs) /\ ToSet(u) = {d} /\ Once(u)
          BY <4>3, <4>4
        <5>2. ToSet(u) \cap ToSet(kids[c]) = {}
          BY <4>2, <5>1
        <5>3. QED
          BY <3>1, <5>1, <5>2, ConcatOnce
      <4>6. ASSUME NEW e \in ToSet(kids'[c]) PROVE dname'[e] # NULL
        <5>1. e = d \/ e \in ToSet(kids[c])
          BY <4>1, <4>4, <4>5
        <5>2. e \in Dirs
          BY <3>1, <5>1
        <5>3. QED
          BY <2>1, <2>4, <3>1, <5>1, <5>2
      <4>7. QED
        BY <3>3, <4>1, <4>4, <4>5, <4>6
    <3>4. QED
      BY <3>2, <3>3
  <2>6. TreeOK'
    BY <2>3, <2>5 DEF TreeOK
  <2>7. Mounted(p, d, name)
    BY <1>2, <2>4, <2>5 DEF Mounted
  <2>8. QED
    BY <1>2, <2>6, <2>7 DEF p
<1>3. QED
  BY <1>1, <1>2 DEF Mkdir

LEMMA MkdirReading ==
    ASSUME ListInv, NEW path, NEW name \in DirNames, NEW d \in Dirs, Mkdir(path, name, d)
    PROVE  ListInv'
<1>. DEFINE p == DirentFind(path)
<1>1. TreeOK /\ TreeOK' /\ listing' = listing /\ rdEntry' = rdEntry
      /\ (UNCHANGED <<kids, dname>> \/ Mounted(p, d, name))
  BY MkdirTree DEF ListInv
<1>. HIDE DEF p
<1>2. ASSUME NEW t \in Callers, listing[t] # NULL
      PROVE  Reading(kids'[listing[t].dir], listing[t])
  <2>. DEFINE c == listing[t].dir
  <2>1. Reading(kids[c], listing[t])
    BY <1>2 DEF ListInv
  <2>2. c \in Dirs
    BY <2>1 DEF Reading, Listings
  <2>3. kids[c] \in Seq(Dirs)
    BY <1>1, <2>2 DEF TreeOK
  <2>4. kids'[c] = kids[c] \/ kids'[c] = <<d>> \o kids[c]
    BY <1>1, <2>2 DEF Mounted
  <2>. HIDE DEF c
  <2>5. Reading(<<d>> \o kids[c], listing[t])
    BY <2>1, <2>3, FrontFollows
  <2>6. Reading(kids'[c], listing[t])
    BY <2>1, <2>4, <2>5
  <2>7. QED
    BY <2>6 DEF c
<1>3. QED
  BY <1>1, <1>2 DEF ListInv

LEMMA OpendirReading ==
    ASSUME ListInv, "abandon" \notin Rash, NEW t \in Callers, NEW path, Opendir(t, path)
    PROVE  ListInv'
<1>. DEFINE dir == DirentFind(path)
<1>1. CASE Hang
  BY <1>1, SameReading DEF Hang, treeVars
<1>2. CASE /\ dir \in Dirs /\ \A u \in Callers : listing[u] = NULL
           /\ listing' = [listing EXCEPT ![t] = [dir |-> dir, seen |-> <<>>, all |-> Range(kids[dir])]]
           /\ UNCHANGED <<treeVars, rdEntry>>
  <2>. HIDE DEF dir
  <2>1. TreeOK /\ DOMAIN listing = Callers /\ rdEntry = NULL
    BY <1>2 DEF ListInv
  <2>2. kids' = kids /\ dname' = dname /\ rdEntry' = NULL
    BY <1>2, <2>1 DEF treeVars
  <2>3. kids[dir] \in Seq(Dirs)
    BY <1>2, <2>1 DEF TreeOK
  <2>4. Range(kids[dir]) = ToSet(kids[dir]) /\ ToSet(kids[dir]) \subseteq Dirs
    BY <2>3, ElementPlace DEF Range, ToSet
  <2>5. PICK l : l = [dir |-> dir, seen |-> <<>>, all |-> Range(kids[dir])]
    OBVIOUS
  <2>6. l \in Listings /\ l.dir = dir /\ l.seen = <<>> /\ l.all \subseteq ToSet(kids[dir])
    BY <1>2, <2>4, <2>5 DEF Listings
  <2>7. Reading(kids[l.dir], l) /\ At(l) = NULL
    BY <2>6 DEF Reading, At
  <2>8. listing' = [listing EXCEPT ![t] = l]
    BY <1>2, <2>5
  <2>9. DOMAIN listing' = Callers /\ \A u \in Callers : listing'[u] = IF u = t THEN l ELSE NULL
    BY <1>2, <2>1, <2>8
  <2>10. TreeOK'
    BY <2>1, <2>2 DEF TreeOK
  <2>11. QED
    BY <2>2, <2>7, <2>9, <2>10 DEF ListInv
<1>3. QED
  BY <1>1, <1>2 DEF Opendir

LEMMA ReaddirReading ==
    ASSUME ListInv, NEW t \in Callers, Readdir(t)
    PROVE  ListInv'
<1>. DEFINE l == listing[t]
            next == rdEntry'
            m == [l EXCEPT !.seen = Append(@, next)]
<1>1. /\ TreeOK /\ DOMAIN listing = Callers /\ l # NULL /\ ~AtEnd(l) /\ Reading(kids[l.dir], l) /\ rdEntry = At(l)
      /\ \A u \in Callers \ {t} : listing[u] = NULL
  BY DEF ListInv, Readdir
<1>2. kids' = kids /\ dname' = dname /\ listing' = [listing EXCEPT ![t] = m] /\ next = ReaddirNext(l.dir, rdEntry)
  BY DEF Readdir, treeVars
<1>3. l \in Listings /\ l.dir \in Dirs
  BY <1>1 DEF Reading, Listings
<1>4. kids[l.dir] \in Seq(Dirs) /\ Once(kids[l.dir])
  BY <1>1, <1>3 DEF TreeOK
<1>5. /\ rdEntry = NULL => next = IF Len(kids[l.dir]) = 0 THEN NULL ELSE kids[l.dir][1]
      /\ \A i \in 1..Len(kids[l.dir]) : rdEntry = kids[l.dir][i] =>
            next = IF i = Len(kids[l.dir]) THEN NULL ELSE kids[l.dir][i + 1]
  BY <1>2, <1>3, <1>4, NextIs
<1>6. next \in Dirs \cup {NULL}
  <2>1. l.seen = <<>> => rdEntry = NULL
    BY <1>1 DEF At
  <2>2. CASE rdEntry = NULL
    BY <1>4, <1>5, <2>2
  <2>3. CASE rdEntry # NULL
    <3>1. PICK from \in Nat : Follows(kids[l.dir], l, from)
      BY <1>1, <2>1, <2>3 DEF Reading
    <3>2. Len(l.seen) \in Nat /\ Len(l.seen) > 0 /\ Seen(l) = Len(l.seen)
      BY <1>1, <1>3, <2>1, <2>3, SeenIs DEF Seen
    <3>3. rdEntry = kids[l.dir][from + Len(l.seen)] /\ from + Len(l.seen) \in 1..Len(kids[l.dir])
      BY <1>1, <1>4, <2>1, <2>3, <3>1, <3>2 DEF Follows, At
    <3>4. QED
      BY <1>4, <1>5, <3>3
  <2>4. QED
    BY <2>2, <2>3
<1>7. /\ m \in Listings /\ m.all = l.all /\ m.dir = l.dir /\ m.seen = Append(l.seen, next)
  <2>. HIDE DEF l, next
  <2>1. l.seen \in Seq(Dirs \cup {NULL}) /\ l.dir \in Dirs /\ l.all \in SUBSET Dirs
    BY <1>3 DEF Listings
  <2>2. Append(l.seen, next) \in Seq(Dirs \cup {NULL})
    BY <1>6, <2>1
  <2>3. QED
    BY <1>3, <2>1, <2>2 DEF Listings
<1>8. Reading(kids[l.dir], m) /\ At(m) = next
  <2>. DEFINE k == kids[l.dir]
  <2>. HIDE DEF l, next, m
  <2>1. /\ At(l) = NULL => next = IF Len(k) = 0 THEN NULL ELSE k[1]
        /\ \A i \in 1..Len(k) : At(l) = k[i] => next = IF i = Len(k) THEN NULL ELSE k[i + 1]
    BY <1>1, <1>5
  <2>2. k \in Seq(Dirs) /\ Once(k) /\ Reading(k, l) /\ ~AtEnd(l)
    BY <1>1, <1>4
  <2>3. m \in Listings /\ m.all = l.all /\ m.seen = Append(l.seen, next)
    BY <1>7
  <2>. HIDE DEF k
  <2>4. Reading(k, m) /\ At(m) = next
    BY <2>1, <2>2, <2>3, ReadFollows, SMTT(30)
  <2>5. QED
    BY <2>4 DEF k
<1>. HIDE DEF l, next, m
<1>9. DOMAIN listing' = Callers /\ listing'[t] = m /\ \A u \in Callers \ {t} : listing'[u] = NULL
  BY <1>1, <1>2
<1>10. TreeOK'
  BY <1>1, <1>2 DEF TreeOK
<1>11. (\A u \in Callers : listing'[u] = NULL) => next = NULL
  BY <1>7, <1>9, FilesAssumption DEF Listings
<1>12. QED
  BY <1>2, <1>7, <1>8, <1>9, <1>10, <1>11 DEF ListInv, next

LEMMA ClosedirReading ==
    ASSUME ListInv, "abandon" \notin Rash, NEW t \in Callers, Closedir(t)
    PROVE  ListInv'
<1>. DEFINE l == listing[t]
<1>1. /\ TreeOK /\ DOMAIN listing = Callers /\ l # NULL /\ AtEnd(l) /\ Reading(kids[l.dir], l) /\ rdEntry = At(l)
      /\ \A u \in Callers \ {t} : listing[u] = NULL
  BY DEF ListInv, Closedir
<1>2. l \in Listings
  BY <1>1 DEF Reading
<1>3. rdEntry = NULL
  BY <1>1, <1>2, SeenIs DEF At
<1>4. kids' = kids /\ dname' = dname /\ rdEntry' = rdEntry /\ listing' = [listing EXCEPT ![t] = NULL]
  BY DEF Closedir, treeVars
<1>5. DOMAIN listing' = Callers /\ \A u \in Callers : listing'[u] = NULL
  BY <1>1, <1>4
<1>6. TreeOK'
  BY <1>1, <1>4 DEF TreeOK
<1>7. QED
  BY <1>3, <1>4, <1>5, <1>6 DEF ListInv

\* No call leaves out a directory from a listing.
LEMMA StepReads ==
    ASSUME ListInv, "abandon" \notin Rash, [VfsNext]_vfsVars
    PROVE  ListInv'
<1>1. CASE UNCHANGED vfsVars
  BY <1>1, SameReading DEF vfsVars, treeVars
<1>2. ASSUME NEW t \in Callers, VfsCall(t)
      PROVE  ListInv'
  <2>1. ASSUME NEW path, NEW name, NEW mode, VfsOpen(t, path, name, mode)
        PROVE  ListInv'
    BY <2>1, SameReading DEF VfsOpen, Hang, treeVars
  <2>2. CASE OpenResume(t)
    BY <2>2, SameReading DEF OpenResume, treeVars
  <2>3. ASSUME NEW h, Close(t, h)
        PROVE  ListInv'
    BY <2>3, SameReading DEF Close, treeVars
  <2>4. ASSUME NEW h, NEW n, Read(t, h, n) \/ Write(t, h, n) \/ Lseek(t, h, n)
        PROVE  ListInv'
    BY <2>4, SameReading DEF Read, Write, Lseek, treeVars
  <2>5. ASSUME NEW path, Opendir(t, path)
        PROVE  ListInv'
    BY <2>5, OpendirReading
  <2>6. CASE Readdir(t)
    BY <2>6, ReaddirReading
  <2>7. CASE Closedir(t)
    BY <2>7, ClosedirReading
  <2>8. QED
    BY <1>2, <2>1, <2>2, <2>3, <2>4, <2>5, <2>6, <2>7 DEF VfsCall
<1>3. ASSUME NEW path, NEW name \in DirNames, NEW d \in Dirs, Mkdir(path, name, d)
      PROVE  ListInv'
  BY <1>3, MkdirReading
<1>4. ASSUME NEW path, NEW name, Unlink(path, name)
      PROVE  ListInv'
  BY <1>4, SameReading DEF Unlink, Hang, treeVars
<1>5. QED
  BY <1>1, <1>2, <1>3, <1>4 DEF VfsNext

\* The directories made at boot
LEMMA InitReads ==
    ASSUME VfsInit
    PROVE  ListInv
<1>1. /\ kids = [d \in Dirs |-> IF d = Root THEN <<RamDir, RomDir, DevDir>> ELSE <<>>]
      /\ dname = [d \in Dirs |-> IF d \in {Root, RomDir, RamDir, DevDir} THEN d ELSE NULL]
      /\ listing = [t \in Callers |-> NULL] /\ rdEntry = NULL
  BY DEF VfsInit
<1>2. {RomDir, RamDir, DevDir} \subseteq Dirs /\ NULL \notin Dirs /\ RomDir # RamDir /\ DevDir # RomDir /\ DevDir # RamDir
  BY DirsAssumption, FilesAssumption
<1>3. ASSUME NEW d \in Dirs
      PROVE  kids[d] \in Seq(Dirs) /\ Once(kids[d]) /\ \A e \in ToSet(kids[d]) : dname[e] # NULL
  <2>1. CASE d = Root
    <3>1. kids[d] = <<RamDir, RomDir, DevDir>>
      BY <1>1, <2>1
    <3>2. kids[d] \in Seq(Dirs) /\ ToSet(kids[d]) = {RamDir, RomDir, DevDir}
      BY <1>2, <3>1 DEF ToSet
    <3>3. Once(kids[d])
      BY <1>2, <3>1 DEF Once
    <3>4. QED
      BY <1>1, <1>2, <3>2, <3>3
  <2>2. CASE d # Root
    BY <1>1, <2>2 DEF ToSet, Once
  <2>3. QED
    BY <2>1, <2>2
<1>4. kids \in [Dirs -> Seq(Dirs)] /\ DOMAIN dname = Dirs
  BY <1>1, <1>3
<1>5. QED
  BY <1>1, <1>3, <1>4 DEF ListInv, TreeOK

\* Whoever reads a directory to the end gets every directory that was there
\* when it called opendir, and none twice, whatever mkdir adds meanwhile.
THEOREM DirectoriesListedWhole ==
    ASSUME "abandon" \notin Rash
    PROVE  VfsSpec => []ListedAll
<1>1. VfsInit => ListInv
  BY InitReads
<1>2. ListInv /\ [VfsNext]_vfsVars => ListInv'
  BY StepReads
<1>3. ListInv => ListedAll
  <2>1. SUFFICES ASSUME ListInv, NEW t \in Callers, listing[t] # NULL
                 PROVE  /\ Cardinality(Range(listing[t].seen)) = Len(listing[t].seen)
                        /\ AtEnd(listing[t]) => listing[t].all \subseteq Range(listing[t].seen)
    BY DEF ListedAll
  <2>2. Reading(kids[listing[t].dir], listing[t]) /\ TreeOK
    BY <2>1 DEF ListInv
  <2>3. listing[t].dir \in Dirs
    BY <2>2 DEF Reading, Listings
  <2>4. kids[listing[t].dir] \in Seq(Dirs) /\ Once(kids[listing[t].dir])
    BY <2>2, <2>3 DEF TreeOK
  <2>5. QED
    BY <2>2, <2>4, ReadingMeansListed
<1>4. QED
  BY <1>1, <1>2, <1>3, PTL DEF VfsSpec

----------------------------------------------------------------------------
(* Directories that are looked up *)

\* What the loop of dirent_find goes through: g has its state by the
\* components it has looked at.
Walk(path, b, g) ==
    g = [s \in SUBSET DOMAIN path |-> IF s = {} THEN b ELSE LET x == Max(s) IN Descend(g[s \ {x}], path[x])]

Folded(b, path) == FoldLeft(Descend, b, path)

LEMMA FoldIs ==
    ASSUME NEW path, NEW b
    PROVE  FoldLeft(Descend, b, path) = (CHOOSE g : Walk(path, b, g))[DOMAIN path]
BY DEF FoldLeft, MapThenFoldSet, Walk

\* The loop ends where it should, on paths of the lengths there are.
LEMMA FoldWalks ==
    ASSUME NEW b, NEW n
    PROVE  /\ FoldLeft(Descend, b, <<>>) = b
           /\ FoldLeft(Descend, b, <<n>>) = Descend(b, n)
<1>1. FoldLeft(Descend, b, <<>>) = b
  <2>1. PICK path : path = <<>>
    OBVIOUS
  <2>2. DOMAIN path = {} /\ SUBSET DOMAIN path = {{}}
    BY <2>1
  <2>3. Walk(path, b, [s \in SUBSET DOMAIN path |-> b])
    BY <2>2 DEF Walk
  <2>4. PICK g : Walk(path, b, g) /\ FoldLeft(Descend, b, path) = g[DOMAIN path]
    BY <2>3, FoldIs, Zenon
  <2>5. g[{}] = b
    BY <2>2, <2>4 DEF Walk
  <2>6. QED
    BY <2>1, <2>2, <2>4, <2>5
<1>2. FoldLeft(Descend, b, <<n>>) = Descend(b, n)
  <2>1. PICK path : path = <<n>>
    OBVIOUS
  <2>2. DOMAIN path = {1} /\ path[1] = n /\ SUBSET DOMAIN path = {{}, {1}}
    BY <2>1
  <2>3. Max({1}) = 1 /\ {1} # {} /\ {1} \ {1} = {}
    BY DEF Max
  <2>4. Walk(path, b, [s \in SUBSET DOMAIN path |-> IF s = {} THEN b ELSE Descend(b, n)])
    BY <2>2, <2>3 DEF Walk
  <2>5. PICK g : Walk(path, b, g) /\ FoldLeft(Descend, b, path) = g[DOMAIN path]
    BY <2>4, FoldIs, Zenon
  <2>6. g[{}] = b /\ g[{1}] = Descend(g[{}], path[1])
    BY <2>2, <2>3, <2>5 DEF Walk
  <2>7. QED
    BY <2>1, <2>2, <2>5, <2>6
<1>3. QED
  BY <1>1, <1>2

LEMMA FoldTwo ==
    ASSUME NEW b, NEW m, NEW n, NEW path, path = <<m, n>>
    PROVE  Folded(b, path) = Descend(Descend(b, m), n)
<1>2. DOMAIN path = {1, 2} /\ path[1] = m /\ path[2] = n
  OBVIOUS
<1>3. SUBSET {1, 2} = {{}, {1}, {2}, {1, 2}}
  OBVIOUS
<1>4. Max({1}) = 1 /\ Max({2}) = 2 /\ Max({1, 2}) = 2
  BY DEF Max
<1>5. {1} \ {1} = {} /\ {2} \ {2} = {} /\ {1, 2} \ {2} = {1} /\ {1} # {} /\ {2} # {} /\ {1, 2} # {}
      /\ {1} # {2} /\ {1} # {1, 2} /\ {2} # {1, 2}
  OBVIOUS
<1>6. \E g : Walk(path, b, g)
  <2>. DEFINE g == [s \in SUBSET DOMAIN path |->
                       IF s = {} THEN b ELSE IF s = {1} THEN Descend(b, m)
                       ELSE IF s = {2} THEN Descend(b, n) ELSE Descend(Descend(b, m), n)]
  <2>1. g[{}] = b /\ g[{1}] = Descend(b, m) /\ g[{2}] = Descend(b, n) /\ g[{1, 2}] = Descend(Descend(b, m), n)
    BY <1>2, <1>3, <1>5
  <2>2. \A s \in SUBSET DOMAIN path :
           g[s] = IF s = {} THEN b ELSE LET x == Max(s) IN Descend(g[s \ {x}], path[x])
    <3>. HIDE DEF g
    <3>1. SUFFICES ASSUME NEW s \in SUBSET DOMAIN path
                   PROVE  g[s] = IF s = {} THEN b ELSE LET x == Max(s) IN Descend(g[s \ {x}], path[x])
      OBVIOUS
    <3>2. s = {} \/ s = {1} \/ s = {2} \/ s = {1, 2}
      BY <1>2, <1>3
    <3>3. CASE s = {}
      BY <2>1, <3>3
    <3>4. CASE s = {1}
      BY <1>2, <1>4, <1>5, <2>1, <3>4
    <3>5. CASE s = {2}
      BY <1>2, <1>4, <1>5, <2>1, <3>5
    <3>6. CASE s = {1, 2}
      BY <1>2, <1>4, <1>5, <2>1, <3>6
    <3>7. QED
      BY <3>2, <3>3, <3>4, <3>5, <3>6
  <2>3. g = [s \in SUBSET DOMAIN path |-> g[s]]
    OBVIOUS
  <2>. HIDE DEF g
  <2>4. Walk(path, b, g)
    BY <2>2, <2>3 DEF Walk
  <2>5. QED
    BY <2>4
<1>7. PICK g : Walk(path, b, g) /\ FoldLeft(Descend, b, path) = g[DOMAIN path]
  BY <1>6, FoldIs, Zenon
<1>8. \A s \in SUBSET DOMAIN path :
         g[s] = IF s = {} THEN b ELSE LET x == Max(s) IN Descend(g[s \ {x}], path[x])
  BY <1>7 DEF Walk
<1>9. g[{}] = b /\ g[{1}] = Descend(g[{}], m) /\ g[{1, 2}] = Descend(g[{1}], n)
  <2>1. {} \in SUBSET DOMAIN path /\ {1} \in SUBSET DOMAIN path /\ {1, 2} \in SUBSET DOMAIN path
    BY <1>2
  <2>2. g[{}] = b
    BY <1>8, <2>1
  <2>3. g[{1}] = Descend(g[{1} \ {Max({1})}], path[Max({1})])
    BY <1>5, <1>8, <2>1
  <2>4. g[{1, 2}] = Descend(g[{1, 2} \ {Max({1, 2})}], path[Max({1, 2})])
    BY <1>5, <1>8, <2>1
  <2>5. QED
    BY <1>2, <1>4, <1>5, <2>2, <2>3, <2>4
<1>10. QED
  BY <1>2, <1>7, <1>9 DEF Folded

Looks == [dir : Dirs, found : BOOLEAN, hang : BOOLEAN]

\* One component: the child of that name, or none
LEMMA DescendIs ==
    ASSUME TreeOK, NEW at \in Looks, NEW name
    PROVE  LET to == Descend(at, name) IN
           /\ to \in Looks
           /\ at.hang => to.hang
           /\ ~at.hang =>
                 \/ ~to.hang /\ to.found /\ to.dir \in ToSet(kids[at.dir]) /\ dname[to.dir] = name
                 \/ /\ \A e \in ToSet(kids[at.dir]) : dname[e] # name
                    /\ to.hang \/ (~to.found /\ to.dir = at.dir /\ ToSet(kids[at.dir]) = {})
<1>. DEFINE k == kids[at.dir]
            I == {i \in 1..Len(k) : dname[k[i]] = name}
<1>1. at.dir \in Dirs /\ at.found \in BOOLEAN /\ at.hang \in BOOLEAN
  BY DEF Looks
<1>2. k \in Seq(Dirs) /\ Len(k) \in Nat
  BY <1>1 DEF TreeOK
<1>3. SelectInSeq(k, LAMBDA d : dname[d] = name) = IF I # {} THEN Min(I) ELSE 0
  BY DEF SelectInSeq
<1>4. I # {} => Min(I) \in I
  <2>1. SUFFICES ASSUME I # {} PROVE Min(I) \in I
    OBVIOUS
  <2>2. I \subseteq Nat
    BY <1>2
  <2>3. QED
    BY <2>1, <2>2, LeastExists DEF Min
<1>5. \A e : e \in ToSet(k) <=> \E i \in 1..Len(k) : k[i] = e
  BY <1>2, ElementPlace
<1>6. CASE at.hang
  BY <1>6 DEF Descend
<1>7. CASE ~at.hang /\ k = <<>>
  <2>1. Descend(at, name) = [at EXCEPT !.found = FALSE]
    BY <1>7 DEF Descend
  <2>2. ToSet(k) = {}
    BY <1>5, <1>7
  <2>3. QED
    BY <1>1, <1>7, <2>1, <2>2 DEF Looks
<1>8. CASE ~at.hang /\ k # <<>> /\ I = {}
  <2>1. Descend(at, name) = [at EXCEPT !.hang = TRUE]
    BY <1>3, <1>8 DEF Descend
  <2>2. \A e \in ToSet(k) : dname[e] # name
    BY <1>5, <1>8
  <2>3. QED
    BY <1>1, <1>8, <2>1, <2>2 DEF Looks
<1>9. CASE ~at.hang /\ k # <<>> /\ I # {}
  <2>. DEFINE i == Min(I)
  <2>1. i \in 1..Len(k) /\ dname[k[i]] = name /\ i # 0
    BY <1>4, <1>9
  <2>2. SelectInSeq(k, LAMBDA d : dname[d] = name) = i
    BY <1>3, <1>9
  <2>3. Descend(at, name) = [at EXCEPT !.dir = k[i], !.found = TRUE]
    BY <1>9, <2>1, <2>2 DEF Descend
  <2>. HIDE DEF i, I
  <2>4. k[i] \in Dirs /\ k[i] \in ToSet(k)
    <3>. HIDE DEF k
    <3>1. QED
      BY <1>2, <1>5, <2>1
  <2>5. QED
    BY <1>1, <1>9, <2>1, <2>3, <2>4 DEF Looks
<1>10. QED
  BY <1>1, <1>6, <1>7, <1>8, <1>9

\* dirent_find, for the paths there are
LEMMA FindIs ==
    ASSUME TreeOK, NEW m, NEW n
    PROVE  /\ DirentFind(<<>>) = Root
           /\ \/ \E e \in ToSet(kids[Root]) : dname[e] = m /\ DirentFind(<<m>>) = e
              \/ (\A e \in ToSet(kids[Root]) : dname[e] # m) /\ DirentFind(<<m>>) \in {NULL, "hang"}
           /\ \/ \E e \in ToSet(kids[Root]) :
                    /\ dname[e] = m /\ DirentFind(<<m>>) = e
                    /\ \/ \E c \in ToSet(kids[e]) : dname[c] = n /\ DirentFind(<<m, n>>) = c
                       \/ (\A c \in ToSet(kids[e]) : dname[c] # n) /\ DirentFind(<<m, n>>) \in {NULL, "hang"}
              \/ (\A e \in ToSet(kids[Root]) : dname[e] # m) /\ DirentFind(<<m, n>>) \in {NULL, "hang"}
<1>. DEFINE at0 == [dir |-> Root, found |-> FALSE, hang |-> FALSE]
            at1 == Descend(at0, m)
            at2 == Descend(at1, n)
<1>1. DirentFind(<<>>) = Root
  <2>. DEFINE a == [dir |-> Root, found |-> <<>> = <<>>, hang |-> FALSE]
  <2>1. a.dir = Root /\ a.found /\ ~a.hang
    OBVIOUS
  <2>2. FoldLeft(Descend, a, <<>>) = a
    BY FoldWalks
  <2>. HIDE DEF a
  <2>3. QED
    BY <2>1, <2>2 DEF DirentFind, a
<1>2. DirentFind(<<m>>) = IF at1.hang THEN "hang" ELSE IF at1.found THEN at1.dir ELSE NULL
  <2>1. (<<m>> = <<>>) = FALSE
    OBVIOUS
  <2>2. FoldLeft(Descend, at0, <<m>>) = at1
    BY FoldWalks
  <2>3. QED
    BY <2>1, <2>2 DEF DirentFind
<1>3. DirentFind(<<m, n>>) = IF at2.hang THEN "hang" ELSE IF at2.found THEN at2.dir ELSE NULL
  <2>1. PICK path : path = <<m, n>>
    OBVIOUS
  <2>2. FoldLeft(Descend, at0, path) = at2
    <3>. HIDE DEF at0
    <3>1. Folded(at0, path) = Descend(Descend(at0, m), n)
      BY <2>1, FoldTwo
    <3>2. QED
      BY <3>1 DEF Folded
  <2>3. (path = <<>>) = FALSE
    BY <2>1
  <2>4. DirentFind(path) = IF at2.hang THEN "hang" ELSE IF at2.found THEN at2.dir ELSE NULL
    BY <2>2, <2>3 DEF DirentFind
  <2>5. QED
    BY <2>1, <2>4
<1>4. at0 \in Looks /\ at0.dir = Root /\ ~at0.hang
  BY DirsAssumption DEF Looks
<1>. HIDE DEF at0
<1>5. /\ at1 \in Looks
      /\ \/ ~at1.hang /\ at1.found /\ at1.dir \in ToSet(kids[Root]) /\ dname[at1.dir] = m
         \/ /\ \A e \in ToSet(kids[Root]) : dname[e] # m
            /\ at1.hang \/ (~at1.found /\ at1.dir = Root /\ ToSet(kids[Root]) = {})
  BY <1>4, DescendIs
<1>. HIDE DEF at1
<1>6. /\ at2 \in Looks /\ (at1.hang => at2.hang)
      /\ ~at1.hang =>
            \/ ~at2.hang /\ at2.found /\ at2.dir \in ToSet(kids[at1.dir]) /\ dname[at2.dir] = n
            \/ /\ \A e \in ToSet(kids[at1.dir]) : dname[e] # n
               /\ at2.hang \/ (~at2.found /\ at2.dir = at1.dir /\ ToSet(kids[at1.dir]) = {})
  BY <1>5, DescendIs
<1>. HIDE DEF at2
<1>7. QED
  BY <1>1, <1>2, <1>3, <1>5, <1>6

\* No directory is above the root, and the children of the root have
\* different names.
FindInv ==
    /\ TreeOK
    /\ \A d \in Dirs : Root \notin ToSet(kids[d])
    /\ \A d, e \in ToSet(kids[Root]) : dname[d] = dname[e] => d = e

\* The paths of the directories, by the directories
LEMMA PathsAre ==
    ASSUME TreeOK, NEW path
    PROVE  path \in Paths <=> \/ path = <<>>
                              \/ \E e \in ToSet(kids[Root]) : path = <<dname[e]>>
                              \/ \E e \in ToSet(kids[Root]) : \E c \in ToSet(kids[e]) : path = <<dname[e], dname[c]>>
<1>1. ASSUME NEW d \in Dirs
      PROVE  /\ \A e : e \in ToSet(kids[d]) <=> \E i \in 1..Len(kids[d]) : kids[d][i] = e
             /\ ToSet(kids[d]) \subseteq Dirs /\ Range(kids[d]) = ToSet(kids[d])
  <2>1. kids[d] \in Seq(Dirs)
    BY DEF TreeOK
  <2>2. Range(kids[d]) = ToSet(kids[d])
    BY <2>1 DEF Range, ToSet
  <2>3. QED
    BY <2>1, <2>2, ElementPlace
<1>2. Root \in Dirs
  BY DirsAssumption
<1>3. path \in {<<dname[kids[Root][i]]>> : i \in 1..Len(kids[Root])}
        <=> \E e \in ToSet(kids[Root]) : path = <<dname[e]>>
  BY <1>1, <1>2
<1>4. path \in UNION {{<<dname[d], dname[kids[d][j]]>> : j \in 1..Len(kids[d])} : d \in Range(kids[Root])}
        <=> \E e \in ToSet(kids[Root]) : \E c \in ToSet(kids[e]) : path = <<dname[e], dname[c]>>
  <2>1. Range(kids[Root]) = ToSet(kids[Root]) /\ ToSet(kids[Root]) \subseteq Dirs
    BY <1>1, <1>2
  <2>2. ASSUME NEW e \in ToSet(kids[Root])
        PROVE  path \in {<<dname[e], dname[kids[e][j]]>> : j \in 1..Len(kids[e])}
                 <=> \E c \in ToSet(kids[e]) : path = <<dname[e], dname[c]>>
    <3>1. \A c : c \in ToSet(kids[e]) <=> \E j \in 1..Len(kids[e]) : kids[e][j] = c
      BY <1>1, <2>1
    <3>2. \A j \in 1..Len(kids[e]) : kids[e][j] \in ToSet(kids[e])
      BY <3>1
    <3>3. QED
      BY <3>1, <3>2, Zenon
  <2>3. QED
    BY <2>1, <2>2
<1>5. QED
  BY <1>3, <1>4 DEF Paths

\* dirent_find in a tree without duplicates under the root: what FindRight
\* says of the paths there are, and no directory for one that is missing
LEMMA Finds ==
    ASSUME FindInv
    PROVE  FindRight /\ \A path \in AllPaths \ Paths : DirentFind(path) \in {NULL, "hang"}
<1>1. TreeOK /\ Root \in Dirs /\ NULL \notin Dirs /\ "hang" \notin Dirs
  BY DirsAssumption, FilesAssumption DEF FindInv
<1>2. \A d \in Dirs : ToSet(kids[d]) \subseteq Dirs /\ Root \notin ToSet(kids[d]) /\ Range(kids[d]) = ToSet(kids[d])
  <2>1. SUFFICES ASSUME NEW d \in Dirs
                 PROVE  ToSet(kids[d]) \subseteq Dirs /\ Range(kids[d]) = ToSet(kids[d])
    BY DEF FindInv
  <2>2. kids[d] \in Seq(Dirs)
    BY <1>1 DEF TreeOK
  <2>3. QED
    BY <2>2, ElementPlace DEF Range, ToSet
<1>. DEFINE Right(path) == LET dir == DirentFind(path) IN
                           IF path \notin Paths THEN dir \in {NULL, "hang"}
                           ELSE /\ dir \in Dirs
                                /\ path = <<>> <=> dir = Root
                                /\ path # <<>> => dname[dir] = Last(path) /\ dir \in Range(kids[DirentFind(Front(path))])
<1>3. Right(<<>>)
  <2>1. DirentFind(<<>>) = Root
    BY <1>1, FindIs
  <2>2. <<>> \in Paths
    BY <1>1, PathsAre
  <2>3. QED
    BY <1>1, <2>1, <2>2
<1>4. ASSUME NEW m PROVE Right(<<m>>)
  <2>1. <<m>> \in Paths <=> \E e \in ToSet(kids[Root]) : dname[e] = m
    BY <1>1, PathsAre
  <2>2. \/ \E e \in ToSet(kids[Root]) : dname[e] = m /\ DirentFind(<<m>>) = e
        \/ (\A e \in ToSet(kids[Root]) : dname[e] # m) /\ DirentFind(<<m>>) \in {NULL, "hang"}
    BY <1>1, FindIs
  <2>3. Last(<<m>>) = m /\ Front(<<m>>) = <<>> /\ <<m>> # <<>>
    BY DEF Last, Front
  <2>4. DirentFind(<<>>) = Root
    BY <1>1, FindIs
  <2>5. QED
    BY <1>1, <1>2, <2>1, <2>2, <2>3, <2>4
<1>5. ASSUME NEW m, NEW n PROVE Right(<<m, n>>)
  <2>1. <<m, n>> \in Paths <=> \E e \in ToSet(kids[Root]) : dname[e] = m /\ \E c \in ToSet(kids[e]) : dname[c] = n
    BY <1>1, PathsAre
  <2>2. \/ \E e \in ToSet(kids[Root]) :
              /\ dname[e] = m /\ DirentFind(<<m>>) = e
              /\ \/ \E c \in ToSet(kids[e]) : dname[c] = n /\ DirentFind(<<m, n>>) = c
                 \/ (\A c \in ToSet(kids[e]) : dname[c] # n) /\ DirentFind(<<m, n>>) \in {NULL, "hang"}
        \/ (\A e \in ToSet(kids[Root]) : dname[e] # m) /\ DirentFind(<<m, n>>) \in {NULL, "hang"}
    BY <1>1, FindIs
  <2>3. Last(<<m, n>>) = n /\ Front(<<m, n>>) = <<m>> /\ <<m, n>> # <<>>
    <3>1. PICK u : u = <<m, n>>
      OBVIOUS
    <3>2. u \in Seq({m, n}) /\ Len(u) = 2 /\ u[1] = m /\ u[2] = n
      BY <3>1
    <3>3. SubSeq(u, 1, 1) = <<m>>
      <4>1. SubSeq(u, 1, 1) \in Seq({m, n}) /\ Len(SubSeq(u, 1, 1)) = 1 /\ SubSeq(u, 1, 1)[1] = m
        BY <3>2, SubSeqProperties
      <4>2. PICK v : v = <<m>>
        OBVIOUS
      <4>3. v \in Seq({m, n}) /\ Len(v) = 1 /\ v[1] = m
        BY <4>2
      <4>4. QED
        <5>1. SubSeq(u, 1, 1) = v
          BY <4>1, <4>3, SeqEqual
        <5>2. QED
          BY <4>2, <5>1
    <3>4. Last(u) = n /\ Front(u) = <<m>> /\ u # <<>>
      BY <3>2, <3>3 DEF Last, Front
    <3>5. QED
      BY <3>1, <3>4
  <2>4. \A d, e \in ToSet(kids[Root]) : dname[d] = dname[e] => d = e
    BY DEF FindInv
  <2>5. CASE <<m, n>> \in Paths
    <3>1. PICK e \in ToSet(kids[Root]) : dname[e] = m /\ \E c \in ToSet(kids[e]) : dname[c] = n
      BY <2>1, <2>5
    <3>2. DirentFind(<<m>>) = e /\ e \in Dirs /\ \E c \in ToSet(kids[e]) : dname[c] = n /\ DirentFind(<<m, n>>) = c
      BY <1>1, <1>2, <2>2, <2>4, <3>1
    <3>3. QED
      BY <1>2, <2>3, <2>5, <3>2
  <2>6. CASE <<m, n>> \notin Paths
    BY <2>1, <2>2, <2>6
  <2>7. QED
    BY <2>5, <2>6
<1>6. ASSUME NEW path \in AllPaths
      PROVE  path = <<>> \/ (\E m : path = <<m>>) \/ (\E m, n : path = <<m, n>>)
  BY <1>1, PathsAre DEF AllPaths
<1>. HIDE DEF Right
<1>7. \A path \in AllPaths : Right(path)
  BY <1>3, <1>4, <1>5, <1>6
<1>8. Paths \subseteq AllPaths
  BY DEF AllPaths
<1>9. QED
  BY <1>7, <1>8 DEF Right, FindRight

\* mkdir looks for its parent only, and callers for the new name.
LEMMA MkdirFinds ==
    ASSUME FindInv, "duplicate" \notin Rash, NEW path \in Known, NEW name \in DirNames, NEW d \in Dirs,
           Mkdir(path, name, d)
    PROVE  FindInv'
<1>. DEFINE p == DirentFind(path)
<1>1. TreeOK /\ Root \in Dirs /\ NULL \notin Dirs /\ "hang" \notin Dirs
  BY DirsAssumption, FilesAssumption DEF FindInv
<1>2. TreeOK' /\ (UNCHANGED <<kids, dname>> \/ Mounted(p, d, name)) /\ Append(path, name) \notin Paths
  BY <1>1, MkdirTree DEF Mkdir
<1>3. p = Root => path = <<>>
  <2>1. path \in AllPaths
    BY DEF Known, AllPaths
  <2>2. /\ path \notin Paths => p \in {NULL, "hang"}
        /\ path \in Paths => (path = <<>> <=> p = Root)
    BY <2>1, Finds DEF FindRight
  <2>3. QED
    BY <1>1, <2>2
<1>4. p = Root => \A e \in ToSet(kids[Root]) : dname[e] # name
  <2>1. SUFFICES ASSUME path = <<>>, NEW e \in ToSet(kids[Root]), dname[e] = name
                 PROVE  FALSE
    BY <1>3
  <2>2. Append(path, name) = <<name>>
    BY <2>1
  <2>3. <<name>> \in Paths
    BY <1>1, <2>1, PathsAre
  <2>4. QED
    BY <1>2, <2>2, <2>3
<1>. HIDE DEF p
<1>5. CASE UNCHANGED <<kids, dname>>
  BY <1>5 DEF FindInv, TreeOK
<1>6. CASE Mounted(p, d, name)
  <2>1. \A c \in Dirs : Root \notin ToSet(kids'[c])
    BY <1>6 DEF FindInv, Mounted
  <2>2. ToSet(kids[Root]) \subseteq Dirs \ {d}
    <3>1. kids[Root] \in Seq(Dirs) /\ \A e \in ToSet(kids[Root]) : dname[e] # NULL
      BY <1>1 DEF TreeOK
    <3>2. ToSet(kids[Root]) \subseteq Dirs
      BY <3>1, ElementPlace
    <3>3. QED
      BY <1>6, <3>1, <3>2 DEF Mounted
  <2>3. /\ ToSet(kids'[Root]) = IF Root = p THEN {d} \cup ToSet(kids[Root]) ELSE ToSet(kids[Root])
        /\ dname'[d] = name /\ \A e \in ToSet(kids[Root]) : dname'[e] = dname[e]
    BY <1>1, <1>6, <2>2 DEF Mounted
  <2>4. \A c, e \in ToSet(kids[Root]) : dname[c] = dname[e] => c = e
    BY DEF FindInv
  <2>5. \A c, e \in ToSet(kids'[Root]) : dname'[c] = dname'[e] => c = e
    BY <1>4, <2>3, <2>4
  <2>6. QED
    BY <1>2, <2>1, <2>5 DEF FindInv
<1>7. QED
  BY <1>2, <1>5, <1>6

LEMMA StepFinds ==
    ASSUME FindInv, "duplicate" \notin Rash, [VfsNext]_vfsVars
    PROVE  FindInv'
<1>1. CASE UNCHANGED <<kids, dname>>
  BY <1>1 DEF FindInv, TreeOK
<1>2. CASE UNCHANGED vfsVars
  BY <1>1, <1>2 DEF vfsVars, treeVars
<1>3. ASSUME NEW t \in Callers, VfsCall(t)
      PROVE  FindInv'
  <2>1. UNCHANGED <<kids, dname>>
    BY <1>3 DEF VfsCall, VfsOpen, OpenResume, Close, Read, Write, Lseek, Opendir, Readdir, Closedir, Hang, treeVars
  <2>2. QED
    BY <1>1, <2>1
<1>4. ASSUME NEW path \in Known, NEW name \in DirNames, NEW d \in Dirs, Mkdir(path, name, d)
      PROVE  FindInv'
  BY <1>4, MkdirFinds
<1>5. ASSUME NEW path, NEW name, Unlink(path, name)
      PROVE  FindInv'
  BY <1>1, <1>5 DEF Unlink, Hang, treeVars
<1>6. QED
  BY <1>2, <1>3, <1>4, <1>5 DEF VfsNext

\* dirent_find follows every path there is to the directory it leads to and
\* goes round for ever on none of them, as long as nobody makes a directory
\* twice (which mkdir does not look for).
THEOREM DirectoriesFound ==
    ASSUME "duplicate" \notin Rash
    PROVE  VfsSpec => []FindRight
<1>1. VfsInit => FindInv
  <2>1. SUFFICES ASSUME VfsInit PROVE FindInv
    OBVIOUS
  <2>2. TreeOK
    BY <2>1, InitReads DEF ListInv
  <2>3. kids = [d \in Dirs |-> IF d = Root THEN <<RamDir, RomDir, DevDir>> ELSE <<>>]
        /\ dname = [d \in Dirs |-> IF d \in {Root, RomDir, RamDir, DevDir} THEN d ELSE NULL]
    BY <2>1 DEF VfsInit
  <2>4. {RomDir, RamDir, DevDir} \subseteq Dirs \ {Root} /\ Root \in Dirs
    BY DirsAssumption
  <2>5. \A d \in Dirs : ToSet(kids[d]) = IF d = Root THEN {RamDir, RomDir, DevDir} ELSE {}
    BY <2>3 DEF ToSet
  <2>6. \A d \in {RamDir, RomDir, DevDir} : dname[d] = d
    BY <2>3, <2>4
  <2>7. QED
    BY <2>2, <2>4, <2>5, <2>6 DEF FindInv
<1>2. FindInv /\ [VfsNext]_vfsVars => FindInv'
  BY StepFinds
<1>3. FindInv => FindRight
  BY Finds
<1>4. QED
  BY <1>1, <1>2, <1>3, PTL DEF VfsSpec
=============================================================================
