-------------------------------- MODULE Vfs --------------------------------
(***************************************************************************)
(* The virtual file system: fs/{vfs,open_close,read_write,dirent,ramfs,    *)
(* romfs}.c, the files of lib/crt that call it, and the device files of    *)
(* drivers/core/core.c and drivers/flash/flash.c.                          *)
(*                                                                         *)
(* The kernel is cooperative: a call runs until it returns or waits for    *)
(* the mutex of a device, which is the recursive lock of AbstractLock.     *)
(* vfs_open writes to the file before that wait and after it, and a romfs  *)
(* file opens the flash device on its own way to being open.  A path is    *)
(* the sequence of the names of its directories, apart from the name of    *)
(* the file (basepath and basename).  What files hold is left out, but for *)
(* the copy of a romfs file in data memory.                                *)
(***************************************************************************)
EXTENDS Integers, Sequences, FiniteSets, SequencesExt

CONSTANTS
    Callers,     \* threads that use the file system
    Dirs, Root,  \* struct dirent, allocated or not
    RomDir, RamDir, DevDir,  \* the directories made at boot, each its own name
    RamFiles,    \* struct ramfs_file, allocated or not
    RomFiles,    \* the files of the romfs image, each its own name
    Devices,     \* the other device files, each its own name
    FileNames,   \* names ramfs files are created with
    DirNames,    \* names mkdir is called with
    Flash,       \* the device romfs_open reads
    NULL,
    MAX_OPEN,    \* entries of __iob
    RAMFS_BUFFER_SIZE,
    RomLength,   \* bytes of a romfs file
    Sizes,       \* lengths of reads and writes
    MaxIndex,    \* bound on the places in a file
    Work,        \* the mixes of calls to explore: "dirs", "io" or both
    Rash         \* what callers do that the code does not stand, see Careful

ASSUME FdAssumption == MAX_OPEN \in Nat /\ MAX_OPEN > 3
ASSUME DirsAssumption ==
    {RomDir, RamDir, DevDir} \subseteq Dirs \ {Root} /\ Root \in Dirs
    /\ RomDir # RamDir /\ DevDir \notin {RomDir, RamDir}
ASSUME RashAssumption ==
    Rash \subseteq {"missing", "duplicate", "reopen", "full", "flash", "abandon"}

ASSUME SizesAssumption ==
    Sizes \subseteq Nat /\ {MaxIndex, RAMFS_BUFFER_SIZE, RomLength} \subseteq Nat

VARIABLES
    kids,     \* dirent->children, most recent first
    dname,    \* dirent->name
    fs,       \* dirent->fs
    entries,  \* dirent->file_head, most recent first
    file,     \* struct file of each file
    iob,      \* __iob
    mutex,    \* device->dev_lock: its owner and its count
    call,     \* what each caller waits for inside vfs_open
    held,     \* the descriptors open() gave each caller
    listing,  \* the directory each caller reads, or NULL
    rdEntry,  \* readdir's static entry
    work,     \* the calls made in this behaviour, beside open and close of ramfs files
    hung      \* the CPU loops with interrupts or preemption off

treeVars == <<kids, dname, fs, entries>>
openVars == <<file, iob, mutex, call, held>>
vfsVars  == <<treeVars, openVars, listing, rdEntry, work, hung>>

Files == RamFiles \cup RomFiles \cup Devices \cup {Flash}
DevFiles == Devices \cup {Flash}
Fds == 0..(MAX_OPEN - 1)

\* The streams a program starts with; a file of no interest is behind them.
Std == "std"

\* A struct file is one of one file system, a number of threads is running, and
\* no object is at address NULL.
ASSUME FilesAssumption ==
    /\ RamFiles \cap (RomFiles \cup DevFiles) = {} /\ RomFiles \cap DevFiles = {}
    /\ Std \notin Files \cup {NULL} /\ Flash \notin Devices
    /\ NULL \notin Files \cup Dirs \cup FileNames \cup DirNames \cup Callers /\ "hang" \notin Dirs
    /\ NULL \notin [dir : Dirs, seen : Seq(Dirs \cup {NULL}), all : SUBSET Dirs]
    /\ IsFiniteSet(Callers) /\ IsFiniteSet(RomFiles) /\ IsFiniteSet(Devices)

\* What a struct file is when kzalloc returns it
Fresh == [name |-> NULL, fd |-> 0, mode |-> {}, index |-> 0, rd |-> 0, wr |-> 0,
          size |-> 0, locked |-> FALSE, data |-> "none", uses |-> 0]

----------------------------------------------------------------------------
(* dirent.c *)

Descend_FromRoot(at, name) ==
    LET k == SelectInSeq(kids[Root], LAMBDA d : dname[d] = name) IN
    IF at.hang THEN at
    ELSE IF k = 0 THEN [at EXCEPT !.hang = TRUE]
    ELSE [at EXCEPT !.dir = kids[Root][k], !.found = TRUE]

\* One component of the path in dirent_find.  The loop over the children
\* assigns to the variable its own end is computed from: when no child of a
\* directory that has some matches, it goes round for ever.
Descend(at, name) ==
    LET k == SelectInSeq(kids[at.dir], LAMBDA d : dname[d] = name) IN
    IF at.hang THEN at
    ELSE IF kids[at.dir] = <<>> THEN [at EXCEPT !.found = FALSE]
    ELSE IF k = 0 THEN [at EXCEPT !.hang = TRUE]
    ELSE [at EXCEPT !.dir = kids[at.dir][k], !.found = TRUE]

\* dirent_find: a directory, NULL or no return
DirentFind(path) ==
    LET end == FoldLeft(Descend, [dir |-> Root, found |-> path = <<>>, hang |-> FALSE], path)
    IN  IF end.hang THEN "hang" ELSE IF end.found THEN end.dir ELSE NULL

\* dirent_find_file
DirentFindFile(dir, name) ==
    LET k == SelectInSeq(entries[dir], LAMBDA f : file[f].name = name)
    IN  IF k = 0 THEN NULL ELSE entries[dir][k]

\* The paths of the directories there are, two levels deep
Paths == {<<>>} \cup {<<dname[kids[Root][i]]>> : i \in 1..Len(kids[Root])}
         \cup UNION {{<<dname[d], dname[kids[d][j]]>> : j \in 1..Len(kids[d])} : d \in Range(kids[Root])}

AllPaths == Paths \cup {<<n>> : n \in DirNames} \cup {<<m, n>> : m, n \in DirNames}

\* Callers look up directories that exist, unless they are rash.
Known == IF "missing" \in Rash THEN AllPaths ELSE Paths

\* A call of this kind can be made.
Can(kind) == ~hung /\ kind \in work

Hang == hung' = TRUE /\ UNCHANGED <<treeVars, openVars, listing, rdEntry, work>>

\* mkdir: the parent is looked up, the new directory is not
Mkdir(path, name, d) ==
    /\ Can("dirs")
    /\ "duplicate" \in Rash \/ Append(path, name) \notin Paths
    /\ LET parent == DirentFind(path) IN
       \/ parent = "hang" /\ Hang
       \/ /\ parent \in Dirs
          /\ d \in Dirs \ {Root} /\ dname[d] = NULL
          /\ kids' = [kids EXCEPT ![parent] = <<d>> \o @]
          /\ dname' = [dname EXCEPT ![d] = name]
          /\ fs' = [fs EXCEPT ![d] = fs[parent]]
          /\ UNCHANGED <<entries, openVars, listing, rdEntry, work, hung>>

\* unlink: the struct file is not freed
Unlink(path, name) ==
    /\ ~hung
    /\ LET dir == DirentFind(path) IN
       \/ dir = "hang" /\ Hang
       \/ /\ dir \in Dirs
          /\ DirentFindFile(dir, name) # NULL
          /\ entries' = [entries EXCEPT ![dir] = RemoveFirst(@, DirentFindFile(dir, name))]
          /\ UNCHANGED <<kids, dname, fs, openVars, listing, rdEntry, work, hung>>

\* opendir
Opendir(t, path) ==
    /\ Can("dirs")
    /\ listing[t] = NULL
    /\ "abandon" \in Rash \/ \A u \in Callers : listing[u] = NULL
    /\ LET dir == DirentFind(path) IN
       \/ dir = "hang" /\ Hang
       \/ /\ dir \in Dirs
          /\ listing' = [listing EXCEPT ![t] = [dir |-> dir, seen |-> <<>>, all |-> Range(kids[dir])]]
          /\ UNCHANGED <<treeVars, openVars, rdEntry, work, hung>>

\* readdir_r: what follows entry among the children; the first if it is NULL
ReaddirNext_Same(dir, entry) ==
    IF entry # NULL \/ kids[dir] = <<>> THEN entry ELSE kids[dir][1]

ReaddirNext(dir, entry) ==
    LET k == IF entry = NULL THEN 0 ELSE SelectInSeq(kids[dir], LAMBDA d : d = entry)
    IN  IF (entry # NULL /\ k = 0) \/ k = Len(kids[dir]) THEN NULL ELSE kids[dir][k + 1]

AtEnd(list) == list.seen # <<>> /\ Last(list.seen) = NULL

\* readdir; a caller that gets NULL has seen the directory
Readdir(t) ==
    /\ Can("dirs")
    /\ listing[t] # NULL /\ ~AtEnd(listing[t])
    /\ rdEntry' = ReaddirNext(listing[t].dir, rdEntry)
    /\ listing' = [listing EXCEPT ![t].seen = Append(@, rdEntry')]
    /\ UNCHANGED <<treeVars, openVars, work, hung>>

Closedir(t) ==
    /\ Can("dirs")
    /\ listing[t] # NULL
    /\ "abandon" \in Rash \/ AtEnd(listing[t])
    /\ listing' = [listing EXCEPT ![t] = NULL]
    /\ UNCHANGED <<treeVars, openVars, rdEntry, work, hung>>

----------------------------------------------------------------------------
(* Descriptors *)

FreeFds(io) == {fd \in 3..(MAX_OPEN - 1) : io[fd] = NULL}

\* iob_add: nothing happens when there is no entry left
IobAdd(s, f) ==
    IF FreeFds(s.io) = {} THEN s
    ELSE LET fd == Min(FreeFds(s.io))
         IN  [s EXCEPT !.io[fd] = f, !.fl[f].fd = fd]

IobRemove_KeepsEntry(s, fd) == [s EXCEPT !.fl[s.io[fd]].fd = 0]

\* iob_remove
IobRemove(s, fd) == [s EXCEPT !.io[fd] = NULL, !.fl[s.io[fd]].fd = 0]

\* dev_lock and dev_unlock
Available(mx, dev, t) == mx[dev].owner \in {NULL, t}
DevLock(s, dev, t) == [s EXCEPT !.mx[dev] = [owner |-> t, count |-> @.count + 1]]
DevUnlock(s, dev) ==
    [s EXCEPT !.mx[dev] = IF @.count = 1 THEN [owner |-> NULL, count |-> 0]
                          ELSE [@ EXCEPT !.count = @ - 1]]

RomfsClose_KeepsCopy(s, f) ==
    [s EXCEPT !.fl[f].uses = @ - 1, !.fl[f].index = IF s.fl[f].uses = 1 THEN 0 ELSE @]

\* romfs_close: the copy goes with the last use
RomfsClose(s, f) ==
    IF s.fl[f].uses = 1
    THEN [s EXCEPT !.fl[f].uses = 0, !.fl[f].data = "none", !.fl[f].index = 0]
    ELSE [s EXCEPT !.fl[f].uses = @ - 1]

\* file->close: ramfs_close, romfs_close, or dev_unlock
FileClose(s, f) ==
    CASE f \in RamFiles -> [s EXCEPT !.fl[f].rd = 0, !.fl[f].wr = 0, !.fl[f].locked = FALSE]
      [] f \in RomFiles -> RomfsClose(s, f)
      [] f \in DevFiles -> DevUnlock(s, f)
      [] OTHER -> s

\* vfs_close: the mode is cleared last, when a device is unlocked already
VfsClose(s, fd) ==
    LET f == s.io[fd] IN
    IF f = NULL THEN s
    ELSE [IobRemove(FileClose(s, f), fd) EXCEPT !.fl[f].mode = {}]

\* The rest of romfs_open once /dev/flash is open: the file is copied through
\* the descriptor of the flash device, which is closed again.
RomfsCopy(s, f, t) ==
    LET dev  == IobAdd(DevLock(s, Flash, t), Flash)
        fd   == dev.fl[Flash].fd
        copy == IF dev.io[fd] = Flash /\ "READ" \in dev.fl[Flash].mode THEN "copy" ELSE "zero"
        read == IF copy = "copy" THEN [dev EXCEPT !.fl[Flash].index = RomLength] ELSE dev
    IN  [VfsClose(read, fd) EXCEPT !.fl[f].data = copy, !.fl[f].uses = @ + 1]

\* ramfs_open
RamfsOpen(r, mode) ==
    IF "APPEND" \in mode THEN [r EXCEPT !.locked = TRUE, !.wr = r.index, !.mode = mode]
    ELSE [r EXCEPT !.locked = TRUE, !.index = 0, !.mode = mode]

----------------------------------------------------------------------------
(* open_close.c *)

Here == [fl |-> file, io |-> iob, mx |-> mutex]
Become(s) == file' = s.fl /\ iob' = s.io /\ mutex' = s.mx

\* vfs_open returns the number in file->fd.
Opened(t, s, f) ==
    /\ Become(IobAdd(s, f))
    /\ held' = [held EXCEPT ![t] = @ \cup {[fd |-> IobAdd(s, f).fl[f].fd, f |-> f]}]
    /\ call' = [call EXCEPT ![t] = NULL]

\* The caller waits in mutex_lock with the modes already written.
Waits(t, s, f, dev) ==
    /\ Become(s)
    /\ call' = [call EXCEPT ![t] = [f |-> f, dev |-> dev]]
    /\ UNCHANGED held

\* vfs_open of a file that was found
OpenFound(t, f, mode) ==
    LET s == [Here EXCEPT !.fl[f].mode = mode]
        n == [s EXCEPT !.fl[Flash].mode = {"READ"}]
    IN  \/ /\ f \in RamFiles /\ ~file[f].locked
           /\ Opened(t, [s EXCEPT !.fl[f] = RamfsOpen(file[f], mode)], f)
           /\ UNCHANGED hung
        \/ /\ f \in RamFiles /\ file[f].locked
           /\ hung' = TRUE
           /\ UNCHANGED openVars
        \/ /\ f \in RomFiles /\ file[f].data # "none"
           /\ Become(s)
           /\ UNCHANGED <<call, held, hung>>
        \/ /\ f \in RomFiles /\ file[f].data = "none"
           /\ \/ Available(mutex, Flash, t) /\ Opened(t, RomfsCopy(n, f, t), f)
              \/ ~Available(mutex, Flash, t) /\ Waits(t, n, f, Flash)
           /\ UNCHANGED hung
        \/ /\ f \in DevFiles
           /\ \/ Available(mutex, f, t) /\ Opened(t, DevLock(s, f, t), f)
              \/ ~Available(mutex, f, t) /\ Waits(t, s, f, f)
           /\ UNCHANGED hung

\* What callers need to take care of: a file is opened once (devices may be
\* waited for), the table does not fill up, nobody but romfs uses the flash.
Careful(t, f) ==
    /\ "reopen" \in Rash
       \/ (f \notin {h.f : h \in held[t]} /\ (f \in RamFiles => ~file[f].locked))
    /\ "full" \in Rash
       \/ Cardinality(FreeFds(iob)) > 1 + Cardinality({u \in Callers : call[u] # NULL})
    /\ "flash" \in Rash \/ f # Flash

\* ramfs_create: the struct ramfs_file of a new file
RamfsCreate(name) == [Fresh EXCEPT !.name = name, !.size = RAMFS_BUFFER_SIZE]

\* vfs_open, and ramfs_create when there is no such file
VfsOpen(t, path, name, mode) ==
    /\ ~hung
    /\ call[t] = NULL
    /\ LET dir == DirentFind(path) IN
       \/ dir = "hang" /\ Hang
       \/ /\ dir \in Dirs /\ DirentFindFile(dir, name) # NULL
          /\ Careful(t, DirentFindFile(dir, name))
          /\ OpenFound(t, DirentFindFile(dir, name), mode)
          /\ UNCHANGED <<treeVars, listing, rdEntry, work>>
       \/ /\ dir \in Dirs /\ DirentFindFile(dir, name) = NULL /\ fs[dir] = "ramfs"
          /\ \E f \in {g \in RamFiles : file[g].name = NULL} :
              /\ Careful(t, f)
              /\ entries' = [entries EXCEPT ![dir] = <<f>> \o @]
              /\ Opened(t, [Here EXCEPT !.fl[f] = RamfsOpen(RamfsCreate(name), mode)], f)
          /\ UNCHANGED <<kids, dname, fs, listing, rdEntry, work, hung>>

\* mutex_lock returns, and vfs_open goes on
OpenResume(t) ==
    /\ ~hung
    /\ call[t] # NULL
    /\ Available(mutex, call[t].dev, t)
    /\ LET f == call[t].f
           s == IF f \in RomFiles THEN RomfsCopy(Here, f, t) ELSE DevLock(Here, f, t)
       IN  Opened(t, s, f)
    /\ UNCHANGED <<treeVars, listing, rdEntry, work, hung>>

\* close
Close(t, h) ==
    /\ ~hung
    /\ call[t] = NULL /\ h \in held[t]
    /\ Become(VfsClose(Here, h.fd))
    /\ held' = [held EXCEPT ![t] = @ \ {h}]
    /\ UNCHANGED <<call, treeVars, listing, rdEntry, work, hung>>

----------------------------------------------------------------------------
(* Reading and writing: read_write.c and the operations of the file systems *)

RamfsExpand_ByRequired(r, n) ==
    IF r.wr + n >= RAMFS_BUFFER_SIZE THEN [r EXCEPT !.size = RAMFS_BUFFER_SIZE + n] ELSE r

\* ramfs_expand: file->length stays what it is, so that a file that was longer
\* may become shorter.  (When krealloc fails nothing changes.)
RamfsExpand(r, n) ==
    IF r.wr + n >= RAMFS_BUFFER_SIZE THEN [r EXCEPT !.size = r.wr + n + 1] ELSE r

\* How far an index below the length of a buffer goes, and no further
Upto(at, n, length) == IF at >= length THEN at ELSE Min({at + n, length})

\* ramfs_write
RamfsWrite(r, n) ==
    [RamfsExpand(r, n) EXCEPT !.wr = Upto(@, n, RAMFS_BUFFER_SIZE), !.index = @ + n]

\* ramfs_putc
RamfsPutc(r) == [RamfsExpand(r, 1) EXCEPT !.wr = @ + 1, !.index = @ + 1]

\* ramfs_read and ramfs_getc, which does not stop at the end of the buffer
RamfsReads(r, n) ==
    {[r EXCEPT !.rd = Upto(@, n, RAMFS_BUFFER_SIZE)]}
    \cup (IF n = 1 THEN {[r EXCEPT !.rd = @ + 1]} ELSE {})

\* romfs_read and romfs_getc
RomfsRead(r, n) == [r EXCEPT !.index = Upto(@, n, RomLength)]

\* eeprom_write, eeprom_read and the like: the index moves on, whatever the
\* chip says
DeviceMoves(r, n) == [r EXCEPT !.index = @ + n]

\* How far callers go in a file
Bound(f) == IF f \in RamFiles THEN MaxIndex ELSE RomLength

\* write and putc; a romfs file has no operation for them
Write(t, h, n) ==
    /\ Can("io")
    /\ call[t] = NULL /\ h \in held[t] /\ h.f = iob[h.fd]
    /\ "WRITE" \in file[h.f].mode /\ h.f \notin RomFiles
    /\ file[h.f].index + n <= Bound(h.f) /\ file[h.f].wr + n <= Bound(h.f)
    /\ \/ file' = [file EXCEPT ![h.f] = IF h.f \in RamFiles THEN RamfsWrite(@, n)
                                         ELSE DeviceMoves(@, n)]
       \/ n = 1 /\ h.f \in RamFiles /\ file' = [file EXCEPT ![h.f] = RamfsPutc(@)]
    /\ UNCHANGED <<iob, mutex, call, held, treeVars, listing, rdEntry, work, hung>>

\* read and getc
Read(t, h, n) ==
    /\ Can("io")
    /\ call[t] = NULL /\ h \in held[t] /\ h.f = iob[h.fd]
    /\ "READ" \in file[h.f].mode
    /\ file[h.f].index + n <= Bound(h.f) /\ file[h.f].rd + n <= Bound(h.f)
    /\ \E r \in CASE h.f \in RamFiles -> RamfsReads(file[h.f], n)
                  [] h.f \in RomFiles -> {RomfsRead(file[h.f], n)}
                  [] OTHER -> {DeviceMoves(file[h.f], n)} :
          file' = [file EXCEPT ![h.f] = r]
    /\ UNCHANGED <<iob, mutex, call, held, treeVars, listing, rdEntry, work, hung>>

\* lseek, whatever the new index is reckoned from
Lseek(t, h, to) ==
    /\ Can("io")
    /\ call[t] = NULL /\ h \in held[t] /\ h.f = iob[h.fd]
    /\ to # file[h.f].index /\ to <= Bound(h.f)
    /\ file' = [file EXCEPT ![h.f] =
          IF h.f \in RamFiles THEN [@ EXCEPT !.index = to, !.rd = 0, !.wr = 0]
          ELSE [@ EXCEPT !.index = to]]
    /\ UNCHANGED <<iob, mutex, call, held, treeVars, listing, rdEntry, work, hung>>

----------------------------------------------------------------------------
(* The specification: callers start when vfs_init, romfs_rollout, ramfs_init *)
(* and the drivers have run.                                                 *)

\* The modes files are opened with; a romfs file has no operation that writes
Modes(name) ==
    CASE name \in RomFiles -> {{"READ"}}
      [] name \in DevFiles -> {{"READ"}, {"WRITE"}}
      [] OTHER -> {{"READ"}, {"WRITE"}, {"WRITE", "APPEND"}}

VfsInit ==
    /\ kids = [d \in Dirs |-> IF d = Root THEN <<RamDir, RomDir, DevDir>> ELSE <<>>]
    /\ dname = [d \in Dirs |-> IF d \in {Root, RomDir, RamDir, DevDir} THEN d ELSE NULL]
    /\ fs = [d \in Dirs |-> CASE d = RomDir -> "romfs" [] d = RamDir -> "ramfs"
                               [] d = DevDir -> "devfs" [] OTHER -> NULL]
    /\ entries = [d \in Dirs |-> CASE d = RomDir -> SetToSeq(RomFiles)
                                   [] d = DevDir -> SetToSeq(DevFiles) [] OTHER -> <<>>]
    /\ file = [f \in Files \cup {Std} |->
                 IF f \in RamFiles THEN Fresh ELSE [Fresh EXCEPT !.name = f]]
    /\ iob = [fd \in Fds |-> IF fd < 3 THEN Std ELSE NULL]
    /\ mutex = [d \in DevFiles |-> [owner |-> NULL, count |-> 0]]
    /\ call = [t \in Callers |-> NULL]
    /\ held = [t \in Callers |-> {}]
    /\ listing = [t \in Callers |-> NULL]
    /\ rdEntry = NULL
    /\ work \in Work
    /\ hung = FALSE

\* Names of files; romfs and device files are opened with the "io" calls.
Names == FileNames \cup (IF "io" \in work THEN RomFiles \cup DevFiles ELSE {})

VfsCall(t) ==
    \/ \E path \in Known, name \in Names :
           \E mode \in Modes(name) : VfsOpen(t, path, name, mode)
    \/ OpenResume(t)
    \/ \E h \in held[t] : Close(t, h)
    \/ \E h \in held[t], n \in Sizes : Read(t, h, n)
    \/ \E h \in held[t], n \in Sizes : Write(t, h, n)
    \/ \E h \in held[t], to \in 0..MaxIndex : Lseek(t, h, to)
    \/ \E path \in Known : Opendir(t, path)
    \/ Readdir(t)
    \/ Closedir(t)

VfsNext ==
    \/ \E t \in Callers : VfsCall(t)
    \/ \E path \in Known, name \in DirNames, d \in Dirs : Len(path) < 2 /\ Mkdir(path, name, d)
    \/ \E path \in Known, name \in FileNames : Unlink(path, name)

VfsSpec == VfsInit /\ [][VfsNext]_vfsVars

----------------------------------------------------------------------------
(* Properties *)

\* vfs_open and vfs_close keep the table of descriptors and the descriptors
\* in the files in step: an entry of __iob from 3 up is one that one caller
\* got from open and has not closed, under the number the file knows.
DescriptorsSound ==
    \A fd \in 3..(MAX_OPEN - 1) :
        LET open == {p \in UNION {{t} \X held[t] : t \in Callers} : p[2].fd = fd} IN
        /\ Cardinality(open) = (IF iob[fd] = NULL THEN 0 ELSE 1)
        /\ \A p \in open : iob[fd] = p[2].f /\ file[p[2].f].fd = fd

\* What opening a file takes is given back by closing it and not before: the
\* lock of a ramfs file, the copy of a romfs file, the mutex of a device.
HeldWhileOpen ==
    \A f \in Files :
        LET open == {fd \in Fds : iob[fd] = f} IN
        /\ f \in RamFiles => (file[f].locked <=> open # {})
        /\ f \in RomFiles => file[f].uses = Cardinality(open) /\ (file[f].data # "none" <=> open # {})
        /\ f \in DevFiles =>
              /\ mutex[f].count = Cardinality(open)
              /\ \A t \in Callers : mutex[f].owner = t <=> \E h \in held[t] : h.f = f

\* dirent_find follows every path there is to its last component, whatever
\* was made beside it, and goes round for ever on none of them.
FindRight ==
    \A path \in Paths :
        LET dir == DirentFind(path) IN
        /\ dir \in Dirs
        /\ path = <<>> <=> dir = Root
        /\ path # <<>> => dname[dir] = Last(path) /\ dir \in Range(kids[DirentFind(Front(path))])

\* A caller that reads a directory to the end gets every directory that was
\* there when it began, and none twice, whatever is made meanwhile.
ListedAll ==
    \A t \in Callers : listing[t] # NULL =>
        LET seen == listing[t].seen IN
        /\ Cardinality(Range(seen)) = Len(seen)
        /\ AtEnd(listing[t]) => listing[t].all \subseteq Range(seen)

\* ramfs_write and ramfs_putc write inside the buffer ramfs_expand made.
WritesInside ==
    [][\A f \in RamFiles : (file[f].locked /\ file'[f].wr > file[f].wr)
                            => file'[f].wr <= file'[f].size]_vfsVars

\* The data of an open romfs file is the copy of the image romfs_open made.
RomCopied ==
    \A f \in RomFiles : (\E fd \in Fds : iob[fd] = f) => file[f].data = "copy"

\* dirent.c:63 "@retval NULL if the directory could not be found": dirent_find
\* returns no directory for a path that leads nowhere, and it returns.
FindNull ==
    \A path \in AllPaths \ Paths : DirentFind(path) = NULL
=============================================================================
