------------------------------ MODULE Session ------------------------------
(***************************************************************************)
(* A script session (script.c): commands that edit a partition table in    *)
(* memory, commands that write at once, WRITE, and the DOS handlers that   *)
(* run on the partitions meanwhile (quickformat.c).  A command that does   *)
(* not return RETURN_OK ends the session.  The resize, clone and format    *)
(* engines have modules of their own; here they succeed or fail, and what  *)
(* matters is which cylinders they were let loose on.                      *)
(***************************************************************************)
EXTENDS Integers, SequencesExt, FiniteSetsExt

CONSTANTS Names,     \* drive names
          Aliases,   \* DPF0..DPF9, the names a mount falls back on
          Live,      \* the names whose file system can be remounted (FFS)
          TopCyl,      \* last cylinder of every device; cylinder 0 holds the tables
          Slots,     \* extents an MBR partition can have
          MaxParts,  \* MAX_PARTITIONS
          MaxDrivers,\* MAX_FILESYSTEMS
          Starts,    \* what the hard disk may hold at the beginning
          Images,    \* what an image file may hold
          NoTable,   \* a device without a table
          NoMbr,     \* a device without an MBR
          MaxCommands

HD == "hd"          \* a hard disk with live handlers
Img == "img"        \* an image file
Devices == {HD, Img}
NoDevice == "none"

Cyls == 0..TopCyl
Parts == [name : Names, lo : 1..TopCyl, hi : 1..TopCyl, want : BOOLEAN]
Records == [home : 0..1, top : Cyls, drivers : 0..MaxDrivers, parts : Seq(Parts), cut : BOOLEAN]
Tables == Records \cup {NoTable}

Media == [t : [0..1 -> Tables], mbr : {NoMbr} \cup SUBSET Slots, new : SUBSET Cyls]

\* The partitions of a table, and that they lie apart and below its last cylinder.
PartsOf(t) == IF t = NoTable THEN {} ELSE Range(t.parts)
Span(p) == p.lo..p.hi
Disjoint(t) == t # NoTable =>
    \A i, j \in DOMAIN t.parts :
        /\ t.parts[i].lo <= t.parts[i].hi
        /\ i # j => Span(t.parts[i]) \cap Span(t.parts[j]) = {}
Inside(t) == t # NoTable => \A i \in DOMAIN t.parts : t.parts[i].hi <= t.top

ASSUME SessionAssumption ==
    /\ TopCyl \in Nat \ {0} /\ {MaxParts, MaxDrivers, MaxCommands} \subseteq Nat
    /\ Live \subseteq Names /\ NoTable \notin Records
    /\ \A s \in Starts \cup Images :
          /\ s \in Media /\ s.new = {}
          /\ NoTable \in {s.t[0], s.t[1]} /\ (s.t[0] # NoTable => s.mbr = NoMbr)
          /\ \A h \in 0..1 : LET t == s.t[h] IN
                /\ Disjoint(t) /\ Inside(t) /\ \A p \in PartsOf(t) : ~p.want
                /\ t # NoTable => t.home = h /\ Len(t.parts) <= MaxParts

VARIABLES disk,   \* device -> the table with its header in block 0 or 1, the MBR
                  \* partitions, the cylinders the session has written
          st,     \* struct ScriptState
          dos,    \* the DOS list: one entry for each mounted partition
          file,   \* the last backup file
          rc,     \* how the last command returned; the session runs while "ok"
          n,      \* commands executed
          ghost   \* what the session was told to touch, and what it did

vars == <<disk, st, dos, file, rc, n, ghost>>

\* RDB_Read scans upwards; a chain cut by a bad block gives the entries before it.
OnDisk(dk) == IF dk.t[0] # NoTable THEN dk.t[0] ELSE dk.t[1]
Read(dk) == LET t == OnDisk(dk)
            IN  IF t = NoTable \/ ~t.cut THEN t ELSE [t EXCEPT !.parts = Front(@)]
ReadMbr(dk) == IF dk.t[0] # NoTable THEN NoMbr ELSE dk.mbr

\* What the table is without the session's own notes.
Plain(t) == IF t = NoTable THEN t
            ELSE [t EXCEPT !.parts = [i \in DOMAIN @ |-> [@[i] EXCEPT !.want = FALSE]],
                           !.cut = FALSE]

\* A header in block 0 replaces the MBR, and its chain what was in block 1.
After(dk, t) ==
    IF t.home = 0 THEN [dk EXCEPT !.t = [h \in 0..1 |-> IF h = 0 THEN Plain(t) ELSE NoTable],
                                  !.mbr = NoMbr]
                  ELSE [dk EXCEPT !.t[1] = Plain(t)]

Outcome(d, r) == [disk |-> d, rc |-> r, torn |-> FALSE]
TornOutcome(d) == [disk |-> d, rc |-> "error", torn |-> TRUE]

\* The chains are on the disk and o stands at the header's place: a chain that
\* starts behind block 0 takes block 1.
HasChain(t) == t.parts # <<>> \/ t.drivers > 0
Over(dk, t, o) ==
    [dk EXCEPT !.t = [h \in 0..1 |-> IF h = t.home THEN o
                                     ELSE IF h = 1 /\ HasChain(t) THEN NoTable ELSE @[h]]]

\* What a header that still stands leads to when the chains below it were
\* overwritten half way: the first new entries and on to the old ones behind
\* them, all the new ones, or a chain that breaks off.
Halves(old, new) ==
    (IF new = <<>> THEN {} ELSE {[old EXCEPT !.parts = new, !.cut = FALSE]})
    \cup {[old EXCEPT !.parts = SubSeq(new, 1, k) \o SubSeq(@, k + 1, Len(@))] :
            k \in {j \in DOMAIN new : j < Len(new) /\ j < Len(old.parts)}}
    \cup {[old EXCEPT !.parts = SubSeq(old.parts, 1, i), !.cut = TRUE] : i \in DOMAIN old.parts}
    \cup {[old EXCEPT !.parts = SubSeq(new, 1, i), !.cut = TRUE] : i \in DOMAIN new}

\* sc_write_rdb: refused where the chain is cut and FORCE does not acknowledge it.
\* RDB_Write puts the header last: it fails before the first block, on the way
\* along the chains, at the header, or when it reads back what it wrote.
Writes(dk, t) ==
    LET old == dk.t[t.home]
    IN  IF t.cut /\ ~st.force THEN {Outcome(dk, "refused")}
        ELSE {Outcome(After(dk, t), "ok")}
             \cup {Outcome(d, "error") : d \in {dk, After(dk, t), Over(dk, t, NoTable)}}
             \cup {TornOutcome(Over(dk, t, o)) :
                      o \in IF old = NoTable \/ old.parts = <<>> \/ ~HasChain(t) THEN {}
                            ELSE Halves(old, Plain(t).parts)}

\* The device on which a write broke off below a header that still stands.
Noted(g, d, w) == [g EXCEPT !.torn = IF w.torn THEN d ELSE @]

Wrote(dk, cyls) == [dk EXCEPT !.new = @ \cup cyls]

-----------------------------------------------------------------------------
(* The DOS list *)

\* A mount that does not look whether its name is taken.
MutMountName(list, p) == p.name

\* MountPartition: the drive's name, or the first free alias.
MountName(list, p) ==
    LET used == {m.name : m \in list}
    IN  IF p.name \notin used THEN p.name
        ELSE IF Aliases \subseteq used THEN NoDevice
        ELSE CHOOSE a \in Aliases \ used : TRUE

Mount(list, d, p) ==
    IF d # HD \/ MountName(list, p) = NoDevice THEN list
    ELSE list \cup {[name |-> MountName(list, p), dev |-> d, lo |-> p.lo, hi |-> p.hi,
                     quiet |-> FALSE]}

\* match_partition, by which UnmountPartition finds the handler to stop: the
\* entry of this device that bears the drive's name.
Matching(list, d, name) == {m \in list : m.dev = d /\ m.name = name}

\* Inhibit goes by the DOS name alone.
Inhibited(list, name) == {IF m.name = name THEN [m EXCEPT !.quiet = TRUE] ELSE m : m \in list}

MountedOn(d) == {m \in dos : m.dev = d}
LiveOn(list, d, cyls) == {m \in list : m.dev = d /\ ~m.quiet /\ (m.lo..m.hi) \cap cyls # {}}

-----------------------------------------------------------------------------
TypeOK ==
    /\ disk \in [Devices -> Media]
    /\ st \in [bd : Devices \cup {NoDevice}, rdb : Tables, dirty : BOOLEAN, force : BOOLEAN,
               dryrun : BOOLEAN, unmount : SUBSET Names, mbr : {NoMbr} \cup SUBSET Slots]
    /\ \A m \in dos : m.name \in Names \cup Aliases /\ m.quiet \in BOOLEAN
    /\ \A m, o \in dos : m.name = o.name => m = o
    /\ \A d \in Devices : disk[d].t[0] # NoTable => disk[d].mbr = NoMbr
    /\ st.rdb # NoTable => Len(st.rdb.parts) <= MaxParts
    /\ rc \in {"ok", "warn", "error", "refused", "end", "reboot"}
    /\ n \in 0..MaxCommands

\* The partitions of the hard disk are mounted, or DH0 of another disk is.
OwnMounts == {[name |-> p.name, dev |-> HD, lo |-> p.lo, hi |-> p.hi, quiet |-> FALSE] :
                 p \in PartsOf(OnDisk(disk[HD]))}
OtherMount(x) == {[name |-> x, dev |-> "other", lo |-> 1, hi |-> TopCyl, quiet |-> FALSE]}

\* script_run: nothing is open; FORCE and DRYRUN are options.
Unopen == [bd : {NoDevice}, rdb : {NoTable}, dirty : {FALSE}, force : BOOLEAN,
           dryrun : BOOLEAN, unmount : {{}}, mbr : {NoMbr}]

Init ==
    /\ disk \in {[d \in Devices |-> IF d = HD THEN s ELSE i] : s \in Starts, i \in Images}
    /\ st \in Unopen
    /\ dos \in {OwnMounts} \cup {OtherMount(x) : x \in Names}
    /\ file = [ext |-> FALSE, dev |-> NoDevice, tab |-> NoTable, mbr |-> NoMbr]
    /\ rc = "ok"
    /\ n = 0
    /\ ghost = [start |-> disk, named |-> {}, behind |-> FALSE, under |-> FALSE,
              older |-> FALSE, torn |-> NoDevice]

-----------------------------------------------------------------------------
(* One command *)

Command == rc = "ok" /\ n < MaxCommands /\ n' = n + 1
HasDevice == st.bd # NoDevice
HasTable == HasDevice /\ st.rdb # NoTable
Answers == IF st.force THEN {TRUE} ELSE BOOLEAN       \* sc_ask_yn

\* The command returns r and leaves everything as it was.
Returns(r) == rc' = r /\ UNCHANGED <<disk, st, dos, file, ghost>>
Named(S) == [ghost EXCEPT !.named = @ \cup S]
Everything(d) == {d} \X Names

\* The first entry of that name, as the loops of the commands find it.
Find(t, name) == IF t = NoTable \/ \A i \in DOMAIN t.parts : t.parts[i].name # name THEN 0
                 ELSE CHOOSE i \in DOMAIN t.parts :
                        /\ t.parts[i].name = name
                        /\ \A j \in 1..(i - 1) : t.parts[j].name # name

\* open_close_existing and open_finish: the names to unmount stay.
Opened(dk, d) == [st EXCEPT !.bd = d, !.rdb = Read(dk), !.dirty = FALSE, !.mbr = ReadMbr(dk)]

Unopened == /\ st' = [st EXCEPT !.bd = NoDevice, !.rdb = NoTable, !.dirty = FALSE, !.mbr = NoMbr]
            /\ rc' = "error"
            /\ UNCHANGED <<disk, dos, file, ghost>>

Open == \/ \E d \in Devices : /\ st' = Opened(disk[d], d)
                              /\ rc' = "ok"
                              /\ ghost' = [ghost EXCEPT !.behind = FALSE]
                              /\ UNCHANGED <<disk, dos, file>>
        \/ Unopened

\* CREATE FILE makes the file anew, whatever was in it.
Blank == [t |-> [h \in 0..1 |-> NoTable], mbr |-> NoMbr, new |-> Cyls]
Create == \/ /\ disk' = [disk EXCEPT ![Img] = Blank]
             /\ st' = Opened(Blank, Img)
             /\ rc' = "ok"
             /\ ghost' = [Named(Everything(Img)) EXCEPT !.behind = FALSE]
             /\ UNCHANGED <<dos, file>>
          \/ Unopened

Fresh(home) == [home |-> home, top |-> TopCyl, drivers |-> 0, parts |-> <<>>, cut |-> FALSE]

\* INIT NEW asks where there is a table; the empty MBR of INIT NEW MBR is
\* written at once, the table waits for WRITE.
InitNew(withMbr) ==
    IF ~HasDevice THEN Returns("error")
    ELSE \/ st.rdb # NoTable /\ FALSE \in Answers /\ Returns("error")
         \/ /\ st' = [st EXCEPT !.rdb = Fresh(IF withMbr THEN 1 ELSE 0), !.dirty = TRUE,
                                !.mbr = IF ~withMbr THEN NoMbr ELSE IF st.dryrun THEN @ ELSE {}]
            /\ disk' = IF withMbr /\ ~st.dryrun
                       THEN [disk EXCEPT ![st.bd].mbr = {}, ![st.bd].t[0] = NoTable] ELSE disk
            /\ ghost' = Named(Everything(st.bd))
            /\ rc' = "ok"
            /\ UNCHANGED <<dos, file>>
         \/ /\ withMbr /\ ~st.dryrun
            /\ st' = [st EXCEPT !.rdb = Fresh(1), !.dirty = TRUE]
            /\ rc' = "error"
            /\ ghost' = Named(Everything(st.bd))
            /\ UNCHANGED <<disk, dos, file>>

NewGeo ==
    IF ~HasTable THEN Returns("error")
    ELSE /\ st' = IF TopCyl <= st.rdb.top THEN st
                  ELSE [st EXCEPT !.rdb.top = TopCyl, !.dirty = TRUE]
         /\ rc' = "ok"
         /\ UNCHANGED <<disk, dos, file, ghost>>

\* A partition that runs over those that begin above it.
MutClamped(t, lo, hi) == hi

\* HIGH ends before the first partition that begins in the span.
Clamped(t, lo, hi) ==
    LET later == {p.lo : p \in {q \in PartsOf(t) : q.lo > lo /\ q.lo <= hi}}
    IN  IF later = {} THEN hi ELSE Min(later) - 1

AddPart ==
    \E name \in Names, lo \in 1..TopCyl, hi \in 1..TopCyl, want \in BOOLEAN :
        LET end == Clamped(st.rdb, lo, hi)
            p == [name |-> name, lo |-> lo, hi |-> end, want |-> want]
        IN  /\ lo <= hi
            /\ IF ~HasTable THEN Returns("error")
               ELSE IF \/ Len(st.rdb.parts) >= MaxParts \/ hi > st.rdb.top
                       \/ \E q \in PartsOf(st.rdb) : lo \in Span(q)
               THEN Returns("error")
               ELSE /\ st' = [st EXCEPT !.rdb.parts = Append(@, p), !.dirty = TRUE]
                    /\ ghost' = Named({<<st.bd, name>>})
                    /\ rc' = "ok"
                    /\ UNCHANGED <<disk, dos, file>>

DelPart ==
    \E name \in Names :
        LET i == Find(st.rdb, name)
        IN  IF ~HasTable \/ i = 0 THEN Returns("error")
            ELSE /\ st' = [st EXCEPT !.rdb.parts = RemoveAt(@, i), !.dirty = TRUE,
                                     !.unmount = @ \cup {name}]
                 /\ ghost' = Named({<<st.bd, name>>})
                 /\ rc' = "ok"
                 /\ UNCHANGED <<disk, dos, file>>

AddFs ==
    IF ~HasTable THEN Returns("error")
    ELSE IF st.rdb.drivers >= MaxDrivers THEN Returns("error")
    ELSE /\ st' = [st EXCEPT !.rdb.drivers = @ + 1, !.dirty = TRUE]
         /\ rc' = "ok"
         /\ UNCHANGED <<disk, dos, file, ghost>>

\* The commands that look: their answer may end the session.
Answer(possible, answers) ==
    \E r \in IF possible THEN answers ELSE {"error"} : Returns(r)

CheckRdb == Answer(HasTable, {"ok", "warn"})

\* A backup is compared with the disk as it is, not with the table in memory.
VerifyRdb == Answer(HasTable /\ file.dev # NoDevice /\ ~file.ext, {"ok", "warn", "error"})
VerifyExt == Answer(HasDevice /\ file.dev # NoDevice /\ file.ext, {"ok", "warn", "error"})
ShrinkInfo == Answer(HasTable /\ st.rdb.parts # <<>>, {"ok", "error"})
PartOut == Answer(HasTable /\ st.rdb.parts # <<>>,
                  IF st.dryrun THEN {"ok"} ELSE {"ok", "warn", "error"})
ImageOut == Answer(HasDevice, IF st.dryrun THEN {"ok"} ELSE {"ok", "warn", "error"})
MountList == Answer(HasTable, IF st.dryrun THEN {"ok"} ELSE {"ok", "error"})
Info == Returns("ok")

-----------------------------------------------------------------------------
(* Backups of the table *)

\* BACKUP takes the block the table in memory says, BACKUPEXT all of its blocks.
Backup(ext) ==
    IF ~HasTable THEN Returns("error")
    ELSE IF st.dryrun THEN Returns("ok")
    ELSE /\ file' = [ext |-> ext, dev |-> st.bd, tab |-> disk[st.bd].t[st.rdb.home],
                     mbr |-> disk[st.bd].mbr]
         /\ rc' = "ok"
         /\ UNCHANGED <<disk, st, dos, ghost>>

\* A table of which only the first entry's place is left: its block is not one.
Cut(t) == IF t = NoTable \/ t.parts = <<>> THEN t
          ELSE [t EXCEPT !.parts = SubSeq(@, 1, 1), !.cut = TRUE]

\* A header goes to block 0 over an MBR, or to block 1, where a table of block 0
\* has its first entry.
HeaderIn(dk, t) ==
    IF t.home = 0 THEN [dk EXCEPT !.t[0] = t, !.mbr = NoMbr]
    ELSE [dk EXCEPT !.t = [h \in 0..1 |-> IF h = 1 THEN t ELSE Cut(@[0])]]

\* The header alone comes back; its lists start where they always start, so
\* they are those that are on the disk now.
HeaderBack(dk) ==
    IF file.tab = NoTable THEN [dk EXCEPT !.t[0] = NoTable, !.mbr = file.mbr]
    ELSE LET now == dk.t[file.tab.home]
         IN  HeaderIn(dk, IF file.tab.parts = <<>> \/ now = NoTable THEN Cut(file.tab)
                          ELSE [file.tab EXCEPT !.parts = now.parts, !.drivers = now.drivers,
                                                !.cut = now.cut])

\* A dump of all blocks brings its lists along.
AllBack(dk) ==
    IF file.tab = NoTable THEN [dk EXCEPT !.t[0] = NoTable, !.mbr = file.mbr]
    ELSE LET new == HeaderIn(dk, file.tab)
         IN  IF file.tab.home = 0 THEN [new EXCEPT !.t[1] = NoTable] ELSE new

\* A restore that does not read the table again.
MutReloaded(dk) == [st EXCEPT !.dirty = FALSE]

\* restore_reload_rdb
Reloaded(dk) == Opened(dk, st.bd)

Restore(ext) ==
    IF ~HasDevice \/ file.dev = NoDevice \/ file.ext # ext THEN Returns("error")
    ELSE IF ext /\ st.rdb # NoTable /\ file.dev # st.bd /\ ~st.force THEN Returns("error")
    ELSE IF st.dryrun THEN Returns("ok")
    ELSE LET dk == IF ext THEN AllBack(disk[st.bd]) ELSE HeaderBack(disk[st.bd])
         IN  /\ UNCHANGED <<dos, file>>
             /\ \/ /\ rc' = "ok"
                   /\ disk' = [disk EXCEPT ![st.bd] = dk]
                   /\ st' = Reloaded(dk)
                \/ /\ rc' = "error"
                   /\ disk' \in IF ext THEN {disk, [disk EXCEPT ![st.bd] = HeaderBack(disk[st.bd])]}
                               ELSE {disk}
                   /\ st' = st
             /\ ghost' = [Named(Everything(st.bd)) EXCEPT !.behind = FALSE,
                                                        !.older = @ \/ ~ext \/ rc' # "ok"]

-----------------------------------------------------------------------------
(* Commands that write at once *)

\* A grow that knows the end of the disk alone.
MutGap(t, p) == t.top

\* Where a partition may grow to.
Gap(t, p) == LET later == {q.lo : q \in {q \in PartsOf(t) : q.lo > p.hi}}
             IN  IF later = {} THEN t.top ELSE Min({Min(later) - 1, t.top})

\* The memory after a write that counts as saved.
Saved(s, t) == [s EXCEPT !.rdb = t, !.dirty = FALSE]
With(t, i, hi) == [t EXCEPT !.parts[i].hi = hi]

\* GROW and SHRINK: the new size in memory, the volume unmounted (or the size
\* undone), the file system resized (or the size undone and the volume mounted),
\* the whole table written, an FFS volume mounted again.
Resize(i, hi, noUnmount) ==
    LET d == st.bd
        p == st.rdb.parts[i]
        new == With(st.rdb, i, hi)
        q == new.parts[i]
        cyls == Span(p) \cup Span(q)
        left == IF noUnmount THEN dos ELSE dos \ Matching(dos, d, p.name)
        after == Wrote(disk[d], cyls)
        spoken == [Named({<<d, p.name>>}) EXCEPT
                       !.under = @ \/ (~noUnmount /\ \E m \in LiveOn(left, d, Span(p)) :
                                                         m.name \in Aliases)]
    IN  /\ UNCHANGED file
        /\ \/ /\ ~noUnmount /\ Matching(dos, d, p.name) # {}      \* in use
              /\ rc' = "error"
              /\ UNCHANGED <<disk, st, dos, ghost>>
           \/ /\ rc' = "error"                                    \* the resize fails
              /\ disk' \in {disk, [disk EXCEPT ![d] = after]}
              /\ dos' \in IF noUnmount THEN {dos} ELSE {left, Mount(left, d, p)}
              /\ ghost' = spoken
              /\ UNCHANGED st
           \/ \E w \in Writes(after, new) :
                 /\ disk' = [disk EXCEPT ![d] = w.disk]
                 /\ rc' = w.rc
                 /\ st' = IF w.rc = "ok" THEN Saved(st, new) ELSE [st EXCEPT !.rdb = new]
                 /\ dos' \in IF w.rc # "ok" THEN {left}
                              ELSE IF noUnmount THEN {Inhibited(dos, p.name)}
                              ELSE IF p.name \in Live THEN {left, Mount(left, d, q)} ELSE {left}
                 /\ ghost' = Noted([spoken EXCEPT !.behind = @ /\ w.rc # "ok"], d, w)

\* What GROW and SHRINK say first; SHRINK knows the smallest size from the file system.
ResizeCommand(larger) ==
    \E name \in Names, hi \in 1..TopCyl, noUnmount \in BOOLEAN :
        LET i == Find(st.rdb, name)
            p == st.rdb.parts[i]
        IN  IF ~HasTable \/ i = 0 THEN Returns("error")
            ELSE IF larger /\ Gap(st.rdb, p) <= p.hi THEN Returns("error")
            ELSE IF ~larger /\ p.lo = p.hi THEN Returns("ok")
            ELSE /\ IF larger THEN hi > p.hi /\ hi <= Gap(st.rdb, p) ELSE hi < p.hi /\ hi >= p.lo
                 /\ IF st.dryrun THEN Returns("ok")
                    ELSE \/ Resize(i, hi, noUnmount)
                         \/ FALSE \in Answers /\ Returns("error")

Grow == ResizeCommand(TRUE)
Shrink == ResizeCommand(FALSE)

\* A copy into partition i of table t on device d: the engine fails, or the
\* partition keeps or trims its span; then t is written.
CopyInto(d, t, i, own) ==
    LET p == t.parts[i]
        after == Wrote(disk[d], Span(p))
        told == [Named({<<d, p.name>>}) EXCEPT !.behind = @ \/ (~own /\ d = st.bd)]
    IN  /\ UNCHANGED <<dos, file>>
        /\ \/ /\ rc' = "error"
              /\ disk' \in {disk, [disk EXCEPT ![d] = after]}
              /\ ghost' = told
              /\ UNCHANGED st
           \/ \E hi \in {p.hi, p.lo} : \E w \in Writes(after, With(t, i, hi)) :
                 /\ disk' = [disk EXCEPT ![d] = w.disk]
                 /\ rc' = w.rc
                 /\ ghost' = Noted(told, d, w)
                 /\ st' = IF ~own THEN st
                          ELSE IF w.rc = "ok" THEN Saved(st, With(t, i, hi))
                          ELSE [st EXCEPT !.rdb = With(t, i, hi)]

\* PartClone_CopyFS: the source's driver goes along where the target's table has
\* none of its kind and has room.
Carried(t) ==
    {t} \cup IF st.rdb.drivers > 0 /\ t.drivers < MaxDrivers
             THEN {[t EXCEPT !.drivers = @ + 1]} ELSE {}

\* PARTCLONE TO: another entry of the table in memory; with TODEV an entry of a
\* second copy of a device's table, also where that is the open device.
PartClone ==
    \E src, dst \in Names, cross \in BOOLEAN :
        LET t == IF cross THEN Read(disk[HD]) ELSE st.rdb
            i == Find(st.rdb, src)
            k == Find(t, dst)
        IN  IF ~HasTable \/ i = 0 THEN Returns("error")
            ELSE IF st.dryrun THEN Returns("ok")
            ELSE IF k = 0 \/ (~cross /\ i = k) THEN Returns("error")
            ELSE \E u \in IF cross THEN Carried(t) ELSE {t} :
                     CopyInto(IF cross THEN HD ELSE st.bd, u, k, ~cross)

PartIn ==
    \E name \in Names :
        LET i == Find(st.rdb, name)
        IN  IF ~HasTable \/ i = 0 THEN Returns("error")
            ELSE IF st.dryrun THEN Returns("ok")
            ELSE CopyInto(st.bd, st.rdb, i, TRUE)

ZeroPart ==
    \E name \in Names :
        LET i == Find(st.rdb, name)
        IN  IF ~HasTable \/ i = 0 THEN Returns("error")
            ELSE IF st.dryrun THEN Returns("ok")
            ELSE /\ disk' = [disk EXCEPT ![st.bd] = Wrote(@, Span(st.rdb.parts[i]))]
                 /\ ghost' = Named({<<st.bd, name>>})
                 /\ rc' \in {"ok", "error"}
                 /\ UNCHANGED <<st, dos, file>>

\* CLEARRDB: the memory forgets the table, the names to unmount stay.
ClearRdb ==
    IF ~HasDevice THEN Returns("error")
    ELSE IF MountedOn(st.bd) # {} /\ ~st.force THEN Returns("error")
    ELSE IF st.dryrun THEN Returns("ok")
    ELSE /\ UNCHANGED <<dos, file>>
         /\ ghost' = [Named(Everything(st.bd)) EXCEPT !.behind = FALSE]
         /\ LET dk == [disk[st.bd] EXCEPT !.t = [h \in 0..1 |-> NoTable], !.mbr = NoMbr]
            IN  \/ /\ disk' = [disk EXCEPT ![st.bd] = dk]
                   /\ st' = [st EXCEPT !.rdb = NoTable, !.mbr = NoMbr, !.dirty = FALSE]
                   /\ rc' = "ok"
                \/ /\ disk' \in {disk, [disk EXCEPT ![st.bd] = dk]}
                   /\ st' = st
                   /\ rc' = "error"

\* IMAGEIN: the table is read again; the edits' mark and the MBR are not.
ImageIn ==
    IF ~HasDevice THEN Returns("error")
    ELSE IF st.dryrun THEN Returns("ok")
    ELSE \/ FALSE \in Answers /\ Returns("ok")
         \/ MountedOn(st.bd) # {} /\ ~st.force /\ Returns("error")
         \/ /\ MountedOn(st.bd) = {} \/ st.force
            /\ UNCHANGED <<dos, file>>
            /\ ghost' = [Named(Everything(st.bd)) EXCEPT !.behind = FALSE]
            /\ \E i \in Images :
                 LET dk == [i EXCEPT !.new = Cyls]
                 IN  \/ /\ disk' = [disk EXCEPT ![st.bd] = dk]
                        /\ st' = [st EXCEPT !.rdb = Read(dk)]
                        /\ rc' = "ok"
                     \/ /\ disk' = [disk EXCEPT ![st.bd] = dk]
                        /\ st' = st
                        /\ rc' = "error"

\* MBR_RangeConflicts and the check after it.
MbrConflict(s) ==
    \/ 0 \in Span(s)
    \/ \E p \in PartsOf(st.rdb) : Span(p) \cap Span(s) # {}
    \/ \E o \in st.mbr : Span(o) \cap Span(s) # {}

\* MBR_Write refuses a block 0 with a table's header; a failed write leaves the
\* slot filled in memory.
AddMbr ==
    \E s \in Slots :
        IF ~HasTable \/ st.mbr = NoMbr THEN Returns("error")
        ELSE IF MbrConflict(s) THEN Returns("error")
        ELSE IF st.dryrun THEN Returns("ok")
        ELSE /\ st' = [st EXCEPT !.mbr = @ \cup {s}]
             /\ UNCHANGED <<dos, file, ghost>>
             /\ \/ /\ disk[st.bd].t[0] = NoTable
                   /\ disk' = [disk EXCEPT ![st.bd].mbr = st.mbr \cup {s}]
                   /\ rc' = "ok"
                \/ disk' = disk /\ rc' = "error"

DelMbr ==
    \E s \in Slots :
        IF ~HasDevice \/ st.mbr = NoMbr THEN Returns("error")
        ELSE IF s \notin st.mbr THEN Returns("error")
        ELSE IF st.dryrun THEN Returns("ok")
        ELSE /\ st' = [st EXCEPT !.mbr = @ \ {s}]
             /\ UNCHANGED <<dos, file, ghost>>
             /\ \/ /\ disk[st.bd].t[0] = NoTable
                   /\ disk' = [disk EXCEPT ![st.bd].mbr = st.mbr \ {s}]
                   /\ rc' = "ok"
                \/ disk' = disk /\ rc' = "error"

-----------------------------------------------------------------------------
(* WRITE *)

Wanted(t) == SelectSeq(t.parts, LAMBDA p : p.want)
Forgotten(t) == [t EXCEPT !.parts = [i \in DOMAIN @ |-> [@[i] EXCEPT !.want = FALSE]]]

\* Format_Partition for each entry with a volume name, one after the other; ok
\* says of which the format succeeds, and those of a device are mounted.
Formatted(dk, t) == Wrote(dk, UNION {Span(p) : p \in {q \in PartsOf(t) : q.want}})
MountAll(list, d, ps, ok) ==
    FoldLeft(LAMBDA l, i : IF i \in ok THEN Mount(l, d, ps[i]) ELSE l, list, [i \in DOMAIN ps |-> i])

\* The deleted names the table does not have again.
Gone(t) == {x \in st.unmount : Find(t, x) = 0}
UnmountAll(list, d, names, busy) ==
    list \ UNION {Matching(list, d, x) : x \in names \ busy}

Write ==
    IF ~HasTable THEN Returns("error")
    ELSE IF st.dryrun THEN /\ st' = [st EXCEPT !.dirty = FALSE]
                           /\ rc' = "ok"
                           /\ UNCHANGED <<disk, dos, file, ghost>>
    ELSE \/ FALSE \in Answers /\ Returns("error")
         \/ \E w \in Writes(disk[st.bd], st.rdb) :
              IF w.rc # "ok"
              THEN /\ disk' = [disk EXCEPT ![st.bd] = w.disk]
                   /\ rc' = w.rc
                   /\ ghost' = Noted(ghost, st.bd, w)
                   /\ UNCHANGED <<st, dos, file>>
              ELSE LET ps == Wanted(st.rdb)
                   IN  \E ok \in SUBSET DOMAIN ps, busy \in SUBSET Gone(st.rdb) :
                         /\ disk' = [disk EXCEPT ![st.bd] = Formatted(w.disk, st.rdb)]
                         /\ dos' = UnmountAll(MountAll(dos, st.bd, ps, ok), st.bd,
                                              Gone(st.rdb), busy)
                         /\ st' = [Saved(st, Forgotten(st.rdb)) EXCEPT !.unmount = {}]
                         /\ rc' = "ok"
                         /\ ghost' = [ghost EXCEPT !.behind = FALSE]
                         /\ UNCHANGED file

-----------------------------------------------------------------------------
Close == IF ~HasDevice THEN Returns("ok")
         ELSE /\ st' = [st EXCEPT !.bd = NoDevice, !.rdb = NoTable, !.dirty = FALSE]
              /\ rc' = "ok"
              /\ UNCHANGED <<disk, dos, file, ghost>>

Reboot == \/ FALSE \in Answers /\ Returns("ok")
          \/ Returns("reboot")

\* The end of the file, also with unsaved edits.
End == /\ rc = "ok"
       /\ rc' = "end"
       /\ st' = [st EXCEPT !.bd = NoDevice, !.rdb = NoTable]
       /\ UNCHANGED <<disk, dos, file, n, ghost>>

Next == \/ Command /\ Open
        \/ Command /\ Create
        \/ \E withMbr \in BOOLEAN : Command /\ InitNew(withMbr)
        \/ Command /\ NewGeo
        \/ Command /\ AddPart
        \/ Command /\ DelPart
        \/ Command /\ AddFs
        \/ Command /\ CheckRdb
        \/ Command /\ VerifyRdb
        \/ Command /\ VerifyExt
        \/ Command /\ ShrinkInfo
        \/ Command /\ PartOut
        \/ Command /\ ImageOut
        \/ Command /\ MountList
        \/ Command /\ Info
        \/ \E ext \in BOOLEAN : Command /\ Backup(ext)
        \/ \E ext \in BOOLEAN : Command /\ Restore(ext)
        \/ Command /\ Grow
        \/ Command /\ Shrink
        \/ Command /\ PartClone
        \/ Command /\ PartIn
        \/ Command /\ ZeroPart
        \/ Command /\ ClearRdb
        \/ Command /\ ImageIn
        \/ Command /\ AddMbr
        \/ Command /\ DelMbr
        \/ Command /\ Write
        \/ Command /\ Close
        \/ Command /\ Reboot
        \/ End

Spec == Init /\ [][Next]_vars

-----------------------------------------------------------------------------
(* Properties *)

SeenTable(t) == IF t = NoTable \/ ~t.cut THEN t ELSE [t EXCEPT !.parts = Front(@), !.cut = FALSE]

Store == INSTANCE TableStore
    WITH Seen <- SeenTable,
         store <- [d \in Devices |-> OnDisk(disk[d])],
         open <- st.bd,
         copy <- IF HasDevice THEN Plain(st.rdb) ELSE NoTable,
         unsaved <- st.dirty,
         behind <- ghost.behind,
         preview <- st.dryrun,
         over <- rc # "ok"

(***************************************************************************)
(* The session keeps the promise of TableStore: every command that changes *)
(* the table of the open disk leaves the copy in step with it, or marks    *)
(* it as edited (`dirty' is TRUE when changes are not yet written,         *)
(* script.c:70); only a clone onto the open device by its own TODEV goes   *)
(* past the copy.                                                           *)
(***************************************************************************)
StoreSpec == Store!Spec

(***************************************************************************)
(* A partition that no command of the script names keeps its blocks and,   *)
(* in the table in memory and on the disk, its entry, whatever the         *)
(* commands add, grow, format, clone or write around it and whichever of   *)
(* them fails.  On the disk a write of the table that breaks off between   *)
(* the chains and the header is the exception: the old header stands and   *)
(* leads to whatever has been written.                                      *)
(***************************************************************************)
Bystanders ==
    \A d \in Devices : \A p \in PartsOf(Read(ghost.start[d])) :
        <<d, p.name>> \notin ghost.named =>
            /\ Span(p) \cap disk[d].new = {}
            /\ st.bd = d /\ st.rdb # NoTable => p \in PartsOf(st.rdb)
            /\ OnDisk(disk[d]) # NoTable /\ d # ghost.torn => p \in PartsOf(OnDisk(disk[d]))

(***************************************************************************)
(* The partitions of a table in memory or on a disk lie apart after any    *)
(* sequence of edits, resizes, clones and restores; and below the table's  *)
(* last cylinder, as long as no header has come back without its lists: an *)
(* older one may state fewer cylinders than the lists on the disk use.  A  *)
(* write that broke off below a standing header leaves old and new entries *)
(* on its device, which may overlap; every other one is as stated.          *)
(***************************************************************************)
Apart == \A t \in {st.rdb} \cup {OnDisk(disk[d]) : d \in Devices \ {ghost.torn}} :
    Disjoint(t) /\ (~ghost.older => Inside(t))

-----------------------------------------------------------------------------
(* What the documents say *)

(***************************************************************************)
(* "the grow writes filesystem blocks directly and must not run under a    *)
(* live handler" (script.c): unmounting the drive's name leaves no handler *)
(* on the partition's cylinders, also where the session itself mounted it  *)
(* under an alias.                                                          *)
(***************************************************************************)
GrowOffline == ~ghost.under

=============================================================================
