----------------------------- MODULE PartClone -----------------------------
(***************************************************************************)
(* Copies of partitions and of whole disks: a partition to a file and back, *)
(* a partition onto another one or into a gap of another disk               *)
(* (src/src/partclone.c), a disk to a file, back, and onto another disk     *)
(* (src/src/imagecopy.c), with the writes of the table that follow.         *)
(*                                                                         *)
(* Sector 0 of a disk holds its table.  Of a file system no more is         *)
(* modelled than what a copy has to get right: its root is of a type and    *)
(* states its size; for SFS, whose end root says the same, also its         *)
(* position on the disk; a flag, for PFS that the size is compared at the   *)
(* mount, for FFS that the boot block names the root; and of its name how   *)
(* often "CL-" stands before it.                                            *)
(*                                                                         *)
(* A definition whose name starts with Mut is a wrong variant of the one    *)
(* after it, used nowhere: it shows that a property can fail.               *)
(***************************************************************************)
EXTENDS Integers, Sequences, SequencesExt

CONSTANTS
    Disks, Size,        \* Size[d]: the sectors of disk d
    Start,              \* the disks at the start: a set of [Disks -> Sectors -> contents]
    Files,              \* the files at the start
    Chunk,              \* PC_CHUNK_BLOCKS, IMG_BATCH_BLOCKS
    MaxParts, MaxFs,    \* MAX_PARTITIONS, MAX_FILESYSTEMS
    NoFile,
    Volumes,            \* tells the volumes apart
    MaxName,            \* so many "CL-" fill a name
    MaxOps, MaxTroubles             \* bounds of the model

Sectors(d) == 0 .. Size[d] - 1

\* cyl: heads * sectors; unit: sectors of a block.
Entry(low, high, cyl, unit, type) ==
    [low |-> low, high |-> high, cyl |-> cyl, unit |-> unit, type |-> type]
Base(e) == e.low * e.cyl * e.unit                               \* pc_part_base
Count(e) == (e.high - e.low + 1) * e.cyl * e.unit               \* pc_part_blocks
Place(e) == Base(e) .. Base(e) + Count(e) - 1

Rdb(parts, lo, hi, cyl, fs) ==
    [kind |-> "rdb", parts |-> parts, lo |-> lo, hi |-> hi, cyl |-> cyl, fs |-> fs]
Root(type, v, n, size, at, flag, name) ==
    [kind |-> "root", type |-> type, vol |-> v, n |-> n, size |-> size, at |-> at,
     flag |-> flag, name |-> name]
Data(v, n) == [kind |-> "data", vol |-> v, n |-> n]
Zero == [kind |-> "zero"]

Types == {"ffs", "sfs", "pfs"}
Entries ==
    {e \in [low : Nat \ {0}, high : Nat, cyl : Nat \ {0}, unit : Nat \ {0}, type : Types] :
        e.low <= e.high}
Blocks ==
    [kind : {"root"}, type : Types, vol : Volumes, n : Nat, size : Nat, at : Nat,
     flag : BOOLEAN, name : 0 .. MaxName]
    \cup [kind : {"data"}, vol : Volumes, n : Nat] \cup {Zero}

\* No two entries share a cylinder.
Layouts ==
    {t \in [kind : {"rdb"}, parts : SUBSET Entries, lo : Nat \ {0}, hi : Nat, cyl : Nat \ {0},
            fs : SUBSET Types] :
        \A p, q \in t.parts : p = q \/ p.high < q.low \/ q.high < p.low}

\* At the start a dump is one of a whole partition, though its end may be missing.
Dumps ==
    {f \in [kind : {"dump"}, head : Entries, count : Nat, blocks : Seq(Blocks)] :
        f.count = Count(f.head)}

ASSUME ConstantsAssumption ==
    /\ Size \in [Disks -> Nat \ {0}] /\ NoFile \notin Disks
    /\ {Chunk, MaxParts} \subseteq Nat \ {0} /\ {MaxFs, MaxName, MaxOps, MaxTroubles} \subseteq Nat
ASSUME StartAssumption ==
    /\ \A s \in Start : DOMAIN s = Disks /\ \A d \in Disks :
          /\ s[d] \in [Sectors(d) -> Blocks \cup Layouts]
          /\ \A b \in Sectors(d) \ {0} : s[d][b] \in Blocks
    /\ \A f \in Files : f = NoFile \/ f \in Dumps

VARIABLES
    disk, file,
    mem,                \* the table in memory, and of which disk it is
    pc, op,
    before,             \* history: the disks when the copy began
    clean,              \* history: no error was passed over
    ops, troubles

vars == <<disk, file, mem, pc, op, before, clean, ops, troubles>>

Kinds == {"dump", "restore", "clone", "imageout", "imagein", "diskcopy"}
NoOp == [kind |-> "none", sd |-> NoFile, dd |-> NoFile, from |-> 0, to |-> 0, count |-> 0,
         done |-> 0, src |-> Zero, dst |-> Zero, fs |-> {}, new |-> FALSE,
         zeroed |-> {}, ok |-> FALSE, exact |-> FALSE]
NoMem == [disk |-> NoFile, tbl |-> Zero]

TypeOK ==
    /\ \A d \in Disks : DOMAIN disk[d] = Sectors(d)
    /\ \A d \in Disks : \A i \in Sectors(d) : disk[d][i].kind = "rdb" => i = 0
    /\ pc \in {"idle", "copy", "fix", "fill", "name", "table", "geometry", "report"}
    /\ pc # "idle" => op.kind \in Kinds
    /\ op.done \in 0 .. op.count
    /\ op.zeroed \subseteq 0 .. op.count - 1
    /\ ops \in 0 .. MaxOps /\ troubles \in 0 .. MaxTroubles

Init == \E s \in Start, f \in Files :
    /\ disk = s /\ file = f /\ mem = NoMem
    /\ pc = "idle" /\ op = NoOp /\ before = s /\ clean = TRUE
    /\ ops = 0 /\ troubles = 0

---------------------------------------------------------------------------
(* Where a partition may go *)

\* PartClone_ValidateFootprint
MutFits(t, low, high, skip) ==      \* `low < p->high_cyl`
    /\ low <= high /\ low >= t.lo /\ high <= t.hi
    /\ \A p \in t.parts \ skip : ~(low < p.high /\ p.low <= high)

Fits(t, low, high, skip) ==
    /\ low <= high /\ low >= t.lo /\ high <= t.hi
    /\ \A p \in t.parts \ skip : ~(low <= p.high /\ p.low <= high)

Gap(t, span) == {low \in t.lo .. t.hi : Fits(t, low, low + span - 1, {})}

\* What RDB_Write asks of the table: cylinders times the size of a block.
Reach(e) == e.low * e.unit .. (e.high + 1) * e.unit - 1
Accepted(t) ==
    /\ \A p \in t.parts : p.low <= p.high /\ p.low >= t.lo /\ p.high <= t.hi
    /\ \A p, q \in t.parts : p # q => Reach(p) \cap Reach(q) = {}

---------------------------------------------------------------------------
(* The operations *)

Table(d) == disk[d][0]
HasTable(d) == Table(d).kind = "rdb"
Parts(d) == IF HasTable(d) THEN Table(d).parts ELSE {}
\* The editor keeps its table; the command line and a second disk's are read.
Tables(d) == (IF HasTable(d) THEN {Table(d)} ELSE {})
             \cup (IF mem.disk = d THEN {mem.tbl} ELSE {})

Begin(o, t) ==
    /\ pc = "idle" /\ ops < MaxOps /\ ops' = ops + 1
    /\ op' = o /\ mem' = t /\ pc' = "copy" /\ before' = disk /\ clean' = TRUE
    /\ UNCHANGED <<disk, troubles>>

\* PartClone_DumpToFile
Dump(d) == \E t \in Tables(d) : \E e \in t.parts :
    /\ Begin([NoOp EXCEPT !.kind = "dump", !.sd = d, !.from = Base(e), !.count = Count(e)], mem)
    /\ file' = [kind |-> "dump", head |-> e, count |-> Count(e), blocks |-> <<>>]

\* PartClone_RestoreToPart: the place of the destination, the span and the geometry of
\* the dump.
Target(e) == [file.head EXCEPT !.low = e.low,
                               !.high = e.low + file.head.high - file.head.low]

Restore(d) == \E t \in Tables(d) : \E e \in t.parts :
    /\ file # NoFile /\ file.kind = "dump"
    /\ Fits(t, Target(e).low, Target(e).high, {e})
    /\ Count(Target(e)) >= file.count
    /\ Begin([NoOp EXCEPT !.kind = "restore", !.dd = d, !.to = Base(Target(e)),
                          !.count = file.count, !.src = Target(e), !.dst = e],
             [disk |-> d, tbl |-> t])
    /\ UNCHANGED file

\* PartClone_PartToPart: the destination keeps its place; its last block must be there.
\* Within a disk the table is one, or the window's and the one it reads for the destination.
\* fs: the drivers the source has to give, none if the user declines.
Clone(sd, dd) ==
    \E t \in Tables(dd), u \in Tables(sd) : \E s \in u.parts, e \in t.parts, fs \in {{}, u.fs} :
    /\ s.unit = e.unit /\ Count(e) >= Count(s)
    /\ sd = dd => (u = t \/ t = Table(dd)) /\ (s.low # e.low \/ s.high # e.high)
    /\ Base(e) + Count(e) - 1 \in Sectors(dd)
    /\ Begin([NoOp EXCEPT !.kind = "clone", !.sd = sd, !.dd = dd, !.from = Base(s),
                          !.to = Base(e), !.count = Count(s), !.src = s, !.dst = e, !.fs = fs],
             [disk |-> dd, tbl |-> t])
    /\ UNCHANGED file

\* copy_partition_to_disk, "create new": a gap of the destination, in its geometry.
CloneNew(sd, dd) == HasTable(dd) /\ \E u \in Tables(sd) : \E s \in u.parts, fs \in {{}, u.fs} :
    LET t == Table(dd)
        span == (Count(s) + t.cyl * s.unit - 1) \div (t.cyl * s.unit)
    IN /\ Cardinality(t.parts) < MaxParts
       /\ \E low \in Gap(t, span) :
            LET e == Entry(low, low + span - 1, t.cyl, s.unit, s.type) IN
            /\ \A x \in Gap(t, span) : low <= x
            /\ Base(e) + Count(e) - 1 \in Sectors(dd)
            /\ Begin([NoOp EXCEPT !.kind = "clone", !.sd = sd, !.dd = dd, !.from = Base(s),
                                  !.to = Base(e), !.count = Count(s), !.src = s, !.dst = e,
                                  !.fs = fs, !.new = TRUE],
                     [disk |-> dd, tbl |-> [t EXCEPT !.parts = @ \cup {e}]])
    /\ UNCHANGED file

\* ImageCopy_DiskToFile, _FileToDisk and _DiskToDisk
ImageOut(d) ==
    /\ Begin([NoOp EXCEPT !.kind = "imageout", !.sd = d, !.count = Size[d]], mem)
    /\ file' = [kind |-> "image", head |-> Zero, count |-> 0, blocks |-> <<>>]
ImageIn(d) ==
    /\ file # NoFile /\ file.kind = "image" /\ file.blocks # <<>>
    /\ Begin([NoOp EXCEPT !.kind = "imagein", !.dd = d, !.count = Len(file.blocks)], mem)
    /\ UNCHANGED file
DiskCopy(sd, dd) ==
    /\ sd # dd /\ Size[dd] >= Size[sd]
    /\ Begin([NoOp EXCEPT !.kind = "diskcopy", !.sd = sd, !.dd = dd, !.count = Size[sd]], mem)
    /\ UNCHANGED file

---------------------------------------------------------------------------
(* The loop *)

Trouble == troubles < MaxTroubles /\ troubles' = troubles + 1
Calm == UNCHANGED <<clean, troubles>>
Rest == UNCHANGED <<mem, before, ops>>

FromDisk == op.kind \notin {"restore", "imagein"}
ToDisk == op.kind \notin {"dump", "imageout"}

Batch == Min({Chunk, op.count - op.done})

Go(state) == pc' = state /\ UNCHANGED op
Report(ok) ==
    /\ pc' = "report"
    /\ op' = [op EXCEPT !.ok = ok]

\* Those of the batch behind the end of the disk, which a table restored in part may name.
Beyond == {i \in op.done .. op.done + Batch - 1 : FromDisk /\ op.from + i \notin Sectors(op.sd)}

\* The first n blocks of the batch, those of `holes` as zeros, reach the destination.
Block(i, holes) ==
    IF i \in holes THEN Zero
    ELSE IF FromDisk THEN disk[op.sd][op.from + i] ELSE file.blocks[i + 1]
Deliver(n, holes) ==
    IF ToDisk
    THEN /\ disk' = [disk EXCEPT ![op.dd] = [b \in Sectors(op.dd) |->
                IF b - op.to \in op.done .. op.done + n - 1
                THEN Block(b - op.to, holes) ELSE @[b]]]
         /\ UNCHANGED file
    ELSE /\ file' = [file EXCEPT !.blocks =
                @ \o [i \in 1 .. n |-> Block(op.done + i - 1, holes)]]
         /\ UNCHANGED disk

\* So many blocks of the batch the destination has room for.
Room == IF ToDisk THEN Max({0, Min({Batch, Size[op.dd] - op.to - op.done})}) ELSE Batch
Present == IF FromDisk THEN TRUE ELSE Len(file.blocks) >= op.done + Batch

Next1 ==
    /\ pc = "copy" /\ op.done < op.count
    /\ Present /\ Room = Batch
    /\ \E holes \in SUBSET (op.done .. op.done + Batch - 1) :
        /\ Beyond \subseteq holes
        /\ IF holes = Beyond THEN UNCHANGED troubles ELSE FromDisk /\ Trouble
        /\ Deliver(Batch, holes)
        /\ op' = [op EXCEPT !.done = @ + Batch, !.zeroed = @ \cup holes]
    /\ UNCHANGED <<pc, clean>> /\ Rest

\* The file ends early.  An image that is too large is noticed before the batch is
\* written, a write that fails after some of it is.
Short ==
    /\ pc = "copy" /\ op.done < op.count
    /\ ~Present \/ (op.kind = "imagein" /\ Room < Batch)
    /\ Report(FALSE) /\ UNCHANGED <<disk, file>> /\ Calm /\ Rest

Fail ==
    /\ pc = "copy" /\ op.done < op.count /\ Present
    /\ \/ Room = Batch /\ Trouble /\ \E n \in 0 .. Batch - 1 : Deliver(n, Beyond)
       \/ Room < Batch /\ op.kind # "imagein" /\ UNCHANGED troubles /\ Deliver(Room, Beyond)
    /\ Report(FALSE) /\ UNCHANGED clean /\ Rest

Cancel ==
    /\ pc = "copy" /\ op.kind \in {"imageout", "imagein", "diskcopy"} /\ op.done > 0
    /\ Report(FALSE) /\ UNCHANGED <<disk, file>> /\ Calm /\ Rest

\* All is copied.  Only now the entry takes what the copy brings with it.
Adopted ==
    IF op.kind = "restore" THEN op.src ELSE [op.dst EXCEPT !.type = op.src.type]

Copied ==
    /\ pc = "copy" /\ op.done = op.count
    /\ IF op.kind \in {"restore", "clone"}
       THEN /\ pc' = "fix" /\ op' = [op EXCEPT !.dst = Adopted]
            /\ mem' = [mem EXCEPT !.tbl.parts = (@ \ {op.dst}) \cup {Adopted}]
       ELSE /\ IF op.kind = "diskcopy"
               THEN Go("geometry")
               ELSE Report(TRUE)
            /\ UNCHANGED mem
    /\ UNCHANGED <<disk, file, before, ops>> /\ Calm

---------------------------------------------------------------------------
(* What the file system needs at its new place *)

At(i) == disk[op.dd][op.to + i]
IsRoot(i) ==
    op.to + i \in Sectors(op.dd) /\ At(i).kind = "root" /\ At(i).type = op.dst.type
Change(d, i, r) == [d EXCEPT ![op.dd][op.to + i] = r]

\* The table of a restore is written next; a clone's volume is renamed first.
After == IF op.kind = "restore" THEN "table" ELSE "name"
Larger == op.kind = "clone" /\ Count(op.dst) > op.count

\* pc_sfs_fixup
MutPlaced(i) == [At(i) EXCEPT !.at = @ + op.to - op.from]       \* a relative shift
Placed(i) == [At(i) EXCEPT !.at = op.to]

EndRoot == At(0).size - 1
FixSfs ==
    /\ pc = "fix" /\ op.dst.type = "sfs"
    /\ \/ /\ IsRoot(0) /\ At(0).size >= 2
          /\ op.to + EndRoot \in Sectors(op.dd)
          /\ LET d == Change(disk, 0, Placed(0))
             IN disk' = IF IsRoot(EndRoot) THEN Change(d, EndRoot, Placed(EndRoot)) ELSE d
          /\ Go(IF Larger THEN "fill" ELSE After) /\ UNCHANGED troubles
       \/ /\ IsRoot(0) /\ At(0).size >= 2             \* the end root cannot be read
          /\ op.to + EndRoot \notin Sectors(op.dd) /\ disk' = Change(disk, 0, Placed(0))
          /\ Report(FALSE) /\ UNCHANGED troubles
       \/ /\ IsRoot(0) => At(0).size < 2
          /\ Report(FALSE) /\ UNCHANGED <<disk, troubles>>
       \/ /\ IsRoot(0) /\ Trouble /\ Report(FALSE)
          /\ disk' \in {disk, Change(disk, 0, Placed(0))}
    /\ UNCHANGED <<file, clean>> /\ Rest

\* The partition is cut to the cylinders the volume needs, the volume grown to them.
Trimmed ==
    LET c == op.dst.cyl * op.dst.unit
    IN [op.dst EXCEPT !.high = Min({@, op.dst.low + (op.count + c - 1) \div c - 1})]

\* FFS_GrowPartition, which writes the root's number into the boot block; SFS_GrowPartition,
\* which wipes the old end root last.
Grown(n) ==
    LET d == Change(disk, 0, [At(0) EXCEPT !.size = n])
    IN IF op.dst.type = "sfs"
       THEN Change(Change(d, n - 1, [At(0) EXCEPT !.n = n - 1, !.size = n]), EndRoot, Zero)
       ELSE Change(disk, 0, [At(0) EXCEPT !.size = n, !.flag = TRUE])

\* The size asked for counts if it is larger; or else the volume, taken for one of a single
\* cylinder, grows by one of itself for each further cylinder.
NewTotal(e) == IF Count(e) > At(0).size THEN Count(e) ELSE At(0).size * (e.high - e.low + 1)

FillSfs ==
    /\ pc = "fill" /\ op.dst.type = "sfs"
    /\ mem' = [mem EXCEPT !.tbl.parts = (@ \ {op.dst}) \cup {Trimmed}]
    /\ LET o == [op EXCEPT !.dst = Trimmed, !.exact = Count(Trimmed) <= At(0).size]
           n == NewTotal(Trimmed)
       IN \/ /\ op.to + n <= Size[op.dd] /\ disk' = Grown(n)
             /\ pc' = "name" /\ op' = o /\ UNCHANGED troubles
          \/ /\ IF op.to + n <= Size[op.dd] THEN Trouble ELSE UNCHANGED troubles
             /\ pc' = "report" /\ op' = o /\ UNCHANGED disk
    /\ UNCHANGED <<file, before, ops, clean>>

FixFfs ==
    /\ pc = "fix" /\ op.dst.type = "ffs"
    /\ \/ ~Larger /\ Go(After) /\ UNCHANGED <<disk, troubles>>
       \/ /\ Larger /\ IsRoot(0) /\ disk' = Grown(Count(op.dst))
          /\ Go("name") /\ UNCHANGED troubles
       \/ /\ Larger /\ IF IsRoot(0) THEN Trouble ELSE UNCHANGED troubles
          /\ Report(FALSE) /\ UNCHANGED disk
    /\ UNCHANGED <<file, clean>> /\ Rest

\* pc_pfs_clear_sizefield, for clones only; an error is passed over.
FixPfs ==
    /\ pc = "fix" /\ op.dst.type = "pfs" /\ Go(After)
    /\ IF op.kind = "clone" /\ IsRoot(0)
       THEN \/ disk' = Change(disk, 0, [At(0) EXCEPT !.flag = FALSE]) /\ Calm
            \/ Trouble /\ clean' = FALSE /\ UNCHANGED disk
       ELSE UNCHANGED disk /\ Calm
    /\ UNCHANGED file /\ Rest

\* pc_relabel_ffs, _sfs, _pfs: "CL-" and what fits of the name; an error is passed over, and
\* so is a boot block of FFS that does not say where the root is.
Findable == op.dst.type = "ffs" => At(0).flag
Rename ==
    /\ pc = "name" /\ Go("table")
    /\ IF IsRoot(0) /\ Findable
       THEN \/ disk' = Change(disk, 0, [At(0) EXCEPT !.name = Min({@ + 1, MaxName})]) /\ Calm
            \/ Trouble /\ clean' = FALSE /\ UNCHANGED disk
       ELSE UNCHANGED disk /\ Calm
    /\ UNCHANGED file /\ Rest

---------------------------------------------------------------------------
(* The table *)

\* PartClone_DestNeedsFS and _CopyFS: a driver comes along, unless the user declines.
Drivers ==
    LET type == op.src.type IN
    IF /\ op.kind = "clone" /\ op.sd # op.dd
       /\ type \in op.fs \ mem.tbl.fs /\ type # "ffs"
       /\ Cardinality(mem.tbl.fs) < MaxFs
    THEN mem.tbl.fs \cup {type} ELSE mem.tbl.fs

TableWrite ==
    LET t == [mem.tbl EXCEPT !.fs = Drivers] IN
    /\ pc = "table" /\ mem' = [mem EXCEPT !.tbl = t]
    /\ \/ /\ Accepted(t) /\ disk' = [disk EXCEPT ![op.dd][0] = t]
          /\ Report(TRUE) /\ UNCHANGED troubles
       \/ ~Accepted(t) /\ Report(FALSE) /\ UNCHANGED <<disk, troubles>>
       \/ /\ Accepted(t) /\ Trouble /\ Report(FALSE)
          /\ disk' \in {disk, [disk EXCEPT ![op.dd][0] = t]}
    /\ UNCHANGED <<file, before, ops, clean>>

\* offer_grow_dest_rdb, RDB_GrowToDevice: the table of the copy covers the larger disk.
Geometry ==
    LET d == op.dd
        cyls == Size[d] \div Table(d).cyl
    IN /\ pc = "geometry" /\ pc' = "report" /\ op' = [op EXCEPT !.ok = TRUE]
       /\ \/ /\ HasTable(d) /\ cyls > Table(d).hi + 1
             /\ LET t == [Table(d) EXCEPT !.hi = cyls - 1]
                IN Accepted(t) /\ disk' = [disk EXCEPT ![d][0] = t]
          \/ UNCHANGED disk             \* it does not apply, or the user declines
       /\ UNCHANGED file /\ Calm /\ Rest

\* The editor or the script goes on with its table; the other one is released.
Close ==
    /\ pc = "report" /\ pc' = "idle" /\ op' = NoOp
    /\ mem' \in {NoMem} \cup IF op.new \/ (op.kind = "clone" /\ op.sd # op.dd) THEN {} ELSE {mem}
    /\ UNCHANGED <<disk, file, before, clean, ops, troubles>>

Crash ==
    /\ pc \notin {"idle", "report"} /\ Trouble
    /\ pc' = "idle" /\ op' = NoOp /\ mem' = NoMem
    /\ UNCHANGED <<disk, file, before, clean, ops>>

Advance == \/ Next1 \/ Short \/ Copied \/ FixSfs \/ FillSfs \/ FixFfs \/ FixPfs \/ Rename
           \/ TableWrite \/ Geometry \/ Close

Next == \/ /\ pc = "idle"
           /\ \/ \E d \in Disks : Dump(d) \/ Restore(d) \/ ImageOut(d) \/ ImageIn(d)
              \/ \E s, d \in Disks : Clone(s, d) \/ CloneNew(s, d) \/ DiskCopy(s, d)
        \/ Advance \/ Fail \/ Cancel \/ Crash

Spec == Init /\ [][Next]_vars

---------------------------------------------------------------------------
(* Properties *)

\* The volume whose root is r mounts at the n sectors from b on.
Mounts(type, r, b, n) ==
    /\ r.kind = "root" /\ r.type = type
    /\ type \in {"ffs", "sfs"} => r.size = n
    /\ type = "sfs" => r.at = b
    /\ type = "pfs" /\ r.flag => r.size = n

SourceBlock(i) ==
    IF ~FromDisk THEN file.blocks[i + 1]
    ELSE IF op.from + i \in Sectors(op.sd) THEN before[op.sd][op.from + i] ELSE Zero
CopiedBlock(i) == IF ToDisk THEN At(i) ELSE file.blocks[i + 1]

\* What is copied is a volume that mounts, all of it.
WholeSource ==
    LET first == SourceBlock(0)
        roots == IF op.src.type = "sfs" THEN {0, op.count - 1} ELSE {0}
    IN /\ first.kind = "root"
       /\ \A i \in roots : Mounts(op.src.type, SourceBlock(i), first.at, op.count)
       /\ \A i \in 0 .. op.count - 1 :
             LET s == SourceBlock(i)
             IN s.kind # "zero" /\ s.vol = first.vol /\ s.n = i
                /\ (s.kind = "root" <=> i \in roots)

\* The boot block of an FFS source names its root, or the grow has written it there.
Renamable == op.dst.type = "ffs" => SourceBlock(0).flag \/ Larger

MountsCopy ==
    /\ Mounts(op.dst.type, At(0), Base(op.dst), Count(op.dst))
    /\ op.dst.type = "sfs" =>
        Mounts("sfs", At(Count(op.dst) - 1), Base(op.dst), Count(op.dst))
    /\ op.dst \in Table(op.dd).parts /\ Base(op.dst) = op.to
    /\ op.kind = "clone" /\ SourceBlock(0).name < MaxName /\ Renamable =>
        At(0).name # SourceBlock(0).name

\* Entries of a disk with different cylinders may share blocks, as only the cylinder numbers
\* are compared.
OnItself ==
    /\ op.sd = op.dd
    /\ \E i, j \in 0 .. op.count - 1 : op.from + i = op.to + j

\* A copy that reports success holds every block of the source, zeros in place of those
\* that could not be read; and a volume that mounts also mounts at its
\* new place by the table that is on the disk, a clone under a name of its own unless the
\* source's is full of prefixes, or its boot block does not name an FFS root that stays where
\* it is.  Excepted are clones of SFS onto a larger partition of which whole cylinders hold
\* the source, and clones over their own source.
Same(i) == CopiedBlock(i) = IF i \in op.zeroed THEN Zero ELSE SourceBlock(i)

Faithful ==
    (pc = "report" /\ op.ok) =>
        /\ op.kind \notin {"clone", "restore"} =>
            \A i \in 0 .. op.count - 1 : Same(i) \/ (i = 0 /\ op.kind = "diskcopy")
        /\ (op.kind \in {"clone", "restore"} /\ WholeSource /\ ~op.exact /\ ~OnItself) =>
            /\ \A i \in 1 .. op.count - 1 : Same(i) \/ SourceBlock(i).kind = "root"
            /\ clean /\ op.zeroed = {} => MountsCopy

\* Whatever a copy does, and wherever it stops, no block of another partition of the disk
\* changes, neither of those in the table it goes by nor of those in the table on the disk
\* where the two have entries at the same cylinders; nor any block of the disk it reads.
\* Excepted are an entry whose cylinders differ from those of the others (the restore of a
\* dump from elsewhere leaves one, and a later clone may be put there), a volume whose root
\* states more than its partition holds, and the clones excepted above.
Untouched(d, p) == \A b \in Place(p) \cap Sectors(d) : disk[d][b] = before[d][b]
Lows(parts) == {p.low : p \in parts}
Saved == IF before[op.dd][0].kind = "rdb" THEN before[op.dd][0].parts ELSE {}
InStep == Lows(mem.tbl.parts) = Lows(Saved) \cup (IF op.new THEN {op.dst.low} ELSE {})
Others == {p \in mem.tbl.parts \cup (IF InStep THEN Saved ELSE {}) : p.low # op.dst.low}
Written == IF op.kind = "restore" THEN op.src ELSE op.dst
Uniform == \A p \in Others : p.cyl * p.unit = Written.cyl * Written.unit
Outsized ==
    /\ op.done = op.count /\ op.src.type = "sfs"
    /\ SourceBlock(0).kind = "root" /\ SourceBlock(0).size > op.count

NeighboursKept ==
    pc # "idle" =>
        /\ op.sd \in Disks /\ op.sd # op.dd => disk[op.sd] = before[op.sd]
        /\ (op.kind \in {"restore", "clone"} /\ Uniform /\ ~Outsized /\ ~op.exact) =>
            \A p \in Others : Untouched(op.dd, p)

\* The table on the disk changes once all is copied and adapted, and then has the entry the
\* copy belongs to; until then, and after a copy that fails, it is the old one, and the
\* entry in memory that of the old contents.
EntryFollowsCopy ==
    (pc # "idle" /\ op.kind \in {"restore", "clone"}) =>
        /\ disk[op.dd][0] # before[op.dd][0] =>
            /\ pc = "report" /\ op.done = op.count /\ op.dst \in Table(op.dd).parts
            /\ op.ok \/ troubles > 0
        /\ op.done < op.count => op.dst \in mem.tbl.parts

\* A copy stays inside its target: its counters inside the ranges they count over, its
\* blocks inside the partition, and the table follows it, not the reverse.
Contained == TypeOK /\ NeighboursKept /\ EntryFollowsCopy
=============================================================================
