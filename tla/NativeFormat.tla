---------------------------- MODULE NativeFormat ----------------------------
(***************************************************************************)
(* Formatting a partition (nativefmt.c): the internal formatters write the *)
(* skeleton of an empty FFS, PFS3 or SFS volume block by block, the        *)
(* dispatcher mounts it or leaves the work to the operating system's       *)
(* formatter (quickformat.c).  A formatter is the list of its writes; any  *)
(* of them may fail, and the machine may be reset between any two.         *)
(* The constants shrink the volumes, not their structure: Slack is half a   *)
(* longword, as 16 is of 32.                                               *)
(***************************************************************************)
EXTENDS Integers, SequencesExt, FiniteSetsExt

CONSTANTS Parts,      \* the partitions and the ways to format them, see Part
          Long,       \* bits of a longword (32)
          Bits,       \* blocks a bitmap block accounts for
          Ptrs,       \* pointers in an extension or bitmap index block
          RootPtrs,   \* bitmap pointers in a root block
          Slack,      \* blocks beyond its reserved ones a volume has at least (16)
          Admin,      \* SFS_ADMIN_BLOCKS
          Cluster,    \* sectors of a PFS reserved block
          Schijf,     \* the steps of pfs_calc_num_reserved
          FirstLongs, MoreLongs,  \* longs of the reserved bitmap in the root cluster
          Margin,     \* sectors behind the reserved area a PFS volume has at least
          SmallDisk   \* sectors from which PFS needs a super index

Part == [fs : {"FFS", "PFS", "SFS", "other"}, size : Nat, reserved : Nat,
         cache : BOOLEAN,                \* DOS\4, DOS\5
         deldir : Nat, safe : BOOLEAN, file : BOOLEAN,
         sfs : BOOLEAN,                  \* an SFS volume of this size stands there
         resident : BOOLEAN,             \* its handler is in FileSystem.resource
         driver : BOOLEAN]               \* its handler is in the table

ASSUME FormatAssumption ==
    /\ Parts \subseteq Part
    /\ Bits % Long = 0 /\ Long > 0 /\ Ptrs > 0 /\ Cluster > 0

VARIABLES part,  \* what is formatted
          blk,   \* block -> what it holds
          todo,  \* the writes to come
          pc, rc,
          dos    \* the partition's handler: none, live, quiet

vars == <<part, blk, todo, pc, rc, dos>>

Ceil(a, b) == (a + b - 1) \div b
At(b, c) == <<<<b, c>>>>                    \* one write
Each(n, W(_)) == [i \in 1..n |-> W(i - 1)]  \* a loop of writes
Zero == [k |-> "zero"]
\* Mutant: the boot block keeps its signature until the end.
MutWipe(n) == <<>>
Wipe(n) == Each(n, LAMBDA i : <<i, Zero>>)

Native == ~part.safe /\ part.fs # "other"

-----------------------------------------------------------------------------
(* ffs_format *)

\* Where everything goes: one run from the root on, the directory cache at the
\* start of the root's bitmap longword.
Ffs ==
    LET root == part.size \div 2
        maps == Ceil(part.size - part.reserved, Bits)
        exts == IF maps > RootPtrs THEN Ceil(maps - RootPtrs, Ptrs) ELSE 0
        last == root + exts + maps
        group == part.reserved + ((root - part.reserved) \div Long) * Long
    IN  [root |-> root, maps |-> maps, exts |-> exts, ext |-> root + 1,
         map |-> root + 1 + exts, last |-> last,
         cache |-> IF ~part.cache THEN 0 ELSE IF group \in 0..(root - 1) THEN group ELSE last + 1]

FfsFits == /\ part.size >= part.reserved + Slack
           /\ Ffs.last < part.size
           /\ Ffs.cache < part.size

\* Mutant: the bitmap shows the directory cache as free.
MutFfsUsed == Ffs.root..Ffs.last

FfsUsed == (Ffs.root..Ffs.last) \cup (IF part.cache THEN {Ffs.cache} ELSE {})

\* Bit i of bitmap block k; the bits behind the last block stay 1.
FfsMap(k) == [k |-> "bitmap",
              free |-> {i \in 0..(Bits - 1) : part.reserved + k * Bits + i \notin FfsUsed}]

FfsExt(k) ==
    [k |-> "ext",
     ptrs |-> Each(Min({Ptrs, Ffs.maps - RootPtrs - k * Ptrs}),
                   LAMBDA s : Ffs.map + RootPtrs + k * Ptrs + s),
     next |-> IF k + 1 < Ffs.exts THEN Ffs.ext + k + 1 ELSE 0]

FfsRoot == [k |-> "root",
            ptrs |-> Each(Min({RootPtrs, Ffs.maps}), LAMBDA i : Ffs.map + i),
            ext |-> IF Ffs.exts > 0 THEN Ffs.ext ELSE 0,
            cache |-> Ffs.cache,
            used |-> Ffs.last - Ffs.root + 1]

FfsPlan ==
    [end |-> "ok",
     writes |-> Wipe(part.reserved)
                \o Each(Ffs.maps, LAMBDA k : <<Ffs.map + k, FfsMap(k)>>)
                \o Each(Ffs.exts, LAMBDA k : <<Ffs.ext + k, FfsExt(k)>>)
                \o (IF part.cache THEN At(Ffs.cache, [k |-> "cache", parent |-> Ffs.root]) ELSE <<>>)
                \o At(Ffs.root, FfsRoot)
                \o At(0, [k |-> "boot", fs |-> "FFS", root |-> Ffs.root])]

-----------------------------------------------------------------------------
(* pfs_format *)

\* pfs_calc_num_reserved: so many of each further step, ten more, whole longs.
Reserved ==
    LET steps == FoldLeft(LAMBDA a, s : [left |-> a.left - Min({a.left, s[1]}),
                                         taken |-> a.taken + Min({a.left, s[1]}) \div s[2]],
                          [left |-> part.size \div Cluster, taken |-> 10], Schijf)
    IN  Ceil(steps.taken, Long) * Long

LastReserved == Cluster * Reserved + 1
\* Reserved blocks of the root cluster: the root block and the reserved bitmap.
RootCluster == LET longs == Reserved \div Long
               IN  1 + (IF longs > FirstLongs THEN Ceil(longs - FirstLongs, MoreLongs) ELSE 0)
Super == part.size > SmallDisk
PfsMaps == Ceil(Ceil(part.size - LastReserved - 1, Long), Bits \div Long)
PfsIndexes == Ceil(PfsMaps, Ptrs)
Deldirs == IF part.deldir = 0 THEN 2 ELSE Min({part.deldir, 32})

PfsFits == LastReserved + Margin < part.size /\ PfsIndexes <= RootPtrs

\* The reserved block with bit i; none is sector 0.
None == 0 - 1
Sector(i) == IF i = None THEN 0 ELSE 2 + i * Cluster

\* pfs_res_alloc: the first free bit from the last one taken on, then from 0.
NextFree(r) == LET up == {i \in r.free : i >= r.roving}
               IN  IF r.free = {} THEN None ELSE IF up # {} THEN Min(up) ELSE Min(r.free)
Alloc(r) == LET i == NextFree(r)
            IN  IF i = None THEN r ELSE [free |-> r.free \ {i}, roving |-> i]
Take(r, n) == FoldLeft(LAMBDA a, i : [r |-> Alloc(a.r), got |-> Append(a.got, NextFree(a.r))],
                       [r |-> r, got |-> <<>>], [i \in 1..n |-> i])

More == [k |-> "tail"]
Reserve(s, c) == At(s, c) \o Each(Cluster - 1, LAMBDA i : <<s + 1 + i, More>>)
EachReserve(n, S(_), C(_)) == FlattenSeq(Each(n, LAMBDA i : Reserve(S(i), C(i))))

\* Who gets which block: every index block before its bitmap blocks, the anode
\* blocks, the deleted directories, the extension's second copy.
Pfs ==
    LET super == IF Super THEN 1 ELSE 0
        base == PfsIndexes + PfsMaps
        start == [free |-> (RootCluster + 1)..(Reserved - 1), roving |-> 0]
        took == Take(start, base + super + 3 + Deldirs + 1)
        place(i) == Sector(took.got[i])
        freed == [took.r EXCEPT !.free = @ \cup {RootCluster}]
        ext1 == took.got[base + super + 3 + Deldirs + 1]
    IN  [index |-> [i \in 0..(PfsIndexes - 1) |-> place(1 + i * (Ptrs + 1))],
         map |-> [s \in 0..(PfsMaps - 1) |-> place(2 + s + s \div Ptrs)],
         super |-> IF Super THEN place(base + 1) ELSE 0,
         anodeIndex |-> place(base + super + 1), anodes |-> place(base + super + 2),
         dir |-> place(base + super + 3),
         deldir |-> [i \in 0..(Deldirs - 1) |-> place(base + super + 4 + i)],
         ext0 |-> Sector(RootCluster), ext1 |-> Sector(ext1), ext2 |-> Sector(NextFree(freed)),
         free |-> Alloc(freed).free \cup {ext1}]

PfsExt(p, stamp, del) ==
    [k |-> "EX", stamp |-> stamp, super |-> p.super,
     deldir |-> Each(del, LAMBDA i : p.deldir[i])]

PfsRoot(p) == [k |-> "rootblock", free |-> Cardinality(p.free), bits |-> p.free,
               total |-> part.size, ext |-> p.ext2,
               index |-> Each(Cardinality(DOMAIN p.index), LAMBDA i : p.index[i]),
               anodeIndex |-> IF Super THEN 0 ELSE p.anodeIndex]

\* The bitmap blocks of index block i, and what goes to the disk for it.
PfsMapsOf(p, i) == Each(Min({Ptrs, Cardinality(DOMAIN p.map) - i * Ptrs}),
                        LAMBDA s : p.map[i * Ptrs + s])
PfsBitmaps(p) ==
    FlattenSeq(Each(Cardinality(DOMAIN p.index), LAMBDA i :
        LET maps == PfsMapsOf(p, i)
        IN  EachReserve(Len(maps), LAMBDA s : maps[s + 1],
                        LAMBDA s : [k |-> "BM", seq |-> i * Ptrs + s])
            \o Reserve(p.index[i], [k |-> "MI", seq |-> i, ptrs |-> maps])))

PfsAnodes(p) ==
    (IF Super THEN Reserve(p.super, [k |-> "SB", ptr |-> p.anodeIndex]) ELSE <<>>)
    \o Reserve(p.anodeIndex, [k |-> "IB", ptr |-> p.anodes])
    \o Reserve(p.anodes, [k |-> "AB", ptr |-> p.dir])
    \o Reserve(p.dir, [k |-> "DB"])
    \o Reserve(p.ext0, PfsExt(p, 1, 0))

PfsDeldirs(p) ==
    EachReserve(Deldirs, LAMBDA i : p.deldir[i], LAMBDA i : [k |-> "DD", seq |-> i])
    \o Reserve(p.ext1, PfsExt(p, 2, Deldirs))

PfsCommit(p) ==
    Reserve(p.ext2, PfsExt(p, 3, Deldirs))
    \o At(2, PfsRoot(p)) \o Each(RootCluster * Cluster - 1, LAMBDA i : <<3 + i, More>>)
    \o At(0, [k |-> "boot", fs |-> "PFS", root |-> 2]) \o At(1, Zero)

\* The allocator may run dry: the blocks for bitmaps and for the extension are
\* used unchecked, and freeing what was never allocated writes past the bitmap.
PfsEnd(p) ==
    CASE 0 \in {p.anodeIndex, p.anodes, p.dir} \/ (Super /\ p.super = 0) -> [end |-> "error", steps |-> 2]
      [] \E i \in DOMAIN p.deldir : p.deldir[i] = 0 -> [end |-> "error", steps |-> 3]
      [] p.ext1 = 0 -> [end |-> "undefined", steps |-> 4]
      [] OTHER -> [end |-> "ok", steps |-> 5]

PfsSteps(p) ==
    LET steps == <<Wipe(2), PfsBitmaps(p), PfsAnodes(p), PfsDeldirs(p), PfsCommit(p)>>
    IN  [end |-> PfsEnd(p).end, writes |-> FlattenSeq(SubSeq(steps, 1, PfsEnd(p).steps))]

PfsPlan == PfsSteps(Pfs)

-----------------------------------------------------------------------------
(* sfs_format *)

Sfs == LET maps == Ceil(part.size, Bits)
       IN  [adm |-> part.reserved, root |-> part.reserved + 1, maps |-> maps,
            map |-> part.reserved + Admin]

SfsFits == part.size >= Sfs.map + Sfs.maps + 1 + Slack

\* The loop over the longwords of all bitmap blocks: used blocks in front, free
\* ones, the last one used.
SfsFree ==
    LET first == Admin + Sfs.maps + part.reserved
        Step(a, j) ==
            IF a.used > 0
            THEN LET over == Long - a.used
                 IN  IF over <= 0 THEN [a EXCEPT !.used = @ - Long]
                     ELSE [used |-> 0, left |-> a.left - over,
                           free |-> ((j + 1) * Long - over)..((j + 1) * Long - 1)]
            ELSE IF a.left > 0
            THEN [a EXCEPT !.left = @ - Long,
                           !.free = @ \cup (j * Long)..(j * Long + Min({Long, a.left}) - 1)]
            ELSE a
    IN  FoldLeft(Step, [used |-> first, left |-> part.size - first - 1, free |-> {}],
                 [i \in 1..(Sfs.maps * (Bits \div Long)) |-> i - 1]).free

SfsMap(i) == [k |-> "BTMP", own |-> Sfs.map + i,
              free |-> {b - i * Bits : b \in SfsFree \cap (i * Bits)..((i + 1) * Bits - 1)}]

SfsRoot(own) == [k |-> "SFS", own |-> own, total |-> part.size, map |-> Sfs.map,
                 adm |-> Sfs.adm, root |-> Sfs.root,
                 tree |-> Sfs.root + 3, nodes |-> Sfs.root + 4]

SfsPlan ==
    [end |-> "ok",
     writes |-> Wipe(1)
                \o At(Sfs.adm, [k |-> "ADMC", space |-> Sfs.adm, taken |-> 7])
                \o At(Sfs.root, [k |-> "OBJC", hash |-> Sfs.root + 1, first |-> Sfs.root + 5,
                                 free |-> part.size - Admin - part.reserved - 1 - Sfs.maps])
                \o At(Sfs.root + 1, [k |-> "HTAB"])
                \o At(Sfs.root + 2, [k |-> "TROK"])
                \o At(Sfs.root + 3, [k |-> "BNDC"])
                \o At(Sfs.root + 4, [k |-> "NDC", objects |-> <<Sfs.root, Sfs.root + 5>>])
                \o At(Sfs.root + 5, [k |-> "OBJC", hash |-> 0, first |-> 0, free |-> 0])
                \o Each(Sfs.maps, LAMBDA i : <<Sfs.map + i, SfsMap(i)>>)
                \o At(part.size - 1, SfsRoot(part.size - 1))
                \o At(0, SfsRoot(0))]

-----------------------------------------------------------------------------
(* Format_Partition *)

Fits == CASE part.fs = "FFS" -> FfsFits
          [] part.fs = "PFS" -> PfsFits
          [] part.fs = "SFS" -> SfsFits
Plan == CASE part.fs = "FFS" -> FfsPlan
          [] part.fs = "PFS" -> PfsPlan
          [] part.fs = "SFS" -> SfsPlan

\* What stood there before: a volume with its boot block, or with two roots.
Old == [k |-> "old"]
OldRoot == [k |-> "oldroot"]
Before == [b \in 0..(part.size - 1) |-> IF part.sfs /\ b = part.size - 1 THEN OldRoot ELSE Old]

Init == /\ part \in Parts
        /\ blk = Before
        /\ todo = <<>>
        /\ pc = "start"
        /\ rc = "none"
        /\ dos = "none"

Done(r) == pc' = "done" /\ rc' = r

\* The internal formatter refuses a name, a block size or a partition that is
\* too small before it writes; without one, an image has no formatter at all.
Refuse == /\ pc = "start"
          /\ Native \/ part.file
          /\ Done("error")
          /\ UNCHANGED <<part, blk, todo, dos>>

Begin == /\ pc = "start"
         /\ IF Native THEN Fits /\ pc' = "write" /\ todo' = Plan.writes
            ELSE ~part.file /\ pc' = "handler" /\ todo' = todo
         /\ UNCHANGED <<part, blk, rc, dos>>

Write == /\ pc = "write" /\ todo # <<>>
         /\ \/ /\ blk' = [blk EXCEPT ![Head(todo)[1]] = Head(todo)[2]]
               /\ todo' = Tail(todo)
               /\ UNCHANGED <<pc, rc>>
            \/ /\ Done("error")
               /\ UNCHANGED <<blk, todo>>
         /\ UNCHANGED <<part, dos>>

\* The skeleton is complete; on an image that is all.
Written == /\ pc = "write" /\ todo = <<>>
           /\ IF Plan.end # "ok" THEN Done(Plan.end)
              ELSE IF part.file THEN Done("ok")
              ELSE pc' = "handler" /\ rc' = rc
           /\ UNCHANGED <<part, blk, todo, dos>>

\* QuickFormat_EnsureHandler: resident, or loaded from the table. The internal
\* formatter goes on to the mount either way.
EnsureHandler ==
    /\ pc = "handler"
    /\ \E found \in {part.resident, part.resident \/ part.driver} :
         /\ part' = [part EXCEPT !.resident = found]
         /\ IF found \/ Native THEN pc' = "mount" /\ rc' = rc ELSE Done("error")
    /\ UNCHANGED <<blk, todo, dos>>

\* MountPartition: needs a handler, and may fail.
Mount == /\ pc = "mount"
         /\ \/ /\ part.resident
               /\ dos' = "live"
               /\ IF Native THEN Done("ok") ELSE pc' = "inhibit" /\ rc' = rc
            \/ /\ dos' = dos
               /\ Done(IF Native THEN "ok" ELSE "error")
         /\ UNCHANGED <<part, blk, todo>>

\* QuickFormat_Partition: the handler formats the volume while it is inhibited.
Inhibit == /\ pc = "inhibit"
           /\ dos' = "quiet"
           /\ pc' = "format"
           /\ UNCHANGED <<part, blk, todo, rc>>

OsFormat == /\ pc = "format"
            /\ \/ /\ blk' = [b \in DOMAIN blk |-> [k |-> "os"]]
                  /\ Done("ok")
               \/ blk' = blk /\ Done("error")
            /\ dos' = "live"
            /\ UNCHANGED <<part, todo>>

Crash == /\ pc \notin {"done", "down"}
         /\ pc' = "down"
         /\ dos' = "none"
         /\ UNCHANGED <<part, blk, todo, rc>>

Next == \/ Refuse \/ Begin \/ Write \/ Written
        \/ EnsureHandler \/ Mount \/ Inhibit \/ OsFormat \/ Crash

Spec == Init /\ [][Next]_vars

-----------------------------------------------------------------------------
(* How a file system reads what is there *)

Kind(b, k) == b \in DOMAIN blk /\ blk[b].k = k
Apart(s) == \A i, j \in DOMAIN s : s[i] = s[j] => i = j

\* The extension blocks from block b on.
ExtChain(b) ==
    LET Step(a, i) == IF a.at # 0 /\ Kind(a.at, "ext")
                      THEN [at |-> blk[a.at].next, seen |-> Append(a.seen, a.at)] ELSE a
    IN  FoldLeft(Step, [at |-> b, seen |-> <<>>], [i \in 1..part.size |-> i]).seen

FfsReads(root) ==
    LET r == blk[root]
        exts == ExtChain(r.ext)
        maps == r.ptrs \o FlattenSeq([i \in DOMAIN exts |-> blk[exts[i]].ptrs])
        all == <<root>> \o maps \o exts \o (IF part.cache THEN <<r.cache>> ELSE <<>>)
        bits == part.size - part.reserved
    IN  /\ Kind(root, "root")
        /\ Apart(all)
        /\ Len(maps) = Ceil(bits, Bits)
        /\ \A i \in DOMAIN maps : Kind(maps[i], "bitmap")
        /\ part.cache => Kind(r.cache, "cache") /\ blk[r.cache].parent = root
        /\ \A i \in 0..(bits - 1) :
              i % Bits \in blk[maps[i \div Bits + 1]].free
                 <=> (part.reserved + i) \notin ToSet(all)
        /\ ~part.cache => r.used = Len(all)

PfsReads ==
    LET r == blk[2]
        maps == FlattenSeq([i \in DOMAIN r.index |-> blk[r.index[i]].ptrs])
        ib == IF Super THEN blk[blk[r.ext].super].ptr ELSE r.anodeIndex
        ab == blk[ib].ptr
        del == blk[r.ext].deldir
        all == r.index \o maps \o <<r.ext, ib, ab, blk[ab].ptr>> \o del
               \o (IF Super THEN <<blk[r.ext].super>> ELSE <<>>)
    IN  /\ Kind(2, "rootblock")
        /\ \A i \in DOMAIN r.index : Kind(r.index[i], "MI") /\ blk[r.index[i]].seq = i - 1
        /\ \A i \in DOMAIN maps : Kind(maps[i], "BM") /\ blk[maps[i]].seq = i - 1
        /\ Len(maps) * Bits >= part.size - LastReserved - 1
        /\ Kind(r.ext, "EX") /\ blk[r.ext].stamp = 3
        /\ Super => Kind(blk[r.ext].super, "SB")
        /\ Kind(ib, "IB") /\ Kind(ab, "AB") /\ Kind(blk[ab].ptr, "DB")
        /\ Len(del) = Deldirs
        /\ \A i \in DOMAIN del : Kind(del[i], "DD") /\ blk[del[i]].seq = i - 1
        /\ Apart(all)
        /\ r.bits = {i \in 0..(Reserved - 1) : i >= RootCluster /\ Sector(i) \notin ToSet(all)}
        /\ r.free = Cardinality(r.bits)
        /\ \A i \in r.bits : Sector(i) + Cluster - 1 <= LastReserved

\* Up to these sizes the free blocks do not fill the longword they begin in: the
\* bitmap shows the end root, and blocks behind it, as free.
SfsTiny == LET first == Admin + Sfs.maps + part.reserved
           IN  part.size - 1 < Ceil(first, Long) * Long

\* From the start root, or from the end root while there is none.
SfsReads ==
    LET r == IF Kind(0, "SFS") THEN blk[0] ELSE blk[part.size - 1]
        used == 0..(part.reserved - 1) \cup {part.size - 1}
                  \cup r.adm..(r.adm + Admin - 1)
                  \cup r.map..(r.map + Ceil(r.total, Bits) - 1)
    IN  /\ r.k = "SFS" /\ r.total = part.size
        /\ blk[part.size - 1] = [r EXCEPT !.own = part.size - 1]
        /\ Kind(r.adm, "ADMC") /\ Kind(r.root, "OBJC") /\ Kind(blk[r.root].hash, "HTAB")
        /\ Kind(r.tree, "BNDC") /\ Kind(r.nodes, "NDC")
        /\ \A i \in DOMAIN blk[r.nodes].objects : Kind(blk[r.nodes].objects[i], "OBJC")
        /\ \A i \in 0..(Ceil(r.total, Bits) - 1) : Kind(r.map + i, "BTMP")
        /\ SfsTiny \/ \A b \in 0..(Ceil(r.total, Bits) * Bits - 1) :
              b % Bits \in blk[r.map + b \div Bits].free <=> b < r.total /\ b \notin used
        /\ blk[r.root].free = Cardinality((0..(r.total - 1)) \ used)
        /\ blk[r.adm].taken = Cardinality({b \in r.adm..(r.adm + Admin - 1) : blk[b].k # "old"})

Reads == CASE blk[0].k = "boot" /\ blk[0].fs = "FFS" -> FfsReads(blk[0].root)
           [] blk[0].k = "boot" /\ blk[0].fs = "PFS" -> PfsReads
           [] part.fs = "SFS" -> SfsReads
           [] OTHER -> FALSE
Signed == blk[0].k \in {"old", "boot", "SFS", "os"}
\* SFS mounts from its end root when the start root is none.
EndRoots == {b \in {part.size - 1} : part.fs = "SFS" /\ blk[b].k \in {"SFS", "oldroot"}}

-----------------------------------------------------------------------------
TypeOK ==
    /\ part \in Parts \/ [part EXCEPT !.resident = FALSE] \in Parts
    /\ DOMAIN blk = 0..(part.size - 1)
    /\ \A i \in DOMAIN todo : todo[i][1] \in DOMAIN blk
    /\ pc \in {"start", "write", "handler", "mount", "inhibit", "format", "done", "down"}
    /\ rc \in {"none", "ok", "error", "undefined"}
    /\ dos \in {"none", "live", "quiet"}

(***************************************************************************)
(* What an internal format that returns success leaves is a volume of that *)
(* size: every structure its root leads to is there, no two in one place,  *)
(* and the bitmaps and free counts say of each block what it is (the bitmap *)
(* of an SFS volume unless SfsTiny); and no format has a block to write     *)
(* that lies outside its partition (TypeOK) (nativefmt.c compares itself    *)
(* with the real handlers byte for byte).                                   *)
(***************************************************************************)
SoundVolume == TypeOK /\ (rc = "ok" /\ Native => Reads /\ Signed)

(***************************************************************************)
(* "an interrupted format never leaves a DOS signature on top of a         *)
(* half-written skeleton" (nativefmt.c): after a reset or a failed write   *)
(* the first block either belongs to a volume that is whole, the old one   *)
(* or the new one, or it is nobody's; and an end root in the last block    *)
(* leads to a whole volume too, unless it is that of an older SFS volume,  *)
(* which the formatter does not wipe.                                      *)
(***************************************************************************)
NeverHalf == Native => /\ Signed => blk = Before \/ Reads
                       /\ \A b \in EndRoots : blk[b] = OldRoot \/ Reads

(***************************************************************************)
(* The handler that is started for the new volume finds it whole, and no   *)
(* way out of the dispatcher leaves it inhibited.                           *)
(***************************************************************************)
MountedWhole == /\ dos # "none" /\ Native => Reads
                /\ pc = "done" => dos # "quiet"

(***************************************************************************)
(* Neither the disk nor a handler ever gets to see half a volume.          *)
(***************************************************************************)
WholeOrNothing == NeverHalf /\ MountedWhole
=============================================================================
