----------------------------- MODULE PfsResize -----------------------------
(***************************************************************************)
(* Growing and shrinking a PFS volume (src/src/pfsresize.c), the write of   *)
(* the partition table in the callers, and the PFS handler, which stays     *)
(* mounted and keeps a copy of the rootblock while the resize writes its    *)
(* own.                                                                     *)
(*                                                                         *)
(* The rootblock states the size of the volume and counts its free blocks;  *)
(* its sizefield flag makes a mount compare the size with the partition's.  *)
(* Bitmap block k has a bit, set for free, for each block of Cover(k).  The *)
(* handler creates bitmap blocks, and the index blocks that point to them,  *)
(* when it needs them, from the reserved area: what is absent is free.      *)
(*                                                                         *)
(* What the handler does is modelled from the comments of pfsresize.c.      *)
(*                                                                         *)
(* A definition whose name starts with Mut is a wrong variant of the one    *)
(* after it, used nowhere: it shows that a property can fail.               *)
(***************************************************************************)
EXTENDS Integers, FiniteSets, FiniteSetsExt

CONSTANTS
    Cyl,                \* blocks of a cylinder
    BmStart,            \* bitmapstart, the first block that has a bit
    Cov,                \* bm_coverage
    PerIdx,             \* idxperblk, longsperbmb
    Bmb,                \* of the numbers of the bitmap blocks
    LargeIdx, SmallIdx, \* PFS_MAX_BITMAPINDEX, and the capacity without the superindex
    Sizes,              \* the sizes asked for, in cylinders
    Volumes,            \* the volumes at the start: [cyls, disk]
    Absent, Bad,        \* a block not created, and one that is not what it should be
    MaxOps, MaxTroubles, MaxAllocs      \* bounds of the model

Blocks(n) == n * Cyl
Cover(k) == BmStart + k * Cov .. BmStart + (k + 1) * Cov - 1
Of(b) == (b - BmStart) \div Cov
Up(a, b) == (a + b - 1) \div b
Bmbs(t) == Up(Max({0, t - BmStart}), Cov)       \* bitmap blocks of t blocks
Idxs(t) == Up(Bmbs(t), PerIdx)                  \* and their index blocks
IdxOf(k) == k \div PerIdx

Index == {IdxOf(k) : k \in Bmb}
Disks == {d \in [size : Nat, free : Nat, resfree : Nat, roving : Nat,
                 sizefield : BOOLEAN, super : BOOLEAN,
                 index : [Index -> {"good", Absent, Bad}],
                 bm : [Bmb -> (SUBSET Nat) \cup {Absent, Bad}]] :
            \A k \in Bmb : d.bm[k] \in {Absent, Bad} \/ d.bm[k] \subseteq Cover(k)}

ASSUME ConstantsAssumption ==
    /\ {Cyl, Cov, PerIdx} \subseteq Nat \ {0} /\ BmStart \in Nat
    /\ LargeIdx \in Nat /\ SmallIdx \in 1 .. LargeIdx
    /\ Bmb \subseteq Nat /\ Bmb = 0 .. Max(Bmb)
    /\ \A n \in Sizes : n \in Nat \ {0} /\ \A k \in 0 .. Bmbs(Blocks(n)) - 1 : k \in Bmb
    /\ \A v \in Volumes : /\ v.cyls \in Sizes /\ v.disk \in Disks
                          /\ v.disk.sizefield => v.disk.size = Blocks(v.cyls)   \* it mounts
    /\ Absent # Bad /\ "good" \notin {Absent, Bad}
    /\ \A k \in Bmb : \A S \in SUBSET Cover(k) : S \notin {Absent, Bad}
    /\ MaxOps \in Nat /\ MaxTroubles \in Nat /\ MaxAllocs \in Nat

VARIABLES
    disk,               \* the rootblock, the index and the bitmap blocks
    table, cyls,        \* the size in the table on the disk, and in memory
    env, mounted,       \* the handler: the size of its mount; whether it is one
    cache, dirty, inhibited,            \* its copy of the disk, unwritten or not
    missed,             \* history: a resize it was not held off for; its copy is older
    pc, op,
    before,             \* history: the disk when the resize began
    clean,              \* history: no write failed, and none was cut off, since it mounted
    raced,              \* history: the handler had, or made, changes to write meanwhile,
                        \* or made some to a copy that is older
    ops, troubles, allocs

handler == <<env, mounted, cache, dirty, inhibited, missed>>
vars == <<disk, table, cyls, handler, pc, op, before, clean, raced, ops, troubles, allocs>>

NoOp == [kind |-> "none", new |-> 0, total |-> 0, old |-> 0, buf |-> Absent]

TypeOK ==
    /\ {disk, cache, before} \subseteq Disks
    /\ {table, cyls, env} \subseteq Sizes
    /\ {mounted, dirty, inhibited, missed, clean, raced} \subseteq BOOLEAN
    /\ pc \in {"idle", "unseal", "root", "flag", "inhibit", "release", "table"}
    /\ op = NoOp \/ (op.kind \in {"grow", "shrink"} /\ op.new \in Sizes
                      /\ {op.total, op.old} \subseteq Nat /\ op.buf \in Disks)
    /\ pc = "idle" <=> op = NoOp
    /\ ops \in 0 .. MaxOps /\ troubles \in 0 .. MaxTroubles /\ allocs \in 0 .. MaxAllocs

Init == \E v \in Volumes :
    /\ disk = v.disk /\ table = v.cyls /\ cyls = v.cyls
    /\ env = v.cyls /\ mounted = TRUE
    /\ cache = disk /\ dirty = FALSE /\ inhibited = FALSE /\ missed = FALSE
    /\ pc = "idle" /\ op = NoOp /\ before = disk
    /\ clean = TRUE /\ raced = FALSE
    /\ ops = 0 /\ troubles = 0 /\ allocs = 0

---------------------------------------------------------------------------
(* What is read *)

\* The block is not there because it was never needed.
Untouched(d, k) == d.index[IdxOf(k)] = Absent \/ d.bm[k] = Absent
Legible(d, k) == d.index[IdxOf(k)] # Bad /\ (Untouched(d, k) \/ d.bm[k] # Bad)
FreeIn(d, k) == IF Untouched(d, k) \/ d.bm[k] = Bad THEN Cover(k) ELSE d.bm[k]
FreeBits(d, t) == {b \in BmStart .. t - 1 : b \in FreeIn(d, Of(b))}

Mountable(d, n) == d.sizefield => d.size = Blocks(n)

PerCylinder == IF disk.size > 0 THEN disk.size \div cyls ELSE Cyl
Capacity(d) == IF d.super THEN LargeIdx ELSE SmallIdx

Begin(kind, state, n, new) ==
    /\ op' = [kind |-> kind, new |-> n, total |-> new, old |-> disk.size, buf |-> disk]
    /\ pc' = state /\ before' = disk /\ raced' = dirty
    /\ clean' = Mountable(disk, table)
    /\ ops' = ops + 1
    /\ UNCHANGED <<disk, table, cyls, handler, troubles, allocs>>

---------------------------------------------------------------------------
(* PFS_GrowPartition *)

NewReserved(new) == Max({0, Bmbs(new) - Bmbs(disk.size)}) + Max({0, Idxs(new) - Idxs(disk.size)})

Grow(n) ==
    /\ pc = "idle" /\ ops < MaxOps /\ n > cyls
    /\ LET new == disk.size + (n - cyls) * PerCylinder IN
       /\ Idxs(disk.size) <= LargeIdx /\ Idxs(new) <= LargeIdx
       /\ NewReserved(new) <= disk.resfree
       /\ disk.size > 0 => disk.free <= disk.size
       /\ Begin("grow", "unseal", n, new)

\* The bits between the two sizes in the last bitmap block become free; where that
\* block cannot be read, or written, nothing is said.
MutUnsealed ==                      \* with the last block of the old size
    LET k == Bmbs(op.old) - 1
    IN [disk EXCEPT !.bm[k] = @ \cup {b \in Cover(k) : b >= op.old - 1 /\ b < op.total}]

Unsealed ==
    LET k == Bmbs(op.old) - 1
    IN [disk EXCEPT !.bm[k] = @ \cup {b \in Cover(k) : b >= op.old /\ b < op.total}]

CanUnseal ==
    LET k == Bmbs(op.old) - 1 IN
    /\ Bmbs(op.old) > 0 /\ IdxOf(k) < Capacity(op.buf)
    /\ op.buf.index[IdxOf(k)] = "good" /\ disk.bm[k] \notin {Absent, Bad}

Trouble == troubles < MaxTroubles /\ troubles' = troubles + 1
Calm == UNCHANGED <<clean, troubles>>
Rest == UNCHANGED <<table, cyls, before, raced, ops, allocs>>

Unseal ==
    /\ pc = "unseal" /\ pc' = "root"
    /\ \/ disk' = (IF CanUnseal THEN Unsealed ELSE disk) /\ Calm
       \/ Trouble /\ clean' = FALSE /\ UNCHANGED disk
    /\ UNCHANGED <<op, handler>> /\ Rest

---------------------------------------------------------------------------
(* PFS_ShrinkPartition *)

TailFree(new) ==
    \A k \in Of(new) .. Bmbs(disk.size) - 1 :
        /\ Legible(disk, k)
        /\ \A b \in Cover(k) : (b >= new /\ b < disk.size) => b \in FreeIn(disk, k)

MutGate(new) == new > BmStart + 1 /\ TailFree(new)       \* the count is not looked at

Gate(new) == new > BmStart + 1 /\ disk.free >= disk.size - new /\ TailFree(new)

ShrunkSize(n) ==
    Min({Max({0, disk.size - (cyls - n) * PerCylinder}), Blocks(n)})

Shrink(n) ==
    /\ pc = "idle" /\ ops < MaxOps /\ n < cyls
    /\ disk.size > 0 /\ PerCylinder > 0 /\ disk.free <= disk.size
    /\ Idxs(disk.size) <= Capacity(disk)
    /\ Gate(ShrunkSize(n))
    /\ Begin("shrink", "root", n, ShrunkSize(n))

\* PFS_ShrinkInfo: rep->min_blocks
MutMinBlocks ==                     \* the highest used block itself is given away
    Max({BmStart} \cup ((BmStart .. disk.size - 1) \ FreeBits(disk, disk.size)))

MinBlocks ==
    Max({BmStart} \cup {b + 1 : b \in (BmStart .. disk.size - 1) \ FreeBits(disk, disk.size)})

---------------------------------------------------------------------------
(* The rootblock, from the copy read at the beginning *)

\* The index entries and the flags are in the same sectors.
Stored(sizefield, roving) ==
    [disk EXCEPT !.size = op.total, !.free = op.buf.free + op.total - op.old,
                 !.resfree = op.buf.resfree, !.roving = roving,
                 !.sizefield = sizefield, !.index = op.buf.index]

Roving ==
    IF op.kind = "shrink" /\ op.buf.roving \div PerIdx >= Bmbs(op.total)
    THEN 0 ELSE op.buf.roving

\* The cluster is written by the sector; the fields are in the first.  If a later one
\* fails, the resize has failed and does not put the first one back.
WriteRoot ==
    /\ pc = "root"
    /\ \/ /\ disk' = Stored(op.buf.sizefield, Roving) /\ UNCHANGED op /\ Calm
          /\ pc' = IF op.buf.sizefield THEN "flag" ELSE "inhibit"
       \/ /\ Trouble /\ clean' = FALSE
          /\ disk' \in {disk, Stored(op.buf.sizefield, Roving)}
          /\ pc' = "idle" /\ op' = NoOp
    /\ UNCHANGED handler /\ Rest

\* The second write disarms the comparison at the mount; an error is passed over.
MutClearFlag ==                     \* a grow alone clears it
    /\ pc = "flag" /\ pc' = "inhibit"
    /\ disk' = Stored(op.kind = "shrink", Roving) /\ Calm
    /\ UNCHANGED <<op, handler>> /\ Rest

ClearFlag ==
    /\ pc = "flag" /\ pc' = "inhibit"
    /\ \/ disk' = Stored(FALSE, Roving) /\ Calm
       \/ /\ Trouble /\ clean' = FALSE
          /\ disk' \in {disk, Stored(FALSE, Roving)}
    /\ UNCHANGED <<op, handler>> /\ Rest

\* Inhibit(DOSTRUE): the handler writes what it has.
Hold ==
    /\ pc = "inhibit" /\ mounted /\ pc' = "release"
    /\ disk' = (IF dirty THEN cache ELSE disk)
    /\ dirty' = FALSE /\ inhibited' = TRUE
    /\ UNCHANGED <<op, env, mounted, cache, missed>> /\ Calm /\ Rest

\* There is no handler under the drive's name, or no name, or it declines: the resize
\* goes on, and is a success.
Unheld ==
    /\ pc = "inhibit" /\ pc' = "table"
    /\ missed' = (missed \/ mounted)
    /\ UNCHANGED <<disk, op, env, mounted, cache, dirty, inhibited>> /\ Calm /\ Rest

\* Inhibit(DOSFALSE): it reads the rootblock again.
Release ==
    /\ pc = "release" /\ pc' = "table"
    /\ inhibited' = FALSE /\ cache' = disk /\ missed' = FALSE
    /\ UNCHANGED <<disk, op, env, mounted, dirty>> /\ Calm /\ Rest

(* The callers: RDB_Write; the size in memory stays when it fails *)
TableWrite ==
    /\ pc = "table"
    /\ cyls' = op.new
    /\ \/ table' = op.new /\ Calm
       \/ table' \in {table, op.new} /\ Trouble /\ clean' = FALSE
    /\ pc' = "idle" /\ op' = NoOp
    /\ UNCHANGED <<disk, handler, before, raced, ops, allocs>>

---------------------------------------------------------------------------
(* The handler *)

\* It stores a file in its copy, creating the bitmap block it needs.
Alloc ==
    /\ mounted /\ ~inhibited /\ allocs < MaxAllocs
    /\ LET free == FreeBits(cache, Blocks(env)) IN
       /\ free # {} /\ cache.free > 0
       /\ LET b == Min(free)
              k == Of(b)
              i == IdxOf(k)
              new == {x \in {1, 2} : \/ x = 1 /\ Untouched(cache, k)
                                     \/ x = 2 /\ cache.index[i] = Absent}
          IN /\ Legible(cache, k) /\ Cardinality(new) <= cache.resfree
             /\ cache' = [cache EXCEPT !.free = @ - 1,
                                       !.resfree = @ - Cardinality(new),
                                       !.index[i] = "good",
                                       !.bm[k] = FreeIn(cache, k) \ {b}]
    /\ dirty' = TRUE /\ allocs' = allocs + 1
    /\ raced' = (raced \/ pc # "idle" \/ missed)
    /\ UNCHANGED <<disk, table, cyls, env, mounted, inhibited, missed, pc, op, before,
                   clean, ops, troubles>>

Flush ==
    /\ mounted /\ ~inhibited /\ dirty
    /\ disk' = cache /\ dirty' = FALSE
    /\ UNCHANGED <<table, cyls, env, mounted, cache, inhibited, missed, pc, op, before,
                   clean, raced, ops, troubles, allocs>>

\* The machine starts again, on its own or at the user's wish.
Reboot ==
    /\ pc # "idle" => Trouble
    /\ pc = "idle" => (~dirty /\ (inhibited \/ env # table) /\ UNCHANGED troubles)
    /\ env' = table /\ cyls' = table /\ mounted' = Mountable(disk, table)
    /\ cache' = disk /\ dirty' = FALSE /\ inhibited' = FALSE /\ missed' = FALSE
    /\ pc' = "idle" /\ op' = NoOp /\ clean' = (clean /\ pc # "flag")
    /\ UNCHANGED <<disk, table, before, raced, ops, allocs>>

Advance == Unseal \/ WriteRoot \/ ClearFlag \/ Hold \/ Unheld \/ Release \/ TableWrite

Next == \/ \E n \in Sizes : Grow(n) \/ Shrink(n)
        \/ Advance \/ Alloc \/ Flush \/ Reboot

Spec == Init /\ [][Next]_vars

---------------------------------------------------------------------------
(* Properties *)

\* The count of free blocks is that of the bitmap.
Exact(d) == d.size >= BmStart /\ d.free = Cardinality(FreeBits(d, d.size))

\* What an older shrink has sealed behind the end is in the last bitmap block, which
\* can be read.  The grow looks at no other: a sealed block that a shrink since has
\* taken off the bitmap comes back as it is.
SealedIn(d, k) == \E b \in Cover(k) : b >= d.size /\ b \notin FreeIn(d, k)
Repairable(d) ==
    \A k \in Bmb : SealedIn(d, k) =>
        k = Bmbs(d.size) - 1 /\ Legible(d, k) /\ IdxOf(k) < Capacity(d)

\* A resize has written its rootblock: no write failed, the handler had nothing to
\* write, and the volume was no larger than its partition.
Succeeded == pc = "table" /\ clean /\ ~raced /\ op.old <= Blocks(cyls)

\* When a resize reports success the rootblock states a size inside the partition, the
\* free blocks it counts are those the bitmap has, though an older shrink had sealed
\* the range behind the end, no file has lost a block, and the roving pointer is
\* inside the bitmap.
SoundWhenDone ==
    Succeeded =>
        /\ disk.size = op.total /\ op.total <= Blocks(op.new)
        /\ Exact(before) /\ Repairable(before) => Exact(disk)
        /\ \A b \in BmStart .. op.old - 1 :
              b \in FreeBits(before, op.old) <=> b \in FreeIn(disk, Of(b))
        /\ before.roving < Bmbs(op.old) * PerIdx => disk.roving < Max({1, Bmbs(op.total)}) * PerIdx

\* "PFS skips the disksize check entirely on the next reboot": the rootblock mounts
\* with the partition's old size and with its new one, wherever the machine stops,
\* except between the two writes of the rootblock; and whoever is mounted has the
\* rootblock that is on the disk once the resize is over, unless it was not held off.
\* What such a handler stores later (raced) brings the old rootblock back.
MountsEitherWay ==
    (clean /\ ~raced /\ pc # "flag") =>
        /\ Mountable(disk, table)
        /\ pc = "table" => /\ Mountable(disk, op.new)
                           /\ mounted /\ ~missed => cache = disk

\* The floor that SHRINKINFO reports and the gate of the shrink agree.
InfoMatchesGate ==
    (pc = "idle" /\ ~raced /\ clean /\ Exact(disk)
        /\ \A k \in 0 .. Bmbs(disk.size) - 1 : Legible(disk, k)) =>
        \A new \in BmStart + 2 .. disk.size - 1 : Gate(new) <=> new >= MinBlocks

=============================================================================
