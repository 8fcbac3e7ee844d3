----------------------------- MODULE FfsResize -----------------------------
(***************************************************************************)
(* Growing and shrinking an FFS volume (src/src/ffsresize.c), with the      *)
(* callers, which write the partition table when that succeeded.            *)
(*                                                                         *)
(* Block 0 is the boot block.  It may name the root; the file system        *)
(* computes where the root is from the size in the table.  The root names   *)
(* the bitmap blocks, the first RootSlots itself, the others in a chain of  *)
(* extension blocks.  Bitmap block k has a bit for each block of its range. *)
(* The root also holds the buckets of files and directories, each a chain   *)
(* of headers that name the root as their parent.                           *)
(*                                                                         *)
(* A resize reads everything first and then writes block after block; what  *)
(* it will write follows from what it read, and is kept in `op`.  An error  *)
(* or a power loss at any write ends it there.  A block is one sector and   *)
(* is written whole or not at all.                                          *)
(*                                                                         *)
(* A definition whose name starts with Mut is a deliberately wrong variant  *)
(* of the one after it, used nowhere: it serves to show that a property     *)
(* fails when the code goes wrong that way.                                 *)
(***************************************************************************)
EXTENDS Integers, Sequences, FiniteSets, SequencesExt

CONSTANTS
    LastBlock,      \* of the space the partition can take
    Reserved,       \* boot blocks, without a bit in the bitmap
    Bpbm,           \* bits of a bitmap block
    RootSlots,      \* ROOT_BM_MAX
    ExtSlots,       \* EXT_BM_MAX
    MaxExt,         \* MAX_EXT_CHAIN
    MaxDepth,       \* headers looked at in one bucket
    Junk,           \* the bits another block has when it is read as a bitmap
    MaxSteps,       \* blocks the scan for the shrink floor looks at
    Sizes,          \* the sizes asked for
    Volumes,        \* the volumes at the start: [size, disk]
    MaxOps, MaxTroubles         \* bounds of the model

Block == 0 .. LastBlock

Need(n) == (Bpbm - 2 + n - Reserved) \div Bpbm      \* bitmap blocks of n blocks
RootKey(n) == (Reserved + n - 1) \div 2
Natural(k) == Reserved + (k - 1) * Bpbm             \* first block of range k
Index(b) == (b - Reserved) \div Bpbm + 1
Off(b) == (b - Reserved) % Bpbm

Boot(r) == [kind |-> "boot", root |-> r]
Root(bms, ext, kids) ==
    [kind |-> "root", valid |-> TRUE, bms |-> bms, ext |-> ext, kids |-> kids]
Bm(free) == [kind |-> "bm", free |-> free]
Ext(pages, next) == [kind |-> "ext", pages |-> pages, next |-> next]
Entry(parent, next, data) ==
    [kind |-> "head", parent |-> parent, next |-> next, data |-> data]
Data == [kind |-> "data"]
Blank == [kind |-> "blank"]

Contents ==
    [kind : {"boot"}, root : Block]
    \cup [kind : {"root"}, valid : BOOLEAN, bms : Seq(Block), ext : Block,
          kids : Seq(Block)]
    \cup [kind : {"bm"}, free : SUBSET (0 .. Bpbm - 1)]
    \cup [kind : {"ext"}, pages : Seq(Block), next : Block]
    \cup [kind : {"head"}, parent : Block, next : Block, data : SUBSET Block]
    \cup {Data, Blank}

ASSUME GeometryAssumption ==
    /\ LastBlock \in Nat /\ Reserved \in Nat \ {0} /\ Bpbm \in Nat /\ Bpbm > 1
    /\ RootSlots \in Nat \ {0} /\ ExtSlots \in Nat \ {0} /\ MaxExt \in Nat \ {0}
    /\ Junk \subseteq 0 .. Bpbm - 1 /\ MaxDepth \in Nat /\ MaxSteps \in Nat
    /\ \A n \in Sizes : n \in Nat /\ n >= Reserved + 2 /\ n <= LastBlock + 1
    /\ MaxOps \in Nat /\ MaxTroubles \in Nat
ASSUME VolumeAssumption ==
    \A v \in Volumes : v.size \in Sizes /\ v.disk \in [Block -> Contents]

VARIABLES
    disk,       \* the volume and the space behind it
    size,       \* in the table on the disk
    pc,
    op,         \* what the resize read, and will write
    before,     \* history: the disk when the resize began
    clean,      \* history: no write was swallowed, no child passed over
    ops, troubles

vars == <<disk, size, pc, op, before, clean, ops, troubles>>

NoOp == [kind |-> "none", new |-> 0, root |-> 0, target |-> 0, chain |-> <<>>,
         exts |-> <<>>, list |-> <<>>, last |-> <<>>, newExts |-> <<>>,
         extVals |-> <<>>, claimed |-> {}, buf |-> Root(<<>>, 0, <<>>),
         i |-> 1, kid |-> 0, depth |-> 0]

Pcs == {"idle", "extend", "newbm", "link", "mark", "unmark", "cover", "newext",
        "root", "kids", "boot", "verify", "table"}
ExtBlock == [kind : {"ext"}, pages : Seq(Block), next : Block]

TypeOK ==
    /\ disk \in [Block -> Contents]
    /\ size \in Sizes
    /\ pc \in Pcs
    /\ op.kind \in {"none", "grow", "shrink"} /\ op.new \in {0} \cup Sizes
    /\ op.root \in Block /\ op.target \in Block /\ op.claimed \subseteq Block
    /\ \A s \in {op.chain, op.exts, op.list, op.newExts} : s \in Seq(Block)
    /\ op.last \in Seq(ExtBlock) /\ op.extVals \in Seq(ExtBlock)
    /\ op.buf \in Contents /\ op.i \in Nat \ {0} /\ op.kid \in Block
    /\ op.depth \in 0 .. MaxDepth
    /\ clean \in BOOLEAN /\ ops \in 0 .. MaxOps /\ troubles \in 0 .. MaxTroubles

Init == \E v \in Volumes :
    /\ disk = v.disk /\ size = v.size
    /\ pc = "idle" /\ op = NoOp /\ before = disk
    /\ clean = TRUE /\ ops = 0 /\ troubles = 0

---------------------------------------------------------------------------
(* Reading a volume: phases 1 to 3 of every operation *)

\* A block that was never written reads as zeros: no bit says free, no page
\* is named.
FreeIn(v) == IF v.kind = "bm" THEN v.free ELSE IF v.kind = "blank" THEN {} ELSE Junk
FreeBits(b) == FreeIn(disk[b])
PagesAt(d, b) == IF d[b].kind = "ext" THEN d[b].pages ELSE <<>>
NextExt(d, b) == IF d[b].kind = "ext" THEN d[b].next ELSE 0

Exts(d, r) ==
    LET walk[n \in 0 .. MaxExt] ==
            IF n = 0 THEN <<>>
            ELSE LET w == walk[n - 1]
                     b == IF w = <<>> THEN d[r].ext ELSE NextExt(d, Last(w))
                 IN IF Len(w) < n - 1 \/ b = 0 THEN w ELSE Append(w, b)
    IN walk[MaxExt]

Chain(d, r) ==
    LET e == Exts(d, r)
    IN d[r].bms \o FlattenSeq([i \in DOMAIN e |-> PagesAt(d, e[i])])

\* The root the boot block names, or the standard position.
RootBlk == IF disk[0].root = 0 \/ disk[0].root >= size THEN size \div 2
                                                       ELSE disk[0].root

\* The type, the flag, and enough bitmap blocks.
Accepted == /\ disk[RootBlk].kind = "root" /\ disk[RootBlk].valid
            /\ Len(Chain(disk, RootBlk)) >= Need(size)

Meta == {RootBlk} \cup Range(Chain(disk, RootBlk)) \cup Range(Exts(disk, RootBlk))

\* The allocated blocks the first Need(size) bitmap blocks speak of.
Used == LET c == Chain(disk, RootBlk)
        IN {b \in Reserved .. size - 1 :
              /\ Index(b) <= Need(size)
              /\ Off(b) \notin FreeBits(c[Index(b)])}

---------------------------------------------------------------------------
(* FFS_GrowPartition, what it will write *)

\* Extension blocks for the pages that neither the root nor the last one there
\* is has room for; they come right behind the last new bitmap block.
NewExtCount(new, chain, exts) ==
    LET room == Max({0, RootSlots - Len(chain)})
                + IF exts = <<>> THEN 0 ELSE ExtSlots - Len(PagesAt(disk, Last(exts)))
    IN IF new > room THEN (new - room + ExtSlots - 1) \div ExtSlots ELSE 0

\* The extension blocks at `at`, filled with `pages`.
ExtBlocks(pages, at) ==
    [e \in DOMAIN at |->
        Ext(SubSeq(pages, (e - 1) * ExtSlots + 1, Min({Len(pages), e * ExtSlots})),
            IF e < Len(at) THEN at[e + 1] ELSE 0)]

First(s) == IF s = <<>> THEN 0 ELSE s[1]

MaxList == RootSlots + MaxExt * ExtSlots            \* entries of bm_blknums

\* `junk` is what is read behind the end of bm_blknums.
GrowPlan(n, junk) ==
    LET r == RootBlk
        chain == Chain(disk, r)
        exts == Exts(disk, r)
        old == Need(size)
        new == Need(n) - old
        all == chain \o [k \in 1 .. new |-> Natural(old + k)]
        list == SubSeq(all, 1, Min({Len(all), MaxList}))
        src == [k \in 1 .. new |-> IF old + k <= Len(list) THEN list[old + k] ELSE junk]
        had == Len(list) - new
        inRoot == Min({new, Max({0, RootSlots - had})})
        inLast == IF exts = <<>> THEN 0
                  ELSE Min({new - inRoot, ExtSlots - Len(PagesAt(disk, Last(exts)))})
        at == [e \in 1 .. NewExtCount(new, chain, exts) |-> Natural(Need(n)) + e]
    IN [NoOp EXCEPT
         !.kind = "grow", !.new = n, !.root = r, !.target = RootKey(n),
         !.chain = chain, !.exts = exts, !.list = list, !.newExts = at,
         !.last = IF inRoot < new /\ exts # <<>>
                  THEN << Ext(PagesAt(disk, Last(exts))
                                \o SubSeq(src, inRoot + 1, inRoot + inLast), First(at)) >>
                  ELSE <<>>,
         !.extVals = ExtBlocks(SubSeq(src, inRoot + inLast + 1, new), at),
         !.buf = [disk[r] EXCEPT
                    !.valid = FALSE,
                    !.bms = IF inRoot = 0 THEN @
                            ELSE SubSeq(@, 1, Min({Len(@), had})) \o SubSeq(src, 1, inRoot),
                    !.ext = IF exts = <<>> THEN First(at) ELSE @]]

Trouble == /\ troubles < MaxTroubles
           /\ troubles' = troubles + 1

Begin(plan, next) ==
    /\ op' = plan /\ pc' = next
    /\ before' = disk /\ ops' = ops + 1
    /\ UNCHANGED <<disk, size, clean, troubles>>

Grow(n) ==
    /\ pc = "idle" /\ ops < MaxOps /\ n > size
    /\ Accepted
    /\ \E junk \in (IF Need(n) > MaxList THEN Block \ {0} ELSE {0}) :
         LET plan == GrowPlan(n, junk) IN
         /\ Len(plan.newExts) <= MaxExt
         /\ \A e \in Range(plan.newExts) : e < n
         /\ Begin(plan, "extend")

---------------------------------------------------------------------------
(* FFS_ShrinkPartition, what it will write *)

\* A used block of the tail that is neither root, bitmap nor extension block
\* refuses the shrink; so does a bitmap block of the tail whose longs do not add
\* up to zero, as those of a root or a header do.
TailFree(n) ==
    /\ \A b \in Used : b >= n => b \in Meta
    /\ \A k \in (n - Reserved) \div Bpbm + 1 .. Need(size) :
          disk[Chain(disk, RootBlk)[k]].kind \in {"bm", "blank", "root", "head"}

\* ffs_shr_find_free: upwards from behind the target, then downwards.
FindFree(n, claimed) ==
    LET free == {b \in Reserved .. n - 1 : Index(b) <= Need(size)}
                  \ (Used \cup claimed \cup {RootKey(n), RootBlk})
        up == {b \in free : b > RootKey(n)}
    IN IF up # {} THEN Min(up) ELSE IF free # {} THEN Max(free) ELSE 0

\* Blocks that stay inside and off the target keep their place.
Rehomed(n, places, claimed) ==
    LET home(acc, b) ==
          IF b < n /\ b # RootKey(n) THEN [acc EXCEPT !.at = Append(@, b)]
          ELSE LET f == FindFree(n, acc.claimed)
               IN [at |-> Append(acc.at, f), claimed |-> acc.claimed \cup {f}]
    IN FoldLeft(home, [at |-> <<>>, claimed |-> claimed], places)

ShrinkPlan(n) ==
    LET r == RootBlk
        chain == Chain(disk, r)
        exts == Exts(disk, r)
        over == Max({0, Need(n) - RootSlots})
        bms == Rehomed(n, SubSeq(chain, 1, Need(n)), {})
        ext == Rehomed(n, [e \in 1 .. (over + ExtSlots - 1) \div ExtSlots |->
                              IF e <= Len(exts) THEN exts[e] ELSE n], bms.claimed)
    IN [NoOp EXCEPT
         !.kind = "shrink", !.new = n, !.root = r, !.target = RootKey(n),
         !.chain = chain, !.exts = exts, !.list = bms.at, !.newExts = ext.at,
         !.extVals = ExtBlocks(SubSeq(bms.at, RootSlots + 1, Need(n)), ext.at),
         !.claimed = ext.claimed \cup {RootKey(n)},
         !.buf = [disk[r] EXCEPT
                    !.valid = FALSE,
                    !.bms = SubSeq(bms.at, 1, Min({RootSlots, Need(n)})),
                    !.ext = First(ext.at)]]

Shrink(n) ==
    /\ pc = "idle" /\ ops < MaxOps /\ n < size /\ n > Reserved + 4
    /\ Accepted /\ TailFree(n)
    /\ RootKey(n) \in Used => RootKey(n) \in Meta
    /\ LET plan == ShrinkPlan(n) IN
       /\ 0 \notin Range(plan.list) \cup Range(plan.newExts)
       /\ Begin(plan, "cover")

---------------------------------------------------------------------------
(* FFS_ShrinkInfo: rep->min_blocks *)

MutMinBlocks ==                     \* the floor itself
    LET fixed == Used \ Meta
    IN IF fixed = {} THEN Reserved + 2 ELSE Max({Max(fixed), Reserved + 2})

\* The walk down from the highest used block ends without a verdict.
CapHit ==
    LET fixed == Used \ Meta
    IN Used # {} /\ Max(Used) - Max(fixed \cup {Reserved}) >= MaxSteps

MinBlocks ==
    LET fixed == Used \ Meta
        floor == IF CapHit THEN Max(Used) ELSE Max(fixed \cup {0})
    IN Max({floor + 1, Reserved + 2})

---------------------------------------------------------------------------
(* The writes *)

Stop == /\ pc' = "idle" /\ op' = NoOp
        /\ before' = disk' /\ UNCHANGED <<size, ops>>

\* The next step of this kind, or the first one of the next.
Again == /\ op' = [op EXCEPT !.i = @ + 1]
         /\ UNCHANGED <<pc, size, before, ops>>
To(next) == /\ pc' = next /\ op' = [op EXCEPT !.i = 1]
            /\ UNCHANGED <<size, before, ops>>
Pass(next) == To(next) /\ UNCHANGED <<disk, clean, troubles>>

Written(b, v) == [disk EXCEPT ![b] = v]

\* `goto done`, or the power fails: the block has changed or it has not.
Broken(b, v) == /\ Trouble /\ disk' \in {disk, Written(b, v)}
                /\ Stop /\ UNCHANGED clean

\* "A driver that returns success but ignores the write."
Swallowed(next) == Trouble /\ clean' = FALSE /\ next /\ UNCHANGED disk

Put(b, v, next) ==
    \/ disk' = Written(b, v) /\ next /\ UNCHANGED <<clean, troubles>>
    \/ Broken(b, v)
    \/ Swallowed(next)

\* A refusal, or a read that fails.
Refuse == UNCHANGED <<disk, clean, troubles>> /\ Stop
ReadFault == /\ pc \notin {"idle", "kids", "table"} /\ Trouble
             /\ UNCHANGED <<disk, clean>> /\ Stop

(* Phase 5: the bits between the old end and the end of the last range *)
ExtendLastBm ==
    /\ pc = "extend"
    /\ LET k == Need(size)
           b == op.chain[k]
           end == Min({Natural(k + 1), op.new})
       IN IF size < end
          THEN Put(b, Bm(FreeBits(b) \cup {f - Natural(k) : f \in size .. end - 1}),
                   To("newbm"))
          ELSE Pass("newbm")

(* Phase 6: new bitmap blocks *)
MutNewBitmap(k) ==                  \* the new extension blocks are not marked
    Bm({b - Natural(k) : b \in Natural(k) + 1 .. Min({Natural(k + 1), op.new}) - 1})

MutLongBitmap(k) ==                 \* up to the first block of the next range
    Bm({b - Natural(k) : b \in Natural(k) + 1 .. Min({Natural(k + 1), op.new})})

NewBitmap(k) ==
    Bm({b - Natural(k) : b \in (Natural(k) + 1 .. Min({Natural(k + 1), op.new}) - 1)
                                  \ Range(op.newExts)})

MutNewBm ==                         \* at "partition block N * bpbm"
    /\ pc = "newbm"
    /\ LET k == Need(size) + op.i IN
       IF k <= Need(op.new) THEN Put((k - 1) * Bpbm, NewBitmap(k), Again) ELSE Pass("link")

NewBm ==
    /\ pc = "newbm"
    /\ LET k == Need(size) + op.i IN
       IF k <= Need(op.new) THEN Put(Natural(k), NewBitmap(k), Again) ELSE Pass("link")

(* Phase 7: the last extension block there is, then the new ones *)
Link ==
    /\ pc = "link"
    /\ IF op.last # <<>> THEN Put(Last(op.exts), op.last[1], To("newext"))
                         ELSE Pass("newext")

NewExt ==
    /\ pc = "newext"
    /\ IF op.i <= Len(op.newExts) THEN Put(op.newExts[op.i], op.extVals[op.i], Again)
       ELSE Pass(IF op.kind = "grow" THEN "mark" ELSE "root")

Cover ==
    /\ pc = "cover"
    /\ LET k == op.i
           tail == IF k = Need(op.new) THEN op.new .. Natural(k + 1) - 1 ELSE {}
           more == {b - Natural(k) : b \in tail \cup op.claimed}
       IN IF k <= Need(op.new)
          THEN Put(op.list[k], Bm(FreeBits(op.chain[k]) \ more), Again)
          ELSE Pass("newext")

(* Phase 8 of a grow: the target must be free and is marked, the old root is
   freed *)
Moves == op.target # op.root
SameRange == Index(op.target) = Index(op.root)

MutMark ==                          \* what is at the target is superseded
    /\ pc = "mark"
    /\ LET b == op.list[Index(op.target)]
           old == IF Moves /\ SameRange THEN {Off(op.root)} ELSE {}
       IN Put(b, Bm((FreeBits(b) \ {Off(op.target)}) \cup old), To("unmark"))

Mark ==
    /\ pc = "mark"
    /\ LET b == op.list[Index(op.target)]
           old == IF Moves /\ SameRange /\ op.root >= Reserved THEN {Off(op.root)} ELSE {}
       IN IF \/ Index(op.target) > Len(op.list)
             \/ Moves /\ Off(op.target) \notin FreeBits(b)
          THEN Refuse
          ELSE Put(b, Bm((FreeBits(b) \ {Off(op.target)}) \cup old), To("unmark"))

Unmark ==
    /\ pc = "unmark"
    /\ IF Moves /\ ~SameRange /\ op.root >= Reserved /\ Index(op.root) <= Len(op.list)
       THEN LET b == op.list[Index(op.root)]
            IN Put(b, Bm(FreeBits(b) \cup {Off(op.root)}), To("root"))
       ELSE Pass("root")

Bucket(k) ==        \* enter bucket k
    /\ op' = [op EXCEPT !.i = k, !.depth = 0,
                        !.kid = IF k <= Len(op.buf.kids) THEN op.buf.kids[k] ELSE 0]
    /\ pc' = IF k <= Len(op.buf.kids) THEN "kids" ELSE "boot"
    /\ UNCHANGED <<size, before, ops>>

\* The root is written and read back: a write that was swallowed ends it too.
MutWriteRoot == pc = "root" /\ Put(op.target, op.buf, Bucket(1))

WriteRoot ==
    /\ pc = "root"
    /\ \/ /\ disk' = Written(op.target, op.buf)
          /\ Bucket(1) /\ UNCHANGED <<clean, troubles>>
       \/ Broken(op.target, op.buf)

(* Phase 9b: the direct children *)
MutReparent ==                      \* the chain is not followed
    /\ pc = "kids" /\ op.kid # 0 /\ disk[op.kid].kind = "head"
    /\ Put(op.kid, [disk[op.kid] EXCEPT !.parent = op.target],
           UNCHANGED <<op, pc, size, before, ops>>)

Reparent ==
    /\ pc = "kids" /\ op.kid # 0 /\ op.depth < MaxDepth
    /\ disk[op.kid].kind = "head"
    /\ Put(op.kid, [disk[op.kid] EXCEPT !.parent = op.target],
           /\ op' = [op EXCEPT !.kid = disk[op.kid].next, !.depth = @ + 1]
           /\ UNCHANGED <<pc, size, before, ops>>)

\* The end of the bucket; or a block that is no header, or too many of them.
NextBucket ==
    /\ pc = "kids"
    /\ op.kid = 0 \/ op.depth = MaxDepth \/ disk[op.kid].kind # "head"
    /\ Bucket(op.i + 1)
    /\ clean' = (clean /\ op.kid = 0)
    /\ UNCHANGED <<disk, troubles>>

\* A header that cannot be read: the rest of the bucket is passed over.
KidUnread ==
    /\ pc = "kids" /\ op.kid # 0 /\ Trouble
    /\ Bucket(op.i + 1)
    /\ clean' = FALSE
    /\ UNCHANGED disk

(* Phase 9.  Phase 9c writes nothing: the old root's flag was valid. *)
WriteBoot ==
    /\ pc = "boot"
    /\ Put(0, Boot(op.target), To(IF op.kind = "grow" THEN "verify" ELSE "table"))

\* A grow looks at the root and at its bit once more.
Verify ==
    /\ pc = "verify"
    /\ IF /\ disk[op.target].kind = "root"
          /\ Off(op.target) \notin FreeBits(op.list[Index(op.target)])
       THEN Pass("table") ELSE Refuse

(* The callers: RDB_Write.  When it fails, the table on the disk states the old
   size or the new one; what is resized next goes by one of the two. *)
TableWrite ==
    /\ pc = "table"
    /\ size' = op.new
    /\ pc' = "idle" /\ op' = NoOp /\ before' = disk
    /\ UNCHANGED <<disk, clean, ops, troubles>>

TableFault ==
    /\ pc = "table" /\ Trouble
    /\ size' \in {size, op.new}
    /\ pc' = "idle" /\ op' = NoOp /\ before' = disk
    /\ UNCHANGED <<disk, clean, ops>>

---------------------------------------------------------------------------
(* The file system, mounted at the size in the table *)

\* The headers of a volume, and what they name.
Headers(d, r) ==
    LET reach[n \in 0 .. MaxDepth] ==
            IF n = 0 THEN Range(d[r].kids)
            ELSE reach[n - 1] \cup {d[b].next : b \in {h \in reach[n - 1] : d[h].kind = "head"}}
    IN {b \in reach[MaxDepth] : d[b].kind = "head"}

Live(d, r, n) ==
    {r} \cup Range(SubSeq(Chain(d, r), 1, Need(n))) \cup Range(Exts(d, r))
        \cup Headers(d, r) \cup UNION {d[h].data : h \in Headers(d, r)}

\* Its validator rebuilds a bitmap whose flag is not set.
Validate ==
    /\ pc = "idle"
    /\ LET r == RootKey(size) IN
       /\ disk[r].kind = "root" /\ ~disk[r].valid
       /\ Len(Chain(disk, r)) >= Need(size)
       /\ LET c == SubSeq(Chain(disk, r), 1, Need(size))
              live == Live(disk, r, size)
              range(k) == (Natural(k) .. Min({Natural(k + 1), size}) - 1) \ live
              rebuilt(k) == Bm({b - Natural(k) : b \in range(k)})
          IN /\ \A k \in DOMAIN c : disk[c[k]].kind \in {"bm", "blank"}
             /\ disk' = [b \in Block |->
                           IF b = r THEN [disk[r] EXCEPT !.valid = TRUE]
                           ELSE IF b \in Range(c)
                           THEN rebuilt(CHOOSE k \in DOMAIN c : c[k] = b)
                           ELSE disk[b]]
    /\ before' = disk'
    /\ UNCHANGED <<size, pc, op, clean, ops, troubles>>

Advance == \/ ExtendLastBm \/ NewBm \/ Link \/ NewExt \/ Cover \/ Mark \/ Unmark
           \/ WriteRoot \/ Reparent \/ NextBucket \/ WriteBoot \/ Verify \/ TableWrite
Faults == ReadFault \/ KidUnread \/ TableFault

Next == \/ \E n \in Sizes : Grow(n) \/ Shrink(n)
        \/ Advance \/ Faults \/ Validate

Spec == Init /\ [][Next]_vars

---------------------------------------------------------------------------
(* Properties *)

\* The resize takes a block for a bitmap block that has become something else.
Astray == \E k \in 1 .. Min({Need(size), Len(op.chain)}) :
             before[op.chain[k]].kind \notin {"bm", "blank"}

\* Whatever is grown or shrunk, refused or broken off half way, and whatever the
\* medium does: no block of a file is written over, and a header loses neither its
\* place in its bucket nor its file -- unless the chain had lost a bitmap block to
\* a shrink that broke off before (Astray).
DataKept ==
    [][ ~Astray => \A b \in Block :
          /\ disk[b].kind = "data" => disk'[b] = disk[b]
          /\ disk[b].kind = "head" =>
                disk'[b].kind = "head" /\ disk'[b] = [disk[b] EXCEPT !.parent = disk'[b].parent]
      ]_vars

\* An earlier grow has added to the chain and then broken off.
Leftovers == Len(op.chain) # Need(size) \/ \E e \in Range(op.exts) : e >= size

\* At that moment -- unless a write was swallowed or a child passed over, and
\* unless an earlier resize that broke off had changed the chain -- the volume of
\* the new size is sound: the root where the file system will look, named by the
\* boot block and by every child; a bitmap block for each range; nothing in use
\* marked free, and no bit free behind the end.
SoundVolume ==
    (pc = "table" /\ clean /\ ~Astray /\ ~Leftovers) =>
        LET r == RootKey(op.new)
            c == Chain(disk, r)
            live == Live(disk, r, op.new)
        IN /\ disk[r] = op.buf /\ disk[0].root = r
           /\ \A h \in Headers(disk, r) : disk[h].parent = r
           /\ live \subseteq Reserved .. op.new - 1
           /\ Len(c) = Need(op.new)
           /\ \A j, k \in DOMAIN c :
                 /\ disk[c[k]].kind = "bm" /\ (j # k => c[j] # c[k])
                 /\ \A o \in FreeBits(c[k]) :
                       Natural(k) + o < op.new /\ Natural(k) + o \notin live

\* "If verification fails ... no further writes are attempted": a child or the
\* boot block is made to name the target only while the new root stands there.
RootFirst ==
    [][ (\E b \in Block : \/ disk[b].kind = "boot" /\ disk'[b] # disk[b]
                          \/ disk[b].kind = "head" /\ disk'[b] # disk[b])
          => disk[op.target] = op.buf /\ ~op.buf.valid ]_vars

\* Until the root is written a grow has not touched the volume it grows: within
\* the old size nothing differs but the bits of the target and of the old root,
\* and pages added to the last extension block.
OldStands ==
    (/\ op.kind = "grow" /\ ~Astray
     /\ pc \in {"extend", "newbm", "link", "newext", "mark", "unmark", "root"})
        => \A b \in 0 .. size - 1 :
             \/ disk[b] = before[b]
             \/ \E k \in 1 .. Need(size) :
                   /\ b = op.chain[k] /\ before[b].kind = "bm" /\ disk[b].kind = "bm"
                   /\ \A f \in Natural(k) .. Min({Natural(k + 1), size}) - 1 :
                         \/ f \in {op.root, op.target}
                         \/ Off(f) \in disk[b].free <=> Off(f) \in before[b].free
             \/ /\ op.exts # <<>> /\ b = Last(op.exts)
                /\ IsPrefix(PagesAt(before, b), PagesAt(disk, b))

\* "ONLY-MARK-USED": at no time during a shrink does a bitmap block, old or new,
\* say free of a block what the volume's bitmap did not say when it began.
OnlyMarksUsed ==
    (op.kind = "shrink" /\ ~Astray) =>
        \A k \in 1 .. Need(op.new) : \A b \in {op.chain[k], op.list[k]} :
            (disk[b].kind = "bm" /\ disk[b] # before[b])
                => disk[b].free \subseteq FreeIn(before[op.chain[k]])

\* "All writes before the root goes down at new_root touch only bitmap-free blocks
\* or add used-marks" -- or shorten an extension block that stays in its place: it
\* then ends where the smaller volume does, and what it still names is named where
\* it was, or was free.
ShrinkStands ==
    (op.kind = "shrink" /\ ~Astray /\ pc \in {"cover", "newext", "root"}) =>
        LET wasFree(b) == /\ b \in Reserved .. size - 1
                          /\ Off(b) \in FreeIn(before[op.chain[Index(b)]])
        IN \A b \in 0 .. size - 1 :
             \/ disk[b] = before[b] \/ wasFree(b)
             \/ b \in Range(op.chain) /\ before[b].kind \in {"bm", "blank"} /\ disk[b].kind = "bm"
             \/ /\ \E e \in DOMAIN op.newExts : /\ e \in DOMAIN op.exts
                                                /\ b = op.exts[e] /\ b = op.newExts[e]
                /\ disk[b].kind = "ext" /\ Len(disk[b].pages) <= Len(PagesAt(before, b))
                /\ \A i \in DOMAIN disk[b].pages :
                      \/ disk[b].pages[i] = before[b].pages[i]
                      \/ wasFree(disk[b].pages[i])
                /\ disk[b].next \in {0, before[b].next} \/ wasFree(disk[b].next)

\* What may be written before the new root stands: phases 1 to 4 of a grow keep off
\* the volume of the old size; a shrink takes free blocks, adds used marks, and cuts
\* the chain to the length of the new size.
OldGeometryStands == OldStands /\ OnlyMarksUsed /\ ShrinkStands

\* The floor that SHRINKINFO reports and the gate of the shrink: what is reported
\* possible is not refused for its tail; and the converse, unless the floor's walk
\* was broken off, which can only raise the floor.
InfoMatchesGate ==
    (pc = "idle" /\ Accepted) =>
        \A n \in Sizes : (n < size /\ n > Reserved + 4) =>
            /\ n >= MinBlocks => TailFree(n)
            /\ TailFree(n) /\ ~CapHit => n >= MinBlocks

=============================================================================
