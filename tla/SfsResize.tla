----------------------------- MODULE SfsResize -----------------------------
(***************************************************************************)
(* Growing and shrinking an SFS volume (src/src/sfsresize.c), the write of  *)
(* the partition table that follows in the callers, and the SFS handler.    *)
(*                                                                         *)
(* Block 0 is the start root, the last block the end root.  Each states the *)
(* size of the volume and where its bitmap begins; of two roots of the size *)
(* the file system is mounted with, the one with the newer sequence number  *)
(* counts.  The bitmap is a run of blocks; block k of it has a bit, set for *)
(* free, for each of the volume's blocks k * Bib .. (k + 1) * Bib - 1.      *)
(* A bitmap block holds here the numbers of the blocks it says are free.    *)
(*                                                                         *)
(* A resize plans its writes from what it has read and keeps them in `op`:  *)
(* those before the start root, the start root itself, those after it.  A   *)
(* block is several sectors, so that a write that fails may have torn it.   *)
(*                                                                         *)
(* A definition whose name starts with Mut is a wrong variant of the one    *)
(* after it, used nowhere: it shows that a property can fail.               *)
(***************************************************************************)
EXTENDS Integers, Sequences, FiniteSets, SequencesExt

CONSTANTS
    LastBlock,          \* of the space the partition can take
    Cyl, Phys,          \* sectors of a cylinder, and of a block
    Bib,                \* blocks_inbitmap
    MaxMod,             \* MAX_MOD_BMB
    SeqNums,             \* of the sequence numbers
    RootObj,            \* the object container that holds the count of free blocks
    Sizes,              \* the sizes asked for, in cylinders
    Volumes,            \* the volumes at the start: [cyls, disk]
    MaxOps, MaxTroubles, MaxAllocs      \* bounds of the model

Block == 0 .. LastBlock
Blocks(n) == (n * Cyl) \div Phys                \* of n cylinders
Bmbs(t) == (t + Bib - 1) \div Bib               \* bitmap blocks of t blocks
Cover(k) == k * Bib .. (k + 1) * Bib - 1
Of(b) == b \div Bib

Root(own, total, base, seq) ==
    [kind |-> "root", own |-> own, total |-> total, base |-> base, seq |-> seq]
Bm(free) == [kind |-> "bm", free |-> free]
Objc(n) == [kind |-> "objc", count |-> n]
Data == [kind |-> "data"]
Blank == [kind |-> "blank"]
Torn == [kind |-> "torn"]

Bits == {S \in SUBSET Nat : IsFiniteSet(S)}
Contents ==
    [kind : {"root"}, own : Nat, total : Nat, base : Nat, seq : 0 .. SeqNums - 1]
    \cup [kind : {"bm"}, free : Bits]
    \cup [kind : {"objc"}, count : Nat]
    \cup {Data, Blank, Torn}

\* The volume a root states lies in the space, and its bitmap inside it, behind
\* the root and what comes with it.
HasRoom(r) ==
    1 < r.base /\ r.base + Bmbs(r.total) < r.total /\ r.total <= LastBlock + 1
Room(d) == \A b \in Block : d[b].kind = "root" => HasRoom(d[b])

ASSUME GeometryAssumption ==
    /\ LastBlock \in Nat /\ Cyl \in Nat \ {0} /\ Phys \in Nat \ {0}
    /\ Bib \in Nat /\ Bib > 1 /\ MaxMod \in Nat \ {0}
    /\ SeqNums \in Nat /\ SeqNums > 4 /\ RootObj \in Block \ {0}
    /\ \A n \in Sizes : n \in Nat \ {0} /\ Blocks(n) <= LastBlock + 1
    /\ \A v \in Volumes : v.cyls \in Sizes /\ v.disk \in [Block -> Contents] /\ Room(v.disk)
    /\ MaxOps \in Nat /\ MaxTroubles \in Nat /\ MaxAllocs \in Nat

VARIABLES
    disk,
    table, cyls,        \* the size in the table on the disk, and in memory
    env, inhibited,     \* the handler: mounted at which size, and held off
    pc, op,
    before,             \* history: the disk when the resize began
    clean,              \* history: no write stored what it did not report
    raced,              \* history: the handler wrote during a rollback
    ops, troubles, allocs

handler == <<env, inhibited>>
counts == <<ops, allocs>>
vars == <<disk, table, cyls, handler, pc, op, before, clean, raced, troubles, counts>>

NoOp == [kind |-> "none", new |-> 0, total |-> 0, old |-> 0, base |-> 0, seq |-> 0,
         moved |-> FALSE, exact |-> FALSE, todo |-> <<>>, undo |-> <<>>, failed |-> FALSE]

TypeOK ==
    /\ disk \in [Block -> Contents]
    /\ {table, cyls, env} \subseteq Sizes
    /\ {inhibited, clean, raced} \subseteq BOOLEAN
    /\ pc \in {"idle", "pre", "post", "verify", "undo", "table"}
    /\ op.kind \in {"none", "grow", "shrink"}
    /\ op.total \in Nat /\ op.base \in Nat /\ op.seq \in 0 .. SeqNums - 1
    /\ \A i \in DOMAIN op.todo : op.todo[i].at \in Nat /\ op.todo[i].val \in Contents
    /\ \A i \in DOMAIN op.undo : op.undo[i].at \in Block /\ op.undo[i].val \in Contents
    /\ ops \in 0 .. MaxOps /\ troubles \in 0 .. MaxTroubles /\ allocs \in 0 .. MaxAllocs

Init == \E v \in Volumes :
    /\ disk = v.disk /\ table = v.cyls /\ cyls = v.cyls
    /\ env = v.cyls /\ inhibited = FALSE
    /\ pc = "idle" /\ op = NoOp /\ before = disk
    /\ clean = TRUE /\ raced = FALSE
    /\ ops = 0 /\ troubles = 0 /\ allocs = 0

---------------------------------------------------------------------------
(* What is read *)

IsRoot(d, b) == d[b].kind = "root" /\ d[b].own = b
Total == disk[0].total
Base == disk[0].base
Old == Bmbs(Total)

\* Nobody looks whether a bitmap block that is copied, or truncated, is one.
FreeIn(v) == IF v.kind = "bm" THEN v.free ELSE {}
Free(k) == FreeIn(disk[Base + k])

Newer(s, t) == (s - t) % SeqNums < SeqNums \div 2        \* (UWORD)(s - t) < 0x8000
LastSeq ==
    LET end == Total - 1 IN
    IF IsRoot(disk, end) /\ Newer(disk[end].seq, disk[0].seq) THEN disk[end].seq
                                                              ELSE disk[0].seq

\* Blocks per cylinder are rounded down; a clone states the size of its partition.
NewTotal(n, exact) ==
    IF exact THEN Blocks(n) ELSE Total + (n - cyls) * Max({1, Total \div cyls})

---------------------------------------------------------------------------
(* SFS_GrowPartition, the strategies *)

\* The bitmap goes on where it ends.
Positions(new) == Base + Old .. Base + Bmbs(new) - 1
Needed(new) == {Old - 1} \cup {Of(p) : p \in Positions(new)}
Reaches(new) == (\A p \in Positions(new) : Of(p) < Old) /\ Cardinality(Needed(new)) <= MaxMod
Natural(new) == Reaches(new) /\ \A p \in Positions(new) : p \in Free(Of(p))

Write(b, v, mod) == [at |-> b, val |-> v, mod |-> mod]
Nth(S, i) == CHOOSE x \in S : Cardinality({y \in S : y < x}) = i - 1
WritesOf(f) == [i \in 1 .. Cardinality(DOMAIN f) |-> f[Nth(DOMAIN f, i)]]

\* The old end root and what lies behind it in the last range become free.
NaturalEdit(new, k) ==
    LET tail == IF k = Old - 1 THEN {b \in Cover(k) : b >= Total - 1} ELSE {}
    IN Write(Base + k, Bm((Free(k) \cup tail) \ Positions(new)), TRUE)
NewBitmap(new, k) == Write(Base + k, Bm({b \in Cover(k) : b < new - 1}), FALSE)

NaturalWrites(new) ==
    << NaturalEdit(new, Old - 1) >>
      \o WritesOf([k \in Needed(new) \ {Old - 1} |-> NaturalEdit(new, k)])
      \o WritesOf([k \in Old .. Bmbs(new) - 1 |-> NewBitmap(new, k)])

\* The whole bitmap goes to the start of the new space.
MutMovedBitmap(new, k) ==           \* its old place stays in use in vain
    LET used == (Total .. Total + Bmbs(new) - 1) \cup {new - 1}
        was == IF k < Old THEN Free(k) ELSE Cover(k)
    IN Write(Total + k,
             Bm({b \in Cover(k) : b < new /\ b \notin used
                    /\ (b \in was \/ b = Total - 1 \/ b >= Total)}), FALSE)

MovedBitmap(new, k) ==
    LET used == (Total .. Total + Bmbs(new) - 1) \cup {new - 1}
        was == IF k < Old THEN Free(k) ELSE Cover(k)
        freed == (Base .. Base + Old - 1) \cup {Total - 1} \cup (Total .. new - 1)
    IN Write(Total + k, Bm({b \in Cover(k) : b < new /\ b \notin used
                               /\ (b \in was \/ b \in freed)}), FALSE)

\* No new bitmap block: both ends are in the last range.
LastEdit(new) ==
    LET k == Old - 1
        freed == {b \in Cover(k) : b >= Total - 1 /\ b <= new - 2}
    IN Write(Base + k, Bm((Free(k) \cup freed) \ {new - 1}), TRUE)

GrowWrites(new) ==
    IF Bmbs(new) = Old THEN << LastEdit(new) >>
    ELSE IF Natural(new) THEN NaturalWrites(new)
    ELSE WritesOf([k \in 0 .. Bmbs(new) - 1 |-> MovedBitmap(new, k)])

Begin(kind, n, new, base, moved, exact, writes) ==
    /\ op' = [NoOp EXCEPT
                !.kind = kind, !.new = n, !.total = new, !.old = Total, !.base = base,
                !.seq = LastSeq, !.moved = moved, !.exact = exact,
                !.todo = writes \o << Write(new - 1,
                            Root(new - 1, new, base, (LastSeq + 1) % SeqNums), FALSE) >>]
    /\ pc' = "pre" /\ inhibited' = TRUE
    /\ before' = disk /\ ops' = ops + 1
    /\ UNCHANGED <<disk, table, cyls, env, clean, raced, troubles, allocs>>

Grow(n, exact) ==
    /\ pc = "idle" /\ ops < MaxOps /\ n > cyls
    /\ IsRoot(disk, 0) /\ Total >= 2
    /\ LET new == NewTotal(n, exact)
           moved == Bmbs(new) > Old /\ ~Natural(new)
           read == IF moved THEN Reaches(new) ELSE TRUE
           caches == IF Bmbs(new) = Old THEN {Old - 1} ELSE Needed(new)
       IN /\ new > Total
          /\ read => \A k \in caches : disk[Base + k].kind = "bm"
          /\ moved => new - Total > Bmbs(new)
          /\ Begin("grow", n, new, IF moved THEN Total ELSE Base, moved, exact,
                   GrowWrites(new))

---------------------------------------------------------------------------
(* SFS_ShrinkPartition, its gate and what it writes *)

\* Rounded as in a grow, but never larger than the partition.
ShrunkTotal(n) == Min({Max({0, Total - (cyls - n) * (Total \div cyls)}), Blocks(n)})

TailFree(new) ==
    \A k \in Of(new - 1) .. Old - 1 :
        /\ disk[Base + k].kind = "bm"
        /\ \A b \in Cover(k) : (b >= new - 1 /\ b < Total - 1) => b \in Free(k)

Gate(new) ==
    /\ new >= 8 /\ new > Base + Bmbs(new) /\ Base + Bmbs(new) <= new - 1
    /\ TailFree(new)

\* Used marks only: the end of the last range, and the new end root.
Seal(new) ==
    LET k == Bmbs(new) - 1
    IN Write(Base + k, Bm({b \in Free(k) : b < new - 1}), TRUE)

Shrink(n) ==
    /\ pc = "idle" /\ ops < MaxOps /\ n < cyls
    /\ IsRoot(disk, 0) /\ Total \div cyls > 0
    /\ LET new == ShrunkTotal(n) IN
       /\ Gate(new)
       /\ Begin("shrink", n, new, Base, FALSE, FALSE, << Seal(new) >>)

\* SFS_ShrinkInfo: rep->min_blocks
MutMinBlocks ==                     \* "this used to assume a relocating shrink"
    LET movable == {Total - 1} \cup (Base .. Base + Old - 1)
        data == {b \in 0 .. Total - 1 : b \notin Free(Of(b)) /\ b \notin movable}
    IN Min({Max(data \cup {1}) + 2, Total})

MinBlocks ==
    LET movable == {Total - 1} \cup (Base .. Base + Old - 1)
        data == {b \in 0 .. Total - 1 : b \notin Free(Of(b)) /\ b \notin movable}
    IN Min({Max({Max(data \cup {1}) + 2, Base + Old + 1}), Total})

---------------------------------------------------------------------------
(* The writes *)

Trouble == troubles < MaxTroubles /\ troubles' = troubles + 1

\* A write is done; or it fails, and the block is old, new or torn; or it is
\* reported done and is not.  Behind the end of the device it fails.
Put(b, v, done, failed) ==
    \/ b \notin Block /\ failed /\ UNCHANGED <<disk, clean, troubles>>
    \/ /\ b \in Block /\ disk' = [disk EXCEPT ![b] = v]
       /\ done /\ UNCHANGED <<clean, troubles>>
    \/ /\ b \in Block /\ Trouble
       /\ \E w \in {disk[b], v, Torn} : disk' = [disk EXCEPT ![b] = w]
       /\ failed /\ clean' = (clean /\ disk' = disk)
    \/ /\ b \in Block /\ Trouble /\ UNCHANGED disk
       /\ done /\ clean' = FALSE

\* The same where an error is passed over.
Try(b, v, next) ==
    /\ next
    /\ \/ disk' = [disk EXCEPT ![b] = v] /\ UNCHANGED <<clean, troubles>>
       \/ /\ Trouble /\ clean' = FALSE
          /\ \E w \in {disk[b], v, Torn} : disk' = [disk EXCEPT ![b] = w]

Rest == UNCHANGED <<table, cyls, env, before, raced, counts>>

Enter(state, todo) == /\ pc' = state /\ op' = [op EXCEPT !.todo = todo]
                      /\ UNCHANGED inhibited /\ Rest

\* `goto done`.  A grow lets the handler go first and restores then; a bitmap that
\* was moved is not restored.  A shrink restores first.
MutFail ==                          \* the modified blocks are not put back
    /\ pc' = "undo" /\ op' = [op EXCEPT !.failed = TRUE, !.undo = <<>>]
    /\ inhibited' = (op.kind = "shrink") /\ Rest

Fail ==
    /\ pc' = "undo" /\ op' = [op EXCEPT !.failed = TRUE]
    /\ inhibited' = (op.kind = "shrink") /\ Rest

\* A block read before and now written can be put back.
Saved(w) == IF w.mod THEN << [at |-> w.at, val |-> before[w.at]] >> ELSE <<>>

PreWrite ==
    /\ pc = "pre" /\ op.todo # <<>>
    /\ LET w == Head(op.todo) IN
       Put(w.at, w.val,
           /\ op' = [op EXCEPT !.todo = Tail(@), !.undo = Saved(w) \o @]
           /\ UNCHANGED <<pc, inhibited>> /\ Rest,
           Fail)

\* Reads between the writes: the old bitmap, when it moves.
ReadFault ==
    /\ pc = "pre" /\ op.moved /\ Len(op.todo) > 1
    /\ Trouble /\ Fail /\ UNCHANGED <<disk, clean>>

\* What follows the start root: a shrink frees the bitmap blocks it cut off; the
\* old end root is wiped, and an older one in front of the old bitmap.
Freed(new) ==
    LET gone == before[0].base + Bmbs(new) .. before[0].base + Bmbs(op.old) - 1
    IN WritesOf([k \in {Of(b) : b \in gone} |->
                   Write(op.base + k, Bm(Free(k) \cup (gone \cap Cover(k))), FALSE)])
Older == before[0].base - 1
MutWipes == <<>>                    \* the old end root stays
Wipes ==
    << Write(op.old - 1, Blank, FALSE) >>
      \o (IF /\ before[0].base > 0 /\ Older # op.old - 1
             /\ op.kind = "shrink" => Older # op.total - 1
             /\ IsRoot(disk, Older)
          THEN << Write(Older, Blank, FALSE) >> ELSE <<>>)
PostWrites == (IF op.kind = "shrink" THEN Freed(op.total) ELSE <<>>) \o Wipes

MutCommit ==                        \* in more than sixteen bits
    /\ pc = "pre" /\ op.todo = <<>>
    /\ Put(0, Root(0, op.total, op.base, op.seq + 2), Enter("post", PostWrites), Fail)

Commit ==
    /\ pc = "pre" /\ op.todo = <<>>
    /\ Put(0, Root(0, op.total, op.base, (op.seq + 2) % SeqNums),
           Enter("post", PostWrites), Fail)

\* From here on an error is passed over.
PostWrite ==
    /\ pc = "post" /\ op.todo # <<>>
    /\ LET w == Head(op.todo) IN Try(w.at, w.val, Enter("post", Tail(op.todo)))

Counted ==                          \* the bits set in the new bitmap
    Objc(Cardinality(UNION {FreeIn(disk[op.base + k]) : k \in 0 .. Bmbs(op.total) - 1}))

Count ==
    /\ pc = "post" /\ op.todo = <<>>
    /\ LET next == Enter(IF op.kind = "shrink" THEN "verify" ELSE "table", <<>>)
       IN IF disk[RootObj].kind = "objc"
          THEN Try(RootObj, Counted, next)
          ELSE next /\ UNCHANGED <<disk, clean, troubles>>

\* A bitmap block or the container cannot be read: no count.
CountFault ==
    /\ pc = "post" /\ op.todo = <<>> /\ Trouble
    /\ Enter(IF op.kind = "shrink" THEN "verify" ELSE "table", <<>>)
    /\ clean' = FALSE /\ UNCHANGED disk

Verify ==
    /\ pc = "verify"
    /\ inhibited' = FALSE
    /\ IF disk[0].kind = "root" /\ disk[0].total = op.total
       THEN pc' = "table" /\ UNCHANGED op
       ELSE pc' = "idle" /\ op' = NoOp
    /\ Rest /\ UNCHANGED <<disk, clean, troubles>>

Undo ==
    /\ pc = "undo" /\ op.undo # <<>>
    /\ LET w == Head(op.undo) IN
       Try(w.at, w.val, /\ op' = [op EXCEPT !.undo = Tail(@)]
                        /\ UNCHANGED <<pc, inhibited>> /\ Rest)

Undone ==
    /\ pc = "undo" /\ op.undo = <<>>
    /\ pc' = "idle" /\ op' = NoOp /\ inhibited' = FALSE
    /\ Rest /\ UNCHANGED <<disk, clean, troubles>>

(* The callers: RDB_Write; the size in memory stays when it fails *)
TableWrite ==
    /\ pc = "table"
    /\ table' = op.new /\ cyls' = op.new
    /\ pc' = "idle" /\ op' = NoOp
    /\ UNCHANGED <<disk, handler, before, clean, raced, troubles, counts>>

TableFault ==
    /\ pc = "table" /\ Trouble
    /\ table' \in {table, op.new} /\ cyls' = op.new
    /\ pc' = "idle" /\ op' = NoOp
    /\ UNCHANGED <<disk, handler, before, clean, raced, counts>>

---------------------------------------------------------------------------
(* The file system *)

Roots(d, t) == {b \in {0, t - 1} : IsRoot(d, b) /\ d[b].total = t}
MountRoot(d, t) ==                  \* as LastSeq takes it
    IF t - 1 \in Roots(d, t) /\ (0 \in Roots(d, t) => Newer(d[t - 1].seq, d[0].seq))
    THEN t - 1 ELSE 0

\* What a bitmap at `base` says is free; the bitmap of the mounted volume.
BitsFrom(d, base, t) == UNION {FreeIn(d[base + k]) : k \in 0 .. Bmbs(t) - 1}
FreeAt(d, t) == BitsFrom(d, d[MountRoot(d, t)].base, t)

\* A mounted handler that is not held off stores a file in a free block.
Alloc ==
    /\ ~inhibited /\ allocs < MaxAllocs
    /\ LET t == Blocks(env) IN
       /\ Roots(disk, t) # {}
       /\ LET base == disk[MountRoot(disk, t)].base
              mine == {b \in FreeAt(disk, t) : b < t}
          IN /\ mine # {}
             /\ LET b == Min(mine)
                    objc == disk[RootObj]
                IN disk' = [disk EXCEPT
                              ![b] = Data,
                              ![RootObj] = IF objc.kind = "objc" /\ objc.count > 0
                                           THEN Objc(objc.count - 1) ELSE objc,
                              ![base + Of(b)] = Bm(FreeIn(disk[base + Of(b)]) \ {b})]
    /\ allocs' = allocs + 1
    /\ raced' = (raced \/ pc = "undo")
    /\ before' = IF pc = "idle" THEN disk' ELSE before
    /\ UNCHANGED <<table, cyls, handler, pc, op, clean, troubles, ops>>

\* What comes before the start root only adds used marks, or writes new space.
Careful == op.kind = "shrink" \/ op.moved

\* The machine starts again, on its own or at the user's wish.
Reboot ==
    /\ pc # "idle" => Trouble
    /\ pc = "idle" => (UNCHANGED troubles /\ (inhibited \/ env # table))
    /\ env' = table /\ cyls' = table /\ inhibited' = FALSE
    /\ pc' = "idle" /\ op' = NoOp /\ before' = disk
    /\ clean' = (clean /\ (pc \in {"idle", "table"} \/ (pc = "pre" /\ Careful)))
    /\ UNCHANGED <<disk, table, raced, counts>>

Advance == \/ PreWrite \/ Commit \/ PostWrite \/ Count \/ Verify \/ Undo \/ Undone
           \/ TableWrite
Faults == ReadFault \/ CountFault \/ TableFault

Next == \/ \E n \in Sizes : Shrink(n) \/ \E exact \in BOOLEAN : Grow(n, exact)
        \/ Advance \/ Faults \/ Alloc \/ Reboot

Spec == Init /\ [][Next]_vars

---------------------------------------------------------------------------
(* Properties *)

\* What the volume of t blocks uses whose bitmap is at `base`.
Used(d, base, t) ==
    {0, t - 1, RootObj} \cup (base .. base + Bmbs(t) - 1) \cup {b \in 0 .. t - 1 : d[b] = Data}

\* Mounted at t blocks the volume is sound: its roots agree on the bitmap, the blocks
\* of which are there, and what they call free is within the volume and not in use;
\* exact: all the rest is free.
SoundAt(d, t) ==
    \A r \in Roots(d, t) :
        LET base == d[r].base
        IN /\ \A s \in Roots(d, t) : d[s].base = base
           /\ \A k \in 0 .. Bmbs(t) - 1 : d[base + k].kind = "bm"
           /\ BitsFrom(d, base, t) \subseteq (0 .. t - 1) \ Used(d, base, t)
ExactAt(d, t) ==
    /\ SoundAt(d, t) /\ Roots(d, t) # {}
    /\ \A r \in Roots(d, t) :
          BitsFrom(d, d[r].base, t) = (0 .. t - 1) \ Used(d, d[r].base, t)

\* A sound volume: what lies behind its last block but one is no file's, its count has
\* a block of its own, and a bitmap block speaks of its own range.
Orderly(d, t) ==
    /\ SoundAt(d, t)
    /\ \A k \in 0 .. Bmbs(t) - 1 : FreeIn(d[d[0].base + k]) \subseteq Cover(k)
    /\ d[RootObj].kind = "objc" /\ RootObj < t - 1
    /\ \A b \in Block : d[b] = Data => b < t - 1

\* The disk the resize began with held such a volume, with a block at least for each
\* cylinder.  Of the roots that are not its own, nor in front of its bitmap, none looks
\* newer than the start root to come; and where the file system is mounted there is no
\* other volume.
Regular ==
    /\ Orderly(before, op.old) /\ cyls <= op.old
    /\ \A b \in Block \ {0, op.old - 1, before[0].base - 1} :
          IsRoot(before, b) => ~Newer(before[b].seq, (op.seq + 2) % SeqNums)
    /\ \A b \in Block : b \in Roots(before, Blocks(env)) => op.old = Blocks(env)

\* When a resize reports success -- no write having gone astray, and the volume
\* having been regular and no larger than its partition -- both roots state the new
\* size, the start root is the newest root wherever one is left, the new volume is
\* sound, exact if the old one was, and inside the partition, its count of free
\* blocks is that of the bitmap, and no file has lost a block.
SoundWhenDone ==
    (pc = "table" /\ clean /\ ~raced /\ op.old <= Blocks(cyls) /\ Regular) =>
        LET t == op.total IN
        /\ t <= Blocks(op.new) /\ (op.exact => t = Blocks(op.new))
        /\ Roots(disk, t) = {0, t - 1} /\ SoundAt(disk, t)
        /\ ExactAt(before, op.old) => ExactAt(disk, t)
        /\ \A b \in Block \ {0} : IsRoot(disk, b) => ~Newer(disk[b].seq, disk[0].seq)
        /\ disk[RootObj] = Objc(Cardinality(FreeAt(disk, t)))
        /\ \A b \in 0 .. t - 1 : before[b] = Data => disk[b] = Data

\* What an earlier resize has left, done or failed, and files stored since, is a
\* regular volume for the next one to begin with.
BeginsRegular ==
    (pc \in {"pre", "post", "verify", "table"} /\ clean /\ ~raced) => Regular

\* "Only ADD used-marks", "the old structure is untouched until the final start-root
\* write": cut off anywhere before the start root, a shrink or a grow that moves the
\* bitmap leaves a volume that is sound at its old size; the latter has not changed
\* a block of it.
SafeBeforeCommit ==
    (pc = "pre" /\ Careful /\ SoundAt(before, op.old)) =>
        /\ clean => SoundAt(disk, op.old)
        /\ op.moved => \A b \in 0 .. op.old - 1 : disk[b] = before[b]

\* A resize that failed has put back every block that was in use, unless a write
\* that was reported to fail was not without effect.
RolledBack ==
    (pc = "undo" /\ op.undo = <<>> /\ clean /\ ~raced) =>
        \A b \in (0 .. op.old - 1) \ BitsFrom(before, before[0].base, op.old) :
            disk[b] = before[b]

\* Until its start root is written, and after it has failed, a resize leaves the old
\* volume to the file system.
OldVolumeKept == SafeBeforeCommit /\ RolledBack

\* The floor that SHRINKINFO reports and the gate of the shrink agree.
InfoMatchesGate ==
    (pc = "idle" /\ IsRoot(disk, 0) /\ SoundAt(disk, Total)) =>
        \A new \in 8 .. Total - 1 : Gate(new) <=> new >= MinBlocks

=============================================================================
