-------------------------- MODULE PfsResize_proofs --------------------------
(***************************************************************************)
(* Proofs about PfsResize, for any geometry, any volumes that mount, any   *)
(* sizes asked for, and any number of resizes, files and troubles.         *)
(***************************************************************************)
EXTENDS PfsResize, FiniteSetTheorems, WellFoundedInduction, TLAPS

---------------------------------------------------------------------------
(* Arithmetic of the sizes *)

LEMMA MaxOfTwo == ASSUME NEW a \in Int, NEW b \in Int
                  PROVE  Max({a, b}) \in {a, b} /\ Max({a, b}) >= a /\ Max({a, b}) >= b
<1> DEFINE P(x) == x \in {a, b} /\ \A y \in {a, b} : x >= y
<1>1. \E x : P(x)
  BY a >= b \/ b >= a
<1> QED
  BY <1>1 DEF Max

LEMMA MinOfTwo == ASSUME NEW a \in Int, NEW b \in Int
                  PROVE  Min({a, b}) \in {a, b} /\ Min({a, b}) =< a /\ Min({a, b}) =< b
<1> DEFINE P(x) == x \in {a, b} /\ \A y \in {a, b} : x <= y
<1>1. \E x : P(x)
  BY a >= b \/ b >= a
<1> QED
  BY <1>1 DEF Min

LEMMA ProductInNat == ASSUME NEW a \in Nat, NEW b \in Nat PROVE a * b \in Nat
  OBVIOUS

LEMMA SizesAreCounts == ASSUME NEW n \in Sizes PROVE n \in Nat \ {0} /\ Blocks(n) \in Nat
<1>1. n \in Nat \ {0} /\ Cyl \in Nat
  BY ConstantsAssumption
<1> QED
  BY <1>1, ProductInNat DEF Blocks

\* Sectors of a cylinder, as the size and the cylinders of the volume tell.
LEMMA PerCylinderInNat ==
    ASSUME disk \in Disks, cyls \in Sizes PROVE PerCylinder \in Nat
<1>1. disk.size \in Nat /\ cyls \in Nat \ {0} /\ Cyl \in Nat
  BY SizesAreCounts, ConstantsAssumption DEF Disks
<1> QED
  BY <1>1 DEF PerCylinder

\* A grow adds whole cylinders to the old size.
LEMMA GrownSize ==
    ASSUME disk \in Disks, cyls \in Sizes, NEW n \in Sizes, n > cyls
    PROVE  LET new == disk.size + (n - cyls) * PerCylinder
           IN  new \in Nat /\ new >= disk.size
<1>1. disk.size \in Nat /\ n - cyls \in Nat /\ PerCylinder \in Nat
  BY SizesAreCounts, PerCylinderInNat DEF Disks
<1>2. (n - cyls) * PerCylinder \in Nat
  BY <1>1, ProductInNat
<1> QED
  BY <1>1, <1>2

\* A shrink never adds to it.
LEMMA ShrunkSizeFits ==
    ASSUME disk \in Disks, cyls \in Sizes, NEW n \in Sizes, n < cyls
    PROVE  ShrunkSize(n) \in Nat /\ ShrunkSize(n) <= disk.size /\ ShrunkSize(n) <= Blocks(n)
<1>1. disk.size \in Nat /\ cyls - n \in Nat /\ PerCylinder \in Nat /\ Blocks(n) \in Nat
  BY SizesAreCounts, PerCylinderInNat DEF Disks
<1>2. (cyls - n) * PerCylinder \in Nat
  BY <1>1, ProductInNat
<1> DEFINE left == disk.size - (cyls - n) * PerCylinder
<1>3. left \in Int /\ left <= disk.size
  BY <1>1, <1>2
<1> HIDE DEF left
<1>4. Max({0, left}) \in Nat /\ Max({0, left}) <= disk.size
  <2> DEFINE m == Max({0, left})
  <2>1. m \in {0, left} /\ m >= 0
    BY <1>3, MaxOfTwo
  <2> QED
    BY <1>1, <1>3, <2>1
<1>5. ShrunkSize(n) = Min({Max({0, left}), Blocks(n)})
  BY DEF ShrunkSize, left
<1> DEFINE most == Max({0, left})
           more == Blocks(n)
<1>6. most \in Nat /\ most <= disk.size /\ more \in Nat /\ ShrunkSize(n) = Min({most, more})
  BY <1>1, <1>4, <1>5
<1> HIDE DEF most, more
<1>7. Min({most, more}) \in {most, more} /\ Min({most, more}) <= most
      /\ Min({most, more}) <= more
  <2>1. most \in Int /\ more \in Int
    BY <1>6
  <2> QED
    BY <2>1, MinOfTwo, Zenon
<1> QED
  BY <1>1, <1>6, <1>7 DEF more

---------------------------------------------------------------------------
(* Types *)

\* While a resize runs, what it is going to write as the count of free blocks is one.
Planned == pc # "idle" =>
    /\ op.kind \in {"grow", "shrink"} /\ op.new \in Sizes /\ op.buf \in Disks
    /\ op.total \in Nat /\ op.old \in Nat
    /\ op.buf.free + op.total - op.old \in Nat

PInv == TypeOK /\ Planned

LEMMA CoverInNat == ASSUME NEW k \in Bmb PROVE Cover(k) \subseteq Nat
<1>1. k \in Nat /\ BmStart \in Nat /\ Cov \in Nat
  <2>1. Bmb \subseteq Nat /\ BmStart \in Nat /\ Cov \in Nat
    BY ConstantsAssumption
  <2> QED
    BY <2>1
<1>2. k * Cov \in Nat
  BY <1>1, ProductInNat
<1> QED
  BY <1>1, <1>2 DEF Cover

LEMMA StoredIsDisk ==
    ASSUME TypeOK, Planned, pc # "idle", NEW flag \in BOOLEAN, NEW r \in Nat
    PROVE  Stored(flag, r) \in Disks
  BY DEF Stored, Planned, TypeOK, Disks

LEMMA RovingInNat ==
    ASSUME TypeOK, Planned, pc # "idle" PROVE Roving \in Nat
  BY DEF Roving, Planned, Disks

\* A bitmap block that is written has bits of its own range.
LEMMA BitmapWith ==
    ASSUME NEW d \in Disks, NEW k, NEW S, k \in Bmb => S \subseteq Cover(k)
    PROVE  LET bm == [d.bm EXCEPT ![k] = S] IN
           /\ bm \in [Bmb -> (SUBSET Nat) \cup {Absent, Bad}]
           /\ \A j \in Bmb : bm[j] \in {Absent, Bad} \/ bm[j] \subseteq Cover(j)
<1>1. k \in Bmb => Cover(k) \subseteq Nat
  BY CoverInNat
<1> QED
  BY <1>1 DEF Disks

LEMMA UnsealedIsDisk ==
    ASSUME TypeOK, Planned, pc # "idle", CanUnseal
    PROVE  Unsealed \in Disks
<1> DEFINE k == Bmbs(op.old) - 1
           more == {b \in Cover(k) : b >= op.old /\ b < op.total}
           bm == [disk.bm EXCEPT ![k] = disk.bm[k] \cup more]
<1>1. disk \in Disks /\ op.old \in Nat /\ op.total \in Nat
  BY DEF TypeOK, Planned
<1>2. disk.bm[k] \notin {Absent, Bad}
  BY DEF CanUnseal
<1>3. k \in Bmb => disk.bm[k] \cup more \subseteq Cover(k)
  BY <1>1, <1>2 DEF Disks
<1> HIDE DEF k, more
<1>4. /\ bm \in [Bmb -> (SUBSET Nat) \cup {Absent, Bad}]
      /\ \A j \in Bmb : bm[j] \in {Absent, Bad} \/ bm[j] \subseteq Cover(j)
  BY <1>1, <1>3, BitmapWith
<1>5. Unsealed = [disk EXCEPT !.bm = bm]
  BY <1>1 DEF Unsealed, k, more, Disks
<1> HIDE DEF bm
<1> QED
  BY <1>1, <1>4, <1>5 DEF Disks

LEMMA FreeBitsAreBlocks ==
    ASSUME NEW d \in Disks, NEW k \in Bmb PROVE FreeIn(d, k) \subseteq Cover(k)
<1>1. d.bm[k] \in {Absent, Bad} \/ d.bm[k] \subseteq Cover(k)
  BY DEF Disks
<1> QED
  BY <1>1 DEF FreeIn, Untouched

\* Storing a file leaves a disk: it takes a block, and at most two reserved ones.
LEMMA StoredFileIsDisk ==
    ASSUME cache \in Disks, Alloc PROVE cache' \in Disks
<1> DEFINE b == Min(FreeBits(cache, Blocks(env)))
           k == Of(b)
           i == IdxOf(k)
           new == {x \in {1, 2} : \/ x = 1 /\ Untouched(cache, k)
                                  \/ x = 2 /\ cache.index[i] = Absent}
           left == FreeIn(cache, k) \ {b}
<1>1. /\ cache.free > 0 /\ Legible(cache, k) /\ Cardinality(new) <= cache.resfree
      /\ cache' = [cache EXCEPT !.free = @ - 1, !.resfree = @ - Cardinality(new),
                                !.index[i] = "good", !.bm[k] = left]
  BY Zenon DEF Alloc
<1>2. Cardinality(new) \in Nat
  <2>1. IsFiniteSet({1, 2})
    <3>1. {1, 2} = 1 .. 2
      OBVIOUS
    <3>2. IsFiniteSet(1 .. 2)
      <4>1. 1 \in Int /\ 2 \in Int
        OBVIOUS
      <4> QED
        BY <4>1, FS_Interval, Zenon
    <3> QED
      BY <3>1, <3>2
  <2>2. new \subseteq {1, 2}
    OBVIOUS
  <2> QED
    BY <2>1, <2>2, FS_Subset, FS_CardinalityType
<1> HIDE DEF b, k, i, new
<1>3. k \in Bmb => left \subseteq Cover(k)
  BY FreeBitsAreBlocks
<1> HIDE DEF left
<1> DEFINE bm == [cache.bm EXCEPT ![k] = left]
<1>4. /\ bm \in [Bmb -> (SUBSET Nat) \cup {Absent, Bad}]
      /\ \A j \in Bmb : bm[j] \in {Absent, Bad} \/ bm[j] \subseteq Cover(j)
  BY <1>3, BitmapWith
<1>5. [cache.index EXCEPT ![i] = "good"] \in [Index -> {"good", Absent, Bad}]
  BY DEF Disks
<1>6. cache' = [cache EXCEPT !.free = cache.free - 1, !.resfree = cache.resfree - Cardinality(new),
                             !.index = [cache.index EXCEPT ![i] = "good"],
                             !.bm = bm]
  BY <1>1 DEF Disks
<1> HIDE DEF bm
<1>7. cache.free - 1 \in Nat /\ cache.resfree - Cardinality(new) \in Nat
  BY <1>1, <1>2 DEF Disks
<1> QED
  BY <1>4, <1>5, <1>6, <1>7 DEF Disks

LEMMA BoundsAreCounts == MaxOps \in Nat /\ MaxTroubles \in Nat /\ MaxAllocs \in Nat
  BY ConstantsAssumption

\* A trouble is counted, within the bound.
LEMMA TroubleCounts == ASSUME TypeOK, Trouble \/ UNCHANGED troubles
                       PROVE  troubles' \in 0 .. MaxTroubles
  BY BoundsAreCounts DEF TypeOK, Trouble

LEMMA TypeInit == Init => PInv
<1> SUFFICES ASSUME Init PROVE PInv
  OBVIOUS
<1>1. PICK v \in Volumes : disk = v.disk /\ table = v.cyls /\ cyls = v.cyls /\ env = v.cyls
  BY DEF Init
<1>2. v.cyls \in Sizes /\ v.disk \in Disks /\ {MaxOps, MaxTroubles, MaxAllocs} \subseteq Nat
  BY ConstantsAssumption
<1>3. TypeOK
  <2>1. {disk, cache, before} \subseteq Disks /\ {table, cyls, env} \subseteq Sizes
    BY <1>1, <1>2, Zenon DEF Init
  <2>2. {mounted, dirty, inhibited, missed, clean, raced} \subseteq BOOLEAN
    BY Zenon DEF Init
  <2>3. pc = "idle" /\ op = NoOp /\ ops = 0 /\ troubles = 0 /\ allocs = 0
    BY DEF Init
  <2> QED
    BY <1>2, <2>1, <2>2, <2>3 DEF TypeOK
<1>4. Planned
  BY DEF Init, Planned
<1> QED
  BY <1>3, <1>4 DEF PInv

\* A resize that begins has a plan.
LEMMA TypeBegin ==
    ASSUME PInv, NEW kind \in {"grow", "shrink"}, NEW state \in {"unseal", "root"},
           NEW n \in Sizes, NEW new \in Nat, disk.free + new - disk.size \in Nat,
           ops < MaxOps, Begin(kind, state, n, new)
    PROVE  PInv'
<1>1. disk \in Disks /\ disk.size \in Nat
  BY DEF PInv, TypeOK, Disks
<1>2. Planned'
  BY <1>1 DEF Begin, Planned
<1>3. op' # NoOp
  BY DEF Begin, NoOp
<1>4. dirty \in BOOLEAN /\ Mountable(disk, table) \in BOOLEAN
  BY DEF PInv, TypeOK, Mountable
<1>5. TypeOK'
  BY <1>1, <1>3, <1>4, ConstantsAssumption DEF Begin, PInv, TypeOK, handler
<1> QED
  BY <1>2, <1>5 DEF PInv

LEMMA TypeGrow == ASSUME PInv, NEW n \in Sizes, Grow(n) PROVE PInv'
<1> DEFINE new == disk.size + (n - cyls) * PerCylinder
<1>1. disk \in Disks /\ cyls \in Sizes /\ n > cyls
  BY DEF PInv, TypeOK, Grow
<1>2. new \in Nat /\ new >= disk.size
  BY <1>1, GrownSize
<1>3. ops < MaxOps /\ Begin("grow", "unseal", n, new)
  BY DEF Grow
<1> HIDE DEF new
<1>4. disk.free + new - disk.size \in Nat
  BY <1>1, <1>2 DEF Disks
<1> QED
  BY <1>2, <1>3, <1>4, TypeBegin

LEMMA TypeShrink == ASSUME PInv, NEW n \in Sizes, Shrink(n) PROVE PInv'
<1> DEFINE new == ShrunkSize(n)
<1>1. disk \in Disks /\ cyls \in Sizes /\ n < cyls
  BY DEF PInv, TypeOK, Shrink
<1>2. new \in Nat /\ new <= disk.size
  BY <1>1, ShrunkSizeFits
<1>3. ops < MaxOps /\ Gate(new) /\ Begin("shrink", "root", n, new)
  BY DEF Shrink
<1> HIDE DEF new
<1>4. disk.free + new - disk.size \in Nat
  BY <1>1, <1>2, <1>3 DEF Disks, Gate
<1> QED
  BY <1>2, <1>3, <1>4, TypeBegin

\* Every step keeps the types.
LEMMA TypeStep == PInv /\ [Next]_vars => PInv'
<1> SUFFICES ASSUME PInv, [Next]_vars PROVE PInv'
  OBVIOUS
<1> USE DEF PInv
<1>1. ASSUME NEW n \in Sizes, Grow(n) PROVE PInv'
  BY <1>1, TypeGrow
<1>2. ASSUME NEW n \in Sizes, Shrink(n) PROVE PInv'
  BY <1>2, TypeShrink
<1>3. CASE Unseal
  <2>1. disk' \in Disks
    BY <1>3, UnsealedIsDisk DEF Unseal, TypeOK
  <2> QED
    BY <1>3, <2>1, TroubleCounts DEF Unseal, Calm, Rest, TypeOK, Planned, handler
<1>4. CASE WriteRoot
  <2>1. Stored(op.buf.sizefield, Roving) \in Disks
    BY <1>4, StoredIsDisk, RovingInNat DEF WriteRoot, Planned, Disks
  <2> QED
    BY <1>4, <2>1, TroubleCounts DEF WriteRoot, Calm, Rest, TypeOK, Planned, handler
<1>5. CASE ClearFlag
  <2>1. Stored(FALSE, Roving) \in Disks
    BY <1>5, StoredIsDisk, RovingInNat DEF ClearFlag
  <2> QED
    BY <1>5, <2>1, TroubleCounts DEF ClearFlag, Calm, Rest, TypeOK, Planned, handler
<1>6. CASE Hold \/ Unheld
  BY <1>6 DEF Hold, Unheld, Calm, Rest, TypeOK, Planned
<1>7. CASE Release
  BY <1>7 DEF Release, Calm, Rest, TypeOK, Planned
<1>8. CASE TableWrite
  BY <1>8, TroubleCounts DEF TableWrite, Calm, TypeOK, Planned, handler
<1>9. CASE Alloc
  <2>1. cache' \in Disks
    BY <1>9, StoredFileIsDisk DEF TypeOK
  <2> QED
    BY <1>9, <2>1, BoundsAreCounts DEF Alloc, TypeOK, Planned
<1>10. CASE Flush
  BY <1>10 DEF Flush, TypeOK, Planned
<1>11. CASE Reboot
  BY <1>11, TroubleCounts DEF Reboot, Mountable, TypeOK, Planned
<1>12. CASE UNCHANGED vars
  BY <1>12 DEF vars, handler, TypeOK, Planned
<1> QED
  BY <1>1, <1>2, <1>3, <1>4, <1>5, <1>6, <1>7, <1>8, <1>9, <1>10, <1>11, <1>12
  DEF Next, Advance

(***************************************************************************)
(* Type correctness.                                                        *)
(***************************************************************************)
THEOREM TypeCorrect == Spec => []TypeOK
  BY TypeInit, TypeStep, PTL DEF Spec, PInv

---------------------------------------------------------------------------
(* The volume mounts wherever the resize stops *)

(***************************************************************************)
(* Between the resizes the rootblock on the disk, and the copy of a handler *)
(* that missed none, mount with the partition of the table.  During one, as *)
(* long as the handler has nothing to write, the old rootblock stands until *)
(* it is written over; and once the flag is down the size is not compared   *)
(* at all.  A handler that missed one has written nothing since.            *)
(***************************************************************************)
MountInv == (clean /\ ~raced) =>
    /\ pc = "idle" => /\ Mountable(disk, table)
                      /\ mounted /\ ~missed => Mountable(cache, table)
    /\ pc # "idle" \/ missed => ~dirty
    /\ pc \in {"unseal", "root"} => Mountable(disk, table)
    /\ pc \in {"inhibit", "release", "table"} => ~disk.sizefield
    /\ pc = "table" /\ mounted /\ ~missed => cache = disk

\* A resize begins with a volume that mounts, or it is not one of a clean run.
LEMMA MountBegin ==
    ASSUME NEW kind, NEW state, state \in {"unseal", "root"}, NEW n, NEW new,
           Begin(kind, state, n, new)
    PROVE  MountInv'
<1>1. /\ pc' = state /\ clean' = Mountable(disk, table) /\ raced' = dirty
      /\ disk' = disk /\ table' = table /\ dirty' = dirty
  BY Zenon DEF Begin, handler
<1>2. Mountable(disk', table') = Mountable(disk, table)
  BY <1>1, Zenon
<1>3. state # "idle" /\ state \notin {"inhibit", "release", "table"}
  OBVIOUS
<1>4. clean' => Mountable(disk', table')
  BY <1>1, <1>2, Zenon
<1>5. ~raced' => ~dirty'
  BY <1>1, Zenon
<1> QED
  BY <1>1, <1>3, <1>4, <1>5 DEF MountInv

LEMMA MountStep == PInv /\ MountInv /\ [Next]_vars => MountInv'
<1> SUFFICES ASSUME PInv, MountInv, [Next]_vars PROVE MountInv'
  OBVIOUS
<1>1. ASSUME NEW n \in Sizes, Grow(n) PROVE MountInv'
  BY <1>1, MountBegin, Zenon DEF Grow
<1>2. ASSUME NEW n \in Sizes, Shrink(n) PROVE MountInv'
  BY <1>2, MountBegin, Zenon DEF Shrink
<1>3. CASE Unseal
  <2>1. \/ disk'.size = disk.size /\ disk'.sizefield = disk.sizefield
        \/ ~clean'
    BY <1>3 DEF Unseal, Unsealed, PInv, TypeOK, Disks
  <2> QED
    BY <1>3, <2>1 DEF Unseal, Calm, Rest, MountInv, Mountable, handler
<1>4. CASE WriteRoot
  <2>1. Stored(op.buf.sizefield, Roving).sizefield = op.buf.sizefield
    BY DEF Stored, PInv, TypeOK, Disks
  <2> QED
    BY <1>4, <2>1 DEF WriteRoot, Calm, Rest, MountInv, Mountable, handler
<1>5. CASE ClearFlag
  <2>1. ~Stored(FALSE, Roving).sizefield
    BY DEF Stored, PInv, TypeOK, Disks
  <2> QED
    BY <1>5, <2>1 DEF ClearFlag, Calm, Rest, MountInv, Mountable, handler
<1>6. CASE Hold \/ Unheld
  BY <1>6 DEF Hold, Unheld, Calm, Rest, MountInv, Mountable
<1>7. CASE Release
  BY <1>7 DEF Release, Calm, Rest, MountInv, Mountable
<1>8. CASE TableWrite
  BY <1>8 DEF TableWrite, Calm, MountInv, Mountable, handler
<1>9. CASE Alloc
  <2>1. cache'.size = cache.size /\ cache'.sizefield = cache.sizefield
    BY <1>9 DEF Alloc, PInv, TypeOK, Disks
  <2> QED
    BY <1>9, <2>1 DEF Alloc, MountInv, Mountable
<1>10. CASE Flush
  BY <1>10 DEF Flush, MountInv, Mountable
<1>11. CASE Reboot
  BY <1>11 DEF Reboot, MountInv, Mountable, PInv, TypeOK
<1>12. CASE UNCHANGED vars
  BY <1>12 DEF vars, handler, MountInv, Mountable
<1> QED
  BY <1>1, <1>2, <1>3, <1>4, <1>5, <1>6, <1>7, <1>8, <1>9, <1>10, <1>11, <1>12
  DEF Next, Advance

(***************************************************************************)
(* Wherever the machine stops, but between the two writes of the rootblock, *)
(* the volume mounts with the partition the table then gives it, the old    *)
(* one or the new one.                                                      *)
(***************************************************************************)
THEOREM MountsWhereverItStops == Spec => []MountsEitherWay
<1>1. Init => MountInv
  BY ConstantsAssumption DEF Init, MountInv, Mountable
<1>2. PInv /\ MountInv => MountsEitherWay
  BY DEF PInv, TypeOK, MountInv, MountsEitherWay, Mountable
<1> QED
  BY <1>1, <1>2, TypeInit, TypeStep, MountStep, PTL DEF Spec

---------------------------------------------------------------------------
(* The floor that is reported and the gate of the shrink *)

\* A set of integers with an upper bound has a greatest one.
LEMMA GreatestOf ==
    ASSUME NEW S \in SUBSET Int, S # {}, NEW b \in Int, \A x \in S : x <= b
    PROVE  Max(S) \in S /\ \A x \in S : x <= Max(S)
<1> DEFINE N == {b - x : x \in S}
<1>1. N \in SUBSET Nat /\ N # {}
  <2>1. \A x \in S : b - x \in Nat
    OBVIOUS
  <2> QED
    BY <2>1
<1>2. PICK m \in N : \A y \in N : ~(<<y, m>> \in OpToRel(<, Nat))
  BY <1>1, NatLessThanWellFounded, WFMin, Zenon
<1>3. ASSUME NEW y \in N PROVE m <= y
  <2>1. ~(y < m)
    BY <1>1, <1>2 DEF OpToRel
  <2> QED
    BY <1>1, <2>1
<1>4. PICK x \in S : m = b - x
  BY <1>2
<1>5. ASSUME NEW y \in S PROVE x >= y
  <2>1. m <= b - y
    BY <1>3
  <2> QED
    BY <1>4, <2>1
<1>6. \E z \in S : \A y \in S : z >= y
  BY <1>5
<1>7. Max(S) \in S /\ \A y \in S : Max(S) >= y
  BY <1>6, Zenon DEF Max
<1> QED
  BY <1>7

LEMMA Quotient ==
    ASSUME NEW x \in Nat, NEW c \in Nat \ {0}
    PROVE  x \div c \in Nat /\ (x \div c) * c <= x /\ x < (x \div c + 1) * c
  OBVIOUS

LEMMA FewerTimes ==
    ASSUME NEW a \in Nat, NEW b \in Nat, NEW c \in Nat \ {0}, a * c < b * c
    PROVE  a < b
  OBVIOUS

\* The bitmap block with the bit of a block, and no other, covers it; block numbers
\* and the numbers of their bitmap blocks have the same order; and the bitmap of a
\* volume covers each of its blocks.
LEMMA InItsBlock ==
    ASSUME NEW b \in Nat, b >= BmStart
    PROVE  Of(b) \in Nat /\ b \in Cover(Of(b))
<1>1. BmStart \in Nat /\ Cov \in Nat \ {0} /\ b - BmStart \in Nat
  BY ConstantsAssumption
<1>2. /\ Of(b) \in Nat /\ Of(b) * Cov <= b - BmStart
      /\ b - BmStart < (Of(b) + 1) * Cov
  BY <1>1, Quotient DEF Of
<1>3. Of(b) * Cov \in Nat /\ (Of(b) + 1) * Cov \in Nat
  BY <1>1, <1>2, ProductInNat
<1> QED
  BY <1>1, <1>2, <1>3 DEF Cover

LEMMA InNoOther ==
    ASSUME NEW k \in Nat, NEW b \in Cover(k) PROVE b \in Nat /\ b >= BmStart /\ Of(b) = k
<1>1. BmStart \in Nat /\ Cov \in Nat \ {0}
  BY ConstantsAssumption
<1>2. k * Cov \in Nat /\ (k + 1) * Cov \in Nat
  BY <1>1, ProductInNat
<1>3. b \in Nat /\ k * Cov <= b - BmStart /\ b - BmStart < (k + 1) * Cov
  BY <1>1, <1>2 DEF Cover
<1> DEFINE x == b - BmStart
           q == Of(b)
<1>4. x \in Nat
  BY <1>1, <1>2, <1>3
<1>5. q \in Nat /\ q * Cov <= x /\ x < (q + 1) * Cov
  BY <1>1, <1>4, Quotient DEF Of
<1>6. q * Cov \in Nat /\ (q + 1) * Cov \in Nat
  BY <1>1, <1>5, ProductInNat
<1>7. q * Cov < (k + 1) * Cov /\ k * Cov < (q + 1) * Cov
  BY <1>2, <1>3, <1>4, <1>5, <1>6
<1>8. q < k + 1 /\ k < q + 1
  <2>1. q + 1 \in Nat /\ k + 1 \in Nat
    BY <1>5
  <2> HIDE DEF q
  <2> QED
    BY <1>1, <1>5, <1>7, <2>1, FewerTimes
<1>9. q = k
  <2> HIDE DEF q
  <2> QED
    BY <1>5, <1>8
<1> QED
  BY <1>1, <1>3, <1>9

LEMMA InOrder ==
    ASSUME NEW a \in Nat, NEW b \in Nat, a >= BmStart, b >= a PROVE Of(a) <= Of(b)
<1>1. BmStart \in Nat /\ Cov \in Nat \ {0} /\ b >= BmStart
  BY ConstantsAssumption
<1>2. Of(a) \in Nat /\ Of(b) \in Nat /\ a \in Cover(Of(a)) /\ b \in Cover(Of(b))
  BY <1>1, InItsBlock
<1> DEFINE p == Of(a)
           q == Of(b)
<1>3. p * Cov \in Nat /\ (q + 1) * Cov \in Nat /\ p \in Nat /\ q + 1 \in Nat
  BY <1>1, <1>2, ProductInNat
<1>4. p * Cov < (q + 1) * Cov
  BY <1>1, <1>2, <1>3 DEF Cover
<1>5. p < q + 1
  <2> HIDE DEF p, q
  <2> QED
    BY <1>1, <1>3, <1>4, FewerTimes
<1> QED
  BY <1>2, <1>5

LEMMA InTheBitmap ==
    ASSUME NEW t \in Nat, NEW b \in Nat, b >= BmStart, b < t
    PROVE  Bmbs(t) \in Nat /\ Of(b) <= Bmbs(t) - 1
<1>1. BmStart \in Nat /\ Cov \in Nat \ {0} /\ Of(b) \in Nat /\ b \in Cover(Of(b))
  BY ConstantsAssumption, InItsBlock
<1> DEFINE m == t - BmStart
           u == Bmbs(t)
           q == Of(b)
<1>2. m \in Nat /\ Max({0, m}) = m
  <2>1. m \in Nat /\ m > 0
    BY <1>1
  <2> HIDE DEF m
  <2> QED
    BY <2>1, MaxOfTwo
<1>3. u = (m + Cov - 1) \div Cov /\ m + Cov - 1 \in Nat
  <2>1. u = Up(Max({0, m}), Cov)
    BY DEF Bmbs
  <2>2. u = Up(m, Cov)
    BY <1>2, <2>1
  <2> QED
    BY <1>1, <1>2, <2>2 DEF Up
<1>4. u \in Nat /\ m + Cov - 1 < (u + 1) * Cov
  <2> HIDE DEF u, m
  <2> QED
    BY <1>1, <1>3, Quotient
<1>5. q * Cov <= b - BmStart /\ b - BmStart <= m - 1 /\ q * Cov \in Nat
  BY <1>1, ProductInNat DEF Cover
<1>6. (q + 1) * Cov = q * Cov + Cov /\ (u + 1) * Cov \in Nat /\ u + 1 \in Nat /\ q + 1 \in Nat
  BY <1>1, <1>4, ProductInNat
<1>7. (q + 1) * Cov < (u + 1) * Cov
  BY <1>1, <1>2, <1>4, <1>5, <1>6
<1>8. q + 1 < u + 1
  <2> HIDE DEF q, u
  <2> QED
    BY <1>1, <1>6, <1>7, FewerTimes
<1> QED
  BY <1>1, <1>4, <1>8

\* The blocks from one on, to the end of the volume, are free.
FreeFrom(new) == \A b \in new .. disk.size - 1 : b \in FreeIn(disk, Of(b))
Readable == \A k \in 0 .. Bmbs(disk.size) - 1 : Legible(disk, k)

LEMMA TailScanned ==
    ASSUME disk.size \in Nat, Readable, NEW new \in BmStart + 2 .. disk.size - 1
    PROVE  TailFree(new) <=> FreeFrom(new)
<1>1. BmStart \in Nat /\ new \in Nat /\ new >= BmStart /\ new < disk.size
  BY ConstantsAssumption
<1>2. Of(new) \in Nat /\ Bmbs(disk.size) \in Nat
  BY <1>1, InItsBlock, InTheBitmap
<1>3. ASSUME TailFree(new), NEW b \in new .. disk.size - 1 PROVE b \in FreeIn(disk, Of(b))
  <2>1. b \in Nat /\ b >= BmStart /\ b >= new /\ b < disk.size
    BY <1>1
  <2>2. Of(b) \in Of(new) .. Bmbs(disk.size) - 1 /\ b \in Cover(Of(b))
    BY <1>1, <1>2, <2>1, InItsBlock, InOrder, InTheBitmap
  <2> QED
    BY <1>3, <2>1, <2>2, Zenon DEF TailFree
<1>4. ASSUME FreeFrom(new), NEW k \in Of(new) .. Bmbs(disk.size) - 1
      PROVE  /\ Legible(disk, k)
             /\ \A b \in Cover(k) : (b >= new /\ b < disk.size) => b \in FreeIn(disk, k)
  <2>1. k \in Nat /\ k \in 0 .. Bmbs(disk.size) - 1
    BY <1>2
  <2>2. ASSUME NEW b \in Cover(k), b >= new, b < disk.size PROVE b \in FreeIn(disk, k)
    <3>1. b \in Nat /\ Of(b) = k
      BY <2>1, InNoOther
    <3>2. b \in new .. disk.size - 1
      BY <1>1, <2>2, <3>1
    <3> QED
      BY <1>4, <3>1, <3>2, Zenon DEF FreeFrom
  <2> QED
    BY <2>1, <2>2, Zenon DEF Readable
<1> QED
  BY <1>3, <1>4, Zenon DEF TailFree, FreeFrom

LEMMA FloorIsHighestUsed ==
    ASSUME disk.size \in Nat, NEW new \in BmStart + 2 .. disk.size - 1
    PROVE  new >= MinBlocks <=> FreeFrom(new)
<1> DEFINE used == (BmStart .. disk.size - 1) \ FreeBits(disk, disk.size)
           S == {BmStart} \cup {b + 1 : b \in used}
<1>1. BmStart \in Nat /\ new \in Nat /\ new > BmStart /\ new < disk.size
  BY ConstantsAssumption
<1>2. \A b : b \in used <=> b \in BmStart .. disk.size - 1 /\ b \notin FreeIn(disk, Of(b))
  BY DEF FreeBits
<1>3. S \in SUBSET Int /\ S # {} /\ \A x \in S : x <= disk.size
  BY <1>1, <1>2
<1>4. MinBlocks = Max(S)
  BY Zenon DEF MinBlocks
<1>5. \A b \in used : b + 1 \in S
  OBVIOUS
<1>6. \A x \in S : x = BmStart \/ \E b \in used : x = b + 1
  OBVIOUS
<1> HIDE DEF S, used
<1>7. MinBlocks \in S /\ MinBlocks \in Int /\ \A x \in S : x <= MinBlocks
  <2>1. disk.size \in Int
    OBVIOUS
  <2>2. Max(S) \in S /\ \A x \in S : x <= Max(S)
    BY <1>3, <2>1, GreatestOf, Zenon
  <2> QED
    BY <1>3, <1>4, <2>2, Zenon
<1>8. ASSUME new >= MinBlocks, NEW b \in new .. disk.size - 1 PROVE b \in FreeIn(disk, Of(b))
  <2>1. b \in BmStart .. disk.size - 1 /\ b \in Int /\ b >= new
    BY <1>1
  <2>2. b \in used => b + 1 <= MinBlocks
    BY <1>5, <1>7
  <2> QED
    BY <1>1, <1>2, <1>7, <1>8, <2>1, <2>2
<1>9. ASSUME FreeFrom(new) PROVE new >= MinBlocks
  <2>1. CASE MinBlocks = BmStart
    BY <1>1, <2>1
  <2>2. ASSUME NEW b \in used, MinBlocks = b + 1 PROVE new >= MinBlocks
    <3>1. b \in BmStart .. disk.size - 1 /\ b \notin FreeIn(disk, Of(b))
      BY <1>2
    <3>2. b \notin new .. disk.size - 1
      BY <1>9, <3>1 DEF FreeFrom
    <3> QED
      BY <1>1, <2>2, <3>1, <3>2
  <2> QED
    BY <1>6, <1>7, <2>1, <2>2
<1> QED
  BY <1>8, <1>9 DEF FreeFrom

\* A free tail is counted among the free blocks.
LEMMA TailIsCounted ==
    ASSUME disk.size \in Nat, disk.free \in Nat, Exact(disk),
           NEW new \in BmStart + 2 .. disk.size - 1, FreeFrom(new)
    PROVE  disk.free >= disk.size - new
<1> DEFINE all == BmStart .. disk.size - 1
           free == FreeBits(disk, disk.size)
           tail == new .. disk.size - 1
<1>1. BmStart \in Nat /\ new \in Nat /\ new > BmStart /\ new < disk.size
  BY ConstantsAssumption
<1>2. IsFiniteSet(all)
  <2>1. BmStart \in Int /\ disk.size - 1 \in Int
    BY <1>1
  <2> QED
    BY <2>1, FS_Interval, Zenon
<1>3. free \in SUBSET all
  BY DEF FreeBits
<1>4. IsFiniteSet(free)
  BY <1>2, <1>3, FS_Subset
<1>5. tail \in SUBSET free
  BY <1>1 DEF FreeFrom, FreeBits
<1>6. Cardinality(tail) = disk.size - new
  <2> DEFINE last == disk.size - 1
  <2>1. new \in Int /\ last \in Int /\ new <= last /\ last - new + 1 = disk.size - new
    BY <1>1
  <2>2. tail = new .. last
    OBVIOUS
  <2> HIDE DEF last
  <2>3. Cardinality(new .. last) = IF new > last THEN 0 ELSE last - new + 1
    BY <2>1, FS_Interval, Zenon
  <2> QED
    BY <2>1, <2>2, <2>3
<1>7. Cardinality(tail) <= Cardinality(free)
  BY <1>4, <1>5, FS_Subset
<1> QED
  BY <1>1, <1>6, <1>7 DEF Exact

(***************************************************************************)
(* Between two resizes of a clean run, on a volume whose bitmap can be read *)
(* and whose count of free blocks is that of the bitmap, the shrink accepts *)
(* a size exactly when it is not below the floor that PFS_ShrinkInfo        *)
(* reports (pfsresize.c), for any coverage of a bitmap block.               *)
(***************************************************************************)
THEOREM FloorIsTheGate == Spec => []InfoMatchesGate
<1>1. TypeOK => InfoMatchesGate
  <2> SUFFICES ASSUME TypeOK, Exact(disk), Readable,
                      NEW new \in BmStart + 2 .. disk.size - 1
               PROVE  Gate(new) <=> new >= MinBlocks
    BY Zenon DEF InfoMatchesGate, Readable
  <2>1. disk.size \in Nat /\ disk.free \in Nat
    BY DEF TypeOK, Disks
  <2>2. new > BmStart + 1
    BY <2>1, ConstantsAssumption
  <2> QED
    BY <2>1, <2>2, TailScanned, FloorIsHighestUsed, TailIsCounted, Zenon DEF Gate
<1> QED
  BY <1>1, TypeCorrect, PTL

---------------------------------------------------------------------------
(* A resize that reports success leaves a sound volume *)

(***************************************************************************)
(* What a resize that has met no trouble has done so far, told from the     *)
(* disk it began with: the gate has found the blocks it gives away free; a  *)
(* grow has freed what was sealed behind the old end, where it can; nothing *)
(* else has changed until the rootblock is written.                         *)
(***************************************************************************)
Last == Bmbs(op.old) - 1
Reached == /\ Bmbs(op.old) > 0 /\ IdxOf(Last) < Capacity(before)
           /\ before.index[IdxOf(Last)] = "good" /\ before.bm[Last] \notin {Absent, Bad}
Added == {b \in Cover(Last) : b >= op.old /\ b < op.total}
Bits == IF op.kind = "grow" /\ Reached THEN [before.bm EXCEPT ![Last] = @ \cup Added]
                                       ELSE before.bm
Opened == op.kind = "grow" => op.old <= op.total
GaveUp == op.kind = "shrink" =>
    /\ op.total > BmStart + 1 /\ op.total <= op.old
    /\ \A b \in op.total .. op.old - 1 : b \in FreeIn(before, Of(b))

SoundInv == (clean /\ ~raced /\ pc # "idle") =>
    /\ op.buf = before /\ op.old = before.size /\ Opened /\ GaveUp
    /\ op.old <= Blocks(cyls) => op.total <= Blocks(op.new)
    /\ pc = "unseal" => op.kind = "grow" /\ disk = before
    /\ pc # "unseal" => disk.index = before.index /\ disk.bm = Bits
    /\ pc \notin {"unseal", "root"} =>
          /\ disk.size = op.total /\ disk.free = before.free + op.total - op.old
          /\ disk.roving = Roving

LEMMA TailIsFree ==
    ASSUME disk.size \in Nat, NEW new \in Nat, new >= BmStart, TailFree(new)
    PROVE  FreeFrom(new)
<1>1. BmStart \in Nat
  BY ConstantsAssumption
<1>2. ASSUME NEW b \in new .. disk.size - 1 PROVE b \in FreeIn(disk, Of(b))
  <2>1. b \in Nat /\ b >= BmStart /\ b >= new /\ b < disk.size
    BY <1>1
  <2>2. Of(new) \in Nat /\ Of(b) \in Nat /\ Bmbs(disk.size) \in Nat
    BY <1>1, <2>1, InItsBlock, InTheBitmap
  <2>3. Of(b) \in Of(new) .. Bmbs(disk.size) - 1 /\ b \in Cover(Of(b))
    BY <1>1, <2>1, <2>2, InItsBlock, InOrder, InTheBitmap
  <2> QED
    BY <2>1, <2>3, Zenon DEF TailFree
<1> QED
  BY <1>2 DEF FreeFrom

\* A grow of a volume inside its partition ends inside the larger one.
LEMMA GrownFits ==
    ASSUME disk \in Disks, cyls \in Sizes, NEW n \in Sizes, n > cyls,
           disk.size <= Blocks(cyls)
    PROVE  disk.size + (n - cyls) * PerCylinder <= Blocks(n)
<1>1. /\ disk.size \in Nat /\ cyls \in Nat \ {0} /\ n \in Nat /\ Cyl \in Nat \ {0}
      /\ PerCylinder \in Nat /\ n - cyls \in Nat
  BY SizesAreCounts, PerCylinderInNat, ConstantsAssumption DEF Disks
<1> DEFINE q == PerCylinder
           more == n - cyls
<1>2. q <= Cyl
  <2>1. CASE disk.size > 0
    <3>1. q = disk.size \div cyls
      BY <2>1 DEF PerCylinder
    <3>2. q * cyls <= disk.size
      BY <1>1, <3>1, Quotient
    <3>3. q * cyls \in Nat /\ (Cyl + 1) * cyls = cyls * Cyl + cyls /\ cyls * Cyl \in Nat
      BY <1>1, ProductInNat
    <3>4. q * cyls < (Cyl + 1) * cyls
      BY <1>1, <3>2, <3>3 DEF Blocks
    <3>5. q < Cyl + 1
      <4>1. Cyl + 1 \in Nat /\ q \in Nat
        BY <1>1
      <4> HIDE DEF q
      <4> QED
        BY <1>1, <3>4, <4>1, FewerTimes
    <3> QED
      BY <1>1, <3>5
  <2>2. CASE ~(disk.size > 0)
    BY <1>1, <2>2 DEF PerCylinder
  <2> QED
    BY <2>1, <2>2
<1>3. PICK r \in Nat : Cyl = q + r
  BY <1>1, <1>2
<1>4. more \in Nat /\ q \in Nat /\ n = cyls + more
  BY <1>1
<1> HIDE DEF q, more
<1>5. n * Cyl = cyls * Cyl + more * Cyl
  BY <1>1, <1>4
<1>6. more * Cyl = more * q + more * r /\ more * r \in Nat /\ more * q \in Nat
      /\ cyls * Cyl \in Nat
  BY <1>1, <1>3, <1>4
<1>7. disk.size + more * q <= n * Cyl
  BY <1>1, <1>5, <1>6 DEF Blocks
<1> QED
  BY <1>7 DEF Blocks, q, more

LEMMA SoundBegin ==
    ASSUME PInv, NEW kind, NEW state, NEW n, NEW new,
           \/ kind = "grow" /\ state = "unseal" /\ disk.size <= new
           \/ /\ kind = "shrink" /\ state = "root"
              /\ new > BmStart + 1 /\ new <= disk.size /\ FreeFrom(new),
           disk.size <= Blocks(cyls) => new <= Blocks(n),
           Begin(kind, state, n, new)
    PROVE  SoundInv'
<1>1. /\ op' = [kind |-> kind, new |-> n, total |-> new, old |-> disk.size, buf |-> disk]
      /\ pc' = state /\ before' = disk /\ disk' = disk /\ cyls' = cyls
  BY Zenon DEF Begin
<1>2. /\ op'.kind = kind /\ op'.new = n /\ op'.total = new /\ op'.old = disk.size
      /\ op'.buf = disk
  BY <1>1
<1>3. op'.buf = before' /\ op'.old = before'.size /\ Opened' /\ GaveUp'
  <2>1. Opened'
    BY <1>2 DEF Opened
  <2>2. GaveUp'
    BY <1>1, <1>2 DEF GaveUp, FreeFrom
  <2> QED
    BY <1>1, <1>2, <2>1, <2>2
<1>4. pc' = "unseal" => op'.kind = "grow" /\ disk' = before'
  BY <1>1, <1>2
<1>5. pc' # "unseal" => disk'.index = before'.index /\ disk'.bm = Bits'
  BY <1>1, <1>2 DEF Bits
<1>6. pc' \in {"unseal", "root"}
  BY <1>1
<1> QED
  BY <1>1, <1>2, <1>3, <1>4, <1>5, <1>6 DEF SoundInv

LEMMA SoundGrow == ASSUME PInv, NEW n \in Sizes, Grow(n) PROVE SoundInv'
<1> DEFINE new == disk.size + (n - cyls) * PerCylinder
<1>1. disk \in Disks /\ cyls \in Sizes /\ n > cyls
  BY DEF PInv, TypeOK, Grow
<1>2. new \in Nat /\ new >= disk.size /\ disk.size \in Nat
  BY <1>1, GrownSize DEF Disks
<1>3. disk.size <= Blocks(cyls) => new <= Blocks(n)
  BY <1>1, GrownFits
<1>4. Begin("grow", "unseal", n, new)
  BY DEF Grow
<1> HIDE DEF new
<1> QED
  BY <1>2, <1>3, <1>4, SoundBegin

LEMMA SoundShrink == ASSUME PInv, NEW n \in Sizes, Shrink(n) PROVE SoundInv'
<1> DEFINE new == ShrunkSize(n)
<1>1. disk \in Disks /\ cyls \in Sizes /\ n < cyls
  BY DEF PInv, TypeOK, Shrink
<1>2. new \in Nat /\ new <= disk.size /\ new <= Blocks(n) /\ disk.size \in Nat
  BY <1>1, ShrunkSizeFits DEF Disks
<1>3. Gate(new) /\ Begin("shrink", "root", n, new)
  BY DEF Shrink
<1> HIDE DEF new
<1>4. new > BmStart + 1 /\ FreeFrom(new)
  <2>1. new > BmStart + 1 /\ TailFree(new) /\ BmStart \in Nat
    BY <1>3, ConstantsAssumption DEF Gate
  <2> QED
    BY <1>2, <2>1, TailIsFree
<1> QED
  BY <1>2, <1>3, <1>4, SoundBegin

\* A step of the resize keeps its plan.
LEMMA SamePlan ==
    ASSUME UNCHANGED <<op, before>>
    PROVE  /\ Bits' = Bits /\ Roving' = Roving /\ Opened' = Opened /\ GaveUp' = GaveUp
  BY DEF Bits, Roving, Opened, GaveUp, Reached, Last, Added, FreeIn, Untouched, Capacity

LEMMA SoundUnseal == ASSUME PInv, SoundInv, Unseal PROVE SoundInv'
<1> SUFFICES ASSUME clean', ~raced' PROVE SoundInv'
  BY DEF SoundInv
<1>1. /\ UNCHANGED <<op, before, cyls>> /\ pc = "unseal" /\ pc' = "root"
      /\ disk' = (IF CanUnseal THEN Unsealed ELSE disk) /\ clean /\ ~raced
  BY DEF Unseal, Calm, Rest
<1>2. /\ op.buf = before /\ op.kind = "grow" /\ disk = before /\ disk \in Disks
  BY <1>1 DEF SoundInv, PInv, TypeOK
<1>3. CanUnseal <=> Reached
  BY <1>2 DEF CanUnseal, Reached, Last
<1>4. Unsealed.index = disk.index /\ Unsealed.bm = [disk.bm EXCEPT ![Last] = @ \cup Added]
  BY <1>2 DEF Unsealed, Last, Added, Disks
<1>5. disk'.index = before.index /\ disk'.bm = Bits
  BY <1>1, <1>2, <1>3, <1>4 DEF Bits
<1> QED
  BY <1>1, <1>2, <1>5, SamePlan DEF SoundInv

LEMMA StoredFields ==
    ASSUME PInv, pc # "idle", NEW flag \in BOOLEAN
    PROVE  LET d == Stored(flag, Roving) IN
           /\ d.size = op.total /\ d.free = op.buf.free + op.total - op.old
           /\ d.roving = Roving /\ d.index = op.buf.index /\ d.bm = disk.bm
  BY DEF Stored, PInv, TypeOK, Disks

\* The rootblock, once or twice.
LEMMA SoundRoot ==
    ASSUME PInv, SoundInv, NEW flag \in BOOLEAN, pc \in {"root", "flag"},
           disk' = Stored(flag, Roving), UNCHANGED <<op, before, cyls, clean, raced>>,
           pc' \in {"flag", "inhibit"}
    PROVE  SoundInv'
<1> SUFFICES ASSUME clean, ~raced PROVE SoundInv'
  BY DEF SoundInv
<1>1. /\ op.buf = before /\ disk.bm = Bits
  BY DEF SoundInv
<1>2. /\ disk'.size = op.total /\ disk'.free = before.free + op.total - op.old
      /\ disk'.roving = Roving /\ disk'.index = before.index /\ disk'.bm = Bits
  BY <1>1, StoredFields
<1> QED
  BY <1>1, <1>2, SamePlan DEF SoundInv

\* The rest of it does not touch the disk, the handler having nothing to write.
LEMMA SoundSame ==
    ASSUME SoundInv, UNCHANGED <<disk, op, before, cyls, clean, raced>>,
           pc \notin {"idle", "unseal", "root"}, pc' \notin {"unseal", "root"}
    PROVE  SoundInv'
  BY SamePlan DEF SoundInv

LEMMA SoundStep == PInv /\ MountInv /\ SoundInv /\ [Next]_vars => SoundInv'
<1> SUFFICES ASSUME PInv, MountInv, SoundInv, [Next]_vars PROVE SoundInv'
  OBVIOUS
<1>1. ASSUME NEW n \in Sizes, Grow(n) PROVE SoundInv'
  BY <1>1, SoundGrow
<1>2. ASSUME NEW n \in Sizes, Shrink(n) PROVE SoundInv'
  BY <1>2, SoundShrink
<1>3. CASE Unseal
  BY <1>3, SoundUnseal
<1>4. CASE WriteRoot
  <2>1. CASE pc' = "idle" \/ ~clean'
    BY <2>1 DEF SoundInv
  <2>2. CASE pc' # "idle" /\ clean'
    <3>1. /\ disk' = Stored(op.buf.sizefield, Roving) /\ pc = "root"
          /\ UNCHANGED <<op, before, cyls, clean, raced>> /\ pc' \in {"flag", "inhibit"}
      BY <1>4, <2>2 DEF WriteRoot, Calm, Rest
    <3>2. op.buf.sizefield \in BOOLEAN
      BY <3>1 DEF PInv, Planned, Disks
    <3> QED
      BY <3>1, <3>2, SoundRoot
  <2> QED
    BY <2>1, <2>2
<1>5. CASE ClearFlag
  <2>1. CASE ~clean'
    BY <2>1 DEF SoundInv
  <2>2. CASE clean'
    <3>1. /\ disk' = Stored(FALSE, Roving) /\ pc = "flag" /\ pc' = "inhibit"
          /\ UNCHANGED <<op, before, cyls, clean, raced>>
      BY <1>5, <2>2 DEF ClearFlag, Calm, Rest
    <3> QED
      BY <3>1, SoundRoot
  <2> QED
    BY <2>1, <2>2
<1>6. CASE Hold
  <2>1. /\ disk' = (IF dirty THEN cache ELSE disk) /\ pc = "inhibit" /\ pc' = "release"
        /\ UNCHANGED <<op, before, cyls, clean, raced>>
    BY <1>6 DEF Hold, Calm, Rest
  <2>2. CASE clean /\ ~raced
    <3>1. ~dirty
      BY <2>1, <2>2 DEF MountInv
    <3> QED
      BY <2>1, <3>1, SoundSame
  <2>3. CASE ~(clean /\ ~raced)
    BY <2>1, <2>3 DEF SoundInv
  <2> QED
    BY <2>2, <2>3
<1>7. CASE Unheld \/ Release
  BY <1>7, SoundSame DEF Unheld, Release, Calm, Rest
<1>8. CASE TableWrite
  BY <1>8 DEF TableWrite, SoundInv
<1>9. CASE Alloc
  BY <1>9 DEF Alloc, SoundInv
<1>10. CASE Flush
  <2>1. pc' = pc /\ clean' = clean /\ raced' = raced /\ dirty
    BY <1>10 DEF Flush
  <2>2. ~(clean /\ ~raced /\ pc # "idle")
    BY <2>1 DEF MountInv
  <2> QED
    BY <2>1, <2>2 DEF SoundInv
<1>11. CASE Reboot
  BY <1>11 DEF Reboot, SoundInv
<1>12. CASE UNCHANGED vars
  <2>1. UNCHANGED <<disk, op, before, cyls, clean, raced, pc>>
    BY <1>12 DEF vars
  <2> QED
    BY <2>1, SamePlan DEF SoundInv
<1> QED
  BY <1>1, <1>2, <1>3, <1>4, <1>5, <1>6, <1>7, <1>8, <1>9, <1>10, <1>11, <1>12
  DEF Next, Advance

(* What the bitmap then says *)

LEMMA MoreBitmap ==
    ASSUME NEW a \in Nat, NEW b \in Nat, a <= b
    PROVE  Bmbs(a) \in Nat /\ Bmbs(b) \in Nat /\ Bmbs(a) <= Bmbs(b)
<1>1. BmStart \in Nat /\ Cov \in Nat \ {0}
  BY ConstantsAssumption
<1> DEFINE p == Max({0, a - BmStart})
           q == Max({0, b - BmStart})
<1>2. p \in Nat /\ q \in Nat /\ p <= q
  <2>1. a - BmStart \in Int /\ b - BmStart \in Int /\ 0 \in Int
    BY <1>1
  <2>2. p \in {0, a - BmStart} /\ p >= 0
    BY <2>1, MaxOfTwo
  <2>3. q \in {0, b - BmStart} /\ q >= 0 /\ q >= b - BmStart
    BY <2>1, MaxOfTwo
  <2> HIDE DEF p, q
  <2> QED
    BY <1>1, <2>1, <2>2, <2>3
<1>3. Bmbs(a) = (p + Cov - 1) \div Cov /\ Bmbs(b) = (q + Cov - 1) \div Cov
  BY DEF Bmbs, Up
<1> HIDE DEF p, q
<1> DEFINE u == (p + Cov - 1) \div Cov
           v == (q + Cov - 1) \div Cov
<1>4. p + Cov - 1 \in Nat /\ q + Cov - 1 \in Nat
  BY <1>1, <1>2
<1>5. /\ u \in Nat /\ u * Cov <= p + Cov - 1
      /\ v \in Nat /\ q + Cov - 1 < (v + 1) * Cov
  BY <1>1, <1>4, Quotient
<1> HIDE DEF u, v
<1>6. u * Cov \in Nat /\ (v + 1) * Cov \in Nat /\ v + 1 \in Nat
  BY <1>1, <1>5, ProductInNat
<1>7. u * Cov < (v + 1) * Cov
  BY <1>1, <1>2, <1>5, <1>6
<1>8. u < v + 1
  BY <1>1, <1>5, <1>6, <1>7, FewerTimes
<1> QED
  BY <1>3, <1>5, <1>8 DEF u, v

\* The bitmap blocks of what fits a partition are numbered.
LEMMA Numbered ==
    ASSUME NEW n \in Sizes, NEW b \in Nat, b >= BmStart, b < Blocks(n)
    PROVE  Of(b) \in Bmb
<1>1. BmStart \in Nat /\ Blocks(n) \in Nat
  BY ConstantsAssumption, SizesAreCounts
<1>2. Of(b) \in Nat /\ Bmbs(Blocks(n)) \in Nat /\ Of(b) <= Bmbs(Blocks(n)) - 1
  BY <1>1, InItsBlock, InTheBitmap
<1>3. Of(b) \in 0 .. Bmbs(Blocks(n)) - 1
  BY <1>2
<1> QED
  BY <1>3, ConstantsAssumption

\* A grow has added to the last bitmap block what lies between the two sizes, and to
\* no other block anything.
LEMMA FreeAfter ==
    ASSUME {before, disk} \subseteq Disks, disk.index = before.index, disk.bm = Bits,
           NEW k \in Bmb
    PROVE  FreeIn(disk, k) = IF op.kind = "grow" /\ Reached /\ k = Last
                             THEN FreeIn(before, k) \cup Added ELSE FreeIn(before, k)
<1>1. before.bm \in [Bmb -> (SUBSET Nat) \cup {Absent, Bad}]
  BY DEF Disks
<1>2. CASE op.kind = "grow" /\ Reached /\ k = Last
  <2>1. disk.bm[k] = before.bm[k] \cup Added
    BY <1>1, <1>2 DEF Bits
  <2>2. disk.bm \in [Bmb -> (SUBSET Nat) \cup {Absent, Bad}]
    BY DEF Disks
  <2>3. before.bm[k] \notin {Absent, Bad} /\ before.index[IdxOf(k)] = "good"
    BY <1>2 DEF Reached
  <2>4. disk.bm[k] \notin {Absent, Bad}
    <3>1. before.bm[k] \subseteq Cover(k)
      BY <2>3 DEF Disks
    <3>2. before.bm[k] \cup Added \in SUBSET Cover(k)
      BY <1>2, <3>1 DEF Added
    <3> QED
      BY <2>1, <3>2, ConstantsAssumption
  <2>5. FreeIn(before, k) = before.bm[k]
    BY <1>2, <2>3, ConstantsAssumption DEF FreeIn, Untouched
  <2>6. FreeIn(disk, k) = disk.bm[k]
    BY <1>2, <2>3, <2>4, ConstantsAssumption DEF FreeIn, Untouched
  <2> QED
    BY <1>2, <2>1, <2>5, <2>6
<1>3. CASE ~(op.kind = "grow" /\ Reached /\ k = Last)
  <2>1. disk.bm[k] = before.bm[k]
    BY <1>1, <1>3 DEF Bits
  <2> QED
    BY <1>3, <2>1 DEF FreeIn, Untouched
<1> QED
  BY <1>2, <1>3

\* What the end of a successful resize finds.
Done == /\ PInv /\ SoundInv /\ pc = "table" /\ clean /\ ~raced /\ op.old <= Blocks(cyls)

LEMMA DoneFacts ==
    ASSUME Done
    PROVE  /\ {before, disk} \subseteq Disks /\ cyls \in Sizes /\ op.new \in Sizes
           /\ op.old \in Nat /\ op.total \in Nat /\ BmStart \in Nat
           /\ op.kind \in {"grow", "shrink"}
           /\ op.old = before.size /\ op.total <= Blocks(op.new) /\ Opened /\ GaveUp
           /\ disk.index = before.index /\ disk.bm = Bits
           /\ disk.size = op.total /\ disk.free = before.free + op.total - op.old
           /\ disk.roving = Roving /\ op.buf = before
           /\ before.free \in Nat /\ before.roving \in Nat
<1>1. /\ {before, disk} \subseteq Disks /\ cyls \in Sizes /\ op.new \in Sizes
      /\ op.old \in Nat /\ op.total \in Nat /\ op.kind \in {"grow", "shrink"}
  BY DEF Done, PInv, TypeOK, Planned
<1>2. before.free \in Nat /\ before.roving \in Nat
  BY <1>1 DEF Disks
<1>3. BmStart \in Nat
  BY ConstantsAssumption
<1> QED
  BY <1>1, <1>2, <1>3 DEF Done, SoundInv

\* No block of the old size has changed sides.
LEMMA OldBitsKept ==
    ASSUME Done, NEW b \in BmStart .. op.old - 1
    PROVE  b \in FreeIn(before, Of(b)) <=> b \in FreeIn(disk, Of(b))
<1>1. b \in Nat /\ b >= BmStart /\ b < op.old /\ Blocks(cyls) \in Nat /\ b < Blocks(cyls)
  BY DoneFacts, SizesAreCounts DEF Done
<1>2. Of(b) \in Bmb
  BY <1>1, DoneFacts, Numbered
<1>3. b \notin Added
  BY <1>1, DoneFacts DEF Added
<1> QED
  BY <1>2, <1>3, DoneFacts, FreeAfter

\* What a grow has added is free, if nothing was sealed behind the last bitmap block.
LEMMA AddedAreFree ==
    ASSUME Done, op.kind = "grow", Repairable(before),
           NEW b \in op.old .. op.total - 1, b >= BmStart
    PROVE  b \in FreeIn(disk, Of(b))
<1> DEFINE k == Of(b)
<1>1. /\ b \in Nat /\ b >= op.old /\ b < op.total /\ Blocks(op.new) \in Nat
      /\ b < Blocks(op.new)
  BY DoneFacts, SizesAreCounts
<1>2. k \in Bmb /\ b \in Cover(k) /\ k \in Nat
  BY <1>1, DoneFacts, Numbered, InItsBlock
<1> HIDE DEF k
<1>3. CASE b \in FreeIn(before, k)
  BY <1>2, <1>3, DoneFacts, FreeAfter DEF k
<1>4. CASE b \notin FreeIn(before, k)
  <2>1. SealedIn(before, k)
    BY <1>1, <1>2, <1>4, DoneFacts DEF SealedIn
  <2>2. k = Last /\ Legible(before, k) /\ IdxOf(k) < Capacity(before)
    BY <1>2, <2>1, DoneFacts DEF Repairable, Last
  <2>3. ~Untouched(before, k) /\ before.bm[k] # Bad
    BY <1>2, <1>4 DEF FreeIn
  <2>4. before.index[IdxOf(k)] \notin {Absent, Bad} /\ before.bm[k] \notin {Absent, Bad}
    BY <2>2, <2>3 DEF Untouched, Legible
  <2>5. before.index[IdxOf(k)] = "good"
    <3>1. IdxOf(k) \in Index
      BY <1>2 DEF Index
    <3> QED
      BY <2>4, <3>1, DoneFacts DEF Disks
  <2>6. Bmbs(op.old) > 0
    <3>1. Bmbs(op.old) \in Nat
      BY DoneFacts, MoreBitmap
    <3> QED
      BY <1>2, <2>2, <3>1 DEF Last
  <2>7. Reached
    BY <2>2, <2>4, <2>5, <2>6 DEF Reached
  <2>8. b \in Added
    BY <1>1, <1>2, <2>2 DEF Added
  <2> QED
    BY <1>2, <2>2, <2>7, <2>8, DoneFacts, FreeAfter DEF k
<1> QED
  BY <1>3, <1>4 DEF k

\* Two sets of free blocks, one below and one from a size on, have their numbers added.
LEMMA CountUpTo ==
    ASSUME NEW a \in Nat, NEW b \in Nat, a <= b, NEW c \in Nat, c <= a,
           NEW S \in SUBSET (c .. a - 1), NEW T, T = S \cup (a .. b - 1)
    PROVE  /\ Cardinality(S) \in Nat
           /\ Cardinality(T) = Cardinality(S) + b - a
<1>1. a \in Int /\ b - 1 \in Int /\ a - 1 \in Int /\ c \in Int
  OBVIOUS
<1>2. IsFiniteSet(c .. a - 1) /\ IsFiniteSet(a .. b - 1)
  BY <1>1, FS_Interval, Zenon
<1>3. Cardinality(a .. b - 1) = b - a
  <2>1. Cardinality(a .. b - 1) = IF a > b - 1 THEN 0 ELSE (b - 1) - a + 1
    BY <1>1, FS_Interval, Zenon
  <2> QED
    BY <2>1
<1>4. IsFiniteSet(S)
  BY <1>2, FS_Subset, Zenon
<1>5. S \cap (a .. b - 1) = {}
  OBVIOUS
<1>6. Cardinality(S) \in Nat
  BY <1>4, FS_CardinalityType
<1>7. Cardinality(T) = Cardinality(S) + Cardinality(a .. b - 1) - Cardinality({})
  BY <1>2, <1>4, <1>5, FS_Union, Zenon
<1>8. Cardinality({}) = 0
  BY FS_EmptySet
<1> QED
  BY <1>3, <1>6, <1>7, <1>8

LEMMA CountIsRight ==
    ASSUME Done, Exact(before), Repairable(before) PROVE Exact(disk)
<1> DEFINE was == FreeBits(before, op.old)
           now == FreeBits(disk, op.total)
<1>1. before.size = op.old /\ disk.size = op.total /\ op.old >= BmStart
      /\ before.free = Cardinality(was)
  BY DoneFacts DEF Exact
<1>2. \A b : b \in was <=> b \in BmStart .. op.old - 1 /\ b \in FreeIn(before, Of(b))
  BY DEF FreeBits
<1>3. \A b : b \in now <=> b \in BmStart .. op.total - 1 /\ b \in FreeIn(disk, Of(b))
  BY DEF FreeBits
<1> HIDE DEF was, now
<1>4. CASE op.kind = "grow"
  <2>1. op.old <= op.total
    BY <1>4, DoneFacts DEF Opened
  <2>2. was \in SUBSET (BmStart .. op.old - 1)
    BY <1>2
  <2>3. now = was \cup (op.old .. op.total - 1)
    <3>1. ASSUME NEW b PROVE b \in now <=> b \in was \cup (op.old .. op.total - 1)
      <4>1. CASE b \in op.old .. op.total - 1
        <5>1. b >= BmStart /\ b \in BmStart .. op.total - 1
          BY <1>1, <4>1, DoneFacts
        <5> QED
          BY <1>3, <1>4, <4>1, <5>1, AddedAreFree
      <4>2. CASE b \in BmStart .. op.old - 1
        <5>1. b \in BmStart .. op.total - 1 /\ b \notin op.old .. op.total - 1
          BY <2>1, <4>2, DoneFacts
        <5> QED
          BY <1>2, <1>3, <4>2, <5>1, OldBitsKept
      <4>3. CASE b \notin op.old .. op.total - 1 /\ b \notin BmStart .. op.old - 1
        <5>1. b \notin BmStart .. op.total - 1
          BY <4>3, <2>1, DoneFacts
        <5> QED
          BY <1>2, <1>3, <4>3, <5>1
      <4> QED
        BY <4>1, <4>2, <4>3
    <3> QED
      BY <3>1
  <2>4. Cardinality(was) \in Nat /\ Cardinality(now) = Cardinality(was) + op.total - op.old
    <3>1. op.total \in Nat /\ op.old \in Nat /\ BmStart \in Nat /\ BmStart <= op.old
      BY <1>1, DoneFacts
    <3> QED
      BY <2>1, <2>2, <2>3, <3>1, CountUpTo, Zenon
  <2> QED
    BY <1>1, <2>1, <2>4, DoneFacts DEF Exact, now
<1>5. CASE op.kind = "shrink"
  <2>1. /\ op.total > BmStart + 1 /\ op.total <= op.old
        /\ \A b \in op.total .. op.old - 1 : b \in FreeIn(before, Of(b))
    BY <1>5, DoneFacts DEF GaveUp
  <2>2. now \in SUBSET (BmStart .. op.total - 1)
    BY <1>3
  <2>3. was = now \cup (op.total .. op.old - 1)
    <3>1. ASSUME NEW b PROVE b \in was <=> b \in now \cup (op.total .. op.old - 1)
      <4>1. CASE b \in op.total .. op.old - 1
        <5>1. b \in BmStart .. op.old - 1
          BY <2>1, <4>1, DoneFacts
        <5> QED
          BY <1>2, <2>1, <4>1, <5>1
      <4>2. CASE b \in BmStart .. op.total - 1
        <5>1. b \in BmStart .. op.old - 1 /\ b \notin op.total .. op.old - 1
          BY <2>1, <4>2, DoneFacts
        <5> QED
          BY <1>2, <1>3, <4>2, <5>1, OldBitsKept
      <4>3. CASE b \notin op.total .. op.old - 1 /\ b \notin BmStart .. op.total - 1
        <5>1. b \notin BmStart .. op.old - 1
          BY <4>3, <2>1, DoneFacts
        <5> QED
          BY <1>2, <1>3, <4>3, <5>1
      <4> QED
        BY <4>1, <4>2, <4>3
    <3> QED
      BY <3>1
  <2>4. BmStart <= op.total
    BY <2>1, DoneFacts
  <2>5. Cardinality(now) \in Nat /\ Cardinality(was) = Cardinality(now) + op.old - op.total
    <3>1. op.total \in Nat /\ op.old \in Nat /\ BmStart \in Nat
      BY DoneFacts
    <3> QED
      BY <2>1, <2>2, <2>3, <2>4, <3>1, CountUpTo, Zenon
  <2> QED
    BY <1>1, <2>4, <2>5, DoneFacts DEF Exact, now
<1> QED
  BY <1>4, <1>5, DoneFacts

\* The roving pointer is inside the bitmap if it was.
LEMMA RovingInside ==
    ASSUME Done, before.roving < Bmbs(op.old) * PerIdx
    PROVE  disk.roving < Max({1, Bmbs(op.total)}) * PerIdx
<1> DEFINE m == Max({1, Bmbs(op.total)})
           t == Bmbs(op.total)
           r == before.roving
<1>1. PerIdx \in Nat \ {0} /\ t \in Nat /\ r \in Nat
  <2>1. PerIdx \in Nat \ {0}
    BY ConstantsAssumption
  <2>2. op.total \in Nat /\ r \in Nat
    BY DoneFacts
  <2>3. t \in Nat
    BY <2>2, MoreBitmap
  <2> QED
    BY <2>1, <2>2, <2>3
<1>2. m \in Nat /\ m >= 1 /\ m >= t
  <2>1. 1 \in Int /\ t \in Int
    BY <1>1
  <2>2. m \in {1, t} /\ m >= 1 /\ m >= t
    BY <2>1, MaxOfTwo
  <2> HIDE DEF m, t
  <2> QED
    BY <1>1, <2>2
<1>3. disk.roving = (IF op.kind = "shrink" /\ r \div PerIdx >= t THEN 0 ELSE r)
  BY DoneFacts DEF Roving
<1> HIDE DEF m, t, r
<1>4. PICK d \in Nat : m = t + d
  BY <1>1, <1>2
<1>5. m * PerIdx = t * PerIdx + d * PerIdx /\ t * PerIdx \in Nat /\ d * PerIdx \in Nat
  BY <1>1, <1>2, <1>4
<1>6. CASE op.kind = "shrink" /\ r \div PerIdx >= t
  <2>1. PICK e \in Nat : m = 1 + e
    BY <1>2
  <2>2. m * PerIdx = PerIdx + e * PerIdx /\ e * PerIdx \in Nat
    BY <1>1, <1>2, <2>1
  <2> QED
    BY <1>1, <1>3, <1>6, <2>2 DEF m
<1>7. CASE op.kind = "shrink" /\ ~(r \div PerIdx >= t)
  <2> DEFINE q == r \div PerIdx
  <2>1. q \in Nat /\ r < (q + 1) * PerIdx
    BY <1>1, Quotient
  <2>2. q < t
    BY <1>1, <1>7, <2>1
  <2> HIDE DEF q
  <2>3. PICK e \in Nat : t = q + 1 + e
    BY <1>1, <2>1, <2>2
  <2>4. t * PerIdx = (q + 1) * PerIdx + e * PerIdx /\ e * PerIdx \in Nat
        /\ (q + 1) * PerIdx \in Nat
    BY <1>1, <2>1, <2>3
  <2> QED
    BY <1>1, <1>3, <1>5, <1>7, <2>1, <2>4 DEF m
<1>8. CASE op.kind = "grow"
  <2> DEFINE o == Bmbs(op.old)
  <2>1. o \in Nat /\ o <= t
    BY <1>8, DoneFacts, MoreBitmap DEF Opened, t
  <2>2. r < o * PerIdx
    BY DEF r
  <2> HIDE DEF o
  <2>3. PICK e \in Nat : t = o + e
    BY <1>1, <2>1
  <2>4. t * PerIdx = o * PerIdx + e * PerIdx /\ e * PerIdx \in Nat /\ o * PerIdx \in Nat
    BY <1>1, <2>1, <2>3
  <2> QED
    BY <1>1, <1>3, <1>5, <1>8, <2>2, <2>4 DEF m
<1> QED
  BY <1>6, <1>7, <1>8, DoneFacts

(***************************************************************************)
(* A grow or a shrink that reports success, no write having failed and the  *)
(* handler having had nothing to write, leaves a size inside the partition, *)
(* a count of free blocks that is the bitmap's if it was before, every file *)
(* its blocks, and the roving pointer inside the bitmap: pfsresize.c, for   *)
(* any geometry and any volume.                                             *)
(***************************************************************************)
THEOREM SoundResize == Spec => []SoundWhenDone
<1>1. Init => SoundInv
  BY DEF Init, SoundInv
<1>2. Init => MountInv
  BY ConstantsAssumption DEF Init, MountInv, Mountable
<1>3. PInv /\ SoundInv => SoundWhenDone
  <2> SUFFICES ASSUME PInv, SoundInv, Succeeded
               PROVE  /\ disk.size = op.total /\ op.total <= Blocks(op.new)
                      /\ Exact(before) /\ Repairable(before) => Exact(disk)
                      /\ \A b \in BmStart .. op.old - 1 :
                            b \in FreeBits(before, op.old) <=> b \in FreeIn(disk, Of(b))
                      /\ before.roving < Bmbs(op.old) * PerIdx
                            => disk.roving < Max({1, Bmbs(op.total)}) * PerIdx
    BY Zenon DEF SoundWhenDone
  <2>1. Done
    BY DEF Succeeded, Done
  <2>2. \A b \in BmStart .. op.old - 1 :
           b \in FreeBits(before, op.old) <=> b \in FreeIn(disk, Of(b))
    BY <2>1, OldBitsKept DEF FreeBits
  <2> QED
    BY <2>1, <2>2, DoneFacts, CountIsRight, RovingInside, Zenon
<1> QED
  BY <1>1, <1>2, <1>3, TypeInit, TypeStep, MountStep, SoundStep, PTL DEF Spec
=============================================================================
