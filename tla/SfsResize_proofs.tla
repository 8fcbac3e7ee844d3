-------------------------- MODULE SfsResize_proofs --------------------------
(***************************************************************************)
(* Proofs about SfsResize, for any geometry, any volumes whose roots state *)
(* a size and a bitmap that exist, any sizes asked for, and any number of  *)
(* resizes, files and troubles.                                             *)
(*                                                                         *)
(* TypeCorrect: TypeOK.  FloorIsTheGate: InfoMatchesGate.  OldVolumeStands: *)
(* OldVolumeKept.  SoundResize: SoundWhenDone.  They rest on TInv, which    *)
(* says what a block may hold and a plan may write; OldVolumeStands also on *)
(* KInv: what a resize has written and will write before the start root     *)
(* spares the blocks in use, or has them noted to be put back; SoundResize  *)
(* on Towards: where the writes still to come lead.                         *)
(***************************************************************************)
EXTENDS SfsResize, FiniteSetTheorems, SequenceTheorems, WellFoundedInduction, TLAPS

---------------------------------------------------------------------------
(* Numbers *)

LEMMA MaxOfTwo == ASSUME NEW a \in Int, NEW b \in Int
                  PROVE  Max({a, b}) \in {a, b} /\ Max({a, b}) >= a /\ Max({a, b}) >= b
<1> DEFINE P(x) == x \in {a, b} /\ \A y \in {a, b} : x >= y
<1>1. \E x : P(x)
  BY a >= b \/ b >= a
<1> QED
  BY <1>1 DEF Max

LEMMA MinOfTwo == ASSUME NEW a \in Int, NEW b \in Int
                  PROVE  Min({a, b}) \in {a, b} /\ Min({a, b}) <= a /\ Min({a, b}) <= b
<1> DEFINE P(x) == x \in {a, b} /\ \A y \in {a, b} : x <= y
<1>1. \E x : P(x)
  BY a >= b \/ b >= a
<1> QED
  BY <1>1 DEF Min

\* A set of integers with a bound has a greatest one, and a least one.
LEMMA GreatestOf ==
    ASSUME NEW S \in SUBSET Int, S # {}, NEW b \in Int, \A x \in S : x <= b
    PROVE  Max(S) \in S /\ \A x \in S : x <= Max(S)
<1> DEFINE N == {b - x : x \in S}
<1>1. N \in SUBSET Nat /\ N # {}
  <2>1. \A x \in S : b - x \in Nat
    OBVIOUS
  <2> QED
    BY <2>1
<1>2. PICK m \in N : \A y \in N : ~(<<y, m>> \in OpToRel(<, Nat))
  BY <1>1, NatLessThanWellFounded, WFMin, Zenon
<1>3. ASSUME NEW y \in N PROVE m <= y
  <2>1. ~(y < m)
    BY <1>1, <1>2 DEF OpToRel
  <2> QED
    BY <1>1, <2>1
<1>4. PICK x \in S : m = b - x
  BY <1>2
<1>5. ASSUME NEW y \in S PROVE x >= y
  <2>1. m <= b - y
    BY <1>3
  <2> QED
    BY <1>4, <2>1
<1>6. Max(S) \in S /\ \A y \in S : Max(S) >= y
  BY <1>5, Zenon DEF Max
<1> QED
  BY <1>6

LEMMA LeastOf ==
    ASSUME NEW S \in SUBSET Nat, S # {}
    PROVE  Min(S) \in S /\ \A x \in S : Min(S) <= x
<1>1. PICK m \in S : \A y \in S : ~(<<y, m>> \in OpToRel(<, Nat))
  BY NatLessThanWellFounded, WFMin, Zenon
<1>2. ASSUME NEW y \in S PROVE m <= y
  <2>1. ~(y < m)
    BY <1>1 DEF OpToRel
  <2> QED
    BY <2>1
<1>3. Min(S) \in S /\ \A y \in S : Min(S) <= y
  BY <1>2, Zenon DEF Min
<1> QED
  BY <1>3

LEMMA ProductInNat == ASSUME NEW a \in Nat, NEW b \in Nat PROVE a * b \in Nat
  OBVIOUS

LEMMA Quotient ==
    ASSUME NEW x \in Nat, NEW c \in Nat \ {0}
    PROVE  x \div c \in Nat /\ (x \div c) * c <= x /\ x < (x \div c + 1) * c
  OBVIOUS

LEMMA FewerTimes ==
    ASSUME NEW a \in Nat, NEW b \in Nat, NEW c \in Nat \ {0}, a * c < b * c
    PROVE  a < b
  OBVIOUS

LEMMA Sized == ASSUME NEW n \in Sizes
               PROVE  n \in Nat \ {0} /\ Blocks(n) \in Nat /\ Blocks(n) <= LastBlock + 1
<1>1. n \in Nat \ {0} /\ Cyl \in Nat /\ Phys \in Nat \ {0} /\ Blocks(n) <= LastBlock + 1
  BY GeometryAssumption
<1>2. n * Cyl \in Nat
  BY <1>1, ProductInNat
<1> QED
  BY <1>1, <1>2, Quotient DEF Blocks

\* The bitmap block with the bit of a block, and no other, covers it; block numbers
\* and the numbers of their bitmap blocks have the same order; and the bitmap of a
\* volume covers each of its blocks.
LEMMA InItsBlock ==
    ASSUME NEW b \in Nat PROVE Of(b) \in Nat /\ b \in Cover(Of(b))
<1>1. Bib \in Nat \ {0}
  BY GeometryAssumption
<1>2. Of(b) \in Nat /\ Of(b) * Bib <= b /\ b < (Of(b) + 1) * Bib
  BY <1>1, Quotient DEF Of
<1>3. Of(b) * Bib \in Nat /\ (Of(b) + 1) * Bib \in Nat
  BY <1>1, <1>2, ProductInNat
<1> QED
  BY <1>1, <1>2, <1>3 DEF Cover

LEMMA Covered ==
    ASSUME NEW k \in Nat
    PROVE  Cover(k) \in Bits /\ \A b \in Cover(k) : b \in Nat /\ Of(b) = k
<1>1. Bib \in Nat \ {0}
  BY GeometryAssumption
<1>2. k * Bib \in Nat /\ (k + 1) * Bib \in Nat
  BY <1>1, ProductInNat
<1>3. IsFiniteSet(Cover(k))
  <2>1. k * Bib \in Int /\ (k + 1) * Bib - 1 \in Int
    BY <1>2
  <2> QED
    BY <2>1, FS_Interval, Zenon DEF Cover
<1>4. ASSUME NEW b \in Cover(k) PROVE b \in Nat /\ Of(b) = k
  <2>1. b \in Nat /\ k * Bib <= b /\ b < (k + 1) * Bib
    BY <1>1, <1>2 DEF Cover
  <2> DEFINE q == Of(b)
  <2>2. q \in Nat /\ q * Bib <= b /\ b < (q + 1) * Bib
    BY <1>1, <2>1, Quotient DEF Of
  <2> HIDE DEF q
  <2>3. q * Bib \in Nat /\ (q + 1) * Bib \in Nat
    BY <1>1, <2>2, ProductInNat
  <2>4. q * Bib < (k + 1) * Bib /\ k * Bib < (q + 1) * Bib /\ q + 1 \in Nat /\ k + 1 \in Nat
    BY <1>2, <2>1, <2>2, <2>3
  <2>5. q < k + 1 /\ k < q + 1
    BY <1>1, <2>2, <2>4, FewerTimes
  <2>6. q = k
    BY <2>2, <2>5
  <2> QED
    BY <2>1, <2>6 DEF q
<1>5. Cover(k) \in SUBSET Nat
  BY <1>4, Zenon
<1> QED
  BY <1>3, <1>4, <1>5 DEF Bits

LEMMA InOrder ==
    ASSUME NEW a \in Nat, NEW b \in Nat, b >= a PROVE Of(a) <= Of(b)
<1>1. Bib \in Nat \ {0}
  BY GeometryAssumption
<1> DEFINE p == Of(a)
           q == Of(b)
<1>2. p \in Nat /\ q \in Nat /\ p * Bib <= a /\ b < (q + 1) * Bib
  BY <1>1, Quotient DEF Of
<1> HIDE DEF p, q
<1>3. p * Bib \in Nat /\ (q + 1) * Bib \in Nat /\ q + 1 \in Nat
  BY <1>1, <1>2, ProductInNat
<1>4. p * Bib < (q + 1) * Bib
  BY <1>2, <1>3
<1>5. p < q + 1
  BY <1>1, <1>2, <1>3, <1>4, FewerTimes
<1> QED
  BY <1>2, <1>5 DEF p, q

LEMMA BitmapSize ==
    ASSUME NEW t \in Nat
    PROVE  Bmbs(t) \in Nat /\ t <= Bmbs(t) * Bib /\ Bmbs(t) * Bib < t + Bib
           /\ Bmbs(t) * Bib \in Nat
<1>1. Bib \in Nat \ {0} /\ t + Bib - 1 \in Nat
  BY GeometryAssumption
<1> DEFINE u == Bmbs(t)
<1>2. u \in Nat /\ u * Bib <= t + Bib - 1 /\ t + Bib - 1 < (u + 1) * Bib
  BY <1>1, Quotient DEF Bmbs
<1> HIDE DEF u
<1>3. u * Bib \in Nat /\ (u + 1) * Bib = u * Bib + Bib
  BY <1>1, <1>2, ProductInNat
<1>4. t <= u * Bib /\ u * Bib < t + Bib
  BY <1>1, <1>2, <1>3
<1> QED
  BY <1>2, <1>3, <1>4 DEF u

LEMMA InTheBitmap ==
    ASSUME NEW t \in Nat, NEW b \in Nat, b < t
    PROVE  Of(b) \in 0 .. Bmbs(t) - 1
<1>1. Bib \in Nat \ {0} /\ Bmbs(t) \in Nat /\ t <= Bmbs(t) * Bib /\ Bmbs(t) * Bib \in Nat
  BY GeometryAssumption, BitmapSize
<1> DEFINE q == Of(b)
           u == Bmbs(t)
<1>2. q \in Nat /\ q * Bib <= b
  BY <1>1, Quotient DEF Of
<1> HIDE DEF q, u
<1>3. q * Bib \in Nat /\ u \in Nat /\ u * Bib \in Nat /\ t <= u * Bib
  BY <1>1, <1>2, ProductInNat DEF u
<1>4. q * Bib < u * Bib
  BY <1>2, <1>3
<1>5. q < u
  BY <1>1, <1>2, <1>3, <1>4, FewerTimes
<1> QED
  BY <1>2, <1>3, <1>5 DEF q, u

\* A larger volume has no smaller bitmap; one whose bitmap is larger by a block lies
\* behind all that the bitmap of the smaller one covers.
LEMMA MoreBitmap ==
    ASSUME NEW a \in Nat, NEW b \in Nat
    PROVE  /\ a <= b => Bmbs(a) <= Bmbs(b)
           /\ Bmbs(a) < Bmbs(b) => Bmbs(a) * Bib < b
<1>1. Bib \in Nat \ {0}
  BY GeometryAssumption
<1> DEFINE u == Bmbs(a)
           v == Bmbs(b)
<1>2. /\ u \in Nat /\ u * Bib \in Nat /\ u * Bib < a + Bib
      /\ v \in Nat /\ v * Bib \in Nat /\ b <= v * Bib /\ v * Bib < b + Bib
  BY BitmapSize
<1> HIDE DEF u, v
<1>3. (v + 1) * Bib = v * Bib + Bib /\ v + 1 \in Nat
  BY <1>1, <1>2
<1>4. ASSUME a <= b PROVE u <= v
  <2>1. u * Bib < (v + 1) * Bib
    BY <1>1, <1>2, <1>3, <1>4
  <2>2. u < v + 1
    BY <1>1, <1>2, <1>3, <2>1, FewerTimes
  <2> QED
    BY <1>2, <2>2
<1>5. ASSUME u < v PROVE u * Bib < b
  <2>1. (v - 1) * Bib = v * Bib - Bib /\ v - 1 - u \in Nat
    BY <1>1, <1>2, <1>5
  <2>2. (v - 1 - u) * Bib \in Nat
    BY <1>1, <2>1, ProductInNat
  <2>3. (v - 1 - u) * Bib = (v - 1) * Bib - u * Bib
    BY <1>1, <1>2
  <2> QED
    BY <1>1, <1>2, <2>1, <2>2, <2>3
<1> QED
  BY <1>4, <1>5 DEF u, v

---------------------------------------------------------------------------
(* Sequences of writes *)

Lower(S, x) == {y \in S : y < x}

\* The members of a set of numbers, in their order: there is an i-th one for every i
\* up to their number.  Of those with i - 1 or more below them take the least; were
\* there more than i - 1, the greatest of these would be smaller still.
LEMMA NthIsIn ==
    ASSUME NEW n \in Nat, NEW S \in SUBSET (0 .. n), NEW i \in 1 .. Cardinality(S)
    PROVE  Nth(S, i) \in S
<1>1. IsFiniteSet(S) /\ Cardinality(S) \in Nat
  <2>1. S \in SUBSET Nat /\ \A s \in S : s <= n
    OBVIOUS
  <2> QED
    BY <2>1, FS_BoundedSetOfNaturals, FS_CardinalityType
<1>0. \A x \in S : x \in Nat /\ x <= n
  OBVIOUS
<1>2. i \in Nat /\ i >= 1 /\ i <= Cardinality(S)
  BY <1>1
<1>3. ASSUME NEW x \in S
      PROVE  Lower(S, x) \in SUBSET S /\ IsFiniteSet(Lower(S, x)) /\ Cardinality(Lower(S, x)) \in Nat
  <2>1. Lower(S, x) \in SUBSET S
    BY DEF Lower
  <2> QED
    BY <1>1, <2>1, FS_Subset, FS_CardinalityType
<1> DEFINE A == {x \in S : Cardinality(Lower(S, x)) >= i - 1}
<1>4. A # {}
  <2> DEFINE top == Max(S)
  <2>1. S # {}
    BY <1>1, <1>2, FS_EmptySet
  <2>2. top \in S /\ \A x \in S : x <= top
    BY <2>1, GreatestOf
  <2> HIDE DEF top
  <2>3. Lower(S, top) = S \ {top}
    <3>1. top \in Nat /\ \A x \in S : x < top <=> x # top
      BY <1>0, <2>2
    <3> QED
      BY <3>1, Zenon DEF Lower
  <2>4. Cardinality(Lower(S, top)) = Cardinality(S) - 1
    BY <1>1, <2>2, <2>3, FS_RemoveElement
  <2>5. Cardinality(Lower(S, top)) >= i - 1
    BY <1>1, <1>2, <2>4
  <2> QED
    BY <2>2, <2>5
<1> DEFINE m == Min(A)
<1>5. m \in A /\ \A x \in A : m <= x
  <2>1. A \in SUBSET Nat
    BY <1>0
  <2> HIDE DEF A
  <2> QED
    BY <1>4, <2>1, LeastOf
<1>6. m \in S /\ Cardinality(Lower(S, m)) >= i - 1 /\ m \in Nat
  BY <1>0, <1>5
<1> HIDE DEF m
<1>7. Cardinality(Lower(S, m)) = i - 1
  <2> SUFFICES ASSUME Cardinality(Lower(S, m)) # i - 1 PROVE FALSE
    OBVIOUS
  <2>1. Cardinality(Lower(S, m)) > i - 1 /\ Lower(S, m) # {}
    <3>1. Cardinality(Lower(S, m)) \in Nat /\ IsFiniteSet(Lower(S, m))
      BY <1>3, <1>6
    <3>2. Cardinality(Lower(S, m)) > i - 1 /\ Cardinality(Lower(S, m)) # 0
      BY <1>2, <1>6, <3>1
    <3> QED
      BY <3>2, FS_EmptySet
  <2> DEFINE p == Max(Lower(S, m))
  <2>2. p \in Lower(S, m) /\ \A x \in Lower(S, m) : x <= p
    <3>1. Lower(S, m) \subseteq S
      BY Zenon DEF Lower
    <3>2. S \subseteq Int /\ n \in Int
      BY <1>0
    <3>3. Lower(S, m) \in SUBSET Int /\ \A x \in Lower(S, m) : x <= n
      BY <1>0, <3>1, <3>2, Zenon
    <3> QED
      BY <2>1, <3>2, <3>3, GreatestOf, Zenon
  <2> HIDE DEF p
  <2>3. p \in S /\ p < m /\ p \in Nat
    BY <2>2 DEF Lower
  <2>4. Lower(S, p) = Lower(S, m) \ {p}
    <3>1. \A x \in S : x < p <=> x < m /\ x # p
      <4> SUFFICES ASSUME NEW x \in S PROVE x < p <=> x < m /\ x # p
        OBVIOUS
      <4>1. x \in Nat /\ p \in Nat /\ m \in Nat /\ p < m
        BY <1>0, <1>6, <2>3
      <4>2. x < m => x <= p
        BY <2>2, Zenon DEF Lower
      <4> QED
        BY <4>1, <4>2
    <3> QED
      BY <3>1, Zenon DEF Lower
  <2>5. Cardinality(Lower(S, p)) = Cardinality(Lower(S, m)) - 1
    BY <1>3, <1>6, <2>2, <2>4, FS_RemoveElement
  <2>6. p \in A
    <3>1. Cardinality(Lower(S, p)) \in Nat /\ Cardinality(Lower(S, m)) \in Nat
      BY <1>3, <1>6, <2>3
    <3>2. Cardinality(Lower(S, p)) >= i - 1
      BY <1>2, <2>1, <2>5, <3>1
    <3> QED
      BY <2>3, <3>2 DEF A
  <2> QED
    BY <1>5, <1>6, <2>3, <2>6
<1> QED
  BY <1>6, <1>7 DEF Nth, Lower

LEMMA WrittenOf ==
    ASSUME NEW n \in Nat, NEW S \in SUBSET (0 .. n), NEW T, NEW f \in [S -> T]
    PROVE  /\ WritesOf(f) \in Seq(T)
           /\ \A i \in 1 .. Len(WritesOf(f)) : \E k \in S : WritesOf(f)[i] = f[k]
<1> DEFINE N == Cardinality(S)
           g == [i \in 1 .. N |-> f[Nth(S, i)]]
<1>1. N \in Nat
  <2>1. S \in SUBSET Nat /\ \A s \in S : s <= n
    OBVIOUS
  <2> QED
    BY <2>1, FS_BoundedSetOfNaturals, FS_CardinalityType
<1>2. WritesOf(f) = g
  BY DEF WritesOf
<1>3. \A i \in 1 .. N : Nth(S, i) \in S
  BY NthIsIn
<1> HIDE DEF N
<1>4. g \in [1 .. N -> T] /\ \A i \in 1 .. N : g[i] = f[Nth(S, i)]
  BY <1>3
<1>5. g \in Seq(T) /\ Len(g) = N
  <2> HIDE DEF g
  <2> QED
    BY <1>1, <1>4
<1> HIDE DEF g
<1> QED
  BY <1>2, <1>3, <1>4, <1>5

---------------------------------------------------------------------------
(* Types *)

\* What may be written to a block, and a write that does when the block exists.
Good == {v \in Contents : v.kind = "root" => HasRoom(v)}
Plans == [at : Nat, val : Contents, mod : BOOLEAN]
Fits(w) == w.at \in Block => w.val \in Good

OpType == [kind : {"none", "grow", "shrink"}, new : Nat, total : Nat, old : Nat, base : Nat,
           seq : 0 .. SeqNums - 1, moved : BOOLEAN, exact : BOOLEAN, todo : Seq(Plans),
           undo : Seq([at : Block, val : Good]), failed : BOOLEAN]

\* A bitmap of the new volume has a place in it.
Placed == 1 < op.base /\ op.base + Bmbs(op.total) < op.total

\* Up to the start root: the old one stands, and the last write is the end root.
Before == pc = "pre" =>
    /\ before[0].kind = "root" /\ before[0].own = 0 /\ disk[0] = before[0]
    /\ op.old = before[0].total /\ op.old >= 2 /\ Placed
    /\ op.kind \in {"grow", "shrink"}
    /\ \A i \in DOMAIN op.todo : op.todo[i].at # 0
    /\ op.todo # <<>> => op.todo[Len(op.todo)].at = op.total - 1
    /\ op.todo = <<>> => op.total - 1 \in Block
After == pc = "post" => Placed /\ op.total - 1 \in Block

TInv ==
    /\ TypeOK
    /\ disk \in [Block -> Good] /\ before \in [Block -> Good]
    /\ op \in OpType /\ \A i \in DOMAIN op.todo : Fits(op.todo[i])
    /\ pc # "idle" => op.new \in Sizes
    /\ pc \in {"pre", "post", "verify"} => inhibited
    /\ Before /\ After

LEMMA Constants ==
    /\ LastBlock \in Nat /\ SeqNums \in Nat /\ SeqNums > 4 /\ RootObj \in Block \ {0}
    /\ MaxOps \in Nat /\ MaxTroubles \in Nat /\ MaxAllocs \in Nat /\ 0 \in Block
  BY GeometryAssumption DEF Block

\* Blocks of each kind.
LEMMA BitsAreGood == ASSUME NEW S \in Bits PROVE Bm(S) \in Good
  BY DEF Good, Bm, Contents

LEMMA PlainAreGood == /\ Data \in Good /\ Blank \in Good /\ Torn \in Good
                      /\ \A n \in Nat : Objc(n) \in Good
  BY DEF Good, Contents, Data, Blank, Torn, Objc

LEMMA RootIsGood ==
    ASSUME NEW own \in Nat, NEW t \in Nat, NEW base \in Nat, NEW s \in 0 .. SeqNums - 1
    PROVE  /\ Root(own, t, base, s) \in Contents
           /\ 1 < base /\ base + Bmbs(t) < t /\ t <= LastBlock + 1 => Root(own, t, base, s) \in Good
  BY DEF Good, Contents, Root, HasRoom

LEMMA RootFields ==
    ASSUME NEW v \in Good, v.kind = "root"
    PROVE  /\ v.own \in Nat /\ v.total \in Nat /\ v.base \in Nat /\ v.seq \in 0 .. SeqNums - 1
           /\ 1 < v.base /\ v.base + Bmbs(v.total) < v.total /\ v.total <= LastBlock + 1
  BY DEF Good, Contents, HasRoom, Data, Blank, Torn

LEMMA FreeIsBits == ASSUME NEW v \in Good PROVE FreeIn(v) \in Bits
<1>1. {} \in Bits
  BY FS_EmptySet DEF Bits
<1> QED
  BY <1>1 DEF FreeIn, Good, Contents, Data, Blank, Torn

LEMMA FewerBits ==
    ASSUME NEW S \in Bits, NEW T, T \subseteq S PROVE T \in Bits
<1>1. S \in SUBSET Nat /\ IsFiniteSet(S)
  BY DEF Bits
<1>2. T \in SUBSET Nat /\ IsFiniteSet(T)
  BY <1>1, FS_Subset
<1> QED
  BY <1>2 DEF Bits

LEMMA MoreBits ==
    ASSUME NEW S \in Bits, NEW T \in Bits PROVE S \cup T \in Bits
<1>1. S \in SUBSET Nat /\ IsFiniteSet(S) /\ T \in SUBSET Nat /\ IsFiniteSet(T)
  BY DEF Bits
<1>2. IsFiniteSet(S \cup T)
  BY <1>1, FS_Union
<1> QED
  BY <1>1, <1>2 DEF Bits

LEMMA DisksAreGood ==
    /\ \A d \in [Block -> Contents] : Room(d) => d \in [Block -> Good]
    /\ \A d \in [Block -> Good] : d \in [Block -> Contents] /\ Room(d)
  BY DEF Good, Room

\* One block is written, as it was asked for, or torn, or not.
LEMMA OneBlock ==
    ASSUME NEW d \in [Block -> Good], NEW b, NEW v, b \in Block => v \in Good,
           NEW w \in {d[b], v, Torn}
    PROVE  [d EXCEPT ![b] = w] \in [Block -> Good]
<1>1. b \in Block => w \in Good
  BY PlainAreGood
<1> QED
  BY <1>1

LEMMA Members == ASSUME NEW T, NEW s \in Seq(T)
                 PROVE  /\ Len(s) \in Nat /\ DOMAIN s = 1 .. Len(s)
                        /\ \A i \in DOMAIN s : s[i] \in T
  BY LenProperties

LEMMA OpIsTyped ==
    ASSUME NEW o \in OpType
    PROVE  /\ o.kind \in {"none", "grow", "shrink"}
           /\ o.total \in Nat /\ o.base \in Nat /\ o.seq \in 0 .. SeqNums - 1
           /\ \A i \in DOMAIN o.todo : o.todo[i].at \in Nat /\ o.todo[i].val \in Contents
           /\ \A i \in DOMAIN o.undo : o.undo[i].at \in Block /\ o.undo[i].val \in Contents
<1>1. o.todo \in Seq(Plans) /\ o.undo \in Seq([at : Block, val : Good])
  BY DEF OpType
<1>2. \A i \in DOMAIN o.todo : o.todo[i] \in Plans
  BY <1>1, Members, Zenon
<1>3. \A i \in DOMAIN o.undo : o.undo[i] \in [at : Block, val : Good]
  BY <1>1, Members, Zenon
<1> QED
  BY <1>2, <1>3 DEF OpType, Plans, Good

LEMMA TypeInit == Init => TInv
<1> SUFFICES ASSUME Init PROVE TInv
  OBVIOUS
<1>1. PICK v \in Volumes : disk = v.disk /\ table = v.cyls /\ cyls = v.cyls /\ env = v.cyls
  BY DEF Init
<1>2. v.cyls \in Sizes /\ v.disk \in [Block -> Good]
  BY DisksAreGood, GeometryAssumption
<1>3. NoOp \in OpType /\ NoOp.todo = <<>> /\ NoOp.undo = <<>>
  <2>1. <<>> \in Seq(Plans) /\ <<>> \in Seq([at : Block, val : Good])
    OBVIOUS
  <2> QED
    BY <2>1, Constants DEF OpType, NoOp
<1>4. /\ inhibited = FALSE /\ pc = "idle" /\ op = NoOp /\ before = disk
      /\ clean = TRUE /\ raced = FALSE /\ ops = 0 /\ troubles = 0 /\ allocs = 0
  BY DEF Init
<1>5. TypeOK
  <2>1. disk \in [Block -> Contents] /\ {table, cyls, env} \subseteq Sizes
    BY <1>1, <1>2, DisksAreGood
  <2>2. {inhibited, clean, raced} \subseteq BOOLEAN
    BY <1>4
  <2> QED
    BY <1>3, <1>4, <2>1, <2>2, OpIsTyped, Constants DEF TypeOK
<1> QED
  BY <1>1, <1>2, <1>3, <1>4, <1>5 DEF TInv, Before, After

\* What the start root says of a volume that can be resized.
LEMMA VolumeFields ==
    ASSUME TInv, IsRoot(disk, 0)
    PROVE  /\ Total \in Nat /\ Total >= 2 /\ Total <= LastBlock + 1
           /\ Base \in Nat /\ Base > 1 /\ Old \in Nat /\ Old > 0 /\ Base + Old < Total
           /\ \A k \in 0 .. Old - 1 : Base + k \in Block \ {0} /\ Free(k) \in Bits
           /\ LastSeq \in 0 .. SeqNums - 1
<1>1. disk \in [Block -> Good] /\ disk[0] \in Good /\ disk[0].kind = "root"
  BY Constants DEF TInv, IsRoot
<1>2. /\ Total \in Nat /\ Base \in Nat /\ Base > 1 /\ Base + Old < Total
      /\ Total <= LastBlock + 1 /\ disk[0].seq \in 0 .. SeqNums - 1
  BY <1>1, RootFields DEF Total, Base, Old
<1>3. Old \in Nat /\ Total <= Old * Bib
  BY <1>2, BitmapSize DEF Old
<1>4. Old > 0
  <2>1. Old = 0 => Old * Bib = 0
    BY GeometryAssumption
  <2> QED
    BY <1>2, <1>3, <2>1
<1>5. Total >= 2
  BY <1>2, <1>3, <1>4
<1>6. ASSUME NEW k \in 0 .. Old - 1 PROVE Base + k \in Block \ {0} /\ Free(k) \in Bits
  <2>1. Base + k \in Block \ {0}
    BY <1>2, <1>3, Constants DEF Block
  <2> QED
    BY <1>1, <2>1, FreeIsBits DEF Free
<1>7. LastSeq \in 0 .. SeqNums - 1
  <2>1. Total - 1 \in Block
    BY <1>2, <1>5, Constants DEF Block
  <2>2. IsRoot(disk, Total - 1) => disk[Total - 1].seq \in 0 .. SeqNums - 1
    BY <1>1, <2>1, RootFields DEF IsRoot
  <2> QED
    BY <1>2, <2>2 DEF LastSeq
<1> QED
  BY <1>2, <1>3, <1>4, <1>5, <1>6, <1>7

LEMMA NewTotalInNat ==
    ASSUME TInv, IsRoot(disk, 0), NEW n \in Sizes, n > cyls, NEW exact \in BOOLEAN
    PROVE  NewTotal(n, exact) \in Nat
<1>1. cyls \in Nat \ {0} /\ n \in Nat /\ Blocks(n) \in Nat /\ n - cyls \in Nat
  <2>1. cyls \in Sizes
    BY DEF TInv, TypeOK
  <2> QED
    BY <2>1, Sized
<1>2. Total \in Nat /\ Total \div cyls \in Nat
  BY <1>1, VolumeFields, Quotient
<1>3. Max({1, Total \div cyls}) \in Nat
  <2> DEFINE q == Total \div cyls
  <2>1. q \in Int /\ q \in Nat /\ 1 \in Int
    BY <1>2
  <2> HIDE DEF q
  <2>2. Max({1, q}) \in {1, q}
    BY <2>1, MaxOfTwo, Zenon
  <2>3. Max({1, q}) \in Nat
    BY <2>1, <2>2
  <2> QED
    BY <2>3 DEF q
<1>4. (n - cyls) * Max({1, Total \div cyls}) \in Nat
  BY <1>1, <1>3, ProductInNat
<1> QED
  BY <1>1, <1>2, <1>4 DEF NewTotal

LEMMA ShrunkTotalInNat ==
    ASSUME TInv, IsRoot(disk, 0), NEW n \in Sizes, n < cyls
    PROVE  ShrunkTotal(n) \in Nat /\ ShrunkTotal(n) <= Total /\ ShrunkTotal(n) <= Blocks(n)
<1>1. cyls \in Nat \ {0} /\ cyls - n \in Nat /\ Blocks(n) \in Nat
  <2>1. cyls \in Sizes
    BY DEF TInv, TypeOK
  <2> QED
    BY <2>1, Sized
<1>2. Total \in Nat /\ (cyls - n) * (Total \div cyls) \in Nat
  BY <1>1, VolumeFields, Quotient, ProductInNat
<1> DEFINE left == Total - (cyls - n) * (Total \div cyls)
           most == Max({0, left})
           room == Blocks(n)
<1>3. left \in Int /\ left <= Total
  BY <1>2
<1> HIDE DEF left
<1>4. most \in {0, left} /\ most >= 0
  <2>1. 0 \in Int
    OBVIOUS
  <2> QED
    BY <1>3, <2>1, MaxOfTwo, Zenon
<1>5. most \in Nat /\ most <= Total
  <2> HIDE DEF most
  <2> QED
    BY <1>2, <1>3, <1>4
<1>6. ShrunkTotal(n) = Min({most, room})
  BY DEF ShrunkTotal, most, left, room
<1>7. room \in Nat
  BY <1>1
<1> HIDE DEF most, room
<1>8. Min({most, room}) \in {most, room} /\ Min({most, room}) <= most /\ Min({most, room}) <= room
  <2>1. most \in Int /\ room \in Int
    BY <1>5, <1>7
  <2> QED
    BY <2>1, MinOfTwo, Zenon
<1>9. Min({most, room}) \in Nat /\ Min({most, room}) <= Total /\ Min({most, room}) <= room
  BY <1>2, <1>5, <1>7, <1>8
<1> QED
  BY <1>6, <1>9 DEF room

LEMMA BitmapPlan ==
    ASSUME NEW b \in Nat, NEW S \in Bits, NEW mod \in BOOLEAN
    PROVE  /\ Write(b, Bm(S), mod) \in Plans /\ Fits(Write(b, Bm(S), mod))
           /\ Write(b, Bm(S), mod).at = b /\ Write(b, Bm(S), mod).mod = mod
<1>1. Bm(S) \in Good /\ Bm(S) \in Contents
  BY BitsAreGood DEF Good
<1> QED
  BY <1>1 DEF Write, Plans, Fits

\* A resize begins.
LEMMA TypeBegin ==
    ASSUME TInv, pc = "idle", ops < MaxOps, IsRoot(disk, 0),
           NEW kind \in {"grow", "shrink"}, NEW n \in Sizes, NEW new \in Nat, NEW base \in Nat,
           NEW moved \in BOOLEAN, NEW exact \in BOOLEAN, NEW ws \in Seq(Plans),
           \A i \in DOMAIN ws : Fits(ws[i]) /\ ws[i].at # 0,
           1 < base, base + Bmbs(new) < new, Begin(kind, n, new, base, moved, exact, ws)
    PROVE  TInv'
<1> DEFINE end == Write(new - 1, Root(new - 1, new, base, (LastSeq + 1) % SeqNums), FALSE)
           todo == ws \o << end >>
<1>1. /\ Total \in Nat /\ Total >= 2 /\ LastSeq \in 0 .. SeqNums - 1
      /\ disk[0].kind = "root" /\ disk[0].own = 0 /\ disk[0].total = Total
  BY VolumeFields DEF IsRoot, Total
<1>2. Bmbs(new) \in Nat /\ new - 1 \in Nat /\ new - 1 # 0
  BY BitmapSize
<1>3. (LastSeq + 1) % SeqNums \in 0 .. SeqNums - 1
  BY <1>1, Constants
<1>4. end \in Plans /\ Fits(end) /\ end.at = new - 1
  <2> DEFINE r == Root(new - 1, new, base, (LastSeq + 1) % SeqNums)
  <2>1. r \in Contents /\ (new <= LastBlock + 1 => r \in Good)
    BY <1>2, <1>3, RootIsGood
  <2> HIDE DEF r
  <2>2. new - 1 \in Block => new <= LastBlock + 1
    BY Constants DEF Block
  <2> QED
    BY <1>2, <2>1, <2>2 DEF Write, Plans, Fits, r
<1> HIDE DEF end
<1>5. /\ todo \in Seq(Plans) /\ Len(todo) = Len(ws) + 1 /\ Len(ws) \in Nat
      /\ DOMAIN ws = 1 .. Len(ws) /\ DOMAIN todo = 1 .. Len(ws) + 1
      /\ \A i \in 1 .. Len(ws) : todo[i] = ws[i]
      /\ todo[Len(ws) + 1] = end
  <2>1. <<end>> \in Seq(Plans) /\ Len(<<end>>) = 1 /\ <<end>>[1] = end
    BY <1>4
  <2> QED
    BY <2>1, ConcatProperties, LenProperties
<1>6. /\ todo # <<>>
      /\ \A i \in DOMAIN todo : Fits(todo[i]) /\ todo[i].at # 0
      /\ todo[Len(todo)].at = new - 1
  BY <1>2, <1>4, <1>5
<1> HIDE DEF todo
<1>7. /\ op' = [NoOp EXCEPT !.kind = kind, !.new = n, !.total = new, !.old = Total, !.base = base,
                            !.seq = LastSeq, !.moved = moved, !.exact = exact, !.todo = todo]
      /\ pc' = "pre" /\ inhibited' = TRUE /\ before' = disk /\ ops' = ops + 1
      /\ disk' = disk /\ table' = table /\ cyls' = cyls /\ env' = env /\ clean' = clean
      /\ raced' = raced /\ troubles' = troubles /\ allocs' = allocs
  BY DEF Begin, todo, end
<1>8. n \in Nat /\ <<>> \in Seq([at : Block, val : Good])
  BY Sized
<1>9. op' = [kind |-> kind, new |-> n, total |-> new, old |-> Total, base |-> base, seq |-> LastSeq,
             moved |-> moved, exact |-> exact, todo |-> todo, undo |-> <<>>, failed |-> FALSE]
  BY <1>7 DEF NoOp
<1>10. op' \in OpType
  BY <1>1, <1>5, <1>8, <1>9 DEF OpType
<1>11. TypeOK'
  <2>1. TypeOK
    BY DEF TInv
  <2>2. /\ disk' \in [Block -> Contents] /\ {table', cyls', env'} \subseteq Sizes
        /\ {inhibited', clean', raced'} \subseteq BOOLEAN
        /\ troubles' \in 0 .. MaxTroubles /\ allocs' \in 0 .. MaxAllocs
    BY <1>7, <2>1 DEF TypeOK
  <2>3. ops' \in 0 .. MaxOps
    <3>1. ops \in 0 .. MaxOps /\ ops < MaxOps /\ ops' = ops + 1 /\ MaxOps \in Nat
      BY <1>7, <2>1, Constants DEF TypeOK
    <3> QED
      BY <3>1
  <2> QED
    BY <1>7, <1>10, <2>2, <2>3, OpIsTyped, Zenon DEF TypeOK
<1> QED
  BY <1>1, <1>6, <1>7, <1>9, <1>10, <1>11 DEF TInv, Before, After, Placed

\* A write before the start root: it fits, is not to the start root, and spares what
\* is in use or can be put back.
Spares(w) == w.mod \/ w.at >= Total \/ \E j \in 0 .. Old - 1 : w.at \in Free(j)
Safe == {w \in Plans : Fits(w) /\ w.at # 0 /\ Spares(w)}
Beyond == {w \in Safe : w.at >= Total}

LEMMA EditIsSafe ==
    ASSUME TInv, IsRoot(disk, 0), NEW k \in Nat, NEW S \in Bits
    PROVE  Write(Base + k, Bm(S), TRUE) \in Safe
<1>1. Base \in Nat /\ Base > 1
  BY VolumeFields
<1>2. Base + k \in Nat /\ Base + k # 0 /\ TRUE \in BOOLEAN
  BY <1>1
<1>3. /\ Write(Base + k, Bm(S), TRUE) \in Plans /\ Fits(Write(Base + k, Bm(S), TRUE))
      /\ Write(Base + k, Bm(S), TRUE).at = Base + k /\ Write(Base + k, Bm(S), TRUE).mod = TRUE
  BY <1>2, BitmapPlan
<1> QED
  BY <1>2, <1>3 DEF Safe, Spares

LEMMA LastEditIsSafe ==
    ASSUME TInv, IsRoot(disk, 0), NEW new \in Nat
    PROVE  LastEdit(new) \in Safe
<1> DEFINE k == Old - 1
           freed == {b \in Cover(k) : b >= Total - 1 /\ b <= new - 2}
           S == (Free(k) \cup freed) \ {new - 1}
<1>1. k \in Nat /\ k \in 0 .. Old - 1
  BY VolumeFields
<1>2. Free(k) \in Bits /\ Cover(k) \in Bits
  BY <1>1, VolumeFields, Covered
<1> HIDE DEF k
<1>3. freed \in Bits
  BY <1>2, FewerBits
<1> HIDE DEF freed
<1>4. S \in Bits
  BY <1>2, <1>3, FewerBits, MoreBits
<1>5. LastEdit(new) = Write(Base + k, Bm(S), TRUE)
  BY DEF LastEdit, S, freed, k
<1> HIDE DEF S
<1> QED
  BY <1>1, <1>4, <1>5, EditIsSafe

LEMMA NaturalEditIsSafe ==
    ASSUME TInv, IsRoot(disk, 0), NEW new \in Nat, NEW k \in 0 .. Old - 1
    PROVE  NaturalEdit(new, k) \in Safe
<1> DEFINE tail == IF k = Old - 1 THEN {b \in Cover(k) : b >= Total - 1} ELSE {}
           S == (Free(k) \cup tail) \ Positions(new)
<1>1. k \in Nat
  BY VolumeFields
<1>2. Free(k) \in Bits /\ Cover(k) \in Bits
  BY <1>1, VolumeFields, Covered
<1>3. tail \in Bits
  <2>1. tail \subseteq Cover(k)
    OBVIOUS
  <2> HIDE DEF tail
  <2> QED
    BY <1>2, <2>1, FewerBits
<1> HIDE DEF tail
<1>4. S \in Bits
  BY <1>2, <1>3, FewerBits, MoreBits
<1>5. NaturalEdit(new, k) = Write(Base + k, Bm(S), TRUE)
  BY DEF NaturalEdit, S, tail
<1> HIDE DEF S
<1> QED
  BY <1>1, <1>4, <1>5, EditIsSafe

\* The new bitmap blocks of a natural grow lie in free ones.
LEMMA NewBitmapIsSafe ==
    ASSUME TInv, IsRoot(disk, 0), NEW new \in Nat, Natural(new), NEW k \in Old .. Bmbs(new) - 1
    PROVE  NewBitmap(new, k) \in Safe
<1> DEFINE S == {b \in Cover(k) : b < new - 1}
           p == Base + k
<1>1. Base \in Nat /\ Base > 1 /\ Old \in Nat /\ Bmbs(new) \in Nat
  BY VolumeFields, BitmapSize
<1>2. k \in Nat /\ p \in Nat /\ p # 0 /\ p \in Positions(new)
  BY <1>1 DEF Positions
<1>3. S \in Bits
  BY <1>2, Covered, FewerBits
<1>4. NewBitmap(new, k) = Write(p, Bm(S), FALSE)
  BY DEF NewBitmap
<1> HIDE DEF S, p
<1>5. Of(p) < Old /\ p \in Free(Of(p)) /\ Of(p) \in Nat
  BY <1>2, InItsBlock DEF Natural, Reaches
<1>6. Of(p) \in 0 .. Old - 1
  BY <1>1, <1>5
<1>7. /\ Write(p, Bm(S), FALSE) \in Plans /\ Fits(Write(p, Bm(S), FALSE))
      /\ Write(p, Bm(S), FALSE).at = p
  BY <1>2, <1>3, BitmapPlan
<1> QED
  BY <1>2, <1>4, <1>5, <1>6, <1>7 DEF Safe, Spares

\* A bitmap that moves goes behind the old end.
LEMMA MovedBitmapIsSafe ==
    ASSUME TInv, IsRoot(disk, 0), NEW new \in Nat, NEW k \in Nat
    PROVE  MovedBitmap(new, k) \in Beyond
<1> DEFINE used == (Total .. Total + Bmbs(new) - 1) \cup {new - 1}
           was == IF k < Old THEN Free(k) ELSE Cover(k)
           freed == (Base .. Base + Old - 1) \cup {Total - 1} \cup (Total .. new - 1)
           S == {b \in Cover(k) : b < new /\ b \notin used /\ (b \in was \/ b \in freed)}
           p == Total + k
<1>1. Total \in Nat /\ Total >= 2
  BY VolumeFields
<1>2. p \in Nat /\ p # 0 /\ p >= Total
  BY <1>1
<1>3. S \in Bits
  <2>1. S \subseteq Cover(k)
    OBVIOUS
  <2> HIDE DEF S
  <2> QED
    BY <2>1, Covered, FewerBits
<1>4. MovedBitmap(new, k) = Write(p, Bm(S), FALSE)
  BY DEF MovedBitmap
<1> HIDE DEF S, p
<1>5. /\ Write(p, Bm(S), FALSE) \in Plans /\ Fits(Write(p, Bm(S), FALSE))
      /\ Write(p, Bm(S), FALSE).at = p
  BY <1>2, <1>3, BitmapPlan
<1> QED
  BY <1>2, <1>4, <1>5 DEF Safe, Beyond, Spares

LEMMA SealIsSafe ==
    ASSUME TInv, IsRoot(disk, 0), NEW new \in Nat, new > 0, new <= Total
    PROVE  Seal(new) \in Safe /\ Bmbs(new) - 1 \in 0 .. Old - 1
<1> DEFINE k == Bmbs(new) - 1
           S == {b \in Free(k) : b < new - 1}
<1>1. Total \in Nat /\ Old \in Nat
  BY VolumeFields
<1>2. Bmbs(new) \in Nat /\ new <= Bmbs(new) * Bib /\ Bmbs(new) <= Old
  BY <1>1, BitmapSize, MoreBitmap DEF Old
<1>3. Bmbs(new) # 0
  <2>1. Bmbs(new) = 0 => Bmbs(new) * Bib = 0
    BY GeometryAssumption
  <2> QED
    BY <1>2, <2>1
<1>4. k \in Nat /\ k \in 0 .. Old - 1
  BY <1>1, <1>2, <1>3
<1>5. S \in Bits
  <2>1. Free(k) \in Bits /\ S \subseteq Free(k)
    BY <1>4, VolumeFields
  <2> HIDE DEF S, k
  <2> QED
    BY <2>1, FewerBits
<1>6. Seal(new) = Write(Base + k, Bm(S), TRUE)
  BY DEF Seal
<1> HIDE DEF S, k
<1> QED
  BY <1>4, <1>5, <1>6, EditIsSafe DEF k

LEMMA GrowPlan ==
    ASSUME TInv, IsRoot(disk, 0), NEW new \in Nat
    PROVE  /\ GrowWrites(new) \in Seq(Safe)
           /\ Bmbs(new) > Old /\ ~Natural(new) => GrowWrites(new) \in Seq(Beyond)
<1>1. Old \in Nat /\ Old > 0 /\ Bmbs(new) \in Nat
  BY VolumeFields, BitmapSize
<1>2. CASE Bmbs(new) = Old
  BY <1>1, <1>2, LastEditIsSafe DEF GrowWrites
<1>3. CASE Bmbs(new) # Old /\ Natural(new)
  <2> DEFINE S == Needed(new) \ {Old - 1}
             N == Old .. Bmbs(new) - 1
             f == [k \in S |-> NaturalEdit(new, k)]
             g == [k \in N |-> NewBitmap(new, k)]
  <2>1. S \in SUBSET (0 .. Old - 1)
    <3>1. ASSUME NEW p \in Positions(new) PROVE Of(p) \in 0 .. Old - 1
      <4>1. p \in Nat
        BY <1>1, VolumeFields DEF Positions
      <4> QED
        BY <1>1, <1>3, <4>1, InItsBlock DEF Natural, Reaches
    <3> QED
      BY <3>1 DEF Needed
  <2>2. f \in [S -> Safe]
    BY <2>1, NaturalEditIsSafe
  <2>3. g \in [N -> Safe]
    BY <1>3, NewBitmapIsSafe
  <2>4. N \in SUBSET (0 .. Bmbs(new))
    BY <1>1
  <2>5. << NaturalEdit(new, Old - 1) >> \in Seq(Safe)
    <3>1. Old - 1 \in 0 .. Old - 1
      BY <1>1
    <3>2. NaturalEdit(new, Old - 1) \in Safe
      BY <3>1, NaturalEditIsSafe
    <3> QED
      BY <3>2
  <2>6. GrowWrites(new) = << NaturalEdit(new, Old - 1) >> \o WritesOf(f) \o WritesOf(g)
    BY <1>3 DEF GrowWrites, NaturalWrites
  <2>7. Old - 1 \in Nat
    BY <1>1
  <2> HIDE DEF S, N, f, g
  <2>8. WritesOf(f) \in Seq(Safe) /\ WritesOf(g) \in Seq(Safe)
    BY <1>1, <2>1, <2>2, <2>3, <2>4, <2>7, WrittenOf
  <2> QED
    BY <1>3, <2>5, <2>6, <2>8, ConcatProperties
<1>4. CASE Bmbs(new) # Old /\ ~Natural(new)
  <2> DEFINE N == 0 .. Bmbs(new) - 1
             f == [k \in N |-> MovedBitmap(new, k)]
  <2>1. f \in [N -> Beyond]
    BY <1>1, MovedBitmapIsSafe
  <2>2. N \in SUBSET (0 .. Bmbs(new))
    BY <1>1
  <2>3. GrowWrites(new) = WritesOf(f)
    BY <1>4 DEF GrowWrites
  <2> HIDE DEF N, f
  <2>4. WritesOf(f) \in Seq(Beyond)
    BY <1>1, <2>1, <2>2, WrittenOf
  <2>5. Beyond \subseteq Safe
    BY DEF Beyond
  <2> QED
    BY <2>3, <2>4, <2>5, SeqMonotonic
<1> QED
  BY <1>1, <1>2, <1>3, <1>4

LEMMA SafeSequence ==
    ASSUME NEW ws \in Seq(Safe)
    PROVE  ws \in Seq(Plans) /\ \A i \in DOMAIN ws : ws[i] \in Safe
<1>1. Safe \subseteq Plans
  BY DEF Safe
<1> QED
  BY <1>1, SeqMonotonic, Members, Zenon

\* A bitmap that grows where it is ends before the new end.
LEMMA GrownInPlace ==
    ASSUME TInv, IsRoot(disk, 0), NEW new \in Nat, new > Total,
           Bmbs(new) > Old => Natural(new)
    PROVE  Base + Bmbs(new) < new
<1>1. /\ Total \in Nat /\ Base \in Nat /\ Base > 1 /\ Old \in Nat /\ Old > 0 /\ Base + Old < Total
      /\ Bmbs(new) \in Nat /\ Old <= Bmbs(new)
  <2>1. Total \in Nat
    BY VolumeFields
  <2> QED
    BY <2>1, VolumeFields, BitmapSize, MoreBitmap DEF Old
<1>2. CASE Bmbs(new) = Old
  BY <1>1, <1>2
<1>3. CASE Bmbs(new) > Old
  <2> DEFINE p == Base + Bmbs(new) - 1
             q == Of(p)
             top == Old * Bib
  <2>1. p \in Nat /\ p \in Positions(new)
    BY <1>1, <1>3 DEF Positions
  <2>2. q \in Nat /\ q < Old /\ p \in Cover(q)
    BY <1>3, <2>1, InItsBlock DEF Natural, Reaches
  <2>3. Bib \in Nat /\ top \in Nat /\ top < new
    <3>1. Old = Bmbs(Total)
      BY DEF Old
    <3>2. Bmbs(Total) * Bib < new /\ Bmbs(Total) * Bib \in Nat
      BY <1>1, <1>3, <3>1, MoreBitmap, BitmapSize
    <3> QED
      BY <3>1, <3>2, GeometryAssumption
  <2> HIDE DEF q
  <2>4. p < (q + 1) * Bib /\ (q + 1) * Bib \in Nat
    <3>1. q * Bib \in Nat /\ (q + 1) * Bib \in Nat
      BY <2>2, <2>3, ProductInNat
    <3> HIDE DEF p
    <3> QED
      BY <2>1, <2>2, <3>1 DEF Cover
  <2>5. (Old - 1 - q) * Bib \in Nat /\ (Old - 1 - q) * Bib = top - (q + 1) * Bib
    <3>1. Old - 1 - q \in Nat
      BY <1>1, <2>2
    <3>2. (Old - 1 - q) * Bib \in Nat
      BY <2>3, <3>1, ProductInNat
    <3> QED
      BY <1>1, <2>2, <2>3, <3>2
  <2>6. p < top
    <3> HIDE DEF p, top
    <3>1. \A a, b, c \in Nat : a < b /\ c - b \in Nat => a < c
      OBVIOUS
    <3> QED
      BY <2>1, <2>3, <2>4, <2>5, <3>1
  <2> HIDE DEF top
  <2> QED
    BY <1>1, <2>3, <2>6
<1> QED
  BY <1>1, <1>2, <1>3

LEMMA TypeGrow ==
    ASSUME TInv, NEW n \in Sizes, NEW exact \in BOOLEAN, Grow(n, exact) PROVE TInv'
<1> DEFINE new == NewTotal(n, exact)
           moved == Bmbs(new) > Old /\ ~Natural(new)
           base == IF moved THEN Total ELSE Base
<1>1. /\ pc = "idle" /\ ops < MaxOps /\ n > cyls /\ IsRoot(disk, 0)
      /\ new > Total /\ (moved => new - Total > Bmbs(new))
      /\ Begin("grow", n, new, base, moved, exact, GrowWrites(new))
  BY DEF Grow
<1>2. new \in Nat /\ moved \in BOOLEAN
  BY <1>1, NewTotalInNat
<1> HIDE DEF new
<1>3. GrowWrites(new) \in Seq(Plans)
      /\ \A i \in DOMAIN GrowWrites(new) : GrowWrites(new)[i] \in Safe
  BY <1>1, <1>2, GrowPlan, SafeSequence
<1>4. /\ Total \in Nat /\ Total >= 2 /\ Base \in Nat /\ Base > 1 /\ Bmbs(new) \in Nat
  BY <1>1, <1>2, VolumeFields, BitmapSize
<1>5. base \in Nat /\ 1 < base /\ base + Bmbs(new) < new
  <2>1. CASE moved
    BY <1>1, <1>2, <1>4, <2>1
  <2>2. CASE ~moved
    <3>1. Base + Bmbs(new) < new
      BY <1>1, <1>2, <2>2, GrownInPlace
    <3> QED
      BY <1>4, <2>2, <3>1
  <2> QED
    BY <2>1, <2>2
<1> HIDE DEF moved, base
<1> QED
  BY <1>1, <1>2, <1>3, <1>5, TypeBegin DEF Safe

LEMMA TypeShrink == ASSUME TInv, NEW n \in Sizes, Shrink(n) PROVE TInv'
<1> DEFINE new == ShrunkTotal(n)
<1>1. /\ pc = "idle" /\ ops < MaxOps /\ n < cyls /\ IsRoot(disk, 0)
      /\ Gate(new) /\ Begin("shrink", n, new, Base, FALSE, FALSE, << Seal(new) >>)
  BY DEF Shrink
<1>2. new \in Nat /\ new <= Total
  BY <1>1, ShrunkTotalInNat
<1> HIDE DEF new
<1>3. new >= 8 /\ new > Base + Bmbs(new) /\ Base \in Nat /\ Base > 1 /\ Bmbs(new) \in Nat
  BY <1>1, <1>2, VolumeFields, BitmapSize DEF Gate
<1>4. << Seal(new) >> \in Seq(Safe)
  BY <1>1, <1>2, <1>3, SealIsSafe
<1>5. << Seal(new) >> \in Seq(Plans) /\ \A i \in DOMAIN << Seal(new) >> : << Seal(new) >>[i] \in Safe
  BY <1>4, SafeSequence
<1>6. Base + Bmbs(new) < new /\ FALSE \in BOOLEAN /\ "shrink" \in {"grow", "shrink"}
  BY <1>2, <1>3
<1> QED
  BY <1>1, <1>2, <1>3, <1>5, <1>6, TypeBegin DEF Safe

LEMMA TroubleCounts ==
    ASSUME TypeOK, Trouble \/ UNCHANGED troubles PROVE troubles' \in 0 .. MaxTroubles
  BY Constants DEF TypeOK, Trouble

LEMMA TypeNext ==
    ASSUME disk' \in [Block -> Good], op' \in OpType,
           {table', cyls', env'} \subseteq Sizes,
           {inhibited', clean', raced'} \subseteq BOOLEAN,
           pc' \in {"idle", "pre", "post", "verify", "undo", "table"},
           ops' \in 0 .. MaxOps, troubles' \in 0 .. MaxTroubles, allocs' \in 0 .. MaxAllocs
    PROVE  TypeOK'
  BY OpIsTyped, DisksAreGood, Zenon DEF TypeOK

\* A write is reported done, or to have failed; or an error is passed over.
Reported(b, v) ==
    /\ b \in Block
    /\ \/ disk' = [disk EXCEPT ![b] = v] /\ UNCHANGED <<clean, troubles>>
       \/ Trouble /\ UNCHANGED disk /\ clean' = FALSE
Refused(b, v) ==
    \/ b \notin Block /\ UNCHANGED <<disk, clean, troubles>>
    \/ /\ b \in Block /\ Trouble
       /\ \E w \in {disk[b], v, Torn} : disk' = [disk EXCEPT ![b] = w]
       /\ clean' = (clean /\ disk' = disk)
Tried(b, v) ==
    \/ disk' = [disk EXCEPT ![b] = v] /\ UNCHANGED <<clean, troubles>>
    \/ /\ Trouble /\ clean' = FALSE
       /\ \E w \in {disk[b], v, Torn} : disk' = [disk EXCEPT ![b] = w]

LEMMA WriteIsGood ==
    ASSUME TInv, NEW b, NEW v, b \in Block => v \in Good,
           Reported(b, v) \/ Refused(b, v) \/ Tried(b, v)
    PROVE  /\ disk' \in [Block -> Good] /\ clean' \in BOOLEAN /\ (clean' => clean)
           /\ troubles' \in 0 .. MaxTroubles
           /\ \A x \in Block : x # b => disk'[x] = disk[x]
<1>1. disk \in [Block -> Good] /\ TypeOK /\ clean \in BOOLEAN
  BY DEF TInv, TypeOK
<1>2. (\E w \in {disk[b], v, Torn} : disk' = [disk EXCEPT ![b] = w]) \/ disk' = disk
  BY DEF Reported, Refused, Tried
<1>3. disk' \in [Block -> Good] /\ \A x \in Block : x # b => disk'[x] = disk[x]
  <2>1. CASE disk' = disk
    BY <1>1, <2>1
  <2>2. ASSUME NEW w \in {disk[b], v, Torn}, disk' = [disk EXCEPT ![b] = w]
        PROVE  disk' \in [Block -> Good] /\ \A x \in Block : x # b => disk'[x] = disk[x]
    <3>1. disk' \in [Block -> Good]
      BY <1>1, <2>2, OneBlock
    <3> QED
      BY <1>1, <2>2, <3>1
  <2> QED
    BY <1>2, <2>1, <2>2
<1>4. troubles' \in 0 .. MaxTroubles
  BY <1>1, TroubleCounts DEF Reported, Refused, Tried
<1>5. clean' \in BOOLEAN /\ (clean' => clean)
  <2>1. CASE clean' = clean
    BY <1>1, <2>1
  <2>2. CASE clean' = FALSE
    BY <2>2
  <2>3. CASE clean' = (clean /\ disk' = disk)
    BY <1>1, <2>3, Zenon
  <2> QED
    BY <2>1, <2>2, <2>3 DEF Reported, Refused, Tried
<1> QED
  BY <1>3, <1>4, <1>5

LEMMA Listed == ASSUME NEW T PROVE <<>> \in Seq(T) /\ \A x \in T : <<x>> \in Seq(T)
  OBVIOUS

LEMMA OpFields ==
    ASSUME NEW o \in OpType
    PROVE  /\ o.todo \in Seq(Plans) /\ o.undo \in Seq([at : Block, val : Good])
           /\ \A s \in Seq(Plans) : [o EXCEPT !.todo = s] \in OpType
           /\ \A s \in Seq([at : Block, val : Good]) :
                 /\ [o EXCEPT !.undo = s] \in OpType
                 /\ \A t \in Seq(Plans) : [o EXCEPT !.todo = t, !.undo = s] \in OpType
           /\ [o EXCEPT !.failed = TRUE] \in OpType
  BY DEF OpType

LEMMA NoOpIsTyped == NoOp \in OpType /\ NoOp.todo = <<>>
<1>1. <<>> \in Seq(Plans) /\ <<>> \in Seq([at : Block, val : Good])
  OBVIOUS
<1> QED
  BY <1>1, Constants DEF OpType, NoOp

\* A resize that stops.
LEMMA TypeFail ==
    ASSUME TInv, pc # "idle", disk' \in [Block -> Good], clean' \in BOOLEAN,
           troubles' \in 0 .. MaxTroubles, Fail
    PROVE  TInv'
<1>1. /\ pc' = "undo" /\ op' = [op EXCEPT !.failed = TRUE] /\ inhibited' \in BOOLEAN
      /\ table' = table /\ cyls' = cyls /\ env' = env /\ before' = before /\ raced' = raced
      /\ ops' = ops /\ allocs' = allocs
  BY DEF Fail, Rest, counts
<1>2. op \in OpType /\ TypeOK
  BY DEF TInv
<1>3. op' \in OpType /\ op'.todo = op.todo /\ op'.new = op.new
  BY <1>1, <1>2, OpFields DEF OpType
<1>4. TypeOK'
  <2>1. /\ {table', cyls', env'} \subseteq Sizes /\ {inhibited', clean', raced'} \subseteq BOOLEAN
        /\ ops' \in 0 .. MaxOps /\ allocs' \in 0 .. MaxAllocs
    BY <1>1, <1>2 DEF TypeOK
  <2> QED
    BY <1>1, <1>3, <2>1, TypeNext
<1> QED
  BY <1>1, <1>3, <1>4 DEF TInv, Before, After, Fits

LEMMA TypePreWrite == ASSUME TInv, PreWrite PROVE TInv'
<1> DEFINE w == Head(op.todo)
           done == /\ op' = [op EXCEPT !.todo = Tail(@), !.undo = Saved(w) \o @]
                   /\ UNCHANGED <<pc, inhibited>> /\ Rest
<1>1. /\ pc = "pre" /\ op.todo # <<>>
      /\ (Refused(w.at, w.val) /\ Fail) \/ (Reported(w.at, w.val) /\ done)
  BY DEF PreWrite, Put, Refused, Reported
<1>2. /\ op \in OpType /\ op.todo \in Seq(Plans) /\ op.undo \in Seq([at : Block, val : Good])
      /\ TypeOK /\ before \in [Block -> Good] /\ disk \in [Block -> Good]
      /\ \A i \in DOMAIN op.todo : Fits(op.todo[i]) /\ op.todo[i].at # 0
  BY <1>1, OpFields DEF TInv, Before
<1>3. /\ w \in Plans /\ Fits(w) /\ w.at # 0 /\ w = op.todo[1]
      /\ Tail(op.todo) \in Seq(Plans) /\ Len(op.todo) \in Nat /\ Len(op.todo) > 0
      /\ Len(Tail(op.todo)) = Len(op.todo) - 1
      /\ DOMAIN op.todo = 1 .. Len(op.todo) /\ DOMAIN Tail(op.todo) = 1 .. Len(op.todo) - 1
      /\ \A i \in 1 .. Len(op.todo) - 1 : Tail(op.todo)[i] = op.todo[i + 1]
  <2>1. /\ w \in Plans /\ Tail(op.todo) \in Seq(Plans) /\ Len(Tail(op.todo)) = Len(op.todo) - 1
        /\ \A i \in 1 .. Len(Tail(op.todo)) : Tail(op.todo)[i] = op.todo[i + 1]
        /\ Len(op.todo) \in Nat /\ Len(op.todo) > 0 /\ DOMAIN op.todo = 1 .. Len(op.todo)
        /\ DOMAIN Tail(op.todo) = 1 .. Len(Tail(op.todo))
    BY <1>1, <1>2, HeadTailProperties, LenProperties, EmptySeq
  <2>2. w = op.todo[1] /\ 1 \in DOMAIN op.todo
    BY <1>1, <1>2, <2>1
  <2> QED
    BY <1>2, <2>1, <2>2
<1> HIDE DEF w, done
<1>4. /\ disk' \in [Block -> Good] /\ clean' \in BOOLEAN /\ troubles' \in 0 .. MaxTroubles
      /\ \A x \in Block : x # w.at => disk'[x] = disk[x]
      /\ Fail \/ (w.at \in Block /\ done)
  <2>1. w.at \in Block => w.val \in Good
    BY <1>3 DEF Fits
  <2>2. Fail \/ (w.at \in Block /\ done)
    BY <1>1 DEF Reported
  <2> QED
    BY <1>1, <2>1, <2>2, WriteIsGood
<1>5. CASE Fail
  BY <1>1, <1>4, <1>5, TypeFail
<1>6. CASE w.at \in Block /\ done
  <2>1. /\ op' = [op EXCEPT !.todo = Tail(op.todo), !.undo = Saved(w) \o op.undo]
        /\ pc' = "pre" /\ inhibited' = inhibited
        /\ table' = table /\ cyls' = cyls /\ env' = env /\ before' = before /\ raced' = raced
        /\ ops' = ops /\ allocs' = allocs
    BY <1>1, <1>2, <1>6 DEF done, Rest, counts, OpType
  <2>2. Saved(w) \o op.undo \in Seq([at : Block, val : Good])
    <3>1. [at |-> w.at, val |-> before[w.at]] \in [at : Block, val : Good]
      BY <1>2, <1>6
    <3>2. Saved(w) \in Seq([at : Block, val : Good])
      BY <3>1, Listed DEF Saved
    <3> QED
      BY <1>2, <3>2, ConcatProperties
  <2>3. op' \in OpType
    BY <1>2, <1>3, <2>1, <2>2, OpFields
  <2>4. /\ op'.todo = Tail(op.todo) /\ op'.new = op.new /\ op'.kind = op.kind /\ op'.old = op.old
        /\ op'.base = op.base /\ op'.total = op.total
    BY <1>2, <2>1 DEF OpType
  <2>5. TypeOK'
    <3>1. /\ {table', cyls', env'} \subseteq Sizes
          /\ {inhibited', clean', raced'} \subseteq BOOLEAN
          /\ ops' \in 0 .. MaxOps /\ allocs' \in 0 .. MaxAllocs
      BY <1>2, <1>4, <2>1 DEF TypeOK
    <3> QED
      BY <1>4, <2>1, <2>3, <3>1, TypeNext
  <2>6. disk'[0] = disk[0]
    BY <1>3, <1>4, Constants
  <2>7. \A i \in DOMAIN Tail(op.todo) : Fits(Tail(op.todo)[i]) /\ Tail(op.todo)[i].at # 0
    BY <1>2, <1>3
  <2>8. Tail(op.todo) # <<>> => Tail(op.todo)[Len(Tail(op.todo))].at = op.total - 1
    <3>1. Tail(op.todo) # <<>> => Len(op.todo) - 1 \in 1 .. Len(op.todo) - 1
      BY <1>3, EmptySeq
    <3> QED
      BY <1>1, <1>3, <3>1 DEF TInv, Before
  <2>9. Tail(op.todo) = <<>> => op.total - 1 \in Block
    <3>1. Tail(op.todo) = <<>> => Len(op.todo) = 1
      <4>1. Len(<<>>) = 0
        OBVIOUS
      <4>2. Tail(op.todo) = <<>> => Len(Tail(op.todo)) = 0
        BY <4>1, Zenon
      <4> QED
        BY <1>3, <4>2
    <3> QED
      BY <1>1, <1>3, <1>6, <3>1 DEF TInv, Before
  <2>10. Before'
    BY <1>1, <2>1, <2>4, <2>6, <2>7, <2>8, <2>9 DEF TInv, Before, Placed
  <2>11. After' /\ inhibited' /\ op'.new \in Sizes
    BY <1>1, <2>1, <2>4 DEF TInv, After
  <2>12. (\A i \in DOMAIN op.todo : Fits(op.todo[i]))'
    BY <2>4, <2>7 DEF Fits
  <2> QED
    BY <1>2, <1>4, <2>1, <2>3, <2>5, <2>10, <2>11, <2>12 DEF TInv
<1> QED
  BY <1>4, <1>5, <1>6

\* What follows the start root puts bitmap blocks and blank ones.
Harmless == {w \in Plans : w.val \in Good}

LEMMA HarmlessWrite ==
    ASSUME NEW b \in Nat, NEW v \in Good PROVE Write(b, v, FALSE) \in Harmless
  BY DEF Harmless, Plans, Write, Good

LEMMA PostPlan ==
    ASSUME TInv, pc = "pre" PROVE PostWrites \in Seq(Harmless)
<1>1. /\ IsRoot(disk, 0) /\ disk[0] = before[0] /\ op.old = Total /\ before[0].base = Base
      /\ op.base \in Nat /\ op.total \in Nat /\ op.old \in Nat /\ op.old >= 2
      /\ Bmbs(op.total) \in Nat
  <2>1. op.base \in Nat /\ op.total \in Nat /\ op.old \in Nat
    BY DEF TInv, OpType
  <2> QED
    BY <2>1, BitmapSize DEF TInv, Before, IsRoot, Total, Base
<1>2. /\ Base \in Nat /\ Base > 1 /\ Old = Bmbs(op.old) /\ Old \in Nat /\ Base + Old < op.old
      /\ \A k \in 0 .. Old - 1 : Free(k) \in Bits
  BY <1>1, VolumeFields DEF Old
<1>3. Freed(op.total) \in Seq(Harmless)
  <2> DEFINE gone == before[0].base + Bmbs(op.total) .. before[0].base + Bmbs(op.old) - 1
             S == {Of(b) : b \in gone}
             f == [k \in S |-> Write(op.base + k, Bm(Free(k) \cup (gone \cap Cover(k))), FALSE)]
  <2>1. \A b \in gone : b \in Nat /\ b < op.old
    BY <1>1, <1>2
  <2>2. S \in SUBSET (0 .. Old - 1)
    BY <1>1, <1>2, <2>1, InTheBitmap
  <2>3. ASSUME NEW k \in S
        PROVE  Write(op.base + k, Bm(Free(k) \cup (gone \cap Cover(k))), FALSE) \in Harmless
    <3>1. k \in 0 .. Old - 1 /\ k \in Nat
      BY <2>2
    <3> HIDE DEF gone
    <3>2. gone \cap Cover(k) \in Bits
      <4>1. Cover(k) \in Bits /\ gone \cap Cover(k) \subseteq Cover(k)
        BY <3>1, Covered
      <4> QED
        BY <4>1, FewerBits
    <3>3. Free(k) \cup (gone \cap Cover(k)) \in Bits
      BY <1>2, <3>1, <3>2, MoreBits
    <3>4. Bm(Free(k) \cup (gone \cap Cover(k))) \in Good /\ op.base + k \in Nat
      BY <1>1, <3>1, <3>3, BitsAreGood
    <3> QED
      BY <3>4, HarmlessWrite
  <2>4. f \in [S -> Harmless]
    <3> HIDE DEF S, gone
    <3> QED
      BY <2>3
  <2>5. Freed(op.total) = WritesOf(f)
    BY DEF Freed
  <2>6. Old - 1 \in Nat
    BY <1>1, VolumeFields
  <2> HIDE DEF f, S, gone
  <2> QED
    BY <2>2, <2>4, <2>5, <2>6, WrittenOf
<1>4. Wipes \in Seq(Harmless)
  <2>1. op.old - 1 \in Nat /\ Older \in Int /\ (before[0].base > 0 => Older \in Nat)
    BY <1>1, <1>2 DEF Older
  <2>2. << Write(op.old - 1, Blank, FALSE) >> \in Seq(Harmless)
    BY <2>1, HarmlessWrite, PlainAreGood, Listed
  <2>3. ASSUME before[0].base > 0 PROVE << Write(Older, Blank, FALSE) >> \in Seq(Harmless)
    <3>1. Older \in Nat
      BY <2>1, <2>3
    <3>2. Write(Older, Blank, FALSE) \in Harmless
      BY <3>1, HarmlessWrite, PlainAreGood
    <3> QED
      BY <3>2, Listed
  <2>4. (IF /\ before[0].base > 0 /\ Older # op.old - 1
            /\ op.kind = "shrink" => Older # op.total - 1
            /\ IsRoot(disk, Older)
         THEN << Write(Older, Blank, FALSE) >> ELSE <<>>) \in Seq(Harmless)
    BY <2>3, Listed
  <2> QED
    BY <2>2, <2>4, ConcatProperties DEF Wipes
<1>5. (IF op.kind = "shrink" THEN Freed(op.total) ELSE <<>>) \in Seq(Harmless)
  BY <1>3, Listed
<1> QED
  BY <1>4, <1>5, ConcatProperties DEF PostWrites

LEMMA HarmlessSequence ==
    ASSUME NEW ws \in Seq(Harmless)
    PROVE  ws \in Seq(Plans) /\ \A i \in DOMAIN ws : Fits(ws[i])
<1>1. Harmless \subseteq Plans /\ \A w \in Harmless : Fits(w)
  BY DEF Harmless, Fits
<1> QED
  BY <1>1, SeqMonotonic, Members, Zenon

\* A write is done, and the resize goes on with others.
LEMMA TypeEnter ==
    ASSUME TInv, disk' \in [Block -> Good], clean' \in BOOLEAN,
           troubles' \in 0 .. MaxTroubles,
           NEW state \in {"post", "verify", "table"}, NEW ws \in Seq(Plans),
           \A i \in DOMAIN ws : Fits(ws[i]),
           pc # "idle", state # "table" => inhibited,
           state = "post" => Placed /\ op.total - 1 \in Block, Enter(state, ws)
    PROVE  TInv'
<1>1. /\ pc' = state /\ op' = [op EXCEPT !.todo = ws] /\ inhibited' = inhibited
      /\ table' = table /\ cyls' = cyls /\ env' = env /\ before' = before /\ raced' = raced
      /\ ops' = ops /\ allocs' = allocs
  BY DEF Enter, Rest, counts
<1>2. op \in OpType /\ TypeOK
  BY DEF TInv
<1>3. /\ op' \in OpType /\ op'.todo = ws /\ op'.new = op.new /\ op'.base = op.base
      /\ op'.total = op.total
  <2>1. op' \in OpType
    BY <1>1, <1>2, OpFields
  <2> QED
    BY <1>1, <1>2, <2>1 DEF OpType
<1>4. TypeOK'
  <2>1. /\ {table', cyls', env'} \subseteq Sizes /\ {inhibited', clean', raced'} \subseteq BOOLEAN
        /\ ops' \in 0 .. MaxOps /\ allocs' \in 0 .. MaxAllocs
    BY <1>1, <1>2 DEF TypeOK
  <2> QED
    BY <1>1, <1>3, <2>1, TypeNext
<1>5. (\A i \in DOMAIN op.todo : Fits(op.todo[i]))'
  BY <1>3 DEF Fits
<1> QED
  BY <1>1, <1>3, <1>4, <1>5 DEF TInv, Before, After, Placed

LEMMA TypeReadFault == ASSUME TInv, ReadFault PROVE TInv'
<1>1. pc = "pre" /\ Trouble /\ Fail /\ disk' = disk /\ clean' = clean
  BY DEF ReadFault
<1>2. disk' \in [Block -> Good] /\ clean' \in BOOLEAN /\ troubles' \in 0 .. MaxTroubles
  BY <1>1, TroubleCounts DEF TInv, TypeOK
<1> QED
  BY <1>1, <1>2, TypeFail

LEMMA TypeCommit == ASSUME TInv, Commit PROVE TInv'
<1> DEFINE r == Root(0, op.total, op.base, (op.seq + 2) % SeqNums)
<1>1. /\ pc = "pre" /\ op.todo = <<>>
      /\ (Refused(0, r) /\ Fail) \/ (Reported(0, r) /\ Enter("post", PostWrites))
  BY DEF Commit, Put, Refused, Reported
<1>2. Placed /\ op.total - 1 \in Block /\ inhibited
  BY <1>1 DEF TInv, Before
<1>3. r \in Good
  <2>1. op.total \in Nat /\ op.base \in Nat /\ op.seq \in 0 .. SeqNums - 1
    BY DEF TInv, OpType
  <2>2. (op.seq + 2) % SeqNums \in 0 .. SeqNums - 1 /\ op.total <= LastBlock + 1
    BY <1>2, <2>1, Constants DEF Block
  <2> QED
    BY <1>2, <2>1, <2>2, RootIsGood DEF Placed
<1> HIDE DEF r
<1>4. disk' \in [Block -> Good] /\ clean' \in BOOLEAN /\ troubles' \in 0 .. MaxTroubles
  BY <1>1, <1>3, WriteIsGood
<1>5. PostWrites \in Seq(Plans) /\ \A i \in DOMAIN PostWrites : Fits(PostWrites[i])
  BY <1>1, PostPlan, HarmlessSequence
<1> QED
  BY <1>1, <1>2, <1>4, <1>5, TypeFail, TypeEnter

LEMMA TypePostWrite == ASSUME TInv, PostWrite PROVE TInv'
<1> DEFINE w == Head(op.todo)
<1>1. pc = "post" /\ op.todo # <<>> /\ Tried(w.at, w.val) /\ Enter("post", Tail(op.todo))
  BY DEF PostWrite, Try, Tried
<1>2. /\ Tail(op.todo) \in Seq(Plans) /\ Len(op.todo) \in Nat
      /\ Len(Tail(op.todo)) = Len(op.todo) - 1 /\ DOMAIN op.todo = 1 .. Len(op.todo)
      /\ DOMAIN Tail(op.todo) = 1 .. Len(op.todo) - 1 /\ Len(op.todo) > 0 /\ w = op.todo[1]
      /\ \A i \in 1 .. Len(op.todo) - 1 : Tail(op.todo)[i] = op.todo[i + 1]
  <2>1. op.todo \in Seq(Plans)
    BY DEF TInv, OpType
  <2> QED
    BY <1>1, <2>1, HeadTailProperties, LenProperties, EmptySeq
<1>3. \A i \in DOMAIN op.todo : Fits(op.todo[i])
  BY DEF TInv
<1>4. (\A i \in DOMAIN Tail(op.todo) : Fits(Tail(op.todo)[i])) /\ Fits(w)
  BY <1>2, <1>3
<1> HIDE DEF w
<1>5. disk' \in [Block -> Good] /\ clean' \in BOOLEAN /\ troubles' \in 0 .. MaxTroubles
  BY <1>1, <1>4, WriteIsGood DEF Fits
<1>6. Placed /\ op.total - 1 \in Block /\ inhibited
  BY <1>1 DEF TInv, After
<1> QED
  BY <1>1, <1>2, <1>4, <1>5, <1>6, TypeEnter

LEMMA CountedIsGood == ASSUME TInv, pc = "post" PROVE Counted \in Good
<1> DEFINE K == 0 .. Bmbs(op.total) - 1
           F == {FreeIn(disk[op.base + k]) : k \in K}
<1>1. op.total \in Nat /\ op.base \in Nat /\ disk \in [Block -> Good]
  BY DEF TInv, OpType
<1>2. Bmbs(op.total) \in Nat /\ op.base + Bmbs(op.total) < op.total /\ op.total - 1 \in Block
  BY <1>1, BitmapSize DEF TInv, After, Placed
<1>3. \A k \in K : op.base + k \in Block
  BY <1>1, <1>2, Constants DEF Block
<1>4. \A k \in K : FreeIn(disk[op.base + k]) \in Bits
  BY <1>1, <1>3, FreeIsBits
<1>5. IsFiniteSet(K)
  <2>1. 0 \in Int /\ Bmbs(op.total) - 1 \in Int
    BY <1>2
  <2> QED
    BY <2>1, FS_Interval, Zenon
<1> HIDE DEF K
<1>6. IsFiniteSet(F)
  <2> DEFINE f == [k \in K |-> FreeIn(disk[op.base + k])]
  <2>1. f \in Surjection(K, F)
    BY DEF Surjection
  <2> QED
    BY <1>5, <2>1, FS_Surjection, Zenon
<1>7. \A T \in F : IsFiniteSet(T)
  BY <1>4 DEF Bits
<1>8. Counted = Objc(Cardinality(UNION F))
  BY DEF Counted, K
<1> HIDE DEF F
<1>9. Cardinality(UNION F) \in Nat
  BY <1>6, <1>7, FS_UNION, FS_CardinalityType
<1> QED
  BY <1>8, <1>9, PlainAreGood

LEMMA TypeCount == ASSUME TInv, Count \/ CountFault PROVE TInv'
<1> DEFINE state == IF op.kind = "shrink" THEN "verify" ELSE "table"
<1>1. /\ pc = "post" /\ Enter(state, <<>>)
      /\ \/ Tried(RootObj, Counted)
         \/ Trouble /\ clean' = FALSE /\ disk' = disk
         \/ UNCHANGED <<disk, clean, troubles>>
  BY DEF Count, CountFault, Try, Tried
<1>2. state \in {"post", "verify", "table"} /\ state # "post"
  OBVIOUS
<1> HIDE DEF state
<1>3. disk' \in [Block -> Good] /\ clean' \in BOOLEAN /\ troubles' \in 0 .. MaxTroubles
  <2>1. Counted \in Good
    BY <1>1, CountedIsGood
  <2>2. TypeOK /\ disk \in [Block -> Good] /\ clean \in BOOLEAN
    BY DEF TInv, TypeOK
  <2>3. CASE Tried(RootObj, Counted)
    BY <2>1, <2>3, WriteIsGood
  <2>4. CASE Trouble /\ clean' = FALSE /\ disk' = disk
    BY <2>2, <2>4, TroubleCounts
  <2>5. CASE UNCHANGED <<disk, clean, troubles>>
    BY <2>2, <2>5, TroubleCounts
  <2> QED
    BY <1>1, <2>3, <2>4, <2>5
<1>4. inhibited
  BY <1>1 DEF TInv
<1>5. <<>> \in Seq(Plans) /\ \A i \in DOMAIN <<>> : Fits(<<>>[i])
  OBVIOUS
<1> QED
  BY <1>1, <1>2, <1>3, <1>4, <1>5, TypeEnter

\* A resize is over, or the machine starts again.
LEMMA TypeEnd ==
    ASSUME TInv, disk' = disk, before' \in [Block -> Good],
           {table', cyls', env'} \subseteq Sizes, {inhibited', clean', raced'} \subseteq BOOLEAN,
           troubles' \in 0 .. MaxTroubles, UNCHANGED counts,
           pc' \in {"idle", "table"}, op' = NoOp \/ UNCHANGED op, pc' # "idle" => UNCHANGED op /\ pc # "idle"
    PROVE  TInv'
<1>1. TypeOK /\ op \in OpType /\ disk' \in [Block -> Good]
  BY DEF TInv
<1>2. op' \in OpType
  BY <1>1, NoOpIsTyped
<1>3. (\A i \in DOMAIN op.todo : Fits(op.todo[i]))'
  BY NoOpIsTyped DEF TInv, Fits
<1>4. TypeOK'
  <2>1. ops' \in 0 .. MaxOps /\ allocs' \in 0 .. MaxAllocs
    BY <1>1 DEF TypeOK, counts
  <2> QED
    BY <1>1, <1>2, <2>1, TypeNext
<1>5. pc' # "idle" => op'.new \in Sizes
  BY DEF TInv
<1> QED
  BY <1>1, <1>2, <1>3, <1>4, <1>5 DEF TInv, Before, After

LEMMA TypeEnds ==
    ASSUME TInv, Verify \/ Undone \/ TableWrite \/ TableFault \/ Reboot PROVE TInv'
<1>1. /\ TypeOK /\ before \in [Block -> Good] /\ disk \in [Block -> Good]
      /\ {table, cyls, env} \subseteq Sizes /\ {inhibited, clean, raced} \subseteq BOOLEAN
      /\ pc # "idle" => op.new \in Sizes
  BY DEF TInv, TypeOK
<1>2. CASE Verify
  BY <1>1, <1>2, TypeEnd, TroubleCounts DEF Verify, Rest
<1>3. CASE Undone
  BY <1>1, <1>3, TypeEnd, TroubleCounts DEF Undone, Rest
<1>4. CASE TableWrite
  BY <1>1, <1>4, TypeEnd, TroubleCounts DEF TableWrite, handler
<1>5. CASE TableFault
  BY <1>1, <1>5, TypeEnd, TroubleCounts DEF TableFault, handler
<1>6. CASE Reboot
  <2>1. clean' \in BOOLEAN /\ disk' = disk /\ before' = disk /\ table' = table
        /\ env' = table /\ cyls' = table /\ inhibited' = FALSE /\ raced' = raced
        /\ pc' = "idle" /\ op' = NoOp /\ UNCHANGED counts
    BY <1>1, <1>6 DEF Reboot
  <2>2. troubles' \in 0 .. MaxTroubles
    BY <1>1, <1>6, TroubleCounts DEF Reboot
  <2> QED
    BY <1>1, <2>1, <2>2, TypeEnd
<1> QED
  BY <1>2, <1>3, <1>4, <1>5, <1>6

LEMMA TypeUndo == ASSUME TInv, Undo PROVE TInv'
<1> DEFINE w == Head(op.undo)
<1>1. /\ pc = "undo" /\ op.undo # <<>> /\ Tried(w.at, w.val)
      /\ op' = [op EXCEPT !.undo = Tail(op.undo)] /\ pc' = pc /\ inhibited' = inhibited
      /\ table' = table /\ cyls' = cyls /\ env' = env /\ before' = before /\ raced' = raced
      /\ ops' = ops /\ allocs' = allocs
  <2>1. op \in OpType
    BY DEF TInv
  <2> QED
    BY <2>1 DEF Undo, Try, Tried, Rest, counts, OpType
<1>2. op \in OpType /\ TypeOK /\ op.undo \in Seq([at : Block, val : Good])
  BY OpFields DEF TInv
<1>3. w \in [at : Block, val : Good] /\ Tail(op.undo) \in Seq([at : Block, val : Good])
  BY <1>1, <1>2, HeadTailProperties
<1> HIDE DEF w
<1>4. disk' \in [Block -> Good] /\ clean' \in BOOLEAN /\ troubles' \in 0 .. MaxTroubles
  BY <1>1, <1>3, WriteIsGood
<1>5. op' \in OpType /\ op'.todo = op.todo /\ op'.new = op.new
  <2>1. op' \in OpType
    BY <1>1, <1>2, <1>3, OpFields
  <2> QED
    BY <1>1, <1>2, <2>1 DEF OpType
<1>6. TypeOK'
  <2>1. /\ {table', cyls', env'} \subseteq Sizes /\ {inhibited', clean', raced'} \subseteq BOOLEAN
        /\ ops' \in 0 .. MaxOps /\ allocs' \in 0 .. MaxAllocs
    BY <1>1, <1>2, <1>4 DEF TypeOK
  <2> QED
    BY <1>1, <1>4, <1>5, <2>1, TypeNext
<1>7. (\A i \in DOMAIN op.todo : Fits(op.todo[i]))'
  BY <1>5 DEF TInv, Fits
<1> QED
  BY <1>1, <1>4, <1>5, <1>6, <1>7 DEF TInv, Before, After

\* The root that a volume mounts by is one, and its bitmap lies in the volume.
LEMMA Mounted ==
    ASSUME NEW d \in [Block -> Good], NEW t \in Nat, t > 0, t <= LastBlock + 1, Roots(d, t) # {}
    PROVE  /\ MountRoot(d, t) \in Roots(d, t)
           /\ \A r \in Roots(d, t) :
                 /\ r \in Block /\ d[r].total = t /\ d[r].kind = "root"
                 /\ d[r].base \in Nat /\ d[r].base > 1 /\ d[r].base + Bmbs(t) < t
                 /\ \A k \in 0 .. Bmbs(t) - 1 : d[r].base + k \in Block \ {0}
<1>1. MountRoot(d, t) \in Roots(d, t)
  BY DEF MountRoot, Roots
<1>2. ASSUME NEW r \in Roots(d, t)
      PROVE  /\ r \in Block /\ d[r].total = t /\ d[r].kind = "root"
             /\ d[r].base \in Nat /\ d[r].base > 1 /\ d[r].base + Bmbs(t) < t
             /\ \A k \in 0 .. Bmbs(t) - 1 : d[r].base + k \in Block \ {0}
  <2>1. r \in Block /\ d[r].total = t /\ d[r].kind = "root"
    BY Constants DEF Roots, IsRoot, Block
  <2>2. d[r].base \in Nat /\ d[r].base > 1 /\ d[r].base + Bmbs(t) < t
    BY <2>1, RootFields
  <2>3. Bmbs(t) \in Nat
    BY BitmapSize
  <2> QED
    BY <2>1, <2>2, <2>3, Constants DEF Block
<1> QED
  BY <1>1, <1>2

LEMMA TypeAlloc == ASSUME TInv, Alloc PROVE TInv'
<1> DEFINE t == Blocks(env)
           base == disk[MountRoot(disk, t)].base
           mine == {b \in FreeAt(disk, t) : b < t}
           b == Min(mine)
           used == IF disk[RootObj].kind = "objc" /\ disk[RootObj].count > 0
                   THEN Objc(disk[RootObj].count - 1) ELSE disk[RootObj]
           left == Bm(FreeIn(disk[base + Of(b)]) \ {b})
<1>1. /\ ~inhibited /\ allocs < MaxAllocs /\ Roots(disk, t) # {} /\ mine # {}
      /\ allocs' = allocs + 1 /\ raced' = (raced \/ pc = "undo")
      /\ before' = IF pc = "idle" THEN disk' ELSE before
      /\ UNCHANGED <<table, cyls, handler, pc, op, clean, troubles, ops>>
  BY DEF Alloc
<1>2. /\ TypeOK /\ disk \in [Block -> Good] /\ before \in [Block -> Good] /\ op \in OpType
      /\ t \in Nat /\ t <= LastBlock + 1
  BY Sized DEF TInv, TypeOK
<1>3. /\ FreeAt(disk, t) = UNION {FreeIn(disk[base + k]) : k \in 0 .. Bmbs(t) - 1}
  BY DEF FreeAt, BitsFrom
<1>4. t > 0
  <2>1. PICK k \in 0 .. Bmbs(t) - 1 : TRUE
    BY <1>1, <1>3
  <2>2. Bmbs(t) \in Nat /\ Bmbs(t) > 0 /\ Bmbs(t) * Bib < t + Bib
    BY <1>2, <2>1, BitmapSize
  <2>3. Bmbs(t) * Bib = Bib + (Bmbs(t) - 1) * Bib /\ (Bmbs(t) - 1) * Bib \in Nat /\ Bib \in Nat
    <3>1. Bib \in Nat /\ Bmbs(t) - 1 \in Nat
      BY <2>2, GeometryAssumption
    <3> QED
      BY <2>2, <3>1, ProductInNat
  <2> HIDE DEF t
  <2> QED
    BY <1>2, <2>2, <2>3
<1>5. /\ base \in Nat /\ base > 0 /\ base + Bmbs(t) < t
      /\ \A k \in 0 .. Bmbs(t) - 1 : base + k \in Block \ {0}
  BY <1>1, <1>2, <1>4, Mounted
<1>6. disk' = [disk EXCEPT ![b] = Data, ![RootObj] = used, ![base + Of(b)] = left]
  BY DEF Alloc
<1>7. mine \in SUBSET Nat
  <2>1. \A k \in 0 .. Bmbs(t) - 1 : FreeIn(disk[base + k]) \in Bits
    BY <1>2, <1>5, FreeIsBits
  <2> HIDE DEF t, base
  <2> QED
    BY <1>3, <2>1 DEF Bits
<1>8. b \in mine /\ b \in Nat
  <2> HIDE DEF mine
  <2> QED
    BY <1>1, <1>7, LeastOf
<1>9. b < t /\ Of(b) \in 0 .. Bmbs(t) - 1
  BY <1>2, <1>8, InTheBitmap
<1> HIDE DEF mine, b
<1>10. left \in Good
  <2>1. base + Of(b) \in Block
    BY <1>5, <1>9
  <2>2. FreeIn(disk[base + Of(b)]) \ {b} \in Bits
    BY <1>2, <2>1, FreeIsBits, FewerBits
  <2> QED
    BY <2>2, BitsAreGood
<1>11. used \in Good
  <2>1. disk[RootObj] \in Good
    BY <1>2, Constants
  <2>2. disk[RootObj].kind = "objc" => disk[RootObj].count \in Nat
    BY <2>1 DEF Good, Contents, Data, Blank, Torn
  <2> QED
    BY <2>1, <2>2, PlainAreGood
<1> HIDE DEF t, base, left, used
<1>12. disk' \in [Block -> Good]
  BY <1>2, <1>6, <1>10, <1>11, PlainAreGood
<1>13. /\ table' = table /\ cyls' = cyls /\ env' = env /\ inhibited' = inhibited /\ pc' = pc
       /\ op' = op /\ clean' = clean /\ troubles' = troubles /\ ops' = ops
       /\ allocs' \in 0 .. MaxAllocs /\ raced' \in BOOLEAN /\ before' \in [Block -> Good]
  BY <1>1, <1>2, <1>12, Constants DEF handler, TypeOK
<1>14. TypeOK'
  <2>1. /\ {table, cyls, env} \subseteq Sizes /\ {inhibited, clean} \subseteq BOOLEAN
        /\ ops \in 0 .. MaxOps /\ troubles \in 0 .. MaxTroubles
        /\ pc \in {"idle", "pre", "post", "verify", "undo", "table"}
    BY <1>2 DEF TypeOK
  <2> QED
    BY <1>2, <1>12, <1>13, <2>1, TypeNext
<1>15. pc \notin {"pre", "post", "verify"}
  BY <1>1 DEF TInv
<1>16. (\A i \in DOMAIN op.todo : Fits(op.todo[i]))'
  BY <1>13 DEF TInv, Fits
<1> QED
  BY <1>2, <1>12, <1>13, <1>14, <1>15, <1>16 DEF TInv, Before, After

LEMMA TypeStep == TInv /\ [Next]_vars => TInv'
<1> SUFFICES ASSUME TInv, [Next]_vars PROVE TInv'
  OBVIOUS
<1>1. CASE UNCHANGED vars
  <2>1. /\ disk' = disk /\ table' = table /\ cyls' = cyls /\ env' = env
        /\ inhibited' = inhibited /\ pc' = pc /\ op' = op /\ before' = before
        /\ clean' = clean /\ raced' = raced /\ troubles' = troubles /\ ops' = ops
        /\ allocs' = allocs
    BY <1>1 DEF vars, handler, counts
  <2> QED
    BY <2>1 DEF TInv, TypeOK, Before, After, Placed, Fits
<1>2. CASE Next
  BY <1>2, TypeGrow, TypeShrink, TypePreWrite, TypeCommit, TypePostWrite, TypeCount,
     TypeEnds, TypeUndo, TypeReadFault, TypeAlloc, Zenon DEF Next, Advance, Faults
<1> QED
  BY <1>1, <1>2

(***************************************************************************)
(* Type correctness, for any geometry and any volumes: what a resize of    *)
(* sfsresize.c writes are roots that state a volume and a bitmap inside it, *)
(* bitmap blocks with bits that exist, and counts; what it notes to put    *)
(* back are blocks it has read.                                             *)
(***************************************************************************)
THEOREM TypeCorrect == Spec => []TypeOK
<1>1. TInv => TypeOK
  BY DEF TInv
<1> QED
  BY <1>1, TypeInit, TypeStep, PTL DEF Spec

---------------------------------------------------------------------------
(* The floor that is reported and the gate of the shrink *)

\* The blocks from one on, but for the end root, are free.
FreeFrom(b) == \A x \in b .. Total - 2 : x \in Free(Of(x))

LEMMA TailScanned ==
    ASSUME TInv, IsRoot(disk, 0), NEW new \in 8 .. Total - 1,
           \A k \in 0 .. Old - 1 : disk[Base + k].kind = "bm"
    PROVE  TailFree(new) <=> FreeFrom(new - 1)
<1>1. Total \in Nat /\ Old \in Nat /\ Old = Bmbs(Total)
  BY VolumeFields DEF Old
<1>2. new - 1 \in Nat /\ new - 1 < Total
  BY <1>1
<1>3. Of(new - 1) \in 0 .. Old - 1
  BY <1>1, <1>2, InTheBitmap
<1>4. ASSUME TailFree(new), NEW x \in new - 1 .. Total - 2 PROVE x \in Free(Of(x))
  <2>1. x \in Nat /\ x >= new - 1 /\ x < Total - 1
    BY <1>1
  <2>2. Of(new - 1) <= Of(x) /\ Of(x) \in 0 .. Old - 1 /\ x \in Cover(Of(x))
    BY <1>1, <1>2, <2>1, InOrder, InTheBitmap, InItsBlock
  <2>3. Of(x) \in Of(new - 1) .. Old - 1
    BY <1>1, <1>3, <2>2
  <2> QED
    BY <1>4, <2>1, <2>2, <2>3, Zenon DEF TailFree
<1>5. ASSUME FreeFrom(new - 1), NEW k \in Of(new - 1) .. Old - 1
      PROVE  /\ disk[Base + k].kind = "bm"
             /\ \A b \in Cover(k) : (b >= new - 1 /\ b < Total - 1) => b \in Free(k)
  <2>1. k \in Nat /\ k \in 0 .. Old - 1
    BY <1>1, <1>3
  <2>2. ASSUME NEW b \in Cover(k), b >= new - 1, b < Total - 1 PROVE b \in Free(k)
    <3>1. b \in Nat /\ Of(b) = k
      BY <2>1, Covered
    <3>2. b \in new - 1 .. Total - 2
      BY <1>1, <1>2, <2>2, <3>1
    <3> QED
      BY <1>5, <3>1, <3>2, Zenon DEF FreeFrom
  <2> QED
    BY <2>1, <2>2, Zenon
<1> QED
  BY <1>4, <1>5, Zenon DEF TailFree, FreeFrom

LEMMA FloorIsHighest ==
    ASSUME TInv, IsRoot(disk, 0), NEW new \in 8 .. Total - 1
    PROVE  LET movable == {Total - 1} \cup (Base .. Base + Old - 1)
               data == {b \in 0 .. Total - 1 : b \notin Free(Of(b)) /\ b \notin movable}
           IN  new >= MinBlocks <=> (\A b \in data : b <= new - 2) /\ Base + Old <= new - 1
<1> DEFINE movable == {Total - 1} \cup (Base .. Base + Old - 1)
           data == {b \in 0 .. Total - 1 : b \notin Free(Of(b)) /\ b \notin movable}
           S == data \cup {1}
           x == Max(S) + 2
           y == Base + Old + 1
           z == Max({x, y})
<1>1. Total \in Nat /\ Total >= 2 /\ Base \in Nat /\ Old \in Nat /\ new \in Nat /\ new >= 8 /\ new < Total
  BY VolumeFields
<1>2. MinBlocks = Min({z, Total})
  BY DEF MinBlocks
<1>3. S \in SUBSET Int /\ S # {} /\ \A b \in S : b <= Total
  BY <1>1
<1>4. 1 \in S /\ \A b \in data : b \in S
  OBVIOUS
<1>5. \A b \in S : b = 1 \/ b \in data
  OBVIOUS
<1> HIDE DEF data, S
<1>6. Max(S) \in S /\ Max(S) \in Int /\ \A b \in S : b <= Max(S)
  <2>1. Total \in Int
    BY <1>1
  <2>2. Max(S) \in S /\ \A b \in S : b <= Max(S)
    BY <1>3, <2>1, GreatestOf, Zenon
  <2> QED
    BY <1>3, <2>2, Zenon
<1>7. x \in Int /\ y \in Int
  BY <1>1, <1>6
<1>8. new >= x <=> \A b \in data : b <= new - 2
  <2>1. \A b \in S : b \in Int
    BY <1>3
  <2>2. ASSUME new >= x, NEW b \in data PROVE b <= new - 2
    BY <1>1, <1>4, <1>6, <2>1, <2>2
  <2>3. ASSUME \A b \in data : b <= new - 2 PROVE new >= x
    BY <1>1, <1>5, <1>6, <2>3
  <2> QED
    BY <2>2, <2>3
<1>9. new >= y <=> Base + Old <= new - 1
  BY <1>1
<1> HIDE DEF x, y
<1>10. z \in {x, y} /\ z >= x /\ z >= y
  BY <1>7, MaxOfTwo
<1>11. z \in Int /\ (new >= z <=> new >= x /\ new >= y)
  <2> HIDE DEF z
  <2> QED
    BY <1>1, <1>7, <1>10
<1> HIDE DEF z
<1>12. Min({z, Total}) \in {z, Total} /\ Min({z, Total}) <= z
  BY <1>1, <1>11, MinOfTwo
<1>13. new >= Min({z, Total}) <=> new >= z
  BY <1>1, <1>11, <1>12
<1> QED
  BY <1>2, <1>8, <1>9, <1>11, <1>13 DEF data, movable

(***************************************************************************)
(* Between two resizes, on a sound volume, the shrink accepts a size        *)
(* exactly when it is not below the floor that SFS_ShrinkInfo reports       *)
(* (sfsresize.c): the bitmap of the old size, which the floor adds and the  *)
(* gate does not ask for, is never in a free tail.                           *)
(***************************************************************************)
THEOREM FloorIsTheGate == Spec => []InfoMatchesGate
<1>1. TInv => InfoMatchesGate
  <2> SUFFICES ASSUME TInv, IsRoot(disk, 0), SoundAt(disk, Total), NEW new \in 8 .. Total - 1
               PROVE  Gate(new) <=> new >= MinBlocks
    BY DEF InfoMatchesGate
  <2> DEFINE movable == {Total - 1} \cup (Base .. Base + Old - 1)
             data == {b \in 0 .. Total - 1 : b \notin Free(Of(b)) /\ b \notin movable}
  <2>1. /\ Total \in Nat /\ Base \in Nat /\ Base > 1 /\ Old \in Nat /\ Old > 0
        /\ Base + Old < Total /\ Old = Bmbs(Total)
        /\ new \in Nat /\ new >= 8 /\ new < Total
    BY VolumeFields DEF Old
  <2>2. /\ \A k \in 0 .. Old - 1 : disk[Base + k].kind = "bm"
        /\ BitsFrom(disk, Base, Total) \subseteq (0 .. Total - 1) \ Used(disk, Base, Total)
    <3>1. 0 \in Roots(disk, Total)
      BY DEF Roots, Total
    <3> QED
      BY <2>1, <3>1 DEF SoundAt, Base
  <2>3. \A b \in Nat : b < Total /\ b \in Free(Of(b)) => b \notin Base .. Base + Old - 1
    <3>1. ASSUME NEW b \in Nat, b < Total, b \in Free(Of(b)) PROVE b \in BitsFrom(disk, Base, Total)
      <4>1. Of(b) \in 0 .. Bmbs(Total) - 1
        BY <2>1, <3>1, InTheBitmap
      <4> QED
        BY <3>1, <4>1 DEF BitsFrom, Free
    <3> QED
      BY <2>1, <2>2, <3>1 DEF Used
  <2>4. Bmbs(new) \in Nat /\ Bmbs(new) <= Old
    BY <2>1, BitmapSize, MoreBitmap
  <2>5. TailFree(new) <=> FreeFrom(new - 1)
    BY <2>2, TailScanned
  <2>6. new >= MinBlocks <=> (\A b \in data : b <= new - 2) /\ Base + Old <= new - 1
    BY FloorIsHighest
  <2>7. ASSUME Gate(new) PROVE (\A b \in data : b <= new - 2) /\ Base + Old <= new - 1
    <3>1. \A x \in new - 1 .. Total - 2 : x \in Free(Of(x))
      BY <2>5, <2>7 DEF Gate, FreeFrom
    <3>2. ASSUME NEW b \in data PROVE b <= new - 2
      <4>1. b \in Nat /\ b < Total /\ b # Total - 1 /\ b \notin Free(Of(b))
        BY <2>1
      <4>2. b \notin new - 1 .. Total - 2
        BY <3>1, <4>1
      <4> QED
        BY <2>1, <4>1, <4>2
    <3>3. Base + Old <= new - 1
      <4> DEFINE p == Base + Old - 1
      <4>1. p \in Nat /\ p < Total /\ p \in Base .. Base + Old - 1 /\ p <= Total - 2
        BY <2>1
      <4>2. p \notin Free(Of(p))
        BY <2>3, <4>1
      <4>3. p \notin new - 1 .. Total - 2
        BY <3>1, <4>2
      <4> QED
        BY <2>1, <4>1, <4>3
    <3> QED
      BY <3>2, <3>3
  <2>8. ASSUME \A b \in data : b <= new - 2, Base + Old <= new - 1 PROVE Gate(new)
    <3>1. ASSUME NEW x \in new - 1 .. Total - 2 PROVE x \in Free(Of(x))
      <4>1. x \in 0 .. Total - 1 /\ x \notin movable /\ ~(x <= new - 2)
        BY <2>1, <2>8
      <4> QED
        BY <2>8, <4>1
    <3>2. TailFree(new)
      BY <2>5, <3>1 DEF FreeFrom
    <3> QED
      BY <2>1, <2>4, <2>8, <3>2 DEF Gate
  <2> QED
    BY <2>6, <2>7, <2>8
<1> QED
  BY <1>1, TypeInit, TypeStep, PTL DEF Spec

---------------------------------------------------------------------------
(* What a resize leaves of the old volume until its start root is written *)

InUse == (0 .. op.old - 1) \ BitsFrom(before, before[0].base, op.old)

\* What has been noted to be put back is what was read, and every block in use that
\* is not as it was has been noted.
Recorded == pc \in {"pre", "undo"} =>
    /\ op.old <= LastBlock + 1
    /\ \A i \in DOMAIN op.undo : op.undo[i].val = before[op.undo[i].at]
    /\ clean /\ ~raced =>
          \A b \in InUse : disk[b] = before[b] \/ \E i \in DOMAIN op.undo : op.undo[i].at = b

\* A write that is not noted is not to a block in use; where the bitmap moves, none is
\* to the old volume.
Sparing == pc = "pre" =>
    /\ \A i \in DOMAIN op.todo : op.todo[i].mod \/ op.todo[i].at \notin InUse
    /\ op.moved => /\ \A i \in DOMAIN op.todo : op.todo[i].at >= op.old
                   /\ \A b \in 0 .. op.old - 1 : disk[b] = before[b]

\* A shrink has written, or will, a bitmap block with fewer free blocks and a root in
\* the free tail.
SealAt(d, t) == d[0].base + Bmbs(t) - 1
Sealed(d, t) == Bm({b \in FreeIn(d[SealAt(d, t)]) : b < t - 1})
EndRoot(v, t) == v.kind = "root" /\ v.total = t
Shrinks == pc = "pre" /\ op.kind = "shrink" =>
    /\ 8 <= op.total /\ op.total < op.old /\ before[0].base + Bmbs(op.total) < op.total
    /\ 0 < Bmbs(op.total)
    /\ op.total - 1 \in BitsFrom(before, before[0].base, op.old)
    /\ \A i \in DOMAIN op.todo :
          \/ op.todo[i].at = SealAt(before, op.total) /\ op.todo[i].val = Sealed(before, op.total)
          \/ op.todo[i].at = op.total - 1 /\ EndRoot(op.todo[i].val, op.total)
    /\ clean => \A b \in Block :
          \/ disk[b] = before[b]
          \/ b = SealAt(before, op.total) /\ disk[b] = Sealed(before, op.total)
          \/ b = op.total - 1 /\ EndRoot(disk[b], op.total)

KInv == Recorded /\ Sparing /\ Shrinks

LEMMA LastAdded ==
    ASSUME NEW T, NEW ws \in Seq(T), NEW w, NEW i \in DOMAIN (ws \o <<w>>)
    PROVE  (\E j \in DOMAIN ws : (ws \o <<w>>)[i] = ws[j]) \/ (ws \o <<w>>)[i] = w
<1> DEFINE U == T \cup {w}
           all == ws \o <<w>>
<1>1. ws \in Seq(U) /\ <<w>> \in Seq(U) /\ Len(<<w>>) = 1 /\ <<w>>[1] = w
  BY SeqMonotonic
<1> HIDE DEF U
<1>2. /\ Len(ws) \in Nat /\ DOMAIN ws = 1 .. Len(ws) /\ DOMAIN all = 1 .. Len(ws) + 1
      /\ \A k \in 1 .. Len(ws) + 1 : all[k] = IF k <= Len(ws) THEN ws[k] ELSE <<w>>[k - Len(ws)]
  BY <1>1, ConcatProperties, LenProperties
<1>3. i \in DOMAIN all
  OBVIOUS
<1> HIDE DEF all
<1>4. i \in 1 .. Len(ws) \/ i - Len(ws) = 1
  BY <1>2, <1>3
<1>5. (\E j \in DOMAIN ws : all[i] = ws[j]) \/ all[i] = w
  BY <1>1, <1>2, <1>3, <1>4
<1> QED
  BY <1>5 DEF all

LEMMA KeptBegin ==
    ASSUME TInv, IsRoot(disk, 0),
           NEW kind \in {"grow", "shrink"}, NEW n \in Sizes, NEW new \in Nat, NEW base \in Nat,
           NEW moved \in BOOLEAN, NEW exact \in BOOLEAN, NEW ws \in Seq(Safe),
           moved => ws \in Seq(Beyond) /\ new > Total,
           new > Total \/ new - 1 \in BitsFrom(disk, Base, Total),
           Begin(kind, n, new, base, moved, exact, ws)
    PROVE  Recorded' /\ Sparing'
<1> DEFINE end == Write(new - 1, Root(new - 1, new, base, (LastSeq + 1) % SeqNums), FALSE)
<1>1. /\ pc' = "pre" /\ disk' = disk /\ before' = disk
      /\ op'.total = new /\ op'.old = Total /\ op'.moved = moved /\ op'.undo = <<>>
      /\ InUse' = (0 .. Total - 1) \ BitsFrom(disk, Base, Total)
      /\ \A i \in DOMAIN op'.todo :
            \/ \E j \in DOMAIN ws : op'.todo[i] = ws[j]
            \/ op'.todo[i].at = new - 1 /\ op'.todo[i].mod = FALSE
  <2>1. end.at = new - 1 /\ end.mod = FALSE
    BY DEF Write
  <2>2. /\ pc' = "pre" /\ disk' = disk /\ before' = disk
        /\ op'.total = new /\ op'.old = Total /\ op'.moved = moved
        /\ op'.undo = <<>> /\ op'.todo = ws \o << end >>
    BY DEF Begin, NoOp
  <2> HIDE DEF end
  <2>3. InUse' = (0 .. Total - 1) \ BitsFrom(disk, Base, Total)
    BY <2>2 DEF InUse, BitsFrom, Base
  <2>4. \A i \in DOMAIN (ws \o <<end>>) :
           (\E j \in DOMAIN ws : (ws \o <<end>>)[i] = ws[j]) \/ (ws \o <<end>>)[i] = end
    BY LastAdded
  <2> QED
    BY <2>1, <2>2, <2>3, <2>4
<1>2. Total \in Nat /\ Total <= LastBlock + 1 /\ Old = Bmbs(Total)
  BY VolumeFields DEF Old
<1> HIDE DEF end
<1>3. Recorded'
  BY <1>1, <1>2 DEF Recorded
<1>4. \A w \in Safe : w.at \in Nat /\ (w.mod \/ w.at \notin (0 .. Total - 1) \ BitsFrom(disk, Base, Total))
  <2>1. ASSUME NEW w \in Safe, NEW j \in 0 .. Old - 1, w.at \in Free(j)
        PROVE  w.at \in BitsFrom(disk, Base, Total)
    BY <1>2, <2>1 DEF BitsFrom, Free
  <2>2. \A w \in Safe : w.at \in Nat
    BY DEF Safe, Plans
  <2> QED
    BY <1>2, <2>1, <2>2 DEF Safe, Spares
<1>5. \A j \in DOMAIN ws : ws[j] \in Safe /\ (moved => ws[j].at >= Total)
  <2>1. \A j \in DOMAIN ws : ws[j] \in Safe
    BY Members, Zenon
  <2>2. moved => \A j \in DOMAIN ws : ws[j] \in Beyond
    BY Members, Zenon
  <2> QED
    BY <2>1, <2>2 DEF Beyond
<1>6. new - 1 \notin (0 .. Total - 1) \ BitsFrom(disk, Base, Total)
  BY <1>2
<1>7. \A i \in DOMAIN op'.todo : op'.todo[i].mod \/ op'.todo[i].at \notin InUse'
  BY <1>1, <1>4, <1>5, <1>6
<1>8. moved => \A i \in DOMAIN op'.todo : op'.todo[i].at >= Total
  <2>1. moved => new - 1 >= Total
    BY <1>2
  <2> QED
    BY <1>1, <1>5, <2>1
<1>9. Sparing'
  BY <1>1, <1>7, <1>8 DEF Sparing
<1> QED
  BY <1>3, <1>9

LEMMA KeptGrow ==
    ASSUME TInv, NEW n \in Sizes, NEW exact \in BOOLEAN, Grow(n, exact) PROVE KInv'
<1> DEFINE new == NewTotal(n, exact)
           moved == Bmbs(new) > Old /\ ~Natural(new)
           base == IF moved THEN Total ELSE Base
<1>1. /\ n > cyls /\ IsRoot(disk, 0) /\ new > Total
      /\ Begin("grow", n, new, base, moved, exact, GrowWrites(new))
  BY DEF Grow
<1>2. new \in Nat /\ moved \in BOOLEAN /\ base \in Nat
  BY <1>1, NewTotalInNat, VolumeFields
<1> HIDE DEF new
<1>3. GrowWrites(new) \in Seq(Safe) /\ (moved => GrowWrites(new) \in Seq(Beyond))
  BY <1>1, <1>2, GrowPlan
<1> HIDE DEF moved, base
<1>4. "grow" \in {"grow", "shrink"}
  OBVIOUS
<1>5. Recorded' /\ Sparing'
  BY <1>1, <1>2, <1>3, <1>4, KeptBegin
<1>6. op'.kind = "grow"
  BY <1>1 DEF Begin, NoOp
<1> QED
  BY <1>5, <1>6 DEF KInv, Shrinks

\* A shrink takes at least a block from every cylinder.
LEMMA ShrinksAtAll ==
    ASSUME TInv, IsRoot(disk, 0), NEW n \in Sizes, n < cyls, Total \div cyls > 0
    PROVE  ShrunkTotal(n) < Total
<1>1. cyls \in Nat \ {0} /\ n \in Nat /\ cyls - n \in Nat /\ cyls - n >= 1 /\ Blocks(n) \in Nat
  <2>1. cyls \in Sizes
    BY DEF TInv, TypeOK
  <2> QED
    BY <2>1, Sized
<1> DEFINE q == Total \div cyls
           c == cyls - n
           left == Total - c * q
           most == Max({0, left})
           room == Blocks(n)
<1>2. Total \in Nat /\ Total > 0 /\ q \in Nat /\ q > 0
  BY <1>1, VolumeFields, Quotient
<1>3. c * q \in Nat /\ c * q > 0
  <2>1. c \in Nat /\ c > 0
    BY <1>1
  <2> HIDE DEF c, q
  <2>2. (c - 1) * q \in Nat /\ c * q = (c - 1) * q + q
    BY <1>2, <2>1, ProductInNat
  <2> QED
    BY <1>2, <2>2
<1>4. left \in Int /\ left < Total
  <2> HIDE DEF c, q
  <2> QED
    BY <1>2, <1>3
<1>5. ShrunkTotal(n) = Min({most, room})
  BY DEF ShrunkTotal
<1>6. room \in Nat /\ room \in Int
  BY <1>1
<1> HIDE DEF left, room
<1>7. most \in {0, left} /\ most \in Int
  <2>1. 0 \in Int
    OBVIOUS
  <2>2. most \in {0, left}
    BY <1>4, <2>1, MaxOfTwo, Zenon
  <2> QED
    BY <1>4, <2>2
<1>8. most < Total
  BY <1>2, <1>4, <1>7
<1> HIDE DEF most
<1>9. Min({most, room}) <= most /\ Min({most, room}) \in {most, room}
  BY <1>6, <1>7, MinOfTwo, Zenon
<1>10. Min({most, room}) < Total
  BY <1>2, <1>6, <1>7, <1>8, <1>9
<1> QED
  BY <1>5, <1>10

LEMMA KeptShrink == ASSUME TInv, NEW n \in Sizes, Shrink(n) PROVE KInv'
<1> DEFINE new == ShrunkTotal(n)
<1>1. /\ n < cyls /\ IsRoot(disk, 0) /\ Total \div cyls > 0
      /\ Gate(new) /\ Begin("shrink", n, new, Base, FALSE, FALSE, << Seal(new) >>)
  BY DEF Shrink
<1>2. new \in Nat /\ new < Total
  BY <1>1, ShrunkTotalInNat, ShrinksAtAll
<1> HIDE DEF new
<1>3. /\ new >= 8 /\ new > Base + Bmbs(new) /\ Base \in Nat /\ Base > 1 /\ Bmbs(new) \in Nat
      /\ Total \in Nat /\ Old = Bmbs(Total) /\ Old \in Nat
  BY <1>1, <1>2, VolumeFields, BitmapSize DEF Gate, Old
<1>4. Seal(new) \in Safe /\ Bmbs(new) - 1 \in 0 .. Old - 1 /\ << Seal(new) >> \in Seq(Safe)
  BY <1>1, <1>2, <1>3, SealIsSafe, Listed
<1>5. new - 1 \in BitsFrom(disk, Base, Total)
  <2> DEFINE k == Of(new - 1)
  <2>1. new - 1 \in Nat /\ new - 1 < Total - 1
    BY <1>2, <1>3
  <2>2. k \in 0 .. Old - 1 /\ new - 1 \in Cover(k)
    BY <1>2, <1>3, <2>1, InTheBitmap, InItsBlock
  <2>3. k \in Of(new - 1) .. Old - 1
    BY <1>3, <2>2
  <2> HIDE DEF k
  <2>4. new - 1 \in Free(k)
    BY <1>1, <2>1, <2>2, <2>3 DEF Gate, TailFree
  <2> QED
    BY <1>3, <2>2, <2>4 DEF BitsFrom, Free
<1>6. FALSE \in BOOLEAN /\ "shrink" \in {"grow", "shrink"}
  OBVIOUS
<1>7. Recorded' /\ Sparing'
  BY <1>1, <1>2, <1>3, <1>4, <1>5, <1>6, KeptBegin
<1>8. Shrinks'
  <2> DEFINE end == Write(new - 1, Root(new - 1, new, Base, (LastSeq + 1) % SeqNums), FALSE)
             todo == << Seal(new) >> \o << end >>
  <2>1. /\ pc' = "pre" /\ disk' = disk /\ before' = disk
        /\ op'.total = new /\ op'.old = Total /\ op'.todo = todo
    BY <1>1 DEF Begin, NoOp
  <2>2. end.at = new - 1 /\ EndRoot(end.val, new)
    BY DEF Write, Root, EndRoot
  <2>3. Seal(new).at = SealAt(disk, new) /\ Seal(new).val = Sealed(disk, new)
    <3>1. Base + (Bmbs(new) - 1) = Base + Bmbs(new) - 1
      BY <1>3
    <3> QED
      BY <3>1 DEF Seal, Write, Free, SealAt, Sealed, Base
  <2>4. \A i \in DOMAIN todo : todo[i] = Seal(new) \/ todo[i] = end
    <3> DEFINE ws == << Seal(new) >>
    <3>1. ws \in Seq(Safe) /\ \A j \in DOMAIN ws : ws[j] = Seal(new)
      BY <1>4
    <3>2. todo = ws \o << end >>
      OBVIOUS
    <3> HIDE DEF ws, todo
    <3>3. \A i \in DOMAIN (ws \o <<end>>) :
             (\E j \in DOMAIN ws : (ws \o <<end>>)[i] = ws[j]) \/ (ws \o <<end>>)[i] = end
      BY <3>1, LastAdded
    <3> QED
      BY <3>1, <3>2, <3>3
  <2> HIDE DEF todo
  <2>5. \A i \in DOMAIN op'.todo :
           \/ op'.todo[i].at = SealAt(disk, new) /\ op'.todo[i].val = Sealed(disk, new)
           \/ op'.todo[i].at = new - 1 /\ EndRoot(op'.todo[i].val, new)
    BY <2>1, <2>2, <2>3, <2>4
  <2>6. 0 < Bmbs(new)
    BY <1>3, <1>4
  <2>7. BitsFrom(disk, disk[0].base, Total) = BitsFrom(disk, Base, Total)
    BY DEF Base
  <2> QED
    BY <1>2, <1>3, <1>5, <2>1, <2>5, <2>6, <2>7 DEF Shrinks, Base
<1> QED
  BY <1>7, <1>8 DEF KInv

\* What is in one of two sequences is in the two of them joined, and nothing else.
Joins(all, s, t) ==
    /\ \A i \in DOMAIN all : \/ \E j \in DOMAIN s : all[i] = s[j]
                            \/ \E j \in DOMAIN t : all[i] = t[j]
    /\ \A j \in DOMAIN s : \E i \in DOMAIN all : all[i] = s[j]
    /\ \A j \in DOMAIN t : \E i \in DOMAIN all : all[i] = t[j]

LEMMA Joined == ASSUME NEW T, NEW s \in Seq(T), NEW t \in Seq(T) PROVE Joins(s \o t, s, t)
<1> DEFINE all == s \o t
           m == Len(s)
           n == Len(t)
<1>1. /\ m \in Nat /\ n \in Nat /\ DOMAIN s = 1 .. m /\ DOMAIN t = 1 .. n
      /\ DOMAIN all = 1 .. m + n
      /\ \A i \in 1 .. m + n : all[i] = IF i <= m THEN s[i] ELSE t[i - m]
  BY ConcatProperties, LenProperties
<1> HIDE DEF all, m, n
<1>2. ASSUME NEW i \in DOMAIN all
      PROVE  (\E j \in DOMAIN s : all[i] = s[j]) \/ (\E j \in DOMAIN t : all[i] = t[j])
  <2>1. CASE i <= m
    BY <1>1, <2>1
  <2>2. CASE ~(i <= m)
    <3>1. i - m \in 1 .. n /\ all[i] = t[i - m]
      BY <1>1, <2>2
    <3> QED
      BY <1>1, <3>1
  <2> QED
    BY <2>1, <2>2
<1>3. ASSUME NEW j \in DOMAIN s PROVE \E i \in DOMAIN all : all[i] = s[j]
  <2>1. j \in 1 .. m + n /\ all[j] = s[j]
    BY <1>1
  <2> QED
    BY <1>1, <2>1
<1>4. ASSUME NEW j \in DOMAIN t PROVE \E i \in DOMAIN all : all[i] = t[j]
  <2>1. j + m \in 1 .. m + n /\ ~(j + m <= m) /\ (j + m) - m = j
    BY <1>1
  <2>2. all[j + m] = t[j]
    BY <1>1, <2>1
  <2> QED
    BY <1>1, <2>1, <2>2
<1>5. Joins(all, s, t)
  BY <1>2, <1>3, <1>4 DEF Joins
<1> QED
  BY <1>5 DEF all

\* A write that failed without effect, and a read that did.
LEMMA KeptFail ==
    ASSUME TInv, KInv, pc = "pre", Fail, clean' => clean /\ disk' = disk PROVE KInv'
<1>1. /\ pc' = "undo" /\ before' = before /\ raced' = raced
      /\ op'.undo = op.undo /\ op'.old = op.old
  <2>1. op \in OpType
    BY DEF TInv
  <2> QED
    BY <2>1 DEF Fail, Rest, OpType
<1>2. InUse' = InUse
  BY <1>1 DEF InUse, BitsFrom
<1>3. Recorded'
  BY <1>1, <1>2 DEF KInv, Recorded
<1> QED
  BY <1>1, <1>3 DEF KInv, Sparing, Shrinks

LEMMA KeptPreWrite == ASSUME TInv, KInv, PreWrite PROVE KInv'
<1> DEFINE w == Head(op.todo)
           done == /\ op' = [op EXCEPT !.todo = Tail(@), !.undo = Saved(w) \o @]
                   /\ UNCHANGED <<pc, inhibited>> /\ Rest
<1>1. /\ pc = "pre" /\ op.todo # <<>>
      /\ (Refused(w.at, w.val) /\ Fail) \/ (Reported(w.at, w.val) /\ done)
  BY DEF PreWrite, Put, Refused, Reported
<1>2. /\ op \in OpType /\ op.todo \in Seq(Plans) /\ op.undo \in Seq([at : Block, val : Good])
      /\ disk \in [Block -> Good] /\ before \in [Block -> Good] /\ clean \in BOOLEAN
      /\ op.old \in Nat /\ op.old <= LastBlock + 1
  <2>1. op \in OpType /\ TypeOK
    BY DEF TInv
  <2> QED
    BY <1>1, <2>1, OpFields DEF TInv, TypeOK, KInv, Recorded, OpType
<1>3. /\ w \in Plans /\ 1 \in DOMAIN op.todo /\ w = op.todo[1]
      /\ \A i \in DOMAIN Tail(op.todo) : \E j \in DOMAIN op.todo : Tail(op.todo)[i] = op.todo[j]
  <2>1. /\ Head(op.todo) \in Plans /\ Len(Tail(op.todo)) = Len(op.todo) - 1
        /\ Tail(op.todo) \in Seq(Plans) /\ Len(op.todo) \in Nat /\ Len(op.todo) > 0
        /\ \A i \in 1 .. Len(Tail(op.todo)) : Tail(op.todo)[i] = op.todo[i + 1]
        /\ DOMAIN op.todo = 1 .. Len(op.todo) /\ DOMAIN Tail(op.todo) = 1 .. Len(Tail(op.todo))
    BY <1>1, <1>2, HeadTailProperties, LenProperties, EmptySeq
  <2>2. \A i \in DOMAIN Tail(op.todo) : i + 1 \in DOMAIN op.todo
    BY <2>1
  <2>3. w = op.todo[1] /\ 1 \in DOMAIN op.todo
    BY <1>1, <1>2, <2>1
  <2> QED
    BY <2>1, <2>2, <2>3
<1>4. w.at \in Nat /\ Fits(w) /\ w.at # 0
  BY <1>1, <1>3 DEF TInv, Before, Plans
<1>5. CASE Refused(w.at, w.val) /\ Fail
  <2>1. clean' => clean /\ disk' = disk
    BY <1>5 DEF Refused
  <2> QED
    BY <1>1, <1>5, <2>1, KeptFail
<1>6. CASE Reported(w.at, w.val) /\ done
  <2>1. /\ op' = [op EXCEPT !.todo = Tail(op.todo), !.undo = Saved(w) \o op.undo]
        /\ pc' = "pre" /\ before' = before /\ raced' = raced
    BY <1>1, <1>2, <1>6 DEF done, Rest, OpType
  <2>2. /\ op'.todo = Tail(op.todo) /\ op'.undo = Saved(w) \o op.undo /\ op'.kind = op.kind
        /\ op'.old = op.old /\ op'.total = op.total /\ op'.moved = op.moved
    BY <1>2, <2>1 DEF OpType
  <2> HIDE DEF w, done
  <2>3. /\ w.at \in Block /\ (clean' => clean /\ disk' = [disk EXCEPT ![w.at] = w.val])
        /\ \A x \in Block : x # w.at => disk'[x] = disk[x]
    BY <1>2, <1>6 DEF Reported
  <2>4. InUse' = InUse
    BY <2>1, <2>2 DEF InUse, BitsFrom
  <2>5. /\ \A i \in DOMAIN op'.undo : op'.undo[i].val = before[op'.undo[i].at]
        /\ \A j \in DOMAIN op.undo : \E i \in DOMAIN op'.undo : op'.undo[i].at = op.undo[j].at
        /\ w.mod => \E i \in DOMAIN op'.undo : op'.undo[i].at = w.at
    <3> DEFINE T == [at : Block, val : Good]
               s == Saved(w)
               x == [at |-> w.at, val |-> before[w.at]]
    <3>1. x \in T /\ x.at = w.at /\ x.val = before[w.at]
      BY <1>2, <2>3
    <3>2. s = (IF w.mod THEN << x >> ELSE <<>>)
      BY DEF Saved
    <3> HIDE DEF T, x, s
    <3>3. s \in Seq(T) /\ (\A j \in DOMAIN s : s[j] = x) /\ (w.mod => 1 \in DOMAIN s)
      <4>1. CASE w.mod
        BY <3>1, <3>2, <4>1
      <4>2. CASE ~w.mod
        BY <3>1, <3>2, <4>2
      <4> QED
        BY <4>1, <4>2
    <3>4. op.undo \in Seq(T)
      BY <1>2 DEF T
    <3>5. op'.undo = s \o op.undo
      BY <2>2 DEF s
    <3>6. \A i \in DOMAIN op.undo : op.undo[i].val = before[op.undo[i].at]
      BY <1>1 DEF KInv, Recorded
    <3> DEFINE was == op.undo
               is == op'.undo
    <3>7. was \in Seq(T) /\ is = s \o was
      BY <3>4, <3>5
    <3>8. /\ \A j \in DOMAIN was : was[j].val = before[was[j].at]
          /\ \A j \in DOMAIN was, i \in DOMAIN is : is[i] = was[j] => is[i].at = op.undo[j].at
      BY <3>6
    <3> HIDE DEF was, is
    <3>9. Joins(is, s, was)
      <4>1. Joins(s \o was, s, was)
        BY <3>3, <3>7, Joined
      <4> QED
        BY <3>7, <4>1
    <3>10. \A i \in DOMAIN is : is[i].val = before[is[i].at]
      BY <3>1, <3>3, <3>8, <3>9 DEF Joins
    <3>11. w.mod => \E i \in DOMAIN is : is[i].at = w.at
      BY <3>1, <3>3, <3>9 DEF Joins
    <3>12. \A j \in DOMAIN was : \E i \in DOMAIN is : is[i].at = was[j].at
      BY <3>9 DEF Joins
    <3> QED
      BY <3>10, <3>11, <3>12 DEF was, is
  <2>6. Recorded'
    <3>1. ASSUME clean', ~raced', NEW b \in InUse
          PROVE  disk'[b] = before[b] \/ \E i \in DOMAIN op'.undo : op'.undo[i].at = b
      <4>1. disk' = [disk EXCEPT ![w.at] = w.val] /\ clean /\ ~raced
        BY <2>1, <2>3, <3>1
      <4>2. disk[b] = before[b] \/ \E i \in DOMAIN op.undo : op.undo[i].at = b
        BY <1>1, <4>1 DEF KInv, Recorded
      <4>3. w.mod \/ w.at # b
        BY <1>1, <1>3 DEF KInv, Sparing
      <4>4. b \in Block
        BY <1>2, Constants DEF InUse, Block
      <4> QED
        BY <1>2, <2>5, <4>1, <4>2, <4>3, <4>4
    <3> QED
      BY <1>2, <2>1, <2>2, <2>4, <2>5, <3>1 DEF Recorded
  <2>7. Sparing'
    <3>1. \A i \in DOMAIN op.todo : op.todo[i].mod \/ op.todo[i].at \notin InUse
      BY <1>1 DEF KInv, Sparing
    <3>2. op.moved => /\ \A i \in DOMAIN op.todo : op.todo[i].at >= op.old
                      /\ \A b \in 0 .. op.old - 1 : disk[b] = before[b]
      BY <1>1 DEF KInv, Sparing
    <3>3. op.moved => \A b \in 0 .. op.old - 1 : disk'[b] = before[b]
      <4>1. \A b \in 0 .. op.old - 1 : b \in Block /\ b \in Nat /\ b < op.old
        BY <1>2, Constants DEF Block
      <4>2. op.moved => \A b \in 0 .. op.old - 1 : b # w.at
        BY <1>2, <1>3, <1>4, <3>2, <4>1
      <4> QED
        BY <2>3, <3>2, <4>1, <4>2
    <3> QED
      BY <1>3, <2>1, <2>2, <2>4, <3>1, <3>2, <3>3 DEF Sparing
  <2>8. Shrinks'
    <3> SUFFICES ASSUME op.kind = "shrink" PROVE Shrinks'
      BY <2>2 DEF Shrinks
    <3>1. /\ 8 <= op.total /\ op.total < op.old /\ before[0].base + Bmbs(op.total) < op.total
          /\ 0 < Bmbs(op.total)
          /\ op.total - 1 \in BitsFrom(before, before[0].base, op.old)
          /\ \A i \in DOMAIN op.todo :
                \/ op.todo[i].at = SealAt(before, op.total) /\ op.todo[i].val = Sealed(before, op.total)
                \/ op.todo[i].at = op.total - 1 /\ EndRoot(op.todo[i].val, op.total)
          /\ clean => \A b \in Block :
                \/ disk[b] = before[b]
                \/ b = SealAt(before, op.total) /\ disk[b] = Sealed(before, op.total)
                \/ b = op.total - 1 /\ EndRoot(disk[b], op.total)
      BY <1>1 DEF KInv, Shrinks
    <3>2. \/ w.at = SealAt(before, op.total) /\ w.val = Sealed(before, op.total)
          \/ w.at = op.total - 1 /\ EndRoot(w.val, op.total)
      BY <1>3, <3>1
    <3>3. ASSUME clean', NEW b \in Block
          PROVE  \/ disk'[b] = before[b]
                 \/ b = SealAt(before, op.total) /\ disk'[b] = Sealed(before, op.total)
                 \/ b = op.total - 1 /\ EndRoot(disk'[b], op.total)
      <4>1. clean /\ disk' = [disk EXCEPT ![w.at] = w.val]
        BY <2>3, <3>3
      <4>2. CASE b = w.at
        <5>1. disk'[b] = w.val
          BY <1>2, <4>1, <4>2
        <5> QED
          BY <3>2, <4>2, <5>1
      <4>3. CASE b # w.at
        <5>1. disk'[b] = disk[b]
          BY <2>3, <4>3
        <5> QED
          BY <3>1, <4>1, <5>1
      <4> QED
        BY <4>2, <4>3
    <3>4. \A i \in DOMAIN op'.todo :
             \/ op'.todo[i].at = SealAt(before, op.total) /\ op'.todo[i].val = Sealed(before, op.total)
             \/ op'.todo[i].at = op.total - 1 /\ EndRoot(op'.todo[i].val, op.total)
      BY <1>3, <2>2, <3>1
    <3> QED
      BY <2>1, <2>2, <3>1, <3>3, <3>4 DEF Shrinks
  <2> QED
    BY <2>6, <2>7, <2>8 DEF KInv
<1> QED
  BY <1>1, <1>5, <1>6

\* What is put back is what was read.
LEMMA KeptUndo == ASSUME TInv, KInv, Undo PROVE KInv'
<1> DEFINE w == Head(op.undo)
           T == [at : Block, val : Good]
<1>1. /\ pc = "undo" /\ op.undo # <<>> /\ Tried(w.at, w.val)
      /\ op' = [op EXCEPT !.undo = Tail(op.undo)] /\ pc' = pc
      /\ before' = before /\ raced' = raced
  <2>1. op \in OpType
    BY DEF TInv
  <2> QED
    BY <2>1 DEF Undo, Try, Tried, Rest, OpType
<1>2. /\ op \in OpType /\ op.undo \in Seq(T)
      /\ disk \in [Block -> Good] /\ op.old \in Nat
  <2>1. op \in OpType
    BY DEF TInv
  <2> QED
    BY <2>1, OpFields DEF TInv, OpType
<1> HIDE DEF T
<1>3. /\ 1 \in DOMAIN op.undo /\ w = op.undo[1]
      /\ \A i \in DOMAIN Tail(op.undo) : \E j \in DOMAIN op.undo : Tail(op.undo)[i] = op.undo[j]
      /\ \A j \in DOMAIN op.undo : j # 1 => \E i \in DOMAIN Tail(op.undo) : Tail(op.undo)[i] = op.undo[j]
  <2>1. /\ Len(Tail(op.undo)) = Len(op.undo) - 1
        /\ Tail(op.undo) \in Seq(T) /\ Len(op.undo) \in Nat /\ Len(op.undo) > 0
        /\ \A i \in 1 .. Len(Tail(op.undo)) : Tail(op.undo)[i] = op.undo[i + 1]
        /\ DOMAIN op.undo = 1 .. Len(op.undo) /\ DOMAIN Tail(op.undo) = 1 .. Len(Tail(op.undo))
    BY <1>1, <1>2, HeadTailProperties, LenProperties, EmptySeq
  <2>2. w = op.undo[1] /\ 1 \in DOMAIN op.undo
    BY <1>1, <1>2, <2>1
  <2>3. \A i \in DOMAIN Tail(op.undo) : i + 1 \in DOMAIN op.undo
    BY <2>1
  <2>4. ASSUME NEW j \in DOMAIN op.undo, j # 1
        PROVE  \E i \in DOMAIN Tail(op.undo) : Tail(op.undo)[i] = op.undo[j]
    <3>1. j - 1 \in DOMAIN Tail(op.undo) /\ (j - 1) + 1 = j
      BY <2>1, <2>4
    <3> QED
      BY <2>1, <3>1
  <2> HIDE DEF w
  <2> QED
    BY <2>1, <2>2, <2>3, <2>4
<1> HIDE DEF w
<1>4. /\ \A i \in DOMAIN op.undo : op.undo[i].val = before[op.undo[i].at]
      /\ op.old <= LastBlock + 1
      /\ clean /\ ~raced =>
            \A b \in InUse : disk[b] = before[b] \/ \E i \in DOMAIN op.undo : op.undo[i].at = b
  BY <1>1 DEF KInv, Recorded
<1>5. /\ op'.undo = Tail(op.undo) /\ op'.old = op.old
  BY <1>1, <1>2 DEF OpType
<1>6. InUse' = InUse
  BY <1>1, <1>5 DEF InUse, BitsFrom
<1>7. ASSUME clean', ~raced', NEW b \in InUse
      PROVE  disk'[b] = before[b] \/ \E i \in DOMAIN op'.undo : op'.undo[i].at = b
  <2>1. disk' = [disk EXCEPT ![w.at] = w.val] /\ clean /\ ~raced
    BY <1>1, <1>7 DEF Tried
  <2>2. b \in Block
    BY <1>2, <1>4, Constants DEF InUse, Block
  <2>3. CASE b = w.at
    <3>1. w.val = before[b]
      BY <1>3, <1>4, <2>3
    <3> QED
      BY <1>2, <2>1, <2>2, <2>3, <3>1
  <2>4. CASE b # w.at
    <3>1. disk'[b] = disk[b]
      BY <1>2, <2>1, <2>2, <2>4
    <3>2. disk[b] = before[b] \/ \E j \in DOMAIN op.undo : op.undo[j].at = b
      BY <1>4, <2>1
    <3>3. ASSUME NEW j \in DOMAIN op.undo, op.undo[j].at = b
          PROVE  \E i \in DOMAIN op'.undo : op'.undo[i].at = b
      <4>1. j # 1
        BY <1>3, <2>4, <3>3
      <4> QED
        BY <1>3, <1>5, <3>3, <4>1
    <3> QED
      BY <3>1, <3>2, <3>3
  <2> QED
    BY <2>3, <2>4
<1>8. \A i \in DOMAIN op'.undo : op'.undo[i].val = before[op'.undo[i].at]
  BY <1>3, <1>4, <1>5
<1>9. Recorded'
  BY <1>1, <1>4, <1>5, <1>6, <1>7, <1>8 DEF Recorded
<1> QED
  BY <1>1, <1>9 DEF KInv, Sparing, Shrinks

\* The start root is refused, or it is written and the resize is past all this.
LEMMA KeptCommit == ASSUME TInv, KInv, Commit PROVE KInv'
<1> DEFINE r == Root(0, op.total, op.base, (op.seq + 2) % SeqNums)
<1>1. /\ pc = "pre"
      /\ (Refused(0, r) /\ Fail) \/ (Reported(0, r) /\ Enter("post", PostWrites))
  BY DEF Commit, Put, Refused, Reported
<1> HIDE DEF r
<1>2. CASE Refused(0, r) /\ Fail
  <2>1. clean' => clean /\ disk' = disk
    BY <1>2 DEF Refused
  <2> QED
    BY <1>1, <1>2, <2>1, KeptFail
<1>3. CASE Enter("post", PostWrites)
  <2>1. pc' = "post"
    BY <1>3 DEF Enter
  <2> QED
    BY <2>1 DEF KInv, Recorded, Sparing, Shrinks
<1> QED
  BY <1>1, <1>2, <1>3

\* The handler writes during a rollback, and no resize is under way otherwise.
LEMMA KeptAlloc == ASSUME TInv, KInv, Alloc PROVE KInv'
<1>1. /\ ~inhibited /\ raced' = (raced \/ pc = "undo") /\ pc' = pc /\ op' = op
      /\ before' = IF pc = "idle" THEN disk' ELSE before
  BY DEF Alloc
<1>2. pc # "pre"
  BY <1>1 DEF TInv
<1>3. CASE pc = "undo"
  <2>1. raced' /\ before' = before
    BY <1>1, <1>3
  <2>2. Recorded'
    BY <1>1, <1>3, <2>1 DEF KInv, Recorded
  <2> QED
    BY <1>1, <1>3, <2>2 DEF KInv, Sparing, Shrinks
<1>4. CASE pc # "undo"
  BY <1>1, <1>2, <1>4 DEF KInv, Recorded, Sparing, Shrinks
<1> QED
  BY <1>3, <1>4

LEMMA KeptInit == Init => KInv
  BY DEF Init, KInv, Recorded, Sparing, Shrinks

LEMMA KeptStep == TInv /\ KInv /\ [Next]_vars => KInv'
<1> SUFFICES ASSUME TInv, KInv, [Next]_vars PROVE KInv'
  OBVIOUS
<1>1. CASE UNCHANGED vars
  <2>1. /\ disk' = disk /\ pc' = pc /\ op' = op /\ before' = before
        /\ clean' = clean /\ raced' = raced
    BY <1>1 DEF vars
  <2>2. InUse' = InUse
    BY <2>1 DEF InUse, BitsFrom
  <2>3. /\ SealAt(before, op.total)' = SealAt(before, op.total)
        /\ Sealed(before, op.total)' = Sealed(before, op.total)
        /\ BitsFrom(before, before[0].base, op.old)' = BitsFrom(before, before[0].base, op.old)
    BY <2>1 DEF SealAt, Sealed, BitsFrom
  <2> QED
    BY <2>1, <2>2, <2>3 DEF KInv, Recorded, Sparing, Shrinks
<1>2. CASE PostWrite \/ Count \/ CountFault \/ Verify \/ Undone \/ TableWrite \/ TableFault \/ Reboot
  <2>1. pc' \notin {"pre", "undo"}
    BY <1>2 DEF PostWrite, Try, Count, CountFault, Enter, Verify, Undone, TableWrite,
                TableFault, Reboot
  <2> QED
    BY <2>1 DEF KInv, Recorded, Sparing, Shrinks
<1>3. CASE ReadFault
  <2>1. pc = "pre" /\ Fail /\ disk' = disk /\ clean' = clean
    BY <1>3 DEF ReadFault
  <2> QED
    BY <2>1, KeptFail
<1>4. CASE Next
  BY <1>2, <1>3, <1>4, KeptGrow, KeptShrink, KeptPreWrite, KeptCommit, KeptUndo, KeptAlloc,
     Zenon DEF Next, Advance, Faults
<1> QED
  BY <1>1, <1>4

\* A volume is as sound as another one that has the same blocks.
LEMMA SameVolume ==
    ASSUME NEW d \in [Block -> Good], NEW e \in [Block -> Good],
           NEW t \in Nat, t > 0, t <= LastBlock + 1,
           \A b \in 0 .. t - 1 : e[b] = d[b], SoundAt(d, t)
    PROVE  SoundAt(e, t)
<1>1. Roots(e, t) = Roots(d, t)
  <2>1. e[0] = d[0] /\ e[t - 1] = d[t - 1]
    OBVIOUS
  <2> QED
    BY <2>1 DEF Roots, IsRoot
<1> SUFFICES ASSUME NEW r \in Roots(d, t)
             PROVE  /\ \A s \in Roots(d, t) : e[s].base = e[r].base
                    /\ \A k \in 0 .. Bmbs(t) - 1 : e[e[r].base + k].kind = "bm"
                    /\ BitsFrom(e, e[r].base, t) \subseteq (0 .. t - 1) \ Used(e, e[r].base, t)
  BY <1>1 DEF SoundAt
<1> DEFINE base == d[r].base
<1>2. \A s \in Roots(d, t) : e[s] = d[s]
  BY DEF Roots
<1>3. base \in Nat /\ Bmbs(t) \in Nat /\ base + Bmbs(t) < t
  <2>1. Roots(d, t) # {}
    OBVIOUS
  <2> QED
    BY <2>1, Mounted, BitmapSize
<1>4. e[r].base = base /\ \A s \in Roots(d, t) : e[s].base = base
  BY <1>2 DEF SoundAt
<1>5. /\ \A k \in 0 .. Bmbs(t) - 1 : d[base + k].kind = "bm"
      /\ BitsFrom(d, base, t) \subseteq (0 .. t - 1) \ Used(d, base, t)
  BY DEF SoundAt
<1> HIDE DEF base
<1>6. \A k \in 0 .. Bmbs(t) - 1 : e[base + k] = d[base + k]
  BY <1>3
<1>7. BitsFrom(e, base, t) = BitsFrom(d, base, t)
  BY <1>6 DEF BitsFrom
<1>8. Used(e, base, t) = Used(d, base, t)
  BY DEF Used
<1> QED
  BY <1>4, <1>5, <1>6, <1>7, <1>8

\* Marks that say used, and a root in a free block, do no harm to a volume.
LEMMA MarkedUsed ==
    ASSUME NEW d \in [Block -> Good], NEW e \in [Block -> Good],
           NEW t \in Nat, t <= LastBlock + 1, NEW u \in Nat, 8 <= u, u < t,
           0 \in Roots(d, t), d[0].base + Bmbs(u) < u, 0 < Bmbs(u),
           u - 1 \in BitsFrom(d, d[0].base, t), SoundAt(d, t),
           \A b \in Block : \/ e[b] = d[b]
                            \/ b = SealAt(d, u) /\ e[b] = Sealed(d, u)
                            \/ b = u - 1 /\ EndRoot(e[b], u)
    PROVE  SoundAt(e, t)
<1> DEFINE base == d[0].base
           p == SealAt(d, u)
           run == base .. base + Bmbs(t) - 1
<1>1. base \in Nat /\ base > 0 /\ Bmbs(u) \in Nat /\ Bmbs(t) \in Nat /\ base + Bmbs(t) < t
  <2>1. Roots(d, t) # {} /\ t > 0
    OBVIOUS
  <2> QED
    BY <2>1, Mounted, BitmapSize
<1>2. p \in Nat /\ p > 0 /\ p < u - 1
  BY <1>1 DEF SealAt
<1>3. /\ \A s \in Roots(d, t) : d[s].base = base
      /\ \A k \in 0 .. Bmbs(t) - 1 : d[base + k].kind = "bm"
      /\ BitsFrom(d, base, t) \subseteq (0 .. t - 1) \ Used(d, base, t)
  BY DEF SoundAt
<1>4. u - 1 \notin run
  BY <1>3 DEF Used
<1>5. Sealed(d, u).kind = "bm" /\ FreeIn(Sealed(d, u)) \subseteq FreeIn(d[p])
  BY DEF Sealed, Bm, FreeIn
<1> HIDE DEF base, p, run
<1>6. ASSUME NEW b \in Block
      PROVE  e[b] = d[b] \/ (b = p /\ e[b] = Sealed(d, u)) \/ (b = u - 1 /\ EndRoot(e[b], u))
  BY DEF p
<1>7. e[0] = d[0] /\ e[t - 1] = d[t - 1]
  <2>1. 0 \in Block /\ t - 1 \in Block /\ 0 # p /\ 0 # u - 1 /\ t - 1 # p /\ t - 1 # u - 1
    BY <1>2, Constants DEF Block
  <2> QED
    BY <1>6, <2>1
<1>8. Roots(e, t) = Roots(d, t) /\ \A s \in Roots(d, t) : e[s].base = base
  <2>1. Roots(e, t) = Roots(d, t)
    BY <1>7 DEF Roots, IsRoot
  <2>2. \A s \in Roots(d, t) : e[s] = d[s]
    BY <1>7 DEF Roots
  <2> QED
    BY <1>3, <2>1, <2>2
<1>9. ASSUME NEW k \in 0 .. Bmbs(t) - 1
      PROVE  e[base + k].kind = "bm" /\ FreeIn(e[base + k]) \subseteq FreeIn(d[base + k])
  <2>1. base + k \in Block /\ base + k # u - 1
    BY <1>1, <1>4, Constants DEF Block, run
  <2>2. e[base + k] = d[base + k] \/ (base + k = p /\ e[base + k] = Sealed(d, u))
    BY <1>6, <2>1
  <2> QED
    BY <1>3, <1>5, <2>2
<1>10. BitsFrom(e, base, t) \subseteq BitsFrom(d, base, t)
  BY <1>9 DEF BitsFrom
<1>11. Used(e, base, t) \subseteq Used(d, base, t)
  <2>1. ASSUME NEW b \in 0 .. t - 1, e[b] = Data PROVE d[b] = Data
    <3>1. b \in Block
      BY Constants DEF Block
    <3>2. e[b].kind # "bm" /\ e[b].kind # "root"
      BY <2>1 DEF Data
    <3> QED
      BY <1>5, <1>6, <2>1, <3>1, <3>2 DEF EndRoot
  <2> QED
    BY <2>1 DEF Used
<1> QED
  BY <1>3, <1>8, <1>9, <1>10, <1>11 DEF SoundAt

LEMMA KInvMeans == TInv /\ KInv => OldVolumeKept
<1> SUFFICES ASSUME TInv, KInv PROVE OldVolumeKept
  OBVIOUS
<1>1. /\ disk \in [Block -> Good] /\ before \in [Block -> Good]
      /\ op.old \in Nat /\ op.total \in Nat
  BY DEF TInv, OpType
<1>2. ASSUME pc = "pre", Careful, SoundAt(before, op.old)
      PROVE  /\ clean => SoundAt(disk, op.old)
             /\ op.moved => \A b \in 0 .. op.old - 1 : disk[b] = before[b]
  <2>1. /\ 0 \in Roots(before, op.old) /\ op.old >= 2 /\ op.old <= LastBlock + 1
        /\ op.moved => \A b \in 0 .. op.old - 1 : disk[b] = before[b]
    BY <1>2 DEF TInv, Before, KInv, Recorded, Sparing, Roots, IsRoot
  <2>2. ASSUME op.moved PROVE SoundAt(disk, op.old)
    <3>1. op.old > 0 /\ \A b \in 0 .. op.old - 1 : disk[b] = before[b]
      BY <1>1, <2>1, <2>2
    <3> QED
      BY <1>1, <1>2, <2>1, <3>1, SameVolume
  <2>3. ASSUME op.kind = "shrink", clean PROVE SoundAt(disk, op.old)
    <3>1. /\ 8 <= op.total /\ op.total < op.old /\ before[0].base + Bmbs(op.total) < op.total
          /\ 0 < Bmbs(op.total)
          /\ op.total - 1 \in BitsFrom(before, before[0].base, op.old)
          /\ \A b \in Block : \/ disk[b] = before[b]
                              \/ b = SealAt(before, op.total) /\ disk[b] = Sealed(before, op.total)
                              \/ b = op.total - 1 /\ EndRoot(disk[b], op.total)
      BY <1>2, <2>3 DEF KInv, Shrinks
    <3> QED
      BY <1>1, <1>2, <2>1, <3>1, MarkedUsed
  <2> QED
    BY <1>2, <2>1, <2>2, <2>3 DEF Careful
<1>3. ASSUME pc = "undo", op.undo = <<>>, clean, ~raced, NEW b \in InUse
      PROVE  disk[b] = before[b]
  BY <1>3 DEF KInv, Recorded
<1> QED
  BY <1>2, <1>3 DEF OldVolumeKept, SafeBeforeCommit, RolledBack, InUse

(***************************************************************************)
(* Until the start root is written, and after a resize has failed, the old *)
(* volume is left to the file system: cut off before it, a shrink has added *)
(* used marks and written a root to a free block, and a grow that moves the *)
(* bitmap has written nothing to the volume ("the old structure is          *)
(* untouched until the final start-root write", sfsresize.c); and what a    *)
(* failed resize had modified is put back.  That a write goes nowhere else  *)
(* rests on the scan of the tail (the new end root falls on a free block)   *)
(* and on the search for free positions where the bitmap goes on in place.  *)
(***************************************************************************)
THEOREM OldVolumeStands == Spec => []OldVolumeKept
<1>1. Init => TInv /\ KInv
  BY TypeInit, KeptInit
<1>2. TInv /\ KInv /\ [Next]_vars => (TInv /\ KInv)'
  BY TypeStep, KeptStep
<1> QED
  BY <1>1, <1>2, KInvMeans, PTL DEF Spec

---------------------------------------------------------------------------
(* What a resize that succeeds leaves *)

Run(base, t) == base .. base + Bmbs(t) - 1

LEMMA PlacesOf ==
    ASSUME NEW base \in Nat, NEW t \in Nat
    PROVE  /\ \A k \in 0 .. Bmbs(t) - 1 : base + k \in Run(base, t) /\ (base + k) - base = k
           /\ \A b \in Run(base, t) : /\ b - base \in 0 .. Bmbs(t) - 1 /\ b \in Nat
                                       /\ base + (b - base) = b
<1> DEFINE m == Bmbs(t)
<1>1. m \in Nat
  BY BitmapSize
<1> HIDE DEF m
<1>2. \A k \in 0 .. m - 1 : base + k \in base .. base + m - 1 /\ (base + k) - base = k
  BY <1>1
<1>3. \A b \in base .. base + m - 1 :
         b - base \in 0 .. m - 1 /\ b \in Nat /\ base + (b - base) = b
  BY <1>1
<1> QED
  BY <1>2, <1>3 DEF Run, m

\* What the bitmap says is free, before and after: all that was, the place of the old
\* bitmap, and the space that is new, up to the new end.
OldRun(d, o) == Run(d[0].base, o.old)
NewRun(o) == Run(o.base, o.total)
OldFree(d, o) == BitsFrom(d, d[0].base, o.old)
NewFree(d, o) ==
    {b \in OldFree(d, o) \cup OldRun(d, o) \cup (o.old - 1 .. o.total - 2) :
        b \notin NewRun(o) /\ b < o.total - 1}
\* A shrink gives back the end of its bitmap after the start root is written.
Marked(d, o) ==
    IF o.kind = "shrink" THEN {b \in OldFree(d, o) : b < o.total - 1} ELSE NewFree(d, o)

EndOf(o) == Root(o.total - 1, o.total, o.base, (o.seq + 1) % SeqNums)
StartOf(o) == Root(0, o.total, o.base, (o.seq + 2) % SeqNums)

\* The disk when all that comes before the start root is written, and at the end.
Planned(d, o) ==
    [b \in Block |-> IF b \in NewRun(o) THEN Bm(Marked(d, o) \cap Cover(b - o.base))
                     ELSE IF b = o.total - 1 THEN EndOf(o) ELSE d[b]]
Finished(d, o) ==
    [b \in Block |-> IF b = 0 THEN StartOf(o)
                     ELSE IF b \in NewRun(o) THEN Bm(NewFree(d, o) \cap Cover(b - o.base))
                     ELSE IF b = o.total - 1 THEN EndOf(o)
                     ELSE IF b = o.old - 1 \/ (b = d[0].base - 1 /\ IsRoot(d, b)) THEN Blank
                     ELSE d[b]]

\* Each write to come is one of those that make d into g, and makes up what is missing.
Toward(d, ws, g) ==
    /\ \A i \in DOMAIN ws : ws[i].at \in Block => ws[i].val = g[ws[i].at]
    /\ \A b \in Block : d[b] = g[b] \/ \E i \in DOMAIN ws : ws[i].at = b

\* The places of the new bitmap: those of the old, free blocks, or new ones.
Shape(d, o) ==
    /\ IsRoot(d, 0) /\ o.old = d[0].total /\ o.old >= 2 /\ o.kind \in {"grow", "shrink"}
    /\ 1 < o.base /\ o.base + Bmbs(o.total) < o.total
    /\ \A b \in NewRun(o) : b \in OldRun(d, o) \/ b \in OldFree(d, o) \/ b >= o.old
    /\ o.base \in {d[0].base, o.old}
    /\ o.kind = "grow" => o.total > o.old
    /\ o.kind = "shrink" => /\ o.total < o.old /\ o.base = d[0].base
                            /\ o.total - 1 .. o.old - 2 \subseteq OldFree(d, o)

\* The new size fits the new partition when the old one fitted the old.
Fitting(c, o) ==
    /\ o.exact => o.total = Blocks(o.new)
    /\ c <= o.old /\ o.old <= Blocks(c) => o.total <= Blocks(o.new)

\* e is what is left of the volume on d, with a file system of t blocks mounted.
Left(d, e, o, t) ==
    /\ e[0] = StartOf(o) /\ e[o.total - 1] = EndOf(o)
    /\ SoundAt(e, o.total)
    /\ \A k \in 0 .. Bmbs(o.total) - 1 : FreeIn(e[o.base + k]) \subseteq Cover(k)
    /\ ExactAt(d, o.old) => ExactAt(e, o.total)
    /\ \A b \in Block \ {0} : IsRoot(e, b) => ~Newer(e[b].seq, e[0].seq)
    /\ \A b \in Block : b \in Roots(e, t) => o.total = t
    /\ e[RootObj] = Objc(Cardinality(FreeAt(e, o.total)))
    /\ \A b \in 0 .. o.total - 1 : d[b] = Data => e[b] = Data

Towards == pc \in {"pre", "post", "verify", "table"} =>
    /\ Shape(before, op) /\ Fitting(cyls, op)
    /\ clean /\ Regular =>
          /\ pc = "pre" => Toward(disk, op.todo, Planned(before, op))
          /\ pc = "post" => Toward(disk, op.todo, Finished(before, op))
          /\ pc \in {"verify", "table"} => Left(before, disk, op, Blocks(env))

LEMMA BitmapBlock ==
    ASSUME NEW v \in Good, v.kind = "bm" PROVE v = Bm(FreeIn(v)) /\ FreeIn(v) \in Bits
<1>1. \E S \in Bits : v = [kind |-> "bm", free |-> S]
  BY DEF Good, Contents, Data, Blank, Torn
<1> QED
  BY <1>1 DEF Bm, FreeIn

LEMMA SizedBitmap ==
    ASSUME NEW t \in Nat, t > 0 PROVE Bmbs(t) \in Nat /\ Bmbs(t) > 0 /\ Of(t - 1) = Bmbs(t) - 1
<1>1. /\ Bmbs(t) \in Nat /\ t <= Bmbs(t) * Bib /\ Bmbs(t) * Bib < t + Bib
      /\ Bmbs(t) * Bib \in Nat /\ Bib \in Nat \ {0}
  BY BitmapSize, GeometryAssumption
<1>2. Bmbs(t) > 0
  <2>1. Bmbs(t) = 0 => Bmbs(t) * Bib = 0
    BY <1>1
  <2> QED
    BY <1>1, <2>1
<1>3. t - 1 \in Nat /\ Of(t - 1) \in 0 .. Bmbs(t) - 1
  BY InTheBitmap
<1> DEFINE q == Of(t - 1)
           u == Bmbs(t)
<1>4. q \in Nat /\ t - 1 < (q + 1) * Bib /\ (q + 1) * Bib \in Nat
  <2>1. q \in Nat /\ t - 1 < (q + 1) * Bib
    BY <1>1, <1>3, Quotient DEF Of
  <2> HIDE DEF q
  <2> QED
    BY <1>1, <2>1, ProductInNat
<1>5. u \in Nat /\ u * Bib < t + Bib /\ u * Bib \in Nat /\ q <= u - 1 /\ u > 0
  BY <1>1, <1>2, <1>3
<1> HIDE DEF q, u
<1>6. q >= u - 1
  <2>1. (q + 2) * Bib = (q + 1) * Bib + Bib /\ q + 2 \in Nat
    BY <1>1, <1>4
  <2>2. u * Bib < (q + 2) * Bib
    BY <1>1, <1>4, <1>5, <2>1
  <2>3. u < q + 2
    BY <1>1, <1>5, <2>1, <2>2, FewerTimes
  <2> QED
    BY <1>4, <1>5, <2>3
<1> QED
  BY <1>1, <1>2, <1>4, <1>5, <1>6 DEF q, u

\* An orderly volume: where its bitmap is, and what it says is free.
LaidAt(d, t, base, free) ==
    /\ base \in Nat /\ 1 < base /\ Bmbs(t) \in Nat /\ Bmbs(t) > 0
    /\ base + Bmbs(t) < t /\ t <= LastBlock + 1
    /\ \A k \in 0 .. Bmbs(t) - 1 : base + k \in Block /\ d[base + k] = Bm(free \cap Cover(k))
    /\ \A b \in free : /\ b \in Block /\ b # 0 /\ b < t - 1 /\ b # RootObj
                       /\ b \notin Run(base, t) /\ d[b] # Data
    /\ \A b \in Run(base, t) : /\ b \in Block /\ b # 0 /\ b < t - 1 /\ b # RootObj
                               /\ d[b].kind = "bm"

LEMMA Laid ==
    ASSUME NEW d \in [Block -> Good], NEW t \in Nat, t >= 2, IsRoot(d, 0), d[0].total = t,
           Orderly(d, t)
    PROVE  LaidAt(d, t, d[0].base, BitsFrom(d, d[0].base, t))
<1> DEFINE base == d[0].base
           free == BitsFrom(d, base, t)
<1>1. d[0] \in Good /\ d[0].kind = "root"
  BY Constants DEF IsRoot
<1>2. base \in Nat /\ 1 < base /\ base + Bmbs(t) < t /\ t <= LastBlock + 1
  BY <1>1, RootFields
<1>3. Bmbs(t) \in Nat /\ Bmbs(t) > 0
  BY SizedBitmap
<1>4. 0 \in Roots(d, t)
  BY DEF Roots
<1> HIDE DEF base
<1>5. /\ \A k \in 0 .. Bmbs(t) - 1 : d[base + k].kind = "bm"
      /\ free \subseteq (0 .. t - 1) \ Used(d, base, t)
      /\ \A k \in 0 .. Bmbs(t) - 1 : FreeIn(d[base + k]) \subseteq Cover(k)
      /\ d[RootObj].kind = "objc"
  BY <1>4 DEF Orderly, SoundAt, base
<1> HIDE DEF free
<1>6. ASSUME NEW k \in 0 .. Bmbs(t) - 1
      PROVE  base + k \in Block /\ d[base + k] = Bm(free \cap Cover(k))
  <2>1. base + k \in Block
    BY <1>2, <1>3, Constants DEF Block
  <2>2. d[base + k] = Bm(FreeIn(d[base + k]))
    BY <1>5, <2>1, BitmapBlock
  <2>3. FreeIn(d[base + k]) \subseteq free \cap Cover(k)
    BY <1>5 DEF BitsFrom, free
  <2>4. ASSUME NEW b \in free \cap Cover(k) PROVE b \in FreeIn(d[base + k])
    <3>1. PICK j \in 0 .. Bmbs(t) - 1 : b \in FreeIn(d[base + j])
      BY DEF BitsFrom, free
    <3>2. b \in Cover(j) /\ j \in Nat /\ k \in Nat
      BY <1>3, <1>5, <3>1
    <3>3. Of(b) = j /\ Of(b) = k
      BY <3>2, Covered
    <3> QED
      BY <3>1, <3>3
  <2>5. FreeIn(d[base + k]) = free \cap Cover(k)
    BY <2>3, <2>4
  <2> QED
    BY <2>1, <2>2, <2>5
<1>7. ASSUME NEW b \in Run(base, t)
      PROVE  b \in Block /\ b # 0 /\ b < t - 1 /\ b # RootObj /\ d[b].kind = "bm"
  <2>1. b \in Int /\ b >= base /\ b <= base + Bmbs(t) - 1 /\ b - base \in 0 .. Bmbs(t) - 1
        /\ base + (b - base) = b
    BY <1>2, <1>3 DEF Run
  <2>2. d[b].kind = "bm"
    BY <1>5, <2>1
  <2>3. b \in Block /\ b # 0 /\ b < t - 1
    BY <1>2, <1>3, <2>1, Constants DEF Block
  <2> QED
    BY <1>5, <2>2, <2>3
<1>8. ASSUME NEW b \in free
      PROVE  b \in Block /\ b # 0 /\ b < t - 1 /\ b # RootObj /\ b \notin Run(base, t) /\ d[b] # Data
  <2>1. b \in 0 .. t - 1 /\ b \notin Used(d, base, t)
    BY <1>5
  <2> QED
    BY <1>2, <2>1, Constants DEF Used, Run, Block
<1> QED
  BY <1>2, <1>3, <1>6, <1>7, <1>8 DEF base, free, LaidAt

\* A write of a plan takes the disk on towards its goal; at the end it is there.
LEMMA OnTheWay ==
    ASSUME NEW d \in [Block -> Good], NEW ws \in Seq(Plans), ws # <<>>, NEW g, Toward(d, ws, g)
    PROVE  Toward([d EXCEPT ![Head(ws).at] = Head(ws).val], Tail(ws), g)
<1> DEFINE w == Head(ws)
           e == [d EXCEPT ![w.at] = w.val]
<1>1. /\ Tail(ws) \in Seq(Plans) /\ Len(Tail(ws)) = Len(ws) - 1 /\ Len(ws) \in Nat /\ Len(ws) > 0
      /\ \A i \in 1 .. Len(Tail(ws)) : Tail(ws)[i] = ws[i + 1]
      /\ DOMAIN ws = 1 .. Len(ws) /\ DOMAIN Tail(ws) = 1 .. Len(Tail(ws)) /\ w = ws[1]
  BY HeadTailProperties, LenProperties, EmptySeq
<1>2. ASSUME NEW i \in DOMAIN Tail(ws), Tail(ws)[i].at \in Block
      PROVE  Tail(ws)[i].val = g[Tail(ws)[i].at]
  <2>1. i + 1 \in DOMAIN ws /\ Tail(ws)[i] = ws[i + 1]
    BY <1>1
  <2> QED
    BY <1>2, <2>1 DEF Toward
<1>3. 1 \in DOMAIN ws /\ w = ws[1]
  BY <1>1
<1>4. ASSUME NEW b \in Block PROVE e[b] = g[b] \/ \E i \in DOMAIN Tail(ws) : Tail(ws)[i].at = b
  <2>1. CASE b = w.at
    BY <1>3, <2>1 DEF Toward
  <2>2. CASE b # w.at
    <3>1. e[b] = d[b]
      BY <2>2
    <3>2. ASSUME NEW i \in DOMAIN ws, ws[i].at = b PROVE \E j \in DOMAIN Tail(ws) : Tail(ws)[j].at = b
      <4>1. i # 1
        BY <1>3, <2>2, <3>2
      <4>2. i - 1 \in DOMAIN Tail(ws) /\ Tail(ws)[i - 1] = ws[i]
        BY <1>1, <3>2, <4>1
      <4> QED
        BY <3>2, <4>2
    <3> HIDE DEF e, w
    <3> QED
      BY <3>1, <3>2 DEF Toward
  <2> QED
    BY <2>1, <2>2
<1> HIDE DEF e
<1>5. Toward(e, Tail(ws), g)
  BY <1>2, <1>4 DEF Toward
<1> QED
  BY <1>5 DEF e, w

LEMMA Arrived ==
    ASSUME NEW d, NEW g, Toward(d, <<>>, g), NEW b \in Block PROVE d[b] = g[b]
  BY DEF Toward

\* Every block of a list of writes is in it.
LEMMA WrittenAll ==
    ASSUME NEW n \in Nat, NEW S \in SUBSET (0 .. n), NEW f, DOMAIN f = S, NEW k \in S
    PROVE  \E i \in DOMAIN WritesOf(f) : WritesOf(f)[i] = f[k]
<1>1. IsFiniteSet(S) /\ Cardinality(S) \in Nat
  <2>1. S \in SUBSET Nat /\ \A s \in S : s <= n
    OBVIOUS
  <2> QED
    BY <2>1, FS_BoundedSetOfNaturals, FS_CardinalityType
<1>2. ASSUME NEW x \in S
      PROVE  /\ Lower(S, x) \in SUBSET S /\ IsFiniteSet(Lower(S, x)) /\ x \notin Lower(S, x)
             /\ Cardinality(Lower(S, x)) \in Nat
  <2>1. Lower(S, x) \in SUBSET S /\ x \notin Lower(S, x)
    BY DEF Lower
  <2> QED
    BY <1>1, <2>1, FS_Subset, FS_CardinalityType
<1>3. ASSUME NEW x \in S, NEW y \in S, x < y
      PROVE  Cardinality(Lower(S, x)) < Cardinality(Lower(S, y))
  <2>1. Lower(S, x) \cup {x} \subseteq Lower(S, y)
    <3>1. \A z \in S : z \in Nat
      OBVIOUS
    <3>2. \A z \in Lower(S, x) : z \in Lower(S, y)
      <4> SUFFICES ASSUME NEW z \in S, z < x PROVE z < y
        BY DEF Lower
      <4>1. z \in Nat /\ x \in Nat /\ y \in Nat
        BY <3>1
      <4> QED
        BY <1>3, <4>1
    <3> QED
      BY <1>3, <3>2 DEF Lower
  <2>2. Cardinality(Lower(S, x) \cup {x}) = Cardinality(Lower(S, x)) + 1
    BY <1>2, FS_AddElement
  <2>3. Cardinality(Lower(S, x) \cup {x}) <= Cardinality(Lower(S, y))
    BY <1>2, <2>1, FS_Subset
  <2> QED
    BY <1>2, <2>2, <2>3
<1> DEFINE N == Cardinality(S)
           i == Cardinality(Lower(S, k)) + 1
           x == Nth(S, i)
<1>4. i \in 1 .. N
  <2>1. Cardinality(Lower(S, k) \cup {k}) = i
    BY <1>2, FS_AddElement
  <2>2. Lower(S, k) \cup {k} \subseteq S
    BY <1>2
  <2>3. i <= N
    BY <1>1, <2>1, <2>2, FS_Subset
  <2> QED
    BY <1>1, <1>2, <2>3
<1>5. x \in S /\ Cardinality(Lower(S, x)) = i - 1
  <2>1. k \in S /\ Cardinality(Lower(S, k)) = i - 1
    BY <1>2
  <2> HIDE DEF i
  <2> QED
    BY <2>1 DEF Nth, Lower
<1>6. x = k
  <2>1. Cardinality(Lower(S, x)) = Cardinality(Lower(S, k)) /\ Cardinality(Lower(S, k)) \in Nat
    BY <1>2, <1>5
  <2>2. ~(x < k) /\ ~(k < x)
    <3> HIDE DEF x, i
    <3> QED
      BY <1>3, <1>5, <2>1
  <2> HIDE DEF x, i
  <2>3. x \in Nat /\ k \in Nat
    BY <1>5
  <2>4. \A a, b \in Nat : a < b \/ b < a \/ a = b
    OBVIOUS
  <2>5. x < k \/ k < x \/ x = k
    BY <2>3, <2>4
  <2> QED
    BY <2>2, <2>5
<1>7. WritesOf(f) = [j \in 1 .. N |-> f[Nth(S, j)]]
  BY DEF WritesOf
<1> HIDE DEF i, N
<1>8. i \in DOMAIN WritesOf(f) /\ WritesOf(f)[i] = f[k]
  BY <1>4, <1>6, <1>7
<1> QED
  BY <1>8

\* A list of what a function gives.
Lists(ws, S, f) ==
    /\ \A i \in DOMAIN ws : \E k \in S : ws[i] = f[k]
    /\ \A k \in S : \E i \in DOMAIN ws : ws[i] = f[k]

LEMMA Written ==
    ASSUME NEW n \in Nat, NEW S \in SUBSET (0 .. n), NEW T, NEW f \in [S -> T]
    PROVE  WritesOf(f) \in Seq(T) /\ Lists(WritesOf(f), S, f)
<1>1. WritesOf(f) \in Seq(T)
  BY WrittenOf
<1>2. \A i \in DOMAIN WritesOf(f) : \E k \in S : WritesOf(f)[i] = f[k]
  <2>1. WritesOf(f) = [i \in 1 .. Cardinality(S) |-> f[Nth(S, i)]]
    BY DEF WritesOf
  <2> QED
    BY <2>1, NthIsIn
<1>3. \A k \in S : \E i \in DOMAIN WritesOf(f) : WritesOf(f)[i] = f[k]
  BY WrittenAll
<1> QED
  BY <1>1, <1>2, <1>3 DEF Lists

\* The writes put the blocks of the new bitmap that are not there yet.
Puts(d, o, ws) ==
    /\ \A i \in DOMAIN ws : \E k \in 0 .. Bmbs(o.total) - 1 :
          ws[i].at = o.base + k /\ ws[i].val = Bm(Marked(d, o) \cap Cover(k))
    /\ \A k \in 0 .. Bmbs(o.total) - 1 :
          \/ d[o.base + k] = Bm(Marked(d, o) \cap Cover(k))
          \/ \E i \in DOMAIN ws : ws[i].at = o.base + k

\* A plan that puts the blocks of the new bitmap, and then the end root.
LEMMA Planning ==
    ASSUME NEW d \in [Block -> Good], NEW o, Shape(d, o), o.base \in Nat, o.total \in Nat,
           NEW ws \in Seq(Plans), NEW end \in Plans, end.at = o.total - 1, end.val = EndOf(o),
           Puts(d, o, ws)
    PROVE  Toward(d, ws \o <<end>>, Planned(d, o))
<1> DEFINE all == ws \o <<end>>
           g == Planned(d, o)
<1>0. /\ \A i \in DOMAIN ws : \E k \in 0 .. Bmbs(o.total) - 1 :
            ws[i].at = o.base + k /\ ws[i].val = Bm(Marked(d, o) \cap Cover(k))
      /\ \A k \in 0 .. Bmbs(o.total) - 1 :
            \/ d[o.base + k] = Bm(Marked(d, o) \cap Cover(k))
            \/ \E i \in DOMAIN ws : ws[i].at = o.base + k
  BY DEF Puts
<1>1. Bmbs(o.total) \in Nat /\ o.base + Bmbs(o.total) < o.total
  BY BitmapSize DEF Shape
<1>2. ASSUME NEW k \in 0 .. Bmbs(o.total) - 1
      PROVE  /\ o.base + k \in NewRun(o) /\ o.base + k # o.total - 1
             /\ o.base + k \in Block => g[o.base + k] = Bm(Marked(d, o) \cap Cover(k))
  <2>1. o.base + k \in NewRun(o) /\ o.base + k # o.total - 1 /\ (o.base + k) - o.base = k
    BY <1>1 DEF NewRun, Run
  <2> QED
    BY <2>1 DEF Planned
<1>3. o.total - 1 \notin NewRun(o) /\ (o.total - 1 \in Block => g[o.total - 1] = EndOf(o))
  <2>1. o.total - 1 \notin NewRun(o)
    BY <1>1 DEF NewRun, Run
  <2> QED
    BY <2>1 DEF Planned
<1>4. Joins(all, ws, <<end>>)
  BY Joined, Listed
<1>5. DOMAIN <<end>> = {1} /\ <<end>>[1] = end
  OBVIOUS
<1> HIDE DEF all
<1>6. ASSUME NEW i \in DOMAIN all, all[i].at \in Block PROVE all[i].val = g[all[i].at]
  <2>1. CASE \E j \in DOMAIN ws : all[i] = ws[j]
    <3>1. PICK k \in 0 .. Bmbs(o.total) - 1 :
             all[i].at = o.base + k /\ all[i].val = Bm(Marked(d, o) \cap Cover(k))
      BY <1>0, <2>1
    <3> HIDE DEF g
    <3> QED
      BY <1>2, <1>6, <3>1
  <2>2. CASE all[i] = end
    BY <1>3, <1>6, <2>2
  <2> QED
    BY <1>4, <1>5, <2>1, <2>2 DEF Joins
<1>7. ASSUME NEW b \in Block PROVE d[b] = g[b] \/ \E i \in DOMAIN all : all[i].at = b
  <2>1. CASE b \in NewRun(o)
    <3> DEFINE k == b - o.base
    <3>1. k \in 0 .. Bmbs(o.total) - 1 /\ o.base + k = b
      BY <1>1, <2>1 DEF NewRun, Run
    <3> HIDE DEF k
    <3>2. \/ d[b] = g[b]
          \/ \E j \in DOMAIN ws : ws[j].at = b
      BY <1>0, <1>2, <3>1
    <3>3. \A j \in DOMAIN ws : \E i \in DOMAIN all : all[i] = ws[j]
      BY <1>4 DEF Joins
    <3> QED
      BY <3>2, <3>3
  <2>2. CASE b = o.total - 1
    BY <1>4, <1>5, <2>2 DEF Joins
  <2>3. CASE b \notin NewRun(o) /\ b # o.total - 1
    BY <2>3 DEF Planned
  <2> QED
    BY <2>1, <2>2, <2>3
<1> HIDE DEF g
<1>8. Toward(d, all, g)
  BY <1>6, <1>7 DEF Toward
<1> QED
  BY <1>8 DEF all, g

\* Which blocks a bitmap block speaks of.
LEMMA Ranges ==
    ASSUME NEW t \in Nat, t > 0, NEW k \in Nat, NEW b \in Cover(k)
    PROVE  /\ b \in Nat
           /\ b < t => k < Bmbs(t)
           /\ b >= t - 1 => k >= Bmbs(t) - 1
           /\ k >= Bmbs(t) => b >= t
           /\ k < Bmbs(t) - 1 => b < t - 1
<1>1. b \in Nat /\ Of(b) = k
  BY Covered
<1>2. Bmbs(t) \in Nat /\ Of(t - 1) = Bmbs(t) - 1 /\ t - 1 \in Nat
  BY SizedBitmap
<1>3. b < t => Of(b) \in 0 .. Bmbs(t) - 1
  BY <1>1, InTheBitmap
<1>4. b >= t - 1 => Of(t - 1) <= Of(b)
  BY <1>1, <1>2, InOrder
<1> QED
  BY <1>1, <1>2, <1>3, <1>4

LEMMA FreeOf == ASSUME NEW S PROVE FreeIn(Bm(S)) = S
  BY DEF FreeIn, Bm

\* The volume that is resized.
LEMMA Resized ==
    ASSUME TInv, IsRoot(disk, 0), Orderly(disk, Total)
    PROVE  /\ Total \in Nat /\ Total >= 2 /\ Base \in Nat /\ 1 < Base /\ Old = Bmbs(Total)
           /\ Old \in Nat /\ Old > 0 /\ Base + Old < Total /\ Total <= LastBlock + 1
           /\ LaidAt(disk, Total, Base, BitsFrom(disk, Base, Total))
           /\ \A k \in 0 .. Old - 1 : Free(k) = BitsFrom(disk, Base, Total) \cap Cover(k)
<1>1. /\ Total \in Nat /\ Total >= 2 /\ Base \in Nat /\ Base > 1 /\ Old \in Nat /\ Old > 0
      /\ Base + Old < Total /\ Total <= LastBlock + 1 /\ disk \in [Block -> Good]
  BY VolumeFields DEF TInv
<1>2. disk[0].total = Total /\ Base = disk[0].base /\ Old = Bmbs(Total)
  BY DEF Total, Base, Old
<1>3. LaidAt(disk, Total, Base, BitsFrom(disk, Base, Total))
  BY <1>1, <1>2, Laid
<1> DEFINE free == BitsFrom(disk, Base, Total)
<1> HIDE DEF free
<1>4. \A k \in 0 .. Old - 1 : Free(k) = free \cap Cover(k)
  BY <1>2, <1>3, FreeOf DEF Free, LaidAt, free
<1> QED
  BY <1>1, <1>2, <1>3, <1>4 DEF free

LEMMA GrowsLast ==
    ASSUME TInv, IsRoot(disk, 0), Orderly(disk, Total), NEW new \in Nat, new > Total,
           Bmbs(new) = Old, NEW o, o.kind = "grow", o.old = Total, o.total = new, o.base = Base
    PROVE  Puts(disk, o, << LastEdit(new) >>)
<1> DEFINE free == BitsFrom(disk, Base, Total)
           w == LastEdit(new)
           freed == {b \in Cover(Old - 1) : b >= Total - 1 /\ b <= new - 2}
<1>0. /\ LaidAt(disk, Total, Base, free)
      /\ \A k \in 0 .. Old - 1 : Free(k) = free \cap Cover(k)
  BY Resized
<1>2. /\ Marked(disk, o) = NewFree(disk, o) /\ OldFree(disk, o) = free
      /\ OldRun(disk, o) = Run(Base, Total) /\ NewRun(o) = Run(Base, Total)
  BY Resized DEF Marked, OldFree, OldRun, NewRun, Run, Base
<1> HIDE DEF free
<1>1. /\ Total \in Nat /\ Total >= 2 /\ Base \in Nat /\ 1 < Base /\ Old = Bmbs(Total)
      /\ Old \in Nat /\ Old > 0 /\ Base + Old < Total
      /\ \A k \in 0 .. Old - 1 : /\ disk[Base + k] = Bm(free \cap Cover(k))
                                 /\ Free(k) = free \cap Cover(k)
      /\ \A b \in free : b \in Nat /\ b < Total - 1 /\ b \notin Run(Base, Total)
  <2>1. /\ Total \in Nat /\ Total >= 2 /\ Base \in Nat /\ 1 < Base /\ Old = Bmbs(Total)
        /\ Old \in Nat /\ Old > 0 /\ Base + Old < Total
    BY Resized
  <2> QED
    BY <1>0, <2>1 DEF LaidAt, Block
<1>3. \A b \in Run(Base, Total) : b \in Int /\ b < Total - 1
  BY <1>1 DEF Run
<1>4. ASSUME NEW k \in 0 .. Old - 1, NEW b \in Cover(k)
      PROVE  /\ b \in Marked(disk, o) <=>
                    b \in free \/ (b >= Total - 1 /\ b <= new - 2)
             /\ k < Old - 1 => b < Total - 1
             /\ b \in Nat
  <2>1. k \in Nat /\ b \in Nat /\ (k < Old - 1 => b < Total - 1)
    BY <1>1, Ranges
  <2>2. b \in Marked(disk, o) <=>
            /\ b \in free \/ b \in Run(Base, Total) \/ (b >= Total - 1 /\ b <= new - 2)
            /\ b \notin Run(Base, Total) /\ b < new - 1
    BY <1>1, <1>2, <2>1 DEF NewFree
  <2> QED
    BY <1>1, <1>3, <2>1, <2>2
<1>5. w.at = Base + (Old - 1) /\ w.val = Bm(Marked(disk, o) \cap Cover(Old - 1))
  <2>1. w = Write(Base + (Old - 1), Bm((Free(Old - 1) \cup freed) \ {new - 1}), TRUE)
    BY DEF LastEdit
  <2>2. Old - 1 \in 0 .. Old - 1
    BY <1>1
  <2>3. ASSUME NEW b \in Cover(Old - 1)
        PROVE  b \in (Free(Old - 1) \cup freed) \ {new - 1} <=> b \in Marked(disk, o)
    <3>1. b \in Nat /\ (b \in Marked(disk, o) <=> b \in free \/ (b >= Total - 1 /\ b <= new - 2))
      BY <1>4, <2>2
    <3>2. b \in Free(Old - 1) <=> b \in free
      BY <1>1, <2>2
    <3>3. b \in free => b < Total - 1
      BY <1>1
    <3>4. b \in freed <=> b >= Total - 1 /\ b <= new - 2
      OBVIOUS
    <3> HIDE DEF freed
    <3> QED
      BY <1>1, <3>1, <3>2, <3>3, <3>4
  <2>4. (Free(Old - 1) \cup freed) \ {new - 1} \subseteq Cover(Old - 1)
    BY <1>1, <2>2
  <2> DEFINE S == (Free(Old - 1) \cup freed) \ {new - 1}
  <2> HIDE DEF freed
  <2>5. S = Marked(disk, o) \cap Cover(Old - 1)
    BY <2>3, <2>4
  <2> HIDE DEF S, w
  <2>6. w = Write(Base + (Old - 1), Bm(S), TRUE)
    BY <2>1 DEF S
  <2> QED
    BY <2>5, <2>6 DEF Write
<1> HIDE DEF w
<1>6. ASSUME NEW k \in 0 .. Old - 1, k # Old - 1
      PROVE  disk[Base + k] = Bm(Marked(disk, o) \cap Cover(k))
  <2>1. k < Old - 1
    BY <1>1, <1>6
  <2>2. free \cap Cover(k) = Marked(disk, o) \cap Cover(k)
    BY <1>1, <1>4, <2>1
  <2> QED
    BY <1>1, <2>2
<1>7. DOMAIN << w >> = {1} /\ << w >>[1] = w /\ Old - 1 \in 0 .. Old - 1
  BY <1>1
<1> QED
  BY <1>5, <1>6, <1>7 DEF Puts, w

LEMMA GrowsMoved ==
    ASSUME TInv, IsRoot(disk, 0), Orderly(disk, Total), NEW new \in Nat, new > Total,
           new - Total > Bmbs(new), Bmbs(new) > Old,
           NEW o, o.kind = "grow", o.old = Total, o.total = new, o.base = Total
    PROVE  Puts(disk, o, WritesOf([k \in 0 .. Bmbs(new) - 1 |-> MovedBitmap(new, k)]))
<1> DEFINE free == BitsFrom(disk, Base, Total)
           N == 0 .. Bmbs(new) - 1
           f == [k \in N |-> MovedBitmap(new, k)]
<1>0. /\ LaidAt(disk, Total, Base, free)
      /\ \A k \in 0 .. Old - 1 : Free(k) = free \cap Cover(k)
  BY Resized
<1>2. /\ Marked(disk, o) = NewFree(disk, o) /\ OldFree(disk, o) = free
      /\ OldRun(disk, o) = Run(Base, Total) /\ NewRun(o) = Run(Total, new)
  BY DEF Marked, OldFree, OldRun, NewRun, Base
<1> HIDE DEF free
<1>20. Bmbs(new) \in Nat
  BY BitmapSize
<1>1. /\ Total \in Nat /\ Total >= 2 /\ Base \in Nat /\ 1 < Base /\ Old = Bmbs(Total)
      /\ Old \in Nat /\ Old > 0 /\ Base + Old < Total /\ Bmbs(new) \in Nat
      /\ \A k \in 0 .. Old - 1 : Free(k) = free \cap Cover(k)
      /\ \A b \in free : b \in Nat /\ b < Total - 1 /\ b \notin Run(Base, Total)
  <2>1. /\ Total \in Nat /\ Total >= 2 /\ Base \in Nat /\ 1 < Base /\ Old = Bmbs(Total)
        /\ Old \in Nat /\ Old > 0 /\ Base + Old < Total
    BY Resized
  <2> QED
    BY <1>0, <1>20, <2>1 DEF LaidAt, Block
<1>3. ASSUME NEW k \in N PROVE f[k].at = Total + k /\ f[k].val = Bm(Marked(disk, o) \cap Cover(k))
  <2> DEFINE used == (Total .. Total + Bmbs(new) - 1) \cup {new - 1}
             was == IF k < Old THEN Free(k) ELSE Cover(k)
             freed == (Base .. Base + Old - 1) \cup {Total - 1} \cup (Total .. new - 1)
             S == {b \in Cover(k) : b < new /\ b \notin used /\ (b \in was \/ b \in freed)}
  <2>1. f[k] = Write(Total + k, Bm(S), FALSE)
    BY DEF MovedBitmap
  <2>2. ASSUME NEW b \in Cover(k) PROVE b \in S <=> b \in Marked(disk, o)
    <3>1. k \in Nat /\ b \in Nat /\ (k >= Old => b >= Total)
      BY <1>1, Ranges
    <3>2. b \in was <=> IF k < Old THEN b \in free ELSE TRUE
      BY <1>1
    <3>3. b \in used <=> b \in Run(Total, new) \/ b = new - 1
      BY DEF Run
    <3>4. b \in freed <=> b \in Run(Base, Total) \/ (b >= Total - 1 /\ b <= new - 1)
      BY <1>1, <3>1 DEF Run
    <3>5. b \in Marked(disk, o) <=>
              /\ b \in free \/ b \in Run(Base, Total) \/ (b >= Total - 1 /\ b <= new - 2)
              /\ b \notin Run(Total, new) /\ b < new - 1
      BY <1>1, <1>2, <3>1 DEF NewFree
    <3>6. b \in S <=> b < new /\ b \notin used /\ (b \in was \/ b \in freed)
      OBVIOUS
    <3> HIDE DEF S, used, was, freed
    <3> QED
      BY <1>1, <3>1, <3>2, <3>3, <3>4, <3>5, <3>6
  <2>3. S \subseteq Cover(k)
    OBVIOUS
  <2> HIDE DEF S
  <2>4. S = Marked(disk, o) \cap Cover(k)
    BY <2>2, <2>3
  <2> QED
    BY <2>1, <2>4 DEF Write
<1>4. N \in SUBSET (0 .. Bmbs(new)) /\ DOMAIN f = N
  BY <1>1
<1> DEFINE V == {f[k] : k \in N}
<1>5. f \in [N -> V]
  OBVIOUS
<1> HIDE DEF f, N, V
<1>6. Lists(WritesOf(f), N, f)
  BY <1>20, <1>4, <1>5, Written
<1>9. ASSUME NEW i \in DOMAIN WritesOf(f)
      PROVE  \E k \in N : /\ WritesOf(f)[i].at = o.base + k
                          /\ WritesOf(f)[i].val = Bm(Marked(disk, o) \cap Cover(k))
  <2>1. PICK k \in N : WritesOf(f)[i] = f[k]
    BY <1>6 DEF Lists
  <2> QED
    BY <1>3, <2>1
<1>10. \A k \in N : \E i \in DOMAIN WritesOf(f) : WritesOf(f)[i].at = o.base + k
  BY <1>3, <1>6 DEF Lists
<1>11. Puts(disk, o, WritesOf(f))
  BY <1>9, <1>10 DEF Puts, N
<1> QED
  BY <1>11 DEF f, N

LEMMA SealsLast ==
    ASSUME TInv, IsRoot(disk, 0), Orderly(disk, Total), NEW new \in Nat, new > 0, new < Total,
           NEW o, o.kind = "shrink", o.old = Total, o.total = new, o.base = Base
    PROVE  Puts(disk, o, << Seal(new) >>)
<1> DEFINE free == BitsFrom(disk, Base, Total)
           w == Seal(new)
           m == Bmbs(new) - 1
<1>0. /\ LaidAt(disk, Total, Base, free)
      /\ \A k \in 0 .. Old - 1 : Free(k) = free \cap Cover(k)
      /\ Total \in Nat /\ Base \in Nat /\ Old = Bmbs(Total) /\ Old \in Nat
  BY Resized
<1>1. /\ Total \in Nat /\ Base \in Nat /\ Old = Bmbs(Total) /\ Old \in Nat
      /\ \A k \in 0 .. Old - 1 : /\ disk[Base + k] = Bm(free \cap Cover(k))
                                 /\ Free(k) = free \cap Cover(k)
      /\ \A b \in free : b \in Nat
  <2> HIDE DEF free
  <2> QED
    BY <1>0 DEF LaidAt, Block
<1>2. m \in Nat /\ m = Bmbs(new) - 1 /\ m \in 0 .. Old - 1 /\ m \in 0 .. Bmbs(new) - 1
      /\ \A k \in 0 .. Bmbs(new) - 1 : k \in 0 .. Old - 1
  <2>1. Bmbs(new) \in Nat /\ Bmbs(new) > 0 /\ Bmbs(new) <= Old
    BY <1>1, SizedBitmap, MoreBitmap
  <2> QED
    BY <1>1, <2>1
<1>3. Marked(disk, o) = {b \in free : b < new - 1}
  BY DEF Marked, OldFree, Base
<1> HIDE DEF free, m
<1>4. w.at = Base + m /\ w.val = Bm(Marked(disk, o) \cap Cover(m))
  <2>1. w = Write(Base + m, Bm({b \in Free(m) : b < new - 1}), TRUE)
    BY DEF Seal, m
  <2>2. {b \in Free(m) : b < new - 1} = Marked(disk, o) \cap Cover(m)
    BY <1>1, <1>2, <1>3
  <2> QED
    BY <2>1, <2>2 DEF Write
<1> HIDE DEF w
<1>5. ASSUME NEW k \in 0 .. Bmbs(new) - 1, k # m
      PROVE  disk[Base + k] = Bm(Marked(disk, o) \cap Cover(k))
  <2>1. k < Bmbs(new) - 1 /\ k \in Nat /\ k \in 0 .. Old - 1
    BY <1>2, <1>5
  <2>2. \A b \in Cover(k) : b < new - 1
    BY <2>1, Ranges
  <2>3. free \cap Cover(k) = Marked(disk, o) \cap Cover(k)
    BY <1>3, <2>2
  <2> QED
    BY <1>1, <2>1, <2>3
<1>6. DOMAIN << w >> = {1} /\ << w >>[1] = w
  OBVIOUS
<1> QED
  BY <1>2, <1>4, <1>5, <1>6 DEF Puts, w

\* The bitmap goes on where it ends: what is edited, added and left.
LEMMA GrowsNatural ==
    ASSUME TInv, IsRoot(disk, 0), Orderly(disk, Total), NEW new \in Nat, new > Total,
           Bmbs(new) > Old, Natural(new),
           NEW o, o.kind = "grow", o.old = Total, o.total = new, o.base = Base
    PROVE  Puts(disk, o, NaturalWrites(new))
<1> DEFINE free == BitsFrom(disk, Base, Total)
           marked == Marked(disk, o)
           N == 0 .. Bmbs(new) - 1
<1>1. /\ LaidAt(disk, Total, Base, free)
      /\ \A k \in 0 .. Old - 1 : Free(k) = free \cap Cover(k)
  BY Resized
<1>2. /\ Total \in Nat /\ Total >= 2 /\ Base \in Nat /\ 1 < Base /\ Old = Bmbs(Total)
      /\ Old \in Nat /\ Old > 0 /\ Base + Old < Total /\ Bmbs(new) \in Nat
  BY Resized, BitmapSize
<1>3. /\ Marked(disk, o) = NewFree(disk, o) /\ OldFree(disk, o) = free
      /\ OldRun(disk, o) = Run(Base, Total) /\ NewRun(o) = Run(Base, new)
  BY DEF Marked, OldFree, OldRun, NewRun, Base
<1> HIDE DEF free, marked
<1>4. /\ \A b \in free : b \in Nat /\ b < Total - 1
      /\ \A k \in 0 .. Old - 1 : disk[Base + k] = Bm(free \cap Cover(k))
  BY <1>1, <1>2 DEF LaidAt, Block
<1>5. \A p \in Positions(new) : p \in Nat /\ Of(p) < Old /\ Of(p) \in Needed(new)
  <2>1. \A p \in Positions(new) : p \in Nat
    BY <1>2 DEF Positions
  <2> QED
    BY <2>1 DEF Natural, Reaches, Needed
<1>6. ASSUME NEW b \in Nat
      PROVE  b \in marked <=>
                /\ b \in free \/ (b >= Total - 1 /\ b <= new - 2)
                /\ b \notin Run(Base, Total) /\ b \notin Positions(new) /\ b < new - 1
  <2>1. b \in Run(Base, new) <=> b \in Run(Base, Total) \/ b \in Positions(new)
    BY <1>2 DEF Run, Positions
  <2>2. b \in marked <=>
           /\ b \in free \/ b \in Run(Base, Total) \/ b \in Total - 1 .. new - 2
           /\ b \notin Run(Base, new) /\ b < new - 1
    BY <1>3 DEF NewFree, marked
  <2>3. b \in Total - 1 .. new - 2 <=> b >= Total - 1 /\ b <= new - 2
    BY <1>2
  <2> QED
    BY <2>1, <2>2, <2>3
<1>7. \A b \in free : b \notin Run(Base, Total)
  BY <1>1 DEF LaidAt
<1>8. \A b \in Run(Base, Total) : b < Total - 1
  BY <1>2 DEF Run
<1>9. ASSUME NEW k \in 0 .. Old - 1, NEW b \in Cover(k)
      PROVE  b \in marked <=>
                /\ b \in Free(k) \/ (k = Old - 1 /\ b >= Total - 1)
                /\ b \notin Positions(new)
  <2>1. /\ b \in Nat /\ k \in Nat /\ (b >= Total - 1 => k >= Old - 1)
    BY <1>2, Ranges
  <2>2. b < new - 1
    <3>1. new > 0 /\ k < Bmbs(new) - 1
      BY <1>2
    <3> QED
      BY <2>1, <3>1, Ranges
  <2>3. b \in Free(k) <=> b \in free
    BY <1>1
  <2> QED
    BY <1>2, <1>4, <1>6, <1>7, <1>8, <2>1, <2>2, <2>3
<1>10. ASSUME NEW k \in 0 .. Old - 1
       PROVE  /\ NaturalEdit(new, k).at = Base + k
              /\ NaturalEdit(new, k).val = Bm(marked \cap Cover(k))
  <2> DEFINE tail == IF k = Old - 1 THEN {b \in Cover(k) : b >= Total - 1} ELSE {}
             S == (Free(k) \cup tail) \ Positions(new)
  <2>1. NaturalEdit(new, k) = Write(Base + k, Bm(S), TRUE)
    BY DEF NaturalEdit
  <2>2. S \subseteq Cover(k)
    BY <1>1
  <2>3. \A b \in Cover(k) : b \in tail <=> k = Old - 1 /\ b >= Total - 1
    OBVIOUS
  <2> HIDE DEF tail
  <2>4. \A b \in Cover(k) : b \in S <=> b \in marked
    BY <1>9, <2>3
  <2> HIDE DEF S
  <2>5. S = marked \cap Cover(k)
    BY <2>2, <2>4
  <2> QED
    BY <2>1, <2>5 DEF Write
<1>11. ASSUME NEW k \in Old .. Bmbs(new) - 1
       PROVE  /\ NewBitmap(new, k).at = Base + k
              /\ NewBitmap(new, k).val = Bm(marked \cap Cover(k))
  <2>1. k \in Nat /\ k >= Old
    BY <1>2
  <2>2. ASSUME NEW b \in Cover(k) PROVE b \in marked <=> b < new - 1
    <3>1. b \in Nat /\ Of(b) = k /\ b >= Total
      BY <1>2, <2>1, Ranges, Covered
    <3>2. b \notin Positions(new)
      BY <1>2, <1>5, <2>1, <3>1
    <3> QED
      BY <1>2, <1>6, <1>8, <3>1, <3>2
  <2>3. {b \in Cover(k) : b < new - 1} = marked \cap Cover(k)
    BY <2>2
  <2> QED
    BY <2>3 DEF NewBitmap, Write
<1>12. ASSUME NEW k \in 0 .. Old - 1, k \notin Needed(new)
       PROVE  disk[Base + k] = Bm(marked \cap Cover(k))
  <2>1. k # Old - 1
    BY <1>12 DEF Needed
  <2>2. \A b \in Cover(k) : b \notin Positions(new)
    <3>1. \A b \in Cover(k) : Of(b) = k
      BY <1>2, Covered
    <3> QED
      BY <1>5, <1>12, <3>1
  <2>3. free \cap Cover(k) = marked \cap Cover(k)
    BY <1>1, <1>9, <2>1, <2>2
  <2> QED
    BY <1>4, <2>3
<1> DEFINE S == Needed(new) \ {Old - 1}
           M == Old .. Bmbs(new) - 1
           f == [k \in S |-> NaturalEdit(new, k)]
           g == [k \in M |-> NewBitmap(new, k)]
           V == {NaturalEdit(new, k) : k \in 0 .. Old - 1} \cup {NewBitmap(new, k) : k \in M}
           first == << NaturalEdit(new, Old - 1) >>
           ws == first \o WritesOf(f) \o WritesOf(g)
<1>13. NaturalWrites(new) = ws
  BY DEF NaturalWrites
<1>14. Needed(new) \subseteq 0 .. Old - 1 /\ Old - 1 \in 0 .. Old - 1
  <2>1. ASSUME NEW p \in Positions(new) PROVE Of(p) \in 0 .. Old - 1
    <3>1. p \in Nat /\ Of(p) < Old /\ Of(p) \in Nat
      BY <1>5, InItsBlock
    <3> QED
      BY <1>2, <3>1
  <2> QED
    BY <1>2, <2>1 DEF Needed
<1>15. f \in [S -> V] /\ g \in [M -> V] /\ first \in Seq(V)
  <2>1. NaturalEdit(new, Old - 1) \in V
    BY <1>14
  <2>2. \A k \in S : NaturalEdit(new, k) \in V
    BY <1>14
  <2>3. \A k \in M : NewBitmap(new, k) \in V
    OBVIOUS
  <2> HIDE DEF V, S, M
  <2> QED
    BY <2>1, <2>2, <2>3
<1>16. S \in SUBSET (0 .. Old) /\ M \in SUBSET (0 .. Bmbs(new))
  BY <1>2, <1>14
<1>17. DOMAIN first = {1} /\ first[1] = NaturalEdit(new, Old - 1)
  OBVIOUS
<1>18. /\ \A k \in S : f[k] = NaturalEdit(new, k)
       /\ \A k \in M : g[k] = NewBitmap(new, k)
  OBVIOUS
<1>19. S \subseteq 0 .. Old - 1
  BY <1>14
<1>20. \A k \in N : k \in S \/ k = Old - 1 \/ k \in M \/ (k \in 0 .. Old - 1 /\ k \notin Needed(new))
  BY <1>2
<1>21. \A k \in 0 .. Old - 1 : k \in N
  BY <1>2
<1>22. \A k \in M : k \in N
  BY <1>2
<1> HIDE DEF V, f, g, first, S, M, N
<1>23. /\ WritesOf(f) \in Seq(V) /\ Lists(WritesOf(f), S, f)
       /\ WritesOf(g) \in Seq(V) /\ Lists(WritesOf(g), M, g)
  BY <1>2, <1>15, <1>16, Written
<1>24. first \o WritesOf(f) \in Seq(V)
  BY <1>15, <1>23, ConcatProperties
<1>25. Joins(first \o WritesOf(f), first, WritesOf(f)) /\ Joins(ws, first \o WritesOf(f), WritesOf(g))
  BY <1>15, <1>23, <1>24, Joined
<1> DEFINE fits(w, k) == w.at = o.base + k /\ w.val = Bm(marked \cap Cover(k))
<1>26. /\ \A k \in 0 .. Old - 1 : fits(NaturalEdit(new, k), k)
       /\ \A k \in M : fits(NewBitmap(new, k), k)
  BY <1>10, <1>11 DEF M
<1> HIDE DEF fits, ws
<1>27. ASSUME NEW i \in DOMAIN ws PROVE \E k \in N : fits(ws[i], k)
  <2>1. \A j \in DOMAIN first : fits(first[j], Old - 1)
    BY <1>14, <1>17, <1>26
  <2>2. ASSUME NEW j \in DOMAIN WritesOf(f) PROVE \E k \in N : fits(WritesOf(f)[j], k)
    <3>1. PICK k \in S : WritesOf(f)[j] = f[k]
      BY <1>23 DEF Lists
    <3>2. k \in 0 .. Old - 1 /\ WritesOf(f)[j] = NaturalEdit(new, k)
      BY <1>18, <1>19, <3>1
    <3> QED
      BY <1>21, <1>26, <3>2
  <2>3. ASSUME NEW j \in DOMAIN WritesOf(g) PROVE \E k \in N : fits(WritesOf(g)[j], k)
    <3>1. PICK k \in M : WritesOf(g)[j] = g[k]
      BY <1>23 DEF Lists
    <3>2. WritesOf(g)[j] = NewBitmap(new, k)
      BY <1>18, <3>1
    <3> QED
      BY <1>22, <1>26, <3>1, <3>2
  <2> QED
    BY <1>14, <1>21, <1>25, <2>1, <2>2, <2>3 DEF Joins
<1>28. ASSUME NEW k, k \in S \/ k = Old - 1 \/ k \in M
       PROVE  \E i \in DOMAIN ws : ws[i].at = o.base + k
  <2>1. CASE k \in S
    <3>1. \E i \in DOMAIN WritesOf(f) : WritesOf(f)[i] = NaturalEdit(new, k)
      <4>1. \E i \in DOMAIN WritesOf(f) : WritesOf(f)[i] = f[k]
        BY <1>23, <2>1 DEF Lists
      <4> QED
        BY <1>18, <2>1, <4>1
    <3>2. \E i \in DOMAIN ws : ws[i] = NaturalEdit(new, k)
      BY <1>25, <3>1 DEF Joins
    <3> QED
      BY <1>19, <1>26, <2>1, <3>2 DEF fits
  <2>2. CASE k = Old - 1
    <3>1. \E i \in DOMAIN ws : ws[i] = NaturalEdit(new, k)
      BY <1>17, <1>25, <2>2 DEF Joins
    <3> QED
      BY <1>14, <1>26, <2>2, <3>1 DEF fits
  <2>3. CASE k \in M
    <3>1. \E i \in DOMAIN WritesOf(g) : WritesOf(g)[i] = NewBitmap(new, k)
      <4>1. \E i \in DOMAIN WritesOf(g) : WritesOf(g)[i] = g[k]
        BY <1>23, <2>3 DEF Lists
      <4> QED
        BY <1>18, <2>3, <4>1
    <3>2. \E i \in DOMAIN ws : ws[i] = NewBitmap(new, k)
      BY <1>25, <3>1 DEF Joins
    <3> QED
      BY <1>26, <2>3, <3>2 DEF fits
  <2> QED
    BY <1>28, <2>1, <2>2, <2>3
<1>29. ASSUME NEW k \in N
       PROVE  \/ disk[o.base + k] = Bm(marked \cap Cover(k))
              \/ \E i \in DOMAIN ws : ws[i].at = o.base + k
  BY <1>12, <1>20, <1>28
<1>30. Puts(disk, o, ws)
  BY <1>27, <1>29 DEF Puts, N, fits, marked
<1> QED
  BY <1>13, <1>30

\* The new volume is where Shape says, for a grow and for a shrink.
LEMMA GrownShape ==
    ASSUME TInv, IsRoot(disk, 0), NEW new \in Nat, new > Total, NEW moved,
           moved <=> Bmbs(new) > Old /\ ~Natural(new), moved => new - Total > Bmbs(new),
           NEW o, o.kind = "grow", o.old = Total, o.total = new,
           o.base = IF moved THEN Total ELSE Base
    PROVE  Shape(disk, o)
<1>1. /\ Total \in Nat /\ Total >= 2 /\ Base \in Nat /\ Base > 1 /\ Old \in Nat /\ Old > 0
      /\ Bmbs(new) \in Nat /\ Old = Bmbs(Total)
  BY VolumeFields, BitmapSize DEF Old
<1>2. Old <= Bmbs(new)
  BY <1>1, MoreBitmap
<1>3. disk[0].total = Total /\ disk[0].base = Base
  BY DEF Total, Base
<1>4. 1 < o.base /\ o.base + Bmbs(o.total) < o.total /\ o.base \in {Base, Total}
  <2>1. CASE moved
    BY <1>1, <2>1
  <2>2. CASE ~moved
    <3>1. Base + Bmbs(new) < new
      BY <1>2, <1>1, <2>2, GrownInPlace
    <3> QED
      BY <1>1, <2>2, <3>1
  <2> QED
    BY <2>1, <2>2
<1>5. ASSUME NEW b \in NewRun(o)
      PROVE  b \in OldRun(disk, o) \/ b \in OldFree(disk, o) \/ b >= o.old
  <2>1. CASE moved
    BY <1>1, <2>1 DEF NewRun, Run
  <2>2. CASE ~moved
    <3>1. b \in Base .. Base + Bmbs(new) - 1
      BY <2>2 DEF NewRun, Run
    <3>2. b \in Base .. Base + Old - 1 \/ b \in Positions(new)
      BY <1>1, <1>2, <3>1 DEF Positions
    <3>3. CASE b \in Base .. Base + Old - 1
      BY <1>1, <1>3, <3>3 DEF OldRun, Run
    <3>4. CASE b \in Positions(new)
      <4>1. Bmbs(new) > Old /\ b \in Nat
        BY <1>1, <3>1, <3>4 DEF Positions
      <4>2. Of(b) < Old /\ b \in Free(Of(b)) /\ Of(b) \in Nat
        BY <2>2, <3>4, <4>1, InItsBlock DEF Natural, Reaches
      <4>3. Of(b) \in 0 .. Old - 1
        BY <1>1, <4>2
      <4>4. b \in BitsFrom(disk, Base, Total)
        BY <1>1, <4>2, <4>3 DEF BitsFrom, Free
      <4> QED
        BY <1>3, <4>4 DEF OldFree
    <3> QED
      BY <3>2, <3>3, <3>4
  <2> QED
    BY <2>1, <2>2
<1> QED
  BY <1>1, <1>3, <1>4, <1>5 DEF Shape

LEMMA ShrunkShape ==
    ASSUME TInv, IsRoot(disk, 0), NEW new \in Nat, new < Total, Gate(new),
           NEW o, o.kind = "shrink", o.old = Total, o.total = new, o.base = Base
    PROVE  Shape(disk, o)
<1>1. /\ Total \in Nat /\ Total >= 2 /\ Base \in Nat /\ Base > 1 /\ Old \in Nat
      /\ Bmbs(new) \in Nat /\ Old = Bmbs(Total) /\ new >= 8 /\ Base + Bmbs(new) < new
  BY VolumeFields, BitmapSize DEF Old, Gate
<1>2. Bmbs(new) <= Old
  BY <1>1, MoreBitmap
<1>3. disk[0].total = Total /\ disk[0].base = Base
  BY DEF Total, Base
<1>4. NewRun(o) \subseteq OldRun(disk, o)
  BY <1>1, <1>2, <1>3 DEF NewRun, OldRun, Run
<1>5. ASSUME NEW b \in new - 1 .. Total - 2 PROVE b \in OldFree(disk, o)
  <2>1. b \in Nat /\ new - 1 \in Nat /\ new - 1 <= b /\ b < Total - 1
    BY <1>1
  <2>2. Of(b) \in 0 .. Old - 1 /\ Of(b) \in Nat /\ Of(new - 1) \in Nat /\ b \in Cover(Of(b))
        /\ Of(new - 1) <= Of(b)
    BY <1>1, <2>1, InTheBitmap, InItsBlock, InOrder
  <2>3. Of(b) \in Of(new - 1) .. Old - 1
    BY <1>1, <2>2
  <2>4. b \in Free(Of(b))
    BY <2>1, <2>2, <2>3 DEF Gate, TailFree
  <2>5. b \in BitsFrom(disk, Base, Total)
    BY <1>1, <2>2, <2>4 DEF BitsFrom, Free
  <2> QED
    BY <1>3, <2>5 DEF OldFree
<1> QED
  BY <1>1, <1>3, <1>4, <1>5 DEF Shape

LEMMA AtMost ==
    ASSUME NEW x \in Nat, NEW y \in Nat, NEW p \in Nat \ {0}
    PROVE  x <= y \div p <=> x * p <= y
<1> DEFINE q == y \div p
<1>1. q \in Nat /\ q * p <= y /\ y < (q + 1) * p
  BY Quotient
<1> HIDE DEF q
<1>2. x * p \in Nat /\ q * p \in Nat /\ (q + 1) * p \in Nat
  BY <1>1, ProductInNat
<1>3. ASSUME x <= q PROVE x * p <= y
  <2>1. (q - x) * p \in Nat
    <3>1. q - x \in Nat
      BY <1>1, <1>3
    <3> QED
      BY <3>1, ProductInNat
  <2>2. (q - x) * p = q * p - x * p
    BY <1>1
  <2> QED
    BY <1>1, <1>2, <2>1, <2>2
<1>4. ASSUME x * p <= y PROVE x <= q
  <2>1. x * p < (q + 1) * p /\ q + 1 \in Nat
    BY <1>1, <1>2, <1>4
  <2>2. x < q + 1
    BY <2>1, FewerTimes
  <2> QED
    BY <1>1, <2>2
<1> QED
  BY <1>3, <1>4 DEF q

\* A volume no larger than its partition, and no smaller than its cylinders are many,
\* grows by no more than its partition.
LEMMA GrownFits ==
    ASSUME TInv, IsRoot(disk, 0), NEW n \in Sizes, n > cyls, NEW exact \in BOOLEAN,
           NEW o, o.total = NewTotal(n, exact), o.new = n, o.exact = exact, o.old = Total
    PROVE  Fitting(cyls, o)
<1>1. exact => o.total = Blocks(n)
  BY DEF NewTotal
<1>2. ASSUME ~exact, cyls <= Total, Total <= Blocks(cyls)
      PROVE  o.total <= Blocks(n)
  <2> DEFINE q == Total \div cyls
             m == n - cyls
  <2>1. /\ cyls \in Nat \ {0} /\ n \in Nat /\ m \in Nat /\ Total \in Nat
        /\ Cyl \in Nat /\ Phys \in Nat \ {0} /\ Blocks(n) \in Nat
    <3>1. cyls \in Sizes
      BY DEF TInv, TypeOK
    <3> QED
      BY <3>1, Sized, VolumeFields, GeometryAssumption
  <2>2. q \in Nat /\ q * cyls <= Total /\ q >= 1
    BY <1>2, <2>1, Quotient, AtMost
  <2>3. o.total = Total + m * q
    <3>1. Max({1, q}) = q
      <4>1. 1 \in Int /\ q \in Int /\ q >= 1
        BY <2>2
      <4> HIDE DEF q
      <4>2. Max({1, q}) \in {1, q} /\ Max({1, q}) >= q
        BY <4>1, MaxOfTwo, Zenon
      <4> QED
        BY <4>1, <4>2
    <3> QED
      BY <1>2, <3>1 DEF NewTotal
  <2> DEFINE c == cyls
             r == Total
  <2>4. r * Phys <= c * Cyl /\ c * Cyl \in Nat
    <3>1. c * Cyl \in Nat
      BY <2>1, ProductInNat
    <3> QED
      BY <1>2, <2>1, <3>1, AtMost DEF Blocks
  <2>5. c \in Nat \ {0} /\ r \in Nat /\ n = c + m
    BY <2>1
  <2> HIDE DEF q, m, c, r
  <2>6. q * Phys <= Cyl
    <3>1. (q * c) * Phys <= r * Phys
      <4>1. q * c \in Nat /\ r - q * c \in Nat
        BY <2>1, <2>2, <2>5, ProductInNat DEF c, r
      <4>2. (r - q * c) * Phys \in Nat
        BY <2>1, <4>1, ProductInNat
      <4> DEFINE z == q * c
      <4>3. z \in Nat /\ (r - z) * Phys \in Nat
        BY <4>1, <4>2
      <4> HIDE DEF z
      <4>4. (r - z) * Phys = r * Phys - z * Phys /\ z * Phys \in Nat /\ r * Phys \in Nat
        BY <2>1, <2>5, <4>3, ProductInNat
      <4>5. z * Phys <= r * Phys
        BY <4>3, <4>4
      <4> QED
        BY <4>5 DEF z
    <3>2. (q * c) * Phys = (q * Phys) * c
      BY <2>1, <2>2, <2>5
    <3>3. c * Cyl = Cyl * c
      BY <2>1, <2>5
    <3> DEFINE x == q * Phys
    <3>4. x \in Nat
      BY <2>1, <2>2, ProductInNat
    <3>5. x * c <= Cyl * c
      <4>1. (q * c) * Phys \in Int /\ r * Phys \in Int /\ Cyl * c \in Int
        BY <2>1, <2>2, <2>5
      <4> QED
        BY <2>4, <3>1, <3>2, <3>3, <4>1
    <3> HIDE DEF x
    <3>6. ~(Cyl * c < x * c)
      BY <2>1, <2>5, <3>4, <3>5
    <3>7. ~(Cyl < x)
      <4> SUFFICES ASSUME Cyl < x PROVE FALSE
        OBVIOUS
      <4>1. x - Cyl - 1 \in Nat
        BY <2>1, <3>4
      <4>2. (x - Cyl - 1) * c \in Nat /\ (x - Cyl - 1) * c = x * c - Cyl * c - c
        BY <2>1, <2>5, <3>4, <4>1, ProductInNat
      <4>3. x * c \in Int /\ Cyl * c \in Int
        BY <2>1, <2>5, <3>4
      <4> QED
        BY <2>5, <3>5, <4>2, <4>3
    <3> QED
      BY <2>1, <3>4, <3>7 DEF x
  <2>7. (r + m * q) * Phys <= n * Cyl
    <3>1. (m * q) * Phys = m * (q * Phys) /\ m * q \in Nat /\ m \in Nat
      BY <2>1, <2>2, ProductInNat
    <3> DEFINE x == q * Phys
               y == m * q
    <3>2. x \in Nat /\ x <= Cyl
      BY <2>1, <2>2, <2>6, ProductInNat
    <3>3. (r + y) * Phys = r * Phys + y * Phys
      BY <2>1, <2>5, <3>1
    <3>4. y * Phys = m * x
      BY <3>1
    <3> HIDE DEF x, y
    <3>5. m * x <= m * Cyl
      <4>1. Cyl - x \in Nat
        BY <2>1, <3>2
      <4>2. m * (Cyl - x) \in Nat /\ m * (Cyl - x) = m * Cyl - m * x
        BY <2>1, <3>2, <4>1, ProductInNat
      <4>3. m * Cyl \in Int /\ m * x \in Int
        BY <2>1, <3>2
      <4> QED
        BY <4>2, <4>3
    <3>6. n * Cyl = c * Cyl + m * Cyl
      BY <2>1, <2>5
    <3>7. r * Phys \in Int /\ m * x \in Int /\ c * Cyl \in Int /\ m * Cyl \in Int
      BY <2>1, <2>5, <3>2
    <3>8. (r + y) * Phys <= n * Cyl
      BY <2>4, <3>3, <3>4, <3>5, <3>6, <3>7
    <3> QED
      BY <3>8 DEF y
  <2>8. r + m * q \in Nat /\ n * Cyl \in Nat
    BY <2>1, <2>2, <2>5, ProductInNat
  <2>9. r + m * q <= (n * Cyl) \div Phys
    <3> DEFINE x == r + m * q
               y == n * Cyl
    <3>1. x \in Nat /\ y \in Nat /\ x * Phys <= y
      BY <2>7, <2>8
    <3> HIDE DEF x, y
    <3>2. x <= y \div Phys
      BY <2>1, <3>1, AtMost
    <3> QED
      BY <3>2 DEF x, y
  <2> QED
    BY <2>3, <2>9 DEF Blocks, r
<1>3. cyls <= Total /\ Total <= Blocks(cyls) => o.total <= Blocks(n)
  <2>1. Blocks(n) \in Nat
    BY Sized
  <2>2. ASSUME exact PROVE o.total <= Blocks(n)
    <3>1. o.total = Blocks(n)
      BY <1>1, <2>2
    <3> QED
      BY <2>1, <3>1
  <2> QED
    BY <1>2, <2>2
<1> QED
  BY <1>1, <1>3 DEF Fitting

LEMMA ShrunkFits ==
    ASSUME TInv, IsRoot(disk, 0), NEW n \in Sizes, n < cyls,
           NEW o, o.total = ShrunkTotal(n), o.new = n, o.exact = FALSE, o.old = Total
    PROVE  Fitting(cyls, o)
  BY ShrunkTotalInNat DEF Fitting

\* A resize begins on its way to the plan.
LEMMA TowardsBegin ==
    ASSUME TInv, IsRoot(disk, 0), NEW kind \in {"grow", "shrink"}, NEW n \in Sizes,
           NEW new \in Nat, NEW base \in Nat, NEW moved, NEW exact, NEW ws \in Seq(Plans),
           Begin(kind, n, new, base, moved, exact, ws),
           Shape(disk, op'), Fitting(cyls, op'), Orderly(disk, Total) => Puts(disk, op', ws)
    PROVE  Towards'
<1> DEFINE o == op'
           end == Write(new - 1, Root(new - 1, new, base, (LastSeq + 1) % SeqNums), FALSE)
<1>1. /\ o.kind = kind /\ o.new = n /\ o.total = new /\ o.old = Total /\ o.base = base
      /\ o.seq = LastSeq /\ o.exact = exact /\ o.todo = ws \o << end >>
      /\ pc' = "pre" /\ before' = disk /\ disk' = disk /\ cyls' = cyls /\ env' = env
  BY DEF Begin, NoOp
<1>2. Shape(before', op') /\ Fitting(cyls', op')
  BY <1>1
<1>3. ASSUME Orderly(disk, Total) PROVE Toward(disk, o.todo, Planned(disk, o))
  <2>1. disk \in [Block -> Good] /\ LastSeq \in 0 .. SeqNums - 1
    BY VolumeFields DEF TInv
  <2>2. Bmbs(new) \in Nat /\ base + Bmbs(new) < new
    BY <1>1, BitmapSize DEF Shape
  <2>3. end.at = o.total - 1 /\ end.val = EndOf(o)
    BY <1>1 DEF Write, EndOf
  <2>4. end \in Plans
    <3>1. new - 1 \in Nat /\ (LastSeq + 1) % SeqNums \in 0 .. SeqNums - 1
      BY <2>1, <2>2, Constants
    <3>2. Root(new - 1, new, base, (LastSeq + 1) % SeqNums) \in Contents
      BY <3>1, RootIsGood
    <3> QED
      BY <3>1, <3>2 DEF Write, Plans
  <2>5. Puts(disk, o, ws) /\ Shape(disk, o) /\ o.base \in Nat /\ o.total \in Nat
    BY <1>1, <1>3
  <2> HIDE DEF end, o
  <2>6. Toward(disk, ws \o << end >>, Planned(disk, o))
    BY <2>1, <2>3, <2>4, <2>5, Planning
  <2> QED
    BY <1>1, <2>6
<1>4. Regular' => Orderly(disk, Total)
  BY <1>1 DEF Regular
<1> QED
  BY <1>1, <1>2, <1>3, <1>4 DEF Towards

LEMMA TowardsGrow ==
    ASSUME TInv, NEW n \in Sizes, NEW exact \in BOOLEAN, Grow(n, exact) PROVE Towards'
<1> DEFINE new == NewTotal(n, exact)
           moved == Bmbs(new) > Old /\ ~Natural(new)
           base == IF moved THEN Total ELSE Base
<1>1. /\ n > cyls /\ IsRoot(disk, 0) /\ new > Total /\ (moved => new - Total > Bmbs(new))
      /\ Begin("grow", n, new, base, moved, exact, GrowWrites(new))
  BY DEF Grow
<1>2. new \in Nat /\ moved \in BOOLEAN /\ base \in Nat
  BY <1>1, NewTotalInNat, VolumeFields
<1>3. /\ op'.kind = "grow" /\ op'.old = Total /\ op'.total = new /\ op'.base = base
      /\ op'.new = n /\ op'.exact = exact
  BY <1>1 DEF Begin, NoOp
<1>4. Fitting(cyls, op')
  BY <1>1, <1>3, GrownFits
<1> HIDE DEF new
<1>5. Shape(disk, op')
  BY <1>1, <1>2, <1>3, GrownShape
<1>6. GrowWrites(new) \in Seq(Plans)
  BY <1>1, <1>2, GrowPlan, SafeSequence
<1>7. ASSUME Orderly(disk, Total) PROVE Puts(disk, op', GrowWrites(new))
  <2>1. Old \in Nat /\ Old = Bmbs(Total) /\ Total \in Nat /\ Bmbs(new) \in Nat
    BY <1>1, <1>2, VolumeFields, BitmapSize DEF Old
  <2>2. Old <= Bmbs(new)
    BY <1>1, <1>2, <2>1, MoreBitmap
  <2>3. CASE Bmbs(new) = Old
    <3>1. base = Base /\ GrowWrites(new) = << LastEdit(new) >>
      BY <2>1, <2>3 DEF GrowWrites
    <3> QED
      BY <1>1, <1>2, <1>3, <1>7, <2>3, <3>1, GrowsLast
  <2>4. CASE Bmbs(new) > Old /\ Natural(new)
    <3>1. base = Base /\ GrowWrites(new) = NaturalWrites(new)
      BY <2>1, <2>4 DEF GrowWrites
    <3> QED
      BY <1>1, <1>2, <1>3, <1>7, <2>4, <3>1, GrowsNatural
  <2>5. CASE Bmbs(new) > Old /\ ~Natural(new)
    <3>1. /\ base = Total /\ new - Total > Bmbs(new)
          /\ GrowWrites(new) = WritesOf([k \in 0 .. Bmbs(new) - 1 |-> MovedBitmap(new, k)])
      BY <1>1, <2>1, <2>5 DEF GrowWrites
    <3> QED
      BY <1>1, <1>2, <1>3, <1>7, <2>5, <3>1, GrowsMoved
  <2> QED
    BY <2>1, <2>2, <2>3, <2>4, <2>5
<1> HIDE DEF moved, base
<1>8. "grow" \in {"grow", "shrink"}
  OBVIOUS
<1> QED
  BY <1>1, <1>2, <1>4, <1>5, <1>6, <1>7, <1>8, TowardsBegin

LEMMA TowardsShrink == ASSUME TInv, NEW n \in Sizes, Shrink(n) PROVE Towards'
<1> DEFINE new == ShrunkTotal(n)
<1>1. /\ n < cyls /\ IsRoot(disk, 0) /\ Total \div cyls > 0
      /\ Gate(new) /\ Begin("shrink", n, new, Base, FALSE, FALSE, << Seal(new) >>)
  BY DEF Shrink
<1>2. new \in Nat /\ new < Total
  BY <1>1, ShrunkTotalInNat, ShrinksAtAll
<1>3. /\ op'.kind = "shrink" /\ op'.old = Total /\ op'.total = new /\ op'.base = Base
      /\ op'.new = n /\ op'.exact = FALSE
  BY <1>1 DEF Begin, NoOp
<1>4. Fitting(cyls, op')
  BY <1>1, <1>3, ShrunkFits
<1> HIDE DEF new
<1>5. Shape(disk, op')
  BY <1>1, <1>2, <1>3, ShrunkShape
<1>6. new > 0 /\ new <= Total /\ Base \in Nat
  BY <1>1, <1>2, VolumeFields DEF Gate
<1>7. << Seal(new) >> \in Seq(Plans)
  BY <1>1, <1>2, <1>6, SealIsSafe, Listed, SafeSequence
<1>8. Orderly(disk, Total) => Puts(disk, op', << Seal(new) >>)
  BY <1>1, <1>2, <1>3, <1>6, SealsLast
<1>9. "shrink" \in {"grow", "shrink"}
  OBVIOUS
<1> QED
  BY <1>1, <1>2, <1>4, <1>5, <1>6, <1>7, <1>8, <1>9, TowardsBegin

\* What is left to write says nothing of the volume.
Alike(o, p) ==
    /\ o.kind = p.kind /\ o.new = p.new /\ o.total = p.total /\ o.old = p.old
    /\ o.base = p.base /\ o.seq = p.seq /\ o.exact = p.exact

LEMMA SameOp ==
    ASSUME NEW o, NEW p, Alike(o, p), NEW d, NEW e, NEW c, NEW t
    PROVE  /\ Shape(d, o) <=> Shape(d, p)
           /\ Fitting(c, o) <=> Fitting(c, p)
           /\ Planned(d, o) = Planned(d, p) /\ Finished(d, o) = Finished(d, p)
           /\ Left(d, e, o, t) <=> Left(d, e, p, t)
<1>1. /\ o.kind = p.kind /\ o.new = p.new /\ o.total = p.total /\ o.old = p.old
      /\ o.base = p.base /\ o.seq = p.seq /\ o.exact = p.exact
  BY DEF Alike
<1>2. /\ OldRun(d, o) = OldRun(d, p) /\ NewRun(o) = NewRun(p) /\ OldFree(d, o) = OldFree(d, p)
      /\ EndOf(o) = EndOf(p) /\ StartOf(o) = StartOf(p)
  BY <1>1 DEF OldRun, NewRun, OldFree, EndOf, StartOf
<1>3. NewFree(d, o) = NewFree(d, p)
  BY <1>1, <1>2 DEF NewFree
<1>4. Marked(d, o) = Marked(d, p)
  BY <1>1, <1>2, <1>3 DEF Marked
<1>5. Shape(d, o) <=> Shape(d, p)
  BY <1>1, <1>2 DEF Shape
<1>6. Fitting(c, o) <=> Fitting(c, p)
  BY <1>1 DEF Fitting
<1>7. Planned(d, o) = Planned(d, p)
  BY <1>1, <1>2, <1>4 DEF Planned
<1>8. Finished(d, o) = Finished(d, p)
  BY <1>1, <1>2, <1>3 DEF Finished
<1>9. Left(d, e, o, t) <=> Left(d, e, p, t)
  BY <1>1, <1>2 DEF Left
<1> QED
  BY <1>5, <1>6, <1>7, <1>8, <1>9

\* The writes of a plan take the disk on.
LEMMA TowardsWrite ==
    ASSUME TInv, Towards, pc \in {"pre", "post"}, op.todo # <<>>, pc' = pc,
           clean' => disk' = [disk EXCEPT ![Head(op.todo).at] = Head(op.todo).val] /\ clean,
           before' = before, cyls' = cyls, env' = env, Alike(op', op), op'.todo = Tail(op.todo)
    PROVE  Towards'
<1>1. /\ disk \in [Block -> Good] /\ op.todo \in Seq(Plans)
  BY DEF TInv, OpType
<1>2. /\ Shape(before', op') <=> Shape(before, op)
      /\ Fitting(cyls', op') <=> Fitting(cyls, op)
      /\ Planned(before', op') = Planned(before, op) /\ Finished(before', op') = Finished(before, op)
  BY SameOp
<1>3. Regular' => Regular
  BY DEF Regular, Alike
<1>4. Shape(before, op) /\ Fitting(cyls, op)
  BY DEF Towards
<1>5. ASSUME clean', Regular'
      PROVE  /\ pc = "pre" => Toward(disk', op'.todo, Planned(before, op))
             /\ pc = "post" => Toward(disk', op'.todo, Finished(before, op))
  <2>1. /\ pc = "pre" => Toward(disk, op.todo, Planned(before, op))
        /\ pc = "post" => Toward(disk, op.todo, Finished(before, op))
    BY <1>3, <1>5 DEF Towards
  <2>2. disk' = [disk EXCEPT ![Head(op.todo).at] = Head(op.todo).val]
    BY <1>5
  <2>3. ASSUME NEW g, Toward(disk, op.todo, g) PROVE Toward(disk', op'.todo, g)
    <3>1. Toward([disk EXCEPT ![Head(op.todo).at] = Head(op.todo).val], Tail(op.todo), g)
      BY <1>1, <2>3, OnTheWay
    <3> QED
      BY <2>2, <3>1
  <2> QED
    BY <2>1, <2>3
<1> QED
  BY <1>2, <1>4, <1>5 DEF Towards

LEMMA TowardsPreWrite == ASSUME TInv, Towards, PreWrite PROVE Towards'
<1> DEFINE w == Head(op.todo)
<1>1. /\ pc = "pre" /\ op.todo # <<>>
      /\ \/ Refused(w.at, w.val) /\ Fail
         \/ /\ Reported(w.at, w.val)
            /\ op' = [op EXCEPT !.todo = Tail(@), !.undo = Saved(w) \o @]
            /\ UNCHANGED <<pc, inhibited>> /\ Rest
  BY DEF PreWrite, Put, Refused, Reported
<1>2. CASE Fail
  BY <1>2 DEF Fail, Towards
<1>3. ASSUME Reported(w.at, w.val), op' = [op EXCEPT !.todo = Tail(@), !.undo = Saved(w) \o @],
             UNCHANGED <<pc, inhibited>>, Rest
      PROVE  Towards'
  <2>1. op \in OpType
    BY DEF TInv
  <2>2. Alike(op', op) /\ op'.todo = Tail(op.todo)
    <3> DEFINE u == Saved(w) \o op.undo
    <3>1. op' = [op EXCEPT !.todo = Tail(op.todo), !.undo = u]
      BY <1>3, <2>1 DEF OpType
    <3> HIDE DEF u, w
    <3> QED
      BY <2>1, <3>1 DEF OpType, Alike
  <2>3. clean' => disk' = [disk EXCEPT ![w.at] = w.val] /\ clean
    BY <1>3 DEF Reported
  <2>4. pc' = pc /\ before' = before /\ cyls' = cyls /\ env' = env
    BY <1>3 DEF Rest
  <2>5. pc \in {"pre", "post"}
    BY <1>1
  <2> QED
    BY <1>1, <2>2, <2>3, <2>4, <2>5, TowardsWrite
<1> QED
  BY <1>1, <1>2, <1>3

LEMMA TowardsPostWrite == ASSUME TInv, Towards, PostWrite PROVE Towards'
<1> DEFINE w == Head(op.todo)
<1>1. pc = "post" /\ op.todo # <<>> /\ Tried(w.at, w.val) /\ Enter("post", Tail(op.todo))
  BY DEF PostWrite, Try, Tried
<1>2. op \in OpType
  BY DEF TInv
<1>3. Alike(op', op) /\ op'.todo = Tail(op.todo)
  BY <1>1, <1>2 DEF Enter, OpType, Alike
<1>4. clean' => disk' = [disk EXCEPT ![w.at] = w.val] /\ clean
  BY <1>1 DEF Tried
<1>5. pc' = pc /\ before' = before /\ cyls' = cyls /\ env' = env /\ pc \in {"pre", "post"}
  BY <1>1 DEF Enter, Rest
<1> QED
  BY <1>1, <1>3, <1>4, <1>5, TowardsWrite

\* Where the old volume and the new one have their parts.
LaidOut(d, o) ==
    /\ LaidAt(d, o.old, d[0].base, OldFree(d, o))
    /\ 1 < o.base /\ Bmbs(o.total) \in Nat /\ o.base + Bmbs(o.total) < o.total
    /\ o.total <= LastBlock + 1
    /\ o.base \in {d[0].base, o.old} /\ o.old >= 2
    /\ \A b \in NewRun(o) : /\ b \in Block /\ b # 0 /\ b < o.total - 1 /\ b # o.old - 1
                            /\ b # RootObj /\ d[b] # Data
    /\ o.total - 1 \in Block /\ o.total # o.old /\ d[o.total - 1] # Data
    /\ RootObj < o.total - 1 /\ RootObj < o.old - 1 /\ d[RootObj].kind = "objc"
    /\ \A b \in NewFree(d, o) : /\ b \in Block /\ b # 0 /\ b < o.total - 1 /\ b # RootObj
                                /\ b \notin NewRun(o) /\ d[b] # Data
    /\ \A b \in Block : d[b] = Data => b < o.old - 1

LEMMA Layout ==
    ASSUME NEW d \in [Block -> Good], NEW o, o.kind \in {"grow", "shrink"}, o.total \in Nat,
           o.base \in Nat, Shape(d, o), Orderly(d, o.old), o.total - 1 \in Block
    PROVE  LaidOut(d, o)
<1> DEFINE base == d[0].base
           free == OldFree(d, o)
           run == OldRun(d, o)
<1>1. /\ IsRoot(d, 0) /\ o.old = d[0].total /\ o.old >= 2 /\ 1 < o.base
      /\ o.base + Bmbs(o.total) < o.total /\ o.base \in {base, o.old}
      /\ \A b \in NewRun(o) : b \in run \/ b \in free \/ b >= o.old
      /\ o.kind = "grow" => o.total > o.old
      /\ o.kind = "shrink" => o.total < o.old /\ (o.total - 1 .. o.old - 2 \subseteq free)
  BY DEF Shape
<1>2. o.old \in Nat
  BY <1>1, Constants, RootFields DEF IsRoot
<1>3. LaidAt(d, o.old, base, free)
  <2> DEFINE t == o.old
  <2>1. t \in Nat /\ t >= 2 /\ IsRoot(d, 0) /\ d[0].total = t /\ Orderly(d, t)
    BY <1>1, <1>2
  <2>2. free = BitsFrom(d, d[0].base, t)
    BY DEF OldFree
  <2> HIDE DEF t, free
  <2>3. LaidAt(d, t, d[0].base, free)
    BY <2>1, <2>2, Laid
  <2> QED
    BY <2>3 DEF t
<1>4. Bmbs(o.total) \in Nat /\ o.total <= LastBlock + 1 /\ o.total >= 1
  <2>1. Bmbs(o.total) \in Nat
    BY BitmapSize
  <2>2. o.total - 1 \in 0 .. LastBlock /\ LastBlock \in Nat
    BY Constants DEF Block
  <2> QED
    BY <2>1, <2>2
<1>5. /\ d[RootObj].kind = "objc" /\ RootObj < o.old - 1 /\ RootObj \in Nat /\ RootObj \in Block
      /\ \A b \in Block : d[b] = Data => b < o.old - 1
  BY Constants DEF Orderly, Block
<1>6. /\ \A b \in free : /\ b \in Block /\ b # 0 /\ b < o.old - 1 /\ b # RootObj /\ d[b] # Data
                         /\ b \notin run
      /\ \A b \in run : /\ b \in Block /\ b # 0 /\ b < o.old - 1 /\ b # RootObj /\ d[b] # Data
  <2>1. run = Run(base, o.old)
    BY DEF OldRun
  <2>2. Data.kind # "bm"
    BY DEF Data
  <2> HIDE DEF free, run, base
  <2> QED
    BY <1>3, <2>1, <2>2 DEF LaidAt
<1> HIDE DEF free, run, base
<1>7. \A b \in Block : b \in Nat
  BY Constants DEF Block
<1>8. ASSUME NEW b \in NewRun(o)
      PROVE  b \in Block /\ b # 0 /\ b < o.total - 1 /\ b # o.old - 1 /\ b # RootObj /\ d[b] # Data
  <2>1. b \in Nat /\ b >= o.base /\ b < o.total - 1
    BY <1>1, <1>4 DEF NewRun, Run
  <2>2. b \in Block
    BY <1>4, <2>1, Constants DEF Block
  <2>3. b # o.old - 1 /\ b # RootObj /\ d[b] # Data
    <3>1. CASE b \in run \/ b \in free
      BY <1>2, <1>6, <2>1, <3>1
    <3>2. CASE b >= o.old
      BY <1>2, <1>5, <2>1, <2>2, <3>2
    <3> QED
      BY <1>1, <3>1, <3>2
  <2> QED
    BY <1>1, <2>1, <2>2, <2>3
<1>9. d[o.total - 1] # Data /\ RootObj < o.total - 1 /\ o.total # o.old
  <2>1. CASE o.kind = "grow"
    BY <1>1, <1>2, <1>5, <2>1
  <2>2. CASE o.kind = "shrink"
    <3>1. o.total - 1 \in free
      BY <1>1, <1>2, <1>4, <2>2
    <3>2. RootObj >= o.total - 1 => RootObj \in free
      BY <1>1, <1>2, <1>4, <1>5, <2>2
    <3> QED
      BY <1>1, <1>2, <1>4, <1>5, <1>6, <2>2, <3>1, <3>2
  <2> QED
    BY <2>1, <2>2
<1>10. ASSUME NEW b \in NewFree(d, o)
       PROVE  b \in Block /\ b # 0 /\ b < o.total - 1 /\ b # RootObj /\ b \notin NewRun(o) /\ d[b] # Data
  <2>1. /\ b \in free \/ b \in run \/ b \in o.old - 1 .. o.total - 2
        /\ b \notin NewRun(o) /\ b < o.total - 1
    BY DEF NewFree, free, run
  <2>2. CASE b \in free \/ b \in run
    BY <1>6, <2>1, <2>2
  <2>3. CASE b \in o.old - 1 .. o.total - 2
    <3>1. b \in Nat /\ b >= o.old - 1 /\ b # 0 /\ b \in Block
      BY <1>1, <1>2, <1>4, <2>3, Constants DEF Block
    <3> QED
      BY <1>2, <1>5, <2>1, <3>1
  <2> QED
    BY <2>1, <2>2, <2>3
<1> QED
  BY <1>1, <1>3, <1>4, <1>5, <1>8, <1>9, <1>10 DEF LaidOut, free, base

\* What a shrink gives back: the blocks its bitmap loses.
Gone(d, o) == d[0].base + Bmbs(o.total) .. d[0].base + Bmbs(o.old) - 1

LEMMA ShrinkFrees ==
    ASSUME NEW d \in [Block -> Good], NEW o, o.kind = "shrink", o.total \in Nat, o.old \in Nat,
           Shape(d, o), LaidOut(d, o)
    PROVE  /\ \A b \in Gone(d, o) : b \in Nat /\ Of(b) \in 0 .. Bmbs(o.total) - 1
           /\ \A b : b \in NewFree(d, o) <=> b \in Marked(d, o) \/ b \in Gone(d, o)
<1> DEFINE base == d[0].base
           free == OldFree(d, o)
           m == Bmbs(o.total)
           n == Bmbs(o.old)
<1>1. /\ base \in Nat /\ 1 < base /\ m \in Nat /\ n \in Nat
      /\ base + n < o.old /\ o.base = base /\ base + m < o.total /\ o.total < o.old
      /\ \A b \in free : b \in Nat /\ b \notin Run(base, o.old)
      /\ o.total - 1 .. o.old - 2 \subseteq free
  <2>1. LaidAt(d, o.old, base, free)
    BY DEF LaidOut
  <2> HIDE DEF free, base
  <2> QED
    BY <2>1 DEF LaidAt, LaidOut, Shape, Block, free, base
<1>2. m <= n
  BY <1>1, MoreBitmap
<1>3. /\ NewRun(o) = Run(base, o.total) /\ OldRun(d, o) = Run(base, o.old)
      /\ Marked(d, o) = {b \in free : b < o.total - 1}
  BY <1>1 DEF NewRun, OldRun, Marked
<1> HIDE DEF base, free
<1>4. ASSUME NEW b
      PROVE  b \in Run(base, o.old) <=> b \in Run(base, o.total) \/ b \in Gone(d, o)
  BY <1>1, <1>2 DEF Run, Gone, base
<1>5. ASSUME NEW b \in Gone(d, o) PROVE b \in Nat /\ b < o.total - 1 /\ b \notin Run(base, o.total)
  <2>1. b \in Nat /\ b <= o.old - 2 /\ b \notin Run(base, o.total)
    BY <1>1, <1>2 DEF Run, Gone, base
  <2>2. b \in Run(base, o.old)
    BY <1>4
  <2>3. ~(b >= o.total - 1)
    BY <1>1, <2>1, <2>2
  <2> QED
    BY <2>1, <2>3
<1>6. ASSUME NEW b \in Gone(d, o) PROVE Of(b) \in 0 .. Bmbs(o.total) - 1
  <2>1. b \in Nat /\ b < o.total
    BY <1>5
  <2> QED
    BY <2>1, InTheBitmap
<1>7. ASSUME NEW b PROVE b \in NewFree(d, o) <=> b \in Marked(d, o) \/ b \in Gone(d, o)
  <2>1. b \in NewFree(d, o) <=>
           /\ b \in free \/ b \in Run(base, o.old) \/ b \in o.old - 1 .. o.total - 2
           /\ b \notin Run(base, o.total) /\ b < o.total - 1
    BY <1>3 DEF NewFree, free
  <2>2. b \notin o.old - 1 .. o.total - 2
    BY <1>1
  <2>3. b \in free => b \notin Run(base, o.total)
    BY <1>1, <1>4
  <2> QED
    BY <1>3, <1>4, <1>5, <2>1, <2>2, <2>3
<1> QED
  BY <1>5, <1>6, <1>7

\* The writes that follow the start root.
LEMMA FreedGoes ==
    ASSUME TInv, pc = "pre", op.kind = "shrink", Shape(before, op), LaidOut(before, op),
           \A b \in Block : disk[b] = Planned(before, op)[b]
    PROVE  /\ Freed(op.total) \in Seq(Harmless)
           /\ \A i \in DOMAIN Freed(op.total) : \E k \in 0 .. Bmbs(op.total) - 1 :
                 /\ Freed(op.total)[i].at = op.base + k
                 /\ Freed(op.total)[i].val = Bm(NewFree(before, op) \cap Cover(k))
           /\ \A k \in 0 .. Bmbs(op.total) - 1 :
                 \/ Marked(before, op) \cap Cover(k) = NewFree(before, op) \cap Cover(k)
                 \/ \E i \in DOMAIN Freed(op.total) : Freed(op.total)[i].at = op.base + k
<1> DEFINE gone == before[0].base + Bmbs(op.total) .. before[0].base + Bmbs(op.old) - 1
           S == {Of(b) : b \in gone}
           v(k) == Write(op.base + k, Bm(Free(k) \cup (gone \cap Cover(k))), FALSE)
           f == [k \in S |-> v(k)]
           N == 0 .. Bmbs(op.total) - 1
<1>1. /\ before \in [Block -> Good] /\ op.total \in Nat /\ op.old \in Nat /\ op.base \in Nat
      /\ op.base = before[0].base /\ Base = op.base /\ Bmbs(op.total) \in Nat
      /\ op.base + Bmbs(op.total) < op.total /\ op.total <= LastBlock + 1
  <2>1. op.total \in Nat /\ op.old \in Nat /\ op.base \in Nat /\ before \in [Block -> Good]
    BY DEF TInv, OpType
  <2>2. disk[0] = before[0]
    BY DEF TInv, Before
  <2>3. op.base = before[0].base
    BY DEF Shape
  <2> QED
    BY <2>1, <2>2, <2>3 DEF LaidOut, Base
<1>2. gone = Gone(before, op)
  BY DEF Gone
<1> HIDE DEF gone
<1>3. /\ \A b \in gone : b \in Nat /\ Of(b) \in N
      /\ \A b : b \in NewFree(before, op) <=> b \in Marked(before, op) \/ b \in gone
  BY <1>1, <1>2, ShrinkFrees
<1>4. S \subseteq N /\ S \in SUBSET (0 .. Bmbs(op.total))
  BY <1>1, <1>3
<1>5. ASSUME NEW k \in N
      PROVE  /\ Free(k) \cup (gone \cap Cover(k)) = NewFree(before, op) \cap Cover(k)
             /\ k \notin S => Marked(before, op) \cap Cover(k) = NewFree(before, op) \cap Cover(k)
  <2>1. op.base + k \in NewRun(op) /\ (op.base + k) - op.base = k
    BY <1>1, PlacesOf DEF NewRun
  <2>11. op.base + k \in Block
    <3>1. k \in Nat /\ op.base + k < op.total
      BY <1>1
    <3> QED
      BY <1>1, <3>1, Constants DEF Block
  <2>2. disk[op.base + k] = Bm(Marked(before, op) \cap Cover(k))
    BY <2>1, <2>11 DEF Planned
  <2>3. Free(k) = Marked(before, op) \cap Cover(k)
    BY <1>1, <2>2, FreeOf DEF Free
  <2>4. \A b \in Cover(k) : Of(b) = k
    BY <1>1, Covered
  <2>5. k \notin S => gone \cap Cover(k) = {}
    BY <2>4
  <2> HIDE DEF S
  <2> QED
    BY <1>3, <2>3, <2>5
<1>6. \A k \in S : f[k].at = op.base + k /\ f[k].val = Bm(NewFree(before, op) \cap Cover(k))
  <2>1. ASSUME NEW k \in S PROVE v(k).at = op.base + k /\ v(k).val = Bm(NewFree(before, op) \cap Cover(k))
    <3>1. k \in N
      BY <1>4
    <3>2. Free(k) \cup (gone \cap Cover(k)) = NewFree(before, op) \cap Cover(k)
      BY <1>5, <3>1
    <3> QED
      BY <3>2 DEF Write
  <2> HIDE DEF v
  <2> QED
    BY <2>1
<1>7. f \in [S -> Harmless]
  <2>1. ASSUME NEW k \in S PROVE v(k) \in Harmless
    <3>1. k \in N /\ k \in Nat
      BY <1>1, <1>4
    <3>2. Free(k) \cup (gone \cap Cover(k)) \subseteq Cover(k)
      BY <1>5, <3>1
    <3>3. Cover(k) \in Bits
      BY <3>1, Covered
    <3> DEFINE F == Free(k) \cup (gone \cap Cover(k))
    <3>4. F \in Bits
      BY <3>2, <3>3, FewerBits
    <3> HIDE DEF F
    <3>5. Bm(F) \in Good /\ op.base + k \in Nat
      BY <1>1, <3>1, <3>4, BitsAreGood
    <3>6. Write(op.base + k, Bm(F), FALSE) \in Harmless
      BY <3>5, HarmlessWrite
    <3> QED
      BY <3>6 DEF F
  <2> HIDE DEF v, S
  <2> QED
    BY <2>1
<1>8. Freed(op.total) = WritesOf(f)
  BY DEF Freed, gone
<1>20. Bmbs(op.total) \in Nat
  BY <1>1
<1> HIDE DEF f, S, N, v
<1>9. WritesOf(f) \in Seq(Harmless) /\ Lists(WritesOf(f), S, f)
  BY <1>20, <1>4, <1>7, Written
<1>10. ASSUME NEW i \in DOMAIN WritesOf(f)
       PROVE  \E k \in N : /\ WritesOf(f)[i].at = op.base + k
                           /\ WritesOf(f)[i].val = Bm(NewFree(before, op) \cap Cover(k))
  <2>1. PICK k \in S : WritesOf(f)[i] = f[k]
    BY <1>9 DEF Lists
  <2> QED
    BY <1>4, <1>6, <2>1
<1>11. ASSUME NEW k \in N
       PROVE  \/ Marked(before, op) \cap Cover(k) = NewFree(before, op) \cap Cover(k)
              \/ \E i \in DOMAIN WritesOf(f) : WritesOf(f)[i].at = op.base + k
  <2>1. k \in S => \E i \in DOMAIN WritesOf(f) : WritesOf(f)[i].at = op.base + k
    BY <1>6, <1>9 DEF Lists
  <2> QED
    BY <1>5, <2>1
<1> QED
  BY <1>8, <1>9, <1>10, <1>11 DEF N

LEMMA WipesGo ==
    ASSUME TInv, pc = "pre", Shape(before, op), LaidOut(before, op),
           \A b \in Block : disk[b] = Planned(before, op)[b]
    PROVE  /\ Wipes \in Seq(Harmless)
           /\ \A i \in DOMAIN Wipes : /\ Wipes[i].val = Blank
                                      /\ \/ Wipes[i].at = op.old - 1
                                         \/ /\ Wipes[i].at = before[0].base - 1
                                            /\ Wipes[i].at \in Block \ {0, op.total - 1}
                                            /\ IsRoot(before, Wipes[i].at)
           /\ \E i \in DOMAIN Wipes : Wipes[i].at = op.old - 1
           /\ before[0].base - 1 \in Block \ {0, op.total - 1} /\ IsRoot(before, before[0].base - 1)
                 => \E i \in DOMAIN Wipes : Wipes[i].at = before[0].base - 1
<1> DEFINE x == before[0].base - 1
           first == Write(op.old - 1, Blank, FALSE)
           second == Write(x, Blank, FALSE)
           both == /\ before[0].base > 0 /\ x # op.old - 1
                   /\ op.kind = "shrink" => x # op.total - 1
                   /\ IsRoot(disk, x)
<1>1. /\ op.total \in Nat /\ op.old \in Nat /\ op.old >= 2 /\ op.base \in Nat
      /\ op.kind \in {"grow", "shrink"}
  BY DEF TInv, OpType, Before
<1>2. /\ before[0].base \in Nat /\ 1 < before[0].base /\ before[0].base + Bmbs(op.old) < op.old
      /\ Bmbs(op.old) \in Nat /\ op.base \in {before[0].base, op.old}
      /\ Bmbs(op.total) \in Nat /\ op.base + Bmbs(op.total) < op.total /\ op.total <= LastBlock + 1
      /\ op.kind = "grow" => op.total > op.old
      /\ op.kind = "shrink" => op.base = before[0].base
  <2>1. LaidAt(before, op.old, before[0].base, OldFree(before, op))
    BY DEF LaidOut
  <2> QED
    BY <2>1 DEF LaidOut, LaidAt, Shape
<1>3. x \in Nat /\ x > 0 /\ x < op.old - 1 /\ x # op.total - 1 /\ x \notin NewRun(op)
  BY <1>1, <1>2 DEF NewRun, Run
<1>4. x > 0 => x \in Block
  <2>1. op.old = before[0].total /\ before[0].total <= LastBlock + 1
    <3>1. before[0] \in Good /\ before[0].kind = "root" /\ op.old = before[0].total
      BY Constants DEF TInv, Shape, IsRoot
    <3> QED
      BY <3>1, RootFields
  <2> QED
    BY <1>1, <1>3, <2>1, Constants DEF Block
<1>5. x > 0 => disk[x] = before[x]
  BY <1>3, <1>4 DEF Planned
<1>6. both <=> x \in Block \ {0, op.total - 1} /\ IsRoot(before, x)
  <2>1. x \in Block \ {0} => x > 0
    <3> HIDE DEF x
    <3> QED
      BY <1>3
  <2>2. x > 0 => (IsRoot(disk, x) <=> IsRoot(before, x))
    BY <1>5 DEF IsRoot
  <2>3. before[0].base > 0
    BY <1>2
  <2> HIDE DEF x
  <2> QED
    BY <1>3, <1>4, <2>1, <2>2, <2>3
<1>7. Wipes = << first >> \o (IF both THEN << second >> ELSE <<>>)
  BY DEF Wipes, Older
<1>8. first \in Harmless /\ first.at = op.old - 1 /\ first.val = Blank
  <2>1. op.old - 1 \in Nat
    BY <1>1
  <2> QED
    BY <2>1, HarmlessWrite, PlainAreGood DEF Write
<1>9. second \in Harmless /\ second.at = x /\ second.val = Blank
  BY <1>3, HarmlessWrite, PlainAreGood DEF Write
<1> HIDE DEF first, second, both
<1>10. DOMAIN << first >> = {1} /\ << first >>[1] = first /\ << first >> \in Seq(Harmless)
  BY <1>8
<1>11. CASE both
  <2>1. /\ DOMAIN << second >> = {1} /\ << second >>[1] = second
        /\ << second >> \in Seq(Harmless)
    BY <1>9
  <2>2. Wipes = << first >> \o << second >>
    BY <1>7, <1>11
  <2>3. Wipes \in Seq(Harmless) /\ Joins(Wipes, << first >>, << second >>)
    BY <1>10, <2>1, <2>2, ConcatProperties, Joined
  <2>4. \A i \in DOMAIN Wipes : Wipes[i] = first \/ Wipes[i] = second
    BY <1>10, <2>1, <2>3 DEF Joins
  <2>5. (\E i \in DOMAIN Wipes : Wipes[i] = first) /\ (\E i \in DOMAIN Wipes : Wipes[i] = second)
    BY <1>10, <2>1, <2>3 DEF Joins
  <2> HIDE DEF x
  <2> QED
    BY <1>6, <1>8, <1>9, <1>11, <2>3, <2>4, <2>5 DEF x
<1>12. CASE ~both
  <2>1. Wipes = << first >>
    BY <1>7, <1>10, <1>12, ConcatEmptySeq
  <2>2. Wipes \in Seq(Harmless) /\ DOMAIN Wipes = {1} /\ Wipes[1] = first
    BY <1>10, <2>1
  <2> HIDE DEF x
  <2> QED
    BY <1>6, <1>8, <1>12, <2>2 DEF x
<1> QED
  BY <1>11, <1>12

\* With the start root written, what follows finishes the volume.
LEMMA Committed ==
    ASSUME TInv, pc = "pre", Shape(before, op), LaidOut(before, op),
           \A b \in Block : disk[b] = Planned(before, op)[b],
           NEW e, e = [disk EXCEPT ![0] = StartOf(op)]
    PROVE  Toward(e, PostWrites, Finished(before, op))
<1> DEFINE g == Finished(before, op)
           N == 0 .. Bmbs(op.total) - 1
           last == before[0].base - 1
           freed == IF op.kind = "shrink" THEN Freed(op.total) ELSE <<>>
<1>1. /\ disk \in [Block -> Good] /\ op.total \in Nat /\ op.old \in Nat /\ op.old >= 2
      /\ op.base \in Nat /\ op.kind \in {"grow", "shrink"} /\ 0 \in Block
  BY Constants DEF TInv, OpType, Before
<1>2. /\ 1 < op.base /\ Bmbs(op.total) \in Nat /\ op.base + Bmbs(op.total) < op.total
      /\ op.total <= LastBlock + 1 /\ op.total - 1 \in Block /\ op.total # op.old
      /\ \A b \in NewRun(op) : /\ b \in Block /\ b # 0 /\ b # op.total - 1 /\ b # op.old - 1
  <2>1. \A b \in NewRun(op) : b \in Block /\ b # 0 /\ b < op.total - 1 /\ b # op.old - 1
    BY DEF LaidOut
  <2>2. \A b \in Block : b \in Int
    BY Constants DEF Block
  <2>3. \A b \in NewRun(op) : b # op.total - 1
    BY <1>1, <2>1, <2>2
  <2>4. /\ 1 < op.base /\ Bmbs(op.total) \in Nat /\ op.base + Bmbs(op.total) < op.total
        /\ op.total <= LastBlock + 1 /\ op.total - 1 \in Block /\ op.total # op.old
    BY DEF LaidOut
  <2> QED
    BY <2>1, <2>3, <2>4
<1>3. \A k \in N : /\ op.base + k \in NewRun(op) /\ op.base + k \in Block
                   /\ (op.base + k) - op.base = k
  BY <1>1, <1>2 DEF NewRun, Run
<1>4. ASSUME NEW b \in NewRun(op) PROVE b - op.base \in N /\ op.base + (b - op.base) = b
  BY <1>1, <1>2 DEF NewRun, Run
<1>5. \A k \in N : g[op.base + k] = Bm(NewFree(before, op) \cap Cover(k))
  BY <1>2, <1>3 DEF Finished
<1>6. /\ freed \in Seq(Harmless)
      /\ \A i \in DOMAIN freed : \E k \in N :
            /\ freed[i].at = op.base + k /\ freed[i].val = Bm(NewFree(before, op) \cap Cover(k))
      /\ \A k \in N :
            \/ Marked(before, op) \cap Cover(k) = NewFree(before, op) \cap Cover(k)
            \/ \E i \in DOMAIN freed : freed[i].at = op.base + k
  <2>1. CASE op.kind = "shrink"
    BY <2>1, FreedGoes
  <2>2. CASE op.kind # "shrink"
    <3>1. Marked(before, op) = NewFree(before, op)
      BY <2>2 DEF Marked
    <3>2. freed = <<>> /\ freed \in Seq(Harmless) /\ DOMAIN freed = {}
      BY <2>2, Listed
    <3> HIDE DEF freed
    <3> QED
      BY <3>1, <3>2
  <2> QED
    BY <2>1, <2>2
<1>7. /\ Wipes \in Seq(Harmless)
      /\ \A i \in DOMAIN Wipes : /\ Wipes[i].val = Blank
                                 /\ \/ Wipes[i].at = op.old - 1
                                    \/ /\ Wipes[i].at = last
                                       /\ Wipes[i].at \in Block \ {0, op.total - 1}
                                       /\ IsRoot(before, Wipes[i].at)
      /\ \E i \in DOMAIN Wipes : Wipes[i].at = op.old - 1
      /\ last \in Block \ {0, op.total - 1} /\ IsRoot(before, last)
            => \E i \in DOMAIN Wipes : Wipes[i].at = last
  BY WipesGo
<1>8. PostWrites = freed \o Wipes
  BY DEF PostWrites
<1> HIDE DEF freed, N
<1>9. Joins(PostWrites, freed, Wipes)
  BY <1>6, <1>7, <1>8, Joined
<1>10. last \notin NewRun(op)
  <2>1. LaidAt(before, op.old, before[0].base, OldFree(before, op)) /\ op.base \in {before[0].base, op.old}
    BY DEF LaidOut
  <2>2. before[0].base \in Nat /\ before[0].base < op.old
    BY <1>1, <2>1 DEF LaidAt
  <2> QED
    BY <1>1, <1>2, <2>1, <2>2 DEF NewRun, Run
<1>11. ASSUME NEW i \in DOMAIN PostWrites, PostWrites[i].at \in Block
       PROVE  PostWrites[i].val = g[PostWrites[i].at]
  <2>1. CASE \E j \in DOMAIN freed : PostWrites[i] = freed[j]
    <3> HIDE DEF g
    <3>1. PICK j \in DOMAIN freed : PostWrites[i] = freed[j]
      BY <2>1
    <3>2. PICK k \in N : /\ freed[j].at = op.base + k
                         /\ freed[j].val = Bm(NewFree(before, op) \cap Cover(k))
      BY <1>6
    <3> QED
      BY <1>5, <3>1, <3>2
  <2>2. CASE \E j \in DOMAIN Wipes : PostWrites[i] = Wipes[j]
    <3>1. PICK j \in DOMAIN Wipes : PostWrites[i] = Wipes[j]
      BY <2>2
    <3>2. CASE Wipes[j].at = op.old - 1
      <4>1. op.old - 1 # 0 /\ op.old - 1 \notin NewRun(op) /\ op.old - 1 # op.total - 1
            /\ op.old - 1 \in Block
        BY <1>1, <1>2, <1>11, <3>1, <3>2
      <4>2. g[op.old - 1] = Blank
        BY <4>1 DEF Finished
      <4> QED
        BY <1>7, <3>1, <3>2, <4>2
    <3>3. CASE /\ Wipes[j].at = last /\ Wipes[j].at \in Block \ {0, op.total - 1}
               /\ IsRoot(before, Wipes[j].at)
      <4>1. last \in Block /\ last # 0 /\ last # op.total - 1 /\ IsRoot(before, last)
        BY <3>3
      <4>2. g[last] = Blank
        BY <1>10, <4>1 DEF Finished
      <4> QED
        BY <1>7, <3>1, <3>3, <4>2
    <3> QED
      BY <1>7, <3>2, <3>3
  <2> QED
    BY <1>9, <2>1, <2>2 DEF Joins
<1>12. /\ \A j \in DOMAIN freed : \E i \in DOMAIN PostWrites : PostWrites[i].at = freed[j].at
       /\ \A j \in DOMAIN Wipes : \E i \in DOMAIN PostWrites : PostWrites[i].at = Wipes[j].at
  BY <1>9 DEF Joins
<1>13. e[0] = StartOf(op) /\ \A b \in Block : b # 0 => e[b] = Planned(before, op)[b]
  BY <1>1
<1>14. ASSUME NEW b \in Block
       PROVE  e[b] = g[b] \/ \E i \in DOMAIN PostWrites : PostWrites[i].at = b
  <2>1. CASE b = 0
    BY <1>13, <2>1 DEF Finished
  <2>2. CASE b \in NewRun(op)
    <3>1. b # 0 /\ e[b] = Bm(Marked(before, op) \cap Cover(b - op.base))
      BY <1>2, <1>13, <2>2 DEF Planned
    <3>2. g[b] = Bm(NewFree(before, op) \cap Cover(b - op.base))
      BY <2>2, <3>1 DEF Finished
    <3>3. \/ Marked(before, op) \cap Cover(b - op.base) = NewFree(before, op) \cap Cover(b - op.base)
          \/ \E i \in DOMAIN freed : freed[i].at = b
      BY <1>4, <1>6, <2>2
    <3> QED
      BY <1>12, <3>1, <3>2, <3>3
  <2>3. CASE b # 0 /\ b \notin NewRun(op) /\ b = op.total - 1
    BY <1>13, <2>3 DEF Planned, Finished
  <2>4. CASE b # 0 /\ b \notin NewRun(op) /\ b # op.total - 1
    <3>1. e[b] = before[b]
      BY <1>13, <2>4 DEF Planned
    <3>2. CASE b = op.old - 1
      BY <1>7, <1>12, <3>2
    <3>3. CASE b = last /\ IsRoot(before, b)
      BY <1>7, <1>12, <2>4, <3>3
    <3>4. CASE b # op.old - 1 /\ ~(b = last /\ IsRoot(before, b))
      <4>1. g[b] = before[b]
        BY <2>4, <3>4 DEF Finished
      <4> QED
        BY <3>1, <4>1
    <3> QED
      BY <3>2, <3>3, <3>4
  <2> QED
    BY <2>1, <2>2, <2>3, <2>4
<1> HIDE DEF g
<1>15. Toward(e, PostWrites, g)
  BY <1>11, <1>14 DEF Toward
<1> QED
  BY <1>15 DEF g

LEMMA TowardsCommit == ASSUME TInv, Towards, Commit PROVE Towards'
<1> DEFINE r == Root(0, op.total, op.base, (op.seq + 2) % SeqNums)
<1>1. /\ pc = "pre" /\ op.todo = <<>>
      /\ (Refused(0, r) /\ Fail) \/ (Reported(0, r) /\ Enter("post", PostWrites))
  BY DEF Commit, Put, Refused, Reported
<1>2. CASE Fail
  BY <1>2 DEF Fail, Towards
<1>3. CASE Reported(0, r) /\ Enter("post", PostWrites)
  <2>1. op \in OpType /\ before \in [Block -> Good]
    BY DEF TInv
  <2>2. Alike(op', op) /\ op'.todo = PostWrites /\ pc' = "post"
    BY <1>3, <2>1 DEF Enter, OpType, Alike
  <2>3. before' = before /\ cyls' = cyls /\ env' = env
    BY <1>3 DEF Enter, Rest
  <2>4. clean' => disk' = [disk EXCEPT ![0] = StartOf(op)] /\ clean
    BY <1>3 DEF Reported, StartOf
  <2>5. Shape(before, op) /\ Fitting(cyls, op)
    BY <1>1 DEF Towards
  <2>6. /\ Shape(before', op') <=> Shape(before, op)
        /\ Fitting(cyls', op') <=> Fitting(cyls, op)
        /\ Finished(before', op') = Finished(before, op)
    BY <2>2, <2>3, SameOp
  <2>7. ASSUME clean', Regular' PROVE Toward(disk', op'.todo, Finished(before, op))
    <3>1. Regular
      BY <2>2, <2>3, <2>7 DEF Regular, Alike
    <3>2. Toward(disk, <<>>, Planned(before, op))
      BY <1>1, <2>4, <2>7, <3>1 DEF Towards
    <3>3. \A b \in Block : disk[b] = Planned(before, op)[b]
      BY <3>2, Arrived
    <3>4. op.kind \in {"grow", "shrink"} /\ op.total \in Nat /\ op.base \in Nat /\ op.total - 1 \in Block
      BY <1>1, <2>1 DEF TInv, Before, OpType
    <3>5. LaidOut(before, op)
      BY <2>1, <2>5, <3>1, <3>4, Layout DEF Regular
    <3>6. Toward(disk', PostWrites, Finished(before, op))
      BY <1>1, <2>4, <2>5, <2>7, <3>3, <3>5, Committed
    <3> QED
      BY <2>2, <3>6
  <2> QED
    BY <2>2, <2>5, <2>6, <2>7 DEF Towards
<1> QED
  BY <1>1, <1>2, <1>3

\* The end root is older than the start root.
LEMMA StartIsNewer ==
    ASSUME NEW s \in 0 .. SeqNums - 1
    PROVE  ~Newer((s + 1) % SeqNums, (s + 2) % SeqNums)
<1> DEFINE m == SeqNums
<1>1. m \in Nat /\ m > 4
  BY Constants
<1> HIDE DEF m
<1>2. \A x \in Nat : x < m => x % m = x
  BY <1>1
<1>3. m % m = 0 /\ (m + 1) % m = 1
  BY <1>1
<1>4. (-1) % m = m - 1 /\ (m - 1) % m = m - 1
  BY <1>1
<1>5. s \in Nat /\ s <= m - 1
  BY <1>1 DEF m
<1> DEFINE a == (s + 1) % m
           b == (s + 2) % m
<1>6. a \in Int /\ b \in Int /\ (a - b = -1 \/ a - b = m - 1)
  <2>1. CASE s + 2 < m
    <3>1. a = s + 1 /\ b = s + 2
      BY <1>1, <1>2, <1>5, <2>1
    <3> QED
      BY <1>5, <3>1
  <2>2. CASE s + 2 = m
    <3>1. a = m - 1 /\ b = 0
      <4>1. s + 1 = m - 1 /\ m - 1 \in Nat /\ m - 1 < m
        BY <1>1, <1>5, <2>2
      <4> QED
        BY <1>3, <1>4, <2>2, <4>1
    <3> QED
      BY <1>1, <3>1
  <2>3. CASE s + 1 = m
    <3>1. a = 0 /\ b = 1
      <4>1. s + 2 = m + 1
        BY <1>1, <1>5, <2>3
      <4> QED
        BY <1>3, <2>3, <4>1
    <3> QED
      BY <3>1
  <2> QED
    BY <1>1, <1>5, <2>1, <2>2, <2>3
<1>7. (a - b) % m = m - 1
  <2> HIDE DEF a, b
  <2> QED
    BY <1>1, <1>4, <1>6
<1>8. ~(m - 1 < m \div 2)
  BY <1>1
<1> QED
  BY <1>7, <1>8 DEF Newer, m

\* What the finished disk has in each block.
FinishedAs(d, o, e) ==
    /\ e[0] = StartOf(o) /\ e[o.total - 1] = EndOf(o) /\ e[RootObj].kind = "objc"
    /\ \A k \in 0 .. Bmbs(o.total) - 1 : e[o.base + k] = Bm(NewFree(d, o) \cap Cover(k))
    /\ \A b \in Block : b # 0 /\ b \notin NewRun(o) /\ b # o.total - 1 =>
          \/ e[b] = Blank
          \/ /\ e[b] = d[b] /\ b # o.old - 1
             /\ IsRoot(d, b) => b # d[0].base - 1
    /\ \A b \in Block : e[b] = Data <=> d[b] = Data

LEMMA Finishes ==
    ASSUME NEW d \in [Block -> Good], NEW o, o.total \in Nat, o.old \in Nat, o.base \in Nat,
           Shape(d, o), LaidOut(d, o), NEW e, \A b \in Block : e[b] = Finished(d, o)[b]
    PROVE  FinishedAs(d, o, e)
<1>1. /\ 1 < o.base /\ Bmbs(o.total) \in Nat /\ o.base + Bmbs(o.total) < o.total
      /\ o.total <= LastBlock + 1 /\ o.total - 1 \in Block /\ d[o.total - 1] # Data
      /\ \A b \in NewRun(o) : b # 0 /\ b < o.total - 1 /\ b # RootObj /\ d[b] # Data
      /\ RootObj < o.total - 1 /\ RootObj < o.old - 1 /\ d[RootObj].kind = "objc"
      /\ \A b \in Block : d[b] = Data => b < o.old - 1
  BY DEF LaidOut
<1>2. RootObj \in Block /\ RootObj # 0 /\ RootObj \in Nat /\ 0 \in Block
      /\ \A b \in Block : b \in Nat
  BY Constants DEF Block
<1>3. e[0] = StartOf(o)
  BY <1>2 DEF Finished
<1>4. ASSUME NEW k \in 0 .. Bmbs(o.total) - 1
      PROVE  e[o.base + k] = Bm(NewFree(d, o) \cap Cover(k))
  <2>1. /\ o.base + k \in Block /\ o.base + k # 0 /\ o.base + k \in NewRun(o)
        /\ (o.base + k) - o.base = k
    BY <1>1, Constants DEF Block, NewRun, Run
  <2> QED
    BY <2>1 DEF Finished
<1>5. e[o.total - 1] = EndOf(o)
  <2>1. o.total - 1 # 0 /\ o.total - 1 \notin NewRun(o)
    BY <1>1
  <2> QED
    BY <1>1, <2>1 DEF Finished
<1>6. ASSUME NEW b \in Block, b # 0, b \notin NewRun(o), b # o.total - 1
      PROVE  \/ e[b] = Blank /\ (b = o.old - 1 \/ IsRoot(d, b))
             \/ e[b] = d[b] /\ b # o.old - 1 /\ (IsRoot(d, b) => b # d[0].base - 1)
  BY <1>6 DEF Finished
<1>7. Data # Blank /\ Data.kind # "root" /\ Data.kind # "bm" /\ Data.kind # "objc"
  BY DEF Data, Blank
<1>8. e[RootObj] = d[RootObj]
  <2>1. RootObj \notin NewRun(o) /\ RootObj # o.total - 1 /\ RootObj # o.old - 1
    BY <1>1, <1>2
  <2>2. ~IsRoot(d, RootObj)
    BY <1>1 DEF IsRoot
  <2> QED
    BY <1>2, <1>6, <2>1, <2>2
<1>9. ASSUME NEW b \in Block PROVE e[b] = Data <=> d[b] = Data
  <2>1. CASE b = 0
    <3>1. e[0].kind = "root" /\ d[0].kind = "root"
      BY <1>3 DEF StartOf, Root, Shape, IsRoot
    <3> QED
      BY <1>7, <2>1, <3>1
  <2>2. CASE b \in NewRun(o)
    <3>1. e[b] = Bm(NewFree(d, o) \cap Cover(b - o.base))
      BY <1>1, <2>2 DEF Finished
    <3>2. e[b].kind = "bm"
      BY <3>1 DEF Bm
    <3> QED
      BY <1>1, <1>7, <2>2, <3>2
  <2>3. CASE b = o.total - 1
    <3>1. e[b].kind = "root"
      BY <1>5, <2>3 DEF EndOf, Root
    <3> QED
      BY <1>1, <1>7, <2>3, <3>1
  <2>4. CASE b # 0 /\ b \notin NewRun(o) /\ b # o.total - 1
    <3>1. IsRoot(d, b) => d[b] # Data
      BY <1>7 DEF IsRoot
    <3>2. d[b] = Data => b # o.old - 1
      BY <1>1, <1>2
    <3> QED
      BY <1>6, <1>7, <2>4, <3>1, <3>2
  <2> QED
    BY <2>1, <2>2, <2>3, <2>4
<1> QED
  BY <1>1, <1>3, <1>4, <1>5, <1>6, <1>8, <1>9 DEF FinishedAs

\* What a bitmap says is free, when each of its blocks says so of its own range.
Says(e, base, t, F) ==
    /\ \A b \in F : b \in Nat /\ b < t
    /\ \A k \in 0 .. Bmbs(t) - 1 : FreeIn(e[base + k]) = F \cap Cover(k)

LEMMA WholeBitmap ==
    ASSUME NEW e, NEW base, NEW t \in Nat, NEW F, Says(e, base, t, F)
    PROVE  BitsFrom(e, base, t) = F
<1> DEFINE N == 0 .. Bmbs(t) - 1
<1>1. ASSUME NEW b \in BitsFrom(e, base, t) PROVE b \in F
  <2>1. PICK k \in N : b \in FreeIn(e[base + k])
    BY DEF BitsFrom
  <2> QED
    BY <2>1 DEF Says
<1>2. ASSUME NEW b \in F PROVE b \in BitsFrom(e, base, t)
  <2>1. Of(b) \in N /\ b \in Cover(Of(b))
    BY InTheBitmap, InItsBlock DEF Says
  <2>2. b \in FreeIn(e[base + Of(b)])
    BY <2>1 DEF Says
  <2> QED
    BY <2>1, <2>2 DEF BitsFrom
<1> QED
  BY <1>1, <1>2

\* When the writes are done and the blocks are counted, the volume is what it should be.
LEMMA Settled ==
    ASSUME NEW d \in [Block -> Good], NEW o, o.total \in Nat, o.old \in Nat, o.base \in Nat,
           o.seq \in 0 .. SeqNums - 1, Shape(d, o), LaidOut(d, o),
           \A b \in Block \ {0, o.old - 1, d[0].base - 1} :
              IsRoot(d, b) => ~Newer(d[b].seq, (o.seq + 2) % SeqNums),
           NEW t, \A b \in Block : b \in Roots(d, t) => o.old = t,
           NEW e, DOMAIN e = Block, \A b \in Block : e[b] = Finished(d, o)[b],
           NEW f, f = [e EXCEPT ![RootObj] = Objc(Cardinality(BitsFrom(e, o.base, o.total)))]
    PROVE  Left(d, f, o, t)
<1> DEFINE n == o.total
           F == NewFree(d, o)
           N == 0 .. Bmbs(n) - 1
           run == NewRun(o)
           count == Objc(Cardinality(BitsFrom(e, o.base, n)))
<1>1. /\ 1 < o.base /\ Bmbs(n) \in Nat /\ o.base + Bmbs(n) < n
      /\ n <= LastBlock + 1 /\ n - 1 \in Block /\ d[n - 1] # Data
      /\ \A b \in run : b # 0 /\ b < n - 1 /\ b # RootObj /\ d[b] # Data /\ b \in Block
      /\ RootObj < n - 1 /\ RootObj < o.old - 1 /\ d[RootObj].kind = "objc"
      /\ \A b \in Block : d[b] = Data => b < o.old - 1
      /\ \A b \in F : b \in Block /\ b # 0 /\ b < n - 1 /\ b # RootObj /\ b \notin run /\ d[b] # Data
      /\ o.old >= 2 /\ n # o.old
  BY DEF LaidOut
<1>2. RootObj \in Block /\ RootObj # 0 /\ RootObj \in Nat /\ 0 \in Block
      /\ (\A b \in Block : b \in Nat) /\ RootObj \notin run /\ RootObj # n - 1
  BY <1>1, Constants DEF Block
<1>3. /\ e[0] = StartOf(o) /\ e[n - 1] = EndOf(o) /\ e[RootObj].kind = "objc"
      /\ \A k \in N : e[o.base + k] = Bm(F \cap Cover(k))
      /\ \A b \in Block : b # 0 /\ b \notin run /\ b # n - 1 =>
            \/ e[b] = Blank
            \/ /\ e[b] = d[b] /\ b # o.old - 1
               /\ IsRoot(d, b) => b # d[0].base - 1
      /\ \A b \in Block : e[b] = Data <=> d[b] = Data
  <2>1. FinishedAs(d, o, e)
    BY Finishes
  <2> QED
    BY <2>1, Zenon DEF FinishedAs
<1>4. ASSUME NEW k \in N PROVE o.base + k \in Block /\ o.base + k \in run
  <2> DEFINE m == Bmbs(n)
             b == o.base
  <2>1. m \in Nat /\ b \in Nat
    BY <1>1
  <2>2. k \in 0 .. m - 1
    OBVIOUS
  <2>3. run = b .. b + m - 1
    BY DEF NewRun, Run
  <2> HIDE DEF m, b, run, N
  <2>4. b + k \in run
    BY <2>1, <2>2, <2>3
  <2> QED
    BY <1>1, <2>4 DEF b
<1>31. \A b : b \in run <=> b \in o.base .. o.base + Bmbs(n) - 1
  BY DEF NewRun, Run
<1>32. n \in Nat
  OBVIOUS
<1>33. \A S : Bm(S).kind = "bm"
  BY DEF Bm
<1>34. \A b \in run : b - o.base \in N /\ o.base + (b - o.base) = b
  BY <1>1, PlacesOf DEF NewRun, N
<1> HIDE DEF F, run, N
<1>5. f[RootObj] = count /\ \A b \in Block : b # RootObj => f[b] = e[b]
  BY <1>2
<1>6. count.kind = "objc" /\ Data.kind # "objc" /\ count # Data /\ count.kind # "root"
  BY DEF Objc, Data
<1> HIDE DEF count, n
<1>7. f[0] = StartOf(o) /\ f[n - 1] = EndOf(o) /\ n - 1 # 0
  BY <1>1, <1>2, <1>3, <1>5
<1>8. \A k \in N : f[o.base + k] = Bm(F \cap Cover(k))
  BY <1>2, <1>3, <1>4, <1>5
<1>9. BitsFrom(e, o.base, n) = F /\ BitsFrom(f, o.base, n) = F
  <2>1. \A b \in F : b \in Nat /\ b < n
    <3>1. \A b \in F : b \in Nat /\ b < n - 1
      BY <1>1, <1>2
    <3> QED
      BY <1>32, <3>1
  <2>2. /\ \A k \in 0 .. Bmbs(n) - 1 : FreeIn(e[o.base + k]) = F \cap Cover(k)
        /\ \A k \in 0 .. Bmbs(n) - 1 : FreeIn(f[o.base + k]) = F \cap Cover(k)
    BY <1>3, <1>8, FreeOf DEF N
  <2>3. Says(e, o.base, n, F) /\ Says(f, o.base, n, F)
    BY <2>1, <2>2 DEF Says
  <2> QED
    BY <1>32, <2>3, WholeBitmap
<1>10. \A b \in Block : f[b] = Data <=> d[b] = Data
  BY <1>1, <1>3, <1>5, <1>6
<1>11. /\ Roots(f, n) = {0, n - 1} /\ f[0].base = o.base /\ f[n - 1].base = o.base
       /\ f[0].total = n /\ f[n - 1].total = n
  <2>1. f[0] = Root(0, n, o.base, (o.seq + 2) % SeqNums)
    BY <1>7 DEF StartOf, n
  <2>2. f[n - 1] = Root(n - 1, n, o.base, (o.seq + 1) % SeqNums)
    BY <1>7 DEF EndOf, n
  <2>3. /\ f[0].kind = "root" /\ f[0].own = 0 /\ f[0].total = n /\ f[0].base = o.base
        /\ f[n - 1].kind = "root" /\ f[n - 1].own = n - 1 /\ f[n - 1].total = n
        /\ f[n - 1].base = o.base
    BY <2>1, <2>2 DEF Root
  <2> QED
    BY <2>3 DEF Roots, IsRoot
<1>12. \A b : b \in Used(f, o.base, n) <=>
                 b = 0 \/ b = n - 1 \/ b = RootObj \/ b \in run \/ (b \in 0 .. n - 1 /\ d[b] = Data)
  <2>1. \A b \in 0 .. n - 1 : b \in Block
    BY <1>1, Constants DEF Block
  <2> QED
    BY <1>31, <1>10, <2>1 DEF Used
<1>13. F \subseteq (0 .. n - 1) \ Used(f, o.base, n)
  <2>1. ASSUME NEW b \in F PROVE b \in 0 .. n - 1 /\ b \notin Used(f, o.base, n)
    <3>1. b \in Nat /\ b # 0 /\ b < n - 1 /\ b # RootObj /\ b \notin run /\ d[b] # Data
      BY <1>1, <1>2
    <3>2. b # n - 1 /\ b \in 0 .. n - 1
      BY <1>32, <3>1
    <3> QED
      BY <1>12, <3>1, <3>2
  <2> QED
    BY <2>1
<1>14. SoundAt(f, n)
  <2>1. \A k \in N : f[o.base + k].kind = "bm"
    BY <1>8, <1>33
  <2>2. ASSUME NEW r \in Roots(f, n) PROVE f[r].base = o.base
    BY <1>11, <2>2
  <2>3. BitsFrom(f, o.base, n) = F
    BY <1>9
  <2> QED
    BY <1>13, <2>1, <2>2, <2>3 DEF SoundAt, N
<1>15. ASSUME ExactAt(d, o.old) PROVE ExactAt(f, n)
  <2>1. OldFree(d, o) = (0 .. o.old - 1) \ Used(d, d[0].base, o.old)
    <3>1. 0 \in Roots(d, o.old)
      BY DEF Shape, Roots
    <3> QED
      BY <1>15, <3>1 DEF ExactAt, OldFree
  <2>2. ASSUME NEW b \in 0 .. n - 1, b \notin Used(f, o.base, n) PROVE b \in F
    <3>1. b \in Nat /\ b # 0 /\ b # n - 1 /\ b < n - 1 /\ b # RootObj /\ b \notin run /\ d[b] # Data
      <4>1. b \in Nat /\ b <= n - 1
        BY <1>32
      <4>2. b # 0 /\ b # n - 1 /\ b # RootObj /\ b \notin run /\ d[b] # Data
        BY <1>12, <2>2
      <4> QED
        BY <1>32, <4>1, <4>2
    <3>2. CASE b >= o.old - 1
      BY <1>1, <3>1, <3>2 DEF F, NewFree, run, n
    <3>3. CASE b < o.old - 1
      <4>1. b \in 0 .. o.old - 1 /\ b # o.old - 1
        BY <1>1, <3>1, <3>3
      <4>2. b \in OldFree(d, o) \/ b \in OldRun(d, o)
        BY <2>1, <3>1, <4>1 DEF Used, OldRun, Run
      <4> QED
        BY <3>1, <4>2 DEF F, NewFree, run, n
    <3> QED
      BY <1>1, <3>1, <3>2, <3>3
  <2>3. F = (0 .. n - 1) \ Used(f, o.base, n)
    BY <1>13, <2>2
  <2> QED
    BY <1>9, <1>11, <1>14, <2>3 DEF ExactAt
<1>16. ASSUME NEW b \in Block \ {0}, IsRoot(f, b)
       PROVE  ~Newer(f[b].seq, f[0].seq)
  <2>1. f[0].seq = (o.seq + 2) % SeqNums
    BY <1>7 DEF StartOf, Root
  <2>2. CASE b = n - 1
    <3>1. f[b].seq = (o.seq + 1) % SeqNums
      BY <1>7, <2>2 DEF EndOf, Root
    <3> QED
      BY <2>1, <3>1, StartIsNewer
  <2>3. CASE b # n - 1
    <3>1. b # RootObj /\ f[b] = e[b]
      BY <1>5, <1>6, <1>16 DEF IsRoot
    <3>2. b \notin run
      <4>1. ASSUME b \in run PROVE f[b].kind = "bm"
        <5>1. b - o.base \in N /\ o.base + (b - o.base) = b
          BY <1>34, <4>1
        <5> QED
          BY <1>8, <1>33, <5>1
      <4> QED
        BY <1>16, <4>1 DEF IsRoot
    <3>3. e[b] # Blank
      BY <1>16, <3>1 DEF IsRoot, Blank
    <3>4. e[b] = d[b] /\ b # o.old - 1 /\ (IsRoot(d, b) => b # d[0].base - 1)
      BY <1>3, <2>3, <3>2, <3>3
    <3>5. IsRoot(d, b)
      BY <1>16, <3>1, <3>4 DEF IsRoot
    <3>6. ~Newer(d[b].seq, (o.seq + 2) % SeqNums)
      BY <3>4, <3>5
    <3> QED
      BY <2>1, <3>1, <3>4, <3>6
  <2> QED
    BY <2>2, <2>3
<1>17. ASSUME NEW b \in Block, b \in Roots(f, t) PROVE n = t
  <2>1. IsRoot(f, b) /\ f[b].total = t /\ b \in {0, t - 1}
    BY <1>17 DEF Roots
  <2>2. CASE b = 0 \/ b = n - 1
    BY <1>11, <2>1, <2>2
  <2>3. CASE b # 0 /\ b # n - 1
    <3>1. b # RootObj /\ f[b] = e[b]
      BY <1>5, <1>6, <2>1 DEF IsRoot
    <3>2. b \notin run
      <4>1. ASSUME b \in run PROVE f[b].kind = "bm"
        <5>1. b - o.base \in N /\ o.base + (b - o.base) = b
          BY <1>34, <4>1
        <5> QED
          BY <1>8, <1>33, <5>1
      <4> QED
        BY <2>1, <4>1 DEF IsRoot
    <3>3. e[b] # Blank
      BY <2>1, <3>1 DEF IsRoot, Blank
    <3>4. e[b] = d[b] /\ b # o.old - 1
      BY <1>3, <2>3, <3>2, <3>3
    <3>5. b \in Roots(d, t)
      BY <2>1, <3>1, <3>4 DEF Roots, IsRoot
    <3>6. o.old = t /\ b = t - 1
      BY <2>1, <2>3, <3>5
    <3> QED
      BY <3>4, <3>6
  <2> QED
    BY <2>2, <2>3
<1>18. f[RootObj] = Objc(Cardinality(FreeAt(f, n)))
  <2>1. MountRoot(f, n) \in {0, n - 1}
    BY DEF MountRoot
  <2>2. f[MountRoot(f, n)].base = o.base
    BY <1>11, <2>1
  <2> QED
    BY <1>5, <1>9, <2>2 DEF FreeAt, count
<1>19. \A b \in 0 .. n - 1 : d[b] = Data => f[b] = Data
  <2>1. \A b \in 0 .. n - 1 : b \in Block
    BY <1>1, Constants DEF Block
  <2> QED
    BY <1>10, <2>1
<1>20. ASSUME NEW k \in N PROVE FreeIn(f[o.base + k]) \subseteq Cover(k)
  <2>1. FreeIn(f[o.base + k]) = F \cap Cover(k)
    BY <1>8, FreeOf
  <2> QED
    BY <2>1
<1> QED
  BY <1>7, <1>14, <1>15, <1>16, <1>17, <1>18, <1>19, <1>20 DEF Left, n, N

LEMMA TowardsCount == ASSUME TInv, Towards, Count \/ CountFault PROVE Towards'
<1> DEFINE state == IF op.kind = "shrink" THEN "verify" ELSE "table"
<1>1. pc = "post" /\ Enter(state, <<>>) /\ op.todo = <<>>
  BY DEF Count, CountFault, Try
<1>2. op \in OpType /\ before \in [Block -> Good] /\ disk \in [Block -> Good]
  BY DEF TInv
<1>3. Alike(op', op) /\ pc' = state /\ state \in {"verify", "table"}
  BY <1>1, <1>2 DEF Enter, OpType, Alike
<1> HIDE DEF state
<1>4. before' = before /\ cyls' = cyls /\ env' = env
  BY <1>1 DEF Enter, Rest
<1>5. Shape(before, op) /\ Fitting(cyls, op)
  BY <1>1 DEF Towards
<1>6. /\ Shape(before', op') <=> Shape(before, op)
      /\ Fitting(cyls', op') <=> Fitting(cyls, op)
  BY <1>3, <1>4, SameOp
<1>7. ASSUME clean', Regular' PROVE Left(before, disk', op, Blocks(env))
  <2>1. Regular
    BY <1>3, <1>4, <1>7 DEF Regular, Alike
  <2>2. CASE CountFault
    BY <1>7, <2>2 DEF CountFault
  <2>3. CASE Count
    <3>1. \/ disk[RootObj].kind = "objc" /\ Tried(RootObj, Counted)
          \/ disk[RootObj].kind # "objc" /\ UNCHANGED <<disk, clean, troubles>>
      BY <2>3 DEF Count, Try, Tried
    <3>2. clean
      BY <1>7, <3>1 DEF Tried
    <3>3. Toward(disk, <<>>, Finished(before, op))
      BY <1>1, <2>1, <3>2 DEF Towards
    <3>4. \A b \in Block : disk[b] = Finished(before, op)[b]
      BY <3>3, Arrived
    <3>5. /\ op.kind \in {"grow", "shrink"} /\ op.total \in Nat /\ op.base \in Nat /\ op.old \in Nat
          /\ op.seq \in 0 .. SeqNums - 1 /\ op.total - 1 \in Block
      <4>1. op.kind \in {"grow", "shrink"}
        BY <1>5 DEF Shape
      <4> QED
        BY <1>1, <1>2, <4>1 DEF TInv, After, OpType
    <3>6. LaidOut(before, op)
      BY <1>2, <1>5, <2>1, <3>5, Layout DEF Regular
    <3>7. disk[RootObj].kind = "objc"
      <4>1. FinishedAs(before, op, disk)
        BY <1>2, <1>5, <3>4, <3>5, <3>6, Finishes
      <4> QED
        BY <4>1 DEF FinishedAs
    <3>8. disk' = [disk EXCEPT ![RootObj] = Objc(Cardinality(BitsFrom(disk, op.base, op.total)))]
      BY <1>7, <3>1, <3>7 DEF Tried, Counted, BitsFrom
    <3>9. DOMAIN disk = Block
      BY <1>2
    <3> QED
      BY <1>2, <1>5, <2>1, <3>4, <3>5, <3>6, <3>8, <3>9, Settled DEF Regular
  <2> QED
    BY <2>2, <2>3
<1>8. Left(before', disk', op', Blocks(env')) <=> Left(before, disk', op, Blocks(env))
  BY <1>3, <1>4, SameOp
<1> QED
  BY <1>3, <1>5, <1>6, <1>7, <1>8 DEF Towards

\* A file that is stored in a free block leaves the volume sound, and counted.
LEMMA OneStored ==
    ASSUME NEW d, NEW o, NEW t \in Nat, t > 1, t <= LastBlock + 1, o.total = t, o.base \in Nat,
           NEW e \in [Block -> Good], Left(d, e, o, t), NEW b \in FreeAt(e, t),
           NEW f, f = [e EXCEPT ![b] = Data, ![RootObj] = Objc(e[RootObj].count - 1),
                                ![o.base + Of(b)] = Bm(FreeIn(e[o.base + Of(b)]) \ {b})]
    PROVE  Left(d, f, o, t)
<1> DEFINE N == 0 .. Bmbs(t) - 1
           base == o.base
           F == BitsFrom(e, base, t)
           run == base .. base + Bmbs(t) - 1
           p == base + Of(b)
           left == Bm(FreeIn(e[p]) \ {b})
           count == Objc(e[RootObj].count - 1)
<1>1. /\ e[0] = StartOf(o) /\ e[t - 1] = EndOf(o) /\ SoundAt(e, t)
      /\ \A k \in N : FreeIn(e[base + k]) \subseteq Cover(k)
      /\ ExactAt(d, o.old) => ExactAt(e, t)
      /\ \A x \in Block \ {0} : IsRoot(e, x) => ~Newer(e[x].seq, e[0].seq)
      /\ e[RootObj] = Objc(Cardinality(FreeAt(e, t)))
      /\ \A x \in 0 .. t - 1 : d[x] = Data => e[x] = Data
  BY DEF Left
<1>2. /\ e[0].kind = "root" /\ e[0].own = 0 /\ e[0].total = t /\ e[0].base = base
      /\ e[t - 1].kind = "root" /\ e[t - 1].own = t - 1 /\ e[t - 1].total = t
      /\ e[t - 1].base = base
  BY <1>1 DEF StartOf, EndOf, Root
<1>3. Roots(e, t) = {0, t - 1}
  BY <1>2 DEF Roots, IsRoot
<1>4. FreeAt(e, t) = F
  <2>1. MountRoot(e, t) \in {0, t - 1}
    BY DEF MountRoot
  <2> QED
    BY <1>2, <2>1 DEF FreeAt
<1> HIDE DEF F
<1>5. (\A k \in N : e[base + k].kind = "bm") /\ F \subseteq (0 .. t - 1) \ Used(e, base, t)
  <2>1. 0 \in Roots(e, t)
    BY <1>3
  <2> QED
    BY <1>1, <1>2, <2>1 DEF SoundAt, F
<1>6. b \in F /\ b \in 0 .. t - 1 /\ b \notin Used(e, base, t)
  BY <1>4, <1>5
<1>7. b \in Nat /\ b # 0 /\ b # t - 1 /\ b # RootObj /\ b \notin run /\ b \in Block
  <2>1. b # 0 /\ b # t - 1 /\ b # RootObj /\ b \notin run
    BY <1>6 DEF Used
  <2> QED
    BY <1>6, <2>1, Constants DEF Block
<1>8. Of(b) \in N /\ b \in Cover(Of(b))
  BY <1>6, <1>7, InTheBitmap, InItsBlock
<1>9. p \in Block /\ p \in run /\ e[p].kind = "bm" /\ (\A k \in N : base + k \in run /\ base + k \in Block)
      /\ \A x \in run : x - base \in N /\ x = base + (x - base)
  <2>1. Bmbs(t) \in Nat
    BY BitmapSize
  <2>2. base + Bmbs(t) < t
    <3>1. 0 \in Roots(e, t) /\ Roots(e, t) # {} /\ t > 0
      BY <1>3
    <3> QED
      BY <1>2, <3>1, Mounted
  <2>3. \A k \in N : base + k \in run /\ base + k \in Block
    BY <2>1, <2>2, Constants DEF Block
  <2> QED
    BY <1>5, <1>8, <2>1, <2>3
<1>10. e[RootObj].kind = "objc" /\ count.kind = "objc" /\ Data.kind = "data" /\ left.kind = "bm"
       /\ RootObj \in Block /\ 0 \in Block
  BY <1>1, Constants DEF Objc, Data, Bm
<1> HIDE DEF count, left, run, N
<1>11. p # RootObj /\ p # b /\ 0 # RootObj /\ 0 # p /\ t - 1 # RootObj /\ t - 1 # p
  BY <1>2, <1>7, <1>9, <1>10
<1>12. /\ f[b] = Data /\ f[RootObj] = count /\ f[p] = left
       /\ \A x \in Block : x # b /\ x # RootObj /\ x # p => f[x] = e[x]
  <2>1. f = [e EXCEPT ![b] = Data, ![RootObj] = count, ![p] = left]
    BY DEF count, left
  <2> HIDE DEF p
  <2> QED
    BY <1>7, <1>9, <1>10, <1>11, <2>1
<1>13. f[0] = e[0] /\ f[t - 1] = e[t - 1]
  <2>1. t - 1 \in Block
    BY Constants DEF Block
  <2> QED
    BY <1>7, <1>10, <1>11, <1>12, <2>1
<1>14. Roots(f, t) = {0, t - 1}
  BY <1>2, <1>13 DEF Roots, IsRoot
<1>15. ASSUME NEW k \in N PROVE f[base + k] = Bm(FreeIn(e[base + k]) \ {b})
  <2>1. CASE k = Of(b)
    BY <1>12, <2>1 DEF left
  <2>2. CASE k # Of(b)
    <3>1. base + k # p
      <4>1. k \in Int /\ Of(b) \in Int /\ base \in Int
        BY <1>8 DEF N
      <4> QED
        BY <2>2, <4>1
    <3>2. base + k \in Block /\ base + k \in run
      BY <1>9
    <3>3. f[base + k] = e[base + k]
      <4>1. base + k # b /\ base + k # RootObj
        BY <1>5, <1>7, <1>10, <3>2
      <4> QED
        BY <1>12, <3>1, <3>2, <4>1
    <3>4. e[base + k] = Bm(FreeIn(e[base + k]))
      <4>1. e[base + k] \in Good /\ e[base + k].kind = "bm"
        BY <1>5, <3>2
      <4> QED
        BY <4>1, BitmapBlock
    <3>5. b \notin FreeIn(e[base + k])
      BY <1>1, <2>2, Covered DEF N
    <3>6. FreeIn(e[base + k]) \ {b} = FreeIn(e[base + k])
      BY <3>5
    <3> QED
      BY <3>3, <3>4, <3>6
  <2> QED
    BY <2>1, <2>2
<1>16. \A k \in N : FreeIn(f[base + k]) = FreeIn(e[base + k]) \ {b}
  BY <1>15, FreeOf
<1>17. BitsFrom(f, base, t) = F \ {b}
  <2>1. BitsFrom(f, base, t) = UNION {FreeIn(f[base + k]) : k \in N}
    BY DEF BitsFrom, N
  <2>2. F = UNION {FreeIn(e[base + k]) : k \in N}
    BY DEF BitsFrom, F, N
  <2>3. ASSUME NEW x PROVE x \in BitsFrom(f, base, t) <=> x \in F /\ x # b
    <3>1. x \in BitsFrom(f, base, t) <=> \E k \in N : x \in FreeIn(f[base + k])
      BY <2>1
    <3>2. x \in F <=> \E k \in N : x \in FreeIn(e[base + k])
      BY <2>2
    <3> QED
      BY <1>16, <3>1, <3>2
  <2> QED
    BY <2>3
<1>18. \A x \in Block : f[x] = Data <=> e[x] = Data \/ x = b
  BY <1>9, <1>10, <1>12
<1>19. \A x : x \in Used(f, base, t) <=> x \in Used(e, base, t) \/ x = b
  <2>1. \A x \in 0 .. t - 1 : x \in Block
    BY Constants DEF Block
  <2> QED
    BY <1>6, <1>18, <2>1 DEF Used
<1>20. SoundAt(f, t)
  <2>1. \A k \in N : f[base + k].kind = "bm"
    <3>1. \A S : Bm(S).kind = "bm"
      BY DEF Bm
    <3> QED
      BY <1>15, <3>1
  <2>2. F \ {b} \subseteq (0 .. t - 1) \ Used(f, base, t)
    BY <1>5, <1>19
  <2> QED
    BY <1>2, <1>13, <1>14, <1>17, <2>1, <2>2 DEF SoundAt, N
<1>21. ASSUME ExactAt(d, o.old) PROVE ExactAt(f, t)
  <2>1. F = (0 .. t - 1) \ Used(e, base, t)
    <3>1. 0 \in Roots(e, t)
      BY <1>3
    <3> QED
      BY <1>1, <1>2, <1>21, <3>1 DEF ExactAt, F
  <2>2. F \ {b} = (0 .. t - 1) \ Used(f, base, t)
    BY <1>19, <2>1
  <2> QED
    BY <1>2, <1>13, <1>14, <1>17, <1>20, <2>2 DEF ExactAt
<1>22. ASSUME NEW x \in Block \ {0}, IsRoot(f, x) PROVE ~Newer(f[x].seq, f[0].seq)
  <2>1. f[x].kind = "root"
    BY <1>22 DEF IsRoot
  <2>2. x # b /\ x # RootObj /\ x # p
    BY <1>10, <1>12, <2>1
  <2>3. f[x] = e[x]
    BY <1>12, <2>2
  <2>4. IsRoot(e, x)
    BY <1>22, <2>3 DEF IsRoot
  <2> QED
    BY <1>1, <1>13, <2>3, <2>4
<1>23. f[RootObj] = Objc(Cardinality(FreeAt(f, t)))
  <2>1. FreeAt(f, t) = F \ {b}
    <3>1. MountRoot(f, t) \in {0, t - 1}
      BY DEF MountRoot
    <3> QED
      BY <1>2, <1>13, <1>17, <3>1 DEF FreeAt
  <2>2. IsFiniteSet(F)
    <3>1. IsFiniteSet(0 .. t - 1)
      BY FS_Interval
    <3>2. F \subseteq 0 .. t - 1
      BY <1>5
    <3> QED
      BY <3>1, <3>2, FS_Subset
  <2>3. Cardinality(F \ {b}) = Cardinality(F) - 1
    BY <1>6, <2>2, FS_RemoveElement
  <2>4. e[RootObj].count = Cardinality(F)
    BY <1>1, <1>4 DEF Objc
  <2> QED
    BY <1>12, <2>1, <2>3, <2>4 DEF count
<1>24. \A x \in 0 .. t - 1 : d[x] = Data => f[x] = Data
  <2>1. \A x \in 0 .. t - 1 : x \in Block
    BY Constants DEF Block
  <2> QED
    BY <1>1, <1>18, <2>1
<1>25. \A k \in N : FreeIn(f[base + k]) \subseteq Cover(k)
  BY <1>1, <1>16
<1> QED
  BY <1>1, <1>13, <1>20, <1>21, <1>22, <1>23, <1>24, <1>25 DEF Left, N

LEMMA TowardsVerify == ASSUME TInv, Towards, Verify PROVE Towards'
<1>1. CASE pc' = "table"
  <2>1. /\ pc = "verify" /\ op' = op /\ disk' = disk /\ clean' = clean /\ before' = before
        /\ cyls' = cyls /\ env' = env
    BY <1>1 DEF Verify, Rest
  <2>2. Regular' => Regular
    BY <2>1 DEF Regular
  <2>3. Shape(before, op) /\ Fitting(cyls, op)
    BY <2>1 DEF Towards
  <2>4. clean /\ Regular => Left(before, disk, op, Blocks(env))
    BY <2>1 DEF Towards
  <2> QED
    BY <1>1, <2>1, <2>2, <2>3, <2>4 DEF Towards
<1>2. CASE pc' # "table"
  <2>1. pc' = "idle"
    BY <1>2 DEF Verify
  <2> QED
    BY <2>1 DEF Towards
<1> QED
  BY <1>1, <1>2

\* The handler writes in the volume it is mounted on, which the resize has left.
LEMMA TowardsAlloc == ASSUME TInv, Towards, Alloc PROVE Towards'
<1> DEFINE t == Blocks(env)
           mine == {x \in FreeAt(disk, t) : x < t}
           b == Min(mine)
           base == disk[MountRoot(disk, t)].base
           used == IF disk[RootObj].kind = "objc" /\ disk[RootObj].count > 0
                   THEN Objc(disk[RootObj].count - 1) ELSE disk[RootObj]
<1>1. /\ ~inhibited /\ Roots(disk, t) # {} /\ mine # {}
      /\ disk' = [disk EXCEPT ![b] = Data, ![RootObj] = used,
                              ![base + Of(b)] = Bm(FreeIn(disk[base + Of(b)]) \ {b})]
      /\ before' = IF pc = "idle" THEN disk' ELSE before
      /\ cyls' = cyls /\ env' = env /\ pc' = pc /\ op' = op /\ clean' = clean
  BY DEF Alloc, handler
<1>2. pc \notin {"pre", "post", "verify"}
  BY <1>1 DEF TInv
<1>3. CASE pc # "table"
  <2>1. pc' \notin {"pre", "post", "verify", "table"}
    BY <1>1, <1>2, <1>3
  <2> QED
    BY <2>1 DEF Towards
<1>4. CASE pc = "table"
  <2>1. before' = before
    BY <1>1, <1>4
  <2>2. Shape(before, op) /\ Fitting(cyls, op)
    BY <1>4 DEF Towards
  <2>3. ASSUME clean', Regular' PROVE Left(before, disk', op, t)
    <3>1. Regular
      BY <1>1, <2>1, <2>3 DEF Regular
    <3>2. Left(before, disk, op, t)
      BY <1>1, <1>4, <2>3, <3>1 DEF Towards
    <3>3. /\ disk \in [Block -> Good] /\ op.total \in Nat /\ op.base \in Nat
          /\ t \in Nat /\ t <= LastBlock + 1
      BY Sized DEF TInv, TypeOK
    <3>4. /\ 1 < op.base /\ op.base + Bmbs(op.total) < op.total /\ Bmbs(op.total) \in Nat
      BY <2>2, <3>3, BitmapSize DEF Shape
    <3> HIDE DEF t
    <3>5. PICK r \in Roots(disk, t) : r \in {0, t - 1}
      BY <1>1 DEF Roots
    <3>6. op.total = t
      <4>1. CASE r = 0
        BY <3>2, <3>5, <4>1, Constants DEF Left
      <4>2. CASE r # 0 /\ t = 0
        <5>1. PICK x \in FreeAt(disk, t) : x < t
          BY <1>1
        <5>2. x \in UNION {FreeIn(disk[base + k]) : k \in 0 .. Bmbs(t) - 1}
          BY <5>1 DEF FreeAt, BitsFrom
        <5>3. Bmbs(t) = 0
          <6>1. Bmbs(0) \in Nat /\ Bmbs(0) * Bib < 0 + Bib
            BY BitmapSize
          <6>2. Bib \in Nat \ {0}
            BY GeometryAssumption
          <6>3. Bmbs(0) * Bib < 1 * Bib
            BY <6>1, <6>2
          <6>4. Bmbs(0) < 1
            BY <6>1, <6>2, <6>3, FewerTimes
          <6> QED
            BY <4>2, <6>1, <6>4
        <5> QED
          BY <5>2, <5>3
      <4>3. CASE r = t - 1 /\ t # 0
        <5>1. r \in Block
          BY <3>3, <4>3, Constants DEF Block
        <5> QED
          BY <3>2, <3>5, <5>1 DEF Left
      <4> QED
        BY <3>5, <4>1, <4>2, <4>3
    <3>7. t > 1
      BY <3>3, <3>4, <3>6
    <3>8. base = op.base
      <4>1. MountRoot(disk, t) \in {0, t - 1}
        BY DEF MountRoot
      <4>2. disk[0].base = op.base /\ disk[t - 1].base = op.base
        BY <3>2, <3>6 DEF Left, StartOf, EndOf, Root
      <4> QED
        BY <4>1, <4>2
    <3>9. FreeAt(disk, t) \subseteq 0 .. t - 1
      <4>1. 0 \in Roots(disk, t)
        BY <3>2, <3>6 DEF Left, StartOf, Root, Roots, IsRoot
      <4>2. BitsFrom(disk, disk[0].base, t) \subseteq 0 .. t - 1
        BY <3>2, <3>6, <4>1 DEF Left, SoundAt
      <4>3. disk[0].base = op.base
        BY <3>2 DEF Left, StartOf, Root
      <4> QED
        BY <3>8, <4>2, <4>3 DEF FreeAt
    <3>10. b \in FreeAt(disk, t)
      <4>1. mine \in SUBSET Nat
        BY <3>9
      <4>2. b \in mine
        <5> HIDE DEF mine
        <5> QED
          BY <1>1, <4>1, LeastOf
      <4> QED
        BY <4>2
    <3> HIDE DEF mine, b, base
    <3>11. used = Objc(disk[RootObj].count - 1)
      <4>1. IsFiniteSet(FreeAt(disk, t))
        <5>1. IsFiniteSet(0 .. t - 1)
          BY <3>3, FS_Interval
        <5> QED
          BY <3>9, <5>1, FS_Subset
      <4>2. Cardinality(FreeAt(disk, t)) \in Nat /\ Cardinality(FreeAt(disk, t)) # 0
        BY <3>10, <4>1, FS_CardinalityType, FS_EmptySet
      <4>3. disk[RootObj].kind = "objc" /\ disk[RootObj].count = Cardinality(FreeAt(disk, t))
        BY <3>2, <3>6 DEF Left, Objc
      <4> QED
        BY <4>2, <4>3
    <3> HIDE DEF used
    <3>12. disk' = [disk EXCEPT ![b] = Data, ![RootObj] = Objc(disk[RootObj].count - 1),
                                ![op.base + Of(b)] = Bm(FreeIn(disk[op.base + Of(b)]) \ {b})]
      BY <1>1, <3>8, <3>11
    <3> QED
      BY <3>2, <3>3, <3>6, <3>7, <3>10, <3>12, OneStored
  <2> HIDE DEF t
  <2>4. t' = t /\ op' = op /\ cyls' = cyls /\ pc' = "table"
    BY <1>1, <1>4 DEF t
  <2>5. clean' /\ Regular' => Left(before', disk', op', t')
    BY <2>1, <2>3, <2>4
  <2>6. Shape(before', op') /\ Fitting(cyls', op')
    BY <2>1, <2>2, <2>4
  <2> QED
    BY <2>4, <2>5, <2>6 DEF Towards, t
<1> QED
  BY <1>3, <1>4

LEMMA TowardsInit == Init => Towards
  BY DEF Init, Towards

LEMMA TowardsStep == TInv /\ Towards /\ [Next]_vars => Towards'
<1> SUFFICES ASSUME TInv, Towards, [Next]_vars PROVE Towards'
  OBVIOUS
<1>1. CASE UNCHANGED vars
  <2>1. /\ disk' = disk /\ pc' = pc /\ op' = op /\ before' = before /\ cyls' = cyls
        /\ env' = env /\ clean' = clean
    BY <1>1 DEF vars, handler
  <2>2. Regular' => Regular
    BY <2>1 DEF Regular
  <2> QED
    BY <2>1, <2>2 DEF Towards
<1>2. CASE ReadFault \/ Undo \/ Undone \/ TableWrite \/ TableFault \/ Reboot
  <2>1. pc' \notin {"pre", "post", "verify", "table"}
    BY <1>2 DEF ReadFault, Fail, Undo, Try, Undone, TableWrite, TableFault, Reboot
  <2> QED
    BY <2>1 DEF Towards
<1>3. CASE Next
  BY <1>2, <1>3, TowardsGrow, TowardsShrink, TowardsPreWrite, TowardsCommit, TowardsPostWrite,
     TowardsCount, TowardsVerify, TowardsAlloc, Zenon DEF Next, Advance, Faults
<1> QED
  BY <1>1, <1>3

LEMMA TowardsMeans == TInv /\ Towards => SoundWhenDone
<1> SUFFICES ASSUME TInv, Towards, Regular, pc = "table", clean, op.old <= Blocks(cyls)
             PROVE  /\ op.total <= Blocks(op.new) /\ (op.exact => op.total = Blocks(op.new))
                    /\ Roots(disk, op.total) = {0, op.total - 1} /\ SoundAt(disk, op.total)
                    /\ ExactAt(before, op.old) => ExactAt(disk, op.total)
                    /\ \A b \in Block \ {0} : IsRoot(disk, b) => ~Newer(disk[b].seq, disk[0].seq)
                    /\ disk[RootObj] = Objc(Cardinality(FreeAt(disk, op.total)))
                    /\ \A b \in 0 .. op.total - 1 : before[b] = Data => disk[b] = Data
  BY DEF SoundWhenDone
<1>1. Left(before, disk, op, Blocks(env)) /\ Fitting(cyls, op)
  BY DEF Towards
<1>2. op.total <= Blocks(op.new) /\ (op.exact => op.total = Blocks(op.new))
  BY <1>1 DEF Fitting, Regular
<1>3. Roots(disk, op.total) = {0, op.total - 1}
  <2>1. /\ disk[0].kind = "root" /\ disk[0].own = 0 /\ disk[0].total = op.total
        /\ disk[op.total - 1].kind = "root" /\ disk[op.total - 1].own = op.total - 1
        /\ disk[op.total - 1].total = op.total
    BY <1>1 DEF Left, StartOf, EndOf, Root
  <2> QED
    BY <2>1 DEF Roots, IsRoot
<1> QED
  BY <1>1, <1>2, <1>3 DEF Left

(***************************************************************************)
(* What SFS_GrowPartition and SFS_ShrinkPartition leave when they report    *)
(* success, for any geometry, any volumes and sizes: of the three ways a    *)
(* grow writes the bitmap -- the end of the last block, blocks that go on   *)
(* where it ends, the whole of it in the new space -- and of a shrink, each *)
(* makes the bitmap say of every block what it said before, with the place  *)
(* of the old bitmap and the space up to the new end added, without the new *)
(* one and the new end root.  The plan is one of blocks, and the writes,    *)
(* in whatever order, take the disk towards it (Toward); the wipes hit the  *)
(* old roots and nothing of the plan; the count is taken from the bitmap as *)
(* it then is; and a handler that is let in keeps both in step.  The volume *)
(* must have been Regular, which the run finds of every one a resize begins *)
(* with.                                                                    *)
(***************************************************************************)
THEOREM SoundResize == Spec => []SoundWhenDone
<1>1. Init => TInv /\ Towards
  BY TypeInit, TowardsInit
<1>2. TInv /\ Towards /\ [Next]_vars => (TInv /\ Towards)'
  BY TypeStep, TowardsStep
<1> QED
  BY <1>1, <1>2, TowardsMeans, PTL DEF Spec
=============================================================================
