-------------------------- MODULE RdbTable_proofs --------------------------
(***************************************************************************)
(* Theorems about RdbTable, for every geometry, every limit and every disk *)
(* the assumptions allow.                                                  *)
(*                                                                         *)
(* TypeCorrect: TypeOK, by the inductive TInv.                             *)
(* DataIsSafe: PartitionDataUntouched, by TInv and the inductive DataInv.  *)
(* HeaderIsLast: HeaderLast, by TInv and the inductive HeaderInv.          *)
(* ListIsSpared: BadbSpared, by these and the inductive BadbInv.           *)
(***************************************************************************)
EXTENDS RdbTable, FiniteSetTheorems, SequenceTheorems, TLAPS

---------------------------------------------------------------------------
(* Blocks and the layout *)

\* A block is of the kind its ID says.
LEMMA BlockKinds ==
    ASSUME NEW b \in Block
    PROVE  /\ b.id = "RDSK" => b \in Rdsk
           /\ b.id = "PART" => b \in Part
           /\ b.id = "FSHD" => b \in Fshd
           /\ b.id = "LSEG" => b \in Lseg
           /\ b.id = "DATA" <=> b \in Data
           /\ Zero \in Block /\ Junk \in Block
BY DEF Block, Plain, Data, Rdsk, Part, Fshd, Lseg, Zero, Junk

\* The reserved area, and the places a fresh header may go to, are on the disk.
LEMMA ReservedBlocks == Reserved \subseteq Lba /\ FreshLo \subseteq Lba
BY BoundsAssumption, GeometryAssumption, ChoiceAssumption
   DEF Reserved, Lba, Scan, ReservedEnd

\* The header slot is at rdb_block_lo and only there.
LEMMA ImageKinds ==
    ASSUME NEW m \in RDBInfo, NEW l \in Layout(m)
    PROVE  /\ m.lo \in Layout(m)
           /\ DOMAIN Image(m) = Layout(m)
           /\ Image(m)[l].id # "DATA"
           /\ Image(m)[l].id = "RDSK" => l = m.lo
<1>1. Image(m)[l] = IF l = m.lo THEN Header(m)
                    ELSE IF l \in PartLbas(m) THEN PartBlock(m, l)
                    ELSE IF l \in FsLbas(m) THEN FsBlock(m, l)
                    ELSE SegBlock(m, l)
  BY DEF Image
<1>2. /\ Header(m).id = "RDSK" /\ PartBlock(m, l).id = "PART"
      /\ FsBlock(m, l).id = "FSHD" /\ SegBlock(m, l).id = "LSEG"
  BY DEF Header, PartBlock, FsBlock, SegBlock
<1>3. DOMAIN Image(m) = Layout(m) /\ m.lo \in Layout(m)
  BY DEF Image, Layout
<1> QED BY <1>1, <1>2, <1>3

\* A piece of code is an entry of the table and a place in its code.
LEMMA PieceIndex ==
    ASSUME NEW m, NEW p \in Pieces(m)
    PROVE  p[1] \in DOMAIN m.fs /\ p[2] \in DOMAIN m.fs[p[1]].code
<1>1. PICK i \in DOMAIN m.fs : p \in {<<i, k>> : k \in DOMAIN m.fs[i].code}
  BY DEF Pieces
<1>2. PICK k \in DOMAIN m.fs[i].code : p = <<i, k>>
  BY <1>1
<1>3. p[1] = i /\ p[2] = k
  BY <1>2
<1> QED BY <1>3

\* What the layout puts into an LSEG block is a piece of some driver.
LEMMA PieceData ==
    ASSUME NEW m \in RDBInfo, NEW p \in Pieces(m)
    PROVE  m.fs[p[1]].code[p[2]] \in Piece
<1>1. m.fs \in Seq(Fs)
  BY DEF RDBInfo
<1>2. PICK i \in DOMAIN m.fs : p[1] = i
  BY PieceIndex
<1>3. m.fs[i] \in Fs
  BY <1>1, <1>2
<1>4. m.fs[i].code \in Seq(Piece)
  BY <1>3 DEF Fs
<1>5. PICK k \in DOMAIN m.fs[i].code : p[2] = k
  BY <1>2, PieceIndex
<1> QED BY <1>2, <1>4, <1>5

\* A layout in front of the first cylinder consists of well-formed blocks.
LEMMA ImageBlocks ==
    ASSUME NEW m \in RDBInfo, Layout(m) \subseteq Lba, NEW l \in Layout(m)
    PROVE  Image(m)[l] \in Block /\ KeptBadb(m) \in Ptr
<1>1. m.lo \in Lba /\ m.badb \in Ptr /\ m.parts \in Seq(Partition) /\ m.fs \in Seq(Fs)
  BY DEF RDBInfo
<1>2. m.lo \in Nat /\ Len(m.parts) \in Nat /\ Len(m.fs) \in Nat
  BY <1>1 DEF Lba
<1>3. KeptBadb(m) \in Ptr
  BY <1>1 DEF KeptBadb, Ptr
<1>4. Header(m) \in Rdsk
  <2>1. m.parts # << >> => PartBase(m) \in PartLbas(m)
    BY <1>1, <1>2 DEF PartBase, PartLbas, FsBase
  <2>2. m.fs # << >> => FsBase(m) \in FsLbas(m)
    <3>1. m.fs # << >> => Len(m.fs) > 0
      BY <1>1
    <3>2. FsBase(m) \in Int
      BY <1>2 DEF FsBase, PartBase
    <3> QED BY <1>2, <3>1, <3>2 DEF FsLbas
  <2>3. PartLbas(m) \subseteq Lba /\ FsLbas(m) \subseteq Lba
    BY DEF Layout
  <2> QED BY <1>1, <1>3, <2>1, <2>2, <2>3 DEF Header, Rdsk, Ptr
<1>5. ASSUME l \in PartLbas(m) PROVE PartBlock(m, l) \in Part
  <2>1. l - m.lo \in DOMAIN m.parts
    BY <1>1, <1>2, <1>5 DEF PartLbas, PartBase, FsBase
  <2>2. m.parts[l - m.lo] \in Partition
    BY <1>1, <2>1
  <2>3. PartLbas(m) \subseteq Lba
    BY DEF Layout
  <2> QED BY <2>2, <2>3 DEF PartBlock, Part, Ptr
<1>6. SegLbas(m) \subseteq Lba
  BY DEF Layout
<1>7. ASSUME l \in FsLbas(m) PROVE FsBlock(m, l) \in Fshd
  <2> DEFINE i == l - FsBase(m) + 1
  <2>1. i \in DOMAIN m.fs
    BY <1>1, <1>2, <1>7 DEF FsLbas, PartBase, FsBase
  <2>2. m.fs[i] \in Fs
    BY <1>1, <2>1
  <2>3. m.fs[i].code # << >> => PieceLba(m, <<i, 1>>) \in SegLbas(m)
    <3> SUFFICES ASSUME m.fs[i].code # << >>
                 PROVE  PieceLba(m, <<i, 1>>) \in SegLbas(m)
      OBVIOUS
    <3>1. 1 \in DOMAIN m.fs[i].code
      BY <2>2 DEF Fs
    <3>2. <<i, 1>> \in Pieces(m)
      BY <2>1, <3>1 DEF Pieces
    <3> QED BY <3>2 DEF SegLbas
  <2>4. FsLbas(m) \subseteq Lba
    BY DEF Layout
  <2>5. m.fs[i].drv \in Drivers
    BY <2>2 DEF Fs
  <2> QED BY <1>6, <2>3, <2>4, <2>5 DEF FsBlock, Fshd, Ptr
<1>8. ASSUME l \in SegLbas(m) PROVE SegBlock(m, l) \in Lseg
  <2> DEFINE p == CHOOSE q \in Pieces(m) : PieceLba(m, q) = l
             r == <<p[1], p[2] + 1>>
  <2>1. p \in Pieces(m)
    BY <1>8 DEF SegLbas
  <2>4. m.fs[p[1]].code[p[2]] \in Piece
    BY <2>1, PieceData
  <2>5. r \in Pieces(m) => PieceLba(m, r) \in SegLbas(m)
    BY DEF SegLbas
  <2>6. SegBlock(m, l) =
          [id |-> "LSEG",
           next |-> IF r \in Pieces(m) THEN PieceLba(m, r) ELSE End,
           data |-> m.fs[p[1]].code[p[2]]]
    BY DEF SegBlock
  <2> QED BY <1>6, <2>4, <2>5, <2>6 DEF Lseg, Ptr
<1>9. Image(m)[l] = IF l = m.lo THEN Header(m)
                    ELSE IF l \in PartLbas(m) THEN PartBlock(m, l)
                    ELSE IF l \in FsLbas(m) THEN FsBlock(m, l)
                    ELSE SegBlock(m, l)
  BY DEF Image
<1>10. l \notin PartLbas(m) /\ l \notin FsLbas(m) /\ l # m.lo => l \in SegLbas(m)
  BY DEF Layout
<1> QED BY <1>3, <1>4, <1>5, <1>7, <1>8, <1>9, <1>10 DEF Block

---------------------------------------------------------------------------
(* Type correctness *)

\* While the image is being written or compared: it lies in the reserved area,
\* its header is where mem says, and what is still to do belongs to its body.
ImageInv ==
    pc \in {"write", "verify"} =>
        /\ mem.lo \in DOMAIN wr.img /\ DOMAIN wr.img \subseteq Reserved
        /\ \A l \in DOMAIN wr.img : /\ wr.img[l] \in Block
                                    /\ wr.img[l].id # "DATA"
                                    /\ wr.img[l].id = "RDSK" => l = mem.lo
        /\ pc = "write" => wr.todo \subseteq DOMAIN wr.img \ {mem.lo}

Buffers(i, t, b, s) == [img : {i}, todo : {t}, before : {b}, spoilt : {s}]
Buffer(r) == r \in Buffers(r.img, r.todo, r.before, r.spoilt)

TInv ==
    /\ TypeOK
    /\ pc # "find" => rd.next \in Ptr
    /\ pc = "lseg" => mem.fs # << >>
    /\ Buffer(wr)
    /\ ImageInv

\* The program starts with nothing in memory and nothing to write.
LEMMA InitTInv == Init => TInv
<1> SUFFICES ASSUME Init PROVE TInv
  OBVIOUS
<1>1. disk \in [Lba -> Block]
  BY InitDisksAssumption DEF Init
<1>2. NoMem \in RDBInfo /\ NoRd \in Walk
  BY BoundsAssumption DEF NoMem, RDBInfo, NoRd, Walk, Lba, Ptr
<1> QED
  BY <1>1, <1>2, BoundsAssumption
     DEF Init, TInv, TypeOK, ImageInv, NoRd, NoWr, Buffer, Buffers, Ptr, Lba,
         Reading, Writing, Unknown

\* A step outside a write that leaves the write buffer alone.
LEMMA QuietStep ==
    ASSUME TInv, UNCHANGED wr, disk' = disk \/ disk' \in [Lba -> Block],
           mem' \in RDBInfo, rd' \in Walk, pc' \in {"off", "idle"} \cup Reading,
           fail' \in {"none", "invalid", "counts", "trunc", "range", "overlap",
                     "overflow", "nomem", "io"},
           edits' \in 0 .. MaxEdits, troubles' \in 0 .. MaxTroubles,
           pc' = "find" => rd'.next \in 0 .. ScanLimit,
           pc' # "find" => rd'.next \in Ptr,
           pc' = "lseg" => mem'.fs # << >>
    PROVE  TInv'
BY DEF TInv, TypeOK, ImageInv, Reading

\* Each trouble counts once against the bound.
LEMMA MoreTrouble == TypeOK /\ Trouble => troubles' \in 0 .. MaxTroubles
BY BoundsAssumption DEF TypeOK, Trouble

\* What RDB_Read starts from.
LEMMA Emptied == NoMem \in RDBInfo /\ NoRd \in Walk /\ NoRd.next = End
                 /\ (rd \in Walk => [NoRd EXCEPT !.clean = rd.clean] \in Walk)
BY BoundsAssumption DEF NoMem, RDBInfo, NoRd, Walk, Lba, Ptr

\* The insertion sort of RDB_Read keeps a sequence of partitions one.
LEMMA Inserted ==
    ASSUME NEW s \in Seq(Partition), NEW p \in Partition
    PROVE  InsertSorted(s, p) \in Seq(Partition)
<1> DEFINE below == {i \in DOMAIN s : s[i].low <= p.low}
           n == Cardinality(below)
<1>1. below \subseteq 1 .. Len(s) /\ Len(s) \in Nat
  OBVIOUS
<1>2. IsFiniteSet(1 .. Len(s)) /\ Cardinality(1 .. Len(s)) = Len(s)
  BY <1>1, FS_Interval
<1>3. n \in Nat /\ n <= Len(s)
  BY <1>1, <1>2, FS_Subset, FS_CardinalityType
<1>4. InsertSorted(s, p) =
        SubSeq(s, 1, n) \o <<p>> \o SubSeq(s, n + 1, Len(s))
  <2> HIDE DEF n
  <2>1. InsertAt(s, 1 + n, p) =
          SubSeq(s, 1, n) \o <<p>> \o SubSeq(s, n + 1, Len(s))
    <3>1. (1 + n) - 1 = n /\ 1 + n = n + 1
      BY <1>3
    <3> QED BY <3>1 DEF InsertAt
  <2> QED BY <2>1 DEF InsertSorted, n
<1> HIDE DEF n
<1>5. SubSeq(s, 1, n) \in Seq(Partition) /\ SubSeq(s, n + 1, Len(s)) \in Seq(Partition)
  BY <1>1, <1>3
<1>6. <<p>> \in Seq(Partition)
  OBVIOUS
<1> QED BY <1>4, <1>5, <1>6

\* The entry whose code is being read is there.
LEMMA LastEntry ==
    ASSUME mem \in RDBInfo, mem.fs # << >>
    PROVE  LastFs \in DOMAIN mem.fs /\ mem.fs[LastFs] \in Fs
           /\ mem.fs[LastFs].code \in Seq(Piece)
<1>1. mem.fs \in Seq(Fs)
  BY DEF RDBInfo
<1>2. LastFs \in DOMAIN mem.fs
  BY <1>1 DEF LastFs
<1>3. mem.fs[LastFs] \in Fs
  BY <1>1, <1>2
<1> QED BY <1>2, <1>3 DEF Fs

\* Changing the code of the last entry keeps the table well formed.
LEMMA NewCode ==
    ASSUME mem \in RDBInfo, mem.fs # << >>, NEW c \in Seq(Piece)
    PROVE  /\ [mem EXCEPT !.fs[LastFs].code = c] \in RDBInfo
           /\ [mem EXCEPT !.fs[LastFs].code = c].fs # << >>
<1>1. mem.fs \in Seq(Fs) /\ mem.fs \in [1 .. Len(mem.fs) -> Fs] /\ Len(mem.fs) \in Nat
  BY DEF RDBInfo
<1>2. LastFs \in 1 .. Len(mem.fs) /\ mem.fs[LastFs] \in Fs
  BY <1>1, LastEntry
<1>3. [mem.fs[LastFs] EXCEPT !.code = c] \in Fs
  BY <1>2 DEF Fs
<1>4. [mem.fs EXCEPT ![LastFs].code = c] \in [1 .. Len(mem.fs) -> Fs]
  BY <1>1, <1>2, <1>3
<1>5. [mem.fs EXCEPT ![LastFs].code = c] \in Seq(Fs)
      /\ [mem.fs EXCEPT ![LastFs].code = c] # << >>
  BY <1>1, <1>2, <1>4
<1>6. [mem EXCEPT !.fs[LastFs].code = c] =
        [mem EXCEPT !.fs = [mem.fs EXCEPT ![LastFs].code = c]]
  BY DEF RDBInfo
<1> QED BY <1>5, <1>6 DEF RDBInfo

\* The scan for the header moves on by one block.
LEMMA ScanOn ==
    ASSUME rd \in Walk, rd.next \in Scan
    PROVE  LET r == [rd EXCEPT !.next = rd.next + 1]
           IN r \in Walk /\ r.next \in 0 .. ScanLimit
<1>1. rd.next + 1 \in 0 .. ScanLimit
  BY BoundsAssumption DEF Scan
<1>2. 0 .. ScanLimit \subseteq Ptr \cup {ScanLimit}
  BY BoundsAssumption DEF Ptr, Lba
<1> QED BY <1>1, <1>2 DEF Walk

\* RDB_Read, whatever blocks it meets.
LEMMA LoadTInv == TInv /\ (Open \/ Load \/ LoadFault) => TInv'
<1> SUFFICES ASSUME TInv, Open \/ Load \/ LoadFault PROVE TInv'
  OBVIOUS
<1>0. /\ disk \in [Lba -> Block] /\ mem \in RDBInfo /\ rd \in Walk
      /\ pc \in {"off", "idle"} \cup Reading \cup Writing
      /\ fail \in {"none", "invalid", "counts", "trunc", "range", "overlap",
                   "overflow", "nomem", "io"}
      /\ edits \in 0 .. MaxEdits /\ troubles \in 0 .. MaxTroubles
      /\ TypeOK
      /\ pc = "find" => rd.next \in 0 .. ScanLimit
      /\ pc # "find" => rd.next \in Ptr
      /\ pc = "lseg" => mem.fs # << >>
  BY DEF TInv, TypeOK
<1> USE DEF history, Reading
<1>1. CASE Open
  <2>1. rd' \in Walk /\ rd'.next \in 0 .. ScanLimit
    <3>1. 0 \in Ptr \cup {ScanLimit} /\ 0 \in 0 .. ScanLimit
      BY BoundsAssumption DEF Lba, Ptr
    <3>2. rd' = [NoRd EXCEPT !.next = 0] /\ NoRd \in Walk
      BY <1>1, Emptied DEF Open
    <3> QED BY <3>1, <3>2 DEF Walk
  <2>2. mem' \in RDBInfo
    BY <1>1, Emptied DEF Open
  <2> QED BY <1>0, <1>1, <2>1, <2>2, QuietStep DEF Open
<1>2. CASE FindHeader
  <2>1. rd.next \in Lba /\ disk[rd.next] \in Block
    BY <1>0, <1>2, BoundsAssumption DEF FindHeader, Scan, Lba
  <2>2. disk[rd.next] \in Rdsk
    BY <1>2, <2>1, BlockKinds DEF FindHeader
  <2>3. mem' \in RDBInfo
    BY <1>0, <1>2, <2>1, <2>2 DEF FindHeader, Rdsk, RDBInfo, Ptr
  <2>4. rd' \in Walk /\ rd'.next \in Ptr
    BY <1>0, <1>2, <2>2 DEF FindHeader, Rdsk, Walk
  <2> QED BY <1>0, <1>2, <2>3, <2>4, QuietStep DEF FindHeader
<1>3. CASE FindSkip
  <2>1. rd.next \in Scan /\ rd' = [rd EXCEPT !.next = rd.next + 1]
    BY <1>3 DEF FindSkip
  <2>2. rd' \in Walk /\ rd'.next \in 0 .. ScanLimit
    BY <1>0, <2>1, ScanOn
  <2> QED BY <1>0, <1>3, <2>2, QuietStep DEF FindSkip
<1>4. CASE FindFault
  <2>1. rd.next \in Scan
        /\ rd' = [[rd EXCEPT !.next = rd.next + 1] EXCEPT !.clean = FALSE]
    BY <1>0, <1>4 DEF FindFault, Walk
  <2>2. rd' \in Walk /\ rd'.next \in 0 .. ScanLimit
    BY <1>0, <2>1, ScanOn DEF Walk
  <2> QED BY <1>0, <1>4, <2>2, MoreTrouble, QuietStep DEF FindFault
<1>5. CASE FindNone
  BY <1>0, <1>5, QuietStep, Emptied DEF FindNone, ReadDone, Ptr
<1>6. CASE PartEnd
  BY <1>0, <1>6, QuietStep DEF PartEnd, ToFsChain, Walk
<1>7. CASE PartBreak
  BY <1>0, <1>7, QuietStep DEF PartBreak, PartMore, ToFsChain, Walk, RDBInfo
<1>8. CASE PartFault
  BY <1>0, <1>8, QuietStep, MoreTrouble DEF PartFault, PartMore, Walk, RDBInfo
<1>9. CASE PartTake
  <2>1. rd.next \in Lba /\ disk[rd.next] \in Block
    BY <1>0, <1>9 DEF PartTake, PartMore, Ptr
  <2>2. disk[rd.next] \in Part
    BY <1>9, <2>1, BlockKinds DEF PartTake
  <2>3. InsertSorted(mem.parts, disk[rd.next].part) \in Seq(Partition)
    BY <1>0, <2>2, Inserted DEF RDBInfo, Part
  <2>4. mem' \in RDBInfo
    BY <1>0, <1>9, <2>3 DEF PartTake, RDBInfo
  <2>5. rd' \in Walk /\ rd'.next \in Ptr
    BY <1>0, <1>9, <2>1, <2>2 DEF PartTake, Part, Walk, Remember
  <2> QED BY <1>0, <1>9, <2>4, <2>5, QuietStep DEF PartTake, PartMore
<1>10. CASE FsEnd
  BY <1>0, <1>10, QuietStep, Emptied DEF FsEnd, ReadDone, Ptr
<1>11. CASE FsBreak
  <2>1. rd' \in Walk /\ rd'.next \in Ptr
    BY <1>0, <1>11, Emptied DEF FsBreak, ReadDone, Walk, Ptr
  <2>2. mem' \in RDBInfo
    BY <1>0, <1>11 DEF FsBreak, RDBInfo
  <2> QED BY <1>0, <1>11, <2>1, <2>2, QuietStep DEF FsBreak, ReadDone
<1>12. CASE FsFault
  BY <1>0, <1>12, QuietStep, MoreTrouble, Emptied
     DEF FsFault, FsMore, NoRd, Walk, Ptr, RDBInfo
<1>13. CASE FsTake
  <2>1. rd.next \in Lba /\ disk[rd.next] \in Block
    BY <1>0, <1>13 DEF FsTake, FsMore, Ptr
  <2>2. disk[rd.next] \in Fshd
    BY <1>13, <2>1, BlockKinds DEF FsTake
  <2>3. [drv |-> disk[rd.next].drv, code |-> << >>] \in Fs
    BY <2>2 DEF Fs, Fshd
  <2> DEFINE e == [drv |-> disk[rd.next].drv, code |-> << >>]
  <2> HIDE DEF e
  <2>4a. mem.fs \in Seq(Fs)
    BY <1>0 DEF RDBInfo
  <2>4b. Append(mem.fs, e) \in Seq(Fs) /\ Append(mem.fs, e) # << >>
    BY <2>3, <2>4a, AppendProperties DEF e
  <2>4c. mem' = [mem EXCEPT !.fs = Append(mem.fs, e)]
    BY <1>13 DEF FsTake, e
  <2>4. mem' \in RDBInfo /\ mem'.fs # << >>
    BY <1>0, <2>4b, <2>4c DEF RDBInfo
  <2>5. rd' \in Walk /\ rd'.next \in Ptr
    BY <1>0, <1>13, <2>1, <2>2 DEF FsTake, Fshd, Walk, Remember
  <2> QED BY <1>0, <1>13, <2>4, <2>5, QuietStep DEF FsTake, FsMore
<1>14. CASE SegEnd
  BY <1>0, <1>14, QuietStep DEF SegEnd
<1>15. CASE SegFault
  <2>1. rd' \in Walk /\ rd'.next \in Ptr
    BY <1>0, <1>15 DEF SegFault, Walk
  <2>2. mem' \in RDBInfo
    <3>1. << >> \in Seq(Piece) /\ mem.fs # << >>
      BY <1>0, <1>15 DEF SegFault
    <3>2. [mem EXCEPT !.fs[LastFs].code = << >>] \in RDBInfo
      BY <1>0, <3>1, NewCode
    <3> QED BY <1>0, <1>15, <3>2 DEF SegFault
  <2> QED BY <1>0, <1>15, <2>1, <2>2, MoreTrouble, QuietStep DEF SegFault
<1>16. CASE SegTake
  <2>1. rd.seg \in Lba /\ disk[rd.seg] \in Block
    BY <1>0, <1>16 DEF SegTake, SegMore, Ptr, Walk
  <2>2. disk[rd.seg] \in Lseg
    BY <1>16, <2>1, BlockKinds DEF SegTake, SegMore
  <2>3. LastFs \in DOMAIN mem.fs /\ mem.fs[LastFs].code \in Seq(Piece)
    BY <1>0, <1>16, LastEntry DEF SegTake, SegMore
  <2>4. Append(mem.fs[LastFs].code, disk[rd.seg].data) \in Seq(Piece)
    BY <2>2, <2>3 DEF Lseg
  <2>5. mem' \in RDBInfo /\ mem'.fs # << >>
    BY <1>0, <1>16, <2>4, NewCode DEF SegTake, SegMore
  <2>6. rd' \in Walk /\ rd'.next \in Ptr
    BY <1>0, <1>16, <2>1, <2>2 DEF SegTake, SegMore, Lseg, Walk, Remember
  <2> QED BY <1>0, <1>16, <2>5, <2>6, QuietStep DEF SegTake, SegMore
<1> QED
  BY <1>1, <1>2, <1>3, <1>4, <1>5, <1>6, <1>7, <1>8, <1>9, <1>10, <1>11, <1>12,
     <1>13, <1>14, <1>15, <1>16 DEF Load, LoadFault

\* Deleting an entry keeps the list well formed.
LEMMA Removed ==
    ASSUME NEW S, NEW s \in Seq(S), NEW i \in DOMAIN s
    PROVE  RemoveAt(s, i) \in Seq(S)
<1>1. SubSeq(s, 1, i - 1) \in Seq(S) /\ SubSeq(s, i + 1, Len(s)) \in Seq(S)
  OBVIOUS
<1> QED BY <1>1, ConcatProperties DEF RemoveAt

\* The edits of the table in memory.
LEMMA EditTInv ==
    ASSUME TInv,
           \/ \E p \in PartChoices : \/ AddPart(p)
                                     \/ \E i \in DOMAIN mem.parts : SetPart(i, p)
           \/ \E i \in DOMAIN mem.parts : DelPart(i)
           \/ \E d \in Drivers : AddFs(d)
           \/ \E i \in DOMAIN mem.fs : DelFs(i)
           \/ \E lo \in FreshLo : InitFresh(lo)
           \/ Acknowledge \/ Close
    PROVE  TInv'
<1>0. /\ mem \in RDBInfo /\ rd \in Walk
      /\ mem.parts \in Seq(Partition) /\ mem.fs \in Seq(Fs)
      /\ fail \in {"none", "invalid", "counts", "trunc", "range", "overlap",
                   "overflow", "nomem", "io"}
      /\ edits \in 0 .. MaxEdits /\ troubles \in 0 .. MaxTroubles
      /\ pc # "find" => rd.next \in Ptr
  BY DEF TInv, TypeOK, RDBInfo
<1>1. ASSUME Edit, mem' \in RDBInfo PROVE TInv'
  <2>1. edits' \in 0 .. MaxEdits
    BY <1>0, <1>1, BoundsAssumption DEF Edit
  <2> QED BY <1>0, <1>1, <2>1, QuietStep DEF Edit, Reading
<1>2. ASSUME NEW p \in PartChoices, AddPart(p) PROVE TInv'
  <2>1. Append(mem.parts, p) \in Seq(Partition)
    BY <1>0, ChoiceAssumption, AppendProperties
  <2>2. mem' \in RDBInfo
    BY <1>0, <1>2, <2>1 DEF AddPart, RDBInfo
  <2> QED BY <1>1, <1>2, <2>2 DEF AddPart
<1>3. ASSUME NEW p \in PartChoices, NEW i \in DOMAIN mem.parts, SetPart(i, p)
      PROVE  TInv'
  <2>1. p \in Partition
    BY ChoiceAssumption
  <2>2. [mem.parts EXCEPT ![i] = p] \in Seq(Partition)
    BY <1>0, <2>1
  <2>3. mem' = [mem EXCEPT !.parts = [mem.parts EXCEPT ![i] = p]]
    BY <1>0, <1>3 DEF SetPart, RDBInfo
  <2>4. mem' \in RDBInfo
    BY <1>0, <2>2, <2>3 DEF RDBInfo
  <2> QED BY <1>1, <1>3, <2>4 DEF SetPart
<1>4. ASSUME NEW i \in DOMAIN mem.parts, DelPart(i) PROVE TInv'
  <2>1. RemoveAt(mem.parts, i) \in Seq(Partition)
    BY <1>0, Removed
  <2>2. mem' \in RDBInfo
    BY <1>0, <1>4, <2>1 DEF DelPart, RDBInfo
  <2> QED BY <1>1, <1>4, <2>2 DEF DelPart
<1>5. ASSUME NEW d \in Drivers, AddFs(d) PROVE TInv'
  <2> DEFINE e == [drv |-> d, code |-> CodeOf(d)]
  <2>1. CodeOf(d) \in Seq(Piece)
    <3>1. CodeLen[d] \in Nat
      BY ChoiceAssumption
    <3>2. CodeOf(d) \in [1 .. CodeLen[d] -> Piece]
      BY <3>1 DEF CodeOf, Piece
    <3> QED BY <3>1, <3>2
  <2>2. e \in Fs
    BY <2>1 DEF Fs
  <2> HIDE DEF e
  <2>3. Append(mem.fs, e) \in Seq(Fs)
    BY <1>0, <2>2, AppendProperties
  <2>4. mem' = [mem EXCEPT !.fs = Append(mem.fs, e)]
    BY <1>5 DEF AddFs, e
  <2>5. mem' \in RDBInfo
    BY <1>0, <2>3, <2>4 DEF RDBInfo
  <2> QED BY <1>1, <1>5, <2>5 DEF AddFs
<1>6. ASSUME NEW i \in DOMAIN mem.fs, DelFs(i) PROVE TInv'
  <2>1. RemoveAt(mem.fs, i) \in Seq(Fs)
    BY <1>0, Removed
  <2>2. mem' \in RDBInfo
    BY <1>0, <1>6, <2>1 DEF DelFs, RDBInfo
  <2> QED BY <1>1, <1>6, <2>2 DEF DelFs
<1>7. ASSUME NEW lo \in FreshLo, InitFresh(lo) PROVE TInv'
  <2>1. mem' \in RDBInfo
    BY <1>7, Emptied, ReservedBlocks DEF InitFresh, RDBInfo
  <2>2. disk' = disk \/ disk' \in [Lba -> Block]
    <3>1. EmptyMbr \in Block /\ disk \in [Lba -> Block]
      BY DEF TInv, TypeOK, EmptyMbr, Block, Plain
    <3> QED BY <1>7, <3>1 DEF InitFresh
  <2>3. edits' \in 0 .. MaxEdits
    <3>1. edits < MaxEdits /\ edits' = edits + 1
      BY <1>7 DEF InitFresh
    <3> QED BY <1>0, <3>1, BoundsAssumption
  <2> QED BY <1>0, <1>7, <2>1, <2>2, <2>3, QuietStep DEF InitFresh, Reading
<1>8. CASE Acknowledge
  <2>1. mem' \in RDBInfo
    BY <1>0, <1>8 DEF Acknowledge, RDBInfo
  <2> QED BY <1>0, <1>8, <2>1, QuietStep DEF Acknowledge, Reading
<1>9. CASE Close
  BY <1>0, <1>9, Emptied, QuietStep DEF Close, Reading, Ptr
<1> QED BY <1>2, <1>3, <1>4, <1>5, <1>6, <1>7, <1>8, <1>9

\* The overflow check of RDB_Write, in terms of the layout.
LEMMA SoundFits == Sound => Layout(mem) \subseteq Reserved
<1> SUFFICES ASSUME Sound PROVE Layout(mem) \subseteq Reserved
  OBVIOUS
<1>1. 6 \in DOMAIN Checks /\ Checks[6] = "overflow"
  BY DEF Checks
<1>2. ~Grounds(mem).overflow
  BY <1>1 DEF Sound
<1>3. Grounds(mem).overflow = Overflows(mem)
  BY DEF Grounds
<1>4. LoCyl > 0
  BY GeometryAssumption DEF ReservedEnd
<1> QED BY <1>2, <1>3, <1>4 DEF Overflows

\* The slot RDB_Write turns to next belongs to the image; it is the header only
\* when nothing else is left.
LEMMA Target ==
    ASSUME TInv, pc = "write", NEW l \in Lba, NextSlot(l)
    PROVE  /\ l \in DOMAIN wr.img /\ l \in Reserved /\ wr.img[l] \in Block
           /\ wr.img[l].id # "DATA"
           /\ wr.img[l].id = "RDSK" => l = mem.lo
           /\ l = mem.lo <=> wr.todo = {}
BY DEF TInv, ImageInv, NextSlot

\* The two ways in which the loops of RDB_Write change their variables.
LEMMA BufferUpdate ==
    ASSUME NEW r, NEW t, Buffer(r)
    PROVE  /\ [r EXCEPT !.todo = t] \in Buffers(r.img, t, r.before, r.spoilt)
           /\ [r EXCEPT !.todo = t, !.spoilt = TRUE] \in Buffers(r.img, t, r.before, TRUE)
BY DEF Buffer, Buffers

\* The fields of a write buffer.
LEMMA BufferFields ==
    ASSUME NEW i, NEW t, NEW b, NEW s, NEW r \in Buffers(i, t, b, s)
    PROVE  Buffer(r) /\ r.img = i /\ r.todo = t /\ r.before = b /\ r.spoilt = s
BY DEF Buffer, Buffers

\* A step within the writing loop, or from it to the read-back.
LEMMA SlotStep ==
    ASSUME TInv, pc = "write", UNCHANGED <<mem, rd, fail, edits>>,
           disk' \in [Lba -> Block], NEW l \in Lba, NEW s \in BOOLEAN,
           wr' \in Buffers(wr.img, wr.todo \ {l}, wr.before, s),
           pc' \in {"write", "verify"}, troubles' \in 0 .. MaxTroubles
    PROVE  TInv'
<1>1. wr'.img = wr.img /\ wr'.todo = wr.todo \ {l} /\ wr'.spoilt = s
      /\ Buffer(wr')
  BY BufferFields
<1>2. ImageInv'
  BY <1>1 DEF TInv, ImageInv
<1> QED BY <1>1, <1>2 DEF TInv, TypeOK, Writing

\* A step that ends outside the writing loop.
LEMMA RetireStep ==
    ASSUME TInv, UNCHANGED <<mem, rd, edits>>, rd.next \in Ptr,
           disk' \in [Lba -> Block], pc' \in {"idle", "retire"},
           fail' \in {"none", "invalid", "counts", "trunc", "range", "overlap",
                     "overflow", "nomem", "io"},
           NEW i, NEW t \in SUBSET Lba, NEW b, NEW s \in BOOLEAN,
           wr' \in Buffers(i, t, b, s),
           troubles' \in 0 .. MaxTroubles
    PROVE  TInv'
<1>1. wr'.todo = t /\ wr'.spoilt = s
      /\ Buffer(wr')
  BY BufferFields
<1> QED BY <1>1 DEF TInv, TypeOK, ImageInv, Writing

\* The steps of RDB_Write, refused, failing or successful.
LEMMA WriteTInv ==
    ASSUME TInv, RefuseWrite \/ BeginWrite \/ Save \/ WriteFaults
    PROVE  TInv'
<1>0. /\ disk \in [Lba -> Block] /\ mem \in RDBInfo /\ rd \in Walk
      /\ pc \in {"off", "idle"} \cup Reading \cup Writing
      /\ fail \in {"none", "invalid", "counts", "trunc", "range", "overlap",
                   "overflow", "nomem", "io"}
      /\ edits \in 0 .. MaxEdits /\ troubles \in 0 .. MaxTroubles
      /\ TypeOK /\ Reserved \subseteq Lba
      /\ pc # "find" => rd.next \in Ptr
      /\ wr.todo \in SUBSET Lba /\ wr.spoilt \in BOOLEAN
      /\ Buffer(wr)
      /\ Junk \in Block /\ Zero \in Block
  BY ReservedBlocks DEF TInv, TypeOK, Junk, Zero, Block, Plain
<1>1. CASE RefuseWrite
  <2>1. fail' \in {"none", "invalid", "counts", "trunc", "range", "overlap",
                  "overflow", "nomem", "io"}
    BY <1>1 DEF RefuseWrite, Checks
  <2> QED BY <1>0, <1>1, <2>1, QuietStep DEF RefuseWrite, Reading
<1>2. CASE WriteNoMem
  BY <1>0, <1>2, QuietStep, MoreTrouble DEF WriteNoMem, Reading
<1>3. CASE BeginWrite
  <2>1. Layout(mem) \subseteq Reserved
    BY <1>3, SoundFits DEF BeginWrite
  <2>2. KeptBadb(mem) \in Ptr /\ mem.lo \in Layout(mem)
    BY <1>0, <2>1, ImageBlocks DEF Layout
  <2>3. mem' \in RDBInfo /\ mem'.lo = mem.lo
    BY <1>0, <1>3, <2>2 DEF BeginWrite, RDBInfo
  <2>4. wr' \in Buffers(Image(mem), Layout(mem) \ {mem.lo}, expect, FALSE)
    BY <1>3 DEF BeginWrite, Buffers
  <2>4a. /\ wr'.img = Image(mem) /\ wr'.todo = Layout(mem) \ {mem.lo}
         /\ wr'.spoilt = FALSE /\ Buffer(wr')
    BY <2>4 DEF Buffer, Buffers
  <2>5. ImageInv'
    <3>1. DOMAIN Image(mem) = Layout(mem)
      BY <1>0, <2>2, ImageKinds
    <3>2. ASSUME NEW l \in Layout(mem)
          PROVE  /\ Image(mem)[l] \in Block
                 /\ Image(mem)[l].id # "DATA"
                 /\ Image(mem)[l].id = "RDSK" => l = mem.lo
      BY <1>0, <2>1, ImageKinds, ImageBlocks
    <3>3. /\ mem'.lo \in DOMAIN wr'.img /\ DOMAIN wr'.img \subseteq Reserved
          /\ wr'.todo \subseteq DOMAIN wr'.img \ {mem'.lo}
      BY <2>1, <2>2, <2>3, <2>4a, <3>1
    <3>5. mem'.lo \in DOMAIN wr'.img /\ DOMAIN wr'.img \subseteq Reserved
      BY <3>3
    <3>6. pc' = "write" => wr'.todo \subseteq DOMAIN wr'.img \ {mem'.lo}
      BY <3>3
    <3>7. (mem.lo \in DOMAIN wr.img /\ DOMAIN wr.img \subseteq Reserved)'
      BY <3>5
    <3>8. (pc = "write" => wr.todo \subseteq DOMAIN wr.img \ {mem.lo})'
      BY <3>6
    <3>9. (\A l \in DOMAIN wr.img : /\ wr.img[l] \in Block
                                    /\ wr.img[l].id # "DATA"
                                    /\ wr.img[l].id = "RDSK" => l = mem.lo)'
      BY <2>3, <2>4a, <3>1, <3>2
    <3> QED BY <3>7, <3>8, <3>9 DEF ImageInv
  <2>6. wr'.todo \in SUBSET Lba /\ wr'.spoilt \in BOOLEAN
        /\ Buffer(wr')
    BY <1>0, <2>1, <2>4a
  <2> QED BY <1>0, <1>3, <2>3, <2>5, <2>6
          DEF BeginWrite, TInv, TypeOK, Writing
<1>w. ASSUME NEW t
      PROVE  /\ [wr EXCEPT !.todo = t] \in Buffers(wr.img, t, wr.before, wr.spoilt)
             /\ [wr EXCEPT !.todo = t, !.spoilt = TRUE]
                  \in Buffers(wr.img, t, wr.before, TRUE)
  BY <1>0, BufferUpdate
<1>n. NoWr \in Buffers(NoWr.img, {}, NoWr.before, FALSE)
  BY DEF NoWr, Buffers
<1>4. ASSUME NEW l \in Lba, WriteBlock(l) PROVE TInv'
  <2>1. disk' \in [Lba -> Block]
    BY <1>0, <1>4, Target DEF WriteBlock
  <2>2. wr' \in Buffers(wr.img, wr.todo \ {l}, wr.before, wr.spoilt)
    BY <1>4, <1>w DEF WriteBlock, Written
  <2> QED BY <1>0, <1>4, <2>1, <2>2, SlotStep DEF WriteBlock, Written
<1>5. ASSUME NEW l \in Lba, WriteSpoilt(l) PROVE TInv'
  <2>1. disk' \in [Lba -> Block]
    BY <1>0, <1>5 DEF WriteSpoilt
  <2>2. wr' \in Buffers(wr.img, wr.todo \ {l}, wr.before, TRUE)
    BY <1>5, <1>w DEF WriteSpoilt
  <2> QED BY <1>0, <1>5, <2>1, <2>2, MoreTrouble, SlotStep DEF WriteSpoilt
<1>6. ASSUME NEW l \in Lba, WriteFault(l) PROVE TInv'
  <2>1. disk' \in [Lba -> Block]
    BY <1>0, <1>6, Target DEF WriteFault
  <2> QED BY <1>0, <1>6, <2>1, MoreTrouble, <1>n, RetireStep
          DEF WriteFault, WriteFailed
<1>7. Scan \ {mem.lo} \in SUBSET Lba
  BY BoundsAssumption DEF Scan, Lba
<1>8. CASE VerifyOk
  BY <1>0, <1>7, <1>8, <1>w, RetireStep DEF VerifyOk, ToRetire
<1>9. CASE VerifyMismatch
  BY <1>0, <1>9, <1>n, RetireStep DEF VerifyMismatch, WriteFailed
<1>10. CASE VerifyFault
  BY <1>0, <1>10, MoreTrouble, <1>n, RetireStep DEF VerifyFault, WriteFailed
<1>11. CASE VerifySkipped
  BY <1>0, <1>7, <1>11, <1>w, MoreTrouble, RetireStep DEF VerifySkipped, ToRetire
<1>12. ASSUME NEW l \in Lba, RetireBlock(l) PROVE TInv'
  <2>1. disk' \in [Lba -> Block]
    BY <1>0, <1>12 DEF RetireBlock
  <2> QED BY <1>0, <1>12, <1>w, <2>1, RetireStep DEF RetireBlock, RetireNext
<1>13. ASSUME NEW l \in Lba, RetireFault(l) PROVE TInv'
  <2>1. PICK rest \in {wr.todo \ {l}, {}} :
           wr' = [wr EXCEPT !.todo = rest, !.spoilt = TRUE]
    BY <1>13 DEF RetireFault
  <2>2. wr' \in Buffers(wr.img, rest, wr.before, TRUE) /\ rest \in SUBSET Lba
    BY <1>0, <1>w, <2>1
  <2> QED BY <1>0, <1>13, <2>2, MoreTrouble, RetireStep DEF RetireFault, RetireNext
<1>14. CASE WriteDone
  BY <1>0, <1>14, <1>n, RetireStep DEF WriteDone
<1> QED
  BY <1>1, <1>2, <1>3, <1>4, <1>5, <1>6, <1>8, <1>9, <1>10, <1>11, <1>12, <1>13,
     <1>14 DEF Save, WriteFaults

\* TInv is inductive.
LEMMA NextTInv == TInv /\ [Next]_vars => TInv'
<1> SUFFICES ASSUME TInv, [Next]_vars PROVE TInv'
  OBVIOUS
<1>1. CASE Crash
  <2>1. troubles' \in 0 .. MaxTroubles
    BY <1>1, MoreTrouble DEF Crash, TInv
  <2>2. NoMem \in RDBInfo /\ NoRd \in Walk /\ NoRd.next \in Ptr
    BY Emptied DEF Ptr
  <2>3. NoWr.todo \in SUBSET Lba /\ NoWr.spoilt \in BOOLEAN
        /\ Buffer(NoWr)
    BY DEF NoWr, Buffer, Buffers
  <2> QED BY <1>1, <2>1, <2>2, <2>3 DEF Crash, TInv, TypeOK, ImageInv
<1>2. ASSUME NEW l \in Lba, Rot(l) PROVE TInv'
  <2>1. troubles' \in 0 .. MaxTroubles
    BY <1>2, MoreTrouble DEF Rot, TInv
  <2>2. disk' \in [Lba -> Block]
    BY <1>2 DEF Rot, TInv, TypeOK, Junk, Block, Plain
  <2> QED BY <1>2, <2>1, <2>2 DEF Rot, TInv, TypeOK, ImageInv
<1>3. CASE UNCHANGED vars
  BY <1>3 DEF vars, TInv, TypeOK, ImageInv
<1> QED
  BY <1>1, <1>2, <1>3, LoadTInv, EditTInv, WriteTInv DEF Next

\* TInv always holds.
LEMMA TypeInduction == Spec => []TInv
BY InitTInv, NextTInv, PTL DEF Spec

\* In every state the program's tables, pointers and buffers are well formed, and
\* every block of the disk is one a walk can classify.
THEOREM TypeCorrect == Spec => []TypeOK
<1>1. TInv => TypeOK
  BY DEF TInv
<1> QED BY <1>1, TypeInduction, PTL

---------------------------------------------------------------------------
(* The data of the partitions, and the header of the table *)

\* What a step can do to the disk: put down the next slot of the image, lose it,
\* zero a header, put an MBR into block 0, or decay.
LEMMA DiskSteps ==
    ASSUME TInv, [Next]_vars
    PROVE  \/ disk' = disk
           \/ \E l \in Lba :
                 /\ pc = "write" /\ NextSlot(l) /\ wr.img[l] \in Block
                 /\ l \in Reserved /\ wr.img[l].id # "DATA"
                 /\ \/ disk' = [disk EXCEPT ![l] = wr.img[l]]
                    \/ disk' = [disk EXCEPT ![l] = Junk] /\ pc' # "idle"
           \/ \E l \in Lba : /\ pc # "write" /\ (disk[l] \notin Data \/ l \in Reserved)
                            /\ \E b \in {Zero, Junk, EmptyMbr} :
                                  disk' = [disk EXCEPT ![l] = b]
<1>1. ASSUME NEW l \in Lba, WriteBlock(l) \/ WriteFault(l) \/ WriteSpoilt(l)
      PROVE  \/ disk' = disk
             \/ /\ pc = "write" /\ NextSlot(l) /\ wr.img[l] \in Block
                /\ l \in Reserved /\ wr.img[l].id # "DATA"
                /\ \/ disk' = [disk EXCEPT ![l] = wr.img[l]]
                   \/ disk' = [disk EXCEPT ![l] = Junk] /\ pc' # "idle"
  BY <1>1, Target DEF WriteBlock, WriteFault, WriteSpoilt
<1>2. ASSUME NEW l \in Lba, RetireBlock(l) \/ Rot(l)
      PROVE  \/ disk' = disk
             \/ /\ pc # "write" /\ disk[l] \notin Data
                /\ \E b \in {Zero, Junk} : disk' = [disk EXCEPT ![l] = b]
  BY <1>2 DEF RetireBlock, RetireNext, Rot, Data
<1>3. CASE Open \/ Load \/ LoadFault
  BY <1>3 DEF Open, Load, LoadFault, FindHeader, FindSkip, FindFault, FindNone,
              PartEnd, PartBreak, PartFault, PartTake, FsEnd, FsBreak, FsFault,
              FsTake, SegEnd, SegFault, SegTake
<1>4. ASSUME Edit PROVE disk' = disk
  BY <1>4 DEF Edit
<1>5. ASSUME NEW lo \in FreshLo, InitFresh(lo)
      PROVE  \/ disk' = disk
             \/ pc # "write" /\ 0 \in Reserved /\ disk' = [disk EXCEPT ![0] = EmptyMbr]
  BY <1>5, GeometryAssumption DEF InitFresh, Reserved, ReservedEnd
<1>6. CASE Acknowledge \/ Close \/ RefuseWrite \/ BeginWrite \/ Crash \/ UNCHANGED vars
  BY <1>6 DEF Acknowledge, Close, RefuseWrite, BeginWrite, Crash, vars
<1>7. CASE WriteNoMem \/ VerifyFault \/ VerifySkipped \/ VerifyOk \/ VerifyMismatch
           \/ WriteDone \/ \E l \in Lba : RetireFault(l)
  BY <1>7 DEF WriteNoMem, VerifyFault, VerifySkipped, VerifyOk, VerifyMismatch,
              WriteDone, RetireFault
<1> QED
  BY <1>1, <1>2, <1>3, <1>4, <1>5, <1>6, <1>7, ReservedBlocks
     DEF Next, Save, WriteFaults, AddPart, SetPart, DelPart, AddFs, DelFs

DataInv == \A l \in Lba : (disk[l] \in Data) <=> (l \notin Reserved)

\* The blocks behind the reserved area are data, before a step and after it.
LEMMA DataStep ==
    ASSUME TInv, DataInv, [Next]_vars
    PROVE  DataInv' /\ \A l \in Lba : disk[l] \in Data => disk'[l] = disk[l]
<1>0. DOMAIN disk = Lba /\ Zero \notin Data /\ Junk \notin Data /\ EmptyMbr \notin Data
  BY DEF TInv, TypeOK, Zero, Junk, EmptyMbr, Data
<1>1. ASSUME NEW l \in Lba, NEW b, b \notin Data, disk' = [disk EXCEPT ![l] = b],
             disk[l] \notin Data \/ l \in Reserved
      PROVE  DataInv' /\ \A k \in Lba : disk[k] \in Data => disk'[k] = disk[k]
  BY <1>0, <1>1 DEF DataInv
<1>2. CASE disk' = disk
  BY <1>2 DEF DataInv
<1>3. ASSUME NEW l \in Lba, l \in Reserved, wr.img[l] \in Block, wr.img[l].id # "DATA",
             \/ disk' = [disk EXCEPT ![l] = wr.img[l]]
             \/ disk' = [disk EXCEPT ![l] = Junk]
      PROVE  DataInv' /\ \A k \in Lba : disk[k] \in Data => disk'[k] = disk[k]
  <2>1. wr.img[l] \notin Data
    BY <1>3 DEF Data
  <2>2. disk[l] \notin Data
    BY <1>3 DEF DataInv
  <2> QED BY <1>0, <1>1, <1>3, <2>1, <2>2
<1> QED BY <1>0, <1>1, <1>2, <1>3, DiskSteps

\* Whatever happens -- damaged chains, stale pointers, faults, a power loss at any
\* step -- no block behind the reserved area is ever changed by the table code.
THEOREM DataIsSafe == Spec => PartitionDataUntouched
<1>1. Init => DataInv
  BY InitDisksAssumption DEF Init, DataInv
<1>2. TInv /\ DataInv /\ [Next]_vars => DataInv'
  BY DataStep
<1>3. TInv /\ DataInv /\ [Next]_vars
        => [\A l \in Lba : disk[l] \in Data => disk'[l] = disk[l]]_vars
  BY DataStep
<1> QED
  BY <1>1, <1>2, <1>3, TypeInduction, PTL DEF Spec, PartitionDataUntouched

\* While the device has not lied, a slot of the body is still to be written or on
\* the disk as the image has it.  TInv adds that the header is the only RDSK of
\* the image, and NextSlot that it waits for the body.
HeaderInv ==
    pc = "write" /\ ~wr.spoilt
        => \A k \in DOMAIN wr.img : k \in wr.todo \cup {mem.lo} \/ disk[k] = wr.img[k]

\* The only steps that lead to, or stay in, the writing loop.
LEMMA WriteSteps ==
    ASSUME TInv, [Next]_vars, pc' = "write"
    PROVE  \/ BeginWrite
           \/ UNCHANGED vars
           \/ \E l \in Lba : WriteBlock(l) \/ WriteSpoilt(l)
<1>1. ~(Open \/ Load \/ LoadFault)
  BY DEF Open, Load, LoadFault, FindHeader, FindSkip, FindFault, FindNone, ReadDone,
         PartEnd, PartBreak, PartFault, PartTake, PartMore, ToFsChain, FsEnd, FsBreak,
         FsFault, FsTake, FsMore, SegEnd, SegFault, SegTake, SegMore, TInv, TypeOK,
         Reading
<1>2. /\ ~Edit /\ ~Acknowledge /\ ~Close /\ ~RefuseWrite /\ ~WriteNoMem /\ ~Crash
      /\ \A lo \in FreshLo : ~InitFresh(lo)
  BY DEF Edit, InitFresh, Acknowledge, Close, RefuseWrite, WriteNoMem, Crash
<1>3. ~VerifyOk /\ ~VerifyMismatch /\ ~VerifyFault /\ ~VerifySkipped /\ ~WriteDone
  BY DEF VerifyOk, VerifyMismatch, VerifyFault, VerifySkipped, WriteDone, ToRetire,
         WriteFailed
<1>4. ASSUME NEW l \in Lba
      PROVE  ~WriteFault(l) /\ ~RetireBlock(l) /\ ~RetireFault(l) /\ ~Rot(l)
  BY DEF WriteFault, WriteFailed, RetireBlock, RetireFault, RetireNext, Rot
<1> QED
  BY <1>1, <1>2, <1>3, <1>4
     DEF Next, Save, WriteFaults, AddPart, SetPart, DelPart, AddFs, DelFs

\* HeaderInv is inductive, given TInv.
LEMMA HeaderStep ==
    ASSUME TInv, HeaderInv, [Next]_vars
    PROVE  HeaderInv'
<1> SUFFICES ASSUME pc' = "write", ~wr'.spoilt, NEW k \in DOMAIN wr'.img
             PROVE  k \in wr'.todo \cup {mem'.lo} \/ disk'[k] = wr'.img[k]
  BY DEF HeaderInv
<1>0. Buffer(wr) /\ Reserved \subseteq Lba /\ disk \in [Lba -> Block]
  BY ReservedBlocks DEF TInv, TypeOK
<1>1. CASE BeginWrite
  <2>1. wr'.img = Image(mem) /\ wr'.todo = Layout(mem) \ {mem.lo}
    BY <1>1 DEF BeginWrite
  <2>2. mem'.lo = mem.lo
    BY <1>1 DEF BeginWrite, TInv, TypeOK, RDBInfo
  <2> QED BY <2>1, <2>2 DEF Image
<1>2. CASE UNCHANGED vars
  BY <1>2 DEF vars, HeaderInv
<1>3. ASSUME NEW l \in Lba, WriteBlock(l)
      PROVE  k \in wr'.todo \cup {mem'.lo} \/ disk'[k] = wr'.img[k]
  <2>1. wr'.img = wr.img /\ wr'.todo = wr.todo \ {l} /\ wr'.spoilt = wr.spoilt
        /\ mem'.lo = mem.lo /\ pc = "write"
    BY <1>0, <1>3 DEF WriteBlock, Written, Buffer, Buffers
  <2>2. k \in Lba
    BY <1>0, <2>1 DEF TInv, ImageInv
  <2>3. disk'[k] = IF k = l THEN wr.img[l] ELSE disk[k]
    BY <1>0, <1>3, <2>2 DEF WriteBlock
  <2>4. k \in wr.todo \cup {mem.lo} \/ disk[k] = wr.img[k]
    BY <2>1 DEF HeaderInv
  <2> QED BY <2>1, <2>3, <2>4
<1>4. ASSUME NEW l \in Lba PROVE ~WriteSpoilt(l)
  BY <1>0 DEF WriteSpoilt, Buffer, Buffers
<1> QED BY <1>1, <1>2, <1>3, <1>4, WriteSteps

\* A step that puts an RDSK down finds the rest of the image in place.
LEMMA HeaderAction ==
    ASSUME TInv, HeaderInv, [Next]_vars, NEW l \in Lba,
           disk'[l] # disk[l], disk'[l].id = "RDSK", ~wr.spoilt
    PROVE  \A k \in DOMAIN wr.img : disk'[k] = wr.img[k]
<1>0. /\ disk \in [Lba -> Block] /\ Reserved \subseteq Lba
      /\ Zero.id # "RDSK" /\ Junk.id # "RDSK" /\ EmptyMbr.id # "RDSK"
  BY ReservedBlocks DEF TInv, TypeOK, Zero, Junk, EmptyMbr
<1>1. pc = "write" /\ NextSlot(l) /\ disk' = [disk EXCEPT ![l] = wr.img[l]]
  BY <1>0, DiskSteps
<1>2. wr.img[l].id = "RDSK"
  BY <1>0, <1>1
<1>3. l = mem.lo /\ wr.todo = {}
  BY <1>1, <1>2, Target
<1>4. DOMAIN wr.img \subseteq Lba
  BY <1>0, <1>1 DEF TInv, ImageInv
<1> TAKE k \in DOMAIN wr.img
<1>5. CASE k = l
  BY <1>0, <1>1, <1>5
<1>6. CASE k # l
  BY <1>0, <1>1, <1>3, <1>4, <1>6 DEF HeaderInv
<1> QED BY <1>5, <1>6

\* RDB_Write puts an RDSK on the disk only when every PART, FSHD and LSEG block it
\* leads to is there as laid out -- for any layout, and also when the write goes
\* on to fail; a device that stores something else than it was given is excepted.
THEOREM HeaderIsLast == Spec => HeaderLast
<1>1. Init => HeaderInv
  BY DEF Init, HeaderInv
<1>2. TInv /\ HeaderInv /\ [Next]_vars => HeaderInv'
  BY HeaderStep
<1>3. TInv /\ HeaderInv /\ [Next]_vars
        => [\A l \in Lba : (disk'[l] # disk[l] /\ disk'[l].id = "RDSK" /\ ~wr.spoilt)
              => \A k \in DOMAIN wr.img : disk'[k] = wr.img[k]]_vars
  BY HeaderAction
<1> QED
  BY <1>1, <1>2, <1>3, TypeInduction, PTL DEF Spec, HeaderLast

---------------------------------------------------------------------------
(* The bad block list *)

\* A header's pointer that ends, or leads to a bad block list; block 0 is no place
\* for one, since RDB_Read takes a pointer to it for the end.
ListAt(b) == b = End \/ (b # 0 /\ disk[b].id = "BADB")
HeaderGood(l) == disk[l].id = "RDSK" => ListAt(disk[l].badb)

\* Whoever wrote the disk has left no header in the scan range with another one.
ListsAtStart ==
    \A d \in InitDisks : \A l \in Scan :
        d.disk[l].id = "RDSK" =>
            \/ d.disk[l].badb = End
            \/ d.disk[l].badb # 0 /\ d.disk[d.disk[l].badb].id = "BADB"

\* As long as nothing fails.  A write may grow over the list of another header of the
\* scan range; those headers are retired before RDB_Write returns, and until then the
\* range is good only where it has been looked at.
BadbInv ==
    troubles = 0 =>
        /\ ~wr.spoilt
        /\ mem.valid => ListAt(mem.badb)
        /\ pc \notin Writing => /\ \A l \in Scan : HeaderGood(l)
                                /\ mem.valid => HeaderGood(mem.at)
        /\ pc \in Writing => mem.valid /\ mem.at = mem.lo
        /\ pc \in {"write", "verify"} => /\ wr.img[mem.lo].badb = mem.badb
                                         /\ mem.badb \notin DOMAIN wr.img
        /\ pc = "verify" => \A k \in DOMAIN wr.img : disk[k] = wr.img[k]
        /\ pc = "retire" => /\ HeaderGood(mem.lo)
                            /\ \A l \in Scan \ wr.todo : HeaderGood(l)

\* BadbInv without its condition.
Untroubled ==
    /\ troubles = 0 /\ ~wr.spoilt
    /\ mem.valid => ListAt(mem.badb)
    /\ pc \notin Writing => /\ \A l \in Scan : HeaderGood(l)
                            /\ mem.valid => HeaderGood(mem.at)
    /\ pc \in Writing => mem.valid /\ mem.at = mem.lo
    /\ pc \in {"write", "verify"} => /\ wr.img[mem.lo].badb = mem.badb
                                     /\ mem.badb \notin DOMAIN wr.img
    /\ pc = "verify" => \A k \in DOMAIN wr.img : disk[k] = wr.img[k]
    /\ pc = "retire" => /\ HeaderGood(mem.lo)
                        /\ \A l \in Scan \ wr.todo : HeaderGood(l)

\* A step outside a write that leaves the disk alone and keeps the table's header.
LEMMA KeepsList ==
    ASSUME Untroubled, UNCHANGED <<disk, wr>>, pc \notin Writing, pc' \notin Writing,
           mem'.valid => mem.valid /\ mem'.badb = mem.badb /\ mem'.at = mem.at
    PROVE  BadbInv'
BY DEF Untroubled, BadbInv, ListAt, HeaderGood, Writing

\* RDB_Read: the list is that of the header it has found.
LEMMA LoadList == ASSUME TInv, Untroubled, Open \/ Load PROVE BadbInv'
<1>0. mem \in RDBInfo /\ disk \in [Lba -> Block] /\ Scan \subseteq Lba
  BY BoundsAssumption DEF TInv, TypeOK, Scan, Lba
<1>1. CASE FindHeader
  <2> DEFINE b == disk[rd.next]
  <2>1. rd.next \in Scan /\ b.id = "RDSK" /\ pc = "find" /\ UNCHANGED <<disk, wr, troubles>>
        /\ pc' = "parts"
    BY <1>1 DEF FindHeader, history
  <2>2. /\ mem'.valid = TRUE /\ mem'.at = rd.next
        /\ mem'.badb = IF b.badb = 0 THEN End ELSE b.badb
    BY <1>0, <1>1 DEF FindHeader, RDBInfo
  <2>3. ListAt(b.badb) /\ \A l \in Scan : HeaderGood(l)
    BY <2>1 DEF Untroubled, Writing, HeaderGood
  <2> QED
    BY <2>1, <2>2, <2>3 DEF Untroubled, BadbInv, ListAt, HeaderGood, Writing
<1>2. CASE Open
  BY <1>2, KeepsList DEF Open, NoMem, Writing
<1>3. CASE FindSkip \/ FindNone
  BY <1>3, KeepsList DEF FindSkip, FindNone, ReadDone, Writing
<1>4. CASE PartEnd \/ PartBreak \/ PartTake
  BY <1>0, <1>4, KeepsList
     DEF PartEnd, PartBreak, PartTake, PartMore, ToFsChain, Writing, RDBInfo
<1>5. CASE FsEnd \/ FsBreak \/ FsTake
  BY <1>0, <1>5, KeepsList DEF FsEnd, FsBreak, FsTake, FsMore, ReadDone, Writing, RDBInfo
<1>6. CASE SegEnd \/ SegTake
  BY <1>0, <1>6, KeepsList DEF SegEnd, SegTake, SegMore, Writing, RDBInfo
<1> QED
  BY <1>1, <1>2, <1>3, <1>4, <1>5, <1>6 DEF Load

\* The edits, and a fresh table, which has no list.
LEMMA EditList ==
    ASSUME TInv, Untroubled,
           \/ \E p \in PartChoices : \/ AddPart(p)
                                     \/ \E i \in DOMAIN mem.parts : SetPart(i, p)
           \/ \E i \in DOMAIN mem.parts : DelPart(i)
           \/ \E d \in Drivers : AddFs(d)
           \/ \E i \in DOMAIN mem.fs : DelFs(i)
           \/ \E lo \in FreshLo : InitFresh(lo)
           \/ Acknowledge \/ Close \/ RefuseWrite
    PROVE  BadbInv'
<1>0. mem \in RDBInfo /\ disk \in [Lba -> Block] /\ Scan \subseteq Lba
  BY BoundsAssumption DEF TInv, TypeOK, Scan, Lba
<1>1. CASE \/ \E p \in PartChoices : \/ AddPart(p)
                                     \/ \E i \in DOMAIN mem.parts : SetPart(i, p)
           \/ \E i \in DOMAIN mem.parts : DelPart(i)
           \/ \E d \in Drivers : AddFs(d)
           \/ \E i \in DOMAIN mem.fs : DelFs(i)
  BY <1>0, <1>1, KeepsList
     DEF AddPart, SetPart, DelPart, AddFs, DelFs, Edit, Writing, RDBInfo
<1>2. CASE Acknowledge \/ Close \/ RefuseWrite
  BY <1>0, <1>2, KeepsList
     DEF Acknowledge, Close, RefuseWrite, NoMem, Reading, Writing, RDBInfo
<1>3. ASSUME NEW lo \in FreshLo, InitFresh(lo) PROVE BadbInv'
  <2>1. pc = "idle" /\ pc' = "idle" /\ UNCHANGED <<wr, troubles>>
        /\ mem'.badb = End /\ mem'.at = lo
        /\ (disk' = disk \/ disk' = [disk EXCEPT ![0] = EmptyMbr])
    BY <1>3 DEF InitFresh, NoMem
  <2>2. lo \in Scan
    BY ChoiceAssumption
  <2>3. \A l \in Scan : HeaderGood(l)
    BY <2>1 DEF Untroubled, Writing
  <2>4. \A l \in Scan : HeaderGood(l)'
    <3> TAKE l \in Scan
    <3> DEFINE b == disk'[l].badb
    <3> SUFFICES ASSUME disk'[l].id = "RDSK"
                 PROVE  b = End \/ (b # 0 /\ disk'[b].id = "BADB")
      BY DEF HeaderGood, ListAt
    <3>1. disk'[l] = disk[l] /\ l \in Lba
      BY <1>0, <2>1 DEF EmptyMbr
    <3>2. ListAt(disk[l].badb) /\ disk[l].badb \in Ptr
      BY <1>0, <2>3, <3>1, BlockKinds DEF HeaderGood, Rdsk
    <3> QED
      BY <1>0, <2>1, <3>1, <3>2 DEF ListAt, Ptr
  <2> QED
    BY <2>1, <2>2, <2>4 DEF Untroubled, BadbInv, ListAt, Writing
<1> QED
  BY <1>1, <1>2, <1>3

\* RDB_Write: the list that is kept lies off the layout, and the headers that are
\* left when it returns are its own and those that were good.
LEMMA WriteList ==
    ASSUME TInv, HeaderInv, Untroubled, BeginWrite \/ Save
    PROVE  BadbInv'
<1>0. /\ mem \in RDBInfo /\ disk \in [Lba -> Block] /\ Scan \subseteq Lba
      /\ Buffer(wr) /\ wr.todo \subseteq Lba /\ Reserved \subseteq Lba
  BY BoundsAssumption, ReservedBlocks DEF TInv, TypeOK, Scan, Lba
<1>1. CASE BeginWrite
  <2>1. /\ wr'.img = Image(mem) /\ wr'.spoilt = FALSE /\ pc' = "write" /\ pc = "idle"
        /\ mem'.at = mem.lo /\ mem'.lo = mem.lo /\ mem'.valid = mem.valid
        /\ mem'.badb = KeptBadb(mem) /\ UNCHANGED <<disk, troubles>>
    BY <1>0, <1>1 DEF BeginWrite, RDBInfo
  <2>2. mem.valid
    <3>1. 1 \in DOMAIN Checks /\ Checks[1] = "invalid"
      BY DEF Checks
    <3>2. ~Grounds(mem).invalid
      BY <1>1, <3>1 DEF BeginWrite, Sound
    <3> QED
      BY <3>2 DEF Grounds
  <2>3. /\ DOMAIN Image(mem) = Layout(mem) /\ Image(mem)[mem.lo] = Header(mem)
        /\ Header(mem).badb = KeptBadb(mem)
    BY DEF Image, Layout, Header
  <2>4. Layout(mem) \subseteq Nat
    BY <1>0, <1>1, SoundFits DEF BeginWrite, Lba
  <2>5. KeptBadb(mem) \notin Layout(mem)
    BY <2>4 DEF KeptBadb, End
  <2>6. ListAt(KeptBadb(mem))
    BY <2>2 DEF Untroubled, KeptBadb, ListAt
  <2> QED
    BY <2>1, <2>2, <2>3, <2>5, <2>6 DEF Untroubled, BadbInv, ListAt, Writing
<1>2. ASSUME NEW l \in Lba, WriteBlock(l) PROVE BadbInv'
  <2>1. /\ pc = "write" /\ NextSlot(l) /\ disk' = [disk EXCEPT ![l] = wr.img[l]]
        /\ wr'.img = wr.img /\ wr'.spoilt = wr.spoilt /\ UNCHANGED <<mem, troubles>>
        /\ pc' = IF wr.todo = {} THEN "verify" ELSE "write"
    BY <1>0, <1>2 DEF WriteBlock, Written, Buffer, Buffers
  <2>2. l \in DOMAIN wr.img /\ (l = mem.lo <=> wr.todo = {}) /\ mem.lo \in DOMAIN wr.img
        /\ DOMAIN wr.img \subseteq Lba
    BY <1>0, <2>1, Target DEF TInv, ImageInv
  <2>3. ListAt(mem.badb)'
    BY <1>0, <2>1, <2>2 DEF Untroubled, ListAt, Writing
  <2>4. wr.todo = {} => \A k \in DOMAIN wr.img : disk'[k] = wr.img[k]
    BY <1>0, <2>1, <2>2 DEF Untroubled, HeaderInv
  <2> QED
    BY <2>1, <2>3, <2>4 DEF Untroubled, BadbInv, Writing
<1>3. CASE VerifyOk
  <2>1. /\ pc = "verify" /\ pc' = "retire" /\ UNCHANGED <<disk, mem, troubles>>
        /\ wr'.todo = Scan \ {mem.lo} /\ wr'.spoilt = wr.spoilt
    BY <1>0, <1>3 DEF VerifyOk, ToRetire, Buffer, Buffers
  <2>2. HeaderGood(mem.lo)
    BY <2>1 DEF Untroubled, HeaderGood, Writing, TInv, ImageInv
  <2> QED
    BY <2>1, <2>2 DEF Untroubled, BadbInv, ListAt, HeaderGood, Writing
<1>4. CASE VerifyMismatch
  BY <1>4 DEF VerifyMismatch, Untroubled
<1>5. ASSUME NEW l \in Lba, RetireBlock(l) PROVE BadbInv'
  <2>1. /\ pc = "retire" /\ pc' = "retire" /\ UNCHANGED <<mem, troubles>>
        /\ wr'.todo = wr.todo \ {l} /\ wr'.spoilt = wr.spoilt
        /\ disk' = IF disk[l].id = "RDSK" THEN [disk EXCEPT ![l] = Zero] ELSE disk
    BY <1>0, <1>5 DEF RetireBlock, RetireNext, Buffer, Buffers
  <2>2. ASSUME NEW b \in Ptr, ListAt(b) PROVE ListAt(b)'
    BY <1>0, <2>1, <2>2 DEF ListAt, Ptr
  <2>3. ASSUME NEW k \in Lba, HeaderGood(k) \/ k = l PROVE HeaderGood(k)'
    <3> DEFINE b == disk'[k].badb
    <3> SUFFICES ASSUME disk'[k].id = "RDSK"
                 PROVE  b = End \/ (b # 0 /\ disk'[b].id = "BADB")
      BY DEF HeaderGood, ListAt
    <3>1. k # l /\ disk'[k] = disk[k]
      BY <1>0, <2>1 DEF Zero
    <3>2. disk[k].badb \in Ptr /\ ListAt(disk[k].badb)
      BY <1>0, <2>3, <3>1, BlockKinds DEF HeaderGood, Rdsk
    <3> QED
      BY <1>0, <2>1, <3>1, <3>2 DEF ListAt, Ptr
  <2>4. mem.lo \in Lba /\ mem.badb \in Ptr
    BY <1>0 DEF RDBInfo
  <2>5. HeaderGood(mem.lo)'
    BY <2>1, <2>3, <2>4 DEF Untroubled
  <2>6. ListAt(mem.badb)'
    BY <2>1, <2>2, <2>4 DEF Untroubled, Writing
  <2>7. \A k \in Scan \ wr'.todo : HeaderGood(k)'
    BY <1>0, <2>1, <2>3 DEF Untroubled
  <2> QED
    BY <2>1, <2>5, <2>6, <2>7 DEF Untroubled, BadbInv, HeaderGood, Writing
<1>6. CASE WriteDone
  <2>1. /\ pc = "retire" /\ wr.todo = {} /\ pc' = "idle" /\ wr'.spoilt = FALSE
        /\ UNCHANGED <<disk, mem, troubles>>
    BY <1>6 DEF WriteDone, NoWr
  <2> QED
    BY <2>1 DEF Untroubled, BadbInv, ListAt, HeaderGood, Writing
<1> QED
  BY <1>1, <1>2, <1>3, <1>4, <1>5, <1>6 DEF Save

\* BadbInv is inductive, given TInv and HeaderInv: what comes after a trouble does not
\* matter.
LEMMA BadbStep == ASSUME TInv, HeaderInv, BadbInv, [Next]_vars PROVE BadbInv'
<1>1. ASSUME Trouble PROVE BadbInv'
  <2>1. troubles' # 0
    BY <1>1, BoundsAssumption DEF Trouble, TInv, TypeOK
  <2> QED
    BY <2>1 DEF BadbInv
<1>2. CASE UNCHANGED vars
  BY <1>2 DEF vars, BadbInv, ListAt, HeaderGood
<1>3. CASE Crash \/ LoadFault \/ WriteFaults \/ \E l \in Lba : Rot(l)
  BY <1>1, <1>3
     DEF Crash, LoadFault, FindFault, PartFault, FsFault, SegFault, WriteFaults,
         WriteNoMem, VerifyFault, VerifySkipped, WriteFault, WriteSpoilt, RetireFault, Rot
<1>4. CASE troubles # 0 /\ UNCHANGED troubles
  BY <1>4 DEF BadbInv
<1>5. ASSUME troubles = 0 PROVE Untroubled
  BY <1>5, Zenon DEF BadbInv, Untroubled
<1>6. CASE Open \/ Load
  <2>1. UNCHANGED troubles
    BY <1>6 DEF Open, Load, FindHeader, FindSkip, FindNone, PartEnd, PartBreak,
                PartTake, FsEnd, FsBreak, FsTake, SegEnd, SegTake
  <2> QED
    BY <1>4, <1>5, <1>6, <2>1, LoadList
<1>7. CASE BeginWrite \/ Save
  <2>1. UNCHANGED troubles
    BY <1>7 DEF BeginWrite, Save, VerifyOk, VerifyMismatch, WriteDone, WriteBlock,
                RetireBlock
  <2> QED
    BY <1>4, <1>5, <1>7, <2>1, WriteList
<1>8. CASE \/ \E p \in PartChoices : \/ AddPart(p)
                                     \/ \E i \in DOMAIN mem.parts : SetPart(i, p)
           \/ \E i \in DOMAIN mem.parts : DelPart(i)
           \/ \E d \in Drivers : AddFs(d)
           \/ \E i \in DOMAIN mem.fs : DelFs(i)
           \/ \E lo \in FreshLo : InitFresh(lo)
           \/ Acknowledge \/ Close \/ RefuseWrite
  <2>1. UNCHANGED troubles
    BY <1>8 DEF AddPart, SetPart, DelPart, AddFs, DelFs, Edit, InitFresh, Acknowledge,
                Close, RefuseWrite
  <2> QED
    BY <1>4, <1>5, <1>8, <2>1, EditList
<1> QED
  BY <1>2, <1>3, <1>6, <1>7, <1>8 DEF Next

\* On a disk where it was so at the start, the bad block list of the header that the
\* program works with is one, as long as nothing fails: no layout grows over a list
\* that stays listed, whatever is edited and however often it is written.
THEOREM ListIsSpared == ASSUME ListsAtStart PROVE Spec => []BadbSpared
<1>1. Init => BadbInv
  BY ListsAtStart
     DEF ListsAtStart, Init, BadbInv, NoMem, NoWr, ListAt, HeaderGood, Writing
<1>2. Init => HeaderInv
  BY DEF Init, HeaderInv
<1>3. TInv /\ HeaderInv /\ [Next]_vars => HeaderInv'
  BY HeaderStep
<1>4. TInv /\ HeaderInv /\ BadbInv /\ [Next]_vars => BadbInv'
  BY BadbStep
<1>5. BadbInv => BadbSpared
  BY DEF BadbInv, BadbSpared, HeaderGood, ListAt, Writing
<1> QED
  BY <1>1, <1>2, <1>3, <1>4, <1>5, TypeInduction, PTL DEF Spec
===========================================================================
