-------------------------- MODULE PartMove_proofs --------------------------
(***************************************************************************)
(* Theorems about PartMove, for every geometry, every chunk size and every *)
(* placement the assumptions allow.                                        *)
(*                                                                         *)
(* MoveTypeCorrect: TypeOK, by the inductive PInv.                         *)
(* MoveIsFaithful: MoveFaithful, by PInv and the inductive CopyInv.        *)
(* OthersAreSafe: OthersUntouched where all partitions have one geometry   *)
(* and blocks of 512 bytes, by PInv and the inductive ApartInv.            *)
(* SavedTableFindsAll: SavedWhole under the same condition, by WholeInv.   *)
(* RootsAreRight: RootsFollow, by RootsInv.                                *)
(***************************************************************************)
EXTENDS PartMove, TLAPS

---------------------------------------------------------------------------
(* Arithmetic *)

\* A product of naturals grows with each factor.
LEMMA Product ==
    ASSUME NEW a \in Nat, NEW b \in Nat, NEW c \in Nat, a <= b
    PROVE  a * c \in Nat /\ b * c \in Nat /\ a * c <= b * c
<1>1. PICK d \in Nat : b = a + d
  <2>1. b - a \in Nat /\ b = a + (b - a)
    OBVIOUS
  <2> QED BY <2>1
<1>2. a * c \in Nat /\ d * c \in Nat
  OBVIOUS
<1>3. b * c = a * c + d * c
  BY <1>1
<1> QED BY <1>2, <1>3

\* Whole cylinders inside the disk's cylinder range are whole on the disk.
LEMMA Fits ==
    ASSUME NEW p \in Parts, NEW low \in Nat, NEW n \in Nat, low + n <= HiCyl + 1
    PROVE  /\ low * Spc[p] * Scale[p] \in Nat /\ n * Spc[p] * Scale[p] \in Nat
           /\ low * Spc[p] * Scale[p] + n * Spc[p] * Scale[p] <= LastSector + 1
<1>1. /\ Spc[p] \in Nat /\ Scale[p] \in Nat /\ HiCyl \in Nat /\ LastSector \in Nat
      /\ (HiCyl + 1) * Spc[p] * Scale[p] <= LastSector + 1
  BY GeometryAssumption
<1>2. (low + n) * Spc[p] \in Nat /\ (HiCyl + 1) * Spc[p] \in Nat
      /\ (low + n) * Spc[p] <= (HiCyl + 1) * Spc[p]
  BY <1>1, Product
<1>3. ((low + n) * Spc[p]) * Scale[p] <= ((HiCyl + 1) * Spc[p]) * Scale[p]
  BY <1>1, <1>2, Product
<1>4. low * Spc[p] \in Nat /\ n * Spc[p] \in Nat /\ (low + n) * Spc[p] = low * Spc[p] + n * Spc[p]
  BY <1>1
<1>5. (low * Spc[p]) * Scale[p] \in Nat /\ (n * Spc[p]) * Scale[p] \in Nat
      /\ (low * Spc[p] + n * Spc[p]) * Scale[p] = (low * Spc[p]) * Scale[p] + (n * Spc[p]) * Scale[p]
  BY <1>1, <1>4
<1> QED BY <1>1, <1>3, <1>4, <1>5

---------------------------------------------------------------------------
(* Types *)

Moving == pc \in {"copy", "roots"}

MvType == [p : Parts \cup {Nobody}, from : Nat, to : Nat, low : Nat, count : Nat,
           i : Nat, r : 0 .. 2, warn : BOOLEAN]

WellPlaced(t) ==
    /\ t \in [Parts -> Range]
    /\ \A p \in Parts : LoCyl <= t[p].low /\ t[p].low <= t[p].high /\ t[p].high <= HiCyl

\* Both tables keep to the cylinder range, and so do the ranges of a move, which
\* therefore lie on the disk.
PInv ==
    /\ TypeOK
    /\ before \in [Sector -> Contents]
    /\ WellPlaced(table) /\ WellPlaced(saved)
    /\ Moving => /\ mv.p \in Parts
                 /\ LoCyl <= mv.low /\ NewHigh(mv.p, mv.low) <= HiCyl
                 /\ mv.from + mv.count <= LastSector + 1
                 /\ mv.to + mv.count <= LastSector + 1
                 /\ mv.i <= mv.count /\ mv.r < 2
    /\ pc = "zero" => mv.i <= mv.count

\* What PInv states of the variables one by one.
LEMMA PInvParts ==
    ASSUME PInv
    PROVE  /\ disk \in [Sector -> Contents] /\ before \in [Sector -> Contents]
           /\ table \in [Parts -> Range] /\ saved \in [Parts -> Range]
           /\ pc \in Pcs /\ mv \in MvType
           /\ lost \subseteq Parts /\ open \subseteq Parts
           /\ moves \in 0 .. MaxMoves /\ troubles \in 0 .. MaxTroubles
           /\ WellPlaced(table) /\ WellPlaced(saved)
BY DEF PInv, TypeOK, MvType

\* What the locals and a zeroed sector are.
LEMMA NoMvType == NoMv \in MvType /\ NoMv.i = 0 /\ NoMv.r = 0 /\ Blank \in Contents
BY DEF NoMv, MvType, Blank, Contents

\* Each trouble counts once against the bound.
LEMMA MoreTrouble == PInv /\ Trouble => troubles' \in 0 .. MaxTroubles
BY GeometryAssumption DEF PInv, TypeOK, Trouble

\* A sector of a partition that starts at b.
LEMMA StoredType ==
    ASSUME NEW p \in Parts, NEW k \in Nat, NEW n \in Nat,
           Base(p, InitTable[p].low) \in Nat
    PROVE  Stored(p, k, n) \in Contents /\ Stored(p, k, n).of = p /\ Stored(p, k, n).k = k
BY DEF Stored, Contents

\* The program starts with the table and the data in place.
LEMMA InitPInv == Init => PInv
<1> SUFFICES ASSUME Init PROVE PInv
  OBVIOUS
<1>1. disk \in [Sector -> Contents]
  <2>1. PICK t \in Totals :
          disk = [s \in Sector |->
                    IF \E p \in Parts : s \in Span(p, InitTable)
                    THEN LET p == CHOOSE q \in Parts : s \in Span(q, InitTable)
                         IN Stored(p, s - Base(p, InitTable[p].low), t[p])
                    ELSE Blank]
    BY DEF Init
  <2> SUFFICES ASSUME NEW s \in Sector, \E p \in Parts : s \in Span(p, InitTable)
               PROVE  LET p == CHOOSE q \in Parts : s \in Span(q, InitTable)
                      IN Stored(p, s - Base(p, InitTable[p].low), t[p]) \in Contents
    BY <2>1, NoMvType
  <2> DEFINE p == CHOOSE q \in Parts : s \in Span(q, InitTable)
             b == Base(p, InitTable[p].low)
  <2>2. p \in Parts /\ s \in Span(p, InitTable)
    OBVIOUS
  <2>3. InitTable[p].low \in Nat /\ InitTable[p].low + 1 <= HiCyl + 1
    BY <2>2, TableAssumption, GeometryAssumption DEF Range
  <2>4. b \in Nat
    BY <2>2, <2>3, Fits DEF Base
  <2>5. s - b \in Nat
    BY <2>2, <2>4 DEF Span, Sector
  <2>6. t[p] \in Nat
    BY <2>2, GeometryAssumption
  <2> QED BY <2>2, <2>4, <2>5, <2>6, StoredType
<1>2. WellPlaced(InitTable)
  BY TableAssumption DEF WellPlaced
<1> QED BY <1>1, <1>2, NoMvType, GeometryAssumption
        DEF Init, PInv, TypeOK, Moving, Pcs, WellPlaced, MvType

---------------------------------------------------------------------------
(* The steps *)

\* A chunk is never empty and stays inside the range.
LEMMA ChunkBounds ==
    ASSUME PInv, pc = "copy", MoreToCopy
    PROVE  /\ ChunkLen \in Nat \ {0} /\ ChunkStart \in Nat
           /\ ChunkStart + ChunkLen <= mv.count
           /\ ChunkNow \subseteq 0 .. (mv.count - 1)
<1>1. mv.i \in Nat /\ mv.count \in Nat /\ mv.i <= mv.count /\ Chunk \in Nat \ {0}
  BY PInvParts, GeometryAssumption DEF PInv, Moving, MvType
<1>2. ChunkLen \in Nat \ {0} /\ ChunkLen <= (IF Down THEN mv.count - mv.i ELSE mv.i)
  BY <1>1 DEF ChunkLen, Least, MoreToCopy
<1>3. ChunkStart \in Nat /\ ChunkStart + ChunkLen <= mv.count
  BY <1>1, <1>2 DEF ChunkStart
<1> QED BY <1>1, <1>2, <1>3 DEF ChunkNow

\* Nor does the last turn of the loop, with nothing left, leave the range.
LEMMA ChunkRange ==
    ASSUME PInv, pc = "copy"
    PROVE  ChunkNow \subseteq 0 .. (mv.count - 1)
<1>1. mv.i \in Nat /\ mv.count \in Nat /\ mv.i <= mv.count /\ Chunk \in Nat \ {0}
  BY PInvParts, GeometryAssumption DEF PInv, Moving, MvType
<1> QED BY <1>1 DEF ChunkNow, ChunkStart, ChunkLen, Least

\* What a copied chunk consists of was on the disk.
LEMMA CopiedType ==
    ASSUME PInv, pc = "copy", NEW S \in SUBSET (0 .. (mv.count - 1))
    PROVE  Copied(S) \in [Sector -> Contents]
<1>1. mv \in MvType /\ mv.from + mv.count <= LastSector + 1
  BY PInvParts DEF PInv, Moving
<1>2. ASSUME NEW k \in S PROVE mv.from + k \in Sector
  BY <1>1, GeometryAssumption DEF MvType, Sector
<1> QED BY <1>2, PInvParts DEF Copied

\* A zeroed chunk is made of sectors.
LEMMA ZeroedType ==
    ASSUME PInv, NEW S
    PROVE  Zeroed(S) \in [Sector -> Contents]
BY PInvParts, NoMvType DEF Zeroed

\* A root with a new position is still a sector.
LEMMA PatchedType ==
    ASSUME PInv
    PROVE  Patched \in [Sector -> Contents]
<1>1. disk \in [Sector -> Contents] /\ mv.to \in Nat
  BY PInvParts DEF MvType
<1>2. ASSUME NEW v \in Contents PROVE [v EXCEPT !.base = mv.to] \in Contents
  BY <1>1 DEF Contents
<1> QED BY <1>1, <1>2 DEF Patched

\* The entry a finished move leaves is inside the cylinder range.
LEMMA ToTableType ==
    ASSUME PInv, Moving, ToTable
    PROVE  WellPlaced(table')
<1>1. /\ mv.p \in Parts /\ mv.low \in Nat /\ LoCyl <= mv.low
      /\ NewHigh(mv.p, mv.low) <= HiCyl
      /\ table \in [Parts -> Range] /\ WellPlaced(table)
  BY PInvParts DEF PInv, MvType
<1>2. NewHigh(mv.p, mv.low) \in Nat /\ mv.low <= NewHigh(mv.p, mv.low)
  BY <1>1 DEF NewHigh, WellPlaced, Range
<1>3. [low |-> mv.low, high |-> NewHigh(mv.p, mv.low)] \in Range
  BY <1>1, <1>2 DEF Range
<1> QED BY <1>1, <1>2, <1>3 DEF ToTable, WellPlaced

\* A step that neither is nor leads into a move or a zeroing.
LEMMA RestStep ==
    ASSUME PInv, disk' \in [Sector -> Contents], before' = before,
           WellPlaced(table'), WellPlaced(saved'), mv' \in MvType,
           pc' \in {"off", "idle", "table"}, lost' \subseteq Parts, open' \subseteq Parts,
           moves' \in 0 .. MaxMoves, troubles' \in 0 .. MaxTroubles
    PROVE  PInv'
BY DEF PInv, TypeOK, Moving, Pcs, WellPlaced, MvType

\* A step inside a move or a zeroing.
LEMMA LoopStep ==
    ASSUME PInv, disk' \in [Sector -> Contents], mv' \in MvType,
           UNCHANGED <<before, table, saved, lost, open, moves>>,
           troubles' \in 0 .. MaxTroubles,
           mv'.p = mv.p, mv'.low = mv.low, mv'.from = mv.from, mv'.to = mv.to,
           mv'.count = mv.count, mv'.i <= mv'.count,
           (pc' = pc /\ pc \in {"copy", "roots", "zero"}) \/ (pc = "copy" /\ pc' = "roots"),
           pc # "zero" => mv'.r < 2
    PROVE  PInv'
BY DEF PInv, TypeOK, Moving, Pcs, WellPlaced, MvType, NewHigh

\* What PART_Move starts with: two ranges on the disk, and the end to copy from.
LEMMA MoveStart ==
    ASSUME PInv, NEW p \in Parts, NEW low \in LoCyl .. HiCyl, Move(p, low)
    PROVE  /\ mv' \in MvType /\ mv'.p = p /\ mv'.low = low /\ mv'.r = 0
           /\ mv'.from = Base(p, table[p].low)
           /\ mv'.to = Base(p, low) /\ mv'.count = Count(p, table)
           /\ mv'.i = IF mv'.to < mv'.from THEN 0 ELSE mv'.count
           /\ mv'.from + mv'.count <= LastSector + 1
           /\ mv'.to + mv'.count <= LastSector + 1
<1> DEFINE m == Started(p, low)
           n == table[p].high - table[p].low + 1
<1>1. /\ LoCyl \in Nat /\ HiCyl \in Nat /\ low \in Nat
      /\ table[p].low \in Nat /\ table[p].high \in Nat /\ n \in Nat
      /\ LoCyl <= table[p].low /\ table[p].high <= HiCyl
      /\ LoCyl <= low /\ NewHigh(p, low) <= HiCyl
  BY GeometryAssumption, PInvParts DEF WellPlaced, Range, Move, CanMove
<1>2. low + n <= HiCyl + 1 /\ table[p].low + n <= HiCyl + 1
  BY <1>1 DEF NewHigh
<1>3. /\ Base(p, low) \in Nat /\ Base(p, table[p].low) \in Nat /\ Count(p, table) \in Nat
      /\ Base(p, low) + Count(p, table) <= LastSector + 1
      /\ Base(p, table[p].low) + Count(p, table) <= LastSector + 1
  BY <1>1, <1>2, Fits DEF Base, Count
<1>4. m \in MvType /\ m.p = p /\ m.low = low /\ m.count = Count(p, table)
      /\ m.from = Base(p, table[p].low) /\ m.to = Base(p, low) /\ m.r = 0
  BY <1>1, <1>3, NoMvType DEF Started, MvType
<1>5. mv' = [m EXCEPT !.i = IF m.to < m.from THEN 0 ELSE m.count]
  BY DEF Move
<1> HIDE DEF m
<1> QED BY <1>3, <1>4, <1>5 DEF MvType

\* PART_Move starts.
LEMMA MoveType ==
    ASSUME PInv, NEW p \in Parts, NEW low \in LoCyl .. HiCyl, Move(p, low)
    PROVE  PInv'
<1>1. /\ mv' \in MvType /\ mv'.p = p /\ mv'.low = low /\ mv'.r = 0
      /\ mv'.i <= mv'.count
      /\ mv'.from + mv'.count <= LastSector + 1
      /\ mv'.to + mv'.count <= LastSector + 1
  BY MoveStart DEF MvType
<1>2. /\ pc' = "copy" /\ before' = disk /\ moves' = moves + 1 /\ moves < MaxMoves
      /\ open' \subseteq Parts /\ NewHigh(p, low) <= HiCyl
      /\ UNCHANGED <<disk, table, saved, lost, troubles>>
  BY PInvParts DEF Move, CanMove
<1>3. moves' \in 0 .. MaxMoves /\ NewHigh(p, low)' <= HiCyl /\ LoCyl <= low
  BY <1>2, PInvParts, GeometryAssumption DEF NewHigh
<1> QED BY <1>1, <1>2, <1>3
        DEF PInv, TypeOK, Moving, Pcs, WellPlaced, MvType, NewHigh

\* PART_Move, its failures included.
LEMMA CopyPInv ==
    ASSUME PInv, CopyChunk \/ CopyFault \/ CopyDone
    PROVE  PInv'
<1>0. /\ disk \in [Sector -> Contents] /\ mv \in MvType /\ NoMv \in MvType
      /\ lost \subseteq Parts /\ open \subseteq Parts
      /\ WellPlaced(table) /\ WellPlaced(saved)
      /\ moves \in 0 .. MaxMoves /\ troubles \in 0 .. MaxTroubles
  BY PInvParts, NoMvType
<1>1. CASE CopyChunk
  <2>1. disk' \in [Sector -> Contents]
    BY <1>1, ChunkBounds, CopiedType DEF CopyChunk
  <2>2. /\ ChunkLen \in Nat \ {0} /\ ChunkStart \in Nat
        /\ ChunkStart + ChunkLen <= mv.count
        /\ mv' = [mv EXCEPT !.i = IF Down THEN @ + ChunkLen ELSE @ - ChunkLen]
    BY <1>1, ChunkBounds DEF CopyChunk
  <2>3. /\ mv' \in MvType /\ mv'.p = mv.p /\ mv'.low = mv.low /\ mv'.from = mv.from
        /\ mv'.to = mv.to /\ mv'.count = mv.count /\ mv'.i <= mv'.count /\ mv'.r = mv.r
    BY <1>0, <2>2 DEF ChunkStart, MvType
  <2>4. mv.r < 2
    BY <1>1 DEF CopyChunk, PInv, Moving
  <2> QED BY <1>0, <1>1, <2>1, <2>3, <2>4, LoopStep DEF CopyChunk
<1>2. CASE CopyFault
  <2>1. disk' \in [Sector -> Contents]
    BY <1>2, ChunkBounds, CopiedType DEF CopyFault
  <2>2. lost' \subseteq Parts
    BY <1>0, <1>2 DEF CopyFault, Broken, PInv, Moving
  <2> QED BY <1>0, <1>2, <2>1, <2>2, MoreTrouble, RestStep DEF CopyFault
<1>3. CASE CopyDone
  <2>1. mv.i <= mv.count /\ mv.r < 2 /\ mv' = mv
    BY <1>3 DEF CopyDone, PInv, Moving
  <2>2. CASE mv.p \in Sfs
    BY <1>0, <1>3, <2>1, <2>2, LoopStep DEF CopyDone
  <2>3. CASE mv.p \notin Sfs
    BY <1>0, <1>3, <2>3, ToTableType, RestStep DEF CopyDone, Moving, ToTable
  <2> QED BY <2>2, <2>3
<1> QED BY <1>1, <1>2, <1>3

\* The update of the SFS roots, its failures included.
LEMMA RootsPInv ==
    ASSUME PInv, RootsUnread \/ RootPatch \/ RootAbsent \/ RootUnread \/ RootFault
    PROVE  PInv'
<1>0. /\ disk \in [Sector -> Contents] /\ mv \in MvType
      /\ lost \subseteq Parts /\ open \subseteq Parts
      /\ WellPlaced(table) /\ WellPlaced(saved)
      /\ moves \in 0 .. MaxMoves /\ troubles \in 0 .. MaxTroubles
      /\ pc = "roots" /\ mv.i <= mv.count /\ mv.r < 2
  BY PInvParts DEF PInv, Moving, RootsUnread, RootPatch, RootAbsent, RootUnread, RootFault
<1>1. disk' \in [Sector -> Contents] /\ troubles' \in 0 .. MaxTroubles
      /\ UNCHANGED <<saved, before, lost, open, moves>>
  BY <1>0, PatchedType, MoreTrouble
     DEF RootsUnread, RootPatch, RootAbsent, RootUnread, RootFault
<1>2. CASE ToTable /\ mv' \in MvType
  BY <1>0, <1>1, <1>2, ToTableType, RestStep DEF Moving, ToTable
<1>3. CASE RootNext
  <2>1. mv' = [mv EXCEPT !.r = @ + 1]
    BY <1>3 DEF RootNext
  <2>2. /\ mv' \in MvType /\ mv'.p = mv.p /\ mv'.low = mv.low /\ mv'.from = mv.from
        /\ mv'.to = mv.to /\ mv'.count = mv.count /\ mv'.i = mv.i /\ mv'.r = mv.r + 1
    BY <1>0, <2>1 DEF MvType
  <2>3. CASE mv.r = 0
    BY <1>0, <1>1, <1>3, <2>2, <2>3, LoopStep DEF RootNext
  <2>4. CASE mv.r # 0
    BY <1>2, <1>3, <2>2, <2>4 DEF RootNext
  <2> QED BY <2>3, <2>4
<1>4. CASE mv' = [mv EXCEPT !.warn = TRUE] /\ ToTable
  <2>1. mv' = [mv EXCEPT !.warn = TRUE] /\ ToTable
    BY <1>4
  <2>2. mv' \in MvType
    BY <1>0, <2>1 DEF MvType
  <2> QED BY <1>2, <2>1, <2>2
<1> QED BY <1>3, <1>4 DEF RootPatch, RootAbsent, RootUnread, RootsUnread, RootFault

\* The table and PART_Zero.
LEMMA OtherPInv ==
    ASSUME PInv, \/ TableWrite \/ TableFault \/ ZeroChunk \/ ZeroFault \/ ZeroDone
                 \/ Crash \/ Reopen
    PROVE  PInv'
<1>0. /\ disk \in [Sector -> Contents] /\ mv \in MvType /\ NoMv \in MvType
      /\ lost \subseteq Parts /\ open \subseteq Parts
      /\ WellPlaced(table) /\ WellPlaced(saved)
      /\ moves \in 0 .. MaxMoves /\ troubles \in 0 .. MaxTroubles
  BY PInvParts, NoMvType
<1>1. CASE TableWrite \/ TableFault
  <2>1. WellPlaced(saved') /\ troubles' \in 0 .. MaxTroubles /\ open' \subseteq Parts
    BY <1>0, <1>1, MoreTrouble DEF TableWrite, TableFault
  <2> QED BY <1>0, <1>1, <2>1, RestStep DEF TableWrite, TableFault
<1>2. CASE ZeroChunk
  <2>1. /\ mv.i \in Nat /\ mv.count \in Nat /\ mv.i <= mv.count
        /\ mv' = [mv EXCEPT !.i = @ + Least(mv.count - mv.i, Chunk)]
    BY <1>0, <1>2 DEF ZeroChunk, PInv, MvType
  <2>2. mv.i + Least(mv.count - mv.i, Chunk) \in 0 .. mv.count
    BY <2>1, GeometryAssumption DEF Least
  <2>3. /\ mv' \in MvType /\ mv'.p = mv.p /\ mv'.low = mv.low /\ mv'.from = mv.from
        /\ mv'.to = mv.to /\ mv'.count = mv.count /\ mv'.i <= mv'.count
    BY <1>0, <2>1, <2>2 DEF MvType
  <2> QED BY <1>0, <1>2, <2>3, ZeroedType, LoopStep DEF ZeroChunk
<1>3. CASE ZeroFault \/ ZeroDone
  <2>1. disk' \in [Sector -> Contents] /\ troubles' \in 0 .. MaxTroubles
    BY <1>0, <1>3, ZeroedType, MoreTrouble DEF ZeroFault, ZeroDone
  <2> QED BY <1>0, <1>3, <2>1, RestStep DEF ZeroFault, ZeroDone
<1>4. CASE Crash
  <2>1. disk' \in [Sector -> Contents]
    <3>1. CASE pc = "copy"
      <4>1. PICK S \in SUBSET ChunkNow : disk' = Copied(S)
        BY <1>4, <3>1 DEF Crash
      <4> QED BY <3>1, <4>1, ChunkRange, CopiedType
    <3>2. CASE pc = "zero"
      BY <1>4, <3>2, ZeroedType DEF Crash
    <3>3. CASE pc = "roots"
      BY <1>0, <1>4, <3>3, PatchedType DEF Crash
    <3>4. CASE pc = "table"
      BY <1>0, <1>4, <3>4 DEF Crash
    <3> QED BY <1>4, <3>1, <3>2, <3>3, <3>4 DEF Crash
  <2>2. WellPlaced(saved')
    BY <1>0, <1>4 DEF Crash
  <2>3. lost' \subseteq Parts
    BY <1>0, <1>4 DEF Crash, Stranded, Broken, PInv, Moving
  <2> QED BY <1>0, <1>4, <2>1, <2>2, <2>3, MoreTrouble, RestStep DEF Crash
<1>5. CASE Reopen
  <2>1. lost' \subseteq Parts
    BY <1>0, <1>5 DEF Reopen, Stranded
  <2> QED BY <1>0, <1>5, <2>1, RestStep DEF Reopen
<1> QED BY <1>1, <1>2, <1>3, <1>4, <1>5

\* PART_Zero starts.
LEMMA ZeroPInv ==
    ASSUME PInv, NEW p \in Parts, Zero(p)
    PROVE  PInv'
<1>1. /\ table[p].low \in Nat /\ table[p].high - table[p].low + 1 \in Nat
      /\ Spc[p] \in Nat /\ MaxMoves \in Nat
  BY PInvParts, GeometryAssumption DEF WellPlaced, Range
<1>2. table[p].low * Spc[p] \in Nat /\ (table[p].high - table[p].low + 1) * Spc[p] \in Nat
  BY <1>1
<1>3. mv' = [NoMv EXCEPT !.p = p, !.to = table[p].low * Spc[p],
                         !.count = (table[p].high - table[p].low + 1) * Spc[p]]
  BY DEF Zero
<1>4. mv' \in MvType /\ mv'.i = NoMv.i /\ mv'.count \in Nat
  BY <1>2, <1>3, NoMvType DEF MvType
<1>5. mv'.i <= mv'.count
  BY <1>4, NoMvType
<1> QED BY <1>1, <1>4, <1>5, PInvParts
        DEF Zero, PInv, TypeOK, Moving, Pcs, WellPlaced, MvType

\* PInv is inductive.
LEMMA NextPInv == PInv /\ [Next]_vars => PInv'
<1> SUFFICES ASSUME PInv, [Next]_vars PROVE PInv'
  OBVIOUS
<1>1. CASE \E p \in Parts : Zero(p) \/ \E low \in LoCyl .. HiCyl : Move(p, low)
  BY <1>1, ZeroPInv, MoveType
<1>2. CASE Advance \/ Faults \/ Crash \/ Reopen
  BY <1>2, CopyPInv, RootsPInv, OtherPInv DEF Advance, Faults
<1>3. CASE UNCHANGED vars
  BY <1>3 DEF vars, PInv, TypeOK, Moving, WellPlaced, NewHigh
<1> QED BY <1>1, <1>2, <1>3 DEF Next

\* PInv always holds.
LEMMA AlwaysPInv == Spec => []PInv
BY InitPInv, NextPInv, PTL DEF Spec

\* Whatever is moved, zeroed or fails, the tables keep to the cylinder range, the
\* loops to their ranges and the disk to its sectors.
THEOREM MoveTypeCorrect == Spec => []TypeOK
<1>1. PInv => TypeOK
  BY DEF PInv
<1> QED BY <1>1, AlwaysPInv, PTL

---------------------------------------------------------------------------
(* MoveFaithful *)

\* A sector counts as moved once the loop is past it.
Moved(k) == IF Down THEN k < mv.i ELSE k >= mv.i

\* In the middle of the copy, what is moved is where it belongs, and what is not
\* has not been overwritten yet: this is what the direction of the copy is for.
CopyInv ==
    Moving => /\ \A k \in 0 .. (mv.count - 1) :
                    IF Moved(k) THEN Same(disk[mv.to + k], before[mv.from + k])
                    ELSE disk[mv.from + k] = before[mv.from + k]
              /\ pc = "roots" => ~MoreToCopy

\* Nothing is being copied at the start.
LEMMA InitCopyInv == Init => CopyInv
BY DEF Init, CopyInv, Moving

\* Before the first chunk nothing has moved.
LEMMA MoveCopyInv ==
    ASSUME PInv, NEW p \in Parts, NEW low \in LoCyl .. HiCyl, Move(p, low)
    PROVE  CopyInv'
<1>1. mv' \in MvType /\ mv'.i = IF mv'.to < mv'.from THEN 0 ELSE mv'.count
  BY MoveStart
<1>2. ASSUME NEW k \in 0 .. (mv'.count - 1)
      PROVE  ~Moved(k)'
  BY <1>1 DEF Moved, Down, MvType
<1>3. pc' = "copy" /\ disk' = disk /\ before' = disk
  BY DEF Move
<1> QED BY <1>2, <1>3 DEF CopyInv, Moving

\* A chunk moves what has not moved yet, and writes over nothing else that is
\* still needed.
LEMMA ChunkCopyInv ==
    ASSUME PInv, CopyInv, CopyChunk
    PROVE  CopyInv'
<1>1. /\ mv.from \in Nat /\ mv.to \in Nat /\ mv.count \in Nat /\ mv.i \in Nat
      /\ mv.from + mv.count <= LastSector + 1 /\ mv.to + mv.count <= LastSector + 1
      /\ LastSector \in Nat
      /\ ChunkLen \in Nat \ {0} /\ ChunkStart \in Nat
      /\ ChunkStart + ChunkLen <= mv.count
  BY ChunkBounds, PInvParts, GeometryAssumption DEF CopyChunk, PInv, Moving, MvType
<1>2. /\ mv'.from = mv.from /\ mv'.to = mv.to /\ mv'.count = mv.count
      /\ mv'.i = IF Down THEN mv.i + ChunkLen ELSE mv.i - ChunkLen
      /\ before' = before /\ pc' = "copy"
  BY PInvParts DEF CopyChunk, MvType
<1>3. ASSUME NEW s \in Sector
      PROVE  disk'[s] = IF s - mv.to \in ChunkNow THEN disk[mv.from + (s - mv.to)]
                        ELSE disk[s]
  BY DEF CopyChunk, Copied
<1>4. ASSUME NEW k \in 0 .. (mv.count - 1)
      PROVE  IF Moved(k)' THEN Same(disk'[mv.to + k], before[mv.from + k])
             ELSE disk'[mv.from + k] = before[mv.from + k]
  <2>1. mv.to + k \in Sector /\ mv.from + k \in Sector /\ k \in Int
        /\ (mv.to + k) - mv.to = k
    BY <1>1 DEF Sector
  <2>2. IF Moved(k) THEN Same(disk[mv.to + k], before[mv.from + k])
        ELSE disk[mv.from + k] = before[mv.from + k]
    BY DEF CopyInv, CopyChunk, Moving
  <2>3. Moved(k)' <=> Moved(k) \/ k \in ChunkNow
    BY <1>1, <1>2, <2>1 DEF Moved, Down, ChunkNow, ChunkStart
  <2>4. CASE k \in ChunkNow
    <3>1. ~Moved(k)
      BY <1>1, <2>1, <2>4 DEF Moved, ChunkNow, ChunkStart
    <3>2. disk'[mv.to + k] = disk[mv.from + k]
      BY <1>3, <2>1, <2>4
    <3> QED BY <2>2, <2>3, <2>4, <3>1, <3>2 DEF Same
  <2>5. CASE k \notin ChunkNow /\ Moved(k)
    BY <1>3, <2>1, <2>2, <2>3, <2>5
  <2>6. CASE k \notin ChunkNow /\ ~Moved(k)
    <3>1. (mv.from + k) - mv.to \notin ChunkNow
      BY <1>1, <2>1, <2>6 DEF Moved, Down, ChunkNow, ChunkStart
    <3> QED BY <1>3, <2>1, <2>2, <2>3, <2>6, <3>1
  <2> QED BY <2>4, <2>5, <2>6
<1> QED BY <1>2, <1>4 DEF CopyInv, Moving

\* The update of the roots changes no more of a sector than its base, and of one
\* sector only.
LEMMA SamePatched ==
    ASSUME PInv, disk' \in {disk, Patched}, NEW s \in Sector
    PROVE  /\ disk'[s].of = disk[s].of /\ disk'[s].k = disk[s].k
           /\ disk'[s].total = disk[s].total
           /\ \/ disk'[s] = disk[s]
              \/ s = RootSector /\ disk'[s] = [disk[s] EXCEPT !.base = mv.to]
<1>1. disk \in [Sector -> Contents]
  BY PInvParts
<1>2. disk[s] \in Contents
  BY <1>1
<1>3. /\ [disk[s] EXCEPT !.base = mv.to].of = disk[s].of
      /\ [disk[s] EXCEPT !.base = mv.to].k = disk[s].k
      /\ [disk[s] EXCEPT !.base = mv.to].total = disk[s].total
  BY <1>2 DEF Contents
<1>4. CASE s = RootSector
  <2>1. Patched[s] = [disk[s] EXCEPT !.base = mv.to]
    BY <1>1, <1>4 DEF Patched
  <2> QED BY <1>3, <1>4, <2>1
<1>5. CASE s # RootSector
  BY <1>1, <1>5 DEF Patched
<1> QED BY <1>4, <1>5

\* After the last chunk the whole range has moved, and stays so.
LEMMA AllMoved ==
    ASSUME PInv, CopyInv, Moving, ~MoreToCopy, disk' \in {disk, Patched},
           NEW k \in 0 .. (mv.count - 1)
    PROVE  Same(disk'[mv.to + k], before[mv.from + k])
<1>1. /\ mv.to \in Nat /\ mv.count \in Nat /\ mv.i \in Nat /\ LastSector \in Nat
      /\ mv.to + mv.count <= LastSector + 1
  BY PInvParts, GeometryAssumption DEF PInv, MvType
<1>2. mv.to + k \in Sector /\ Moved(k)
  BY <1>1 DEF Sector, Moved, MoreToCopy
<1>3. Same(disk[mv.to + k], before[mv.from + k])
  BY <1>2 DEF CopyInv
<1> QED BY <1>2, <1>3, SamePatched DEF Same

\* The steps between the copy and the table.
LEMMA RootSteps ==
    ASSUME PInv, CopyInv,
           \/ CopyDone \/ RootsUnread \/ RootPatch \/ RootAbsent \/ RootUnread \/ RootFault
    PROVE  /\ Moving /\ ~MoreToCopy /\ before' = before
           /\ disk' \in {disk, Patched}
           /\ mv'.from = mv.from /\ mv'.to = mv.to /\ mv'.count = mv.count
           /\ mv'.i = mv.i
<1>1. mv \in MvType
  BY PInvParts
<1> QED BY <1>1 DEF CopyInv, Moving, CopyDone, RootsUnread, RootPatch, RootAbsent,
                    RootUnread, RootFault, RootNext, ToTable, MvType

\* CopyInv is inductive, given PInv.
LEMMA NextCopyInv == PInv /\ CopyInv /\ [Next]_vars => CopyInv'
<1> SUFFICES ASSUME PInv, CopyInv, [Next]_vars PROVE CopyInv'
  OBVIOUS
<1>1. CASE \E p \in Parts : \E low \in LoCyl .. HiCyl : Move(p, low)
  BY <1>1, MoveCopyInv
<1>2. CASE CopyChunk
  BY <1>2, ChunkCopyInv
<1>3. CASE \/ CopyDone \/ RootsUnread \/ RootPatch \/ RootAbsent \/ RootUnread
           \/ RootFault
  <2>1. ASSUME NEW k \in 0 .. (mv.count - 1)
        PROVE  Moved(k)' /\ Same(disk'[mv.to + k], before[mv.from + k])
    <3>1. Moved(k)
      BY <1>3, RootSteps, PInvParts DEF Moved, MoreToCopy, MvType
    <3> QED BY <1>3, <3>1, RootSteps, AllMoved DEF Moved, Down
  <2>2. ~MoreToCopy'
    BY <1>3, RootSteps DEF MoreToCopy, Down
  <2> QED BY <1>3, <2>1, <2>2, RootSteps DEF CopyInv
<1>4. CASE UNCHANGED vars
  BY <1>4 DEF vars, CopyInv, Moving, Moved, Down, MoreToCopy
<1>5. CASE \/ \E p \in Parts : Zero(p)
           \/ TableWrite \/ ZeroChunk \/ ZeroDone \/ CopyFault \/ TableFault \/ ZeroFault
           \/ Crash \/ Reopen
  BY <1>5 DEF CopyInv, Moving, Zero, TableWrite, ZeroChunk, ZeroDone, CopyFault,
              TableFault, ZeroFault, Crash, Reopen
<1> QED BY <1>1, <1>2, <1>3, <1>4, <1>5 DEF Next, Advance, Faults

\* However a move is chunked, and wherever it goes: when the entry changes, every
\* sector of the new range holds what the old range held at the call, with at most
\* its root position patched.
THEOREM MoveIsFaithful == Spec => MoveFaithful
<1>1. Init => PInv /\ CopyInv
  BY InitPInv, InitCopyInv
<1>2. PInv /\ CopyInv /\ [Next]_vars => (PInv /\ CopyInv)'
  BY NextPInv, NextCopyInv
<1>3. PInv /\ CopyInv /\ [Next]_vars
        => [ (pc \in {"copy", "roots"} /\ pc' = "table")
               => \A k \in 0 .. mv.count - 1 :
                     Same(disk'[mv.to + k], before[mv.from + k]) ]_vars
  <2> SUFFICES ASSUME PInv, CopyInv, [Next]_vars, Moving, pc' = "table",
                      NEW k \in 0 .. (mv.count - 1)
               PROVE  Same(disk'[mv.to + k], before[mv.from + k])
    BY DEF Moving
  <2>1. CASE \/ CopyDone \/ RootsUnread \/ RootPatch \/ RootAbsent \/ RootUnread
             \/ RootFault
    BY <2>1, RootSteps, AllMoved
  <2>2. CASE ~(\/ CopyDone \/ RootsUnread \/ RootPatch \/ RootAbsent \/ RootUnread
               \/ RootFault)
    BY <2>2 DEF Next, Advance, Faults, Moving, vars, Move, CopyChunk, Zero, TableWrite,
                ZeroChunk, ZeroDone, CopyFault, TableFault, ZeroFault, Crash, Reopen
  <2> QED BY <2>1, <2>2
<1> QED BY <1>1, <1>2, <1>3, PTL DEF Spec, MoveFaithful

---------------------------------------------------------------------------
(* RootsFollow *)

\* The roots are done in order: the second is looked at where the first, which is
\* there, says; as long as nothing fails the first is right by then.
RootsInv ==
    /\ Moving => mv.count # 0
    /\ pc = "copy" => mv.r = 0
    /\ pc = "roots" /\ mv.r = 1
         => HasRootId(mv.to) /\ (troubles = 0 => disk[mv.to].base = mv.to)

\* No root is being patched at the start.
LEMMA InitRoots == Init => RootsInv
BY DEF Init, RootsInv, Moving

\* A partition has sectors.
LEMMA CountPositive ==
    ASSUME NEW t, WellPlaced(t), NEW p \in Parts
    PROVE  Count(p, t) \in Nat \ {0}
<1>1. /\ t[p].high - t[p].low + 1 \in Nat \ {0}
      /\ Spc[p] \in Nat \ {0} /\ Scale[p] \in Nat \ {0}
  BY GeometryAssumption DEF WellPlaced, Range
<1>2. (t[p].high - t[p].low + 1) * Spc[p] \in Nat \ {0}
  BY <1>1
<1>3. ((t[p].high - t[p].low + 1) * Spc[p]) * Scale[p] \in Nat \ {0}
  BY <1>1, <1>2
<1> QED BY <1>3 DEF Count

\* What is patched is the root that is looked at, and where no root is nothing changes.
LEMMA RootDone ==
    ASSUME PInv, RootsInv, RootPatch \/ RootAbsent
    PROVE  /\ mv.to \in Sector
           /\ HasRootId(RootSector) => disk'[RootSector].base = mv.to
           /\ \A s \in Sector \ {RootSector} : disk'[s] = disk[s]
           /\ \A s \in Sector : disk'[s].total = disk[s].total
<1>1. /\ pc = "roots" /\ mv.r < 2 /\ disk \in [Sector -> Contents]
      /\ disk' = disk \/ (HasRootId(RootSector) /\ disk' = Patched)
      /\ ~HasRootId(RootSector) \/ disk' = Patched
  BY PInvParts DEF RootPatch, RootAbsent
<1>2. /\ mv.to \in Nat /\ mv.count \in Nat \ {0} /\ LastSector \in Nat
      /\ mv.to + mv.count <= LastSector + 1
  BY <1>1, PInvParts, GeometryAssumption DEF PInv, RootsInv, Moving, MvType
<1>3. mv.to \in Sector
  BY <1>2 DEF Sector
<1>4. HasRootId(RootSector) => disk'[RootSector].base = mv.to
  <2> SUFFICES ASSUME HasRootId(RootSector) PROVE disk'[RootSector].base = mv.to
    OBVIOUS
  <2>1. RootSector \in Sector /\ disk[RootSector] \in Contents
    BY <1>1 DEF HasRootId
  <2>2. [disk[RootSector] EXCEPT !.base = mv.to].base = mv.to
    BY <2>1 DEF Contents
  <2>3. Patched[RootSector] = [disk[RootSector] EXCEPT !.base = mv.to]
    BY <1>1, <2>1 DEF Patched
  <2> QED BY <1>1, <2>2, <2>3
<1>5. \A s \in Sector \ {RootSector} : disk'[s] = disk[s]
  BY <1>1 DEF Patched
<1>6. ASSUME NEW s \in Sector PROVE disk'[s].total = disk[s].total
  BY <1>1, SamePatched
<1> QED BY <1>3, <1>4, <1>5, <1>6

\* RootsInv is inductive, given PInv.
LEMMA NextRoots == PInv /\ RootsInv /\ [Next]_vars => RootsInv'
<1> SUFFICES ASSUME PInv, RootsInv, [Next]_vars PROVE RootsInv'
  OBVIOUS
<1>0. mv \in MvType /\ troubles \in Nat
  BY PInvParts
<1>1. ASSUME NEW p \in Parts, NEW low \in LoCyl .. HiCyl, Move(p, low)
      PROVE  RootsInv'
  <2>1. pc' = "copy" /\ mv'.r = 0 /\ mv'.count # 0
    BY <1>1, MoveStart, PInvParts, CountPositive DEF Move
  <2> QED BY <2>1 DEF RootsInv
<1>2. CASE CopyChunk \/ CopyDone
  <2>1. /\ pc = "copy" /\ mv'.r = mv.r /\ mv'.count = mv.count
    BY <1>0, <1>2 DEF CopyChunk, CopyDone, MvType
  <2> QED BY <2>1 DEF RootsInv, Moving
<1>3. CASE RootPatch \/ RootAbsent
  <2>1. /\ pc = "roots" /\ mv'.to = mv.to /\ mv'.count = mv.count
        /\ \/ pc' = "table"
           \/ pc' = pc /\ mv.r = 0 /\ HasRootId(RootSector) /\ UNCHANGED troubles
    BY <1>0, <1>3 DEF RootPatch, RootAbsent, RootNext, ToTable, MvType
  <2>2. ASSUME mv.r = 0, HasRootId(RootSector)
        PROVE  HasRootId(mv.to) /\ disk'[mv.to].total > 0 /\ disk'[mv.to].base = mv.to
    <3>1. RootSector = mv.to /\ HasRootId(mv.to)
      BY <2>2 DEF RootSector
    <3> QED BY <1>3, <2>2, <3>1, RootDone DEF HasRootId
  <2> QED BY <2>1, <2>2 DEF RootsInv, Moving, HasRootId
<1>4. CASE RootUnread
  <2>1. /\ troubles' # 0 /\ Moving /\ pc' # "copy" /\ HasRootId(mv.to)
        /\ mv'.count = mv.count /\ mv'.to = mv.to /\ UNCHANGED disk
    BY <1>0, <1>4 DEF RootUnread, RootNext, ToTable, Trouble, Moving, MvType
  <2> QED BY <2>1 DEF RootsInv, HasRootId
<1>5. CASE UNCHANGED vars
  BY <1>5 DEF vars, RootsInv, Moving, HasRootId
<1>6. CASE \/ \E p \in Parts : Zero(p)
           \/ CopyFault \/ RootsUnread \/ RootFault \/ TableWrite \/ TableFault
           \/ ZeroChunk \/ ZeroFault \/ ZeroDone \/ Crash \/ Reopen
  BY <1>6 DEF Zero, CopyFault, RootsUnread, RootFault, ToTable, TableWrite, TableFault,
              ZeroChunk, ZeroFault, ZeroDone, Crash, Reopen, RootsInv, Moving
<1> QED BY <1>1, <1>2, <1>3, <1>4, <1>5, <1>6 DEF Next, Advance, Faults

\* As long as nothing has failed, every root block an SFS volume still has names the
\* place the volume was moved to, a volume of one sector, whose two roots are one,
\* included.
THEOREM RootsAreRight == Spec => RootsFollow
<1>1. Init => PInv /\ RootsInv
  BY InitPInv, InitRoots
<1>2. PInv /\ RootsInv /\ [Next]_vars => (PInv /\ RootsInv)'
  BY NextPInv, NextRoots
<1>3. PInv /\ RootsInv /\ [Next]_vars
        => [ (pc = "roots" /\ pc' = "table" /\ troubles' = 0)
               => \A k \in {0, disk[mv.to].total - 1} \cap Nat :
                     HasRootId(mv.to + k) => disk'[mv.to + k].base = mv.to ]_vars
  <2> SUFFICES ASSUME PInv, RootsInv, [Next]_vars, pc = "roots", pc' = "table",
                      troubles' = 0,
                      NEW k \in {0, disk[mv.to].total - 1} \cap Nat, HasRootId(mv.to + k)
               PROVE  disk'[mv.to + k].base = mv.to
    OBVIOUS
  <2>0. mv \in MvType /\ troubles \in Nat /\ mv.to + 0 = mv.to
    BY PInvParts DEF MvType
  <2>1. RootPatch \/ RootAbsent
    BY <2>0 DEF Next, Advance, Faults, vars, Move, CopyChunk, CopyDone, CopyFault,
                Zero, TableWrite, ZeroChunk, ZeroDone, RootsUnread, RootUnread,
                RootFault, TableFault, ZeroFault, Crash, Reopen, Trouble
  <2>2. UNCHANGED troubles /\ mv.r \in {0, 1} /\ (mv.r = 0 => ~HasRootId(RootSector))
    BY <2>0, <2>1 DEF RootPatch, RootAbsent, RootNext, ToTable, MvType
  <2>3. CASE mv.to + k = RootSector
    BY <2>1, <2>3, RootDone
  <2>4. CASE mv.to + k # RootSector
    <3>0. mv.to \in Sector /\ disk[mv.to].total \in Nat /\ mv.to \in Nat
      <4>1. mv.to \in Sector /\ disk \in [Sector -> Contents]
        BY <2>1, RootDone, PInvParts
      <4> QED BY <2>0, <4>1 DEF Contents, MvType
    <3>1. mv.r = 1
      <4> SUFFICES ASSUME mv.r = 0 PROVE FALSE
        BY <2>2
      <4>1. RootSector = mv.to /\ disk[mv.to].total = 0
        BY <2>2, <3>0 DEF RootSector, HasRootId
      <4> QED BY <2>0, <2>4, <3>0, <4>1
    <3>2. k = 0
      <4>1. RootSector = mv.to + disk[mv.to].total - 1
        BY <3>1 DEF RootSector
      <4> QED BY <2>4, <3>0, <4>1
    <3>3. disk[mv.to].base = mv.to
      BY <2>2, <3>1 DEF RootsInv
    <3> QED BY <2>0, <2>1, <2>4, <3>0, <3>2, <3>3, RootDone
  <2> QED BY <2>3, <2>4
<1> QED BY <1>1, <1>2, <1>3, PTL DEF Spec, RootsFollow

---------------------------------------------------------------------------
(* OthersUntouched, for disks whose partitions all have one geometry and blocks of  *)
(* 512 bytes                                                               *)

OneGeometry == \A p, q \in Parts : Spc[p] = Spc[q] /\ Scale[p] = 1

\* The sectors of a cylinder, for all of them.
Cyl == Spc[CHOOSE p \in Parts : TRUE]

Apart(t) ==
    \A p, q \in Parts : p # q => t[p].high < t[q].low \/ t[q].high < t[p].low

\* The cylinders being written to belong to nobody else, and the sectors being
\* written to are theirs.
ApartInv ==
    /\ Apart(table) /\ Apart(saved)
    /\ Moving =>
         /\ mv.to = mv.low * Cyl
         /\ mv.count = (table[mv.p].high - table[mv.p].low + 1) * Cyl
         /\ \A q \in Parts \ {mv.p} :
               mv.low > table[q].high \/ NewHigh(mv.p, mv.low) < table[q].low
    /\ pc = "zero" =>
         /\ mv.p \in Parts
         /\ mv.to = table[mv.p].low * Cyl
         /\ mv.count = (table[mv.p].high - table[mv.p].low + 1) * Cyl

\* Every partition has that geometry.
LEMMA OneCylinder ==
    ASSUME OneGeometry, NEW p \in Parts
    PROVE  Spc[p] = Cyl /\ Cyl \in Nat \ {0} /\ Scale[p] = 1
<1>1. (CHOOSE q \in Parts : TRUE) \in Parts
  OBVIOUS
<1> QED BY <1>1, GeometryAssumption DEF OneGeometry, Cyl

\* A partition's sectors, with 512-byte blocks.
LEMMA PlainSpan ==
    ASSUME OneGeometry, NEW t, WellPlaced(t), NEW q \in Parts, NEW s \in Int
    PROVE  /\ t[q].low \in Nat /\ t[q].high \in Nat /\ Cyl \in Nat \ {0}
           /\ s \in Span(q, t) <=> /\ t[q].low * Cyl <= s
                                   /\ s < (t[q].high + 1) * Cyl
<1>1. /\ t[q].low \in Nat /\ t[q].high \in Nat /\ t[q].low <= t[q].high
      /\ Cyl \in Nat \ {0} /\ Scale[q] = 1 /\ Spc[q] = Cyl
  BY OneCylinder DEF WellPlaced, Range
<1>2. /\ Base(q, t[q].low) = t[q].low * Cyl
      /\ Count(q, t) = (t[q].high - t[q].low + 1) * Cyl
      /\ t[q].low * Cyl \in Nat /\ (t[q].high - t[q].low + 1) * Cyl \in Nat
      /\ (t[q].high + 1) * Cyl \in Nat
  BY <1>1 DEF Base, Count
<1>3. t[q].low * Cyl + (t[q].high - t[q].low + 1) * Cyl = (t[q].high + 1) * Cyl
  BY <1>1
<1> QED BY <1>1, <1>2, <1>3 DEF Span

\* Partitions whose sectors are disjoint have disjoint cylinder ranges.
LEMMA InitApart == ASSUME OneGeometry, Init PROVE ApartInv
<1>1. WellPlaced(InitTable)
  BY TableAssumption DEF WellPlaced
<1>2. ASSUME NEW p \in Parts, NEW q \in Parts, p # q,
             ~(InitTable[p].high < InitTable[q].low \/ InitTable[q].high < InitTable[p].low)
      PROVE  FALSE
  <2> DEFINE c == IF InitTable[p].low < InitTable[q].low THEN InitTable[q].low
                  ELSE InitTable[p].low
  <2>1. /\ InitTable[p].low \in Nat /\ InitTable[p].high \in Nat
        /\ InitTable[q].low \in Nat /\ InitTable[q].high \in Nat /\ Cyl \in Nat \ {0}
        /\ InitTable[p].low <= InitTable[p].high /\ InitTable[q].low <= InitTable[q].high
    BY <1>1, PlainSpan DEF WellPlaced
  <2>2. /\ c \in Nat /\ InitTable[p].low <= c /\ InitTable[q].low <= c
        /\ c + 1 <= InitTable[p].high + 1 /\ c + 1 <= InitTable[q].high + 1
    BY <1>2, <2>1
  <2> HIDE DEF c
  <2>3. /\ c * Cyl \in Nat
        /\ InitTable[p].low * Cyl <= c * Cyl /\ InitTable[q].low * Cyl <= c * Cyl
        /\ (c + 1) * Cyl <= (InitTable[p].high + 1) * Cyl
        /\ (c + 1) * Cyl <= (InitTable[q].high + 1) * Cyl
    BY <2>1, <2>2, Product
  <2>4. c * Cyl < (c + 1) * Cyl
    BY <2>1, <2>2
  <2>5. c * Cyl \in Span(p, InitTable) \cap Span(q, InitTable)
    BY <1>1, <2>1, <2>2, <2>3, <2>4, PlainSpan
  <2> QED BY <1>2, <2>5, TableAssumption
<1> QED BY <1>2 DEF Init, ApartInv, Apart, Moving

\* The range being written to meets no other partition of the table.
LEMMA Outside ==
    ASSUME OneGeometry, PInv, ApartInv, pc \in {"copy", "roots", "zero"},
           NEW q \in Parts \ {mv.p}, NEW s \in Span(q, table)
    PROVE  /\ mv.to \in Nat /\ mv.count \in Nat \ {0} /\ s \in Int
           /\ s \notin mv.to .. (mv.to + mv.count - 1)
<1> DEFINE low == IF pc = "zero" THEN table[mv.p].low ELSE mv.low
           n == table[mv.p].high - table[mv.p].low + 1
<1>1. mv.p \in Parts /\ mv.to = low * Cyl /\ mv.count = n * Cyl
  BY DEF PInv, ApartInv, Moving
<1>2. /\ low \in Nat /\ n \in Nat \ {0} /\ Cyl \in Nat \ {0}
      /\ table[mv.p].low \in Nat /\ table[mv.p].high \in Nat
      /\ table[q].low \in Nat /\ table[q].high \in Nat
  BY <1>1, PInvParts, OneCylinder DEF WellPlaced, Range, MvType
<1>3. low > table[q].high \/ low + n <= table[q].low
  <2>1. CASE pc = "zero"
    BY <1>1, <1>2, <2>1 DEF ApartInv, Apart
  <2>2. CASE pc # "zero"
    BY <1>1, <1>2, <2>2 DEF ApartInv, Moving, NewHigh
  <2> QED BY <2>1, <2>2
<1>4. s \in Int
  BY DEF Span
<1>5. table[q].low * Cyl <= s /\ s < (table[q].high + 1) * Cyl
  BY <1>4, PInvParts, PlainSpan
<1> HIDE DEF low, n
<1>6. /\ low * Cyl \in Nat /\ n * Cyl \in Nat \ {0}
      /\ low * Cyl + n * Cyl = (low + n) * Cyl
      /\ table[q].low * Cyl \in Nat /\ (table[q].high + 1) * Cyl \in Nat
  BY <1>2
<1>7. CASE low > table[q].high
  <2>1. (table[q].high + 1) * Cyl <= low * Cyl
    BY <1>2, <1>7, Product
  <2> QED BY <1>1, <1>4, <1>5, <1>6, <2>1
<1>8. CASE low + n <= table[q].low
  <2>1. (low + n) * Cyl <= table[q].low * Cyl
    BY <1>2, <1>8, Product
  <2> QED BY <1>1, <1>4, <1>5, <1>6, <2>1
<1> QED BY <1>3, <1>7, <1>8

\* The entry a finished move leaves stays clear of the others.
LEMMA ToTableApart ==
    ASSUME PInv, ApartInv, Moving, ToTable
    PROVE  Apart(table')
<1>1. /\ mv.p \in Parts /\ table \in [Parts -> Range] /\ Apart(table)
      /\ table' = [table EXCEPT ![mv.p] =
                     [low |-> mv.low, high |-> NewHigh(mv.p, mv.low)]]
      /\ \A q \in Parts \ {mv.p} :
            mv.low > table[q].high \/ NewHigh(mv.p, mv.low) < table[q].low
      /\ mv.low \in Nat /\ NewHigh(mv.p, mv.low) \in Int
      /\ \A q \in Parts : table[q].low \in Nat /\ table[q].high \in Nat
  BY PInvParts DEF PInv, ApartInv, ToTable, NewHigh, MvType, Range
<1>2. /\ table'[mv.p].low = mv.low /\ table'[mv.p].high = NewHigh(mv.p, mv.low)
      /\ \A q \in Parts \ {mv.p} : table'[q] = table[q]
  BY <1>1
<1> QED BY <1>1, <1>2 DEF Apart

\* A step that does not start a move or a zeroing leaves the ranges alone.
LEMMA ApartStays ==
    ASSUME PInv, ApartInv, Apart(table'), Apart(saved'),
           \/ pc' \in {"off", "idle", "table"}
           \/ /\ UNCHANGED table
              /\ mv'.p = mv.p /\ mv'.low = mv.low /\ mv'.to = mv.to /\ mv'.count = mv.count
              /\ (pc' = "zero" /\ pc = "zero") \/ (pc' \in {"copy", "roots"} /\ Moving)
    PROVE  ApartInv'
BY DEF ApartInv, Moving, NewHigh

\* ApartInv is inductive, given PInv.
LEMMA NextApart ==
    ASSUME OneGeometry, PInv, ApartInv, [Next]_vars
    PROVE  ApartInv'
<1>0. /\ mv \in MvType /\ NoMv \in MvType /\ WellPlaced(table)
      /\ Apart(table) /\ Apart(saved)
  BY PInvParts, NoMvType DEF ApartInv
<1>1. ASSUME NEW p \in Parts, NEW low \in LoCyl .. HiCyl, Move(p, low)
      PROVE  ApartInv'
  <2>1. /\ mv'.p = p /\ mv'.low = low
        /\ mv'.to = Base(p, low) /\ mv'.count = Count(p, table)
        /\ pc' = "copy" /\ table' = table /\ saved' = saved
        /\ \A q \in Parts \ {p} : low > table[q].high \/ NewHigh(p, low) < table[q].low
    BY <1>1, MoveStart DEF Move, CanMove
  <2>2. /\ Base(p, low) = low * Cyl
        /\ Count(p, table) = (table[p].high - table[p].low + 1) * Cyl
    <3>1. /\ Scale[p] = 1 /\ Spc[p] = Cyl /\ Cyl \in Nat /\ low \in Nat
          /\ table[p].high - table[p].low + 1 \in Nat
      BY <1>0, OneCylinder, GeometryAssumption DEF WellPlaced, Range
    <3>2. low * Cyl \in Nat /\ (table[p].high - table[p].low + 1) * Cyl \in Nat
      BY <3>1
    <3> QED BY <3>1, <3>2 DEF Base, Count
  <2> QED BY <1>0, <2>1, <2>2 DEF ApartInv, Moving, NewHigh
<1>2. ASSUME NEW p \in Parts, Zero(p) PROVE ApartInv'
  <2>1. mv' = [NoMv EXCEPT !.p = p, !.to = table[p].low * Cyl,
                           !.count = (table[p].high - table[p].low + 1) * Cyl]
    BY <1>2, OneCylinder DEF Zero
  <2>2. /\ mv'.p = p /\ mv'.to = table[p].low * Cyl
        /\ mv'.count = (table[p].high - table[p].low + 1) * Cyl
    BY <1>0, <2>1 DEF MvType
  <2> QED BY <1>0, <1>2, <2>2 DEF Zero, ApartInv, Moving
<1>3. CASE CopyChunk \/ ZeroChunk
  <2>1. /\ mv'.p = mv.p /\ mv'.low = mv.low /\ mv'.to = mv.to /\ mv'.count = mv.count
        /\ pc' = pc /\ pc \in {"copy", "zero"} /\ UNCHANGED <<table, saved>>
    BY <1>0, <1>3 DEF CopyChunk, ZeroChunk, MvType
  <2> QED BY <1>0, <2>1, ApartStays DEF Moving
<1>4. CASE CopyDone \/ RootPatch \/ RootAbsent \/ RootUnread \/ RootsUnread \/ RootFault
  <2>1. /\ mv'.p = mv.p /\ mv'.low = mv.low /\ mv'.to = mv.to /\ mv'.count = mv.count
        /\ Moving /\ saved' = saved
        /\ ToTable \/ (pc' = "roots" /\ UNCHANGED table)
    BY <1>0, <1>4 DEF CopyDone, RootPatch, RootAbsent, RootUnread, RootsUnread, RootFault,
                      RootNext, Moving, MvType
  <2>2. CASE ToTable
    BY <1>0, <2>1, <2>2, ToTableApart, ApartStays DEF ToTable
  <2>3. CASE pc' = "roots" /\ UNCHANGED table
    BY <1>0, <2>1, <2>3, ApartStays
  <2> QED BY <2>1, <2>2, <2>3
<1>5. CASE \/ CopyFault \/ TableWrite \/ TableFault \/ ZeroFault \/ ZeroDone
           \/ Crash \/ Reopen
  <2>1. /\ pc' \in {"off", "idle"}
        /\ table' \in {table, saved} /\ saved' \in {table, saved}
    BY <1>5 DEF CopyFault, TableWrite, TableFault, ZeroFault, ZeroDone, Crash, Reopen
  <2> QED BY <1>0, <2>1, ApartStays
<1>6. CASE UNCHANGED vars
  BY <1>6 DEF vars, ApartInv, Moving, NewHigh
<1> QED BY <1>1, <1>2, <1>3, <1>4, <1>5, <1>6 DEF Next, Advance, Faults

\* The sectors of a partition of a well placed table are on the disk.
LEMMA SpanOnDisk ==
    ASSUME NEW t, WellPlaced(t), NEW q \in Parts, NEW s \in Span(q, t)
    PROVE  s \in Sector
<1>1. /\ t[q].low \in Nat /\ t[q].high - t[q].low + 1 \in Nat
      /\ t[q].low + (t[q].high - t[q].low + 1) <= HiCyl + 1
  BY GeometryAssumption DEF WellPlaced, Range
<1>2. /\ Base(q, t[q].low) \in Nat /\ Count(q, t) \in Nat
      /\ Base(q, t[q].low) + Count(q, t) <= LastSector + 1
  BY <1>1, Fits DEF Base, Count
<1> QED BY <1>2, GeometryAssumption DEF Span, Sector

\* What PART_Zero writes at a time is inside its range.
LEMMA ZeroRange ==
    ASSUME PInv, pc = "zero"
    PROVE  ZeroNow \subseteq 0 .. (mv.count - 1)
<1>1. mv.i \in Nat /\ mv.count \in Nat /\ mv.i <= mv.count /\ Chunk \in Nat \ {0}
  BY PInvParts, GeometryAssumption DEF PInv, MvType
<1> QED BY <1>1 DEF ZeroNow, Least

\* What a write to sector s leaves outside the range a step works on.
RootOnly(s) == OutsizedRoot(s) /\ disk'[s] = [disk[s] EXCEPT !.base = mv.to]

\* A step writes inside the range it works on, or patches the root of an outsized
\* volume, or writes nothing.
LEMMA WritesInRange ==
    ASSUME PInv, RootsInv, [Next]_vars, NEW s \in Sector, disk'[s] # disk[s],
           mv.to \in Nat, mv.count \in Nat \ {0}
    PROVE  /\ pc \in {"copy", "roots", "zero"}
           /\ s \in mv.to .. (mv.to + mv.count - 1) \/ RootOnly(s)
<1>0. /\ s \in Int /\ disk \in [Sector -> Contents] /\ mv \in MvType
  BY PInvParts DEF Sector
<1>1. ASSUME NEW S \in SUBSET (0 .. (mv.count - 1)),
             disk' = Copied(S) \/ disk' = Zeroed(S)
      PROVE  s \in mv.to .. (mv.to + mv.count - 1)
  <2>1. s - mv.to \in S
    BY <1>1 DEF Copied, Zeroed
  <2> QED BY <1>0, <2>1
<1>2. ASSUME pc = "roots", disk' = Patched, HasRootId(RootSector), mv.r < 2
      PROVE  s \in mv.to .. (mv.to + mv.count - 1) \/ RootOnly(s)
  <2>1. s = RootSector /\ disk'[s] = [disk[s] EXCEPT !.base = mv.to]
    BY <1>2, SamePatched
  <2>2. CASE mv.r = 0
    BY <2>1, <2>2 DEF RootSector
  <2>3. CASE mv.r = 1
    <3>1. disk[mv.to].total > 0 /\ mv.to \in Sector
      BY <1>2, <2>3 DEF RootsInv, HasRootId
    <3>2. disk[mv.to].total \in Nat
      BY <1>0, <3>1 DEF Contents
    <3>3. RootSector = mv.to + disk[mv.to].total - 1
      BY <2>3 DEF RootSector
    <3>4. s \in mv.to .. (mv.to + mv.count - 1) \/ s >= mv.to + mv.count
      BY <1>0, <2>1, <3>1, <3>2, <3>3
    <3> QED BY <1>2, <2>1, <2>3, <3>4 DEF RootOnly, OutsizedRoot
  <2>4. mv.r \in {0, 1}
    BY <1>0, <1>2 DEF MvType
  <2> QED BY <2>2, <2>3, <2>4
<1>3. CASE CopyChunk \/ CopyFault
  <2>1. pc = "copy" /\ \E S \in SUBSET ChunkNow : disk' = Copied(S)
    BY <1>3 DEF CopyChunk, CopyFault
  <2> QED BY <1>1, <2>1, ChunkRange
<1>4. CASE ZeroChunk \/ ZeroFault
  <2>1. pc = "zero" /\ \E S \in SUBSET ZeroNow : disk' = Zeroed(S)
    BY <1>4 DEF ZeroChunk, ZeroFault
  <2> QED BY <1>1, <2>1, ZeroRange
<1>5. CASE RootPatch \/ RootFault
  <2>1. pc = "roots" /\ mv.r < 2 /\ HasRootId(RootSector) /\ disk' = Patched
    BY <1>5 DEF RootPatch, RootFault
  <2> QED BY <1>2, <2>1
<1>6. CASE Crash
  <2>1. CASE pc = "copy"
    <3>1. \E S \in SUBSET ChunkNow : disk' = Copied(S)
      BY <1>6, <2>1 DEF Crash
    <3> QED BY <1>1, <2>1, <3>1, ChunkRange
  <2>2. CASE pc = "zero"
    <3>1. \E S \in SUBSET ZeroNow : disk' = Zeroed(S)
      BY <1>6, <2>2 DEF Crash
    <3> QED BY <1>1, <2>2, <3>1, ZeroRange
  <2>3. CASE pc = "roots"
    <3>1. HasRootId(RootSector) /\ disk' = Patched /\ mv.r < 2
      BY <1>6, <2>3 DEF Crash, PInv, Moving
    <3> QED BY <1>2, <2>3, <3>1
  <2> QED BY <1>6, <2>1, <2>2, <2>3 DEF Crash
<1>7. CASE UNCHANGED disk
  BY <1>7
<1>8. UNCHANGED disk \/ CopyChunk \/ CopyFault \/ ZeroChunk \/ ZeroFault
      \/ RootPatch \/ RootFault \/ Crash
  BY DEF Next, Advance, Faults, vars, Zero, Move, CopyDone, RootAbsent, TableWrite,
         ZeroDone, RootsUnread, RootUnread, TableFault, Reopen
<1> QED BY <1>3, <1>4, <1>5, <1>6, <1>7, <1>8

\* As long as all partitions have one geometry and 512-byte blocks, nothing PART_Move
\* or PART_Zero does, and no failure or power loss in the middle, reaches another
\* partition, but for the position in a root behind a volume that states too many
\* sectors.  (A partition with larger blocks is what the run move_span is about.)
THEOREM OthersAreSafe == ASSUME OneGeometry PROVE Spec => OthersUntouched
<1>1. Init => PInv /\ ApartInv /\ RootsInv
  BY InitPInv, InitApart, InitRoots
<1>2. PInv /\ ApartInv /\ RootsInv /\ [Next]_vars => (PInv /\ ApartInv /\ RootsInv)'
  BY NextPInv, NextApart, NextRoots
<1>3. PInv /\ ApartInv /\ RootsInv /\ [Next]_vars
        => [ \A q \in Parts \ {mv.p} : \A s \in Span(q, table) :
               \/ disk'[s] = disk[s]
               \/ OutsizedRoot(s) /\ disk'[s] = [disk[s] EXCEPT !.base = mv.to] ]_vars
  <2> SUFFICES ASSUME PInv, ApartInv, RootsInv, [Next]_vars, NEW q \in Parts \ {mv.p},
                      NEW s \in Span(q, table), disk'[s] # disk[s]
               PROVE  RootOnly(s)
    BY DEF RootOnly
  <2>1. s \in Sector
    BY PInvParts, SpanOnDisk
  <2>2. CASE pc \in {"copy", "roots", "zero"}
    BY <2>1, <2>2, Outside, WritesInRange
  <2>3. CASE pc \notin {"copy", "roots", "zero"}
    BY <2>3 DEF Next, Advance, Faults, vars, Zero, Move, CopyChunk, CopyDone, CopyFault,
                RootPatch, RootAbsent, TableWrite, ZeroChunk, ZeroDone, RootsUnread,
                RootUnread, RootFault, TableFault, ZeroFault, Crash, Reopen
  <2> QED BY <2>2, <2>3
<1> QED BY <1>1, <1>2, <1>3, PTL DEF Spec, OthersUntouched

---------------------------------------------------------------------------
(* SavedWhole, for the same disks *)

\* The sectors of d that table t gives partition p hold p from its first to its last.
Holds(d, p, t) ==
    \A k \in 0 .. Count(p, t) - 1 :
        LET v == d[Base(p, t[p].low) + k] IN v.of = p /\ v.k = k

\* The copy that would have to come to a good end for p to be found again.
InCopy(p) == Moving /\ p = mv.p /\ p \in open

\* What is not lost and not in the middle of an overlapping copy is where the table in
\* memory says; what is not open besides is where the table on the disk says, and
\* until an entry has changed the two agree.  A copy that leaves its source alone
\* is the only one whose partition may count as safe meanwhile.
WholeInv ==
    /\ SavedWhole
    /\ \A p \in Parts \ lost : ~InCopy(p) => Holds(disk, p, table)
    /\ pc \in {"idle", "copy", "roots", "zero"} =>
          \A p \in Parts \ (lost \cup open) : table[p] = saved[p]
    /\ Moving =>
         /\ mv.from = Base(mv.p, table[mv.p].low) /\ mv.count = Count(mv.p, table)
         /\ mv.to = Base(mv.p, mv.low)
         /\ mv.p \notin open => ~Overlapping(mv)
         /\ mv.p \notin lost => Holds(before, mv.p, table)
    /\ pc = "zero" => mv.p \in lost

\* Where a partition of a well placed table begins, and how long it is.
LEMMA BaseCount ==
    ASSUME NEW t, WellPlaced(t), NEW p \in Parts
    PROVE  Base(p, t[p].low) \in Nat /\ Count(p, t) \in Nat
<1>1. /\ t[p].low \in Nat /\ t[p].high - t[p].low + 1 \in Nat
      /\ t[p].low + (t[p].high - t[p].low + 1) <= HiCyl + 1
  BY GeometryAssumption DEF WellPlaced, Range
<1> QED BY <1>1, Fits DEF Base, Count

\* A partition none of whose sectors comes to hold something else is still where it
\* was.
LEMMA HoldsKept ==
    ASSUME NEW t, WellPlaced(t), NEW p \in Parts, NEW d, NEW e, Holds(d, p, t),
           \A s \in Span(p, t) : Same(e[s], d[s])
    PROVE  Holds(e, p, t)
<1> SUFFICES ASSUME NEW k \in 0 .. (Count(p, t) - 1)
             PROVE  LET v == e[Base(p, t[p].low) + k] IN v.of = p /\ v.k = k
  BY DEF Holds
<1>1. Base(p, t[p].low) + k \in Span(p, t)
  BY BaseCount DEF Span
<1>2. d[Base(p, t[p].low) + k].of = p /\ d[Base(p, t[p].low) + k].k = k
  BY DEF Holds
<1> QED BY <1>1, <1>2 DEF Same

\* Only its own entry says where a partition is.
LEMMA HoldsEntry ==
    ASSUME NEW t, NEW u, NEW p, NEW d, t[p] = u[p], Holds(d, p, t)
    PROVE  Holds(d, p, u)
BY DEF Holds, Count

\* Every partition is in place at the start.
LEMMA InitWhole == Init => WholeInv
<1> SUFFICES ASSUME Init PROVE WholeInv
  OBVIOUS
<1>0. WellPlaced(InitTable)
  BY TableAssumption DEF WellPlaced
<1>1. ASSUME NEW p \in Parts PROVE Holds(disk, p, InitTable)
  <2> SUFFICES ASSUME NEW k \in 0 .. (Count(p, InitTable) - 1)
               PROVE  LET v == disk[Base(p, InitTable[p].low) + k]
                      IN v.of = p /\ v.k = k
    BY DEF Holds
  <2> DEFINE b == Base(p, InitTable[p].low)
             s == b + k
  <2>1. b \in Nat /\ s \in Span(p, InitTable) /\ s - b = k
    BY <1>0, BaseCount DEF Span
  <2>2. s \in Sector
    BY <1>0, <2>1, SpanOnDisk
  <2>3. (CHOOSE q \in Parts : s \in Span(q, InitTable)) = p
    <3> DEFINE q == CHOOSE q \in Parts : s \in Span(q, InitTable)
    <3>1. q \in Parts /\ s \in Span(q, InitTable)
      BY <2>1
    <3> HIDE DEF q
    <3> QED BY <2>1, <3>1, TableAssumption
  <2> HIDE DEF s
  <2>4. PICK t \in Totals : disk[s] = Stored(p, s - b, t[p])
    BY <2>1, <2>2, <2>3 DEF Init
  <2>5. t[p] \in Nat
    BY GeometryAssumption
  <2> QED BY <2>1, <2>4, <2>5, StoredType DEF s
<1> QED BY <1>1 DEF Init, WholeInv, SavedWhole, Holds, Moving

---------------------------------------------------------------------------
(* Its steps *)

\* In the sectors of a partition that is held to be in place a step changes nothing but
\* the position in a root.
LEMMA Undisturbed ==
    ASSUME OneGeometry, PInv, ApartInv, RootsInv, WholeInv, [Next]_vars,
           NEW p \in Parts \ lost, ~InCopy(p), NEW s \in Span(p, table)
    PROVE  Same(disk'[s], disk[s])
<1> SUFFICES ASSUME disk'[s] # disk[s] PROVE RootOnly(s)
  BY PInvParts, SpanOnDisk DEF RootOnly, Same, Contents
<1>1. s \in Sector /\ s \in Int /\ WellPlaced(table)
  BY PInvParts, SpanOnDisk DEF Sector
<1>2. pc \in {"copy", "roots", "zero"}
  BY DEF Next, Advance, Faults, vars, Zero, Move, CopyChunk, CopyDone, CopyFault,
         RootPatch, RootAbsent, TableWrite, ZeroChunk, ZeroDone, RootsUnread,
         RootUnread, RootFault, TableFault, ZeroFault, Crash, Reopen
<1>3. CASE p # mv.p
  BY <1>1, <1>2, <1>3, Outside, WritesInRange
<1>4. CASE p = mv.p
  <2>1. Moving /\ mv.p \notin open
    BY <1>2, <1>4 DEF WholeInv, Moving, InCopy
  <2>2. /\ mv.from = Base(p, table[p].low) /\ mv.count = Count(p, table)
        /\ ~Overlapping(mv)
    BY <1>4, <2>1 DEF WholeInv
  <2>3. mv.from \in Nat /\ mv.to \in Nat /\ mv.count \in Nat
    BY PInvParts DEF MvType
  <2>4. s \in mv.from .. (mv.from + mv.count - 1)
    BY <2>2 DEF Span
  <2>5. mv.count \in Nat \ {0} /\ s \notin mv.to .. (mv.to + mv.count - 1)
    BY <1>1, <2>2, <2>3, <2>4 DEF Overlapping
  <2> QED BY <1>1, <2>3, <2>5, WritesInRange
<1> QED BY <1>3, <1>4

\* So it stays where the table in memory said.
LEMMA StaysInPlace ==
    ASSUME OneGeometry, PInv, ApartInv, RootsInv, WholeInv, [Next]_vars,
           NEW p \in Parts \ lost, ~InCopy(p)
    PROVE  Holds(disk', p, table)
<1>1. Holds(disk, p, table) /\ WellPlaced(table)
  BY PInvParts DEF WholeInv
<1>2. \A s \in Span(p, table) : Same(disk'[s], disk[s])
  BY Undisturbed
<1> QED BY <1>1, <1>2, HoldsKept

\* A finished copy is where its entry will say.
LEMMA ArrivesInPlace ==
    ASSUME PInv, CopyInv, WholeInv, Moving, ~MoreToCopy, disk' \in {disk, Patched},
           ToTable, mv.p \notin lost
    PROVE  Holds(disk', mv.p, table')
<1>1. /\ mv.p \in Parts /\ table \in [Parts -> Range] /\ mv \in MvType
      /\ mv.to = Base(mv.p, mv.low) /\ mv.count = Count(mv.p, table)
      /\ mv.from = Base(mv.p, table[mv.p].low) /\ Holds(before, mv.p, table)
  BY PInvParts DEF PInv, WholeInv
<1>2. /\ table'[mv.p].low = mv.low
      /\ table'[mv.p].high = mv.low + (table[mv.p].high - table[mv.p].low)
  BY <1>1 DEF ToTable, NewHigh
<1>3. table'[mv.p].high - table'[mv.p].low = table[mv.p].high - table[mv.p].low
  BY <1>1, <1>2 DEF MvType, Range
<1>4. Count(mv.p, table') = mv.count /\ Base(mv.p, table'[mv.p].low) = mv.to
  BY <1>1, <1>2, <1>3 DEF Count
<1>5. ASSUME NEW k \in 0 .. (mv.count - 1)
      PROVE  disk'[mv.to + k].of = mv.p /\ disk'[mv.to + k].k = k
  <2>1. Same(disk'[mv.to + k], before[mv.from + k])
    BY AllMoved
  <2>2. before[mv.from + k].of = mv.p /\ before[mv.from + k].k = k
    BY <1>1 DEF Holds
  <2> QED BY <2>1, <2>2 DEF Same
<1> QED BY <1>4, <1>5 DEF Holds

\* A start: nothing has been written yet.
LEMMA MoveWhole ==
    ASSUME PInv, WholeInv, NEW p \in Parts, NEW low \in LoCyl .. HiCyl, Move(p, low)
    PROVE  WholeInv'
<1>1. /\ mv'.p = p /\ mv'.low = low /\ mv'.from = Base(p, table[p].low)
      /\ mv'.to = Base(p, low) /\ mv'.count = Count(p, table)
  BY MoveStart
<1>2. /\ pc = "idle" /\ pc' = "copy" /\ before' = disk
      /\ open' = IF Overlapping(Started(p, low)) THEN open \cup {p} ELSE open
      /\ UNCHANGED <<disk, table, saved, lost>>
  BY DEF Move
<1>3. /\ Started(p, low).to = Base(p, low) /\ Started(p, low).count = Count(p, table)
      /\ Started(p, low).from = Base(p, table[p].low)
  BY NoMvType DEF Started, MvType
<1>4. Overlapping(mv') <=> Overlapping(Started(p, low))
  BY <1>1, <1>3 DEF Overlapping
<1>5. \A q \in Parts \ lost : Holds(disk, q, table)
  BY <1>2 DEF WholeInv, InCopy, Moving
<1>6. open \subseteq open' /\ (p \notin open' => ~Overlapping(mv'))
  BY <1>2, <1>4
<1>7. \A q \in Parts \ (lost \cup open) : Holds(disk, q, saved) /\ table[q] = saved[q]
  BY <1>2 DEF WholeInv, SavedWhole, Holds
<1>8. SavedWhole'
  BY <1>2, <1>6, <1>7 DEF SavedWhole, Holds, Count
<1>9. (\A q \in Parts \ lost : ~InCopy(q) => Holds(disk, q, table))'
  BY <1>2, <1>5 DEF Holds, Count
<1>10. (mv.p \notin lost => Holds(before, mv.p, table))'
  <2>1. p \notin lost => Holds(disk, p, table)
    BY <1>5
  <2> QED BY <1>1, <1>2, <2>1 DEF Holds, Count
<1>11. (/\ mv.from = Base(mv.p, table[mv.p].low) /\ mv.count = Count(mv.p, table)
        /\ mv.to = Base(mv.p, mv.low) /\ (mv.p \notin open => ~Overlapping(mv)))'
  BY <1>1, <1>2, <1>6 DEF Count
<1>12. (\A q \in Parts \ (lost \cup open) : table[q] = saved[q])'
  BY <1>2, <1>6, <1>7
<1> QED BY <1>2, <1>8, <1>9, <1>10, <1>11, <1>12 DEF WholeInv

\* PART_Zero: what is to be zeroed counts as lost from the start.
LEMMA ZeroWhole ==
    ASSUME PInv, WholeInv, NEW p \in Parts, Zero(p)
    PROVE  WholeInv'
<1>1. /\ mv' = [NoMv EXCEPT !.p = p, !.to = table[p].low * Spc[p],
                           !.count = (table[p].high - table[p].low + 1) * Spc[p]]
      /\ pc = "idle" /\ pc' = "zero" /\ lost' = lost \cup {p}
      /\ UNCHANGED <<disk, table, saved, before, open>>
  BY DEF Zero
<1>2. mv'.p = p
  BY <1>1, NoMvType DEF MvType
<1>3. /\ \A q \in Parts \ lost : Holds(disk, q, table)
      /\ \A q \in Parts \ (lost \cup open) : Holds(disk, q, saved) /\ table[q] = saved[q]
  BY <1>1 DEF WholeInv, SavedWhole, Holds, InCopy, Moving
<1>4. SavedWhole'
  BY <1>1, <1>3 DEF SavedWhole, Holds, Count
<1>5. (\A q \in Parts \ lost : ~InCopy(q) => Holds(disk, q, table))'
  BY <1>1, <1>3 DEF Holds, Count
<1> QED BY <1>1, <1>2, <1>3, <1>4, <1>5 DEF WholeInv, Moving

\* The table on the disk still finds what it found, as long as it is not written.
LEMMA SavedStays ==
    ASSUME OneGeometry, PInv, ApartInv, RootsInv, WholeInv, [Next]_vars, saved' = saved,
           lost \subseteq lost', open \subseteq open',
           pc \in {"idle", "copy", "roots", "zero"} \/ UNCHANGED disk
    PROVE  SavedWhole'
<1>1. \A p \in Parts \ (lost \cup open) : Holds(disk, p, saved)
  BY DEF WholeInv, SavedWhole, Holds
<1>2. ASSUME NEW p \in Parts \ (lost \cup open) PROVE Holds(disk', p, saved)
  <2>1. CASE pc \in {"idle", "copy", "roots", "zero"}
    <3>1. p \in Parts \ lost /\ ~InCopy(p) /\ table[p] = saved[p]
      BY <2>1 DEF InCopy, WholeInv
    <3>2. Holds(disk', p, table)
      BY <3>1, StaysInPlace
    <3> QED BY <3>1, <3>2, HoldsEntry
  <2>2. CASE UNCHANGED disk
    BY <1>1, <2>2
  <2> QED BY <2>1, <2>2
<1> QED BY <1>2 DEF SavedWhole, Holds, Count

\* A turn of a loop.
LEMMA LoopWhole ==
    ASSUME OneGeometry, PInv, ApartInv, RootsInv, WholeInv, [Next]_vars,
           UNCHANGED <<table, saved, before, lost, open>>,
           mv'.p = mv.p, mv'.low = mv.low, mv'.from = mv.from, mv'.to = mv.to,
           mv'.count = mv.count,
           (pc' = pc /\ pc \in {"copy", "roots", "zero"}) \/ (pc = "copy" /\ pc' = "roots")
    PROVE  WholeInv'
<1>1. SavedWhole'
  BY SavedStays
<1>2. ASSUME NEW p \in Parts \ lost, ~InCopy(p)' PROVE Holds(disk', p, table)
  <2>1. ~InCopy(p)
    BY <1>2 DEF InCopy, Moving
  <2> QED BY <2>1, StaysInPlace
<1>3. (\A p \in Parts \ lost : ~InCopy(p) => Holds(disk, p, table))'
  BY <1>2 DEF Holds, Count
<1>4. (Moving => /\ mv.from = Base(mv.p, table[mv.p].low) /\ mv.count = Count(mv.p, table)
                 /\ mv.to = Base(mv.p, mv.low)
                 /\ mv.p \notin open => ~Overlapping(mv)
                 /\ mv.p \notin lost => Holds(before, mv.p, table))'
  BY DEF WholeInv, Moving, Holds, Count, Overlapping
<1> QED BY <1>1, <1>3, <1>4 DEF WholeInv

\* The entry follows the data; the table on the disk does not yet.
LEMMA EntryWhole ==
    ASSUME OneGeometry, PInv, CopyInv, ApartInv, RootsInv, WholeInv, [Next]_vars, ToTable,
           Moving, ~MoreToCopy, disk' \in {disk, Patched},
           UNCHANGED <<saved, before, lost, open>>
    PROVE  WholeInv'
<1>1. SavedWhole' /\ pc' = "table"
  BY SavedStays DEF Moving, ToTable
<1>2. ASSUME NEW p \in Parts \ lost PROVE Holds(disk', p, table')
  <2>1. CASE p = mv.p
    BY <2>1, ArrivesInPlace
  <2>2. CASE p # mv.p
    <3>1. Holds(disk', p, table)
      BY <2>2, StaysInPlace DEF InCopy
    <3>2. table[p] = table'[p]
      BY <2>2, PInvParts DEF ToTable
    <3> QED BY <3>1, <3>2, HoldsEntry
  <2> QED BY <2>1, <2>2
<1>3. (\A p \in Parts \ lost : ~InCopy(p) => Holds(disk, p, table))'
  BY <1>2 DEF Holds, Count
<1> QED BY <1>1, <1>3 DEF WholeInv, Moving

\* A loop breaks off, or ends without an entry to change; a copy that overlaps itself
\* leaves its partition lost.
LEMMA StopWhole ==
    ASSUME OneGeometry, PInv, ApartInv, RootsInv, WholeInv, [Next]_vars,
           pc \in {"copy", "roots", "zero"}, pc' \in {"idle", "off"},
           UNCHANGED <<table, saved, open>>,
           lost \subseteq lost', lost' \subseteq Parts, InCopy(mv.p) => mv.p \in lost'
    PROVE  WholeInv'
<1>1. SavedWhole'
  BY SavedStays
<1>2. ASSUME NEW p \in Parts \ lost' PROVE Holds(disk', p, table)
  <2>1. p \in Parts \ lost /\ ~InCopy(p)
    BY DEF InCopy
  <2> QED BY <2>1, StaysInPlace
<1>3. (\A p \in Parts \ lost : ~InCopy(p) => Holds(disk, p, table))'
  BY <1>2 DEF Holds, Count
<1>4. (\A p \in Parts \ (lost \cup open) : table[p] = saved[p])'
  BY DEF WholeInv
<1> QED BY <1>1, <1>3, <1>4 DEF WholeInv, Moving

\* RDB_Write, whether it comes to an end or not.
LEMMA TableWhole ==
    ASSUME PInv, WholeInv, pc = "table", UNCHANGED <<disk, table>>,
           pc' \in {"idle", "off"}, saved' \in {saved, table},
           lost \subseteq lost',
           \/ saved' = table /\ open' = lost'
           \/ open' = Parts
           \/ pc' = "off" /\ open' = open
    PROVE  WholeInv'
<1>1. ASSUME NEW p \in Parts \ lost PROVE Holds(disk, p, table)
  BY DEF WholeInv, InCopy, Moving
<1>2. ASSUME NEW p \in Parts \ (lost' \cup open') PROVE Holds(disk, p, saved')
  <2>1. CASE saved' = table
    BY <1>1, <2>1
  <2>2. CASE saved' = saved /\ open' = open
    BY <2>2 DEF WholeInv, SavedWhole, Holds
  <2> QED BY <2>1, <2>2
<1>3. SavedWhole'
  BY <1>2 DEF SavedWhole, Holds, Count
<1>4. (\A p \in Parts \ lost : ~InCopy(p) => Holds(disk, p, table))'
  BY <1>1 DEF Holds, Count
<1>5. (pc = "idle" => \A p \in Parts \ (lost \cup open) : table[p] = saved[p])'
  OBVIOUS
<1> QED BY <1>3, <1>4, <1>5 DEF WholeInv, Moving

\* RDB_Read: what only the table in memory knew of is lost.
LEMMA ReopenWhole ==
    ASSUME PInv, WholeInv, Reopen
    PROVE  WholeInv'
<1>1. /\ pc \in {"off", "idle"} /\ table' = saved /\ pc' = "idle"
      /\ lost' = lost \cup {p \in open : table[p] # saved[p]}
      /\ UNCHANGED <<disk, saved, open>>
  BY DEF Reopen, Stranded
<1>2. ASSUME NEW p \in Parts \ lost' PROVE Holds(disk, p, saved)
  <2>1. CASE p \in open
    <3>1. table[p] = saved[p] /\ Holds(disk, p, table)
      BY <1>1, <2>1 DEF WholeInv, InCopy, Moving
    <3> QED BY <3>1, HoldsEntry
  <2>2. CASE p \notin open
    BY <1>1, <2>2 DEF WholeInv, SavedWhole, Holds
  <2> QED BY <2>1, <2>2
<1>3. SavedWhole'
  BY <1>1, <1>2 DEF SavedWhole, Holds, Count
<1>4. (\A p \in Parts \ lost : ~InCopy(p) => Holds(disk, p, table))'
  BY <1>1, <1>2 DEF Holds, Count
<1> QED BY <1>1, <1>3, <1>4 DEF WholeInv, Moving

\* WholeInv is inductive, given the other four.
LEMMA NextWhole ==
    ASSUME OneGeometry, PInv, CopyInv, ApartInv, RootsInv, WholeInv, [Next]_vars
    PROVE  WholeInv'
<1>0. mv \in MvType /\ lost \subseteq Parts /\ open \subseteq Parts
  BY PInvParts
<1>1. CASE \E p \in Parts : Zero(p) \/ \E low \in LoCyl .. HiCyl : Move(p, low)
  BY <1>1, MoveWhole, ZeroWhole
<1>2. CASE CopyChunk \/ ZeroChunk
  BY <1>0, <1>2, LoopWhole DEF CopyChunk, ZeroChunk, MvType
<1>3. CASE \/ CopyDone \/ RootsUnread \/ RootPatch \/ RootAbsent \/ RootUnread
           \/ RootFault
  <2>1. /\ Moving /\ ~MoreToCopy /\ disk' \in {disk, Patched}
        /\ mv'.p = mv.p /\ mv'.low = mv.low /\ mv'.from = mv.from /\ mv'.to = mv.to
        /\ mv'.count = mv.count /\ UNCHANGED <<saved, before, lost, open>>
        /\ ToTable \/ (pc' = "roots" /\ UNCHANGED table)
    BY <1>0, <1>3, RootSteps
       DEF CopyDone, RootsUnread, RootPatch, RootAbsent, RootUnread, RootFault, RootNext,
           MvType
  <2>2. CASE ToTable
    BY <2>1, <2>2, EntryWhole
  <2>3. CASE pc' = "roots" /\ UNCHANGED table
    BY <2>1, <2>3, LoopWhole DEF Moving
  <2> QED BY <2>1, <2>2, <2>3
<1>4. CASE CopyFault \/ ZeroFault \/ ZeroDone
  <2>1. /\ pc \in {"copy", "zero"} /\ pc' = "idle" /\ UNCHANGED <<table, saved, open>>
        /\ lost \subseteq lost' /\ (InCopy(mv.p) => mv.p \in lost')
        /\ lost' \subseteq Parts
    BY <1>0, <1>4 DEF CopyFault, ZeroFault, ZeroDone, Broken, InCopy, Moving, PInv
  <2> QED BY <2>1, StopWhole
<1>5. CASE TableWrite
  BY <1>5, TableWhole DEF TableWrite
<1>6. CASE TableFault
  BY <1>6, TableWhole DEF TableFault
<1>7. CASE Crash
  <2>1. CASE pc = "table"
    <3>1. /\ UNCHANGED <<disk, table, open>> /\ pc' = "off" /\ saved' \in {saved, table}
          /\ lost \subseteq lost'
      BY <1>7, <2>1 DEF Crash, Stranded
    <3> QED BY <2>1, <3>1, TableWhole
  <2>2. CASE pc # "table"
    <3>1. /\ pc \in {"copy", "roots", "zero"} /\ pc' = "off"
          /\ UNCHANGED <<table, saved, open>> /\ lost \subseteq lost'
      BY <1>7, <2>2 DEF Crash, Stranded
    <3>2. lost' \subseteq Parts /\ (InCopy(mv.p) => mv.p \in lost')
      BY <1>0, <1>7 DEF Crash, Stranded, Broken, InCopy, Moving, PInv
    <3> QED BY <3>1, <3>2, StopWhole
  <2> QED BY <2>1, <2>2
<1>8. CASE Reopen
  BY <1>8, ReopenWhole
<1>9. CASE UNCHANGED vars
  BY <1>9 DEF vars, WholeInv, SavedWhole, Holds, InCopy, Moving, Count, Overlapping
<1> QED BY <1>1, <1>2, <1>3, <1>4, <1>5, <1>6, <1>7, <1>8, <1>9 DEF Next, Advance, Faults

\* With one geometry and 512-byte blocks, however moves, zeroings, failures, power losses and
\* new starts follow one another: the table on the disk finds every partition whole
\* that is not lost and whose overlapping move or table write has not gone wrong.
THEOREM SavedTableFindsAll == ASSUME OneGeometry PROVE Spec => []SavedWhole
<1> DEFINE Inv == PInv /\ CopyInv /\ ApartInv /\ RootsInv /\ WholeInv
<1>1. Init => Inv
  BY InitPInv, InitCopyInv, InitApart, InitRoots, InitWhole
<1>2. Inv /\ [Next]_vars => Inv'
  BY NextPInv, NextCopyInv, NextApart, NextRoots, NextWhole
<1>3. Inv => SavedWhole
  BY DEF WholeInv
<1> QED BY <1>1, <1>2, <1>3, PTL DEF Spec

=============================================================================
