------------------------------ MODULE PartMove ------------------------------
(***************************************************************************)
(* Moving and zeroing partitions (src/src/partmove.c), with the caller that *)
(* follows a move with RDB_Write (src/src/partview_move.c).                 *)
(*                                                                         *)
(* PART_Move copies a partition's sectors in chunks, downwards from the     *)
(* front and upwards from the back, because the two ranges may overlap;     *)
(* then patches the absolute position in both SFS root blocks; then changes *)
(* the entry in memory.  The table on the disk follows last.                *)
(*                                                                         *)
(* A sector holds what it is for: sector k of partition `of`.  An SFS root  *)
(* block is one sector, the first or the last of its volume: `base` is the  *)
(* position it says the partition is at (firstbyte; the length it also      *)
(* states does not change), `total` how many sectors the volume has, which  *)
(* need not be what the partition has.  RDB_Write is one step here: a move leaves *)
(* the layout of the table as it is and changes one PART block, so a write  *)
(* that fails leaves the old table or the new one.  RdbTable has the detail.*)
(*                                                                         *)
(* A definition whose name starts with Mut is a deliberately wrong variant  *)
(* of the one after it, used nowhere: it serves to show that a property     *)
(* fails when the code goes wrong that way.                                 *)
(***************************************************************************)
EXTENDS Integers, FiniteSets

CONSTANTS
    Parts,          \* the partitions
    Nobody,         \* the owner of a sector without contents
    Spc,            \* sectors per cylinder, heads * sectors, of each partition
    LoCyl, HiCyl,   \* rdb->lo_cyl, rdb->hi_cyl
    LastSector,
    Scale,          \* block_size / 512, 1 below 1024, of each partition
    Sfs,            \* the partitions of an SFS type
    Totals,         \* the volumes at the start: sectors an SFS root states, or 0
    Chunk,          \* MOVE_CHUNK
    InitTable,      \* where the partitions are at the start
    MaxMoves, MaxTroubles       \* bounds of the model

Sector == 0 .. LastSector
Range == [low : Nat, high : Nat]
Contents == [of : Parts \cup {Nobody}, k : Nat, base : Nat, total : Nat]
Blank == [of |-> Nobody, k |-> 0, base |-> 0, total |-> 0]

Base(p, low) == low * Spc[p] * Scale[p]              \* phys_base_*
Count(p, t) == (t[p].high - t[p].low + 1) * Spc[p] * Scale[p]
Span(p, t) == Base(p, t[p].low) .. (Base(p, t[p].low) + Count(p, t) - 1)

ASSUME GeometryAssumption ==
    /\ Chunk \in Nat \ {0} /\ LastSector \in Nat
    /\ LoCyl \in Nat /\ HiCyl \in Nat
    /\ Spc \in [Parts -> Nat \ {0}] /\ Scale \in [Parts -> Nat \ {0}]
    /\ \A p \in Parts : (HiCyl + 1) * Spc[p] * Scale[p] <= LastSector + 1
    /\ Sfs \subseteq Parts /\ Nobody \notin Parts
    /\ Totals \subseteq [Parts -> Nat]
    /\ MaxMoves \in Nat /\ MaxTroubles \in Nat
ASSUME TableAssumption ==
    /\ InitTable \in [Parts -> Range]
    /\ \A p \in Parts : /\ LoCyl <= InitTable[p].low
                        /\ InitTable[p].low <= InitTable[p].high
                        /\ InitTable[p].high <= HiCyl
    /\ \A p, q \in Parts : p # q => Span(p, InitTable) \cap Span(q, InitTable) = {}

VARIABLES
    disk,       \* the medium, sector by sector
    table,      \* rdb->parts
    saved,      \* the table on the disk
    pc,
    mv,         \* PART_Move's and PART_Zero's locals
    before,     \* history: the disk when PART_Move was called
    lost,       \* history: partitions zeroed, or whose overlapping move broke off
    open,       \* history: partitions the table on the disk may not find
    moves, troubles

vars == <<disk, table, saved, pc, mv, before, lost, open, moves, troubles>>

NoMv == [p |-> Nobody, from |-> 0, to |-> 0, low |-> 0, count |-> 0, i |-> 0,
         r |-> 0, warn |-> FALSE]
Pcs == {"off", "idle", "copy", "roots", "table", "zero"}

TypeOK ==
    /\ disk \in [Sector -> Contents]
    /\ table \in [Parts -> Range] /\ saved \in [Parts -> Range]
    /\ pc \in Pcs
    /\ mv \in [p : Parts \cup {Nobody}, from : Nat, to : Nat, low : Nat, count : Nat,
               i : Nat, r : 0 .. 2, warn : BOOLEAN]
    /\ lost \subseteq Parts /\ open \subseteq Parts
    /\ moves \in 0 .. MaxMoves /\ troubles \in 0 .. MaxTroubles

\* Sector k of partition p, whose volume states `total` sectors.
Stored(p, k, total) ==
    LET root == total > 0 /\ k \in {0, total - 1}
    IN [of |-> p, k |-> k,
        base |-> IF root THEN Base(p, InitTable[p].low) ELSE 0,
        total |-> IF root THEN total ELSE 0]

Init ==
    /\ \E t \in Totals :
         disk = [s \in Sector |->
                   IF \E p \in Parts : s \in Span(p, InitTable)
                   THEN LET p == CHOOSE q \in Parts : s \in Span(q, InitTable)
                        IN Stored(p, s - Base(p, InitTable[p].low), t[p])
                   ELSE Blank]
    /\ table = InitTable /\ saved = InitTable
    /\ pc = "idle" /\ mv = NoMv /\ before = disk
    /\ lost = {} /\ open = {} /\ moves = 0 /\ troubles = 0

Trouble == /\ troubles < MaxTroubles
           /\ troubles' = troubles + 1

---------------------------------------------------------------------------
(* PART_CanMove *)

NewHigh(p, low) == low + (table[p].high - table[p].low)

\* Neighbours are allowed to share a cylinder.
MutCanMove(p, low) ==
    /\ low # table[p].low
    /\ low >= LoCyl /\ NewHigh(p, low) <= HiCyl
    /\ \A q \in Parts \ {p} : low >= table[q].high \/ NewHigh(p, low) <= table[q].low

CanMove(p, low) ==
    /\ low # table[p].low
    /\ low >= LoCyl /\ NewHigh(p, low) <= HiCyl
    /\ \A q \in Parts \ {p} : low > table[q].high \/ NewHigh(p, low) < table[q].low

---------------------------------------------------------------------------
(* PART_Move *)

\* For an SFS volume the first root is looked at before anything moves.  Behind the
\* end of the disk nothing can be read.
HasRootId(s) == s \in Sector /\ disk[s].total > 0

Overlapping(m) == m.to < m.from + m.count /\ m.from < m.to + m.count

Started(p, low) ==
    [NoMv EXCEPT !.p = p, !.low = low, !.count = Count(p, table),
                 !.from = Base(p, table[p].low), !.to = Base(p, low)]

Move(p, low) ==
    LET m == Started(p, low) IN
    /\ pc = "idle" /\ moves < MaxMoves
    /\ CanMove(p, low)
    /\ p \in Sfs => HasRootId(m.from)
    /\ mv' = [m EXCEPT !.i = IF m.to < m.from THEN 0 ELSE m.count]
    /\ pc' = "copy"
    /\ before' = disk /\ moves' = moves + 1
    /\ open' = IF Overlapping(m) THEN open \cup {p} ELSE open
    /\ UNCHANGED <<disk, table, saved, lost, troubles>>

\* Front to back when moving down, back to front when moving up: mv.i is what is
\* done, or what is left.
MutDown == TRUE                   \* always front to back
Down == mv.to < mv.from
Least(a, b) == IF a < b THEN a ELSE b
MutMoreToCopy == IF Down THEN mv.i < mv.count ELSE mv.i >= 0     \* of an ULONG
MoreToCopy == IF Down THEN mv.i < mv.count ELSE mv.i > 0
MutChunkLen == IF Down THEN Least(mv.count - mv.i, Chunk) ELSE Chunk
ChunkLen == IF Down THEN Least(mv.count - mv.i, Chunk) ELSE Least(mv.i, Chunk)
ChunkStart == IF Down THEN mv.i ELSE mv.i - ChunkLen
ChunkNow == ChunkStart .. (ChunkStart + ChunkLen - 1)

\* The chunk is read whole, and the offsets in S of it are written.
Copied(S) == [s \in Sector |-> IF s - mv.to \in S THEN disk[mv.from + (s - mv.to)]
                              ELSE disk[s]]

CopyChunk ==
    /\ pc = "copy" /\ MoreToCopy
    /\ disk' = Copied(ChunkNow)
    /\ mv' = [mv EXCEPT !.i = IF Down THEN @ + ChunkLen ELSE @ - ChunkLen]
    /\ UNCHANGED <<table, saved, pc, before, lost, open, moves, troubles>>

\* What cannot be found whole any more once the copy breaks off.
Broken == IF mv.p \in open THEN lost \cup {mv.p} ELSE lost

\* The entry follows the data, and the caller goes on to RDB_Write.
ToTable ==
    /\ table' = [table EXCEPT ![mv.p] = [low |-> mv.low, high |-> NewHigh(mv.p, mv.low)]]
    /\ pc' = "table"

\* A failed copy falls through to the update of the entry.
MutCopyFault ==
    /\ pc = "copy" /\ MoreToCopy /\ Trouble
    /\ \E S \in SUBSET ChunkNow : disk' = Copied(S)
    /\ ToTable
    /\ UNCHANGED <<saved, mv, before, lost, open, moves>>

\* A read or a write error: PART_Move returns FALSE.
CopyFault ==
    /\ pc = "copy" /\ MoreToCopy /\ Trouble
    /\ \E S \in SUBSET ChunkNow : disk' = Copied(S)
    /\ pc' = "idle" /\ mv' = NoMv
    /\ lost' = Broken
    /\ UNCHANGED <<table, saved, before, open, moves>>

CopyDone ==
    /\ pc = "copy" /\ ~MoreToCopy
    /\ IF mv.p \in Sfs THEN pc' = "roots" /\ UNCHANGED table ELSE ToTable
    /\ UNCHANGED <<disk, saved, mv, before, lost, open, moves, troubles>>

\* The first look at the roots fails (a read, the buffer, the checksum): the
\* move stands, with a warning.
RootsUnread ==
    /\ pc = "roots" /\ mv.r = 0 /\ Trouble
    /\ mv' = [mv EXCEPT !.warn = TRUE]
    /\ ToTable
    /\ UNCHANGED <<disk, saved, before, lost, open, moves>>

\* The first block, and the last one by the size the first one states.
MutRootSector == IF mv.r = 0 THEN mv.to ELSE mv.to + disk[mv.to].total
RootSector == IF mv.r = 0 THEN mv.to ELSE mv.to + disk[mv.to].total - 1
Patched == [disk EXCEPT ![RootSector].base = mv.to]

\* One root done or passed over; the entry follows after the second.
RootNext == /\ mv' = [mv EXCEPT !.r = @ + 1]
            /\ IF mv.r = 0 THEN UNCHANGED <<pc, table>> ELSE ToTable

RootPatch ==
    /\ pc = "roots" /\ mv.r < 2 /\ HasRootId(RootSector)
    /\ disk' = Patched
    /\ RootNext
    /\ UNCHANGED <<saved, before, lost, open, moves, troubles>>

\* "end root may be absent - skip silently"; without a first root the rest is left.
RootAbsent ==
    /\ pc = "roots" /\ mv.r < 2 /\ ~HasRootId(RootSector)
    /\ IF mv.r = 1 THEN RootNext ELSE mv' = [mv EXCEPT !.warn = TRUE] /\ ToTable
    /\ UNCHANGED <<disk, saved, before, lost, open, moves, troubles>>

\* There is a first root, but this one cannot be read this time: `continue`.
RootUnread ==
    /\ pc = "roots" /\ mv.r < 2 /\ HasRootId(mv.to) /\ Trouble
    /\ RootNext
    /\ UNCHANGED <<disk, saved, before, lost, open, moves>>

\* Written twice in vain: a warning, and the second root is left alone if it was
\* the first.
RootFault ==
    /\ pc = "roots" /\ mv.r < 2 /\ HasRootId(RootSector) /\ Trouble
    /\ disk' \in {disk, Patched}
    /\ mv' = [mv EXCEPT !.warn = TRUE]
    /\ ToTable
    /\ UNCHANGED <<saved, before, lost, open, moves>>

---------------------------------------------------------------------------
(* RDB_Write, called by the dialog when PART_Move returned TRUE *)

\* part_phys_span
Unit(p) == (table[p].low * Scale[p]) .. ((table[p].high + 1) * Scale[p] - 1)
Sound == \A p, q \in Parts : p # q => Unit(p) \cap Unit(q) = {}

\* Written or refused: if refused, the table in memory is ahead of the one on the
\* disk, and the dialog says so.
TableWrite ==
    /\ pc = "table"
    /\ IF Sound THEN saved' = table /\ open' = lost
                ELSE UNCHANGED saved /\ open' = Parts
    /\ pc' = "idle" /\ mv' = NoMv
    /\ UNCHANGED <<disk, table, before, lost, moves, troubles>>

TableFault ==
    /\ pc = "table" /\ Sound /\ Trouble
    /\ saved' \in {saved, table}
    /\ open' = Parts
    /\ pc' = "idle" /\ mv' = NoMv
    /\ UNCHANGED <<disk, table, before, lost, moves>>

---------------------------------------------------------------------------
(* PART_Zero: heads * sectors per cylinder, whatever the block size *)

Zero(p) ==
    /\ pc = "idle" /\ moves < MaxMoves
    /\ mv' = [NoMv EXCEPT !.p = p, !.to = table[p].low * Spc[p],
                          !.count = (table[p].high - table[p].low + 1) * Spc[p]]
    /\ pc' = "zero" /\ moves' = moves + 1
    /\ lost' = lost \cup {p}
    /\ UNCHANGED <<disk, table, saved, before, open, troubles>>

Zeroed(S) == [s \in Sector |-> IF s - mv.to \in S THEN Blank ELSE disk[s]]
ZeroNow == mv.i .. (mv.i + Least(mv.count - mv.i, Chunk) - 1)

ZeroChunk ==
    /\ pc = "zero" /\ mv.i < mv.count
    /\ disk' = Zeroed(ZeroNow)
    /\ mv' = [mv EXCEPT !.i = @ + Least(mv.count - mv.i, Chunk)]
    /\ UNCHANGED <<table, saved, pc, before, lost, open, moves, troubles>>

ZeroFault ==
    /\ pc = "zero" /\ mv.i < mv.count /\ Trouble
    /\ \E S \in SUBSET ZeroNow : disk' = Zeroed(S)
    /\ pc' = "idle" /\ mv' = NoMv
    /\ UNCHANGED <<table, saved, before, lost, open, moves>>

ZeroDone ==
    /\ pc = "zero" /\ mv.i >= mv.count
    /\ pc' = "idle" /\ mv' = NoMv
    /\ UNCHANGED <<disk, table, saved, before, lost, open, moves, troubles>>

---------------------------------------------------------------------------
(* Power loss, and the next start: RDB_Read *)

\* Memory alone knew where these were: their data moved, the entry on the disk
\* did not.
Stranded(t) == lost \cup {p \in open : table[p] # t[p]}

Crash ==
    /\ pc \notin {"off", "idle"} /\ Trouble
    /\ pc' = "off" /\ mv' = NoMv
    /\ \/ pc = "copy" /\ \E S \in SUBSET ChunkNow : disk' = Copied(S)
       \/ pc = "zero" /\ \E S \in SUBSET ZeroNow : disk' = Zeroed(S)
       \/ pc = "roots" /\ disk' \in {disk, IF HasRootId(RootSector) THEN Patched ELSE disk}
       \/ pc = "table" /\ UNCHANGED disk
    /\ saved' \in IF pc = "table" /\ Sound THEN {saved, table} ELSE {saved}
    /\ lost' = Stranded(saved') \cup (IF pc \in {"copy", "roots"} THEN Broken ELSE {})
    /\ UNCHANGED <<table, before, open, moves>>

Reopen ==
    /\ pc \in {"off", "idle"}
    /\ table' = saved /\ pc' = "idle"
    /\ lost' = Stranded(saved)
    /\ UNCHANGED <<disk, saved, mv, before, open, moves, troubles>>

Advance == \/ CopyChunk \/ CopyDone \/ RootPatch \/ RootAbsent
           \/ TableWrite \/ ZeroChunk \/ ZeroDone
Faults == CopyFault \/ RootsUnread \/ RootUnread \/ RootFault \/ TableFault \/ ZeroFault

Next ==
    \/ \E p \in Parts : Zero(p) \/ \E low \in LoCyl .. HiCyl : Move(p, low)
    \/ Advance \/ Faults \/ Crash \/ Reopen

\* The loops belong to the program's one thread and run on.
Spec == Init /\ [][Next]_vars /\ WF_vars(Advance)

---------------------------------------------------------------------------
(* Properties *)

Same(v, w) == v.of = w.of /\ v.k = w.k

\* When PART_Move comes to the table, sector k of the new range holds what sector
\* k of the old range held when it was called, however the two ranges overlap and
\* whatever became of the SFS roots.
MoveFaithful ==
    [][ (pc \in {"copy", "roots"} /\ pc' = "table")
          => \A k \in 0 .. mv.count - 1 :
                Same(disk'[mv.to + k], before[mv.from + k]) ]_vars

\* The volume states more sectors than the target has, and s, which is a root too, is
\* where its end root would be.
OutsizedRoot(s) == /\ pc = "roots" /\ mv.r = 1 /\ s = RootSector /\ HasRootId(s)
                   /\ s >= mv.to + mv.count

\* Moving or zeroing a partition, failing at it, or losing power in the middle
\* never changes a sector of another partition of the table -- but for the position
\* in a root that is taken for the end root of an outsized volume.
OthersUntouched ==
    [][ \A q \in Parts \ {mv.p} : \A s \in Span(q, table) :
          \/ disk'[s] = disk[s]
          \/ OutsizedRoot(s) /\ disk'[s] = [disk[s] EXCEPT !.base = mv.to] ]_vars

\* At every moment, a power loss included, the table on the disk finds every
\* partition whole -- except those lost, and those whose overlapping move, or
\* whose table write, has not come to a good end.  In particular a move between
\* ranges that do not overlap can fail anywhere without harm.
SavedWhole ==
    \A p \in Parts \ (lost \cup open) :
        \A k \in 0 .. Count(p, saved) - 1 :
            LET v == disk[Base(p, saved[p].low) + k] IN v.of = p /\ v.k = k

\* As long as nothing fails, every root block an SFS volume still has names the
\* place the volume was moved to, wherever the volume ends within the partition.
RootsFollow ==
    [][ (pc = "roots" /\ pc' = "table" /\ troubles' = 0)
          => \A k \in {0, disk[mv.to].total - 1} \cap Nat :
                HasRootId(mv.to + k) => disk'[mv.to + k].base = mv.to ]_vars

\* A started operation comes to an end: the loops count unsigned, one of them down.
Ends == pc \in {"copy", "roots", "table", "zero"} ~> pc \in {"idle", "off"}
=============================================================================
