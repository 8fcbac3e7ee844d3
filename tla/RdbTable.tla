----------------------------- MODULE RdbTable -----------------------------
(***************************************************************************)
(* The Rigid Disk Block table of one disk (src/src/rdb.c): RDB_Read, which *)
(* walks the linked PART, FSHD and LSEG blocks into memory one block at a  *)
(* time; the edits of the in-memory table; and RDB_Write, which lays the   *)
(* table out afresh and writes it one block at a time, the RDSK header     *)
(* last, then reads it back and retires any other header in the scan       *)
(* range.                                                                  *)
(*                                                                         *)
(* The program is one thread, so the interleavings that matter are the     *)
(* points at which it can die, at which a transfer can fail, and the       *)
(* decay of the medium between two sessions: Crash, the *Fault actions,    *)
(* and Rot.  A block is written entirely or not at all.                    *)
(*                                                                         *)
(* Abstractions.  A block is a record of the fields the walk follows; ID,  *)
(* checksum and readability are one thing, since every walk treats a wrong *)
(* one as the end of the chain: a block that fails them is Junk.  A BADB   *)
(* chain is one block.  A driver's code is the sequence of its LSEG-sized  *)
(* pieces.  The fixed fields of PART and RDSK blocks are left out.         *)
(***************************************************************************)
EXTENDS Integers, Sequences, FiniteSets, SequencesExt

CONSTANTS
    LastLba,        \* the blocks modelled are 0..LastLba
    ScanLimit,      \* RDB_SCAN_LIMIT: the header is looked for in 0..ScanLimit-1
    MaxParts,       \* MAX_PARTITIONS
    MaxFs,          \* MAX_FILESYSTEMS
    MaxLseg,        \* MAX_LSEG_BLOCKS
    SeenMax,        \* CHAIN_SEEN_MAX, the size of the loop detector's window
    LoCyl, HiCyl,   \* rdb_LoCylinder, rdb_HiCylinder
    CylBlocks,      \* heads * sectors
    Drivers,        \* the file systems that can be added
    CodeLen,        \* LSEG blocks each driver's code needs
    PartChoices,    \* the partitions the user may ask for
    FreshLo,        \* rdb_block_lo of a new table: 0, or 1 below an MBR
    InitDisks,      \* [disk, expect, owed]: what the program may be given
    MaxEdits,       \* bound on the edits of a behaviour
    MaxTroubles     \* bound on the crashes, faults and decayed blocks

Lba == 0 .. LastLba
End == -1                                    \* RDB_END_MARK
Ptr == Lba \cup {End}
ReservedEnd == LoCyl * CylBlocks             \* first block of the first cylinder
Reserved == 0 .. (ReservedEnd - 1)
Scan == 0 .. (ScanLimit - 1)

Partition == [low : Nat, high : Nat, scale : Nat]
Piece == [drv : Drivers, k : Nat]
Fs == [drv : Drivers, code : Seq(Piece)]
CodeOf(d) == [k \in 1 .. CodeLen[d] |-> [drv |-> d, k |-> k]]

Zero == [id |-> "ZERO"]
Junk == [id |-> "JUNK"]
EmptyMbr == [id |-> "MBR"]
Plain == [id : {"ZERO", "JUNK", "MBR", "BADB"}]
Data == [id : {"DATA"}]                      \* blocks of partitions
Rdsk == [id : {"RDSK"}, lo : Lba, parts : Ptr, fs : Ptr, badb : Ptr]
Part == [id : {"PART"}, next : Ptr, part : Partition]
Fshd == [id : {"FSHD"}, next : Ptr, seg : Ptr, drv : Drivers]
Lseg == [id : {"LSEG"}, next : Ptr, data : Piece]
Block == Plain \cup Data \cup Rdsk \cup Part \cup Fshd \cup Lseg

ASSUME BoundsAssumption ==
    /\ LastLba \in Nat /\ ScanLimit \in Nat /\ ScanLimit <= LastLba + 1
    /\ MaxParts \in Nat /\ MaxFs \in Nat /\ MaxLseg \in Nat /\ SeenMax \in Nat
    /\ MaxEdits \in Nat /\ MaxTroubles \in Nat
ASSUME GeometryAssumption ==
    /\ LoCyl \in Nat /\ HiCyl \in Nat /\ CylBlocks \in Nat
    /\ 0 < ReservedEnd /\ ReservedEnd <= LastLba + 1
ASSUME ChoiceAssumption ==
    /\ CodeLen \in [Drivers -> Nat]
    /\ PartChoices \subseteq Partition
    /\ FreshLo \subseteq Scan \cap Reserved
\* What a disk may hold at the start: partitions' data exactly behind the
\* reserved area.
ASSUME InitDisksAssumption ==
    \A d \in InitDisks :
        /\ d.disk \in [Lba -> Block]
        /\ \A l \in Lba : (d.disk[l] \in Data) <=> (l \notin Reserved)

VARIABLES
    disk,       \* the medium, block by block
    mem,        \* struct RDBInfo
    pc,         \* where the program is
    rd,         \* RDB_Read's loop variables
    wr,         \* RDB_Write's buffer and loop variables
    fail,       \* bd->last_write_fail, read when RDB_Write returns FALSE and
                \* by nobody later: "none" again with the next edit
    expect,     \* history: the tables a clean load may return, and whether
                \* one of them was written to the end; no tables = unknown
    owed,       \* history: the entries that were on the disk and are wanted
    gone,       \* history: the entries this session gave up knowingly
    edits, troubles

vars == <<disk, mem, pc, rd, wr, fail, expect, owed, gone, edits, troubles>>
history == <<expect, owed, gone>>

Reading == {"find", "parts", "fs", "lseg"}
Writing == {"write", "verify", "retire"}

Unknown == [tables |-> {}, sure |-> FALSE]
NoMem == [valid |-> FALSE, at |-> 0, lo |-> 0, badb |-> End,
          parts |-> << >>, fs |-> << >>, trunc |-> FALSE, ack |-> FALSE]
NoRd == [next |-> End, fl |-> End, seg |-> End,
         seen |-> {}, segSeen |-> {}, clean |-> TRUE]
NoWr == [img |-> << >>, todo |-> {}, before |-> Unknown, spoilt |-> FALSE]

TableOf(m) == [valid |-> m.valid, parts |-> ToSet(m.parts), fs |-> m.fs]
Entries(m) == ToSet(m.parts) \cup {m.fs[i].drv : i \in DOMAIN m.fs}

RDBInfo == [valid : BOOLEAN, at : Lba, lo : Lba, badb : Ptr,
            parts : Seq(Partition), fs : Seq(Fs), trunc : BOOLEAN, ack : BOOLEAN]
Walk == [next : Ptr \cup {ScanLimit}, fl : Ptr, seg : Ptr,
         seen : SUBSET Lba, segSeen : SUBSET Lba, clean : BOOLEAN]

TypeOK ==
    /\ disk \in [Lba -> Block]
    /\ mem \in RDBInfo
    /\ pc \in {"off", "idle"} \cup Reading \cup Writing
    /\ rd \in Walk
    /\ pc = "find" => rd.next \in 0 .. ScanLimit
    /\ wr.todo \in SUBSET Lba /\ wr.spoilt \in BOOLEAN
    /\ fail \in {"none", "invalid", "counts", "trunc", "range", "overlap",
                 "overflow", "nomem", "io"}
    /\ edits \in 0 .. MaxEdits /\ troubles \in 0 .. MaxTroubles

Init ==
    /\ \E d \in InitDisks : /\ disk = d.disk
                            /\ expect = d.expect
                            /\ owed = d.owed
    /\ mem = NoMem /\ pc = "off" /\ rd = NoRd /\ wr = NoWr /\ fail = "none"
    /\ gone = {} /\ edits = 0 /\ troubles = 0

Trouble == /\ troubles < MaxTroubles
           /\ troubles' = troubles + 1

---------------------------------------------------------------------------
(* RDB_Read.  Here and below, a definition whose name starts with Mut is a    *)
(* deliberately wrong variant of the one after it: it is used nowhere, and   *)
(* serves to show that a property fails when the code goes wrong that way.  *)

\* memset of *rdb, and the scan starts at block 0.
Open ==
    /\ pc = "off"
    /\ pc' = "find"
    /\ mem' = NoMem
    /\ rd' = [NoRd EXCEPT !.next = 0]
    /\ UNCHANGED <<disk, wr, fail, history, edits, troubles>>

\* The first RDSK of the scan range is the header.
FindHeader ==
    LET b == disk[rd.next] IN
    /\ pc = "find" /\ rd.next \in Scan
    /\ b.id = "RDSK"
    /\ mem' = [mem EXCEPT !.valid = TRUE, !.at = rd.next, !.lo = b.lo,
                          !.badb = IF b.badb = 0 THEN End ELSE b.badb]
    /\ rd' = [rd EXCEPT !.next = b.parts, !.fl = b.fs]
    /\ pc' = "parts"
    /\ UNCHANGED <<disk, wr, fail, history, edits, troubles>>

\* The scan loop runs one block too far.
MutFindSkip ==
    /\ pc = "find" /\ rd.next \in 0 .. ScanLimit
    /\ disk[rd.next].id # "RDSK"
    /\ rd' = [rd EXCEPT !.next = @ + 1]
    /\ UNCHANGED <<disk, mem, pc, wr, fail, history, edits, troubles>>

FindSkip ==
    /\ pc = "find" /\ rd.next \in Scan
    /\ disk[rd.next].id # "RDSK"
    /\ rd' = [rd EXCEPT !.next = @ + 1]
    /\ UNCHANGED <<disk, mem, pc, wr, fail, history, edits, troubles>>

\* A block of the scan range that cannot be read now is passed over.
FindFault ==
    /\ pc = "find" /\ rd.next \in Scan
    /\ Trouble
    /\ rd' = [rd EXCEPT !.next = @ + 1, !.clean = FALSE]
    /\ UNCHANGED <<disk, mem, pc, wr, fail, history, edits>>

ReadDone == pc' = "idle" /\ rd' = [NoRd EXCEPT !.clean = rd.clean]

FindNone ==
    /\ pc = "find" /\ rd.next = ScanLimit
    /\ ReadDone
    /\ UNCHANGED <<disk, mem, wr, fail, history, edits, troubles>>

\* chain_seen: remembers blocks only while its window has room.
Remember(seen, l) == IF Cardinality(seen) < SeenMax THEN seen \cup {l} ELSE seen

\* RDB_TRUNC_SANITY and RDB_TRUNC_LOOP.
Implausible(l) == l = 0 \/ l = mem.at \/ l \in rd.seen

\* The list walk leaves the PART chain for the FSHD chain.
ToFsChain == rd' = [rd EXCEPT !.next = rd.fl, !.seen = {}] /\ pc' = "fs"

PartMore == pc = "parts" /\ rd.next # End /\ Len(mem.parts) < MaxParts

PartEnd ==
    /\ pc = "parts" /\ ~PartMore
    /\ ToFsChain
    /\ UNCHANGED <<disk, mem, wr, fail, history, edits, troubles>>

\* A broken chain is taken for the end of the chain.
MutPartBreak ==
    /\ PartMore
    /\ Implausible(rd.next) \/ disk[rd.next].id # "PART"
    /\ ToFsChain
    /\ UNCHANGED <<disk, mem, wr, fail, history, edits, troubles>>

\* RDB_TRUNC: the walk stops at the first block it cannot use.
PartBreak ==
    /\ PartMore
    /\ Implausible(rd.next) \/ disk[rd.next].id # "PART"
    /\ mem' = [mem EXCEPT !.trunc = TRUE]
    /\ ToFsChain
    /\ UNCHANGED <<disk, wr, fail, history, edits, troubles>>

PartFault ==
    /\ PartMore /\ ~Implausible(rd.next) /\ Trouble
    /\ mem' = [mem EXCEPT !.trunc = TRUE]
    /\ pc' = "fs"
    /\ rd' = [rd EXCEPT !.next = rd.fl, !.seen = {}, !.clean = FALSE]
    /\ UNCHANGED <<disk, wr, fail, history, edits>>

\* The entries end up in a stable order by low_cyl: the insertion sort that
\* follows the walk takes them in chain order.
InsertSorted(s, p) ==
    InsertAt(s, 1 + Cardinality({i \in DOMAIN s : s[i].low <= p.low}), p)

PartTake ==
    LET b == disk[rd.next] IN
    /\ PartMore /\ ~Implausible(rd.next) /\ b.id = "PART"
    /\ mem' = [mem EXCEPT !.parts = InsertSorted(@, b.part)]
    /\ rd' = [rd EXCEPT !.next = b.next, !.seen = Remember(@, rd.next)]
    /\ UNCHANGED <<disk, pc, wr, fail, history, edits, troubles>>

FsMore == pc = "fs" /\ rd.next # End /\ Len(mem.fs) < MaxFs

FsEnd ==
    /\ pc = "fs" /\ ~FsMore
    /\ ReadDone
    /\ UNCHANGED <<disk, mem, wr, fail, history, edits, troubles>>

FsBreak ==
    /\ FsMore
    /\ Implausible(rd.next) \/ disk[rd.next].id # "FSHD"
    /\ mem' = [mem EXCEPT !.trunc = TRUE]
    /\ ReadDone
    /\ UNCHANGED <<disk, wr, fail, history, edits, troubles>>

FsFault ==
    /\ FsMore /\ ~Implausible(rd.next) /\ Trouble
    /\ mem' = [mem EXCEPT !.trunc = TRUE]
    /\ pc' = "idle" /\ rd' = [NoRd EXCEPT !.clean = FALSE]
    /\ UNCHANGED <<disk, wr, fail, history, edits>>

FsTake ==
    LET b == disk[rd.next] IN
    /\ FsMore /\ ~Implausible(rd.next) /\ b.id = "FSHD"
    /\ mem' = [mem EXCEPT !.fs = Append(@, [drv |-> b.drv, code |-> << >>])]
    /\ rd' = [rd EXCEPT !.next = b.next, !.seen = Remember(@, rd.next),
                        !.seg = b.seg, !.segSeen = {}]
    /\ pc' = "lseg"
    /\ UNCHANGED <<disk, wr, fail, history, edits, troubles>>

\* The entry whose code is being read is the last one.
LastFs == Len(mem.fs)
SegMore ==
    /\ pc = "lseg"
    /\ rd.seg # End /\ Len(mem.fs[LastFs].code) < MaxLseg
    /\ rd.seg # 0 /\ rd.seg \notin rd.segSeen /\ disk[rd.seg].id = "LSEG"

\* The counting pass stops here, for whichever reason, and the copying pass
\* takes exactly the blocks counted: the entry keeps the code up to here and
\* nothing is noted of a break.
SegEnd ==
    /\ pc = "lseg" /\ ~SegMore
    /\ pc' = "fs"
    /\ UNCHANGED <<disk, mem, rd, wr, fail, history, edits, troubles>>

\* A read error in the counting pass ends the code early; in the copying pass,
\* like a failed AllocVec, it drops the code of the entry altogether.
SegFault ==
    /\ pc = "lseg" /\ rd.seg # End /\ Trouble
    /\ pc' = "fs"
    /\ rd' = [rd EXCEPT !.clean = FALSE]
    /\ \/ UNCHANGED mem
       \/ mem' = [mem EXCEPT !.fs[LastFs].code = << >>]
    /\ UNCHANGED <<disk, wr, fail, history, edits>>

\* The counting pass does not count, so only the loop detector can stop it.
MutSegTake ==
    /\ SegMore
    /\ rd' = [rd EXCEPT !.seg = disk[rd.seg].next, !.segSeen = Remember(@, rd.seg)]
    /\ UNCHANGED <<disk, mem, pc, wr, fail, history, edits, troubles>>

SegTake ==
    LET b == disk[rd.seg] IN
    /\ SegMore
    /\ mem' = [mem EXCEPT !.fs[LastFs].code = Append(@, b.data)]
    /\ rd' = [rd EXCEPT !.seg = b.next, !.segSeen = Remember(@, rd.seg)]
    /\ UNCHANGED <<disk, pc, wr, fail, history, edits, troubles>>

Load == \/ FindHeader \/ FindSkip \/ FindNone
        \/ PartEnd \/ PartBreak \/ PartTake
        \/ FsEnd \/ FsBreak \/ FsTake
        \/ SegEnd \/ SegTake

LoadFault == FindFault \/ PartFault \/ FsFault \/ SegFault

---------------------------------------------------------------------------
(* The table in memory *)

Edit == /\ pc = "idle" /\ edits < MaxEdits
        /\ edits' = edits + 1
        /\ fail' = "none"
        /\ UNCHANGED <<disk, pc, rd, wr, expect, owed, troubles>>

AddPart(p) ==
    /\ Edit /\ mem.valid /\ Len(mem.parts) < MaxParts
    /\ mem' = [mem EXCEPT !.parts = Append(@, p)]
    /\ UNCHANGED gone

\* Resizing or moving a partition replaces its entry.
SetPart(i, p) ==
    /\ Edit /\ mem.valid
    /\ mem' = [mem EXCEPT !.parts[i] = p]
    /\ gone' = gone \cup {mem.parts[i]}

DelPart(i) ==
    /\ Edit /\ mem.valid
    /\ mem' = [mem EXCEPT !.parts = RemoveAt(@, i)]
    /\ gone' = gone \cup {mem.parts[i]}

AddFs(d) ==
    /\ Edit /\ mem.valid /\ Len(mem.fs) < MaxFs
    /\ mem' = [mem EXCEPT !.fs = Append(@, [drv |-> d, code |-> CodeOf(d)])]
    /\ UNCHANGED gone

DelFs(i) ==
    /\ Edit /\ mem.valid
    /\ mem' = [mem EXCEPT !.fs = RemoveAt(@, i)]
    /\ gone' = gone \cup {mem.fs[i].drv}

\* RDB_InitFresh: everything the disk held is given up.  Below an MBR the table
\* starts at block 1, and dialog and script put an empty MBR into block 0 right
\* away, not with the next RDB_Write; the command line does that afterwards.
InitFresh(lo) ==
    /\ pc = "idle" /\ edits < MaxEdits
    /\ edits' = edits + 1 /\ fail' = "none"
    /\ mem' = [NoMem EXCEPT !.valid = TRUE, !.at = lo, !.lo = lo]
    /\ gone' = owed
    /\ \/ UNCHANGED <<disk, expect>>
       \/ lo > 0 /\ disk' = [disk EXCEPT ![0] = EmptyMbr] /\ expect' = Unknown
    /\ UNCHANGED <<pc, rd, wr, owed, troubles>>

\* The user is told of the damaged chain and lets writes drop what is missing.
Acknowledge ==
    /\ pc = "idle" /\ mem.valid /\ mem.trunc /\ ~mem.ack
    /\ mem' = [mem EXCEPT !.ack = TRUE]
    /\ gone' = owed
    /\ UNCHANGED <<disk, pc, rd, wr, fail, expect, owed, edits, troubles>>

\* The disk is closed, or the program dies while nothing is being written:
\* memory is lost and the disk is as it was.
Close ==
    /\ pc \in Reading \cup {"idle"}
    /\ pc' = "off" /\ mem' = NoMem /\ rd' = NoRd /\ fail' = "none"
    /\ gone' = {}
    /\ UNCHANGED <<disk, wr, expect, owed, edits, troubles>>

---------------------------------------------------------------------------
(* RDB_Write *)

\* part_phys_span: a partition with blocks of scale * 512 bytes covers scale
\* times its cylinders.
SpanLo(p) == p.low * p.scale
SpanHi(p) == (p.high + 1) * p.scale - 1
Overlap(p, q) == SpanLo(p) <= SpanHi(q) /\ SpanLo(q) <= SpanHi(p)

OutOfRange(p) ==
    \/ p.low > p.high
    \/ LoCyl > 0 /\ p.low < LoCyl
    \/ HiCyl > 0 /\ p.high > HiCyl

AnyOverlap(ps) == \E i, j \in DOMAIN ps : i < j /\ Overlap(ps[i], ps[j])

\* The layout: RDSK, then the PART, FSHD and LSEG blocks, back to back.
PartBase(m) == m.lo + 1
FsBase(m) == PartBase(m) + Len(m.parts)
SegBase(m, i) == FsBase(m) + Len(m.fs)
                   + MapThenSumSet(LAMBDA j : Len(m.fs[j].code), 1 .. (i - 1))

PartLbas(m) == PartBase(m) .. (FsBase(m) - 1)
PartBlock(m, l) ==
    [id |-> "PART",
     next |-> IF l + 1 \in PartLbas(m) THEN l + 1 ELSE End,
     part |-> m.parts[l - m.lo]]

\* fill_lseg_chain for every driver with code: <<i, k>> is block k of driver i.
Pieces(m) == UNION {{<<i, k>> : k \in DOMAIN m.fs[i].code} : i \in DOMAIN m.fs}
PieceLba(m, p) == SegBase(m, p[1]) + p[2] - 1
SegLbas(m) == {PieceLba(m, p) : p \in Pieces(m)}
SegBlock(m, l) ==
    LET p == CHOOSE q \in Pieces(m) : PieceLba(m, q) = l
        r == <<p[1], p[2] + 1>>
    IN [id |-> "LSEG",
        next |-> IF r \in Pieces(m) THEN PieceLba(m, r) ELSE End,
        data |-> m.fs[p[1]].code[p[2]]]

FsLbas(m) == FsBase(m) .. (FsBase(m) + Len(m.fs) - 1)
FsBlock(m, l) ==
    LET i == l - FsBase(m) + 1 IN
    [id |-> "FSHD",
     next |-> IF l + 1 \in FsLbas(m) THEN l + 1 ELSE End,
     seg |-> IF m.fs[i].code = << >> THEN End ELSE PieceLba(m, <<i, 1>>),
     drv |-> m.fs[i].drv]

Layout(m) == {m.lo} \cup PartLbas(m) \cup FsLbas(m) \cup SegLbas(m)

MutKeptBadb(m) == m.badb

\* A BADB chain stays listed unless the layout covers its head.
KeptBadb(m) == IF m.badb \in Layout(m) THEN End ELSE m.badb

Header(m) ==
    [id |-> "RDSK", lo |-> m.lo, badb |-> KeptBadb(m),
     parts |-> IF m.parts = << >> THEN End ELSE PartBase(m),
     fs |-> IF m.fs = << >> THEN End ELSE FsBase(m)]

Image(m) ==
    [l \in Layout(m) |-> IF l = m.lo THEN Header(m)
                         ELSE IF l \in PartLbas(m) THEN PartBlock(m, l)
                         ELSE IF l \in FsLbas(m) THEN FsBlock(m, l)
                         ELSE SegBlock(m, l)]

\* The last block used is compared as if it were a count of blocks.
MutOverflows(m) == LoCyl > 0 /\ ~(Layout(m) \subseteq 0 .. ReservedEnd)

\* The layout does not fit in front of the first cylinder.
Overflows(m) == LoCyl > 0 /\ ~(Layout(m) \subseteq Reserved)

\* What makes RDB_Write refuse, and the order in which it is checked.
Grounds(m) ==
    [invalid  |-> ~m.valid,
     counts   |-> Len(m.parts) > MaxParts \/ Len(m.fs) > MaxFs,
     trunc    |-> m.trunc /\ ~m.ack,
     range    |-> \E i \in DOMAIN m.parts : OutOfRange(m.parts[i]),
     overlap  |-> AnyOverlap(m.parts),
     overflow |-> Overflows(m)]
Checks == <<"invalid", "counts", "trunc", "range", "overlap", "overflow">>

RefuseWrite ==
    /\ pc = "idle"
    /\ \E i \in DOMAIN Checks :
         /\ Grounds(mem)[Checks[i]]
         /\ \A j \in 1 .. (i - 1) : ~Grounds(mem)[Checks[j]]
         /\ fail' = Checks[i]
    /\ UNCHANGED <<disk, mem, pc, rd, wr, history, edits, troubles>>

Sound == \A i \in DOMAIN Checks : ~Grounds(mem)[Checks[i]]

\* The whole image is built in memory first, and the table in memory is
\* brought in step with it.  From here on a FALSE is a device error.
BeginWrite ==
    /\ pc = "idle" /\ Sound
    /\ wr' = [img |-> Image(mem), todo |-> Layout(mem) \ {mem.lo},
              before |-> expect, spoilt |-> FALSE]
    /\ mem' = [mem EXCEPT !.at = mem.lo, !.badb = KeptBadb(mem)]
    /\ pc' = "write" /\ fail' = "io"
    /\ expect' = Unknown /\ owed' = {} /\ gone' = {}
    /\ UNCHANGED <<disk, rd, edits, troubles>>

WriteNoMem ==
    /\ pc = "idle" /\ Sound /\ Trouble
    /\ fail' = "nomem"
    /\ UNCHANGED <<disk, mem, pc, rd, wr, history, edits>>

\* Slot 0 goes first, as the order of the slots suggests.
MutNextSlot(l) == IF disk[mem.lo] # wr.img[mem.lo] \/ wr.todo = {} THEN l = mem.lo
                  ELSE l \in wr.todo /\ \A k \in wr.todo : l <= k

\* Slots 1, 2, .. are written in order and slot 0, the header, last.
NextSlot(l) == IF wr.todo = {} THEN l = mem.lo
               ELSE l \in wr.todo /\ \A k \in wr.todo : l <= k

Written(l) == /\ wr' = [wr EXCEPT !.todo = @ \ {l}]
              /\ pc' = IF wr.todo = {} THEN "verify" ELSE "write"

\* RDB_Write returns FALSE.
WriteFailed == pc' = "idle" /\ wr' = NoWr

WriteBlock(l) ==
    /\ pc = "write" /\ NextSlot(l)
    /\ disk' = [disk EXCEPT ![l] = wr.img[l]]
    /\ Written(l)
    /\ UNCHANGED <<mem, rd, fail, history, edits, troubles>>

\* The transfer fails; the block holds either version.
WriteFault(l) ==
    /\ pc = "write" /\ NextSlot(l) /\ Trouble
    /\ \/ UNCHANGED disk
       \/ disk' = [disk EXCEPT ![l] = wr.img[l]]
    /\ WriteFailed
    /\ UNCHANGED <<mem, rd, fail, history, edits>>

\* The driver reports success and stores something else (the A3000 DMA shift
\* the read-back is there for).
WriteSpoilt(l) ==
    /\ pc = "write" /\ NextSlot(l) /\ Trouble
    /\ disk' = [disk EXCEPT ![l] = Junk]
    /\ pc' = IF wr.todo = {} THEN "verify" ELSE "write"
    /\ wr' = [wr EXCEPT !.todo = @ \ {l}, !.spoilt = TRUE]
    /\ UNCHANGED <<mem, rd, fail, history, edits>>

\* Read back and compare every block, then look for other headers.
ToRetire == pc' = "retire" /\ wr' = [wr EXCEPT !.todo = Scan \ {mem.lo}]

VerifyOk ==
    /\ pc = "verify"
    /\ \A l \in DOMAIN wr.img : disk[l] = wr.img[l]
    /\ ToRetire
    /\ UNCHANGED <<disk, mem, rd, fail, history, edits, troubles>>

VerifyMismatch ==
    /\ pc = "verify"
    /\ \E l \in DOMAIN wr.img : disk[l] # wr.img[l]
    /\ WriteFailed
    /\ UNCHANGED <<disk, mem, rd, fail, history, edits, troubles>>

VerifyFault ==
    /\ pc = "verify" /\ Trouble
    /\ WriteFailed
    /\ UNCHANGED <<disk, mem, rd, fail, history, edits>>

\* No memory for the read-back buffer: the write counts as verified.
VerifySkipped ==
    /\ pc = "verify" /\ Trouble
    /\ ToRetire
    /\ UNCHANGED <<disk, mem, rd, fail, history, edits>>

\* Any other RDSK in the scan range is zeroed; failing to is not an error, and
\* without memory for the block the search is given up.
RetireNext(l) == pc = "retire" /\ l \in wr.todo /\ \A k \in wr.todo : l <= k

\* Only headers above the new one are retired.
MutRetireBlock(l) ==
    /\ RetireNext(l)
    /\ disk' = IF l > mem.lo /\ disk[l].id = "RDSK" THEN [disk EXCEPT ![l] = Zero]
               ELSE disk
    /\ wr' = [wr EXCEPT !.todo = @ \ {l}]
    /\ UNCHANGED <<mem, pc, rd, fail, history, edits, troubles>>

RetireBlock(l) ==
    /\ RetireNext(l)
    /\ disk' = IF disk[l].id = "RDSK" THEN [disk EXCEPT ![l] = Zero] ELSE disk
    /\ wr' = [wr EXCEPT !.todo = @ \ {l}]
    /\ UNCHANGED <<mem, pc, rd, fail, history, edits, troubles>>

RetireFault(l) ==
    /\ RetireNext(l) /\ disk[l].id = "RDSK" /\ Trouble
    /\ \E rest \in {wr.todo \ {l}, {}} : wr' = [wr EXCEPT !.todo = rest, !.spoilt = TRUE]
    /\ UNCHANGED <<disk, mem, pc, rd, fail, history, edits>>

\* RDB_Write returns TRUE.
WriteDone ==
    /\ pc = "retire" /\ wr.todo = {}
    /\ pc' = "idle" /\ wr' = NoWr
    /\ expect' = IF wr.spoilt THEN Unknown
                 ELSE [tables |-> {TableOf(mem)}, sure |-> TRUE]
    /\ owed' = IF wr.spoilt THEN {} ELSE Entries(mem)
    /\ UNCHANGED <<disk, mem, rd, fail, gone, edits, troubles>>

WriteFaults == \/ WriteNoMem \/ VerifyFault \/ VerifySkipped
               \/ \E l \in Lba : WriteFault(l) \/ WriteSpoilt(l) \/ RetireFault(l)

Save == \/ VerifyOk \/ VerifyMismatch \/ WriteDone
        \/ \E l \in Lba : WriteBlock(l) \/ RetireBlock(l)

---------------------------------------------------------------------------
(* The world outside *)

\* Power loss or a crash during RDB_Write.  In the middle of the write the
\* disk should hold the old table or the new one.
Crash ==
    /\ pc \in Writing /\ Trouble
    /\ pc' = "off" /\ mem' = NoMem /\ rd' = NoRd /\ wr' = NoWr /\ fail' = "none"
    /\ expect' = IF pc = "write" /\ wr.before # Unknown /\ ~wr.spoilt
                 THEN [tables |-> wr.before.tables \cup {TableOf(mem)}, sure |-> FALSE]
                 ELSE expect
    /\ gone' = {}
    /\ UNCHANGED <<disk, owed, edits>>

\* A block of the reserved area decays while the program is not running.
Rot(l) ==
    /\ pc = "off" /\ Trouble
    /\ disk[l] \notin Data /\ disk[l] # Junk
    /\ disk' = [disk EXCEPT ![l] = Junk]
    /\ expect' = Unknown
    /\ UNCHANGED <<mem, pc, rd, wr, fail, owed, gone, edits>>

Next ==
    \/ Open \/ Load \/ LoadFault
    \/ \E p \in PartChoices : \/ AddPart(p)
                              \/ \E i \in DOMAIN mem.parts : SetPart(i, p)
    \/ \E i \in DOMAIN mem.parts : DelPart(i)
    \/ \E d \in Drivers : AddFs(d)
    \/ \E i \in DOMAIN mem.fs : DelFs(i)
    \/ \E lo \in FreshLo : InitFresh(lo)
    \/ Acknowledge \/ Close
    \/ RefuseWrite \/ BeginWrite \/ Save \/ WriteFaults
    \/ Crash
    \/ \E l \in Lba : Rot(l)

\* RDB_Read and RDB_Write are loops of the one thread: they run on.
Spec == Init /\ [][Next]_vars /\ WF_vars(Load) /\ WF_vars(Save)

---------------------------------------------------------------------------
(* Properties *)

\* A table that RDB_Write reported as written is the table the next RDB_Read
\* returns: same partitions, same drivers with all their code, no damage
\* noted.  This ties the layout, the chain pointers, the walk limits and the
\* retiring of older headers together.
LoadMatches ==
    [][ (pc \in Reading /\ pc' = "idle" /\ rd'.clean /\ expect.sure)
          => TableOf(mem') \in expect.tables /\ ~mem'.trunc ]_vars

\* What the disk held and the user did not give up is in every table RDB_Write
\* starts to write: an entry hidden behind a damaged chain block is never
\* dropped without the acknowledgement (rdb.h, "Chain damage").
NoSilentLoss ==
    [][ (pc = "idle" /\ pc' = "write") => owed \ gone \subseteq Entries(mem) ]_vars

\* No step of the program changes a block of a partition's data: neither the
\* layout, nor a stale rdb_block_lo, nor the retiring of headers reaches
\* behind the reserved area.
PartitionDataUntouched ==
    [][ \A l \in Lba : disk[l] \in Data => disk'[l] = disk[l] ]_vars

\* A header that changes on the disk never points at half-written blocks: when
\* RDB_Write puts an RDSK down, every block of its layout is in place (the
\* ORDER comment of RDB_Write), unless the device lied about a transfer.
HeaderLast ==
    [][ \A l \in Lba : (disk'[l] # disk[l] /\ disk'[l].id = "RDSK" /\ ~wr.spoilt)
          => \A k \in DOMAIN wr.img : disk'[k] = wr.img[k] ]_vars

\* As long as nothing fails, the header's bad block list leads to the bad block
\* list: a layout that grows over it drops the pointer in the same write.
BadbSpared ==
    troubles = 0 /\ pc = "idle" /\ mem.valid /\ disk[mem.at].id = "RDSK"
      => LET b == disk[mem.at].badb IN b = End \/ disk[b].id = "BADB"

\* Whatever the chains on the disk look like, loops included, RDB_Read ends.
ReadEnds == (pc \in Reading) ~> (pc \notin Reading)

===========================================================================
