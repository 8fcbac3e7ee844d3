------------------------------- MODULE Editor -------------------------------
(***************************************************************************)
(* The partition editor's window (partview.c): one event loop over a disk, *)
(* the copy of its table in memory and a dirty mark.  Mouse drags edit the *)
(* copy in place while the button is held; dialogs edit it; some dialogs   *)
(* resize or move a file system and write the table at once; Write settles *)
(* the formats and the unmounts the edits have asked for.  Which file      *)
(* system a partition has only decides which outcomes an offer can have,   *)
(* so an offer has them all.                                                *)
(***************************************************************************)
EXTENDS Integers, SequencesExt, FiniteSetsExt

CONSTANTS Names,     \* drive names
          TopCyl,    \* last cylinder of the disk
          Slots,     \* extents an MBR partition can have
          MaxParts,  \* MAX_PARTITIONS
          MaxDrivers,\* MAX_FILESYSTEMS
          Starts,    \* what the disk may hold at the beginning
          Images,    \* what a disk image may hold
          Backups,   \* the tables of the backup files
          NoTable,   \* a disk without a table
          NoMbr,     \* a disk without an MBR
          MaxEvents

Cyls == 0..TopCyl
\* A header that is older than its lists may state fewer cylinders than they use; the
\* end of an entry can then come to lie before its beginning (DialogEnds).
Parts == [name : Names, lo : Nat, hi : Int, want : BOOLEAN, adv : BOOLEAN]
Records == [home : 0..1, lo : Nat, hi : Nat, drivers : 0..MaxDrivers, parts : Seq(Parts)]
Tables == Records \cup {NoTable}
Disks == [t : [0..1 -> Tables], mbr : {NoMbr} \cup SUBSET Slots]

\* No format is asked for.
Unmarked(t) == t # NoTable => \A i \in DOMAIN t.parts : ~t.parts[i].want

ASSUME EditorAssumption ==
    /\ {TopCyl, MaxParts, MaxDrivers, MaxEvents} \subseteq Nat
    /\ Slots \subseteq [lo : Cyls, hi : Cyls] /\ NoTable \notin Records
    /\ \A b \in Backups : b \in Records /\ Unmarked(b)
    /\ \A s \in Starts \cup Images : /\ s \in Disks /\ (s.t[0] # NoTable => s.mbr = NoMbr)
                                     /\ \A h \in 0..1 : Unmarked(s.t[h])

VARIABLES phase,  \* "start", "edit", and how the window was left
          disk,   \* the table with its header in block 0 or 1, the MBR partitions
          ed,     \* the window: rdb, s_mbr, dirty, needs_reboot, the deleted names, the drag
          n,      \* events handled
          ghost   \* what the user has agreed to, and where the copy goes astray

vars == <<phase, disk, ed, n, ghost>>

NoDrag == [kind |-> "none", i |-> 0, lo |-> 0, hi |-> 0, min |-> 0, max |-> 0]
Drag(kind, i, lo, hi, min, max) ==
    [kind |-> kind, i |-> i, lo |-> lo, hi |-> hi, min |-> min, max |-> max]

Span(p) == p.lo..p.hi
Ext(p) == <<p.name, p.lo, p.hi>>
PartsOf(t) == IF t = NoTable THEN {} ELSE Range(t.parts)
Exts(t) == {Ext(p) : p \in PartsOf(t)}
AllExts(dk) == Exts(dk.t[0]) \cup Exts(dk.t[1])
At(t, i, lo, hi) == [t EXCEPT !.parts[i].lo = lo, !.parts[i].hi = hi]

\* RDB_Read scans upwards; MBR_Read finds nothing where a table begins in block 0.
Read(dk) == IF dk.t[0] # NoTable THEN dk.t[0] ELSE dk.t[1]
ReadMbr(dk) == IF dk.t[0] # NoTable THEN NoMbr ELSE dk.mbr

\* What the disk keeps of a table.
Plain(t) == IF t = NoTable THEN t
            ELSE [t EXCEPT !.parts = [i \in DOMAIN @ |-> [@[i] EXCEPT !.want = FALSE]]]

\* A header in block 0 replaces the MBR; a header elsewhere is retired.
After(dk, t) ==
    [t |-> [h \in 0..1 |-> IF h = t.home THEN Plain(t) ELSE NoTable],
     mbr |-> IF t.home = 0 THEN NoMbr ELSE dk.mbr]

\* Retiring the header in block 0 fails unnoticed: its chain is overwritten.
Cut(t) == IF t = NoTable THEN t ELSE [t EXCEPT !.parts = <<>>, !.drivers = 0]
Unretired(dk, t) == IF t.home = 1 /\ dk.t[0] # NoTable
                    THEN {[After(dk, t) EXCEPT !.t[0] = Cut(dk.t[0])]} ELSE {}

\* The header is written last: one that stands there leads to the first k new
\* entries and on to the old ones behind them.
Mixed(old, new, k) ==
    [old EXCEPT !.parts = IF @ = <<>> THEN @
                          ELSE SubSeq(new, 1, k) \o IF k = Len(new) THEN <<>>
                                                    ELSE SubSeq(@, k + 1, Len(@))]
Torn(dk, t) ==
    IF dk.t[t.home] = NoTable THEN {[dk EXCEPT !.t[1 - t.home] = Cut(@)]}
    ELSE {[dk EXCEPT !.t[t.home] = Mixed(@, Plain(t).parts, k), !.t[1 - t.home] = Cut(@)] :
            k \in 1..Len(t.parts)}

\* RDB_Write: refused before it writes, or for want of room below lo, or done,
\* or failed at the first block, half way or when it reads back what it wrote.
Sound(t) == /\ \A p \in PartsOf(t) : t.lo <= p.lo /\ p.lo <= p.hi /\ p.hi <= t.hi
            /\ \A i, j \in DOMAIN t.parts :
                 i # j => Span(t.parts[i]) \cap Span(t.parts[j]) = {}
Need(t) == 1 + t.drivers
Outcome(dk, why) == [disk |-> dk, why |-> why, ok |-> why = "ok"]
Written(dk, t) ==
    IF t = NoTable THEN {Outcome(dk, "refused")}
    ELSE IF ~Sound(t) THEN {Outcome(dk, "refused")}
    ELSE IF Need(t) > t.lo THEN {Outcome(dk, "overflow")}
    ELSE {Outcome(d, "ok") : d \in {After(dk, t)} \cup Unretired(dk, t)}
           \cup {Outcome(d, "error") : d \in {dk, After(dk, t)} \cup Torn(dk, t)}

-----------------------------------------------------------------------------
TypeOK ==
    /\ phase \in {"start", "edit", "closed", "wrote", "reboot"}
    /\ disk \in Disks
    /\ disk.t[0] # NoTable => disk.mbr = NoMbr
    /\ ed \in [rdb : Tables, mbr : {NoMbr} \cup SUBSET Slots, dirty : BOOLEAN, reboot : BOOLEAN,
               unmount : SUBSET Names,
               drag : [kind : {"none", "resize", "move", "new"}, i : Nat, lo : Nat, hi : Int,
                       min : Nat, max : Int]]
    /\ n \in 0..MaxEvents

\* The copy is taken when the window opens.
Loaded(e, dk) == [e EXCEPT !.rdb = Read(dk), !.mbr = ReadMbr(dk)]

Init == /\ phase = "start"
        /\ disk \in Starts
        /\ ed = [rdb |-> NoTable, mbr |-> NoMbr, dirty |-> FALSE, reboot |-> FALSE,
                 unmount |-> {}, drag |-> NoDrag]
        /\ n = 0
        /\ ghost = [accepted |-> {}, owed |-> {}, formatted |-> {}, loose |-> FALSE,
                    split |-> FALSE]

Start == /\ phase = "start"
         /\ phase' = "edit"
         /\ ed' = Loaded(ed, disk)
         /\ ghost' = [ghost EXCEPT !.accepted = AllExts(disk)]
         /\ UNCHANGED <<disk, n>>

-----------------------------------------------------------------------------
(* One event *)

Event == phase = "edit" /\ n < MaxEvents /\ n' = n + 1
Idle == Event /\ ed.drag = NoDrag /\ UNCHANGED phase
HasTable == ed.rdb # NoTable
Indices == IF HasTable THEN DOMAIN ed.rdb.parts ELSE {}

\* What the user agrees to in this event.
Ghost == [ghost EXCEPT !.formatted = {}]
Agreed(S) == [Ghost EXCEPT !.accepted = @ \cup S]
Astray(g, gone) == [g EXCEPT !.loose = @ \/ (gone /\ ~ed.dirty)]
\* A table in block 0 hides the one that was written to block 1.
Hidden(dk, t) == Read(dk) # Plain(t)
\* The copy is read again.
Reread(dk) == [Ghost EXCEPT !.accepted = @ \cup AllExts(dk), !.owed = {}, !.loose = FALSE]

-----------------------------------------------------------------------------
(* Drags *)

\* The nearest partitions below and above, by cylinder.
Floor(t, p) == Max({t.lo} \cup {q.hi + 1 : q \in {q \in PartsOf(t) : q.hi < p.lo}})
Ceiling(t, p) == Min({t.hi} \cup {q.lo - 1 : q \in {q \in PartsOf(t) : q.lo > p.hi}})

\* The right edge: MBR partitions are no bound.
PressEdge ==
    \E i \in Indices :
        LET p == ed.rdb.parts[i]
        IN  /\ ed' = [ed EXCEPT !.drag = Drag("resize", i, p.lo, p.hi, p.lo, Ceiling(ed.rdb, p))]
            /\ ghost' = Ghost
            /\ UNCHANGED disk

PressBlock ==
    \E i \in Indices :
        LET p == ed.rdb.parts[i]
            floor == Floor(ed.rdb, p)
            top == Ceiling(ed.rdb, p) + 1
            width == p.hi - p.lo
        IN  /\ ed' = [ed EXCEPT !.drag = Drag("move", i, p.lo, p.hi, floor,
                                              IF top > width THEN top - 1 - width ELSE floor)]
            /\ ghost' = Ghost
            /\ UNCHANGED disk

Occupied == UNION {Span(p) : p \in PartsOf(ed.rdb) \cup (IF ed.mbr = NoMbr THEN {} ELSE ed.mbr)}

\* MAX_PARTITIONS is looked at where a drag or Add begins.
Room == Len(ed.rdb.parts) < MaxParts

\* Free space; a click in the reserved area counts as one on the first cylinder.
PressGap ==
    /\ HasTable
    /\ Room
    /\ \E at \in Cyls \ Occupied :
        LET t == ed.rdb
            start == Max({at, t.lo})
            others == PartsOf(t) \cup (IF ed.mbr = NoMbr THEN {} ELSE ed.mbr)
            min == Max({t.lo} \cup {q.hi + 1 : q \in {q \in others : q.hi < start}})
            max == Min({t.hi} \cup {q.lo - 1 : q \in {q \in others : q.lo > start}})
        IN  /\ at <= t.hi
            /\ min <= max
            /\ ed' = [ed EXCEPT !.drag = Drag("new", 0, min, Max({min, Min({start, max})}), min, max)]
            /\ ghost' = Ghost
            /\ UNCHANGED disk

\* Each motion edits the copy; an index past the list is a spare entry of the array.
MouseMove ==
    /\ phase = "edit"
    /\ ed.drag.kind # "none"
    /\ \E at \in Cyls :
         LET d == ed.drag
             c == Min({Max({at, d.min}), d.max})
             seen == d.i \in Indices
         IN  CASE d.kind = "resize" /\ seen -> ed' = [ed EXCEPT !.rdb.parts[d.i].hi = c]
               [] d.kind = "move" /\ seen ->
                    ed' = [ed EXCEPT !.rdb = At(@, d.i, c, c + d.hi - d.lo)]
               [] d.kind = "new" -> ed' = [ed EXCEPT !.drag.hi = c]
               [] OTHER -> ed' = ed
    /\ ghost' = Ghost
    /\ UNCHANGED <<phase, disk, n>>

\* A cancelled drag that leaves the copy as the mouse has.
MutRestored(t, d) == t

Restored(t, d) == IF t = NoTable THEN t
                  ELSE IF d.i \in DOMAIN t.parts THEN At(t, d.i, d.lo, d.hi) ELSE t

\* A window resize ends a drag of the edge.
NewSize == /\ phase = "edit"
           /\ ed.drag.kind = "resize"
           /\ ed' = [ed EXCEPT !.rdb = Restored(@, ed.drag), !.drag = NoDrag]
           /\ ghost' = Ghost
           /\ UNCHANGED <<phase, disk, n>>

-----------------------------------------------------------------------------
(* Offers: resize the file system too.  An offer is declined, aborted with the
   old size put back, or carried out, and then the whole table is written. *)

Offer(t, dk, g) == [t |-> t, disk |-> dk, g |-> g]
Declined(t) == Offer(t, disk, "none")
Aborted(t, i, old) == Offer([t EXCEPT !.parts[i].hi = old], disk, "aborted")

\* Carried out: the table is written, and only FFS is mounted again.
Wrote(t, how) == {Offer(t, w.disk, g) : w \in Written(disk, t), g \in how}
OfferFfsGrow(t) == Wrote(t, {"remounted", "reboot"})
OfferPfsGrow(t) == Wrote(t, {"reboot"})
OfferSfsGrow(t) == Wrote(t, {"reboot"})
Grown(t, i, old) == {Declined(t), Aborted(t, i, old)}
                      \cup OfferFfsGrow(t) \cup OfferPfsGrow(t) \cup OfferSfsGrow(t)

\* offer_shrink: the file system has the last word on the size.
Shrunk(t, i, old) ==
    {Declined(t), Aborted(t, i, old)}
      \cup UNION {LET s == [t EXCEPT !.parts[i].hi = hi]
                  IN  {Offer(s, w.disk, g) :
                         w \in {w \in Written(disk, s) : w.ok}, g \in {"remounted", "reboot"}}
                        \cup {Offer(s, w.disk, "reboot") :
                                w \in {w \in Written(disk, s) : ~w.ok}} :
                    hi \in t.parts[i].hi..(old - 1)}

Offers(t, i, old) ==
    IF t.parts[i].hi > old THEN Grown(t, i, old)
    ELSE IF t.parts[i].hi < old THEN Shrunk(t, i, old) ELSE {Declined(t)}

-----------------------------------------------------------------------------
(* The button goes up *)

Released == [ed EXCEPT !.drag = NoDrag]
Unsaved(e) == [e EXCEPT !.dirty = TRUE]

\* Back on the same pixel, or Cancel.
Cancelled == /\ ed' = [Released EXCEPT !.rdb = Restored(@, ed.drag)]
             /\ ghost' = Ghost
             /\ UNCHANGED disk

\* The new end stands without the file system knowing.
Kept == LET d == ed.drag
        IN  /\ ed' = [Unsaved(Released) EXCEPT !.reboot = TRUE]
            /\ ghost' = IF d.i \in Indices THEN Agreed({Ext(ed.rdb.parts[d.i])}) ELSE Ghost
            /\ UNCHANGED disk

\* A shrink that is offered; declining leads to the question with Kept and Cancelled.
Resized == LET d == ed.drag
               p == ed.rdb.parts[d.i]
           IN  /\ d.i \in Indices
               /\ p.lo = d.lo /\ p.hi # d.hi
               /\ \E o \in Offers(ed.rdb, d.i, d.hi) :
                    /\ o.g # "none"
                    /\ disk' = o.disk
                    /\ ed' = [Released EXCEPT
                                !.rdb = o.t,
                                !.dirty = @ \/ p.hi > d.hi \/ o.g # "aborted",
                                !.reboot = @ \/ o.g = "reboot"]
                    /\ ghost' = Agreed({Ext(o.t.parts[d.i])})

ReleaseEdge == /\ phase = "edit" /\ ed.drag.kind = "resize"
               /\ \/ Cancelled
                  \/ /\ ed.drag.i \in Indices =>
                          LET p == ed.rdb.parts[ed.drag.i]
                          IN  <<p.lo, p.hi>> # <<ed.drag.lo, ed.drag.hi>>
                     /\ Kept
                  \/ Resized
               /\ UNCHANGED <<phase, n>>

NewPart(name, lo, hi, want) ==
    [name |-> name, lo |-> lo, hi |-> hi, want |-> want, adv |-> FALSE]

\* partition_dialog, OK: a name no other entry has, and a size up to the next
\* entry above; MBR partitions are no bound.
Unused(t, i) == Names \ {t.parts[j].name : j \in DOMAIN t.parts \ {i}}
DialogTop(t, i, lo) ==
    Min({t.hi} \cup {t.parts[j].lo - 1 : j \in {j \in DOMAIN t.parts \ {i} : t.parts[j].lo > lo}})
DialogEnds(t, i, lo, hi) == {hi} \cup {Min({h, DialogTop(t, i, lo)}) : h \in lo..TopCyl}

\* A new entry after the dialog; a format asked for makes the reboot needless.
Appended(t, lo, hi) ==
    /\ \E name \in Unused(t, 0), end \in DialogEnds(t, 0, lo, hi), want \in BOOLEAN :
         LET p == NewPart(name, lo, end, want)
         IN  /\ ed' = [Unsaved(Released) EXCEPT !.rdb = [t EXCEPT !.parts = Append(@, p)],
                                                !.reboot = @ \/ ~want]
             /\ ghost' = [Agreed({Ext(p)}) EXCEPT !.owed = IF want THEN @ \cup {name} ELSE @ \ {name}]
    /\ UNCHANGED disk

\* The drag over free space: the list is not counted again.
ReleaseGap == /\ phase = "edit" /\ ed.drag.kind = "new"
              /\ \/ Cancelled
                 \/ HasTable /\ Appended(ed.rdb, ed.drag.lo, ed.drag.hi)
              /\ UNCHANGED <<phase, n>>

-----------------------------------------------------------------------------
(* Moves *)

\* PART_CanMove
CanMove(t, i, lo) ==
    LET p == t.parts[i]
        hi == lo + p.hi - p.lo
    IN  /\ lo # p.lo /\ lo >= t.lo /\ hi <= t.hi
        /\ \A j \in DOMAIN t.parts \ {i} : Span(t.parts[j]) \cap (lo..hi) = {}

\* offer_move_partition: declined, failed, or moved, and then the table is
\* written; it counts as moved also where that fails.
Moved(e, i) ==
    \/ ed' = e /\ ghost' = Ghost /\ UNCHANGED disk
    \/ \E lo \in Cyls :
         LET p == e.rdb.parts[i]
             new == At(e.rdb, i, lo, lo + p.hi - p.lo)
         IN  /\ CanMove(e.rdb, i, lo)
             /\ \E w \in Written(disk, new) :
                  /\ disk' = w.disk
                  /\ ed' = [e EXCEPT !.rdb = new, !.reboot = TRUE]
                  /\ ghost' = Astray(Agreed({Ext(new.parts[i])}), Hidden(w.disk, new))

ReleaseBlock == /\ phase = "edit" /\ ed.drag.kind = "move"
                /\ LET e == [Released EXCEPT !.rdb = Restored(@, ed.drag)]
                   IN  IF ed.drag.i \in Indices THEN Moved(e, ed.drag.i)
                       ELSE ed' = e /\ ghost' = Ghost /\ UNCHANGED disk
                /\ UNCHANGED <<phase, n>>

MoveGadget == \E i \in Indices : Moved(ed, i)

-----------------------------------------------------------------------------
(* Gadgets that edit the copy *)

\* partition_advanced_dialog changes the entry itself.
Advanced(p) == {p, [p EXCEPT !.adv = TRUE]}

\* Edit, or a double click: the advanced settings stay also where the dialog is
\* cancelled; a format asked for is forgotten.
Edit ==
    \E i \in Indices : \E set \in Advanced(ed.rdb.parts[i]) :
        LET p == ed.rdb.parts[i]
        IN  \/ /\ ed' = [ed EXCEPT !.rdb.parts[i] = set]
               /\ ghost' = Astray(Ghost, set # p)
               /\ UNCHANGED disk
            \/ \E name \in Unused(ed.rdb, i), hi \in DialogEnds(ed.rdb, i, p.lo, p.hi) :
                 LET t == [ed.rdb EXCEPT !.parts[i] = [set EXCEPT !.name = name, !.hi = hi,
                                                                  !.want = FALSE]]
                 IN  \E o \in Offers(t, i, p.hi) :
                       /\ disk' = o.disk
                       /\ ed' = [Unsaved(ed) EXCEPT !.rdb = o.t,
                                                    !.reboot = @ \/ o.g \in {"none", "reboot"}]
                       /\ ghost' = [Agreed({Ext(o.t.parts[i])}) EXCEPT !.owed = @ \ {p.name}]

Fresh(home) == [home |-> home, lo |-> 1, hi |-> TopCyl, drivers |-> 0, parts |-> <<>>]

\* find_free_range: the first gap between the partitions of both tables; one in
\* front of an entry ends there, also above the table's last cylinder.
FreeRange(t) ==
    LET others == PartsOf(t) \cup (IF ed.mbr = NoMbr THEN {} ELSE ed.mbr)
        lo == Min({c \in {t.lo} \cup {q.hi + 1 : q \in others} :
                      c >= t.lo /\ \A q \in others : c \notin Span(q)})
        above == {q.lo : q \in {q \in others : q.lo > lo}}
    IN  <<lo, IF above = {} THEN t.hi ELSE Min(above) - 1>>

\* Add: a disk without a table gets one in memory first, and keeps it there.
Add == LET t == IF HasTable THEN ed.rdb ELSE Fresh(0)
           r == FreeRange(t)
       IN  \/ /\ HasTable => Room
              /\ r[1] <= r[2]
              /\ Appended(t, r[1], r[2])
           \/ /\ ~HasTable
              /\ ed' = [ed EXCEPT !.rdb = t]
              /\ ghost' = Astray(Ghost, TRUE)
              /\ UNCHANGED disk

\* A deletion that does not count as an edit.
MutDeleted(e, i) == [e EXCEPT !.rdb.parts = RemoveAt(@, i),
                              !.unmount = @ \cup {e.rdb.parts[i].name}]

Deleted(e, i) == [Unsaved(e) EXCEPT !.rdb.parts = RemoveAt(@, i),
                                    !.unmount = @ \cup {e.rdb.parts[i].name}]

Delete == \E i \in Indices :
             /\ ed' = Deleted(ed, i)
             /\ ghost' = [Ghost EXCEPT !.owed = @ \ {ed.rdb.parts[i].name}]
             /\ UNCHANGED disk

\* The filesystem manager; its Cancel takes back additions only.
Filesystems == /\ HasTable
               /\ \E k \in 0..MaxDrivers : ed' = [Unsaved(ed) EXCEPT !.rdb.drivers = k]
               /\ ghost' = Ghost
               /\ UNCHANGED disk

\* Last Disk and Last LUN
Flags == /\ ed' = Unsaved(ed)
         /\ ghost' = Ghost
         /\ UNCHANGED disk

\* Init RDB: with an MBR, block 0 is written at once and the table later.
InitRdb(withMbr) ==
    /\ ghost' = [Ghost EXCEPT !.owed = {}]
    /\ \/ /\ ed' = [Unsaved(ed) EXCEPT !.rdb = Fresh(IF withMbr THEN 1 ELSE 0),
                                       !.mbr = IF withMbr THEN {} ELSE NoMbr]
          /\ disk' = IF withMbr THEN [disk EXCEPT !.t[0] = NoTable, !.mbr = {}] ELSE disk
       \/ /\ withMbr
          /\ ed' = [Unsaved(ed) EXCEPT !.rdb = Fresh(1), !.mbr = NoMbr]
          /\ UNCHANGED disk

UpdateGeometry == /\ HasTable
                  /\ ed.rdb.hi < TopCyl
                  /\ ed' = [Unsaved(ed) EXCEPT !.rdb.hi = TopCyl]
                  /\ ghost' = Ghost
                  /\ UNCHANGED disk

-----------------------------------------------------------------------------
(* Menu items that write the disk at once *)

\* Undo, the one menu item with a shortcut, which also works while a button is held.
Undo == /\ Event
        /\ ed.dirty
        /\ ed' = [Loaded(ed, disk) EXCEPT !.dirty = FALSE, !.unmount = {}]
        /\ ghost' = [Reread(disk) EXCEPT !.loose = ed.drag # NoDrag,
                                           !.split = @ \/ ed.drag # NoDrag]
        /\ UNCHANGED <<phase, disk>>

\* Restore RDB block: a header, at the home its own bytes name, over the lists
\* that are on the disk; those of a lost header may still be there.
HeaderBack(b) ==
    LET old == disk.t[b.home]
        lists == IF b.home = 0 /\ disk.t[1] # NoTable THEN {Cut(b)}
                 ELSE IF old = NoTable THEN {b, Cut(b)}
                 ELSE {[b EXCEPT !.parts = old.parts, !.drivers = old.drivers]}
    IN  {IF b.home = 0 THEN [disk EXCEPT !.t[0] = t, !.mbr = NoMbr]
         ELSE [disk EXCEPT !.t = [h \in 0..1 |-> IF h = 0 THEN Cut(@[0]) ELSE t]] : t \in lists}

\* The reread after a restore keeps the dirty mark and the deleted names.
PutBack(dk) == /\ disk' = dk
               /\ ed' = [Loaded(ed, dk) EXCEPT !.reboot = TRUE]
               /\ ghost' = Reread(dk)

\* Restore RDB block takes any file of one block; without an RDSK it goes to
\* block 0, where an MBR may be in it.
OtherBlock(m) == [disk EXCEPT !.t[0] = NoTable, !.mbr = m]

RestoreBlock == \/ \E b \in Backups : \E dk \in HeaderBack(b) : PutBack(dk)
                \/ \E m \in {NoMbr} \cup SUBSET Slots : PutBack(OtherBlock(m))

\* Restore all RDB blocks; a file that ends early or a bad block leaves what was
\* written and the copy as it was.
RestoreExtended ==
    \E b \in Backups :
        \/ PutBack([After(disk, b) EXCEPT !.t[0] = IF b.home = 0 THEN b ELSE Cut(disk.t[0])])
        \/ \E dk \in HeaderBack(b) : /\ disk' = dk
                                     /\ ed' = ed
                                     /\ ghost' = Astray(Agreed(AllExts(dk)), TRUE)

\* Restore disk image: the copy is not read again.
RestoreImage == \E i \in Images :
                   /\ disk' = i
                   /\ ed' = ed
                   /\ ghost' = Astray(Agreed(AllExts(i)), TRUE)

Blank == [t |-> [h \in 0..1 |-> NoTable], mbr |-> NoMbr]

\* Clear RDB: also a part of it counts.
ClearTable == \/ /\ disk' = Blank
                 /\ ed' = [Loaded(ed, Blank) EXCEPT !.dirty = FALSE, !.reboot = TRUE]
                 /\ ghost' = Reread(Blank)
              \/ /\ disk' = Blank
                 /\ ed' = ed
                 /\ ghost' = Astray(Ghost, TRUE)

\* Restore partition from a file: the engine may trim the entry, then the whole
\* table is written; a failure is told and nothing else.
RestorePartition ==
    \E i \in Indices : \E hi \in {ed.rdb.parts[i].hi, ed.rdb.parts[i].lo} :
        LET t == [ed.rdb EXCEPT !.parts[i].hi = hi]
        IN  \E w \in Written(disk, t) :
              /\ disk' = w.disk
              /\ ed' = [ed EXCEPT !.rdb = t, !.reboot = @ \/ w.ok]
              /\ ghost' = Astray(Agreed({Ext(t.parts[i])}), Hidden(w.disk, t))

\* PartClone_CopyFS: a driver of the copy in memory goes along.
WithDriver(t) == {t} \cup IF ed.rdb.drivers > 0 /\ t.drivers < MaxDrivers
                       THEN {[t EXCEPT !.drivers = @ + 1]} ELSE {}

\* Copy partition to disk, where the disk is this one: into another entry of a
\* second copy of the table, or a new entry of it in a gap.
CopyPartition ==
    /\ Indices # {} /\ Read(disk) # NoTable
    /\ \E t \in WithDriver(Read(disk)) :
           \/ \E i \in DOMAIN t.parts : \E hi \in {t.parts[i].lo, t.parts[i].hi} :
                \E w \in Written(disk, [t EXCEPT !.parts[i].hi = hi]) :
                  /\ disk' = w.disk
                  /\ ed' = [ed EXCEPT !.reboot = @ \/ w.ok]
                  /\ ghost' = Astray(Agreed(AllExts(w.disk)), TRUE)
           \/ /\ Len(t.parts) < MaxParts
              /\ \E name \in Unused(t, 0), lo \in t.lo..t.hi : \E hi \in lo..t.hi :
                   LET new == [t EXCEPT !.parts = Append(@, NewPart(name, lo, hi, FALSE))]
                   IN  /\ Sound(new)
                       /\ \E w \in Written(disk, new) :
                            /\ disk' = w.disk
                            /\ ed' = [ed EXCEPT !.reboot = @ \/ w.ok]
                            /\ ghost' = Astray(Agreed(AllExts(w.disk)), TRUE)

-----------------------------------------------------------------------------
(* MBR partitions are written at once; a failure takes the change back *)

HasMbr == ed.mbr # NoMbr
MbrConflict(s, others) ==
    \/ HasTable /\ Span(s) \cap (0..(ed.rdb.lo - 1)) # {}
    \/ 0 \in Span(s)
    \/ \E p \in PartsOf(ed.rdb) \cup others : Span(p) \cap Span(s) # {}

\* An MBR written without a look at what block 0 holds.
MutMbrAllowed(dk) == TRUE

\* MBR_Write refuses a block 0 with a table's header.
MbrAllowed(dk) == dk.t[0] = NoTable

WriteMbr(m) == /\ MbrAllowed(disk)
               /\ disk' = [disk EXCEPT !.mbr = m]
               /\ ed' = [ed EXCEPT !.mbr = m]
               /\ ghost' = Ghost

AddSlot == HasMbr /\ \E s \in Slots : ~MbrConflict(s, ed.mbr) /\ WriteMbr(ed.mbr \cup {s})
EditSlot == HasMbr /\ \E old \in ed.mbr, s \in Slots :
                ~MbrConflict(s, ed.mbr \ {old}) /\ WriteMbr((ed.mbr \ {old}) \cup {s})
DeleteSlot == HasMbr /\ \E s \in ed.mbr : WriteMbr(ed.mbr \ {s})

-----------------------------------------------------------------------------
(* Write, and leaving *)

Wanted(t) == {Ext(p) : p \in {p \in PartsOf(t) : p.want}}

\* A format that stays asked for.
MutSettled(t) == t

Settled(t) == [t EXCEPT !.parts = [i \in DOMAIN @ |-> [@[i] EXCEPT !.want = FALSE]]]

\* After a write: the formats asked for, then the deleted names that are not in
\* use again; a format or an unmount that fails asks for a reboot.
Settles(e, dk, leave) ==
    LET gone == {x \in e.unmount : \A p \in PartsOf(e.rdb) : p.name # x}
    IN  \E failed \in IF Wanted(e.rdb) = {} /\ gone = {} THEN {FALSE} ELSE BOOLEAN :
        \E bare \in IF ~leave /\ e.mbr = NoMbr /\ dk.mbr # NoMbr THEN BOOLEAN ELSE {FALSE} :
          /\ disk' = IF bare THEN [dk EXCEPT !.mbr = NoMbr] ELSE dk
          /\ ed' = [e EXCEPT !.rdb = Settled(@), !.dirty = FALSE, !.unmount = {},
                             !.reboot = FALSE]
          /\ ghost' = [Ghost EXCEPT !.formatted = Wanted(e.rdb), !.owed = {},
                                !.loose = Hidden(dk, e.rdb)]
          /\ phase' = IF ~leave THEN phase ELSE IF e.reboot \/ failed THEN "reboot" ELSE "wrote"

Fails(w) == /\ ~w.ok
            /\ disk' = w.disk
            /\ ed' = ed
            /\ ghost' = Astray(Ghost, w.disk # disk)
            /\ UNCHANGED phase

\* The Write gadget: where the blocks do not fit, the first cylinder may be raised
\* and the table written again.
Raised == [Unsaved(ed) EXCEPT !.rdb.lo = Need(ed.rdb)]
Write == /\ Event /\ ed.drag = NoDrag
         /\ \E w \in Written(disk, ed.rdb) :
              \/ w.ok /\ Settles(ed, w.disk, FALSE)
              \/ Fails(w)
              \/ /\ w.why = "overflow"
                 /\ \A p \in PartsOf(ed.rdb) : p.lo >= Need(ed.rdb)
                 /\ \E v \in Written(disk, Raised.rdb) :
                      IF v.ok THEN Settles(Raised, v.disk, FALSE)
                      ELSE /\ disk' = v.disk
                           /\ ed' = Raised
                           /\ ghost' = Ghost
                           /\ UNCHANGED phase

Leaves(how) == phase' = how /\ UNCHANGED <<disk, ed>> /\ ghost' = Ghost

\* Discard, or nothing to write.
Leave == /\ Event /\ ed.drag = NoDrag
         /\ Leaves(IF ~ed.dirty /\ ed.reboot THEN "reboot" ELSE "closed")

\* Back writes as the gadget does.
Back == /\ Event /\ ed.drag = NoDrag /\ ed.dirty
        /\ \E w \in Written(disk, ed.rdb) :
             IF w.ok THEN Settles(ed, w.disk, TRUE) ELSE Fails(w)

\* The close gadget writes the table and no more.
Close == /\ Event /\ ed.drag = NoDrag /\ ed.dirty
         /\ \E w \in Written(disk, ed.rdb) :
              IF w.ok THEN /\ disk' = w.disk
                           /\ ed' = [ed EXCEPT !.dirty = FALSE, !.reboot = FALSE]
                           /\ ghost' = [Ghost EXCEPT !.loose = Hidden(w.disk, ed.rdb)]
                           /\ phase' = IF ed.reboot THEN "reboot" ELSE "wrote"
              ELSE Fails(w)

Next == \/ Start
        \/ Idle /\ PressEdge
        \/ Idle /\ PressBlock
        \/ Idle /\ PressGap
        \/ MouseMove
        \/ NewSize
        \/ ReleaseEdge
        \/ ReleaseGap
        \/ ReleaseBlock
        \/ Idle /\ MoveGadget
        \/ Idle /\ Edit
        \/ Idle /\ Add
        \/ Idle /\ Delete
        \/ Idle /\ Filesystems
        \/ Idle /\ Flags
        \/ \E withMbr \in BOOLEAN : Idle /\ InitRdb(withMbr)
        \/ Idle /\ UpdateGeometry
        \/ Undo
        \/ Idle /\ RestoreBlock
        \/ Idle /\ RestoreExtended
        \/ Idle /\ RestoreImage
        \/ Idle /\ ClearTable
        \/ Idle /\ RestorePartition
        \/ Idle /\ CopyPartition
        \/ Idle /\ AddSlot
        \/ Idle /\ EditSlot
        \/ Idle /\ DeleteSlot
        \/ Write
        \/ Leave
        \/ Back
        \/ Close

Spec == Init /\ [][Next]_vars

-----------------------------------------------------------------------------
(* Properties *)

Store == INSTANCE TableStore
    WITH Devices <- {"disk"},
         NoDevice <- "none",
         Seen <- LAMBDA t : t,
         store <- [d \in {"disk"} |-> Read(disk)],
         open <- IF phase = "start" THEN "none" ELSE "disk",
         copy <- Plain(Restored(ed.rdb, ed.drag)),
         unsaved <- ed.dirty,
         behind <- ghost.loose,
         preview <- FALSE,
         over <- phase \notin {"start", "edit"}

(***************************************************************************)
(* The window keeps the promise of TableStore: what the mouse or a dialog  *)
(* changes in the copy is marked dirty or undone before the next event, a  *)
(* drag in progress is no edit, and whoever writes the disk at once leaves *)
(* disk and copy alike; the exceptions are those at which the ghost says   *)
(* the copy goes astray (Astray): the advanced settings of a cancelled     *)
(* dialog, a table on an empty disk that Add leaves behind, a disk image,  *)
(* a copy onto this disk, and a write that fails after a move, a restore   *)
(* or with nothing dirty.                                                   *)
(***************************************************************************)
StoreSpec == Store!Spec

(***************************************************************************)
(* Every partition on the disk is one the user has agreed to at these      *)
(* cylinders: no write, by whichever of the dozen ways, catches the copy   *)
(* with the positions a cancelled or declined drag left in it.  An Undo    *)
(* while the button is held gives up the promise.                           *)
(***************************************************************************)
Accepted == ~ghost.split => Exts(Read(disk)) \subseteq ghost.accepted \/ phase = "start"

(***************************************************************************)
(* What a write formats was asked for since the name was last formatted,   *)
(* deleted, edited or read again, and lies on the disk as it is formatted: *)
(* a volume in use is not formatted by the next Write, nor after one that  *)
(* failed.                                                                  *)
(***************************************************************************)
Formats == \A f \in ghost'.formatted : f[1] \in ghost.owed /\ f \in Exts(disk'.t[ed'.rdb.home])
FormatsAsked == [][Formats]_vars

-----------------------------------------------------------------------------
(* What the program says *)

(***************************************************************************)
(* "Nothing has been written since the last Write, so the disk itself is   *)
(* untouched." (Undo's question, amipart_strings.h): while the dirty mark  *)
(* stands, only a Write that fails changes what the disk holds.            *)
(***************************************************************************)
UndoUntouched == [][ed.dirty' /\ disk' # disk => Write \/ Back \/ Close]_vars

=============================================================================
