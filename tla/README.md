# AmiPart: specifications, model checks and proofs

AmiPart (`src/`) edits the Rigid Disk Block (RDB) table of Amiga disks: it reads and writes the table, moves, zeroes,
resizes, copies and formats partitions, and keeps an MBR beside the RDB. This directory holds TLA+ models of the parts
that can lose a disk's contents, TLC configurations that check them on small instances, and TLAPS proofs of the
results that matter most. `PROJECT.json` lists components, runs, hazards and theorems, and for every definition the
source lines it stands for.

To repeat a check: `tlc -config rdb_table.cfg MCRdbTable`; a proof: `tlapm RdbTable_proofs.tla`.

## 1. The system

The program is one thread. There are three front ends (a GadTools window, a command line, a script interpreter) over
one engine. What is hard about it is therefore not concurrency of its own but:

* a long operation is a sequence of block writes, and power can fail between any two of them;
* any transfer can fail in the middle of an operation, and some devices report success and store something else
  (`rdb.c:2121`, the A3000 DMA note);
* the disk may have been written by another tool, or be damaged: chains scattered, looped, out of order or cut off;
* memory and disk diverge: edits are kept in `struct RDBInfo` until a save, and a failed save leaves both half way;
* a mounted file system is another process that owns the blocks a resize wants to change, and is found by its name only;
* the window edits the table in place while the mouse moves, and some of its dialogs write the whole table at once.

| Part | Source (`src/src/`) | State | Operations | What makes it correct |
|---|---|---|---|---|
| RDB core | `rdb.c`, `rdb.h`, `rdbbe.h` | `RDBInfo` (entries, drivers and their code, damage flag), the blocks of the reserved area | `RDB_Read`, `RDB_Write`, `RDB_InitFresh`, `RDB_IntegrityCheck`, `RDB_GrowToDevice` | what is written is read back; nothing on disk is dropped silently; partitions' data is out of reach; the header goes last; the walk ends on any chain |
| Block device | `rdb.c:327-1011`, `devices.c` | handle, geometry, why the last write failed | open, read, write, geometry | a failed transfer is reported |
| Moving, zeroing | `partmove.c`, `partview_zero.c` | entry, loop index, SFS roots | `PART_CanMove`, `PART_Move`, `PART_Zero` | an exact copy with overlapping ranges; neighbours untouched; the saved table finds the data |
| FFS resize | `ffsresize.c`, `shrinkinfo.c` | bitmap, extension chain, root, boot block | grow, shrink, shrink information | order of writes; nothing allocated is cut off |
| SFS resize | `sfsresize.c`, `sfs_util.c` | bitmap, two roots, root object container | grow in three strategies, shrink, rollback, shrink information | commit point at the start root; a rollback restores; the two roots and the bitmap agree |
| PFS resize | `pfsresize.c` | root block cluster, while the handler is mounted | grow, shrink, rollback, shrink information | mounts at either size wherever it stops; exact counts |
| Cloning | `partclone.c`, `partview_partclone.c`, `partview_partcopy.c` | file header, target entry | dump, restore, partition to partition | the footprint fits what `RDB_Write` accepts; an entry is adopted only for copied data |
| Images, disk copy | `imagecopy.c`, `partview_image.c`, `partview_diskcopy.c` | position, count of unreadable blocks | disk to file, file to disk, disk to disk | every readable block copied, every other one counted |
| MBR | `mbr.c`, `partview_mbr.c` | four entries | read, write, write empty, conflicts | never over an RDSK; no range in conflict with the RDB |
| Clear | `clearrdb.c`, `partview_clear.c` | plan of ranges | plan, run | every header found by a scan is gone, data is not touched |
| Formatters | `nativefmt.c` | none | FFS, PFS, SFS format | a volume becomes valid last; bitmaps and counts are right at every size |
| Mounting | `quickformat.c`, `mountlist.c` | device nodes | mount, format, unmount | nothing is written under a live handler |
| Command line, scripts | `cli.c`, `script.c` | table, dirty, force, DRYRUN, handlers mounted | edits, save, resizes, copies, restores, formats | no edit forgotten; partitions apart, bystanders untouched; one failure stops a script |
| Partition editor | `partview*.c` | table, MBR, dirty, drag, formats and unmounts owed, reboot flag | drags, dialogs, offers, restores, save | no edit forgotten, no drag saved by accident, formats only what was asked |
| Backup, bad blocks | `partview_rdb.c` | files, BADB chain | backup, restore, scan | a restored table is the one found next; the list is inside the reserved area |
| Selection, drawing, run time, host port | `main.c`, `diskselect.c`, `ataident.c`, `gui*.c`, `clib.c`, `locale_support.c`, `host/` | none that outlives a choice | enumeration, display | outside the scope |

Interaction. Every front end calls `RDB_Read` when a disk is opened, edits `RDBInfo` in place, and calls `RDB_Write`
on save (`cli.c:530`, `script.c:449`, `partview.c:2679`, ...). If a chain was damaged the front end asks and sets
`allow_truncated_write` (`cli.c:511-521`, `script.c:435-446`, `partview.c:2228-2246`). Moving, growing, shrinking and
copying change the disk first and the entry in memory second, and then call `RDB_Write` at once
(`partview_move.c:589-594`). A new table below an MBR writes block 0 before anything is saved
(`partview.c:3402`, `script.c:598`).

The list of hazards, each at its line and with the properties that would catch it, is in `PROJECT.json`.

## 2. Modules

| Module | What it is |
|---|---|
| `RdbTable`, `MCRdbTable` | the RDB table of one disk block by block: load, edit, save, crash, decay; instance with 9 blocks and five initial disks |
| `RdbTable_proofs` | four theorems about `RdbTable` |
| `PartMove`, `MCPartMove` | moving and zeroing partitions, and the table write that follows; instances with plain and with 1024-byte blocks |
| `PartMove_proofs` | five theorems about `PartMove` |
| `FfsResize`, `MCFfsResize` | growing and shrinking an FFS volume, the shrink report, the table write that follows |
| `SfsResize`, `MCSfsResize` | the same for SFS: three grow strategies, the commit at the start root, the rollback, the file system using the volume before and after |
| `SfsResize_proofs` | four theorems about `SfsResize` |
| `PfsResize`, `MCPfsResize` | the same for PFS: the rootblock written in two steps while the handler is mounted |
| `PfsResize_proofs` | four theorems about `PfsResize` |
| `PartClone`, `MCPartClone` | partition to file and back, partition to partition, disk images, disk to disk |
| `PartClone_proofs` | two theorems about `PartClone`: what a copy leaves alone, and what one that succeeds has made |
| `NativeFormat`, `MCNativeFormat` | the FFS, PFS3 and SFS formatters write by write and the dispatcher around them |
| `TableStore` | what every front end promises about the table: abstract store, copy and mark |
| `TableStore_proofs` | the promise has its consequence: no edit is forgotten |
| `Session`, `MCSession` | the script interpreter, all its commands, the DOS list; implements `TableStore` |
| `Session_proofs` | four theorems: the tables of a `Session` lie apart and bystanders keep theirs; `Session` implements `TableStore` for all its constants, so no script forgets an edit |
| `Editor`, `MCEditor` | the event loop of the window; implements `TableStore` |
| `Editor_proofs` | five theorems about `Editor`: types, what a write puts on the disk, what it formats; it implements `TableStore` for all its constants, so the window forgets no edit |

How they fit together. The engines (`RdbTable`, `PartMove`, the resizers, `PartClone`, `NativeFormat`) model one operation
write by write; `Session` and `Editor` model the front ends, where an engine is one step that succeeds, fails, or
stops half way in the ways the engine's module shows, and what counts is on which cylinders it was let loose and what
copy, mark and disk are afterwards. Both are shown to implement `TableStore` by a refinement mapping
(`Store == INSTANCE TableStore WITH ...`, property `StoreSpec`).

In these modules a definition whose name starts with `Mut` is a deliberately wrong variant of the one it precedes (a
dropped guard, a wrong order, a missing reset). It is used nowhere. Put in place of the right one it makes a property
fail, which shows that the property depends on that code.

### RdbTable

State: `disk` (every block a record of the fields a walk follows), `mem` (`RDBInfo`: `at` is `block_num`, `lo` is
`rdb_block_lo`, `badb` is `bad_block_list`, `trunc` is `chain_truncated`, `ack` is `allow_truncated_write`), `pc`,
`rd` and `wr` (the locals of `RDB_Read` and `RDB_Write`), `fail` (`last_write_fail`).
History variables: `expect`, the tables a clean load may return; `owed`, the entries the disk held; `gone`, the
entries the user gave up knowingly.

| Actions | Code |
|---|---|
| `Open`, `FindHeader`, `FindSkip`, `FindNone`, `FindFault` | the scan for the RDSK, `rdb.c:1156-1248` |
| `PartTake`, `PartEnd`, `PartBreak`, `PartFault` | the PART walk and the sort, `1266-1353`; `InsertSorted` gives at each step what the stable sort gives at the end |
| `FsTake`, `FsEnd`, `FsBreak`, `FsFault` | the FSHD walk, `1357-1405` and `1486-1491` |
| `SegTake`, `SegEnd`, `SegFault` | counting and copying an LSEG chain, `1407-1484`, in one pass: the second takes the blocks the first counted |
| `AddPart`, `SetPart`, `DelPart`, `AddFs`, `DelFs`, `InitFresh`, `Acknowledge`, `Close` | the edits of the front ends, `RDB_InitFresh`, the question about a damaged chain, closing |
| `RefuseWrite`, `WriteNoMem`, `BeginWrite` | the checks of `RDB_Write` in their order (`Checks`), and the image built in memory, `1832-2117` |
| `WriteBlock`, `WriteFault`, `WriteSpoilt` | one block of the write loop, `2121-2143` |
| `VerifyOk`, `VerifyMismatch`, `VerifyFault`, `VerifySkipped` | the read-back, `2145-2191` |
| `RetireBlock`, `RetireFault`, `WriteDone` | other headers in the scan range, `2193-2216` |
| `Crash`, `Rot` | power loss during a write; a block that decays between sessions |

Abstractions: ID, checksum and readability of a block are one thing (`Junk`), since every walk treats a wrong one as the end
of its chain; a BADB chain is one block; code is a sequence of LSEG-sized pieces; fixed fields of PART and RDSK
blocks are left out. One block is written entirely or not at all. The failure of the first `AllocVec` of `RDB_Read`
is left out: it returns as if there were no table.

### PartMove

State: `disk` (each sector holds sector `k` of partition `of`, and for an SFS root the position it states and the size of its volume), `table`
(`rdb->parts`), `saved` (the table on the disk), `pc`, `mv` (locals). History: `before`, `lost`, `open`. `Move` is
`PART_Move` up to the first chunk with the check of `PART_CanMove`; `CopyChunk` and `CopyFault` are the two loops;
`RootPatch`, `RootAbsent`, `RootUnread`, `RootFault`, `RootsUnread` the SFS part; `TableWrite` and `TableFault`
`RDB_Write`, in one step because a move changes a single PART block; `Zero*` is `PART_Zero`; `Reopen` loads the saved
table again. A fault in a chunk may leave any subset of its sectors written. Heads times sectors (`Spc`) and the block factor (`Scale`)
are each partition's own, and the end root is looked for where the first root says the volume ends (`RootSector`), inside the partition or not.

### FfsResize

State: `disk` (every block of the partition and of the space behind it is a boot block, a root, a bitmap block, an
extension block, a header, a data block, or blank), `size` (what the table on the disk states), `pc` (the phase),
`op` (the locals). Everything `FFS_GrowPartition` and `FFS_ShrinkPartition` write follows from what they read before
the first write, so `Grow` and `Shrink` are the phases that only read (1 to 4, and 1 to 5 for a shrink) and compute `op`; each action after
them is one block write, which may succeed, fail, or be the last one before the power fails (`Put`), or be swallowed by a driver that
reports success. History: `before`, the disk when the resize began; `clean`, that nothing was
swallowed and no child passed over.

| Actions | Code (`ffsresize.c`) |
|---|---|
| `Grow`, `GrowPlan` | reading, every refusal, and the plan: `177-456`, the list of bitmap blocks `514-516`, the values of Phase 7 `556-619` |
| `ExtendLastBm`, `NewBm`, `Link`, `NewExt` | Phases 5, 6 and 7, `458-620` |
| `Mark`, `Unmark` | Phase 8, the bits of the target and of the old root, `651-736` |
| `Shrink`, `ShrinkPlan`, `TailFree`, `FindFree`, `Rehomed` | `1442-1710`, with `ffs_shr_find_free` `1403-1440` |
| `Cover`, `NewExt` | Phases 6 and 7 of a shrink, `1712-1764` |
| `WriteRoot` | the root and its read-back, `739-800`, `1766-1797` |
| `Reparent`, `NextBucket`, `KidUnread` | Phase 9b, `803-850`, `1799-1827` |
| `WriteBoot`, `Verify` | Phase 9 and the stages of verification, `852-879`, `929-1053` |
| `TableWrite`, `TableFault` | `RDB_Write` by the callers, `partview_move.c:903-921` |
| `MinBlocks`, `CapHit` | `FFS_ShrinkInfo`, `1274-1355`, as a function of the volume; the walk down from the highest used block ends after `MaxSteps` blocks (0x40000, `1323`) |
| `Validate` | external: the file system rebuilds a bitmap whose flag is not set |

Abstractions: a block is one sector, written whole or not at all; checksums are right in whatever has the right kind
(`Junk` stands for the bits another kind of block shows when the code reads it as a bitmap block, a blank one reads
as zeros). Phase 9c, which stamps the old root valid, writes nothing: the flag of that root was checked in Phase 2 and
no phase in between writes the block. The handler does not allocate, and its caches are not modelled.

`Astray` and `Leftovers` are conditions of some properties: a resize that broke off before may have left a chain in which a block
is no bitmap block any more, or one with more pages than the volume needs (section 5, points 6 and 9); the properties are
stated for a volume without that past.

### SfsResize

State: `disk` (start and end root with size, bitmap position and sequence number; bitmap blocks as the set of blocks they
call free; the object container with the free count; file data), `table` and `cyls` (the size on the disk and in memory), the
handler (`env`, `inhibited`), `pc`, `op` (the planned writes and those to be undone). `Grow` and `Shrink` are the phases that
read and refuse, and put the writes of the chosen strategy (`LastEdit`, `NaturalWrites`, `MovedBitmap`) into `op.todo`;
`PreWrite`, `Commit` (the start root), `PostWrite`, `Count`, `Verify` carry them out, one block each, which may fail, be
torn (a block is several sectors), be swallowed or be the last; `Fail` and `Undo` are the rollback (`sfsresize.c:933-954`,
`1536-1552`); `TableWrite` the caller. `MountRoot` and `Alloc` are the SFS handler as the comments of
`sfsresize.c` describe it: external. Sequence numbers are modulo `SeqNums`, as `(UWORD)` in the code.
`SoundAt` asks that both roots of a mounted size, where two are left, name the same bitmap, so that it does not matter which one counts.
`exact` is the caller `PartClone`, which states the block count. Not modelled: 32-bit wrap of byte positions.

`SoundWhenDone` asks for a `Regular` volume: a sound one, with its count in a block of its own, no file in its last block and bitmap
blocks that speak of their own range (`Orderly`); at least a block for each cylinder; no stray root that would look newer than the start
root to come; and, where the handler is mounted, no second volume of the size it is mounted with. `BeginsRegular` says that every
resize, whatever the earlier ones have left, begins with such a volume. Over many resizes it need not: see section 5, point 20, and sequence numbers
come around to those of a stray root after half their range.

`Begin` takes the `Inhibit` to succeed. The code goes on when it fails or the partition has no name (`sfsresize.c:324-326`, `1246-1248`), as the PFS
resize does (section 5, point 24): a handler that is alive meanwhile may store a file through a bitmap the resize has read, and none of the
properties here is claimed for that. With no handler mounted at all the flag makes no difference.

### PfsResize

State: the rootblock (size, free count, reserved free, roving pointer, `sizefield` and `super` flags) with index and bitmap blocks,
the handler with its cached copy (`cache`, `dirty`, `inhibited`; `missed` when a resize went on without holding it off). Actions: `Grow`, `Shrink` (read and refuse), `Unseal` (the
bits an older shrink sealed), `WriteRoot`, `ClearFlag`, `Hold` or `Unheld`, `Release`, `TableWrite`; the handler's `Alloc`, `Flush`;
`Reboot`. `Unheld` is an `Inhibit` that fails, or is not called for want of a name. `raced` marks that the handler had something to write during
a resize, or stores something after one it missed: the code loses that race (section 5, points 10 and 24), and the properties leave it out.

### PartClone

State: `disk` (per disk: its table in sector 0, and what each sector holds: a volume's root with type, size, position, a flag (of PFS that
the size is compared at the mount, of FFS that the boot block names the root) and how often "CL-" stands before its name, or its n-th sector), `file`, `mem` (the table in memory and of which disk it is), `op`. Operations: dump, restore, clone onto a partition
or into a gap, disk image out and in, disk copy. `Next1`, `Short`, `Fail`, `Cancel` are the chunk loops, in which unreadable
blocks become zeros; `FixSfs`, `FillSfs`, `FixFfs`, `FixPfs`, `Rename`, `Drivers`, `TableWrite`, `Geometry` the adaptations in
their order. A copy goes by the table in memory or by the one on the disk (`Tables`); drivers are copied or not, as the front end does;
blocks past the end of the disk that is read count as unreadable (`Beyond`), as its reads fail. Of FFS and PFS only what a mount
compares is in a root. Not modelled: ULONG wrap.

The properties leave out, by name, what the code does not get right: `Uniform` and `op.exact` (section 5, 14 and 13), `Outsized` (19), clones that
keep their name (`Renamable`, 25); and
`OnItself`, a clone whose target shares sectors with its source, which only entries with different cylinders can bring about.

### NativeFormat

State: `part` (size, reserved blocks, variant, resident or not), `blk` (block to contents), `todo` (the writes to come), `pc`, `rc`, `dos`.
`FfsPlan`, `PfsPlan` (with the reserved allocator `NextFree`, `Alloc`) and `SfsPlan` are the formatters as lists of writes;
`Begin`, `Refuse`, `Write`, `Written` run them, `EnsureHandler`, `Mount`, `Inhibit`, `OsFormat` are the dispatcher. `FfsReads`,
`PfsReads` and `SfsReads` follow the structures from the root as a file system does, SFS from its end root when there is no start root
(`EndRoots`). `SfsTiny` are the sizes at which `SfsFree` runs below zero: `SoundVolume` says nothing of their bitmap (section 5, 21). Not modelled: dates, names, checksums, the cap
of reserved blocks. An exhausted PFS allocator returns 0 and the code goes on to write there: the model ends in `rc = "undefined"`.

### TableStore, Session, Editor

`TableStore`: `store` (table per device), `open`, `copy`, `unsaved`, `behind` (copy and disk apart without a mark), `preview`, `over`; `Load`,
`Edit`, `Sync`, `Pretend`, `Slip`, `Elsewhere`, `Drop`, `Stop`. `Slip` is the only step that may part copy and disk unnoticed;
each module says by a ghost variable which of its steps are slips.

`Session`: `disk` (a header in block 0 or 1, MBR partitions, cylinders written), `st` (`struct ScriptState`), `dos` (the DOS list),
`file` (the last backup), `rc`, `n`, `ghost`. One action per command of `script.c` (`Open`, `Create`, `InitNew`, `NewGeo`,
`AddPart`, `DelPart`, `AddFs`, `Grow`, `Shrink`, `PartClone`, `PartIn`, `ZeroPart`, `ClearRdb`, `ImageIn`, `Backup`, `Restore`, `AddMbr`,
`DelMbr`, `Write`, `Close`, `Reboot`, ...); arguments are any that the instance has. Its only slip is a clone whose `TODEV` is
the open device. Token parsing is not modelled. A write of the table (`Writes`) is refused, done, or fails: before its first block, at the header or in the read-back, or on the
way along the chains. The header goes last, so an old one that stands at that place leads into what has been written so far (`Halves`: the first new
entries and the old ones behind them, all the new ones, or a chain that breaks off, which a layout of another program makes possible at any block). That ends
the session; `ghost.torn` is the device. A clone to another device may carry the driver along (`Carried`). `ghost.older` is set by a `RESTORE` that brings back a header but not its
lists (a block backup, or an extended one that fails): that header may state fewer cylinders than the lists on the disk use,
and from then on `Apart` promises no more than that partitions lie apart. The proof of `Apart` is what brought this case up; the
instance of the run, whose backups are all taken within four commands, does not reach it.

`Editor`: `phase`, `disk`, `ed` (the copy, `s_mbr`, `dirty`, `needs_reboot`, deleted names, the drag), `n`, `ghost` (what the user agreed to;
formats owed and done). Actions are the branches of the event loop: press, move and release of the mouse on an edge, a block or
a gap (`PressEdge`, `MouseMove`, `ReleaseEdge`, ...), the gadgets (`Add`, `Edit`, `Delete`, `InitRdb`, `UpdateGeometry`, `MoveGadget`, `Write`,
`Back`), menus (`Undo`, `PutBack`, `RestoreImage`, `ClearTable`, `CopyPartition`, ...), MBR slots, `Leave` and `Close`. `Written` gives
the outcomes of `RDB_Write`: refused, done, or failed at the first block, half way (the header is written last, so an old
header leads into a mixture: `Mixed`, `Torn`), in the read-back, or with another header not retired (`Unretired`). Its slips (`Astray`): advanced settings of
a cancelled dialog, a table on an empty disk that a cancelled Add leaves behind, an image restored or a partition copied onto this disk, and a write
that fails after a move, a restore, or with nothing marked. Drawing, layout and the read-only viewers are not modelled.

## 3. Runs

Nine runs hold; three show a place where the program does not do what its text says.

| Run | Result | What it shows |
|---|---|---|
| `rdb_table` | holds, 355 687 distinct states | `LoadMatches`: what was reported written is loaded again, exactly. `NoSilentLoss`: an entry on the disk is dropped by a write only if deleted or acknowledged. `PartitionDataUntouched`. `HeaderLast`: an RDSK reaches the disk only above a complete layout. `BadbSpared`: the kept bad block list is one. `ReadEnds`: the walk ends on looped chains |
| `part_move` | holds, 155 045 distinct states | `MoveFaithful`: the copy is exact. `OthersUntouched`, but for the position in a root behind an outsized volume (section 5, 23). `SavedWhole`: at every moment the saved table finds all partitions except those lost or in the middle of an overlapping move. `RootsFollow`. `Ends` |
| `ffs_resize` | holds, 100 664 distinct states | `DataKept`: no block of a file is written over and no header lost. `SoundVolume`: what a completed resize leaves has a bitmap block for each range, nothing in use marked free, and every child naming the new root. `OldGeometryStands`: before the new root is written a grow has not touched the old volume (`OldStands`), and a shrink has taken free blocks, added used marks and shortened extension blocks that stay (`ShrinkStands`; section 5, 9); it never clears a used bit, then or later (`OnlyMarksUsed`). `RootFirst`: children and boot block follow only a root that is there. `InfoMatchesGate`: what is reported possible the shrink does not refuse for its tail, and the converse unless the floor's walk was broken off |
| `sfs_resize` | holds, 147 937 distinct states | `SoundWhenDone`: both roots agree, the start root is the newest, bitmap, free count and files are right. `BeginsRegular`: a resize after another, done, refused or failed, begins with a volume for which that is proved. `OldVolumeKept`: cut off before the commit the old volume is sound (`SafeBeforeCommit`), and a failed resize has put back what was in use (`RolledBack`). `InfoMatchesGate` |
| `pfs_resize` | holds, 146 444 distinct states | `MountsEitherWay`: wherever it stops, but between the two writes, the rootblock mounts at the old and at the new size, and a handler that was held off has it. `SoundWhenDone`: free counts exact, what was sealed in the last bitmap block freed by a grow, no file lost, the roving pointer inside. `InfoMatchesGate` |
| `part_clone` | holds, 773 243 distinct states | `Faithful`: a success holds every block of the source, zeros only for unreadable ones, and mounts at its new place. `Contained`: other partitions and the source untouched (`NeighboursKept`, for an entry with the cylinders of the others: `Uniform`), the table changes only after a complete copy (`EntryFollowsCopy`) |
| `native_format` | holds, 43 110 distinct states | `SoundVolume`: at every size what the root leads to is there, no two structures in one place, bitmaps right (but for `SfsTiny`), and nothing is written outside the partition. `WholeOrNothing`: no half volume with a signature, or with an end root of its own, after any cut or fault (`NeverHalf`), none handed to a handler (`MountedWhole`) |
| `session` | holds, 536 115 distinct states | `StoreSpec`: the session implements `TableStore`. `Apart`, `Bystanders`: partitions do not overlap and end where the table does (until an older header is restored alone); those no command names keep entry, in memory and on the disk, and blocks. Both leave out the entries on a device where a write of the table broke off below a standing header (`ghost.torn`; section 5, 1) |
| `editor` | holds, 916 808 distinct states | `StoreSpec`: the window implements `TableStore`. `Accepted`: every partition on the disk is at cylinders the user agreed to. `FormatsAsked`: only what was asked for, and not since formatted, deleted or edited, is formatted |
| `move_span` | `OthersUntouched` fails with large blocks | section 5, 3 |
| `session_alias` | `GrowOffline` fails | section 5, 11 |
| `editor_undo` | `UndoUntouched` fails | section 5, 12 |

`TypeOK` is checked in every module (in `part_clone` as a part of `Contained`, in `native_format` of `SoundVolume`).

### Bounds

`rdb_table`: 9 blocks, of which 8 are reserved, so that two partitions with either driver
fit (the large one exactly, for a table that starts at block 1), one partition with both drivers fits only at block 0, and two partitions with both do not fit at all; a scan range of 2, so that an older header can lie
below or above the new one; at most 2 partitions, 2 drivers and 3 LSEG blocks, so that each limit is met; a loop window
of 2, smaller than the longest chain, so that it fills. Two edits and one trouble (crash, fault or
decay) per behaviour, any number of loads and saves: each property involves at most a save that went wrong and a load
or save after it. The five disks are: blank, laid out by AmiPart with a bad block list, written by another tool below
an MBR with scattered unsorted chains, a header that claims another home, and chains that loop. The partitions
on offer are one that fits, one with large blocks that overlaps by its scale only, and one past the last cylinder.

`part_move`: cylinders 1 to 5 of 2 sectors, a partition of 4 sectors (SFS) and one of 2, chunks of 3 sectors, so that a move has a
full chunk and a rest and can overlap itself by half in both directions; three operations, two troubles. The SFS volume has as many sectors as its
partition, one less, or one more; in the last case the neighbour has roots of its own, which a move by one cylinder finds. The two have one
geometry: with two, the cylinder check says nothing (section 5, 3).

`ffs_resize`: bitmap blocks of four bits, two pages in the root, two in an extension block, chains of up to three
extension blocks, space of 26 blocks. The sizes 8 to 26 need from two to six bitmap blocks, so that a resize stays in the
range of its last bitmap block, needs new ones, fills the last extension block, and needs new extension blocks. The walk for the floor
is broken off after four blocks, which happens on volumes with a longer tail of bitmap blocks and not on the others. Four
volumes; two resizes with validation between them or not, and two troubles. Sizes whose last block has no bit (`size - Reserved` one more
than a multiple of the bits of a bitmap block) are left out: there a grow puts a bitmap block on a block of the old volume.

`sfs_resize`: blocks of two sectors, cylinders of eight sectors, bitmap blocks of eight bits; from two to eight cylinders, so that a
grow stays in the last bitmap block, appends to the bitmap, or has to move it; sequence numbers modulo eight, so that they wrap.
Four volumes: room behind the bitmap, a file there, an end root that is newer, no end root. Two resizes, one trouble, one file stored: each
resize begins either with a volume as it was made or with what one other resize left.

`pfs_resize`: cylinders of four blocks, bitmap blocks of three bits, two bitmap blocks to an index block, index limits of four
and three. Seven volumes: all of the bitmap there, with the last block free or used, an older shrink's seal, not a whole cylinder, bitmap blocks not yet created,
one that is damaged, a count that is too low. Two resizes, two files, one trouble.

`part_clone`: a disk with cylinders of two sectors and one with cylinders of three, two or one partitions each, the first FFS (with a boot block that names the root or not), SFS or PFS;
chunks of three sectors; names that one "CL-" fills; no file at the start, or a dump of an SFS volume larger than its entry, from a disk with cylinders of
two sectors, so that the two operations reach a dump and its restore, a clone and another, and a clone onto what such a restore has left; one trouble.

`native_format`: longwords of four bits, a slack of half of that (16 of 32 in the code), bitmap blocks of eight bits, and each size up to 60 (FFS),
100 (PFS) and 44 (SFS) blocks, so that the bitmap needs none, one and several extension or index blocks, with one to five reserved blocks and up to
nine deleted-directory blocks; SFS also over an SFS volume of the same size.

`session`: a hard disk and an image file of three cylinders, two drive names, one alias, at most three partitions and one driver,
scripts of four commands with every flag: a state of each kind (edited, saved, restored, mounted, failed) is followed by another command.
`editor`: a disk of four cylinders, two names, at most two partitions, tables in block 0 or beside an MBR; four events and any number of
mouse motions within a drag. `editor_undo` needs three events.

Deadlock is checked for `rdb_table`, `part_move` and `move_span`, which cannot stop; the others stop when their bound of operations is used
up or the session has ended.

### Fairness

Only loops of the one thread are fair: `WF(Load)` and `WF(Save)` in `RdbTable`, `WF(Advance)` in `PartMove`. They are straight-line loops that
wait for nothing but the device. Nothing is assumed of the user, of faults or of crashes, and `Close` or a crash may
end a loop at any time. `ReadEnds` therefore says that the walk itself is finite, `Ends` the same of moving and zeroing. The other modules
state safety only and assume no fairness.

## 4. Proofs

All theorems hold for every value of the constants that satisfies the named assumptions: any size of disk, table limits,
drivers, initial disks, chunk size, number of partitions, and any number of operations or commands. The assumptions, which TLC
evaluates in every run, are these.

* `RdbTable`: `BoundsAssumption`, `GeometryAssumption`, `ChoiceAssumption`, `InitDisksAssumption` (ranges of the constants, disks made of blocks).
* `PartMove`: `GeometryAssumption`, `TableAssumption` (a disk that has its cylinders, an initial table that lies inside it and apart). Two
  theorems ask for `OneGeometry`, heads and sectors that are the same for all partitions and blocks of 512 bytes, in addition: `move_span` is the
  counterexample without it.
* `PfsResize`: `ConstantsAssumption`: bitmap blocks are numbered from 0 to the last, a bitmap block has bits of its own range
  only and is told from an absent or a damaged one, and a volume whose `sizefield` flag is set
  states the size of its partition, for else no handler would have mounted it.
* `SfsResize`: `GeometryAssumption`: a bitmap block has more than one bit, a sequence number more than four values, the sizes asked for fit
  into the space, and every root on a volume at the start, a leftover one too, states a size within the space and a bitmap inside it, behind block 1 (`Room`:
  an SFS volume has its first containers there; a bitmap in block 1 would make the code take the start root for the older end root in front of it).
* `PartClone`: `ConstantsAssumption` and `StartAssumption`: a disk at the start is made of blocks with at most a table in sector 0, whose entries
  share no cylinder (what `Apart` of `Session` and the window's checks leave); a dump counts the blocks of a whole partition, though the file may
  end earlier. Partitions may reach past the disk's end, differ in their cylinders, and hold anything.
* `TableStore`: none but that devices are a set without `NoDevice`.
* `Session`: `SessionAssumption`: a disk has at least one cylinder and one header at most, block 0 is not header and MBR at once, and a table is
  at the home it names, within the table limit, with its partitions apart and below its last cylinder. All of this
  is asked of the disks at the start only; that it stays so is what is proved.
* `Editor`: `EditorAssumption`: disks, images and backups are of their types, a disk with a header in block 0 has no MBR there, and no
  table on a disk, in an image or in a backup asks for a format (`format_pending` is no field of a block). Partitions may overlap, lie anywhere and end
  before they begin: the window loads what it finds.

| Theorem | States | Inductive invariant |
|---|---|---|
| `RdbTable_proofs!TypeCorrect` | `[]TypeOK` of `RdbTable` | `TInv`: `TypeOK`, a walk pointer that is a block once the scan is over, an entry to append code to, and an image whose blocks are blocks and lie in front of the first cylinder (`TypeOK` alone says nothing of what is about to be written). `BeginWrite` establishes the last part from the check `Overflows` |
| `DataIsSafe` | `PartitionDataUntouched` | `TInv` and `DataInv`: data is exactly what lies behind the reserved area. With the image of a save in front of it, no block written is one of data; a layout check that is off by one would break the proof in `BeginWrite` |
| `HeaderIsLast` | `HeaderLast` | `TInv` and `HeaderInv`: while a save writes and no transfer was spoilt, every block of the image that is not left to write, other than the header, is on the disk |
| `ListIsSpared` | `[]BadbSpared`, on disks whose headers have a good list or none at the start (`ListsAtStart`) | `TInv`, `HeaderInv` and `BadbInv`: every header in the scan range has a good list, for `RDB_Read` may take any of them. A layout may grow over the list of another header; while a save retires those, the range is good only where it has been looked at |
| `MoveTypeCorrect` | `[]TypeOK` of `PartMove` | `PInv`: both tables stay inside the disk, and while a copy runs its two ranges are inside the disk and its index is inside the count |
| `MoveIsFaithful` | `MoveFaithful` | `PInv` and `CopyInv`: what was copied so far equals the old contents, and what is still to be copied is unchanged at its source; the second half is where the direction of the copy matters |
| `OthersAreSafe` | `OthersUntouched`, assuming `OneGeometry` | `PInv`, `ApartInv`: ranges of different partitions are disjoint, the target of a move included; and `RootsInv` |
| `SavedTableFindsAll` | `[]SavedWhole`, assuming `OneGeometry` | the invariants above and `WholeInv`: what is not lost and not in the middle of an overlapping copy is where the table in memory says (`Holds`), what is not open besides where the saved table says, and until an entry has changed the two agree. A copy that leaves its source alone is the only one whose partition may count as safe meanwhile |
| `RootsAreRight` | `RootsFollow` | `PInv` and `RootsInv`: as long as nothing failed, the first root is right when the second is looked at |
| `PfsResize_proofs!TypeCorrect` | `[]TypeOK` of `PfsResize` | `PInv` |
| `MountsWhereverItStops` | `[]MountsEitherWay` | `PInv` and `MountInv`: between resizes disk and handler mount with the table's size; during one the old rootblock stands until it is written over; once the flag is down the size is not compared; at the table write a handler that was held off holds what is on the disk, and one that was not has written nothing |
| `FloorIsTheGate` | `[]InfoMatchesGate` | none beyond `TypeOK`: that bitmap block `Of(b)` is the one whose `Cover` holds `b`, so that the walk over the blocks from `Of(new)` and the floor's maximum over the used blocks look at the same bits |
| `SoundResize` | `[]SoundWhenDone` | `PInv`, `MountInv` and `SoundInv`: until the root is written the disk is what it was when the resize began, with the freed bits of the last bitmap block (`Bits`); a shrink has found every block it gives up free; afterwards the rootblock holds the sums and the handler has written nothing. The count is then the cardinality of two disjoint parts |
| `SfsResize_proofs!TypeCorrect` | `[]TypeOK` of `SfsResize` | `TInv`: whatever is or may be written is `Good`, every root in it with room for its bitmap; up to the start root the old one stands and the last write of the plan is the end root, so that a commit comes after a block that exists. That the writes are made block by block from a set (`WritesOf`) needs that a finite set of numbers has an i-th member (`NthIsIn`) |
| `FloorIsTheGate` | `[]InfoMatchesGate` | `TInv`. The gate's scan reads the bits of all ranges from the new end on, the floor takes the largest used block: `TailScanned` and `FloorIsHighest` say both mean that the blocks from there on are free |
| `OldVolumeStands` | `[]OldVolumeKept` | `TInv` and `KInv`: a block in use (`InUse`) that is not as it was read is among those noted to be put back (`Recorded`); a write still to come is noted or is to a free block or behind the volume (`Sparing`); a shrink's writes are a bitmap block with marks taken away and a root in the tail that was found free (`Shrinks`). The property itself speaks of the moment a resize is cut off or has rolled back, and says nothing of the writes to come |
| `SoundResize` | `[]SoundWhenDone` of `SfsResize`, for a `Regular` volume | `TInv` and `Towards`, which says where the writes still to come lead. The new bitmap lies on the old one's blocks, on free ones or behind the old end (`Shape`), and the size asked for is kept to (`Fitting`). Up to the start root each block either is as planned (`Planned`) or has a write still to come that makes it so; after it the same holds for `Finished`; when the writes are done the volume is sound and its count is right (`Left`). `Planned` states the bitmap as a whole: what was free, with the old bitmap's place and the space up to the new end added, without the new bitmap and end root. That `LastEdit`, `NaturalWrites` and `MovedBitmap` each write that bitmap are three lemmas. A handler that is let in finds the new volume or none, and keeps bitmap and count in step, which needs the last part of `Regular` |
| `PartClone_proofs!CopyContained` | `[]Contained` of `PartClone` | `TInv` (disks made of blocks, the entries of an operation in their tables, its ranges inside its partitions and disks) and `KInv`: a disk that is read is as it was (`SourceKept`), nothing is written where the copy has not come to (`Ahead`), nothing outside the target's place nor, before the volume is grown, outside the copied range (`Around`); the root the fixups go by is the source's (`Begins`), and the table waits for it (`TableKept`). That the neighbours' places are disjoint from the target's is arithmetic on cylinders of one size (`PlacesApart`). `Contained` alone says nothing of the space between, into which a step might write before the next one looks there |
| `CopyFaithful` | `[]Faithful` of `PartClone` | `TInv`, `KInv` and `FInv`: what is copied so far equals the source; the fixups change roots only (`Bodies`); a volume that mounts (`Perfect`) has its root where the copy begins and its end root at the end of what was copied until it is grown to the place, then mounts there (`Stands`), under a name of its own once renamed (`Renamed`, from `Findable`). The source must not change meanwhile, which `KInv` has |
| `NothingForgotten` | `[]Honest` of `TableStore`: a copy without unsaved edits is what the disk holds, unless a slip went by or nothing may be written | `TypeOK` and `Honest`, with a copy only of a device that is open |
| `Session_proofs!TablesApart` | `[]Apart` of `Session` | `Sound`: `Kept`, or the session has ended with a write that broke off below a standing header, and what is not on that device is as `Kept` says (`TornKept`). `Kept`: every table that can become the one in memory or on a disk is apart: both headers of every device, the copy, and the last backup; one header per device at most, none beside an MBR in block 0, and a chain cut by a bad block has an entry to lose. `Apart` speaks of the tables that are read, and is not inductive without those that are hidden, backed up or cut |
| `BystandersKeep` | `[]Bystanders` of `Session` | `Sound` and `AllSpared`: a partition that was not named has its entry in every header of its device (unless a write broke off there) and in the copy, if that is of its device, and no cylinder of it was written. It needs `Sound`: that a command which names one partition writes inside it spares the others only because they lie apart |
| `KeepsThePromise` | `StoreSpec`: `Session` implements `TableStore` | `Sound` and `Homed`: a table that goes to block 1 finds no header in block 0, which would be read in its place. One lemma per command says which step of `TableStore` it is |
| `NoEditForgotten` | `[]Honest` of `TableStore` under `Session`'s mapping | `NothingForgotten` carried over by `KeepsThePromise` |
| `Editor_proofs!TypeCorrect` | `[]TypeOK` of `Editor` | `Inv`, below |
| `OnlyWhatWasAgreed` | `[]Accepted` | `Inv`: not the copy itself, but the copy with a drag in progress taken back (`Restored`) holds only extents the user agreed to, both headers on the disk do, and the drag finds its entry (`DragOK`), for else the release would put another one back. After an Undo with the button held (`split`) the drag knows nothing of the table any more, and only the types are left. `Accepted` alone speaks of the table that is read, and is lost when a header in block 0 goes and the one in block 1 appears |
| `FormatsWhatWasAsked` | `FormatsAsked` | `Inv`, with `Asked`: an entry that is to be formatted has a name for which a format is owed and which no other entry has. Without the second half a deleted name, given to a new entry, would let the old one be formatted |
| `KeepsThePromise` | `StoreSpec`: `Editor` implements `TableStore` | `Inv`. `Follows` says in the window's variables what a step of `TableStore` is: marked, in step again, slipped, or unnoticed; one lemma per event says which it is. The copy the promise sees is the one with the drag taken back, so motions are stutters |
| `NoEditForgotten` | `[]Honest` of `TableStore` under `Editor`'s mapping | `NothingForgotten` carried over |

Each proof module has type facts about the records, lemmas about the operators (the chunk arithmetic, the layout, what an edit of one
entry leaves of the others), one step per action or command, and a last step that combines them by temporal logic.

Only model-checked:

* liveness, `ReadEnds` and `Ends`, which is outside what the prover does;
* `TypeOK` of `Session`: a Write mounts what it has formatted by a fold over the partitions, and what a fold yields for every sequence takes an
  induction the provers cannot do. `Kept` has the types of everything but the DOS list;
* `LoadMatches` and `NoSilentLoss` of `RdbTable`: what the walk along a chain of any length finds is an induction over data;
* `BeginsRegular` of `SfsResize`, which holds for two resizes and not for any number (section 5, point 20);
* the properties of `FfsResize` and `NativeFormat`.

## 5. Known divergences

Where the code does not do what its own comments, documents or messages say. 3, 11 and 12 are runs; the properties of the other
runs are stated so that they hold beside these, and say so.

1. The ORDER comment (`rdb.c:2125-2128`) promises the old table or the new one after a power loss. The chains are
   rewritten in place, so until the header is written the old RDSK leads into a mixture, which loads without a
   complaint, with a partition missing or two that overlap. What does hold is `HeaderLast`. `Session` and `Editor` have such a write as an outcome
   (`Halves`, `Torn`); `Apart` and `Bystanders` leave out the entries on the device where it happened.
2. A damaged LSEG chain shortens a driver's code without setting `chain_truncated` (`rdb.c:1413-1427`), and the next
   save writes the short driver. `FEATURES.txt:221-222` promises a report and a refusal.
3. `PART_CanMove` compares cylinders as they stand (`partmove.c:147-160`), `PART_Move` copies `block_size / 512` times as much: a
   partition with blocks of 1024 bytes or more can be copied over its neighbour. (`move_span`) So can one whose PART block states heads or
   sectors of its own, with which `PART_Move` computes (`193-194`), with blocks of 512 bytes too.
4. `PART_Zero` (`partmove.c:452`) leaves the same factor out. With large blocks it zeroes sectors nearer to the start of the disk, which may be
   another partition's, and reports success.
5. A first SFS root that cannot be read in the patch loop is passed over by the `continue` meant for an absent end root
   (`partmove.c:373`), against the comment at `309-312`.
6. An FFS grow refused because its target is occupied has by then lengthened the extension chain (`ffsresize.c:583`). The
   larger grow after it appends behind the leftovers but copies from `old_bm_need` (`561`), not from where its own numbers start:
   two ranges share a bitmap block, others have none, and success is reported.
7. Only the number of new extension blocks is compared with `MAX_EXT_CHAIN` (`ffsresize.c:438`), not the length of the whole
   chain. Past it the list is full (`515`), and Phase 7 reads behind its end and writes what it finds as block numbers.
8. An FFS grow frees the old root's bit (`ffsresize.c:701-704`, `724-730`) before the new root is written. If it fails after that, the
   callers restore the old size "so the user keeps a working volume" (`partview_move.c:954`): its root is up for allocation
   in a bitmap flagged valid. The shrink avoids this on purpose (`1386-1390`).
9. "All writes before the root goes down at new_root touch only bitmap-free blocks or add used-marks; the volume stays fully mountable at its
   OLD geometry until the caller writes the RDB" (`ffsresize.c:1396-1400`). But an extension block that stays in its place (`1672-1675`) is
   rewritten with the pages of the smaller volume and the end of its chain (`1747-1759`), before the root: from then on the old root leads to
   too few bitmap blocks for the old size. `ShrinkStands` names that case. And the new root may be put on a bitmap block of the
   old chain (`1696`).
10. `pfsresize.c:549-556` says that Inhibit makes the handler flush before it reads our rootblock; but the rootblock is written before Inhibit
   (`529`, `1038`), so a handler with unwritten changes writes its old rootblock over the new one, the success is reported and the table
   gets the new size. And the reserved blocks a PFS grow needs are counted between the two sizes only (`379`), not, as `48-52` says,
   all that are still to be created.
11. `script.c:1826-1827` says the grow must not run under a live handler. A partition whose name another disk uses is mounted as `DPF0`..`DPF9`
   (`quickformat.c:162-171`), and the next `GROW` looks for the drive's name (`440`), finds nothing mounted and writes under the handler. (`session_alias`)
12. Undo's question says the disk is untouched since the last Write (`amipart_strings.h:2936`). Init RDB with an MBR writes block 0 at once
   (`partview.c:3402`), the resize offers write the whole table (`partview_move.c:1015`), and all of them leave the dirty mark set. (`editor_undo`)
13. A clone of SFS onto a larger partition of which whole cylinders hold the source asks for no more blocks than it has: `sfsresize.c:390` ignores
   the count and the grow falls back on the cylinders, past the partition's end; `partclone.c:841-850` promises an exact fit.
14. `PartClone_ValidateFootprint` compares cylinders (`partclone.c:171`), against `partclone.h:85-88`: a dump from a disk with other
   cylinders is restored over a neighbour, and leaves an entry onto which a later clone is written over it as well. `Uniform` leaves both out.
15. `GROW`, `SHRINK`, `PARTCLONE` and `PARTIN` change the partition before the write of a table with a damaged chain is refused (`script.c:1872`);
   `cmdline.txt:409-410` promises a refusal. `CREATE FILE` makes its image in a dry run (`545`; `cmdline.txt:419`).
16. `nativefmt.c:20-22` says its root is where `ffsresize.c` assumes it; `ffsresize.c:637-640` computes `(Reserved + HighestBlock) / 2`, one
   block higher for two reserved blocks and an odd count.
17. The close gadget's Write (`partview.c:2678-2696`) saves the table without the formats and unmounts that the Write gadget owes; no reboot is
   asked for.
18. `pfsresize.c:1046-1047` says that a grow repairs volumes an older shrink sealed. The pass looks at the last bitmap block of the size before
   the grow (`445`). A shrink by whole bitmap blocks leaves a sealed block behind, with the index entry that names it ("never referenced
   again", `804`); the next grow brings it back, and its bits stay allocated while `blocksfree` counts them free.
   `SoundWhenDone` asks for `Repairable` for this reason: its proof failed without it, and TLC finds the case with the sealed volume of `pfs_resize`, shrunk from five
   cylinders to two and grown to six.
19. `pc_sfs_fixup` (`partclone.c:259-275`) takes the end root's place from the size the first root states, and patches whatever SFS root
   stands there. A volume that states more blocks than its partition has, which a restore with other cylinders leaves, makes it
   look behind the target, and write into a neighbour that has a root at that place. `partclone.h:12-15` speaks of the
   offsets in the copy's own root blocks only. `Outsized` leaves such sources out. The proof of `Contained` brought this case up.
20. `sfsresize.c:936-940` leaves a partition that was grown inhibited until the reboot. A shrink of it (`1548`), or another resize that fails (`941`),
   lets the handler in: each call knows only that it has inhibited itself (`Inhibit` is modelled as a switch, it does not count). The handler is still mounted at the first size. If a shrink back
   to that size has failed at its start root, the end root it wrote is still there and names the old bitmap; a grow that then moves the
   bitmap makes that one obsolete, and after another shrink the handler allocates from it. TLC finds this with four resizes of the `sfs_resize` volumes and one
   trouble, as a violation of `SoundWhenDone` without `Regular`, and of `BeginsRegular` with three.
21. `sfs_format` takes every size with 16 free blocks (`nativefmt.c:944`), but fills the longword in which they begin to its end (`1032-1036`). If the volume
   ends within that longword (52 to 64 blocks with two reserved blocks and one bitmap block) the end root, and the bits behind the volume, are marked free.
22. `nativefmt.c:44-46` says an interrupted format never leaves a signature on top of a half-written skeleton. `sfs_format` wipes block 0 only
   (`955-957`). When an SFS volume of the same size stood there, its end root in the last block stays until the end while the
   blocks it leads to are written over, and SFS takes a valid end root when there is no start root. `NeverHalf` leaves that end root out.
23. `PART_Move` patches the position into the SFS root it finds at the last block the first root states (`partmove.c:366-384`), as in 19: behind an outsized
   volume that is a sector of another partition, against `partmove.h:31`. `OutsizedRoot` names that case.
24. `pfsresize.c:544-547` says that without the Inhibit PFS keeps its stale rootblock and will write it back. If `Inhibit` fails, or the partition has no
   name, the code goes on (`556-560`, `1076-1080`) and reports success: `Unheld`. TLC finds the old rootblock, with the old size and its flag, back on a disk whose table
   has the new size when `raced` does not cover what such a handler stores.
25. `partclone.c:563-566` and `889-892` rename a clone because two volumes of one name cannot both be mounted. `pc_relabel_ffs` returns without a word
   when the boot block's root number is 0 (`592-594`), which `ffsresize.c:323` says some formatters leave: such a clone of the same size keeps
   its source's name (a larger one has been grown, which writes the number). `Renamable` leaves it out; without it TLC finds `Faithful` violated.

## 6. Not modelled

Parsing, wording, drawing, locale, the transfer layer below a block (retries, 64-bit commands), device and disk selection, SMART and raw block
viewers, `RDB_IntegrityCheck` and the other commands that only read. The bad block scan and `write_badb`: the scan is a loop over blocks that
stores a list; `write_badb` puts it at `rdb_block_hi + 1` of the table in memory and patches the header it finds (hazard at
`partview_rdb.c:3064`). Loading a handler's code and the DOS packets behind a mount. The planning of the range `ClearRDB` zeroes: `Session` and
`Editor` have its effect on the headers. The host port is a test harness and runs the same engine.

## 7. Plan

Done: the modules above. To come:

1. Proofs: `OnlyMarksUsed` of `FfsResize`, with the assumption that the blocks of a volume's chain are distinct.
2. A module `BadBlocks` that extends `RdbTable`'s disk with the list, its scan and its write.
3. `RdbTable` without troubles as an implementation of `TableStore`, so that `Sync` is what `RDB_Write` and `RDB_Read` give together.
4. The plan of `ClearRDB`, and chains longer than the table's limits in `rdb_table`.
