----------------------------- MODULE TableStore -----------------------------
(***************************************************************************)
(* What every front end of AmiPart promises about the partition table: the *)
(* disks hold tables, the program holds a copy of one of them, edits touch *)
(* the copy and are counted as unsaved until the copy is on the disk.      *)
(* Scripts (module Session) and the window (module Editor) implement it.   *)
(***************************************************************************)
CONSTANTS Devices,     \* the disks and image files
          Tables,      \* what a disk can hold
          NoDevice,    \* nothing is open
          NoTable,     \* a disk without a table, a copy that is not valid
          Seen(_)      \* the copy that reading a table gives

VARIABLES store,       \* the table on each device
          open,        \* the device that is open
          copy,        \* the table in memory
          unsaved,     \* the front end's note that the copy has edits
          behind,      \* the copy and the disk went apart unnoticed since it was read
          preview,     \* nothing may be written (DRYRUN)
          over         \* the session has stopped

vars == <<store, open, copy, unsaved, behind, preview, over>>

TypeOK == /\ store \in [Devices -> Tables]
          /\ open \in Devices \cup {NoDevice}
          /\ unsaved \in BOOLEAN
          /\ behind \in BOOLEAN
          /\ preview \in BOOLEAN
          /\ over \in BOOLEAN

Init == /\ store \in [Devices -> Tables]
        /\ open = NoDevice
        /\ copy = NoTable
        /\ unsaved = FALSE
        /\ behind = FALSE
        /\ preview \in BOOLEAN
        /\ over = FALSE

\* The copy is what reading the open device gives.
InStep == copy = Seen(store[open])

\* A device is opened; a new image file starts with any table, an open one
\* keeps its own.
Load(d) == /\ open' = d
           /\ store' \in [Devices -> Tables]
           /\ \A e \in Devices \ {d} : store'[e] = store[e]
           /\ copy' = Seen(store'[d])
           /\ unsaved' = FALSE
           /\ behind' = FALSE
           /\ UNCHANGED <<preview, over>>

\* The copy is edited; making room for an MBR takes the table off the disk.
Edit == /\ open # NoDevice
        /\ store' \in [Devices -> Tables]
        /\ \A e \in Devices \ {open} : store'[e] = store[e]
        /\ unsaved' = TRUE
        /\ UNCHANGED <<open, behind, preview, over>>

\* The copy goes to the disk, or the disk's new table is read into the copy.
Sync == /\ open # NoDevice
        /\ store' \in [Devices -> Tables]
        /\ \A e \in Devices \ {open} : store'[e] = store[e]
        /\ copy' = Seen(store'[open])
        /\ unsaved' \in {FALSE, unsaved}
        /\ behind' \in {FALSE, behind}
        /\ UNCHANGED <<open, preview, over>>

\* A preview says it has saved.
Pretend == /\ preview
           /\ unsaved' = FALSE
           /\ UNCHANGED <<store, open, copy, behind, preview, over>>

\* The copy and the disk go apart unnoticed: a second copy of the table is
\* written, or a change to either one leaves no mark.
Slip == /\ open # NoDevice
        /\ store' \in [Devices -> Tables]
        /\ behind' = TRUE
        /\ unsaved' \in {FALSE, unsaved}
        /\ UNCHANGED <<open, preview, over>>

Elsewhere == /\ store' \in [Devices -> Tables]
             /\ open # NoDevice => store'[open] = store[open]
             /\ UNCHANGED <<open, copy, unsaved, behind, preview, over>>

Drop == /\ open' = NoDevice
        /\ copy' = NoTable
        /\ unsaved' = FALSE
        /\ UNCHANGED <<store, behind, preview, over>>

\* A command fails and the session ends: whatever it had written stays.
Stop == /\ over' = TRUE
        /\ store' \in [Devices -> Tables]
        /\ open' \in Devices \cup {NoDevice}
        /\ unsaved' \in BOOLEAN
        /\ behind' \in BOOLEAN
        /\ UNCHANGED preview

Next == /\ ~over
        /\ \/ \E d \in Devices : Load(d)
           \/ Edit \/ Sync \/ Pretend \/ Slip \/ Elsewhere \/ Drop \/ Stop

Spec == Init /\ [][Next]_vars

-----------------------------------------------------------------------------
(***************************************************************************)
(* No edit is forgotten: while the session runs, a copy with no unsaved    *)
(* edits is what the disk holds, unless a second writer went by or nothing *)
(* may be written.                                                          *)
(***************************************************************************)
Honest == ~over /\ open # NoDevice /\ ~unsaved /\ ~behind /\ ~preview => InStep
=============================================================================
