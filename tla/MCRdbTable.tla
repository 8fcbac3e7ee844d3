---------------------------- MODULE MCRdbTable ----------------------------
(***************************************************************************)
(* Instances of RdbTable for TLC.  The reserved area has 8 blocks, the     *)
(* scan range 2; block 8 belongs to the first partition.                   *)
(***************************************************************************)
EXTENDS RdbTable

CONSTANTS small, big

MCDrivers == {small, big}
MCCodeLen == (small :> 1) @@ (big :> 3)

P1 == [low |-> 1, high |-> 2, scale |-> 1]
P2 == [low |-> 3, high |-> 4, scale |-> 1]
Wide == [low |-> 1, high |-> 1, scale |-> 2]     \* covers units 2..3
Long == [low |-> 3, high |-> 5, scale |-> 1]     \* past HiCyl
MCPartChoices == {P2, Wide, Long}

RdskB(lo, parts, fs, badb) ==
    [id |-> "RDSK", lo |-> lo, parts |-> parts, fs |-> fs, badb |-> badb]
PartB(next, p) == [id |-> "PART", next |-> next, part |-> p]
FshdB(next, seg, d) == [id |-> "FSHD", next |-> next, seg |-> seg, drv |-> d]
LsegB(next, d, k) == [id |-> "LSEG", next |-> next, data |-> [drv |-> d, k |-> k]]

\* A disk is the given blocks, zeroes elsewhere, and partition data at 8.
DiskOf(blocks) ==
    [l \in 0 .. 8 |-> IF l = 8 THEN [id |-> "DATA"]
                      ELSE IF l \in DOMAIN blocks THEN blocks[l] ELSE Zero]

FsE(d) == [drv |-> d, code |-> [k \in 1 .. MCCodeLen[d] |-> [drv |-> d, k |-> k]]]
Known(valid, parts, fs) ==
    [tables |-> {[valid |-> valid, parts |-> parts, fs |-> fs]}, sure |-> TRUE]

Blank == [disk |-> DiskOf(<< >>), owed |-> {},
          expect |-> Known(FALSE, {}, << >>)]

\* As RDB_Write lays it out, with a bad block list behind the layout.
Own == [disk |-> DiskOf((0 :> RdskB(0, 1, 3, 6)) @@ (1 :> PartB(2, P1))
                        @@ (2 :> PartB(End, P2)) @@ (3 :> FshdB(End, 4, small))
                        @@ (4 :> LsegB(End, small, 1)) @@ (6 :> [id |-> "BADB"])),
        expect |-> Known(TRUE, {P1, P2}, <<FsE(small)>>), owed |-> {P1, P2, small}]

\* Another tool's: below an MBR, chains scattered and out of order.
Scattered ==
    [disk |-> DiskOf((0 :> [id |-> "MBR"]) @@ (1 :> RdskB(1, 6, 4, End))
                     @@ (6 :> PartB(3, P2)) @@ (3 :> PartB(End, P1))
                     @@ (4 :> FshdB(End, 7, big)) @@ (7 :> LsegB(2, big, 1))
                     @@ (2 :> LsegB(5, big, 2)) @@ (5 :> LsegB(End, big, 3))),
     expect |-> Known(TRUE, {P1, P2}, <<FsE(big)>>), owed |-> {P1, P2, big}]

\* The header is found at block 0 and says it lives at block 1.
Displaced ==
    [disk |-> DiskOf((0 :> RdskB(1, 2, End, End)) @@ (2 :> PartB(End, P1))),
     expect |-> Known(TRUE, {P1}, << >>), owed |-> {P1}]

\* Damaged: the PART chain runs back into itself in front of P2, and the code
\* chain ends in a loop on its last block.
Looped ==
    [disk |-> DiskOf((0 :> RdskB(0, 1, 3, End)) @@ (1 :> PartB(1, P1))
                     @@ (2 :> PartB(End, P2)) @@ (3 :> FshdB(End, 4, big))
                     @@ (4 :> LsegB(5, big, 1)) @@ (5 :> LsegB(6, big, 2))
                     @@ (6 :> LsegB(6, big, 3))),
     expect |-> Unknown, owed |-> {P1, P2, big}]

MCInitDisks == {Blank, Own, Scattered, Displaced, Looped}

MCFreshLo == {0, 1}
===========================================================================
