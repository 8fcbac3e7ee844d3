---------------------------- MODULE MCPfsResize ----------------------------
(***************************************************************************)
(* Instances of PfsResize for TLC: cylinders of four blocks, bitmap blocks  *)
(* of three bits, two bitmap blocks to an index block.                      *)
(***************************************************************************)
EXTENDS PfsResize, TLC

MCBmb == 0 .. 9

\* A volume of n cylinders, the bitmap blocks K of which exist, with files in F, the
\* bits of S -- behind the end -- sealed, r blocks of the reserved area free.
Volume(n, t, K, F, S, r, sizefield, super) == [cyls |-> n, disk |-> [
    size |-> t, free |-> t - BmStart - Cardinality(F), resfree |-> r, roving |-> 3,
    sizefield |-> sizefield, super |-> super,
    index |-> [i \in Index |-> IF \E k \in K : IdxOf(k) = i THEN "good" ELSE Absent],
    bm |-> [k \in Bmb |-> IF k \in K THEN Cover(k) \ (F \cup S) ELSE Absent]]]

MCVolumes == {
    Volume(3, 12, 0 .. 2, {4}, {}, 4, TRUE, TRUE),      \* all of the bitmap is there
    Volume(3, 12, 0 .. 2, {4, 11}, {}, 4, TRUE, TRUE),  \* and its last block is used
    Volume(4, 15, {0}, {3}, {}, 6, FALSE, FALSE),       \* not a whole cylinder
    Volume(5, 20, {0, 1}, {3, 6}, {}, 3, TRUE, FALSE)}

\* An older shrink has sealed it.
Sealed == {Volume(5, 20, {0, 5}, {4}, {20}, 8, FALSE, TRUE)}
\* One bitmap block is not a bitmap block.
Broken == {[cyls |-> 5, disk |-> [v.disk EXCEPT !.bm[1] = Bad, !.index[2] = Bad]] :
              v \in {Volume(5, 20, 0 .. 5, {3}, {}, 3, TRUE, TRUE)}}
\* The count of free blocks is too low.
Stale == {[v EXCEPT !.disk.free = 3] : v \in {Volume(5, 20, 0 .. 5, {3}, {}, 3, TRUE, TRUE)}}
AllVolumes == MCVolumes \cup Sealed \cup Broken \cup Stale
=============================================================================
