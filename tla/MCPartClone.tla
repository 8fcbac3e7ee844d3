---------------------------- MODULE MCPartClone ----------------------------
(***************************************************************************)
(* Instances of PartClone for TLC: a disk with cylinders of two sectors and *)
(* one with cylinders of three.                                             *)
(***************************************************************************)
EXTENDS PartClone, TLC

MCDisks == {1, 2}
MCSize == <<8, 14>>

\* The volume v of n sectors from sector b on, i its i-th sector.
Volume(type, v, n, b, flag, i) ==
    IF i = 0 \/ (type = "sfs" /\ i = n - 1) THEN Root(type, v, i, n, b, flag, 0) ELSE Data(v, i)

\* A disk with a table, the parts of which hold volumes.
Formatted(d, t, flag) == [b \in Sectors(d) |->
    IF b = 0 THEN t
    ELSE IF \E p \in t.parts : b \in Place(p)
         THEN LET p == CHOOSE p \in t.parts : b \in Place(p)
              IN Volume(p.type, <<d, p.low>>, Count(p), Base(p), flag, b - Base(p))
         ELSE Zero]

Small(type, fs) == Rdb({Entry(1, 2, 2, 1, type), Entry(3, 3, 2, 1, "sfs")}, 1, 3, 2, fs)
Roomy == Rdb({Entry(1, 1, 3, 1, "sfs")}, 1, 3, 3, {})
Twin == Rdb({Entry(1, 1, 3, 1, "sfs"), Entry(2, 3, 3, 1, "ffs")}, 1, 3, 3, {})

\* Of FFS, a boot block that names the root and one that does not.
MCStart ==
    {<<Formatted(1, Small(k[1], {k[1]}), k[2]), Formatted(2, t, FALSE)>> :
        k \in {<<"ffs", TRUE>>, <<"ffs", FALSE>>, <<"sfs", TRUE>>, <<"pfs", TRUE>>},
        t \in {Twin, Roomy}}
\* No file, or a dump from a disk with cylinders of two sectors, foreign to the second disk:
\* an entry of two sectors on a volume that had five.
MCDump == [kind |-> "dump", head |-> Entry(1, 1, 2, 1, "sfs"), count |-> 2,
           blocks |-> [i \in 1 .. 2 |-> Volume("sfs", <<9>>, 5, 0, FALSE, i - 1)]]
MCFiles == {NoFile, MCDump}
MCVolumes == (MCDisks \X (1 .. 3)) \cup {<<9>>}
=============================================================================
