---------------------------- MODULE MCSfsResize ----------------------------
(***************************************************************************)
(* Instances of SfsResize for TLC: cylinders of four blocks, bitmap blocks  *)
(* of eight bits, sequence numbers modulo eight.                            *)
(***************************************************************************)
EXTENDS SfsResize, TLC

\* A volume of n cylinders with its bitmap at `base`, sequence number s at the start
\* and e at the end, and files in the blocks F; the end root may be missing.
Volume(n, base, s, e, F, gone) ==
    LET t == Blocks(n)
        bitmap == base .. base + Bmbs(t) - 1
        used == {0, RootObj, t - 1} \cup bitmap \cup F
        free(k) == {b \in Cover(k) : b < t /\ b \notin used}
    IN [cyls |-> n,
        disk |-> [b \in Block |->
            IF b = 0 THEN Root(0, t, base, s)
            ELSE IF b = t - 1 THEN IF gone THEN Blank ELSE Root(b, t, base, e)
            ELSE IF b \in bitmap THEN Bm(free(b - base))
            ELSE IF b = RootObj THEN Objc(t - Cardinality(used))
            ELSE IF b \in F THEN Data ELSE Blank]]

MCVolumes == {
    Volume(3, 2, 0, 0, {}, FALSE),              \* room behind the bitmap
    Volume(3, 2, 6, 7, {4}, FALSE),             \* a file behind the bitmap; a wrap
    Volume(5, 3, 7, 0, {2}, FALSE),             \* the end root is newer
    Volume(6, 2, 3, 1, {8}, TRUE)}              \* no end root
=============================================================================
