---------------------------- MODULE MCFfsResize ----------------------------
(***************************************************************************)
(* Instances of FfsResize for TLC: bitmap blocks of four bits, two of them  *)
(* named by the root and two by an extension block, so that volumes of a    *)
(* dozen blocks need the whole chain.                                       *)
(***************************************************************************)
EXTENDS FfsResize, TLC

\* A volume of n blocks: its root, its bitmap blocks, its extension blocks, and a
\* function from the other blocks in use to their contents.
Volume(n, r, bms, exts, kids, tree) ==
    LET inRoot == SubSeq(bms, 1, Min({Len(bms), RootSlots}))
        behind == ExtBlocks(SubSeq(bms, RootSlots + 1, Len(bms)), exts)
        used == {r} \cup Range(bms) \cup Range(exts) \cup DOMAIN tree
        free(k) == {b - Natural(k) : b \in (Natural(k) .. Min({Natural(k + 1), n}) - 1) \ used}
        place(s, b) == CHOOSE k \in DOMAIN s : s[k] = b
    IN [size |-> n,
        disk |-> [b \in Block |->
            IF b = 0 THEN Boot(0)
            ELSE IF b = r THEN Root(inRoot, First(exts), kids)
            ELSE IF b \in Range(bms) THEN Bm(free(place(bms, b)))
            ELSE IF b \in Range(exts) THEN behind[place(exts, b)]
            ELSE IF b \in DOMAIN tree THEN tree[b] ELSE Blank]]

\* A new volume: a file and an empty one in a bucket.
Small == Volume(8, 4, <<5, 6>>, <<>>, <<2>>,
                (2 :> Entry(4, 7, {3})) @@ (3 :> Data) @@ (7 :> Entry(4, 0, {})))

\* An extension block with room, and data where some sizes have their root.
Middle == Volume(12, 6, <<7, 8, 9>>, <<10>>, <<2, 3>>,
                 (2 :> Entry(6, 0, {})) @@ (3 :> Entry(6, 0, {11})) @@ (11 :> Data))

\* Filled from below, as the file system does it, its last block a bitmap block.
Large == Volume(16, 8, <<9, 7, 6, 15>>, <<14>>, <<2>>,
                (2 :> Entry(8, 0, {3})) @@ (3 :> Data))

\* The same, with a file further up.
Filled == Volume(16, 8, <<9, 10, 11, 12>>, <<13>>, <<2>>,
                 (2 :> Entry(8, 0, {5})) @@ (5 :> Data))

MCVolumes == {Small, Middle, Large, Filled}
=============================================================================
