----------------------------- MODULE MCPartMove -----------------------------
(***************************************************************************)
(* Instances of PartMove for TLC: cylinders of two sectors, a partition of  *)
(* two cylinders and one of one, chunks of three sectors, so that a move    *)
(* takes a full chunk and a rest and may overlap itself by half.  The SFS   *)
(* volume on dh0 is as large as the partition, or one sector smaller, or    *)
(* one sector larger; in the last case dh1, no longer of an SFS type, still *)
(* has the root blocks of one.                                             *)
(***************************************************************************)
EXTENDS PartMove, TLC

CONSTANTS dh0, dh1

MCParts == {dh0, dh1}
MCInitTable == (dh0 :> [low |-> 1, high |-> 2]) @@ (dh1 :> [low |-> 4, high |-> 4])
PlainScale == (dh0 :> 1) @@ (dh1 :> 1)
MCSpc == (dh0 :> 2) @@ (dh1 :> 2)
MCTotals == {(dh0 :> 4) @@ (dh1 :> 0), (dh0 :> 3) @@ (dh1 :> 0), (dh0 :> 5) @@ (dh1 :> 2)}

\* dh0 with blocks of 1024 bytes covers cylinders 2..5 of the disk, dh1 its
\* cylinder 7.
WideTable == (dh0 :> [low |-> 1, high |-> 2]) @@ (dh1 :> [low |-> 7, high |-> 7])
NoTotals == {(dh0 :> 0) @@ (dh1 :> 0)}
WideScale == (dh0 :> 2) @@ (dh1 :> 1)
=============================================================================
