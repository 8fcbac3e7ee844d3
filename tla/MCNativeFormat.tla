---------------------------- MODULE MCNativeFormat ----------------------------
(* NativeFormat with longwords of four bits. *)
EXTENDS NativeFormat

MCPart(fs, size, reserved, cache, deldir) ==
    [fs |-> fs, size |-> size, reserved |-> reserved, cache |-> cache, deldir |-> deldir,
     safe |-> FALSE, file |-> TRUE, sfs |-> FALSE, resident |-> FALSE, driver |-> FALSE]

\* Images, each size; and the ways the dispatcher can go, on a device.
MCParts ==
    {MCPart("FFS", n, r, c, 0) : n \in 4..60, r \in {2, 5}, c \in BOOLEAN}
    \cup {MCPart("PFS", n, 2, FALSE, d) : n \in 30..100, d \in {0, 1, 3, 6, 9}}
    \cup {[MCPart("SFS", n, r, FALSE, 0) EXCEPT !.sfs = s] :
              n \in 12..44, r \in {1, 2}, s \in BOOLEAN}
    \cup {[p EXCEPT !.file = FALSE, !.safe = s, !.resident = m, !.driver = d, !.fs = f] :
             p \in {MCPart("SFS", 24, 2, FALSE, 0)}, s \in BOOLEAN, m \in BOOLEAN, d \in BOOLEAN,
             f \in {"FFS", "PFS", "SFS", "other"}}

MCSchijf == <<<<20, 4>>, <<30, 5>>, <<1000, 8>>>>
=============================================================================
