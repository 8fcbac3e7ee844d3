----------------------------- MODULE MCSession -----------------------------
(* Session on a disk of three cylinders for two partitions. *)
EXTENDS Session

Part(name, lo, hi) == [name |-> name, lo |-> lo, hi |-> hi, want |-> FALSE]
MCTable(home, top, parts) == [home |-> home, top |-> top, drivers |-> 0, parts |-> parts, cut |-> FALSE]
Holds(t0, t1, mbr) == [t |-> [h \in 0..1 |-> IF h = 0 THEN t0 ELSE t1], mbr |-> mbr, new |-> {}]

MCSlots == {[lo |-> 3, hi |-> 3]}
Two == MCTable(0, TopCyl, <<Part("DH0", 1, 1), Part("DH1", 2, 2)>>)

MCStarts == {Holds(Two, NoTable, NoMbr),
             Holds([Two EXCEPT !.cut = TRUE], NoTable, NoMbr),
             Holds(NoTable, MCTable(1, TopCyl, <<Part("DH0", 1, 1)>>), MCSlots)}
MCImages == {Holds(MCTable(0, 2, <<Part("DH1", 1, 2)>>), NoTable, NoMbr)}
=============================================================================
