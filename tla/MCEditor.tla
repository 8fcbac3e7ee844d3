------------------------------ MODULE MCEditor ------------------------------
(* Editor on a disk of four cylinders. *)
EXTENDS Editor

Part(name, lo, hi) == NewPart(name, lo, hi, FALSE)
MCTable(home, hi, parts) == [home |-> home, lo |-> 1, hi |-> hi, drivers |-> 0, parts |-> parts]
Holds(t0, t1, mbr) == [t |-> [h \in 0..1 |-> IF h = 0 THEN t0 ELSE t1], mbr |-> mbr]

MCSlots == {[lo |-> c, hi |-> 3] : c \in 2..3}
MCStarts == {Holds(MCTable(0, TopCyl, <<Part("DH0", 1, 1), Part("DH1", 2, 2)>>), NoTable, NoMbr),
             Holds(NoTable, MCTable(1, TopCyl, <<Part("DH0", 1, 2)>>), {[lo |-> 3, hi |-> 3]})}
MCImages == {Holds(MCTable(0, 2, <<Part("DH1", 1, 2)>>), NoTable, NoMbr)}
MCBackups == {MCTable(1, 2, <<Part("DH1", 2, 2)>>)}
=============================================================================
