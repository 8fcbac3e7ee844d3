--------------------------- MODULE Session_proofs ---------------------------
(***************************************************************************)
(* Proofs about Session, for any number of devices' cylinders, any names,  *)
(* any media at the start and any number of commands.                      *)
(*                                                                         *)
(* TablesApart: Apart, by the inductive Sound: either all tables are in    *)
(* order (Kept), or the session has ended with a write that broke off      *)
(* below a standing header, and all but that device's are (TornKept).      *)
(* BystandersKeep: Bystanders, by Sound and the inductive AllSpared.       *)
(* KeepsThePromise: StoreSpec, a session implements TableStore, by Sound   *)
(* and Homed, which says that a table the memory will write to block 1 has *)
(* nothing above it.                                                       *)
(* NoEditForgotten: Honest of the promise, by NothingForgotten.            *)
(***************************************************************************)
EXTENDS Session, SequenceTheorems, WellFoundedInduction, TLAPS

---------------------------------------------------------------------------
(* Numbers and sequences *)

\* A set of naturals has a least one.
LEMMA MinOfSet ==
    ASSUME NEW S \in SUBSET Nat, S # {}
    PROVE  Min(S) \in S /\ \A x \in S : Min(S) <= x
<1>1. PICK m \in S : \A y \in S : ~(<<y, m>> \in OpToRel(<, Nat))
  BY NatLessThanWellFounded, WFMin, Zenon
<1>2. ASSUME NEW y \in S PROVE m <= y
  <2>1. ~(y < m)
    BY <1>1 DEF OpToRel
  <2> QED BY <2>1
<1>3. \E x \in S : \A y \in S : x <= y
  BY <1>2
<1>4. Min(S) \in S /\ \A y \in S : Min(S) <= y
  BY <1>3, Zenon DEF Min
<1> QED BY <1>4

\* The partitions of a table, one by one.
LEMMA Extents ==
    ASSUME NEW t \in Records
    PROVE  /\ t.parts \in Seq(Parts) /\ Len(t.parts) \in Nat
           /\ DOMAIN t.parts = 1 .. Len(t.parts)
           /\ \A i \in DOMAIN t.parts :
                 /\ t.parts[i] \in Parts /\ t.parts[i] \in PartsOf(t)
                 /\ t.parts[i].lo \in 1 .. TopCyl /\ t.parts[i].hi \in 1 .. TopCyl
                 /\ t.parts[i].lo \in Nat /\ t.parts[i].hi \in Nat
                 /\ t.parts[i].name \in Names
                 /\ Span(t.parts[i]) \subseteq Cyls
           /\ \A p \in PartsOf(t) : \E i \in DOMAIN t.parts : p = t.parts[i]
<1>1. t # NoTable /\ t.parts \in Seq(Parts) /\ TopCyl \in Nat
  BY SessionAssumption DEF Records
<1>2. Len(t.parts) \in Nat /\ DOMAIN t.parts = 1 .. Len(t.parts)
      /\ \A i \in DOMAIN t.parts : t.parts[i] \in Parts
  BY <1>1
<1>3. PartsOf(t) = {t.parts[i] : i \in DOMAIN t.parts}
  BY <1>1 DEF PartsOf, Range
<1>4. ASSUME NEW p \in Parts
      PROVE  /\ p.lo \in 1 .. TopCyl /\ p.hi \in 1 .. TopCyl /\ p.name \in Names
             /\ p.lo \in Nat /\ p.hi \in Nat /\ Span(p) \subseteq Cyls
  BY <1>1 DEF Parts, Span, Cyls
<1> QED BY <1>1, <1>2, <1>3, <1>4

---------------------------------------------------------------------------
(* Tables whose partitions lie apart *)

\* What every table keeps; `older' says that a header may be older than its lists.
Good(t, older) ==
    /\ t \in Tables /\ Disjoint(t) /\ (~older => Inside(t))
    /\ t # NoTable => Len(t.parts) <= MaxParts

Clean(t) == \A p \in PartsOf(t) : ~p.want

LEMMA GoodNoTable == ASSUME NEW older PROVE Good(NoTable, older) /\ Clean(NoTable)
BY DEF Good, Tables, Disjoint, Inside, Clean, PartsOf

LEMMA GoodRecord ==
    ASSUME NEW t, NEW older, t \in Records
    PROVE  Good(t, older) <=> /\ Disjoint(t) /\ (~older => Inside(t))
                              /\ Len(t.parts) <= MaxParts
BY SessionAssumption DEF Good, Tables

\* A table whose entries are some of those of another, in their places.
Selects(u, t) ==
    /\ u \in Records /\ u.top = t.top /\ Len(u.parts) <= Len(t.parts)
    /\ \E m \in [DOMAIN u.parts -> DOMAIN t.parts] :
         /\ \A i, j \in DOMAIN u.parts : m[i] = m[j] => i = j
         /\ \A i \in DOMAIN u.parts : /\ u.parts[i].lo = t.parts[m[i]].lo
                                      /\ u.parts[i].hi = t.parts[m[i]].hi

LEMMA SelectedGood ==
    ASSUME NEW t \in Records, NEW u, NEW older, Good(t, older), Selects(u, t)
    PROVE  Good(u, older)
<1>1. u \in Records /\ t # NoTable /\ u # NoTable /\ MaxParts \in Nat
  BY SessionAssumption DEF Selects
<1>2. PICK m \in [DOMAIN u.parts -> DOMAIN t.parts] :
         /\ \A i, j \in DOMAIN u.parts : m[i] = m[j] => i = j
         /\ \A i \in DOMAIN u.parts : /\ u.parts[i].lo = t.parts[m[i]].lo
                                      /\ u.parts[i].hi = t.parts[m[i]].hi
  BY DEF Selects
<1>3. Disjoint(u)
  BY <1>1, <1>2 DEF Disjoint, Good, Span
<1>4. ~older => Inside(u)
  BY <1>1, <1>2 DEF Inside, Good, Selects
<1>5. Len(u.parts) <= MaxParts
  BY <1>1, Extents DEF Good, Selects
<1> QED BY <1>1, <1>3, <1>4, <1>5, GoodRecord

\* The first entries, with their extents as they were.
LEMMA PrefixSelects ==
    ASSUME NEW t \in Records, NEW u \in Records, u.top = t.top,
           Len(u.parts) <= Len(t.parts),
           \A i \in DOMAIN u.parts : /\ u.parts[i].lo = t.parts[i].lo
                                     /\ u.parts[i].hi = t.parts[i].hi
    PROVE  Selects(u, t)
<1>1. DOMAIN u.parts \subseteq DOMAIN t.parts
  BY Extents
<1> DEFINE m == [i \in DOMAIN u.parts |-> i]
<1>2. m \in [DOMAIN u.parts -> DOMAIN t.parts]
  BY <1>1
<1>3. \A i \in DOMAIN u.parts : m[i] = i
  OBVIOUS
<1> HIDE DEF m
<1> QED BY <1>2, <1>3 DEF Selects

\* A table with other entries is a table.
LEMMA PartsExcept ==
    ASSUME NEW t \in Records, NEW s \in Seq(Parts)
    PROVE  /\ [t EXCEPT !.parts = s] \in Records
           /\ [t EXCEPT !.parts = s].parts = s /\ [t EXCEPT !.parts = s].top = t.top
           /\ [t EXCEPT !.parts = s].home = t.home /\ [t EXCEPT !.parts = s].cut = t.cut
           /\ [t EXCEPT !.parts = s].drivers = t.drivers
BY DEF Records

\* So it is with the mark of the chain.
LEMMA CutExcept ==
    ASSUME NEW t \in Records, NEW c \in BOOLEAN
    PROVE  /\ [t EXCEPT !.cut = c] \in Records
           /\ [t EXCEPT !.cut = c].parts = t.parts /\ [t EXCEPT !.cut = c].top = t.top
           /\ [t EXCEPT !.cut = c].home = t.home /\ [t EXCEPT !.cut = c].cut = c
           /\ [t EXCEPT !.cut = c].drivers = t.drivers
BY DEF Records

\* The entries without the session's notes.
Quiet(p) == [p EXCEPT !.want = FALSE]
Unmarked(t) == [i \in DOMAIN t.parts |-> [t.parts[i] EXCEPT !.want = FALSE]]

LEMMA UnmarkedParts ==
    ASSUME NEW t \in Records
    PROVE  /\ Unmarked(t) \in Seq(Parts) /\ Len(Unmarked(t)) = Len(t.parts)
           /\ DOMAIN Unmarked(t) = DOMAIN t.parts
           /\ \A i \in DOMAIN t.parts :
                /\ Unmarked(t)[i].lo = t.parts[i].lo /\ Unmarked(t)[i].hi = t.parts[i].hi
                /\ Unmarked(t)[i].name = t.parts[i].name /\ ~Unmarked(t)[i].want
                /\ ~t.parts[i].want => Unmarked(t)[i] = t.parts[i]
<1>1. Len(t.parts) \in Nat /\ DOMAIN t.parts = 1 .. Len(t.parts)
      /\ \A i \in DOMAIN t.parts : t.parts[i] \in Parts
  BY Extents
<1>2. ASSUME NEW p \in Parts
      PROVE  /\ Quiet(p) \in Parts /\ Quiet(p).lo = p.lo /\ Quiet(p).hi = p.hi
             /\ Quiet(p).name = p.name /\ Quiet(p).want = FALSE
             /\ ~p.want => Quiet(p) = p
  BY DEF Parts, Quiet
<1>3. DOMAIN Unmarked(t) = 1 .. Len(t.parts)
      /\ \A i \in 1 .. Len(t.parts) : Unmarked(t)[i] = Quiet(t.parts[i])
  <2> DEFINE f == [i \in DOMAIN t.parts |-> Quiet(t.parts[i])]
  <2>1. f = Unmarked(t)
    BY DEF Unmarked, Quiet
  <2>2. DOMAIN f = DOMAIN t.parts /\ \A i \in DOMAIN t.parts : f[i] = Quiet(t.parts[i])
    OBVIOUS
  <2> HIDE DEF f
  <2> QED BY <1>1, <2>1, <2>2
<1>4. Unmarked(t) \in Seq(Parts)
  <2>1. ASSUME NEW i \in 1 .. Len(t.parts) PROVE Unmarked(t)[i] \in Parts
    <3> DEFINE p == t.parts[i]
    <3>1. p \in Parts /\ Unmarked(t)[i] = Quiet(p)
      BY <1>1, <1>3
    <3> HIDE DEF p
    <3> QED BY <3>1, <1>2
  <2>2. Unmarked(t) = [i \in 1 .. Len(t.parts) |-> Unmarked(t)[i]]
    BY <1>1, Zenon DEF Unmarked
  <2>3. Unmarked(t) \in [1 .. Len(t.parts) -> Parts]
    BY <2>1, <2>2
  <2> QED BY <1>1, <2>3
<1>5. Len(Unmarked(t)) = Len(t.parts)
  BY <1>1, <1>3, <1>4
<1>6. ASSUME NEW i \in DOMAIN t.parts
      PROVE  /\ Unmarked(t)[i].lo = t.parts[i].lo /\ Unmarked(t)[i].hi = t.parts[i].hi
             /\ Unmarked(t)[i].name = t.parts[i].name /\ ~Unmarked(t)[i].want
             /\ ~t.parts[i].want => Unmarked(t)[i] = t.parts[i]
  <2> DEFINE p == t.parts[i]
  <2>1. p \in Parts /\ Unmarked(t)[i] = Quiet(p)
    BY <1>1, <1>3
  <2> HIDE DEF p
  <2>2. /\ Unmarked(t)[i].lo = p.lo /\ Unmarked(t)[i].hi = p.hi
        /\ Unmarked(t)[i].name = p.name /\ Unmarked(t)[i].want = FALSE
        /\ ~p.want => Unmarked(t)[i] = p
    BY <2>1, <1>2
  <2> QED BY <2>2 DEF p
<1> QED BY <1>1, <1>3, <1>4, <1>5, <1>6

LEMMA ForgottenGood ==
    ASSUME NEW t \in Records, NEW older, Good(t, older)
    PROVE  /\ Forgotten(t) \in Records /\ Forgotten(t).parts = Unmarked(t)
           /\ Forgotten(t).home = t.home /\ Forgotten(t).cut = t.cut
           /\ Forgotten(t).top = t.top /\ Forgotten(t).drivers = t.drivers
           /\ Good(Forgotten(t), older)
<1>1. Forgotten(t) = [t EXCEPT !.parts = Unmarked(t)]
  BY DEF Forgotten, Unmarked
<1>2. Unmarked(t) \in Seq(Parts) /\ Len(Unmarked(t)) = Len(t.parts)
      /\ Len(t.parts) \in Nat
  BY UnmarkedParts, Extents
<1>3. /\ Forgotten(t) \in Records /\ Forgotten(t).parts = Unmarked(t)
      /\ Forgotten(t).home = t.home /\ Forgotten(t).cut = t.cut
      /\ Forgotten(t).top = t.top /\ Forgotten(t).drivers = t.drivers
  BY <1>1, <1>2, PartsExcept
<1>4. Selects(Forgotten(t), t)
  BY <1>2, <1>3, UnmarkedParts, PrefixSelects
<1> QED BY <1>3, <1>4, SelectedGood

LEMMA PlainGood ==
    ASSUME NEW t \in Records, NEW older, Good(t, older)
    PROVE  /\ Plain(t) \in Records /\ Plain(t).parts = Unmarked(t) /\ Plain(t).cut = FALSE
           /\ Plain(t).home = t.home /\ Plain(t).top = t.top
           /\ Plain(t).drivers = t.drivers
           /\ Good(Plain(t), older) /\ Clean(Plain(t))
<1>0. t # NoTable
  BY SessionAssumption
<1>1. Plain(t) = [Forgotten(t) EXCEPT !.cut = FALSE]
  BY <1>0 DEF Plain, Forgotten, Records
<1>2. /\ Plain(t) \in Records /\ Plain(t).parts = Unmarked(t) /\ Plain(t).cut = FALSE
      /\ Plain(t).home = t.home /\ Plain(t).top = t.top /\ Plain(t).drivers = t.drivers
  <2>1. /\ Forgotten(t) \in Records /\ Forgotten(t).parts = Unmarked(t)
        /\ Forgotten(t).home = t.home /\ Forgotten(t).top = t.top
        /\ Forgotten(t).drivers = t.drivers
    BY ForgottenGood
  <2> QED BY <1>1, <2>1, CutExcept, FALSE \in BOOLEAN, Zenon
<1>3. Selects(Plain(t), t)
  <2>1. Len(t.parts) \in Nat
    BY Extents
  <2> QED BY <1>2, <2>1, UnmarkedParts, PrefixSelects
<1>4. Clean(Plain(t))
  <2>1. \A p \in PartsOf(Plain(t)) : \E i \in DOMAIN t.parts : p = Unmarked(t)[i]
    BY <1>2, Extents, UnmarkedParts
  <2> QED BY <2>1, UnmarkedParts DEF Clean
<1> QED BY <1>2, <1>3, <1>4, SelectedGood

---------------------------------------------------------------------------
(* Fewer entries *)

\* The first k entries.
LEMMA PrefixGood ==
    ASSUME NEW t \in Records, NEW older, Good(t, older), NEW k \in Int, k <= Len(t.parts),
           NEW u, u = [t EXCEPT !.parts = SubSeq(t.parts, 1, k)]
    PROVE  /\ u \in Records /\ Good(u, older) /\ u.home = t.home
           /\ Clean(t) => Clean(u)
           /\ \A i \in DOMAIN u.parts : i \in DOMAIN t.parts /\ u.parts[i] = t.parts[i]
<1> DEFINE s == SubSeq(t.parts, 1, k)
<1>1. Len(t.parts) \in Nat /\ DOMAIN t.parts = 1 .. Len(t.parts)
      /\ \A i \in DOMAIN t.parts : t.parts[i] \in Parts
  BY Extents
<1>2. \A i \in 1 .. k : i \in DOMAIN t.parts /\ t.parts[i] \in Parts
  BY <1>1
<1>3. /\ s \in Seq(Parts) /\ Len(s) = (IF 1 <= k THEN k - 1 + 1 ELSE 0)
      /\ \A i \in 1 .. (k - 1 + 1) : s[i] = t.parts[1 + i - 1]
  BY <1>2, SubSeqProperties
<1>4. /\ s \in Seq(Parts) /\ Len(s) <= Len(t.parts) /\ Len(s) \in Nat
      /\ DOMAIN s \subseteq 1 .. k /\ DOMAIN s \subseteq DOMAIN t.parts
      /\ \A i \in DOMAIN s : s[i] = t.parts[i]
  BY <1>1, <1>3
<1> HIDE DEF s
<1>5. /\ u \in Records /\ u.parts = s /\ u.top = t.top /\ u.home = t.home
  BY <1>4, PartsExcept DEF s
<1>6. Selects(u, t)
  BY <1>4, <1>5, PrefixSelects
<1>7. Good(u, older)
  BY <1>6, SelectedGood
<1>8. ASSUME Clean(t) PROVE Clean(u)
  <2>1. ASSUME NEW p \in PartsOf(u) PROVE p \in PartsOf(t)
    <3>1. PICK i \in DOMAIN u.parts : p = u.parts[i]
      BY <1>5, Extents, Zenon
    <3> QED BY <1>4, <1>5, <3>1, Extents
  <2> QED BY <2>1, <1>8 DEF Clean
<1> QED BY <1>4, <1>5, <1>7, <1>8

\* What RDB_Read gives of a table on the disk.
LEMMA ReadGood ==
    ASSUME NEW dk \in Media, NEW older,
           \A h \in 0 .. 1 : Good(dk.t[h], older) /\ Clean(dk.t[h])
    PROVE  /\ OnDisk(dk) \in Tables /\ Good(OnDisk(dk), older) /\ Clean(OnDisk(dk))
           /\ Read(dk) \in Tables /\ Good(Read(dk), older) /\ Clean(Read(dk))
<1> DEFINE t == OnDisk(dk)
<1>1. t \in {dk.t[0], dk.t[1]}
  BY DEF OnDisk
<1>2. t \in Tables /\ Good(t, older) /\ Clean(t)
  BY <1>1 DEF Good
<1>3. CASE t = NoTable \/ ~t.cut
  BY <1>2, <1>3 DEF Read
<1>4. CASE t # NoTable /\ t.cut
  <2>1. t \in Records /\ Len(t.parts) \in Nat
    BY <1>2, <1>4, Extents DEF Tables
  <2>2. Read(dk) = [t EXCEPT !.parts = SubSeq(t.parts, 1, Len(t.parts) - 1)]
    BY <1>4, <2>1 DEF Read, Front, Records
  <2> HIDE DEF t
  <2>3. Len(t.parts) - 1 \in Int /\ Len(t.parts) - 1 <= Len(t.parts)
    BY <2>1
  <2>4. Read(dk) \in Records /\ Good(Read(dk), older) /\ Clean(Read(dk))
    BY <1>2, <2>1, <2>2, <2>3, PrefixGood, Zenon
  <2> QED BY <1>2, <2>4 DEF t, Tables
<1> QED BY <1>3, <1>4

\* A table of which the first entry's place is left.
LEMMA CutGood ==
    ASSUME NEW t \in Tables, NEW older, Good(t, older), Clean(t)
    PROVE  /\ Cut(t) \in Tables /\ Good(Cut(t), older) /\ Clean(Cut(t))
           /\ Cut(t) = NoTable <=> t = NoTable
           /\ t # NoTable => Cut(t) \in Records /\ Cut(t).home = t.home
<1>1. CASE t = NoTable \/ t.parts = <<>>
  BY <1>1 DEF Cut, Tables
<1>2. CASE t # NoTable /\ t.parts # <<>>
  <2>k. PICK k \in Int : k = 1
    OBVIOUS
  <2>0. PICK u : u = [t EXCEPT !.parts = SubSeq(t.parts, 1, k)]
    OBVIOUS
  <2>1. t \in Records /\ t.parts \in Seq(Parts) /\ Len(t.parts) \in Nat /\ 1 <= Len(t.parts)
    BY <1>2, Extents, EmptySeq DEF Tables
  <2>2. u \in Records /\ Good(u, older) /\ u.home = t.home /\ Clean(u)
    <3>1. k <= Len(t.parts) /\ t \in Records
      BY <2>1, <2>k
    <3>2. u.home = t.home
      BY <2>0, <3>1 DEF Records
    <3>3. k \in Int
      BY <2>k
    <3>4. u \in Records /\ Good(u, older)
      BY <2>0, <3>1, <3>3, PrefixGood, Zenon
    <3>5. Clean(t) => Clean(u)
      BY <2>0, <3>1, <3>3, PrefixGood
    <3> QED BY <3>2, <3>4, <3>5
  <2>3. Cut(t) = [u EXCEPT !.cut = TRUE]
    BY <1>2, <2>k, <2>0, <2>1 DEF Cut, Records
  <2>4. /\ Cut(t) \in Records /\ Cut(t).parts = u.parts /\ Cut(t).top = u.top
        /\ Cut(t).home = u.home
    BY <2>2, <2>3, CutExcept, TRUE \in BOOLEAN
  <2>5. Cut(t) # NoTable /\ u # NoTable
    BY <2>2, <2>4, SessionAssumption
  <2>6. Good(Cut(t), older) /\ Clean(Cut(t))
    BY <2>2, <2>4, <2>5 DEF Good, Tables, Disjoint, Inside, Clean, PartsOf
  <2> QED BY <1>2, <2>2, <2>4, <2>5, <2>6 DEF Tables
<1> QED BY <1>1, <1>2

\* A table without its i-th entry.
LEMMA RemovedGood ==
    ASSUME NEW t \in Records, NEW older, Good(t, older), NEW i \in DOMAIN t.parts,
           NEW u, u = [t EXCEPT !.parts = RemoveAt(t.parts, i)]
    PROVE  /\ u \in Records /\ Good(u, older) /\ u.home = t.home
           /\ \A k \in DOMAIN t.parts : k # i => t.parts[k] \in PartsOf(u)
<1> DEFINE a == SubSeq(t.parts, 1, i - 1)
           b == SubSeq(t.parts, i + 1, Len(t.parts))
           s == a \o b
<1>1. /\ Len(t.parts) \in Nat /\ DOMAIN t.parts = 1 .. Len(t.parts) /\ i \in 1 .. Len(t.parts)
      /\ \A j \in DOMAIN t.parts : t.parts[j] \in Parts
  BY Extents
<1>2. /\ a \in Seq(Parts) /\ Len(a) = i - 1
      /\ \A j \in 1 .. (i - 1) : a[j] = t.parts[j]
  <2>1. \A j \in 1 .. (i - 1) : t.parts[j] \in Parts
    BY <1>1
  <2>2. /\ a \in Seq(Parts) /\ Len(a) = (IF 1 <= i - 1 THEN (i - 1) - 1 + 1 ELSE 0)
        /\ \A j \in 1 .. ((i - 1) - 1 + 1) : a[j] = t.parts[1 + j - 1]
    BY <1>1, <2>1, SubSeqProperties
  <2> HIDE DEF a
  <2> QED BY <1>1, <2>2
<1>3. /\ b \in Seq(Parts) /\ Len(b) = Len(t.parts) - i
      /\ \A j \in 1 .. (Len(t.parts) - i) : b[j] = t.parts[i + j]
  <2>1. \A j \in (i + 1) .. Len(t.parts) : t.parts[j] \in Parts
    BY <1>1
  <2>2. /\ b \in Seq(Parts)
        /\ Len(b) = (IF i + 1 <= Len(t.parts) THEN Len(t.parts) - (i + 1) + 1 ELSE 0)
        /\ \A j \in 1 .. (Len(t.parts) - (i + 1) + 1) : b[j] = t.parts[(i + 1) + j - 1]
    BY <1>1, <2>1, SubSeqProperties
  <2> HIDE DEF b
  <2> QED BY <1>1, <2>2
<1> HIDE DEF a, b
<1>4. /\ s \in Seq(Parts) /\ Len(s) = Len(t.parts) - 1
      /\ DOMAIN s = 1 .. (Len(t.parts) - 1)
      /\ \A j \in 1 .. (Len(t.parts) - 1) :
            s[j] = t.parts[IF j < i THEN j ELSE j + 1]
  <2>1. s \in Seq(Parts) /\ Len(s) = Len(a) + Len(b)
    BY <1>2, <1>3
  <2>2. ASSUME NEW j \in 1 .. (Len(t.parts) - 1)
        PROVE  s[j] = t.parts[IF j < i THEN j ELSE j + 1]
    <3>1. s[j] = IF j <= Len(a) THEN a[j] ELSE b[j - Len(a)]
      BY <1>2, <1>3, ConcatProperties
    <3> HIDE DEF s
    <3>2. CASE j < i
      BY <1>1, <1>2, <3>1, <3>2
    <3>3. CASE ~(j < i)
      <4>1. j - Len(a) \in 1 .. (Len(t.parts) - i) /\ i + (j - Len(a)) = j + 1
            /\ ~(j <= Len(a))
        BY <1>1, <1>2, <3>3
      <4> QED BY <1>3, <3>1, <3>3, <4>1
    <3> QED BY <3>2, <3>3
  <2> QED BY <1>1, <1>2, <1>3, <2>1, <2>2
<1> HIDE DEF s
<1>5. u \in Records /\ u.parts = s /\ u.top = t.top /\ u.home = t.home
  BY <1>4, PartsExcept DEF s, a, b, RemoveAt
<1> DEFINE m == [j \in DOMAIN s |-> IF j < i THEN j ELSE j + 1]
<1>6. /\ m \in [DOMAIN u.parts -> DOMAIN t.parts]
      /\ \A j \in DOMAIN u.parts : m[j] = IF j < i THEN j ELSE j + 1
  BY <1>1, <1>4, <1>5
<1> HIDE DEF m
<1>7. /\ \A j, k \in DOMAIN u.parts : m[j] = m[k] => j = k
      /\ Len(u.parts) <= Len(t.parts)
  BY <1>1, <1>4, <1>5, <1>6
<1>8. \A j \in DOMAIN u.parts : u.parts[j] = t.parts[m[j]]
  <2> TAKE j \in DOMAIN u.parts
  <2>1. j \in 1 .. (Len(t.parts) - 1) /\ m[j] = IF j < i THEN j ELSE j + 1
    BY <1>4, <1>5, <1>6
  <2> QED BY <1>4, <1>5, <2>1
<1>9. Selects(u, t)
  BY <1>5, <1>6, <1>7, <1>8, Zenon DEF Selects
<1>10. ASSUME NEW k \in DOMAIN t.parts, k # i PROVE t.parts[k] \in PartsOf(u)
  <2> DEFINE j == IF k < i THEN k ELSE k - 1
  <2>1. j \in DOMAIN s /\ s[j] = t.parts[k]
    BY <1>1, <1>4, <1>10
  <2> HIDE DEF j
  <2> QED BY <1>5, <2>1, Extents
<1> QED BY <1>5, <1>9, <1>10, SelectedGood

---------------------------------------------------------------------------
(* New ends *)

\* HIGH of a new partition stays below those that begin above its LOW.
LEMMA ClampedEnd ==
    ASSUME NEW t \in Records, NEW lo \in 1 .. TopCyl, NEW hi \in 1 .. TopCyl, lo <= hi
    PROVE  /\ Clamped(t, lo, hi) \in lo .. hi /\ Clamped(t, lo, hi) \in 1 .. TopCyl
           /\ \A q \in PartsOf(t) : q.lo > lo => Clamped(t, lo, hi) < q.lo
<1> DEFINE later == {p.lo : p \in {q \in PartsOf(t) : q.lo > lo /\ q.lo <= hi}}
<1>1. lo \in Nat /\ hi \in Nat /\ TopCyl \in Nat /\ \A q \in PartsOf(t) : q.lo \in Nat
  BY SessionAssumption, Extents
<1>2. /\ later \in SUBSET Nat
      /\ \A x \in later : lo < x /\ x <= hi
      /\ \A q \in PartsOf(t) : q.lo > lo /\ q.lo <= hi => q.lo \in later
  BY <1>1
<1>3. Clamped(t, lo, hi) = IF later = {} THEN hi ELSE Min(later) - 1
  BY DEF Clamped
<1> HIDE DEF later
<1>4. CASE later = {}
  BY <1>1, <1>2, <1>3, <1>4
<1>5. CASE later # {}
  <2>1. Min(later) \in later /\ \A x \in later : Min(later) <= x
    BY <1>2, <1>5, MinOfSet
  <2> DEFINE m == Min(later)
  <2>2. m \in Nat /\ lo < m /\ m <= hi /\ \A x \in later : m <= x
    BY <1>2, <2>1
  <2>3. Clamped(t, lo, hi) = m - 1
    BY <1>3, <1>5
  <2> HIDE DEF m
  <2>4. ASSUME NEW q \in PartsOf(t), q.lo > lo PROVE m - 1 < q.lo
    <3>1. CASE q.lo <= hi
      BY <1>1, <1>2, <2>2, <2>4, <3>1
    <3>2. CASE ~(q.lo <= hi)
      BY <1>1, <2>2, <3>2
    <3> QED BY <3>1, <3>2
  <2> QED BY <1>1, <2>2, <2>3, <2>4
<1> QED BY <1>4, <1>5

\* A partition grows up to the next one that begins above it, inside the disk.
LEMMA GapEnd ==
    ASSUME NEW t \in Records, NEW p \in Parts
    PROVE  /\ Gap(t, p) \in Int /\ Gap(t, p) <= t.top
           /\ \A q \in PartsOf(t) : q.lo > p.hi => Gap(t, p) < q.lo
<1> DEFINE later == {q.lo : q \in {q \in PartsOf(t) : q.lo > p.hi}}
<1>1. /\ p.hi \in Nat /\ t.top \in Nat
      /\ \A q \in PartsOf(t) : q.lo \in Nat /\ q.lo >= 1
  <2>1. p.hi \in Nat /\ t.top \in Nat
    BY SessionAssumption DEF Parts, Records, Cyls
  <2>2. ASSUME NEW q \in PartsOf(t) PROVE q.lo \in 1 .. TopCyl
    BY Extents
  <2> QED BY <2>1, <2>2, SessionAssumption
<1>2. /\ later \in SUBSET Nat /\ \A x \in later : x >= 1
      /\ \A q \in PartsOf(t) : q.lo > p.hi => q.lo \in later
  BY <1>1
<1>3. Gap(t, p) = IF later = {} THEN t.top ELSE Min({Min(later) - 1, t.top})
  BY DEF Gap
<1> HIDE DEF later
<1>4. CASE later = {}
  BY <1>1, <1>2, <1>3, <1>4
<1>5. CASE later # {}
  <2>1. Min(later) \in later /\ \A x \in later : Min(later) <= x
    BY <1>2, <1>5, MinOfSet
  <2> DEFINE two == {Min(later) - 1, t.top}
  <2>2. two \in SUBSET Nat /\ two # {}
    <3>1. Min(later) \in Nat /\ Min(later) >= 1
      BY <1>2, <2>1
    <3>2. Min(later) - 1 \in Nat
      BY <3>1
    <3> QED BY <1>1, <3>2
  <2>3. Min(two) \in two /\ \A x \in two : Min(two) <= x
    BY <2>2, MinOfSet
  <2>4. Min(two) \in Nat /\ Min(two) <= t.top /\ Min(two) <= Min(later) - 1
    BY <2>2, <2>3
  <2>5. Gap(t, p) = Min(two)
    BY <1>3, <1>5
  <2> HIDE DEF two
  <2>6. ASSUME NEW q \in PartsOf(t), q.lo > p.hi PROVE Min(two) < q.lo
    <3>1. q.lo \in Nat /\ Min(later) \in Nat /\ Min(later) <= q.lo
      BY <1>1, <1>2, <2>1, <2>6
    <3> QED BY <2>4, <3>1
  <2> QED BY <2>4, <2>5, <2>6
<1> QED BY <1>4, <1>5

\* One entry with another end.
LEMMA WithParts ==
    ASSUME NEW t \in Records, NEW i \in DOMAIN t.parts, NEW hi \in 1 .. TopCyl
    PROVE  /\ With(t, i, hi) \in Records /\ With(t, i, hi).top = t.top
           /\ With(t, i, hi).home = t.home /\ With(t, i, hi).cut = t.cut
           /\ DOMAIN With(t, i, hi).parts = DOMAIN t.parts
           /\ Len(With(t, i, hi).parts) = Len(t.parts)
           /\ \A j \in DOMAIN t.parts : j # i => With(t, i, hi).parts[j] = t.parts[j]
           /\ With(t, i, hi).parts[i].lo = t.parts[i].lo
           /\ With(t, i, hi).parts[i].hi = hi
           /\ With(t, i, hi).parts[i].name = t.parts[i].name
           /\ With(t, i, hi).parts[i].want = t.parts[i].want
<1> DEFINE p == [t.parts[i] EXCEPT !.hi = hi]
           s == [t.parts EXCEPT ![i] = p]
<1>1. /\ t.parts \in Seq(Parts) /\ t.parts[i] \in Parts /\ i \in 1 .. Len(t.parts)
      /\ DOMAIN t.parts = 1 .. Len(t.parts) /\ Len(t.parts) \in Nat
  BY Extents
<1>2. /\ p \in Parts /\ p.lo = t.parts[i].lo /\ p.hi = hi
      /\ p.name = t.parts[i].name /\ p.want = t.parts[i].want
  BY <1>1 DEF Parts
<1>3. With(t, i, hi) = [t EXCEPT !.parts = s]
  BY <1>1 DEF With, Records
<1> HIDE DEF p
<1>4. /\ s \in Seq(Parts) /\ Len(s) = Len(t.parts) /\ DOMAIN s = DOMAIN t.parts
      /\ s[i] = p /\ \A j \in DOMAIN t.parts : j # i => s[j] = t.parts[j]
  BY <1>1, <1>2
<1> HIDE DEF s
<1> QED BY <1>2, <1>3, <1>4, PartsExcept

\* A partition may end lower, or higher up to the gap's end.
LEMMA ResizedGood ==
    ASSUME NEW t \in Records, NEW older, Good(t, older), NEW i \in DOMAIN t.parts,
           NEW hi \in 1 .. TopCyl, t.parts[i].lo <= hi,
           hi <= t.parts[i].hi \/ hi <= Gap(t, t.parts[i])
    PROVE  Good(With(t, i, hi), older)
<1> DEFINE u == With(t, i, hi)
           p == t.parts[i]
<1>1. /\ u \in Records /\ u.top = t.top /\ DOMAIN u.parts = DOMAIN t.parts
      /\ Len(u.parts) = Len(t.parts)
      /\ \A j \in DOMAIN t.parts : j # i => u.parts[j] = t.parts[j]
      /\ u.parts[i].lo = p.lo /\ u.parts[i].hi = hi
  BY WithParts
<1> HIDE DEF u
<1>2. /\ \A j \in DOMAIN t.parts : /\ t.parts[j].lo \in Nat /\ t.parts[j].hi \in Nat
                                   /\ t.parts[j] \in PartsOf(t)
      /\ p \in Parts /\ hi \in Nat /\ t.top \in Nat
  BY Extents, SessionAssumption DEF Records, Cyls
<1>3. /\ \A j \in DOMAIN t.parts : t.parts[j].lo <= t.parts[j].hi
      /\ \A j, k \in DOMAIN t.parts : j # k =>
            Span(t.parts[j]) \cap Span(t.parts[k]) = {}
      /\ ~older => \A j \in DOMAIN t.parts : t.parts[j].hi <= t.top
      /\ Len(t.parts) <= MaxParts /\ t # NoTable
  BY SessionAssumption DEF Good, Disjoint, Inside
<1>4. /\ Gap(t, p) \in Int /\ Gap(t, p) <= t.top
      /\ \A q \in PartsOf(t) : q.lo > p.hi => Gap(t, p) < q.lo
  BY <1>2, GapEnd
<1>5. ASSUME NEW j \in DOMAIN t.parts, j # i PROVE Span(u.parts[i]) \cap Span(t.parts[j]) = {}
  <2> DEFINE q == t.parts[j]
  <2>1. q.lo \in Nat /\ q.hi \in Nat /\ q.lo <= q.hi /\ p.lo \in Nat /\ p.hi \in Nat
        /\ p.lo <= p.hi /\ (p.lo .. p.hi) \cap (q.lo .. q.hi) = {}
        /\ (q.lo > p.hi => Gap(t, p) < q.lo)
    BY <1>2, <1>3, <1>4, <1>5 DEF Span
  <2>2. hi <= p.hi \/ hi <= Gap(t, p)
    OBVIOUS
  <2> HIDE DEF p, q
  <2>3. p.hi < q.lo \/ q.hi < p.lo
    <3>1. q.lo \notin p.lo .. p.hi \/ q.lo \notin q.lo .. q.hi
      BY <2>1
    <3>2. p.lo \notin p.lo .. p.hi \/ p.lo \notin q.lo .. q.hi
      BY <2>1
    <3> QED BY <2>1, <3>1, <3>2
  <2>4. (p.lo .. hi) \cap (q.lo .. q.hi) = {}
    BY <1>2, <1>4, <2>1, <2>2, <2>3
  <2>5. Span(u.parts[i]) = p.lo .. hi /\ Span(t.parts[j]) = q.lo .. q.hi
    BY <1>1 DEF Span, q
  <2> QED BY <2>4, <2>5
<1>6. Disjoint(u)
  <2>1. ASSUME NEW j \in DOMAIN u.parts
        PROVE  u.parts[j].lo <= u.parts[j].hi
    BY <1>1, <1>3
  <2>2. ASSUME NEW j \in DOMAIN u.parts, NEW k \in DOMAIN u.parts, j # k
        PROVE  Span(u.parts[j]) \cap Span(u.parts[k]) = {}
    BY <1>1, <1>3, <1>5, <2>2, Zenon
  <2> QED BY <2>1, <2>2 DEF Disjoint
<1>7. ~older => Inside(u)
  <2> SUFFICES ASSUME ~older, NEW j \in DOMAIN u.parts PROVE u.parts[j].hi <= u.top
    BY DEF Inside
  <2>1. CASE j = i
    BY <1>1, <1>2, <1>3, <1>4, <2>1
  <2>2. CASE j # i
    BY <1>1, <1>3, <2>2
  <2> QED BY <2>1, <2>2
<1> QED BY <1>1, <1>3, <1>6, <1>7, GoodRecord DEF u

\* A new entry begins outside the others and ends below those above it.
LEMMA AddedGood ==
    ASSUME NEW t \in Records, NEW older, Good(t, older), Len(t.parts) < MaxParts,
           NEW p \in Parts, p.lo <= p.hi, p.hi <= t.top,
           \A q \in PartsOf(t) : p.lo \notin Span(q) /\ (q.lo > p.lo => p.hi < q.lo),
           NEW u, u = [t EXCEPT !.parts = Append(t.parts, p)]
    PROVE  u \in Records /\ Good(u, older) /\ u.home = t.home
<1> DEFINE s == Append(t.parts, p)
           k == Len(t.parts)
<1>1. /\ t.parts \in Seq(Parts) /\ k \in Nat /\ DOMAIN t.parts = 1 .. k
      /\ \A j \in DOMAIN t.parts : /\ t.parts[j].lo \in Nat /\ t.parts[j].hi \in Nat
                                   /\ t.parts[j] \in PartsOf(t)
      /\ MaxParts \in Nat /\ p.lo \in Nat /\ p.hi \in Nat
  <2>1. MaxParts \in Nat /\ p.lo \in Nat /\ p.hi \in Nat
    BY SessionAssumption DEF Parts
  <2> QED BY <2>1, Extents
<1>2. /\ s \in Seq(Parts) /\ Len(s) = k + 1 /\ DOMAIN s = 1 .. (k + 1)
      /\ s[k + 1] = p /\ \A j \in 1 .. k : s[j] = t.parts[j]
  BY <1>1, AppendProperties
<1>3. u \in Records /\ u.parts = s /\ u.top = t.top /\ u.home = t.home
  BY <1>2, PartsExcept
<1> HIDE DEF s
<1>4. /\ \A j \in DOMAIN t.parts : t.parts[j].lo <= t.parts[j].hi
      /\ \A i, j \in DOMAIN t.parts : i # j => Span(t.parts[i]) \cap Span(t.parts[j]) = {}
      /\ ~older => \A j \in DOMAIN t.parts : t.parts[j].hi <= t.top
  BY SessionAssumption DEF Good, Disjoint, Inside
<1>5. ASSUME NEW j \in 1 .. k
      PROVE  Span(t.parts[j]) \cap Span(p) = {} /\ Span(p) \cap Span(t.parts[j]) = {}
  <2> DEFINE q == t.parts[j]
  <2>1. /\ q.lo \in Nat /\ q.hi \in Nat /\ q.lo <= q.hi
        /\ p.lo \notin q.lo .. q.hi /\ (q.lo > p.lo => p.hi < q.lo)
    BY <1>1, <1>4 DEF Span
  <2> HIDE DEF q
  <2>2. (q.lo .. q.hi) \cap (p.lo .. p.hi) = {}
    BY <1>1, <2>1
  <2>3. Span(t.parts[j]) = q.lo .. q.hi /\ Span(p) = p.lo .. p.hi
    BY DEF Span, q
  <2> QED BY <2>2, <2>3
<1>6. Disjoint(u)
  <2>1. ASSUME NEW j \in DOMAIN u.parts PROVE u.parts[j].lo <= u.parts[j].hi
    BY <1>1, <1>2, <1>3, <1>4
  <2>2. ASSUME NEW i \in DOMAIN u.parts, NEW j \in DOMAIN u.parts, i # j
        PROVE  Span(u.parts[i]) \cap Span(u.parts[j]) = {}
    <3>1. (i \in 1 .. k \/ i = k + 1) /\ (j \in 1 .. k \/ j = k + 1)
      BY <1>1, <1>2, <1>3
    <3>2. CASE i \in 1 .. k /\ j \in 1 .. k
      BY <1>1, <1>2, <1>3, <1>4, <2>2, <3>2, Zenon
    <3>3. CASE i \in 1 .. k /\ j = k + 1
      BY <1>2, <1>3, <1>5, <3>3, Zenon
    <3>4. CASE i = k + 1 /\ j \in 1 .. k
      BY <1>2, <1>3, <1>5, <3>4, Zenon
    <3> QED BY <2>2, <3>1, <3>2, <3>3, <3>4
  <2> QED BY <2>1, <2>2 DEF Disjoint
<1>7. ~older => Inside(u)
  BY <1>1, <1>2, <1>3, <1>4 DEF Inside
<1>8. Len(u.parts) <= MaxParts
  BY <1>1, <1>2, <1>3
<1> QED BY <1>3, <1>6, <1>7, <1>8, GoodRecord

---------------------------------------------------------------------------
(* What is on a device *)

\* A table in its place: t[0] has its header in block 0, t[1] in block 1.
Placed(t, h, older) == Good(t, older) /\ Clean(t) /\ (t # NoTable => t.home = h)

MediaOK(dk, older) ==
    /\ dk \in Media /\ (dk.t[0] # NoTable => dk.mbr = NoMbr)
    /\ \A h \in 0 .. 1 : Placed(dk.t[h], h, older)

LEMMA OlderGood ==
    ASSUME NEW a, NEW b, a => b
    PROVE  /\ \A t : Good(t, a) => Good(t, b)
           /\ \A dk : MediaOK(dk, a) => MediaOK(dk, b)
BY DEF Good, Placed, MediaOK

LEMMA FreshGood ==
    ASSUME NEW h \in 0 .. 1, NEW older
    PROVE  Fresh(h) \in Records /\ Fresh(h).home = h /\ Good(Fresh(h), older)
<1>1. TopCyl \in Nat /\ MaxDrivers \in Nat /\ MaxParts \in Nat
  BY SessionAssumption
<1>2. /\ Fresh(h).home = h /\ Fresh(h).top = TopCyl /\ Fresh(h).drivers = 0
      /\ Fresh(h).parts = <<>> /\ Fresh(h).cut = FALSE
  BY DEF Fresh
<1>3. <<>> \in Seq(Parts) /\ Len(<<>>) = 0 /\ DOMAIN <<>> = {}
  OBVIOUS
<1>4. Fresh(h) \in Records
  BY <1>1, <1>3 DEF Fresh, Records, Cyls
<1>5. Disjoint(Fresh(h)) /\ Inside(Fresh(h))
  BY <1>2, <1>3 DEF Disjoint, Inside
<1> QED BY <1>1, <1>2, <1>3, <1>4, <1>5, GoodRecord

LEMMA NothingPlaced == \A h, older : Placed(NoTable, h, older)
BY GoodNoTable DEF Placed

\* Media fields, one by one.
LEMMA MediaFields ==
    ASSUME NEW dk \in Media
    PROVE  /\ dk.t \in [0 .. 1 -> Tables] /\ dk.mbr \in {NoMbr} \cup SUBSET Slots
           /\ dk.new \in SUBSET Cyls
           /\ dk = [t |-> dk.t, mbr |-> dk.mbr, new |-> dk.new]
BY DEF Media

LEMMA MakeMedia ==
    ASSUME NEW dk, NEW older, NEW ts \in [0 .. 1 -> Tables], NEW m \in {NoMbr} \cup SUBSET Slots,
           NEW c \in SUBSET Cyls, dk = [t |-> ts, mbr |-> m, new |-> c],
           ts[0] # NoTable => m = NoMbr,
           Placed(ts[0], 0, older), Placed(ts[1], 1, older)
    PROVE  MediaOK(dk, older)
<1>1. dk \in Media /\ dk.t = ts /\ dk.mbr = m
  BY DEF Media
<1>2. \A h \in 0 .. 1 : h = 0 \/ h = 1
  OBVIOUS
<1> QED BY <1>1, <1>2 DEF MediaOK

\* One place of the two holds another table; block 0 then holds no MBR.
LEMMA PutTable ==
    ASSUME NEW dk, NEW older, MediaOK(dk, older), NEW h \in 0 .. 1, NEW t, Placed(t, h, older),
           t \in Tables, h = 0 => t = NoTable
    PROVE  MediaOK([dk EXCEPT !.t[h] = t], older)
<1> DEFINE ts == [dk.t EXCEPT ![h] = t]
<1>1. /\ dk \in Media /\ (dk.t[0] # NoTable => dk.mbr = NoMbr)
      /\ Placed(dk.t[0], 0, older) /\ Placed(dk.t[1], 1, older)
  BY DEF MediaOK
<1>2. /\ dk.t \in [0 .. 1 -> Tables] /\ dk.mbr \in {NoMbr} \cup SUBSET Slots
      /\ dk.new \in SUBSET Cyls
  BY <1>1, MediaFields
<1>3. /\ ts \in [0 .. 1 -> Tables] /\ ts[h] = t
      /\ \A g \in 0 .. 1 : g # h => ts[g] = dk.t[g]
  BY <1>2
<1>4. [dk EXCEPT !.t[h] = t] = [t |-> ts, mbr |-> dk.mbr, new |-> dk.new]
  BY <1>1 DEF Media
<1> HIDE DEF ts
<1>5. 0 \in 0 .. 1 /\ 1 \in 0 .. 1 /\ (h = 0 \/ h = 1) /\ 0 # 1
  OBVIOUS
<1>6. (ts[0] # NoTable => dk.mbr = NoMbr) /\ Placed(ts[0], 0, older) /\ Placed(ts[1], 1, older)
  BY <1>1, <1>3, <1>5, Zenon
<1> QED BY <1>2, <1>3, <1>4, <1>6, MakeMedia

\* sc_write_rdb: what it leaves on the device is in its place.
LEMMA AfterOK ==
    ASSUME NEW dk, NEW older, MediaOK(dk, older), NEW t \in Records, Good(t, older)
    PROVE  MediaOK(After(dk, t), older)
<1>1. /\ Plain(t) \in Records /\ Plain(t).home = t.home /\ t.home \in 0 .. 1
      /\ Good(Plain(t), older) /\ Clean(Plain(t)) /\ dk \in Media
  BY PlainGood DEF Records, MediaOK
<1>2. Placed(Plain(t), t.home, older) /\ Plain(t) \in Tables
  BY <1>1 DEF Placed, Tables
<1>3. CASE t.home = 0
  <2> DEFINE ts == [h \in 0 .. 1 |-> IF h = 0 THEN Plain(t) ELSE NoTable]
  <2>1. ts \in [0 .. 1 -> Tables] /\ ts[0] = Plain(t) /\ ts[1] = NoTable
    BY <1>2 DEF Tables
  <2>2. After(dk, t) = [t |-> ts, mbr |-> NoMbr, new |-> dk.new]
    BY <1>1, <1>3 DEF After, Media
  <2> HIDE DEF ts
  <2>3. dk.new \in SUBSET Cyls
    BY <1>1, MediaFields
  <2>4. Placed(ts[0], 0, older) /\ Placed(ts[1], 1, older)
    BY <1>2, <1>3, <2>1, NothingPlaced
  <2> QED BY <2>1, <2>2, <2>3, <2>4, MakeMedia
<1>4. CASE t.home # 0
  <2>1. t.home = 1 /\ After(dk, t) = [dk EXCEPT !.t[1] = Plain(t)]
    BY <1>1, <1>4 DEF After
  <2>2. 1 \in 0 .. 1 /\ 1 # 0
    OBVIOUS
  <2>3. Placed(Plain(t), 1, older)
    BY <1>2, <2>1
  <2>4. MediaOK([dk EXCEPT !.t[1] = Plain(t)], older)
    BY <1>2, <2>2, <2>3, PutTable
  <2> QED BY <2>1, <2>4
<1> QED BY <1>3, <1>4

\* A header stands, or its place is empty, over chains that were overwritten.
LEMMA OverOK ==
    ASSUME NEW dk \in Media, NEW t \in Records, NEW o \in Tables
    PROVE  /\ Over(dk, t, o) \in Media /\ Over(dk, t, o).new = dk.new
           /\ \A h \in 0 .. 1 : \/ Over(dk, t, o).t[h] \in {NoTable, dk.t[h]}
                              \/ (h = t.home /\ Over(dk, t, o).t[h] = o)
           /\ \A older : MediaOK(dk, older) /\ o = NoTable => MediaOK(Over(dk, t, o), older)
<1> DEFINE ts == [h \in 0 .. 1 |-> IF h = t.home THEN o
                                  ELSE IF h = 1 /\ HasChain(t) THEN NoTable ELSE dk.t[h]]
<1>1. /\ dk.t \in [0 .. 1 -> Tables] /\ dk.mbr \in {NoMbr} \cup SUBSET Slots
      /\ dk.new \in SUBSET Cyls /\ NoTable \in Tables
  BY MediaFields DEF Tables
<1>2. ts \in [0 .. 1 -> Tables]
  BY <1>1
<1>3. \A h \in 0 .. 1 : ts[h] \in {NoTable, dk.t[h]} \/ (h = t.home /\ ts[h] = o)
  OBVIOUS
<1>4. Over(dk, t, o) = [t |-> ts, mbr |-> dk.mbr, new |-> dk.new]
  BY DEF Over, Media
<1> HIDE DEF ts
<1>5. Over(dk, t, o) \in Media /\ Over(dk, t, o).t = ts /\ Over(dk, t, o).new = dk.new
  BY <1>1, <1>2, <1>4 DEF Media
<1>6. ASSUME NEW older, MediaOK(dk, older), o = NoTable PROVE MediaOK(Over(dk, t, o), older)
  <2>1. /\ (dk.t[0] # NoTable => dk.mbr = NoMbr)
        /\ Placed(dk.t[0], 0, older) /\ Placed(dk.t[1], 1, older)
    BY <1>6 DEF MediaOK
  <2>2. /\ ts[0] \in {NoTable, dk.t[0]} /\ ts[1] \in {NoTable, dk.t[1]}
    BY <1>3, <1>6
  <2>3. Placed(ts[0], 0, older) /\ Placed(ts[1], 1, older)
    BY <2>1, <2>2, NothingPlaced
  <2>4. ts[0] # NoTable => dk.mbr = NoMbr
    BY <2>1, <2>2
  <2>5. MediaOK([t |-> ts, mbr |-> dk.mbr, new |-> dk.new], older)
    BY <1>1, <1>2, <2>3, <2>4, MakeMedia
  <2> QED BY <1>4, <2>5
<1> QED BY <1>3, <1>5, <1>6

\* What a standing header may lead to is a table.
LEMMA HalvesOK ==
    ASSUME NEW old \in Records, NEW new \in Seq(Parts)
    PROVE  Halves(old, new) \subseteq Records
<1> DEFINE s == old.parts
<1>1. /\ s \in Seq(Parts) /\ Len(s) \in Nat /\ Len(new) \in Nat
      /\ \A i \in 1 .. Len(s) : s[i] \in Parts
      /\ \A i \in 1 .. Len(new) : new[i] \in Parts
      /\ DOMAIN s = 1 .. Len(s) /\ DOMAIN new = 1 .. Len(new)
  BY Extents
<1>2. ASSUME NEW c \in BOOLEAN, NEW q \in Seq(Parts)
      PROVE  /\ [old EXCEPT !.parts = q] \in Records
             /\ [old EXCEPT !.parts = q, !.cut = c] \in Records
  BY DEF Records
<1>3. ASSUME NEW i \in DOMAIN s PROVE SubSeq(s, 1, i) \in Seq(Parts)
  <2>1. i \in Int /\ \A j \in 1 .. i : s[j] \in Parts
    BY <1>1
  <2> QED BY <2>1, SubSeqProperties
<1>4. ASSUME NEW i \in DOMAIN new PROVE SubSeq(new, 1, i) \in Seq(Parts)
  <2>1. i \in Int /\ \A j \in 1 .. i : new[j] \in Parts
    BY <1>1
  <2> QED BY <2>1, SubSeqProperties
<1>5. ASSUME NEW k \in DOMAIN new PROVE SubSeq(s, k + 1, Len(s)) \in Seq(Parts)
  <2>1. k + 1 \in Int /\ Len(s) \in Int /\ \A j \in (k + 1) .. Len(s) : s[j] \in Parts
    BY <1>1
  <2> QED BY <2>1, SubSeqProperties
<1>6. ASSUME NEW k \in DOMAIN new
      PROVE  SubSeq(new, 1, k) \o SubSeq(s, k + 1, Len(s)) \in Seq(Parts)
  BY <1>4, <1>5
<1> QED BY <1>2, <1>3, <1>4, <1>6 DEF Halves

\* A write leaves sound tables, but where it broke off below a standing header.
LEMMA WritesOK ==
    ASSUME NEW dk, NEW older, MediaOK(dk, older), NEW t \in Records, Good(t, older),
           NEW w \in Writes(dk, t)
    PROVE  /\ w.disk \in Media /\ w.disk.new = dk.new
           /\ ~w.torn => MediaOK(w.disk, older)
           /\ w.torn => w.rc = "error"
           /\ w.torn \in BOOLEAN /\ w.rc \in {"ok", "error", "refused"}
           /\ w.rc = "ok" => w.disk = After(dk, t) /\ ~w.torn
<1> DEFINE old == dk.t[t.home]
           none == Over(dk, t, NoTable)
<1>1. /\ dk \in Media /\ t.home \in 0 .. 1 /\ old \in Tables /\ NoTable \in Tables
      /\ dk.new \in SUBSET Cyls
  <2>1. dk \in Media /\ t.home \in 0 .. 1
    BY DEF MediaOK, Records
  <2> QED BY <2>1, MediaFields DEF Tables
<1>2. MediaOK(After(dk, t), older) /\ After(dk, t).new = dk.new
  <2>1. After(dk, t).new = dk.new
    BY <1>1 DEF After, Media
  <2> QED BY <2>1, AfterOK
<1>3. MediaOK(none, older) /\ none.new = dk.new
  BY <1>1, OverOK
<1>4. Plain(t).parts \in Seq(Parts)
  BY PlainGood DEF Records
<1>5. \/ w \in {Outcome(dk, "refused"), Outcome(After(dk, t), "ok"), Outcome(dk, "error"),
                Outcome(After(dk, t), "error"), Outcome(none, "error")}
      \/ old # NoTable /\ \E o \in Halves(old, Plain(t).parts) : w = TornOutcome(Over(dk, t, o))
  BY DEF Writes
<1> HIDE DEF none, old
<1>6. CASE w \in {Outcome(dk, "refused"), Outcome(After(dk, t), "ok"), Outcome(dk, "error"),
                 Outcome(After(dk, t), "error"), Outcome(none, "error")}
  <2>1. /\ w.disk \in {dk, After(dk, t), none} /\ ~w.torn
        /\ w.torn \in BOOLEAN /\ w.rc \in {"ok", "error", "refused"}
        /\ w.rc = "ok" => w.disk = After(dk, t)
    <3>1. PICK d \in {dk, After(dk, t), none}, r \in {"ok", "error", "refused"} :
            /\ w = Outcome(d, r)
            /\ r = "ok" => d = After(dk, t)
      BY <1>6, Zenon
    <3>2. w.disk = d /\ w.rc = r /\ w.torn = FALSE
      BY <3>1 DEF Outcome
    <3> QED BY <3>1, <3>2
  <2>2. MediaOK(w.disk, older) /\ w.disk.new = dk.new
    BY <1>2, <1>3, <2>1
  <2> QED BY <2>1, <2>2 DEF MediaOK
<1>7. CASE old # NoTable
           /\ \E o \in Halves(old, Plain(t).parts) : w = TornOutcome(Over(dk, t, o))
  <2>1. PICK o \in Halves(old, Plain(t).parts) : w = TornOutcome(Over(dk, t, o))
    BY <1>7
  <2>2. old \in Records
    BY <1>1, <1>7 DEF Tables
  <2>3. o \in Tables
    BY <1>4, <2>2, HalvesOK DEF Tables
  <2>4. Over(dk, t, o) \in Media /\ Over(dk, t, o).new = dk.new
    BY <1>1, <2>3, OverOK
  <2> QED BY <2>1, <2>4 DEF TornOutcome
<1> QED BY <1>5, <1>6, <1>7

LEMMA WroteOK ==
    ASSUME NEW dk, NEW older, MediaOK(dk, older), NEW c \in SUBSET Cyls
    PROVE  MediaOK(Wrote(dk, c), older)
<1>1. dk \in Media
  BY DEF MediaOK
<1>2. Wrote(dk, c) \in Media /\ Wrote(dk, c).t = dk.t /\ Wrote(dk, c).mbr = dk.mbr
  BY <1>1 DEF Wrote, Media
<1> QED BY <1>2 DEF MediaOK

\* A device without a table.
LEMMA EmptyOK ==
    ASSUME NEW dk, NEW older, NEW m \in {NoMbr} \cup SUBSET Slots, NEW c \in SUBSET Cyls,
           dk = [t |-> [h \in 0 .. 1 |-> NoTable], mbr |-> m, new |-> c]
    PROVE  MediaOK(dk, older)
<1> DEFINE ts == [h \in 0 .. 1 |-> NoTable]
<1>1. ts \in [0 .. 1 -> Tables] /\ ts[0] = NoTable /\ ts[1] = NoTable
  BY DEF Tables
<1> HIDE DEF ts
<1>2. dk = [t |-> ts, mbr |-> m, new |-> c]
  BY DEF ts
<1> QED BY <1>1, <1>2, NothingPlaced, MakeMedia

\* The MBR changes where block 0 holds no header, or takes its place.
LEMMA MbrOK ==
    ASSUME NEW dk, NEW older, MediaOK(dk, older), NEW m \in {NoMbr} \cup SUBSET Slots
    PROVE  /\ dk.t[0] = NoTable => MediaOK([dk EXCEPT !.mbr = m], older)
           /\ MediaOK([dk EXCEPT !.t[0] = NoTable, !.mbr = m], older)
           /\ MediaOK([dk EXCEPT !.mbr = m, !.t[0] = NoTable], older)
<1>1. dk \in Media /\ Placed(dk.t[0], 0, older) /\ Placed(dk.t[1], 1, older)
  BY DEF MediaOK
<1>2. dk.t \in [0 .. 1 -> Tables] /\ dk.new \in SUBSET Cyls
  BY <1>1, MediaFields
<1>3. ASSUME dk.t[0] = NoTable PROVE MediaOK([dk EXCEPT !.mbr = m], older)
  <2>1. [dk EXCEPT !.mbr = m] = [t |-> dk.t, mbr |-> m, new |-> dk.new]
    BY <1>1 DEF Media
  <2> QED BY <1>1, <1>2, <1>3, <2>1, MakeMedia
<1> DEFINE ts == [dk.t EXCEPT ![0] = NoTable]
<1>4. ts \in [0 .. 1 -> Tables] /\ ts[0] = NoTable /\ ts[1] = dk.t[1]
  BY <1>2 DEF Tables
<1>5. /\ [dk EXCEPT !.t[0] = NoTable, !.mbr = m] = [t |-> ts, mbr |-> m, new |-> dk.new]
      /\ [dk EXCEPT !.mbr = m, !.t[0] = NoTable] = [t |-> ts, mbr |-> m, new |-> dk.new]
  <2> DEFINE d == [dk EXCEPT !.t[0] = NoTable]
             e == [dk EXCEPT !.mbr = m]
  <2>1. d = [t |-> ts, mbr |-> dk.mbr, new |-> dk.new]
    BY <1>1 DEF Media
  <2>2. e = [t |-> dk.t, mbr |-> m, new |-> dk.new]
    BY <1>1 DEF Media
  <2>3. [d EXCEPT !.mbr = m] = [t |-> ts, mbr |-> m, new |-> dk.new]
    <3> HIDE DEF d, ts
    <3> QED BY <2>1
  <2>4. [e EXCEPT !.t[0] = NoTable] = [t |-> ts, mbr |-> m, new |-> dk.new]
    <3>1. e.t = dk.t /\ e.mbr = m /\ e.new = dk.new
      BY <2>2
    <3> HIDE DEF e
    <3> QED BY <2>2, <3>1
  <2> QED BY <2>3, <2>4
<1> HIDE DEF ts
<1>6. MediaOK([t |-> ts, mbr |-> m, new |-> dk.new], older)
  BY <1>1, <1>2, <1>4, NothingPlaced, MakeMedia
<1> QED BY <1>3, <1>5, <1>6

---------------------------------------------------------------------------
(* Restores *)

\* A header that comes back stands in its place.
LEMMA HeaderInOK ==
    ASSUME NEW dk, NEW older, MediaOK(dk, older), NEW t \in Records,
           Good(t, older), Clean(t)
    PROVE  MediaOK(HeaderIn(dk, t), older) /\ HeaderIn(dk, t).t[t.home] = t
<1>1. /\ dk \in Media /\ Placed(dk.t[0], 0, older) /\ Placed(dk.t[1], 1, older)
      /\ (dk.t[0] # NoTable => dk.mbr = NoMbr)
  BY DEF MediaOK
<1>2. /\ dk.t \in [0 .. 1 -> Tables] /\ dk.mbr \in {NoMbr} \cup SUBSET Slots
      /\ dk.new \in SUBSET Cyls
  BY <1>1, MediaFields
<1>3. Placed(t, t.home, older) /\ t \in Tables /\ (t.home = 0 \/ t.home = 1)
  BY DEF Placed, Tables, Records
<1>4. CASE t.home = 0
  <2> DEFINE ts == [dk.t EXCEPT ![0] = t]
             d == [dk EXCEPT !.t[0] = t]
  <2>1. ts \in [0 .. 1 -> Tables] /\ ts[0] = t /\ ts[1] = dk.t[1]
    BY <1>2, <1>3
  <2>2. d = [t |-> ts, mbr |-> dk.mbr, new |-> dk.new]
    BY <1>1 DEF Media
  <2>3. HeaderIn(dk, t) = [d EXCEPT !.mbr = NoMbr]
    BY <1>4 DEF HeaderIn
  <2> HIDE DEF d, ts
  <2>4. HeaderIn(dk, t) = [t |-> ts, mbr |-> NoMbr, new |-> dk.new]
    BY <2>2, <2>3
  <2>5. Placed(ts[0], 0, older) /\ Placed(ts[1], 1, older)
    BY <1>1, <1>3, <1>4, <2>1
  <2>6. NoMbr \in {NoMbr} \cup SUBSET Slots
    OBVIOUS
  <2> QED BY <1>2, <1>4, <2>1, <2>4, <2>5, <2>6, MakeMedia
<1>5. CASE t.home = 1
  <2> DEFINE ts == [h \in 0 .. 1 |-> IF h = 1 THEN t ELSE Cut(dk.t[0])]
  <2>1. /\ Cut(dk.t[0]) \in Tables /\ Placed(Cut(dk.t[0]), 0, older)
        /\ (Cut(dk.t[0]) # NoTable => dk.t[0] # NoTable)
    BY <1>1, <1>2, CutGood DEF Placed
  <2>2. ts \in [0 .. 1 -> Tables] /\ ts[0] = Cut(dk.t[0]) /\ ts[1] = t
    BY <1>3, <2>1
  <2>3. HeaderIn(dk, t) = [t |-> ts, mbr |-> dk.mbr, new |-> dk.new]
    BY <1>1, <1>5 DEF HeaderIn, Media
  <2> HIDE DEF ts
  <2>4. Placed(ts[0], 0, older) /\ Placed(ts[1], 1, older)
    BY <1>3, <1>5, <2>1, <2>2
  <2> QED BY <1>1, <1>2, <1>5, <2>1, <2>2, <2>3, <2>4, MakeMedia
<1> QED BY <1>3, <1>4, <1>5

\* The header with the lists that are on the disk: they lie apart, but the
\* header may state fewer cylinders than they use.
LEMMA HeaderBackOK ==
    ASSUME NEW dk, MediaOK(dk, TRUE), file.tab \in Tables, Good(file.tab, TRUE),
           Clean(file.tab), file.mbr \in {NoMbr} \cup SUBSET Slots
    PROVE  MediaOK(HeaderBack(dk), TRUE)
<1>1. CASE file.tab = NoTable
  BY <1>1, MbrOK DEF HeaderBack
<1>2. CASE file.tab # NoTable
  <2> DEFINE f == file.tab
             now == dk.t[f.home]
             u == [f EXCEPT !.parts = now.parts, !.drivers = now.drivers, !.cut = now.cut]
             t == IF f.parts = <<>> \/ now = NoTable THEN Cut(f) ELSE u
  <2>1. f \in Records /\ f.home \in 0 .. 1 /\ now \in Tables /\ Placed(now, f.home, TRUE)
    <3>1. f \in Records /\ f.home \in 0 .. 1
      BY <1>2 DEF Tables, Records
    <3> QED BY <3>1, MediaFields DEF MediaOK
  <2>2. CASE f.parts = <<>> \/ now = NoTable
    <3>1. Cut(f) \in Records /\ Good(Cut(f), TRUE) /\ Clean(Cut(f))
      BY <1>2, CutGood
    <3> QED BY <1>2, <2>2, <3>1, HeaderInOK DEF HeaderBack
  <2>3. CASE ~(f.parts = <<>> \/ now = NoTable)
    <3>1. now \in Records /\ Good(now, TRUE) /\ Clean(now)
      BY <2>1, <2>3 DEF Placed, Tables
    <3>2. u \in Records /\ u.parts = now.parts
      BY <2>1, <3>1 DEF Records
    <3> HIDE DEF u
    <3>3. Disjoint(u) /\ Len(u.parts) <= MaxParts /\ Clean(u)
      <4>1. now # NoTable /\ u # NoTable
        BY <3>1, <3>2, SessionAssumption
      <4> QED BY <3>1, <3>2, <4>1 DEF Good, Disjoint, Clean, PartsOf
    <3>4. Good(u, TRUE)
      BY <3>2, <3>3, GoodRecord
    <3>5. HeaderBack(dk) = HeaderIn(dk, u)
      BY <1>2, <2>3 DEF HeaderBack, u
    <3> QED BY <3>2, <3>3, <3>4, <3>5, HeaderInOK
  <2> QED BY <2>2, <2>3
<1> QED BY <1>1, <1>2

\* A dump of all blocks brings its own lists.
LEMMA AllBackOK ==
    ASSUME NEW dk, NEW older, MediaOK(dk, older), file.tab \in Tables, Good(file.tab, older),
           Clean(file.tab), file.mbr \in {NoMbr} \cup SUBSET Slots
    PROVE  MediaOK(AllBack(dk), older)
<1>1. CASE file.tab = NoTable
  BY <1>1, MbrOK DEF AllBack
<1>2. CASE file.tab # NoTable
  <2>1. file.tab \in Records
    BY <1>2 DEF Tables
  <2>2. MediaOK(HeaderIn(dk, file.tab), older)
    BY <2>1, HeaderInOK
  <2>3. MediaOK([HeaderIn(dk, file.tab) EXCEPT !.t[1] = NoTable], older)
    <3>1. NoTable \in Tables /\ 1 \in 0 .. 1 /\ 1 # 0
      BY DEF Tables
    <3> QED BY <2>2, <3>1, NothingPlaced, PutTable
  <2> QED BY <1>2, <2>2, <2>3 DEF AllBack
<1> QED BY <1>1, <1>2

---------------------------------------------------------------------------
(* The inductive invariant: every table the session holds, on the devices, *)
(* in memory and in the backup file, keeps its partitions apart.           *)

Codes == {"ok", "warn", "error", "refused", "end", "reboot"}

StType == [bd : Devices \cup {NoDevice}, rdb : Tables, dirty : BOOLEAN, force : BOOLEAN,
           dryrun : BOOLEAN, unmount : SUBSET Names, mbr : {NoMbr} \cup SUBSET Slots]

FileType == [ext : BOOLEAN, dev : Devices \cup {NoDevice}, tab : Tables,
             mbr : {NoMbr} \cup SUBSET Slots]

GhostType == [start : [Devices -> Media], named : SUBSET (Devices \X Names),
              behind : BOOLEAN, under : BOOLEAN, older : BOOLEAN,
              torn : Devices \cup {NoDevice}]

DisksOK(D, older) == D \in [Devices -> Media] /\ \A d \in Devices : MediaOK(D[d], older)
CopyOK(s, older) == s \in StType /\ Good(s.rdb, older)
FileOK(f, older) == f \in FileType /\ Good(f.tab, older) /\ Clean(f.tab)

Kept == /\ DisksOK(disk, ghost.older)
        /\ CopyOK(st, ghost.older)
        /\ FileOK(file, ghost.older)
        /\ ghost \in GhostType
        /\ rc \in Codes

\* A write broke off below a standing header and ended the session: what is
\* not on that device is as it was.
TornKept == /\ rc \in Codes \ {"ok"}
            /\ ghost \in GhostType /\ ghost.torn \in Devices
            /\ disk \in [Devices -> Media]
            /\ \A d \in Devices \ {ghost.torn} : MediaOK(disk[d], ghost.older)
            /\ CopyOK(st, ghost.older)

Sound == Kept \/ TornKept

\* What the invariant gives an action.
LEMMA KeptFacts ==
    ASSUME Kept
    PROVE  /\ st.bd \in Devices \cup {NoDevice} /\ st.rdb \in Tables
           /\ Good(st.rdb, ghost.older) /\ (st.rdb # NoTable => st.rdb \in Records)
           /\ (HasDevice => st.bd \in Devices /\ MediaOK(disk[st.bd], ghost.older))
           /\ \A d \in Devices : MediaOK(disk[d], ghost.older)
           /\ ghost.older \in BOOLEAN
BY DEF Kept, CopyOK, DisksOK, StType, GhostType, HasDevice, Tables

\* A header older than its lists is never forgotten.
LEMMA KeepOlder ==
    ASSUME NEW a, NEW b, a => b
    PROVE  /\ \A D : DisksOK(D, a) => DisksOK(D, b)
           /\ \A s : CopyOK(s, a) => CopyOK(s, b)
           /\ \A f : FileOK(f, a) => FileOK(f, b)
BY OlderGood DEF DisksOK, CopyOK, FileOK

LEMMA PutDisk ==
    ASSUME NEW D, NEW older, DisksOK(D, older), NEW d \in Devices, NEW dk, MediaOK(dk, older)
    PROVE  DisksOK([D EXCEPT ![d] = dk], older)
<1>1. D \in [Devices -> Media] /\ dk \in Media
  BY DEF DisksOK, MediaOK
<1> DEFINE E == [D EXCEPT ![d] = dk]
<1>2. E \in [Devices -> Media] /\ E[d] = dk /\ \A e \in Devices : e # d => E[e] = D[e]
  BY <1>1
<1> HIDE DEF E
<1>3. \A e \in Devices : MediaOK(E[e], older)
  BY <1>2 DEF DisksOK
<1> QED BY <1>2, <1>3 DEF DisksOK, E

\* The table of one device is written, in full or not.
LEMMA TableWritten ==
    ASSUME Kept, NEW d \in Devices, NEW dk, MediaOK(dk, ghost.older),
           NEW t \in Records, Good(t, ghost.older), NEW w \in Writes(dk, t),
           disk' = [disk EXCEPT ![d] = w.disk], rc' = w.rc, file' = file,
           CopyOK(st', ghost.older),
           NEW g \in GhostType, g.older = ghost.older, ghost' = Noted(g, d, w)
    PROVE  Sound'
<1>1. /\ w.disk \in Media /\ (~w.torn => MediaOK(w.disk, ghost.older)) /\ w.torn \in BOOLEAN
      /\ (w.torn => w.rc = "error") /\ w.rc \in Codes
  BY WritesOK DEF Codes
<1>2. /\ ghost' \in GhostType /\ ghost'.older = ghost.older
      /\ (w.torn => ghost'.torn = d)
  BY <1>1 DEF Noted, GhostType
<1>3. CASE ~w.torn
  <2>1. DisksOK(disk', ghost.older)
    BY <1>1, <1>3, PutDisk DEF Kept
  <2>2. Kept'
    BY <1>1, <1>2, <2>1 DEF Kept
  <2> QED BY <2>2 DEF Sound
<1>4. CASE w.torn
  <2>1. disk \in [Devices -> Media] /\ \A e \in Devices : MediaOK(disk[e], ghost.older)
    BY DEF Kept, DisksOK
  <2>2. disk' \in [Devices -> Media] /\ \A e \in Devices \ {d} : disk'[e] = disk[e]
    BY <1>1, <2>1
  <2>3. TornKept'
    BY <1>1, <1>2, <1>4, <2>1, <2>2 DEF TornKept, Codes
  <2> QED BY <2>3 DEF Sound
<1> QED BY <1>1, <1>3, <1>4

\* The session's own notes.
LEMMA NamedOK ==
    ASSUME ghost \in GhostType, NEW S \in SUBSET (Devices \X Names)
    PROVE  Named(S) \in GhostType /\ Named(S).older = ghost.older
BY DEF GhostType, Named

LEMMA NameSets ==
    /\ \A d \in Devices : Everything(d) \in SUBSET (Devices \X Names)
    /\ \A d \in Devices, x \in Names : {<<d, x>>} \in SUBSET (Devices \X Names)
BY DEF Everything

\* The table in memory is another one.
LEMMA CopyPut ==
    ASSUME NEW s, NEW older, CopyOK(s, older), NEW t \in Tables, Good(t, older)
    PROVE  /\ CopyOK([s EXCEPT !.rdb = t], older)
           /\ CopyOK([s EXCEPT !.rdb = t, !.dirty = TRUE], older)
           /\ CopyOK([s EXCEPT !.rdb = t, !.dirty = FALSE], older)
BY DEF CopyOK, StType

LEMMA OpenedOK ==
    ASSUME NEW older, CopyOK(st, older), NEW d \in Devices, NEW dk, MediaOK(dk, older)
    PROVE  CopyOK(Opened(dk, d), older)
<1>1. dk \in Media /\ dk.mbr \in {NoMbr} \cup SUBSET Slots
  BY MediaFields DEF MediaOK
<1>2. Read(dk) \in Tables /\ Good(Read(dk), older)
  BY <1>1, ReadGood DEF MediaOK, Placed
<1>3. ReadMbr(dk) \in {NoMbr} \cup SUBSET Slots
  BY <1>1 DEF ReadMbr
<1> QED BY <1>2, <1>3 DEF Opened, CopyOK, StType

\* What a disk or an image holds at the beginning.
LEMMA ImageOK ==
    ASSUME NEW s \in Starts \cup Images, NEW older
    PROVE  MediaOK(s, older) /\ s.new = {}
<1>1. /\ s \in Media /\ s.new = {} /\ (s.t[0] # NoTable => s.mbr = NoMbr)
      /\ \A h \in 0 .. 1 : /\ Disjoint(s.t[h]) /\ Inside(s.t[h])
                           /\ \A p \in PartsOf(s.t[h]) : ~p.want
                           /\ s.t[h] # NoTable => s.t[h].home = h /\ Len(s.t[h].parts) <= MaxParts
  BY SessionAssumption
<1>2. \A h \in 0 .. 1 : s.t[h] \in Tables
  BY <1>1, MediaFields
<1> QED BY <1>1, <1>2 DEF MediaOK, Placed, Good, Clean

LEMMA InitKept == Init => Kept
<1> SUFFICES ASSUME Init PROVE Kept
  OBVIOUS
<1>1. PICK s \in Starts, i \in Images : disk = [d \in Devices |-> IF d = HD THEN s ELSE i]
  BY DEF Init
<1>2. \A d \in Devices : disk[d] \in Starts \cup Images
  BY <1>1
<1>3. \A d \in Devices : MediaOK(disk[d], ghost.older)
  BY <1>2, ImageOK
<1>4. disk \in [Devices -> Media]
  BY <1>1, <1>3 DEF MediaOK
<1>5. CopyOK(st, ghost.older)
  <2>0. st \in Unopen
    BY DEF Init
  <2>1. st.rdb = NoTable
    BY <2>0 DEF Unopen
  <2>2. st \in StType
    BY <2>0 DEF Unopen, StType, Tables
  <2> QED BY <2>1, <2>2, GoodNoTable DEF CopyOK
<1>6. FileOK(file, ghost.older)
  BY GoodNoTable DEF Init, FileOK, FileType, Tables
<1>7. ghost \in GhostType
  BY <1>4 DEF Init, GhostType
<1> QED BY <1>3, <1>4, <1>5, <1>6, <1>7 DEF Init, Kept, DisksOK, Codes

---------------------------------------------------------------------------
(* One lemma for each command *)

LEMMA ReturnsKept ==
    ASSUME Kept, NEW r \in Codes, Returns(r)
    PROVE  Kept'
BY DEF Kept, Returns

LEMMA UnopenedKept == ASSUME Kept, Unopened PROVE Kept'
<1>1. CopyOK([st EXCEPT !.bd = NoDevice, !.rdb = NoTable, !.dirty = FALSE, !.mbr = NoMbr],
             ghost.older)
  BY GoodNoTable DEF Kept, CopyOK, StType, Tables
<1> QED BY <1>1 DEF Kept, Unopened, Codes

LEMMA OpenKept == ASSUME Kept, Open PROVE Kept'
<1>1. ASSUME NEW d \in Devices, st' = Opened(disk[d], d), rc' = "ok",
             ghost' = [ghost EXCEPT !.behind = FALSE], UNCHANGED <<disk, dos, file>>
      PROVE  Kept'
  <2>1. ghost' \in GhostType /\ ghost'.older = ghost.older
    BY <1>1 DEF Kept, GhostType
  <2>2. CopyOK(st', ghost.older)
    BY <1>1, OpenedOK DEF Kept, DisksOK
  <2>3. disk' = disk /\ file' = file /\ rc' \in Codes
    BY <1>1 DEF Codes
  <2> QED BY <2>1, <2>2, <2>3 DEF Kept
<1> QED BY <1>1, UnopenedKept DEF Open

LEMMA CreateKept == ASSUME Kept, Create PROVE Kept'
<1>1. ASSUME disk' = [disk EXCEPT ![Img] = Blank], st' = Opened(Blank, Img), rc' = "ok",
             ghost' = [Named(Everything(Img)) EXCEPT !.behind = FALSE],
             UNCHANGED <<dos, file>>
      PROVE  Kept'
  <2>1. Img \in Devices
    BY DEF Devices
  <2>2. MediaOK(Blank, ghost.older)
    <3>1. NoMbr \in {NoMbr} \cup SUBSET Slots /\ Cyls \in SUBSET Cyls
      OBVIOUS
    <3> QED BY <3>1, EmptyOK DEF Blank
  <2>3. ghost' \in GhostType /\ ghost'.older = ghost.older
    BY <1>1, <2>1, NamedOK, NameSets DEF Kept, GhostType
  <2>4. DisksOK(disk', ghost.older)
    BY <1>1, <2>1, <2>2, PutDisk DEF Kept
  <2>5. CopyOK(st', ghost.older)
    BY <1>1, <2>1, <2>2, OpenedOK DEF Kept
  <2> QED BY <1>1, <2>3, <2>4, <2>5 DEF Kept, Codes
<1> QED BY <1>1, UnopenedKept DEF Create

LEMMA InitNewKept == ASSUME Kept, NEW withMbr \in BOOLEAN, InitNew(withMbr) PROVE Kept'
<1> DEFINE o == ghost.older
           d == st.bd
<1>1. CASE ~HasDevice
  BY <1>1, ReturnsKept DEF InitNew, Codes
<1>2. CASE HasDevice /\ Returns("error")
  BY <1>2, ReturnsKept DEF Codes
<1>3. ASSUME HasDevice, ~Returns("error") PROVE Kept'
  <2>1. d \in Devices /\ MediaOK(disk[d], o)
    BY <1>3, KeptFacts
  <2>2. ghost' = Named(Everything(d)) /\ UNCHANGED <<dos, file>> /\ rc' \in Codes
    BY <1>3 DEF InitNew, Codes
  <2>3. ghost' \in GhostType /\ ghost'.older = o
    BY <2>1, <2>2, NamedOK, NameSets DEF Kept
  <2>4. DisksOK(disk', o)
    <3>1. {} \in {NoMbr} \cup SUBSET Slots
      OBVIOUS
    <3>2. MediaOK([disk[d] EXCEPT !.mbr = {}, !.t[0] = NoTable], o)
      BY <2>1, <3>1, MbrOK
    <3>3. DisksOK([disk EXCEPT ![d] = [disk[d] EXCEPT !.mbr = {}, !.t[0] = NoTable]], o)
      BY <2>1, <3>2, PutDisk DEF Kept
    <3>4. disk \in [Devices -> Media]
      BY DEF Kept, DisksOK
    <3>5. [disk EXCEPT ![d].mbr = {}, ![d].t[0] = NoTable] =
          [disk EXCEPT ![d] = [disk[d] EXCEPT !.mbr = {}, !.t[0] = NoTable]]
      BY <2>1, <3>4
    <3>6. \/ disk' = [disk EXCEPT ![d].mbr = {}, ![d].t[0] = NoTable]
          \/ disk' = disk
      BY <1>3 DEF InitNew
    <3> QED BY <3>3, <3>5, <3>6 DEF Kept
  <2>5. CopyOK(st', o)
    <3>1. \E h \in 0 .. 1, m \in {NoMbr} \cup SUBSET Slots :
             st' = [st EXCEPT !.rdb = Fresh(h), !.dirty = TRUE, !.mbr = m]
      <4>1. st \in StType
        BY DEF Kept, CopyOK
      <4>2. st.mbr \in {NoMbr} \cup SUBSET Slots /\ {} \in {NoMbr} \cup SUBSET Slots
            /\ NoMbr \in {NoMbr} \cup SUBSET Slots /\ 0 \in 0 .. 1 /\ 1 \in 0 .. 1
        BY <4>1 DEF StType
      <4>3. [st EXCEPT !.rdb = Fresh(1), !.dirty = TRUE] =
            [st EXCEPT !.rdb = Fresh(1), !.dirty = TRUE, !.mbr = st.mbr]
        BY <4>1 DEF StType
      <4>4. \/ st' = [st EXCEPT !.rdb = Fresh(IF withMbr THEN 1 ELSE 0), !.dirty = TRUE,
                            !.mbr = IF ~withMbr THEN NoMbr ELSE IF st.dryrun THEN @ ELSE {}]
            \/ st' = [st EXCEPT !.rdb = Fresh(1), !.dirty = TRUE]
        BY <1>3 DEF InitNew
      <4>5. \/ st' = [st EXCEPT !.rdb = Fresh(0), !.dirty = TRUE, !.mbr = NoMbr]
            \/ st' = [st EXCEPT !.rdb = Fresh(1), !.dirty = TRUE, !.mbr = st.mbr]
            \/ st' = [st EXCEPT !.rdb = Fresh(1), !.dirty = TRUE, !.mbr = {}]
        BY <4>1, <4>3, <4>4 DEF StType
      <4> QED BY <4>2, <4>5
    <3>2. PICK h \in 0 .. 1, m \in {NoMbr} \cup SUBSET Slots :
             st' = [st EXCEPT !.rdb = Fresh(h), !.dirty = TRUE, !.mbr = m]
      BY <3>1
    <3>3. Fresh(h) \in Tables /\ Good(Fresh(h), o)
      BY FreshGood DEF Tables
    <3> QED BY <3>2, <3>3 DEF Kept, CopyOK, StType
  <2> QED BY <2>2, <2>3, <2>4, <2>5 DEF Kept
<1> QED BY <1>1, <1>2, <1>3

LEMMA NewGeoKept == ASSUME Kept, NewGeo PROVE Kept'
<1> DEFINE o == ghost.older
           t == st.rdb
           u == [t EXCEPT !.top = TopCyl]
<1>1. CASE ~HasTable
  BY <1>1, ReturnsKept DEF NewGeo, Codes
<1>2. CASE HasTable /\ TopCyl <= t.top
  BY <1>2 DEF NewGeo, Kept, Codes
<1>3. CASE HasTable /\ ~(TopCyl <= t.top)
  <2>1. t \in Records /\ Good(t, o) /\ st \in StType
    BY <1>3, KeptFacts DEF HasTable, Kept, CopyOK
  <2>2. TopCyl \in Nat /\ t.top \in Nat /\ t.top <= TopCyl /\ TopCyl \in Cyls
    BY <1>3, <2>1, SessionAssumption DEF Records, Cyls
  <2>3. u \in Records /\ u.parts = t.parts /\ u.top = TopCyl
    BY <2>1, <2>2 DEF Records
  <2>4. \A i \in DOMAIN t.parts : t.parts[i].hi \in Nat /\ t.parts[i].hi <= TopCyl
    BY <2>1, <2>2, Extents
  <2>5. st' = [st EXCEPT !.rdb = u, !.dirty = TRUE]
    BY <1>3, <2>1 DEF NewGeo, StType
  <2> HIDE DEF u
  <2>6. Disjoint(u) /\ Inside(u) /\ Len(u.parts) <= MaxParts
    <3>1. t # NoTable /\ u # NoTable
      BY <2>1, <2>3, SessionAssumption
    <3> QED BY <2>1, <2>3, <2>4, <3>1 DEF Good, Disjoint, Inside
  <2>7. u \in Tables /\ Good(u, o)
    BY <2>3, <2>6, GoodRecord DEF Tables
  <2>8. CopyOK(st', o)
    BY <2>5, <2>7, CopyPut DEF Kept
  <2> QED BY <1>3, <2>8 DEF NewGeo, Kept, Codes
<1> QED BY <1>1, <1>2, <1>3

LEMMA AddPartKept == ASSUME Kept, AddPart PROVE Kept'
<1> DEFINE o == ghost.older
           t == st.rdb
<1>1. PICK name \in Names, lo \in 1 .. TopCyl, hi \in 1 .. TopCyl, want \in BOOLEAN :
        LET end == Clamped(t, lo, hi)
            p == [name |-> name, lo |-> lo, hi |-> end, want |-> want]
        IN  /\ lo <= hi
            /\ IF ~HasTable THEN Returns("error")
               ELSE IF \/ Len(t.parts) >= MaxParts \/ hi > t.top
                       \/ \E q \in PartsOf(t) : lo \in Span(q)
               THEN Returns("error")
               ELSE /\ st' = [st EXCEPT !.rdb.parts = Append(@, p), !.dirty = TRUE]
                    /\ ghost' = Named({<<st.bd, name>>})
                    /\ rc' = "ok"
                    /\ UNCHANGED <<disk, dos, file>>
  BY DEF AddPart
<1>2. CASE Returns("error")
  BY <1>2, ReturnsKept DEF Codes
<1>3. CASE ~Returns("error")
  <2> DEFINE end == Clamped(t, lo, hi)
             p == [name |-> name, lo |-> lo, hi |-> end, want |-> want]
             u == [t EXCEPT !.parts = Append(t.parts, p)]
  <2>1. /\ lo <= hi /\ HasTable /\ ~(Len(t.parts) >= MaxParts) /\ ~(hi > t.top)
        /\ \A q \in PartsOf(t) : lo \notin Span(q)
        /\ st' = [st EXCEPT !.rdb.parts = Append(@, p), !.dirty = TRUE]
        /\ ghost' = Named({<<st.bd, name>>}) /\ rc' = "ok" /\ UNCHANGED <<disk, dos, file>>
    BY <1>1, <1>3
  <2>2. t \in Records /\ Good(t, o) /\ st \in StType /\ st.bd \in Devices
    BY <2>1, KeptFacts DEF HasTable, Kept, CopyOK
  <2>3. /\ Len(t.parts) \in Nat /\ MaxParts \in Nat /\ t.top \in Nat
        /\ lo \in Nat /\ hi \in Nat
    BY <2>2, Extents, SessionAssumption DEF Records, Cyls
  <2>4. /\ end \in lo .. hi /\ end \in 1 .. TopCyl
        /\ \A q \in PartsOf(t) : q.lo > lo => end < q.lo
    BY <2>1, <2>2, ClampedEnd
  <2>5. u = [t EXCEPT !.parts = Append(t.parts, p)] /\ st' = [st EXCEPT !.rdb = u, !.dirty = TRUE]
    BY <2>1, <2>2 DEF StType, Records
  <2> HIDE DEF end, u
  <2>6. /\ p \in Parts /\ p.lo = lo /\ p.hi = end /\ p.lo <= p.hi /\ p.hi <= t.top
        /\ Len(t.parts) < MaxParts
    BY <2>1, <2>3, <2>4 DEF Parts
  <2> HIDE DEF p
  <2>7. \A q \in PartsOf(t) : p.lo \notin Span(q) /\ (q.lo > p.lo => p.hi < q.lo)
    BY <2>1, <2>4, <2>6
  <2>8. u \in Records /\ Good(u, o)
    <3> HIDE DEF t, o
    <3>1. u = [t EXCEPT !.parts = Append(t.parts, p)]
      BY <2>5
    <3> QED BY <2>2, <2>6, <2>7, <3>1, AddedGood
  <2>9. CopyOK(st', o)
    BY <2>5, <2>8, CopyPut DEF Kept, Tables
  <2>10. ghost' \in GhostType /\ ghost'.older = o
    BY <2>1, <2>2, NamedOK, NameSets DEF Kept
  <2> QED BY <2>1, <2>9, <2>10 DEF Kept, Codes
<1> QED BY <1>2, <1>3

LEMMA Found ==
    ASSUME NEW t \in Tables, NEW x, Find(t, x) # 0
    PROVE  /\ t \in Records /\ Find(t, x) \in DOMAIN t.parts
           /\ t.parts[Find(t, x)].name = x
           /\ \A j \in 1 .. (Find(t, x) - 1) : t.parts[j].name # x
<1>1. t # NoTable /\ \E i \in DOMAIN t.parts : t.parts[i].name = x
  BY DEF Find
<1>2. t \in Records
  BY <1>1 DEF Tables
<1>3. DOMAIN t.parts = 1 .. Len(t.parts) /\ Len(t.parts) \in Nat
  BY <1>2, Extents
<1> DEFINE S == {i \in 1 .. Len(t.parts) : t.parts[i].name = x}
<1>4. Min(S) \in S /\ \A j \in S : Min(S) <= j
  <2>1. S \in SUBSET Nat /\ S # {}
    BY <1>1, <1>3
  <2> HIDE DEF S
  <2> QED BY <2>1, MinOfSet
<1>5. /\ Min(S) \in DOMAIN t.parts /\ t.parts[Min(S)].name = x
      /\ \A j \in 1 .. (Min(S) - 1) : t.parts[j].name # x
  <2>1. ASSUME NEW j \in 1 .. (Min(S) - 1), t.parts[j].name = x PROVE FALSE
    <3>1. Min(S) \in 1 .. Len(t.parts)
      BY <1>4
    <3>2. j \in S
      BY <1>3, <2>1, <3>1
    <3> QED BY <1>4, <3>1, <3>2
  <2> QED BY <1>3, <1>4, <2>1
<1>6. Find(t, x) = CHOOSE i \in DOMAIN t.parts :
                        /\ t.parts[i].name = x
                        /\ \A j \in 1..(i - 1) : t.parts[j].name # x
  BY <1>1 DEF Find
<1> QED BY <1>2, <1>5, <1>6, Zenon

LEMMA DelPartKept == ASSUME Kept, DelPart PROVE Kept'
<1> DEFINE o == ghost.older
           t == st.rdb
<1>1. PICK name \in Names :
        IF ~HasTable \/ Find(t, name) = 0 THEN Returns("error")
        ELSE /\ st' = [st EXCEPT !.rdb.parts = RemoveAt(@, Find(t, name)), !.dirty = TRUE,
                                 !.unmount = @ \cup {name}]
             /\ ghost' = Named({<<st.bd, name>>})
             /\ rc' = "ok"
             /\ UNCHANGED <<disk, dos, file>>
  BY DEF DelPart
<1>2. CASE ~HasTable \/ Find(t, name) = 0
  BY <1>1, <1>2, ReturnsKept DEF Codes
<1>3. CASE HasTable /\ Find(t, name) # 0
  <2> DEFINE i == Find(t, name)
             u == [t EXCEPT !.parts = RemoveAt(t.parts, i)]
  <2>1. t \in Records /\ Good(t, o) /\ st \in StType /\ st.bd \in Devices
    BY <1>3, KeptFacts DEF HasTable, Kept, CopyOK
  <2>2. i \in DOMAIN t.parts
    BY <1>3, <2>1, Found DEF Tables
  <2>3. /\ u = [t EXCEPT !.parts = RemoveAt(t.parts, i)]
        /\ st' = [st EXCEPT !.rdb = u, !.dirty = TRUE, !.unmount = st.unmount \cup {name}]
    BY <1>1, <1>3, <2>1 DEF StType, Records
  <2> HIDE DEF u, i
  <2>4. u \in Records /\ Good(u, o)
    BY <2>1, <2>2, <2>3, RemovedGood
  <2>5. CopyOK(st', o)
    BY <2>1, <2>3, <2>4 DEF CopyOK, StType, Tables
  <2>6. ghost' \in GhostType /\ ghost'.older = o
    BY <1>1, <1>3, <2>1, NamedOK, NameSets DEF Kept
  <2> QED BY <1>1, <1>3, <2>5, <2>6 DEF Kept, Codes
<1> QED BY <1>2, <1>3

LEMMA AddFsKept == ASSUME Kept, AddFs PROVE Kept'
<1> DEFINE o == ghost.older
           t == st.rdb
           u == [t EXCEPT !.drivers = t.drivers + 1]
<1>1. CASE ~HasTable \/ t.drivers >= MaxDrivers
  BY <1>1, ReturnsKept DEF AddFs, Codes
<1>2. CASE HasTable /\ ~(t.drivers >= MaxDrivers)
  <2>1. t \in Records /\ Good(t, o) /\ st \in StType
    BY <1>2, KeptFacts DEF HasTable, Kept, CopyOK
  <2>2. t.drivers + 1 \in 0 .. MaxDrivers
    BY <1>2, <2>1, SessionAssumption DEF Records
  <2>3. u \in Records /\ u.parts = t.parts /\ u.top = t.top
    BY <2>1, <2>2 DEF Records
  <2>4. st' = [st EXCEPT !.rdb = u, !.dirty = TRUE]
    BY <1>2, <2>1 DEF AddFs, StType, Records
  <2> HIDE DEF u
  <2>5. Good(u, o)
    <3>1. t # NoTable /\ u # NoTable
      BY <2>1, <2>3, SessionAssumption
    <3> QED BY <2>1, <2>3, <3>1, GoodRecord DEF Good, Disjoint, Inside
  <2>6. CopyOK(st', o)
    BY <2>3, <2>4, <2>5, CopyPut DEF Kept, Tables
  <2> QED BY <1>2, <2>6 DEF AddFs, Kept, Codes
<1> QED BY <1>1, <1>2

\* The commands that look.
LEMMA AnswersKept ==
    ASSUME Kept, \/ CheckRdb \/ VerifyRdb \/ VerifyExt \/ ShrinkInfo \/ PartOut
                 \/ ImageOut \/ MountList \/ Info
    PROVE  Kept'
<1>1. \E r \in Codes : Returns(r)
  <2>1. \A possible, answers : answers \subseteq Codes /\ Answer(possible, answers)
                                  => \E r \in Codes : Returns(r)
    BY DEF Answer, Codes
  <2>2. /\ {"ok", "warn"} \subseteq Codes /\ {"ok", "warn", "error"} \subseteq Codes
        /\ {"ok", "error"} \subseteq Codes /\ {"ok"} \subseteq Codes
    BY DEF Codes
  <2>3. CASE CheckRdb
    BY <2>1, <2>2, <2>3 DEF CheckRdb
  <2>4. CASE VerifyRdb
    BY <2>1, <2>2, <2>4 DEF VerifyRdb
  <2>5. CASE VerifyExt
    BY <2>1, <2>2, <2>5 DEF VerifyExt
  <2>6. CASE ShrinkInfo
    BY <2>1, <2>2, <2>6 DEF ShrinkInfo
  <2>7. CASE PartOut
    BY <2>1, <2>2, <2>7 DEF PartOut
  <2>8. CASE ImageOut
    BY <2>1, <2>2, <2>8 DEF ImageOut
  <2>9. CASE MountList
    BY <2>1, <2>2, <2>9 DEF MountList
  <2>10. CASE Info
    BY <2>2, <2>10 DEF Info
  <2> QED BY <2>3, <2>4, <2>5, <2>6, <2>7, <2>8, <2>9, <2>10
<1> QED BY <1>1, ReturnsKept

LEMMA BackupKept == ASSUME Kept, NEW ext \in BOOLEAN, Backup(ext) PROVE Kept'
<1> DEFINE o == ghost.older
           d == st.bd
<1>1. CASE Returns("error") \/ Returns("ok")
  BY <1>1, ReturnsKept DEF Codes
<1>2. CASE ~Returns("error") /\ ~Returns("ok")
  <2>1. HasTable /\ rc' = "ok" /\ UNCHANGED <<disk, st, dos, ghost>>
        /\ file' = [ext |-> ext, dev |-> d, tab |-> disk[d].t[st.rdb.home],
                    mbr |-> disk[d].mbr]
    BY <1>2 DEF Backup
  <2>2. d \in Devices /\ MediaOK(disk[d], o) /\ disk[d] \in Media /\ st.rdb.home \in 0 .. 1
    BY <2>1, KeptFacts DEF HasTable, Records, MediaOK
  <2>3. /\ disk[d].t[st.rdb.home] \in Tables /\ disk[d].mbr \in {NoMbr} \cup SUBSET Slots
        /\ Good(disk[d].t[st.rdb.home], o) /\ Clean(disk[d].t[st.rdb.home])
    BY <2>2, MediaFields DEF MediaOK, Placed
  <2>4. FileOK(file', o)
    BY <2>1, <2>2, <2>3 DEF FileOK, FileType
  <2> QED BY <2>1, <2>4 DEF Kept, Codes
<1> QED BY <1>1, <1>2

LEMMA RestoreKept == ASSUME Kept, NEW ext \in BOOLEAN, Restore(ext) PROVE Kept'
<1> DEFINE o == ghost.older
           d == st.bd
           back == HeaderBack(disk[d])
           dk == IF ext THEN AllBack(disk[d]) ELSE back
<1>1. CASE Returns("error") \/ Returns("ok")
  BY <1>1, ReturnsKept DEF Codes
<1>2. CASE ~Returns("error") /\ ~Returns("ok")
  <2>1. /\ HasDevice /\ UNCHANGED <<dos, file>>
        /\ \/ rc' = "ok" /\ disk' = [disk EXCEPT ![d] = dk] /\ st' = Reloaded(dk)
           \/ /\ rc' = "error" /\ st' = st
              /\ disk' \in IF ext THEN {disk, [disk EXCEPT ![d] = back]} ELSE {disk}
        /\ ghost' = [Named(Everything(d)) EXCEPT !.behind = FALSE,
                                                 !.older = @ \/ ~ext \/ rc' # "ok"]
    BY <1>2 DEF Restore
  <2>2. d \in Devices /\ MediaOK(disk[d], o) /\ o \in BOOLEAN
    BY <2>1, KeptFacts
  <2>3. /\ ghost' \in GhostType /\ ghost'.older = (o \/ ~ext \/ rc' # "ok")
    BY <2>1, <2>2, NamedOK, NameSets DEF Kept, GhostType
  <2> DEFINE b == ghost'.older
  <2> HIDE DEF b
  <2>4. (o => b) /\ (~ext => b) /\ (rc' # "ok" => b) /\ b \in BOOLEAN
    BY <2>2, <2>3 DEF b
  <2>5. /\ DisksOK(disk, b) /\ CopyOK(st, b) /\ FileOK(file, b) /\ MediaOK(disk[d], b)
    BY <2>2, <2>4, KeepOlder, OlderGood DEF Kept
  <2>6. file.tab \in Tables /\ Good(file.tab, b) /\ Clean(file.tab)
        /\ file.mbr \in {NoMbr} \cup SUBSET Slots
    BY <2>5 DEF FileOK, FileType
  <2>7. ASSUME b PROVE MediaOK(back, b)
    <3>1. b = TRUE
      BY <2>4, <2>7
    <3> QED BY <2>5, <2>6, <3>1, HeaderBackOK
  <2>8. MediaOK(dk, b)
    <3>1. CASE ext
      BY <2>5, <2>6, <3>1, AllBackOK
    <3>2. CASE ~ext
      BY <2>4, <2>7, <3>2
    <3> QED BY <3>1, <3>2
  <2> HIDE DEF dk, back
  <2>9. CASE rc' = "ok" /\ disk' = [disk EXCEPT ![d] = dk] /\ st' = Reloaded(dk)
    <3>1. DisksOK(disk', b)
      BY <2>2, <2>5, <2>8, <2>9, PutDisk
    <3>2. CopyOK(st', b)
      BY <2>2, <2>5, <2>8, <2>9, OpenedOK DEF Reloaded
    <3> QED BY <2>1, <2>3, <2>5, <2>9, <3>1, <3>2 DEF Kept, Codes, b
  <2>10. CASE rc' = "error" /\ st' = st /\ (disk' = disk \/ disk' = [disk EXCEPT ![d] = back])
    <3>1. b
      BY <2>4, <2>10
    <3>2. DisksOK(disk', b)
      <4>1. MediaOK(back, b)
        BY <2>7, <3>1
      <4>2. DisksOK([disk EXCEPT ![d] = back], b)
        BY <2>2, <2>5, <4>1, PutDisk
      <4> QED BY <2>5, <2>10, <4>2
    <3> QED BY <2>1, <2>3, <2>5, <2>10, <3>2 DEF Kept, Codes, b
  <2> QED BY <2>1, <2>9, <2>10
<1> QED BY <1>1, <1>2

\* The new size of GROW and SHRINK and of a clone that trims.
LEMMA ResizeKept ==
    ASSUME Kept, HasTable, NEW i \in DOMAIN st.rdb.parts, NEW hi \in 1 .. TopCyl,
           NEW noUnmount \in BOOLEAN, Resize(i, hi, noUnmount),
           Good(With(st.rdb, i, hi), ghost.older)
    PROVE  Sound'
<1> DEFINE o == ghost.older
           d == st.bd
           p == st.rdb.parts[i]
           new == With(st.rdb, i, hi)
           cyls == Span(p) \cup Span(new.parts[i])
           after == Wrote(disk[d], cyls)
<1>1. /\ d \in Devices /\ MediaOK(disk[d], o) /\ st.rdb \in Records /\ st \in StType
      /\ Good(st.rdb, o)
  BY KeptFacts DEF HasTable, Kept, CopyOK
<1>2. new \in Records /\ DOMAIN new.parts = DOMAIN st.rdb.parts
  BY <1>1, WithParts
<1>3. cyls \in SUBSET Cyls
  <2>1. Span(st.rdb.parts[i]) \subseteq Cyls
    BY <1>1, Extents
  <2>2. Span(new.parts[i]) \subseteq Cyls
    BY <1>2, Extents
  <2> QED BY <2>1, <2>2
<1>4. MediaOK(after, o)
  BY <1>1, <1>3, WroteOK
<1>5. Named({<<d, p.name>>}) \in GhostType /\ Named({<<d, p.name>>}).older = o
  <2>1. p.name \in Names
    BY <1>1, Extents
  <2> QED BY <1>1, <2>1, NamedOK, NameSets DEF Kept
<1>6. /\ UNCHANGED file
      /\ \/ rc' = "error" /\ UNCHANGED <<disk, st, dos, ghost>>
         \/ /\ rc' = "error" /\ disk' \in {disk, [disk EXCEPT ![d] = after]} /\ UNCHANGED st
            /\ \E u : ghost' = [Named({<<d, p.name>>}) EXCEPT !.under = @ \/ u]
         \/ \E w \in Writes(after, new) :
                 /\ \E u, b : ghost' = Noted([[Named({<<d, p.name>>}) EXCEPT !.under = @ \/ u]
                                                 EXCEPT !.behind = @ /\ b], d, w)
                 /\ disk' = [disk EXCEPT ![d] = w.disk]
                 /\ rc' = w.rc
                 /\ st' = IF w.rc = "ok" THEN Saved(st, new) ELSE [st EXCEPT !.rdb = new]
  BY Zenon DEF Resize
<1> HIDE DEF after, new, p
<1>7. CASE rc' = "error" /\ UNCHANGED <<disk, st, dos, ghost>>
  BY <1>6, <1>7 DEF Sound, Kept, Codes
<1>8. CASE /\ rc' = "error" /\ disk' \in {disk, [disk EXCEPT ![d] = after]} /\ UNCHANGED st
           /\ \E u : ghost' = [Named({<<d, p.name>>}) EXCEPT !.under = @ \/ u]
  <2>1. ghost' \in GhostType /\ ghost'.older = o
    BY <1>5, <1>8 DEF GhostType
  <2>2. DisksOK(disk', o)
    BY <1>1, <1>4, <1>8, PutDisk DEF Kept
  <2> QED BY <1>6, <1>8, <2>1, <2>2 DEF Sound, Kept, Codes
<1>9. ASSUME NEW w \in Writes(after, new),
             \E u, b : ghost' = Noted([[Named({<<d, p.name>>}) EXCEPT !.under = @ \/ u]
                                           EXCEPT !.behind = @ /\ b], d, w),
             disk' = [disk EXCEPT ![d] = w.disk], rc' = w.rc,
             st' = IF w.rc = "ok" THEN Saved(st, new) ELSE [st EXCEPT !.rdb = new]
      PROVE  Sound'
  <2>1. PICK u, b : ghost' = Noted([[Named({<<d, p.name>>}) EXCEPT !.under = @ \/ u]
                                       EXCEPT !.behind = @ /\ b], d, w)
    BY <1>9
  <2> DEFINE g == [[Named({<<d, p.name>>}) EXCEPT !.under = @ \/ u] EXCEPT !.behind = @ /\ b]
  <2>2. g \in GhostType /\ g.older = o
    BY <1>5 DEF GhostType
  <2>3. CopyOK(st', o)
    BY <1>2, <1>9, CopyPut DEF Kept, Tables, Saved, new
  <2>4. new \in Records /\ Good(new, o) /\ file' = file
    BY <1>2, <1>6 DEF new
  <2> HIDE DEF g
  <2>5. ghost' = Noted(g, d, w)
    BY <2>1 DEF g
  <2> QED BY <1>1, <1>4, <1>9, <2>2, <2>3, <2>4, <2>5, TableWritten
<1> QED BY <1>6, <1>7, <1>8, <1>9

LEMMA ResizeCommandKept ==
    ASSUME Kept, NEW larger \in BOOLEAN, ResizeCommand(larger) PROVE Sound'
<1> DEFINE t == st.rdb
<1>1. PICK name \in Names, hi \in 1 .. TopCyl, noUnmount \in BOOLEAN :
        LET i == Find(t, name)
            p == t.parts[i]
        IN  IF ~HasTable \/ i = 0 THEN Returns("error")
            ELSE IF larger /\ Gap(t, p) <= p.hi THEN Returns("error")
            ELSE IF ~larger /\ p.lo = p.hi THEN Returns("ok")
            ELSE /\ IF larger THEN hi > p.hi /\ hi <= Gap(t, p) ELSE hi < p.hi /\ hi >= p.lo
                 /\ IF st.dryrun THEN Returns("ok")
                    ELSE \/ Resize(i, hi, noUnmount)
                         \/ FALSE \in Answers /\ Returns("error")
  BY DEF ResizeCommand
<1>2. CASE Returns("error") \/ Returns("ok")
  BY <1>2, ReturnsKept DEF Codes, Sound
<1>3. CASE ~Returns("error") /\ ~Returns("ok")
  <2> DEFINE i == Find(t, name)
             p == t.parts[i]
  <2>1. /\ HasTable /\ i # 0 /\ Resize(i, hi, noUnmount)
        /\ IF larger THEN hi > p.hi /\ hi <= Gap(t, p) ELSE hi < p.hi /\ hi >= p.lo
    BY <1>1, <1>3
  <2>2. t \in Records /\ Good(t, ghost.older) /\ t \in Tables
    BY <2>1, KeptFacts DEF HasTable
  <2>3. i \in DOMAIN t.parts
    BY <2>1, <2>2, Found
  <2> HIDE DEF i
  <2>4. /\ p.lo \in Nat /\ p.hi \in Nat /\ p.lo <= p.hi /\ hi \in Nat
        /\ hi >= p.lo /\ (hi <= p.hi \/ hi <= Gap(t, p))
    <3>1. t # NoTable
      BY <2>1 DEF HasTable
    <3>2. p.lo \in Nat /\ p.hi \in Nat /\ p.lo <= p.hi
      BY <2>2, <2>3, <3>1, Extents DEF Good, Disjoint
    <3>3. hi \in Nat
      BY SessionAssumption
    <3> QED BY <2>1, <3>2, <3>3
  <2>5. Good(With(t, i, hi), ghost.older)
    BY <2>2, <2>3, <2>4, ResizedGood
  <2> QED BY <2>1, <2>3, <2>5, ResizeKept
<1> QED BY <1>2, <1>3

LEMMA CopyIntoKept ==
    ASSUME Kept, NEW d \in Devices, NEW t \in Records, NEW i \in DOMAIN t.parts,
           NEW own \in BOOLEAN, CopyInto(d, t, i, own), Good(t, ghost.older)
    PROVE  Sound'
<1> DEFINE o == ghost.older
           p == t.parts[i]
           after == Wrote(disk[d], Span(p))
<1>1. /\ MediaOK(disk[d], o) /\ st \in StType /\ t # NoTable
      /\ p \in Parts /\ p.lo \in 1 .. TopCyl /\ p.hi \in 1 .. TopCyl /\ p.name \in Names
      /\ Span(p) \in SUBSET Cyls /\ p.lo \in Nat /\ p.hi \in Nat
  BY KeptFacts, Extents, SessionAssumption DEF Kept, CopyOK
<1>2. p.lo <= p.hi
  BY <1>1 DEF Good, Disjoint
<1>3. MediaOK(after, o)
  BY <1>1, WroteOK
<1> DEFINE told == [Named({<<d, p.name>>}) EXCEPT !.behind = @ \/ (~own /\ d = st.bd)]
<1>4. /\ UNCHANGED <<dos, file>>
      /\ \/ /\ rc' = "error" /\ disk' \in {disk, [disk EXCEPT ![d] = after]} /\ UNCHANGED st
            /\ ghost' = told
         \/ \E hi \in {p.hi, p.lo} : \E w \in Writes(after, With(t, i, hi)) :
                 /\ disk' = [disk EXCEPT ![d] = w.disk]
                 /\ rc' = w.rc
                 /\ ghost' = Noted(told, d, w)
                 /\ st' = IF ~own THEN st
                          ELSE IF w.rc = "ok" THEN Saved(st, With(t, i, hi))
                          ELSE [st EXCEPT !.rdb = With(t, i, hi)]
  BY DEF CopyInto
<1>5. told \in GhostType /\ told.older = o
  BY <1>1, NamedOK, NameSets DEF Kept, GhostType
<1> HIDE DEF after, told
<1>6. CASE /\ rc' = "error" /\ disk' \in {disk, [disk EXCEPT ![d] = after]} /\ UNCHANGED st
           /\ ghost' = told
  <2>1. DisksOK(disk', o)
    BY <1>3, <1>6, PutDisk DEF Kept
  <2> QED BY <1>4, <1>5, <1>6, <2>1 DEF Sound, Kept, Codes
<1>7. ASSUME NEW hi \in {p.hi, p.lo}, NEW w \in Writes(after, With(t, i, hi)),
             disk' = [disk EXCEPT ![d] = w.disk], rc' = w.rc, ghost' = Noted(told, d, w),
             st' = IF ~own THEN st
                   ELSE IF w.rc = "ok" THEN Saved(st, With(t, i, hi))
                   ELSE [st EXCEPT !.rdb = With(t, i, hi)]
      PROVE  Sound'
  <2>1. hi \in 1 .. TopCyl /\ p.lo <= hi /\ hi <= p.hi
    BY <1>1, <1>2
  <2>2. Good(With(t, i, hi), o) /\ With(t, i, hi) \in Records
    BY <2>1, ResizedGood, WithParts
  <2>3. CopyOK(st', o)
    BY <1>7, <2>2, CopyPut DEF Kept, Tables, Saved
  <2>4. file' = file
    BY <1>4
  <2> QED BY <1>3, <1>5, <1>7, <2>2, <2>3, <2>4, TableWritten
<1> QED BY <1>4, <1>6, <1>7

\* A driver more leaves a table's partitions.
LEMMA CarriedGood ==
    ASSUME NEW t \in Records, NEW older, Good(t, older), NEW u \in Carried(t) \cup {t}
    PROVE  /\ u \in Records /\ u.parts = t.parts /\ u.home = t.home /\ u.top = t.top
           /\ Good(u, older) /\ PartsOf(u) = PartsOf(t)
<1>1. u \in Records /\ u.parts = t.parts /\ u.home = t.home /\ u.top = t.top
  <2>1. CASE u = t
    BY <2>1
  <2>2. CASE t.drivers < MaxDrivers /\ u = [t EXCEPT !.drivers = @ + 1]
    <3>1. t.drivers \in 0 .. MaxDrivers /\ MaxDrivers \in Nat
      BY SessionAssumption DEF Records
    <3>2. t.drivers + 1 \in 0 .. MaxDrivers
      BY <2>2, <3>1
    <3> QED BY <2>2, <3>2 DEF Records
  <2> QED BY <2>1, <2>2 DEF Carried
<1>2. t # NoTable /\ u # NoTable
  BY <1>1, SessionAssumption
<1>3. Disjoint(u) /\ (~older => Inside(u)) /\ Len(u.parts) <= MaxParts
  BY <1>1, <1>2 DEF Good, Disjoint, Inside
<1>4. PartsOf(u) = PartsOf(t)
  BY <1>1, <1>2 DEF PartsOf
<1> QED BY <1>1, <1>3, <1>4, GoodRecord

LEMMA PartCloneKept == ASSUME Kept, PartClone PROVE Sound'
<1>1. PICK src \in Names, dst \in Names, cross \in BOOLEAN :
        LET t == IF cross THEN Read(disk[HD]) ELSE st.rdb
            i == Find(st.rdb, src)
            k == Find(t, dst)
        IN  IF ~HasTable \/ i = 0 THEN Returns("error")
            ELSE IF st.dryrun THEN Returns("ok")
            ELSE IF k = 0 \/ (~cross /\ i = k) THEN Returns("error")
            ELSE \E u \in IF cross THEN Carried(t) ELSE {t} :
                     CopyInto(IF cross THEN HD ELSE st.bd, u, k, ~cross)
  BY DEF PartClone
<1>2. CASE Returns("error") \/ Returns("ok")
  BY <1>2, ReturnsKept DEF Codes, Sound
<1>3. CASE ~Returns("error") /\ ~Returns("ok")
  <2> DEFINE t == IF cross THEN Read(disk[HD]) ELSE st.rdb
             k == Find(t, dst)
             d == IF cross THEN HD ELSE st.bd
  <2>1. HasTable /\ k # 0 /\ \E u \in Carried(t) \cup {t} : CopyInto(d, u, k, ~cross)
    BY <1>1, <1>3
  <2>2. HD \in Devices /\ (HD \in Devices => MediaOK(disk[HD], ghost.older))
    BY KeptFacts DEF Devices
  <2>3. Read(disk[HD]) \in Tables /\ Good(Read(disk[HD]), ghost.older)
    BY <2>2, ReadGood DEF MediaOK, Placed
  <2>4. t \in Tables /\ Good(t, ghost.older) /\ d \in Devices
    <3>1. st.rdb \in Tables /\ Good(st.rdb, ghost.older) /\ st.bd \in Devices
      BY <2>1, KeptFacts DEF HasTable
    <3>2. CASE cross
      BY <2>2, <2>3, <3>2
    <3>3. CASE ~cross
      BY <3>1, <3>3
    <3> QED BY <3>2, <3>3
  <2> HIDE DEF t, d
  <2>5. t \in Records /\ k \in DOMAIN t.parts
    BY <2>1, <2>4, Found
  <2>6. (~cross) \in BOOLEAN
    OBVIOUS
  <2> HIDE DEF k
  <2>7. PICK u \in Carried(t) \cup {t} : CopyInto(d, u, k, ~cross)
    BY <2>1
  <2>8. u \in Records /\ k \in DOMAIN u.parts /\ Good(u, ghost.older)
    BY <2>4, <2>5, CarriedGood
  <2> QED BY <2>4, <2>6, <2>7, <2>8, CopyIntoKept
<1> QED BY <1>2, <1>3

LEMMA PartInKept == ASSUME Kept, PartIn PROVE Sound'
<1>1. PICK name \in Names :
        IF ~HasTable \/ Find(st.rdb, name) = 0 THEN Returns("error")
        ELSE IF st.dryrun THEN Returns("ok")
        ELSE CopyInto(st.bd, st.rdb, Find(st.rdb, name), TRUE)
  BY DEF PartIn
<1>2. CASE Returns("error") \/ Returns("ok")
  BY <1>2, ReturnsKept DEF Codes, Sound
<1>3. CASE ~Returns("error") /\ ~Returns("ok")
  <2>1. /\ HasTable /\ Find(st.rdb, name) # 0
        /\ CopyInto(st.bd, st.rdb, Find(st.rdb, name), TRUE)
    BY <1>1, <1>3
  <2>2. /\ st.rdb \in Records /\ Good(st.rdb, ghost.older) /\ st.bd \in Devices
        /\ Find(st.rdb, name) \in DOMAIN st.rdb.parts
    BY <2>1, KeptFacts, Found DEF HasTable
  <2>3. TRUE \in BOOLEAN
    OBVIOUS
  <2> QED BY <2>1, <2>2, <2>3, CopyIntoKept
<1> QED BY <1>2, <1>3

LEMMA ZeroPartKept == ASSUME Kept, ZeroPart PROVE Kept'
<1> DEFINE o == ghost.older
           d == st.bd
<1>1. PICK name \in Names :
        LET i == Find(st.rdb, name)
        IN  IF ~HasTable \/ i = 0 THEN Returns("error")
            ELSE IF st.dryrun THEN Returns("ok")
            ELSE /\ disk' = [disk EXCEPT ![d] = Wrote(@, Span(st.rdb.parts[i]))]
                 /\ ghost' = Named({<<d, name>>})
                 /\ rc' \in {"ok", "error"}
                 /\ UNCHANGED <<st, dos, file>>
  BY DEF ZeroPart
<1>2. CASE Returns("error") \/ Returns("ok")
  BY <1>2, ReturnsKept DEF Codes
<1>3. CASE ~Returns("error") /\ ~Returns("ok")
  <2> DEFINE i == Find(st.rdb, name)
             c == Span(st.rdb.parts[i])
  <2>1. /\ HasTable /\ i # 0
        /\ disk' = [disk EXCEPT ![d] = Wrote(@, c)]
        /\ ghost' = Named({<<d, name>>}) /\ rc' \in {"ok", "error"} /\ UNCHANGED <<st, dos, file>>
    BY <1>1, <1>3
  <2>2. d \in Devices /\ MediaOK(disk[d], o) /\ st.rdb \in Records
    BY <2>1, KeptFacts DEF HasTable
  <2>3. i \in DOMAIN st.rdb.parts
    BY <2>1, <2>2, Found DEF Tables
  <2>4. c \in SUBSET Cyls
    BY <2>2, <2>3, Extents
  <2> HIDE DEF c, i
  <2>5. MediaOK(Wrote(disk[d], c), o)
    BY <2>2, <2>4, WroteOK
  <2>6. disk' = [disk EXCEPT ![d] = Wrote(disk[d], c)]
    BY <2>1, <2>2 DEF Kept, DisksOK
  <2>7. DisksOK(disk', o)
    BY <2>2, <2>5, <2>6, PutDisk DEF Kept
  <2>8. ghost' \in GhostType /\ ghost'.older = o
    BY <2>1, <2>2, NamedOK, NameSets DEF Kept
  <2> QED BY <2>1, <2>7, <2>8 DEF Kept, Codes
<1> QED BY <1>2, <1>3

LEMMA ClearRdbKept == ASSUME Kept, ClearRdb PROVE Kept'
<1> DEFINE o == ghost.older
           d == st.bd
           dk == [disk[d] EXCEPT !.t = [h \in 0..1 |-> NoTable], !.mbr = NoMbr]
<1>1. CASE Returns("error") \/ Returns("ok")
  BY <1>1, ReturnsKept DEF Codes
<1>2. CASE ~Returns("error") /\ ~Returns("ok")
  <2>1. /\ HasDevice /\ UNCHANGED <<dos, file>>
        /\ ghost' = [Named(Everything(d)) EXCEPT !.behind = FALSE]
        /\ \/ /\ disk' = [disk EXCEPT ![d] = dk] /\ rc' = "ok"
              /\ st' = [st EXCEPT !.rdb = NoTable, !.mbr = NoMbr, !.dirty = FALSE]
           \/ disk' \in {disk, [disk EXCEPT ![d] = dk]} /\ st' = st /\ rc' = "error"
    BY <1>2 DEF ClearRdb
  <2>2. d \in Devices /\ MediaOK(disk[d], o) /\ disk[d] \in Media
    BY <2>1, KeptFacts DEF MediaOK
  <2>3. MediaOK(dk, o)
    <3>1. dk = [t |-> [h \in 0..1 |-> NoTable], mbr |-> NoMbr, new |-> disk[d].new]
      <4> DEFINE ts == [h \in 0..1 |-> NoTable]
      <4>1. dk = [disk[d] EXCEPT !.t = ts, !.mbr = NoMbr]
        OBVIOUS
      <4> HIDE DEF ts, dk
      <4>2. dk = [t |-> ts, mbr |-> NoMbr, new |-> disk[d].new]
        BY <2>2, <4>1 DEF Media
      <4> QED BY <4>2 DEF ts
    <3>2. disk[d].new \in SUBSET Cyls /\ NoMbr \in {NoMbr} \cup SUBSET Slots
      BY <2>2, MediaFields
    <3> HIDE DEF dk
    <3> QED BY <3>1, <3>2, EmptyOK
  <2> HIDE DEF dk
  <2>4. DisksOK([disk EXCEPT ![d] = dk], o)
    BY <2>2, <2>3, PutDisk DEF Kept
  <2>5. DisksOK(disk', o)
    BY <2>1, <2>4 DEF Kept
  <2>6. ghost' \in GhostType /\ ghost'.older = o
    BY <2>1, <2>2, NamedOK, NameSets DEF Kept, GhostType
  <2>7. CopyOK([st EXCEPT !.rdb = NoTable, !.mbr = NoMbr, !.dirty = FALSE], o)
    BY GoodNoTable DEF Kept, CopyOK, StType, Tables
  <2>8. CopyOK(st', o)
    BY <2>1, <2>7 DEF Kept
  <2> QED BY <2>1, <2>5, <2>6, <2>8 DEF Kept, Codes
<1> QED BY <1>1, <1>2

LEMMA ImageInKept == ASSUME Kept, ImageIn PROVE Kept'
<1> DEFINE o == ghost.older
           d == st.bd
<1>1. CASE Returns("error") \/ Returns("ok")
  BY <1>1, ReturnsKept DEF Codes
<1>2. CASE ~Returns("error") /\ ~Returns("ok")
  <2>1. /\ HasDevice /\ UNCHANGED <<dos, file>>
        /\ ghost' = [Named(Everything(d)) EXCEPT !.behind = FALSE]
        /\ \E i \in Images :
             LET dk == [i EXCEPT !.new = Cyls]
             IN  /\ disk' = [disk EXCEPT ![d] = dk]
                 /\ \/ st' = [st EXCEPT !.rdb = Read(dk)] /\ rc' = "ok"
                    \/ st' = st /\ rc' = "error"
    BY <1>2 DEF ImageIn
  <2>2. PICK i \in Images :
             LET dk == [i EXCEPT !.new = Cyls]
             IN  /\ disk' = [disk EXCEPT ![d] = dk]
                 /\ \/ st' = [st EXCEPT !.rdb = Read(dk)] /\ rc' = "ok"
                    \/ st' = st /\ rc' = "error"
    BY <2>1
  <2> DEFINE dk == [i EXCEPT !.new = Cyls]
  <2>3. d \in Devices
    BY <2>1, KeptFacts
  <2>4. MediaOK(dk, o)
    <3>1. MediaOK(i, o) /\ i.new = {}
      BY ImageOK
    <3>2. Cyls \in SUBSET Cyls /\ dk = Wrote(i, Cyls)
      BY <3>1 DEF Wrote
    <3> QED BY <3>1, <3>2, WroteOK
  <2>5. /\ disk' = [disk EXCEPT ![d] = dk]
        /\ \/ st' = [st EXCEPT !.rdb = Read(dk)] /\ rc' = "ok"
           \/ st' = st /\ rc' = "error"
    BY <2>2
  <2> HIDE DEF dk
  <2>6. DisksOK(disk', o)
    BY <2>3, <2>4, <2>5, PutDisk DEF Kept
  <2>7. Read(dk) \in Tables /\ Good(Read(dk), o)
    BY <2>4, ReadGood DEF MediaOK, Placed
  <2>8. CopyOK(st', o) /\ rc' \in Codes
    BY <2>5, <2>7, CopyPut DEF Kept, Codes
  <2>9. ghost' \in GhostType /\ ghost'.older = o
    BY <2>1, <2>3, NamedOK, NameSets DEF Kept, GhostType
  <2> QED BY <2>1, <2>6, <2>8, <2>9 DEF Kept
<1> QED BY <1>1, <1>2

\* ADDMBR and DELMBR write the partitions the memory has after them.
LEMMA MbrKept ==
    ASSUME Kept, HasDevice, NEW m \in {NoMbr} \cup SUBSET Slots, st' = [st EXCEPT !.mbr = m],
           UNCHANGED <<dos, file, ghost>>,
           \/ /\ disk[st.bd].t[0] = NoTable
              /\ disk' = [disk EXCEPT ![st.bd].mbr = m]
              /\ rc' = "ok"
           \/ disk' = disk /\ rc' = "error"
    PROVE  Kept'
<1> DEFINE d == st.bd
           dk == [disk[d] EXCEPT !.mbr = m]
<1>1. d \in Devices /\ MediaOK(disk[d], ghost.older)
  BY KeptFacts
<1>2. CopyOK(st', ghost.older)
  BY DEF Kept, CopyOK, StType
<1>3. CASE /\ disk[d].t[0] = NoTable
           /\ disk' = [disk EXCEPT ![d].mbr = m]
           /\ rc' = "ok"
  <2>1. MediaOK(dk, ghost.older)
    BY <1>1, <1>3, MbrOK
  <2>2. disk' = [disk EXCEPT ![d] = dk]
    BY <1>1, <1>3 DEF Kept, DisksOK
  <2> HIDE DEF dk
  <2>3. DisksOK(disk', ghost.older)
    BY <1>1, <2>1, <2>2, PutDisk DEF Kept
  <2> QED BY <1>2, <1>3, <2>3 DEF Kept, Codes
<1>4. CASE disk' = disk /\ rc' = "error"
  BY <1>2, <1>4 DEF Kept, Codes
<1> QED BY <1>3, <1>4

LEMMA MbrCommandsKept == ASSUME Kept, AddMbr \/ DelMbr PROVE Kept'
<1>1. CASE Returns("error") \/ Returns("ok")
  BY <1>1, ReturnsKept DEF Codes
<1>2. CASE ~Returns("error") /\ ~Returns("ok")
  <2>1. \E s \in Slots : \E m \in {st.mbr \cup {s}, st.mbr \ {s}} :
           /\ HasDevice /\ st.mbr # NoMbr /\ st' = [st EXCEPT !.mbr = m]
           /\ UNCHANGED <<dos, file, ghost>>
           /\ \/ /\ disk[st.bd].t[0] = NoTable
                 /\ disk' = [disk EXCEPT ![st.bd].mbr = m]
                 /\ rc' = "ok"
              \/ disk' = disk /\ rc' = "error"
    <3>1. CASE AddMbr
      BY <1>2, <3>1 DEF AddMbr, HasTable, Kept, CopyOK, StType
    <3>2. CASE DelMbr
      BY <1>2, <3>2 DEF DelMbr, Kept, CopyOK, StType
    <3> QED BY <3>1, <3>2
  <2>2. PICK s \in Slots : \E m \in {st.mbr \cup {s}, st.mbr \ {s}} :
           /\ HasDevice /\ st.mbr # NoMbr /\ st' = [st EXCEPT !.mbr = m]
           /\ UNCHANGED <<dos, file, ghost>>
           /\ \/ /\ disk[st.bd].t[0] = NoTable
                 /\ disk' = [disk EXCEPT ![st.bd].mbr = m]
                 /\ rc' = "ok"
              \/ disk' = disk /\ rc' = "error"
    BY <2>1
  <2>3. PICK m \in {st.mbr \cup {s}, st.mbr \ {s}} :
           /\ HasDevice /\ st.mbr # NoMbr /\ st' = [st EXCEPT !.mbr = m]
           /\ UNCHANGED <<dos, file, ghost>>
           /\ \/ /\ disk[st.bd].t[0] = NoTable
                 /\ disk' = [disk EXCEPT ![st.bd].mbr = m]
                 /\ rc' = "ok"
              \/ disk' = disk /\ rc' = "error"
    BY <2>2
  <2>4. m \in {NoMbr} \cup SUBSET Slots
    <3>1. st.mbr \in SUBSET Slots
      BY <2>3 DEF Kept, CopyOK, StType
    <3> QED BY <3>1
  <2> QED BY <2>3, <2>4, MbrKept
<1> QED BY <1>1, <1>2

LEMMA WriteKept == ASSUME Kept, Write PROVE Sound'
<1> DEFINE o == ghost.older
           d == st.bd
           t == st.rdb
<1>1. CASE ~HasTable
  BY <1>1, ReturnsKept DEF Write, Codes, Sound
<1>2. CASE HasTable /\ st.dryrun
  <2>1. st' = [st EXCEPT !.dirty = FALSE] /\ rc' = "ok" /\ UNCHANGED <<disk, dos, file, ghost>>
    BY <1>2 DEF Write
  <2>2. CopyOK(st', o)
    BY <2>1 DEF Kept, CopyOK, StType
  <2> QED BY <2>1, <2>2 DEF Sound, Kept, Codes
<1>3. CASE HasTable /\ ~st.dryrun
  <2>1. d \in Devices /\ MediaOK(disk[d], o) /\ t \in Records /\ Good(t, o)
    BY <1>3, KeptFacts DEF HasTable
  <2>2. CASE Returns("error")
    BY <2>2, ReturnsKept DEF Codes, Sound
  <2>3. ASSUME NEW w \in Writes(disk[d], t), w.rc # "ok",
               disk' = [disk EXCEPT ![d] = w.disk], rc' = w.rc,
               ghost' = Noted(ghost, d, w), UNCHANGED <<st, dos, file>>
        PROVE  Sound'
    <3>1. ghost \in GhostType /\ CopyOK(st', o) /\ file' = file
      BY <2>3 DEF Kept
    <3> QED BY <2>1, <2>3, <3>1, TableWritten
  <2>4. ASSUME NEW w \in Writes(disk[d], t), w.rc = "ok",
               disk' = [disk EXCEPT ![d] = Formatted(w.disk, t)],
               st' = [Saved(st, Forgotten(t)) EXCEPT !.unmount = {}], rc' = "ok",
               ghost' = [ghost EXCEPT !.behind = FALSE], UNCHANGED file
        PROVE  Sound'
    <3>1. MediaOK(w.disk, o)
      BY <2>1, <2>4, WritesOK
    <3>2. UNION {Span(p) : p \in {q \in PartsOf(t) : q.want}} \in SUBSET Cyls
      <4>1. \A p \in PartsOf(t) : Span(p) \subseteq Cyls
        BY <2>1, Extents
      <4> QED BY <4>1
    <3>3. MediaOK(Formatted(w.disk, t), o)
      BY <3>1, <3>2, WroteOK DEF Formatted
    <3>4. DisksOK(disk', o)
      BY <2>1, <2>4, <3>3, PutDisk DEF Kept
    <3>5. Forgotten(t) \in Records /\ Good(Forgotten(t), o)
      BY <2>1, ForgottenGood
    <3>6. CopyOK(Saved(st, Forgotten(t)), o)
      BY <3>5, CopyPut DEF Kept, Tables, Saved
    <3>7. CopyOK(st', o)
      BY <2>4, <3>6 DEF CopyOK, StType
    <3>8. ghost' \in GhostType /\ ghost'.older = o
      BY <2>4 DEF Kept, GhostType
    <3> QED BY <2>4, <3>4, <3>7, <3>8 DEF Sound, Kept, Codes
  <2> QED BY <1>3, <2>2, <2>3, <2>4 DEF Write
<1> QED BY <1>1, <1>2, <1>3

LEMMA CloseKept == ASSUME Kept, Close PROVE Kept'
<1>1. CASE ~HasDevice
  BY <1>1, ReturnsKept DEF Close, Codes
<1>2. CASE HasDevice
  <2>1. CopyOK([st EXCEPT !.bd = NoDevice, !.rdb = NoTable, !.dirty = FALSE], ghost.older)
    BY GoodNoTable DEF Kept, CopyOK, StType, Tables
  <2> QED BY <1>2, <2>1 DEF Kept, Close, Codes
<1> QED BY <1>1, <1>2

LEMMA RebootKept == ASSUME Kept, Reboot PROVE Kept'
BY ReturnsKept DEF Reboot, Codes

LEMMA EndKept == ASSUME Kept, End PROVE Kept'
<1>1. CopyOK([st EXCEPT !.bd = NoDevice, !.rdb = NoTable], ghost.older)
  BY GoodNoTable DEF Kept, CopyOK, StType, Tables
<1> QED BY <1>1 DEF Kept, End, Codes

\* The session goes on only from Kept.
LEMMA SoundNext == Sound /\ Next => Kept /\ rc = "ok"
BY DEF Sound, TornKept, Next, Command, End

LEMMA NextSound == Sound /\ [Next]_vars => Sound'
<1> SUFFICES ASSUME Sound, [Next]_vars PROVE Sound'
  OBVIOUS
<1>1. CASE UNCHANGED vars
  BY <1>1 DEF vars, Sound, Kept, TornKept
<1>2. CASE Next
  <2>0. Kept
    BY <1>2, SoundNext
  <2>1. CASE \E withMbr \in BOOLEAN : InitNew(withMbr)
    BY <2>0, <2>1, InitNewKept DEF Sound
  <2>2. CASE \E ext \in BOOLEAN : Backup(ext) \/ Restore(ext)
    BY <2>0, <2>2, BackupKept, RestoreKept DEF Sound
  <2>3. CASE Grow \/ Shrink
    BY <2>0, <2>3, ResizeCommandKept DEF Grow, Shrink
  <2>4. CASE PartClone \/ PartIn \/ Write
    BY <2>0, <2>4, PartCloneKept, PartInKept, WriteKept
  <2>5. CASE ~(PartClone \/ PartIn \/ Write)
    BY <1>2, <2>0, <2>1, <2>2, <2>3, <2>5, OpenKept, CreateKept, NewGeoKept, AddPartKept,
       DelPartKept, AddFsKept, AnswersKept, ZeroPartKept, ClearRdbKept, ImageInKept,
       MbrCommandsKept, CloseKept, RebootKept, EndKept DEF Next, Sound
  <2> QED BY <2>4, <2>5
<1> QED BY <1>1, <1>2

LEMMA SoundApart == Sound => Apart
<1> SUFFICES ASSUME Sound PROVE Apart
  OBVIOUS
<1>1. ASSUME NEW d \in Devices \ {ghost.torn} PROVE Good(OnDisk(disk[d]), ghost.older)
  <2>1. MediaOK(disk[d], ghost.older)
    BY KeptFacts DEF Sound, TornKept
  <2> QED BY <2>1, ReadGood DEF MediaOK, Placed
<1>2. Good(st.rdb, ghost.older)
  BY KeptFacts DEF Sound, TornKept, CopyOK
<1> QED BY <1>1, <1>2 DEF Apart, Good

(***************************************************************************)
(* The partitions of a table in memory or on a device lie apart after any  *)
(* sequence of commands (script.c), whichever of them fails, and below the *)
(* table's last cylinder until a header came back without its lists; but   *)
(* for the device on which the table's write (rdb.c) broke off below a     *)
(* standing header.                                                         *)
(***************************************************************************)
THEOREM TablesApart == Spec => []Apart
<1>1. Init => Sound
  BY InitKept DEF Sound
<1> QED BY <1>1, NextSound, SoundApart, PTL DEF Spec

---------------------------------------------------------------------------
(* Partitions the script does not name: what keeps them                     *)

\* Blocks written outside the tables leave the tables.
LEMMA WroteSame ==
    ASSUME NEW dk \in Media, NEW c
    PROVE  Wrote(dk, c).t = dk.t /\ OnDisk(Wrote(dk, c)) = OnDisk(dk)
<1>1. Wrote(dk, c).t = dk.t
  BY DEF Wrote, Media
<1> QED BY <1>1 DEF OnDisk

\* One device alone is written.
LEMMA OthersSame ==
    ASSUME Kept, NEW d \in Devices, NEW dk, disk' = [disk EXCEPT ![d] = dk]
    PROVE  /\ disk'[d] = dk
           /\ \A e \in Devices \ {d} : disk'[e] = disk[e]
BY DEF Kept, DisksOK

\* The partitions that reading a table gives.
Entries(t) == PartsOf(IF t = NoTable \/ ~t.cut THEN t ELSE [t EXCEPT !.parts = Front(@)])

\* A partition has its entry in every table of its device and its blocks as they were,
SparedOn(dk, p) == /\ Span(p) \cap dk.new = {}
                   /\ \A h \in 0 .. 1 : dk.t[h] # NoTable => p \in Entries(dk.t[h])

\* and its entry in the memory.
HeldIn(s, d, p) == s.bd = d /\ s.rdb # NoTable => p \in PartsOf(s.rdb)

\* Where a write broke off it has its blocks at least.
SparedNow(d, p) == \/ SparedOn(disk[d], p)
                   \/ /\ rc # "ok" /\ d = ghost.torn
                      /\ Span(p) \cap disk[d].new = {}

\* A write that broke off spares the blocks.
SparedBy(d, p, w) == \/ SparedOn(w.disk, p)
                     \/ w.torn /\ w.rc = "error" /\ Span(p) \cap w.disk.new = {}

AllSpared ==
    /\ \A d \in Devices : MediaOK(ghost.start[d], FALSE)
    /\ \A d \in Devices : \A p \in PartsOf(Read(ghost.start[d])) :
          <<d, p.name>> \notin ghost.named => SparedNow(d, p) /\ HeldIn(st, d, p)

LEMMA EntriesOf ==
    ASSUME NEW t \in Records
    PROVE  Entries(t) \subseteq PartsOf(t) /\ (~t.cut => Entries(t) = PartsOf(t))
<1>0. t # NoTable
  BY SessionAssumption
<1>1. CASE ~t.cut
  BY <1>1 DEF Entries
<1>2. CASE t.cut
  <2> DEFINE s == SubSeq(t.parts, 1, Len(t.parts) - 1)
  <2>1. Len(t.parts) \in Nat /\ DOMAIN t.parts = 1 .. Len(t.parts)
        /\ \A i \in DOMAIN t.parts : t.parts[i] \in Parts /\ t.parts[i] \in PartsOf(t)
    BY Extents
  <2>2. \A i \in 1 .. (Len(t.parts) - 1) : t.parts[i] \in Parts
    BY <2>1
  <2>3. /\ s \in Seq(Parts) /\ Len(s) = (IF 1 <= Len(t.parts) - 1 THEN (Len(t.parts) - 1) - 1 + 1 ELSE 0)
        /\ \A i \in 1 .. ((Len(t.parts) - 1) - 1 + 1) : s[i] = t.parts[1 + i - 1]
    BY <2>1, <2>2, SubSeqProperties
  <2> DEFINE u == [t EXCEPT !.parts = s]
  <2>4. Entries(t) = PartsOf(u)
    BY <1>0, <1>2 DEF Entries, Front
  <2> HIDE DEF s
  <2>5. u \in Records /\ u.parts = s
    BY <2>3, PartsExcept
  <2> HIDE DEF u
  <2>6. ASSUME NEW p \in PartsOf(u) PROVE p \in PartsOf(t)
    <3>1. PICK i \in DOMAIN s : p = s[i]
      BY <2>5, Extents
    <3>2. i \in DOMAIN t.parts /\ s[i] = t.parts[i]
      BY <2>1, <2>3, <3>1
    <3> QED BY <2>1, <3>1, <3>2
  <2> QED BY <1>2, <2>4, <2>6
<1> QED BY <1>1, <1>2

LEMMA ReadHolds ==
    ASSUME NEW dk, NEW p, SparedOn(dk, p), Read(dk) # NoTable
    PROVE  p \in PartsOf(Read(dk))
<1> DEFINE t == OnDisk(dk)
<1>1. t = dk.t[0] \/ t = dk.t[1]
  BY DEF OnDisk
<1>2. Read(dk) = IF t = NoTable \/ ~t.cut THEN t ELSE [t EXCEPT !.parts = Front(@)]
  BY DEF Read
<1>3. t # NoTable => p \in Entries(t)
  BY <1>1 DEF SparedOn
<1>4. PartsOf(Read(dk)) = Entries(t)
  BY <1>2 DEF Entries
<1>5. t # NoTable
  BY <1>2
<1> QED BY <1>3, <1>4, <1>5

\* A partition without the session's note is written as it is.
LEMMA PlainHolds ==
    ASSUME NEW t \in Records, NEW older, Good(t, older), NEW p \in PartsOf(t), ~p.want
    PROVE  /\ p \in PartsOf(Plain(t)) /\ p \in PartsOf(Forgotten(t))
           /\ p \in Entries(Plain(t))
<1>1. PICK i \in DOMAIN t.parts : p = t.parts[i]
  BY Extents
<1>2. i \in DOMAIN Unmarked(t) /\ Unmarked(t)[i] = p
  BY <1>1, UnmarkedParts
<1>3. \A u \in Records : u.parts = Unmarked(t) => p \in PartsOf(u)
  BY <1>2, Extents
<1>4. /\ Plain(t) \in Records /\ Plain(t).parts = Unmarked(t) /\ ~Plain(t).cut
  BY PlainGood
<1>5. Forgotten(t) \in Records /\ Forgotten(t).parts = Unmarked(t)
  BY ForgottenGood
<1> QED BY <1>3, <1>4, <1>5, EntriesOf

LEMMA AfterSpares ==
    ASSUME NEW dk, NEW older, MediaOK(dk, older), NEW t \in Records, Good(t, older),
           NEW p \in PartsOf(t), ~p.want, SparedOn(dk, p)
    PROVE  SparedOn(After(dk, t), p)
<1>1. dk \in Media /\ dk.t \in [0 .. 1 -> Tables] /\ p \in Entries(Plain(t)) /\ t.home \in 0 .. 1
  BY PlainHolds, MediaFields DEF MediaOK, Records
<1>2. CASE t.home = 0
  <2> DEFINE ts == [h \in 0..1 |-> IF h = 0 THEN Plain(t) ELSE NoTable]
  <2>1. After(dk, t) = [dk EXCEPT !.t = ts, !.mbr = NoMbr]
    BY <1>2 DEF After
  <2>2. \A h \in 0 .. 1 : ts[h] = Plain(t) \/ ts[h] = NoTable
    OBVIOUS
  <2> HIDE DEF ts
  <2>3. After(dk, t).t = ts /\ After(dk, t).new = dk.new
    BY <1>1, <2>1 DEF Media
  <2> QED BY <1>1, <2>2, <2>3 DEF SparedOn
<1>3. CASE t.home # 0
  <2> DEFINE ts == [dk.t EXCEPT ![1] = Plain(t)]
  <2>1. After(dk, t) = [dk EXCEPT !.t = ts]
    BY <1>1, <1>3 DEF After, Media
  <2>2. \A h \in 0 .. 1 : ts[h] = Plain(t) \/ ts[h] = dk.t[h]
    BY <1>1
  <2> HIDE DEF ts
  <2>3. After(dk, t).t = ts /\ After(dk, t).new = dk.new
    BY <1>1, <2>1 DEF Media
  <2> QED BY <1>1, <2>2, <2>3 DEF SparedOn
<1> QED BY <1>2, <1>3

LEMMA WritesSpare ==
    ASSUME NEW dk, NEW older, MediaOK(dk, older), NEW t \in Records, Good(t, older),
           NEW p \in PartsOf(t), ~p.want, SparedOn(dk, p), NEW w \in Writes(dk, t)
    PROVE  \A d : SparedBy(d, p, w)
<1>1. SparedOn(After(dk, t), p)
  BY AfterSpares
<1> DEFINE none == Over(dk, t, NoTable)
<1>2. SparedOn(none, p)
  <2>1. dk \in Media /\ NoTable \in Tables
    BY DEF MediaOK, Tables
  <2>2. /\ none.new = dk.new
        /\ \A h \in 0 .. 1 : none.t[h] \in {NoTable, dk.t[h]}
    BY <2>1, OverOK
  <2> HIDE DEF none
  <2> QED BY <2>2 DEF SparedOn
<1>3. /\ w.disk.new = dk.new
      /\ (w.torn => w.rc = "error") /\ w.torn \in BOOLEAN
  BY WritesOK
<1>4. w.torn \/ w.disk \in {dk, After(dk, t), none}
  BY DEF Writes, Outcome, TornOutcome
<1> HIDE DEF none
<1>5. w.torn \/ SparedOn(w.disk, p)
  BY <1>1, <1>2, <1>4
<1> QED BY <1>3, <1>5 DEF SparedBy, SparedOn

LEMMA WroteSpares ==
    ASSUME NEW dk \in Media, NEW p, SparedOn(dk, p), NEW c, Span(p) \cap c = {}
    PROVE  SparedOn(Wrote(dk, c), p)
<1>1. Wrote(dk, c).t = dk.t /\ Wrote(dk, c).new = dk.new \cup c
  BY DEF Wrote, Media
<1>2. Span(p) \cap (dk.new \cup c) = {}
  BY DEF SparedOn
<1> QED BY <1>1, <1>2 DEF SparedOn

\* A partition of another name is another entry: it lies apart and stays when
\* that one gets another end.
LEMMA OtherEntry ==
    ASSUME NEW t \in Records, NEW older, Good(t, older), NEW i \in DOMAIN t.parts,
           NEW p \in PartsOf(t), p.name # t.parts[i].name
    PROVE  /\ Span(p) \cap Span(t.parts[i]) = {}
           /\ \A hi \in 1 .. TopCyl :
                /\ p \in PartsOf(With(t, i, hi))
                /\ Good(With(t, i, hi), older) => Span(p) \cap Span(With(t, i, hi).parts[i]) = {}
<1>1. PICK j \in DOMAIN t.parts : p = t.parts[j]
  BY Extents
<1>2. j # i /\ t # NoTable
  BY <1>1, SessionAssumption
<1>3. Span(p) \cap Span(t.parts[i]) = {}
  BY <1>1, <1>2 DEF Good, Disjoint
<1>4. ASSUME NEW hi \in 1 .. TopCyl
      PROVE  /\ p \in PartsOf(With(t, i, hi))
             /\ Good(With(t, i, hi), older) => Span(p) \cap Span(With(t, i, hi).parts[i]) = {}
  <2> DEFINE u == With(t, i, hi)
  <2>1. /\ u \in Records /\ DOMAIN u.parts = DOMAIN t.parts /\ u.parts[j] = p
    BY <1>1, <1>2, WithParts
  <2> HIDE DEF u
  <2>2. p \in PartsOf(u) /\ u # NoTable
    BY <2>1, Extents, SessionAssumption
  <2>3. Good(u, older) => Span(p) \cap Span(u.parts[i]) = {}
    BY <1>2, <2>1, <2>2 DEF Good, Disjoint
  <2> QED BY <2>2, <2>3 DEF u
<1> QED BY <1>3, <1>4

---------------------------------------------------------------------------
(* Partitions the script does not name: one lemma for each command          *)

Watched(d, p) == /\ d \in Devices /\ p \in Parts /\ ~p.want
                 /\ SparedOn(disk[d], p) /\ HeldIn(st, d, p)
Stays(d, p) == SparedNow(d, p)' /\ HeldIn(st', d, p)

LEMMA SparedWritten ==
    ASSUME Kept, NEW d, NEW p, Watched(d, p), NEW e \in Devices, NEW w, rc' = w.rc,
           disk' = [disk EXCEPT ![e] = w.disk], NEW g \in GhostType, ghost' = Noted(g, e, w),
           d = e => SparedBy(d, p, w)
    PROVE  SparedNow(d, p)'
<1>1. disk'[e] = w.disk /\ (d # e => disk'[d] = disk[d])
  BY OthersSame DEF Watched
<1>2. w.torn => ghost'.torn = e
  BY DEF Noted, GhostType
<1> QED BY <1>1, <1>2 DEF SparedNow, SparedBy, Watched

LEMMA UntouchedStays ==
    ASSUME NEW d, NEW p, Watched(d, p), disk'[d] = disk[d],
           \/ st'.bd # d \/ st'.rdb = NoTable \/ p \in PartsOf(st'.rdb)
           \/ st'.bd = st.bd /\ st'.rdb = st.rdb
    PROVE  Stays(d, p)
BY DEF Watched, Stays, HeldIn, SparedNow

\* The note of what the script named.
LEMMA NotNamed ==
    ASSUME Kept, NEW d, NEW p \in Parts, NEW S, <<d, p.name>> \notin Named(S).named
    PROVE  <<d, p.name>> \notin S
BY DEF Kept, GhostType, Named

LEMMA NotEverything ==
    ASSUME Kept, NEW d, NEW p \in Parts, NEW b,
           <<d, p.name>> \notin Named(Everything(b)).named
    PROVE  d # b
<1>1. <<d, p.name>> \notin Everything(b)
  BY NotNamed
<1>2. p.name \in Names
  BY DEF Parts
<1> QED BY <1>1, <1>2 DEF Everything

LEMMA ReturnsStays ==
    ASSUME NEW d, NEW p, Watched(d, p), NEW r, Returns(r)
    PROVE  Stays(d, p)
BY UntouchedStays DEF Returns

LEMMA OpenStays == ASSUME Kept, NEW d, NEW p, Watched(d, p), Open PROVE Stays(d, p)
<1>1. st \in StType
  BY DEF Kept, CopyOK
<1>2. CASE Unopened
  BY <1>1, <1>2, UntouchedStays DEF Unopened, StType
<1>3. ASSUME NEW e \in Devices, st' = Opened(disk[e], e), disk' = disk PROVE Stays(d, p)
  <2>1. st'.bd = e /\ st'.rdb = Read(disk[e])
    BY <1>1, <1>3 DEF Opened, StType
  <2>2. e = d /\ st'.rdb # NoTable => p \in PartsOf(st'.rdb)
    BY <2>1, ReadHolds DEF Watched
  <2> QED BY <1>3, <2>1, <2>2, UntouchedStays
<1> QED BY <1>2, <1>3 DEF Open

LEMMA CreateStays ==
    ASSUME Kept, NEW d, NEW p, Watched(d, p), Create, <<d, p.name>> \notin ghost'.named
    PROVE  Stays(d, p)
<1>1. st \in StType /\ Img \in Devices
  BY DEF Kept, CopyOK, Devices
<1>2. CASE Unopened
  BY <1>1, <1>2, UntouchedStays DEF Unopened, StType
<1>3. CASE /\ disk' = [disk EXCEPT ![Img] = Blank] /\ st' = Opened(Blank, Img)
           /\ ghost' = [Named(Everything(Img)) EXCEPT !.behind = FALSE]
  <2>1. ghost'.named = Named(Everything(Img)).named
    BY <1>1, <1>3, NamedOK, NameSets DEF Kept, GhostType
  <2>2. d # Img
    BY <2>1, NotEverything DEF Watched
  <2>3. disk'[d] = disk[d]
    BY <1>1, <1>3, <2>2, OthersSame DEF Watched
  <2>4. st'.bd = Img
    BY <1>1, <1>3 DEF Opened, StType
  <2> QED BY <2>2, <2>3, <2>4, UntouchedStays
<1> QED BY <1>2, <1>3 DEF Create

\* A command that names everything on the open device, and writes nothing else.
LEMMA EverythingStays ==
    ASSUME Kept, NEW d, NEW p, Watched(d, p), st.bd \in Devices, st'.bd = st.bd,
           <<d, p.name>> \notin ghost'.named,
           ghost'.named = Named(Everything(st.bd)).named,
           \A e \in Devices \ {st.bd} : disk'[e] = disk[e]
    PROVE  Stays(d, p)
<1>1. d # st.bd
  BY NotEverything DEF Watched
<1> QED BY <1>1, UntouchedStays DEF Watched

LEMMA InitNewStays ==
    ASSUME Kept, NEW d, NEW p, Watched(d, p), NEW withMbr \in BOOLEAN, InitNew(withMbr),
           <<d, p.name>> \notin ghost'.named
    PROVE  Stays(d, p)
<1>1. CASE \E r : Returns(r)
  BY <1>1, ReturnsStays
<1>2. CASE ~ \E r : Returns(r)
  <2>1. /\ HasDevice /\ st \in StType /\ disk \in [Devices -> Media]
        /\ ghost' = Named(Everything(st.bd))
        /\ disk' \in {disk, [disk EXCEPT ![st.bd].mbr = {}, ![st.bd].t[0] = NoTable]}
    BY <1>2 DEF InitNew, Kept, CopyOK, DisksOK
  <2>2. st.bd \in Devices
    BY <2>1, KeptFacts
  <2>3. \A e \in Devices \ {st.bd} : disk'[e] = disk[e]
    BY <2>1
  <2>4. st'.bd = st.bd
    BY <1>2, <2>1 DEF InitNew, StType
  <2> QED BY <2>1, <2>2, <2>3, <2>4, EverythingStays
<1> QED BY <1>1, <1>2

LEMMA RestoreStays ==
    ASSUME Kept, NEW d, NEW p, Watched(d, p), NEW ext \in BOOLEAN, Restore(ext),
           <<d, p.name>> \notin ghost'.named
    PROVE  Stays(d, p)
<1>1. CASE \E r : Returns(r)
  BY <1>1, ReturnsStays
<1>2. CASE ~ \E r : Returns(r)
  <2>1. /\ HasDevice /\ st \in StType
        /\ \E dk : disk' \in {disk, [disk EXCEPT ![st.bd] = dk]}
        /\ \/ st' = st \/ \E dk : st' = Reloaded(dk)
        /\ \E x : ghost' = [Named(Everything(st.bd)) EXCEPT !.behind = FALSE, !.older = @ \/ x]
    BY <1>2 DEF Restore, Kept, CopyOK
  <2>2. st.bd \in Devices
    BY <2>1, KeptFacts
  <2>3. \A e \in Devices \ {st.bd} : disk'[e] = disk[e]
    BY <2>1, <2>2, OthersSame
  <2>4. st'.bd = st.bd
    BY <2>1 DEF Reloaded, Opened, StType
  <2>5. ghost'.named = Named(Everything(st.bd)).named
    BY <2>1, <2>2, NamedOK, NameSets DEF Kept, GhostType
  <2> QED BY <2>2, <2>3, <2>4, <2>5, EverythingStays
<1> QED BY <1>1, <1>2

LEMMA ClearedStays ==
    ASSUME Kept, NEW d, NEW p, Watched(d, p), ClearRdb \/ ImageIn,
           <<d, p.name>> \notin ghost'.named
    PROVE  Stays(d, p)
<1>1. CASE \E r : Returns(r)
  BY <1>1, ReturnsStays
<1>2. CASE ~ \E r : Returns(r)
  <2>1. /\ HasDevice /\ st \in StType
        /\ \E dk : disk' \in {disk, [disk EXCEPT ![st.bd] = dk]}
        /\ st'.bd = st.bd
        /\ ghost' = [Named(Everything(st.bd)) EXCEPT !.behind = FALSE]
    <3>1. st \in StType
      BY DEF Kept, CopyOK
    <3>2. CASE ClearRdb
      BY <1>2, <3>1, <3>2 DEF ClearRdb, StType
    <3>3. CASE ImageIn
      BY <1>2, <3>1, <3>3 DEF ImageIn, StType
    <3> QED BY <3>1, <3>2, <3>3
  <2>2. st.bd \in Devices
    BY <2>1, KeptFacts
  <2>3. \A e \in Devices \ {st.bd} : disk'[e] = disk[e]
    BY <2>1, <2>2, OthersSame
  <2>4. ghost'.named = Named(Everything(st.bd)).named
    BY <2>1, <2>2, NamedOK, NameSets DEF Kept, GhostType
  <2> QED BY <2>1, <2>2, <2>3, <2>4, EverythingStays
<1> QED BY <1>1, <1>2

LEMMA EditStays ==
    ASSUME NEW d, NEW p, Watched(d, p), HasTable, disk' = disk, st'.bd = st.bd,
           p \in PartsOf(st.rdb) => p \in PartsOf(st'.rdb)
    PROVE  Stays(d, p)
<1>1. d # st.bd \/ p \in PartsOf(st.rdb)
  BY DEF Watched, HeldIn, HasTable
<1> QED BY <1>1, UntouchedStays

LEMMA TableEditsStay ==
    ASSUME Kept, NEW d, NEW p, Watched(d, p), NewGeo \/ AddFs PROVE Stays(d, p)
<1> DEFINE t == st.rdb
<1>1. CASE \E r : Returns(r)
  BY <1>1, ReturnsStays
<1>2. CASE ~(\E r : Returns(r)) /\ (st' = st \/ ~HasTable)
  BY <1>2, UntouchedStays DEF NewGeo, AddFs
<1>3. CASE ~(\E r : Returns(r)) /\ st' # st /\ HasTable
  <2>1. st \in StType /\ t \in Records
    BY <1>3, KeptFacts DEF HasTable, Kept, CopyOK
  <2>2. disk' = disk /\ st'.bd = st.bd /\ \E u : st'.rdb = u /\ u.parts = t.parts /\ u # NoTable
    <3>1. TopCyl \in Nat /\ TopCyl \in Cyls
      BY SessionAssumption DEF Cyls
    <3>2. CASE NewGeo
      <4> DEFINE u == [t EXCEPT !.top = TopCyl]
      <4>1. st' = [st EXCEPT !.rdb = u, !.dirty = TRUE] /\ disk' = disk
        BY <1>3, <2>1, <3>2 DEF NewGeo, StType
      <4>2. u.parts = t.parts /\ u \in Records
        BY <2>1, <3>1 DEF Records
      <4> HIDE DEF u
      <4>3. st'.bd = st.bd /\ st'.rdb = u /\ u # NoTable
        BY <2>1, <4>1, <4>2, SessionAssumption DEF StType
      <4> QED BY <4>1, <4>2, <4>3
    <3>3. CASE AddFs
      <4> DEFINE u == [t EXCEPT !.drivers = t.drivers + 1]
      <4>1. /\ st' = [st EXCEPT !.rdb = u, !.dirty = TRUE] /\ disk' = disk
            /\ ~(t.drivers >= MaxDrivers)
        BY <1>3, <2>1, <3>3 DEF AddFs, StType, Records
      <4>2. t.drivers + 1 \in 0 .. MaxDrivers
        BY <2>1, <4>1, SessionAssumption DEF Records
      <4>3. u.parts = t.parts /\ u \in Records
        BY <2>1, <4>2 DEF Records
      <4> HIDE DEF u
      <4>4. st'.bd = st.bd /\ st'.rdb = u /\ u # NoTable
        BY <2>1, <4>1, <4>3, SessionAssumption DEF StType
      <4> QED BY <4>1, <4>3, <4>4
    <3> QED BY <3>2, <3>3
  <2>3. PartsOf(st'.rdb) = PartsOf(t)
    <3>1. t # NoTable
      BY <1>3 DEF HasTable
    <3> QED BY <2>2, <3>1 DEF PartsOf
  <2> QED BY <1>3, <2>2, <2>3, EditStays
<1> QED BY <1>1, <1>2, <1>3

LEMMA AddPartStays ==
    ASSUME Kept, NEW d, NEW p, Watched(d, p), AddPart PROVE Stays(d, p)
<1> DEFINE t == st.rdb
<1>1. PICK name \in Names, lo \in 1 .. TopCyl, hi \in 1 .. TopCyl, want \in BOOLEAN :
        LET end == Clamped(t, lo, hi)
            q == [name |-> name, lo |-> lo, hi |-> end, want |-> want]
        IN  /\ lo <= hi
            /\ IF ~HasTable THEN Returns("error")
               ELSE IF \/ Len(t.parts) >= MaxParts \/ hi > t.top
                       \/ \E r \in PartsOf(t) : lo \in Span(r)
               THEN Returns("error")
               ELSE /\ st' = [st EXCEPT !.rdb.parts = Append(@, q), !.dirty = TRUE]
                    /\ ghost' = Named({<<st.bd, name>>})
                    /\ rc' = "ok"
                    /\ UNCHANGED <<disk, dos, file>>
  BY DEF AddPart
<1>2. CASE Returns("error")
  BY <1>2, ReturnsStays
<1>3. CASE ~Returns("error")
  <2> DEFINE end == Clamped(t, lo, hi)
             q == [name |-> name, lo |-> lo, hi |-> end, want |-> want]
             s == Append(t.parts, q)
             u == [t EXCEPT !.parts = s]
  <2>1. /\ HasTable /\ disk' = disk /\ lo <= hi
        /\ st' = [st EXCEPT !.rdb.parts = Append(@, q), !.dirty = TRUE]
    BY <1>1, <1>3
  <2>2. t \in Records /\ st \in StType
    BY <2>1, KeptFacts DEF HasTable, Kept, CopyOK
  <2>3. end \in 1 .. TopCyl
    BY <2>1, <2>2, ClampedEnd
  <2> HIDE DEF end
  <2>4. q \in Parts
    BY <2>3 DEF Parts
  <2>5. st' = [st EXCEPT !.rdb = u, !.dirty = TRUE]
    BY <2>1, <2>2 DEF StType, Records
  <2> HIDE DEF q
  <2>6. /\ Len(t.parts) \in Nat /\ DOMAIN t.parts = 1 .. Len(t.parts) /\ t.parts \in Seq(Parts)
    BY <2>2, Extents
  <2>7. /\ s \in Seq(Parts) /\ DOMAIN s = 1 .. (Len(t.parts) + 1)
        /\ \A j \in 1 .. Len(t.parts) : s[j] = t.parts[j]
    BY <2>4, <2>6, AppendProperties
  <2> HIDE DEF s
  <2>8. u \in Records /\ u.parts = s
    BY <2>2, <2>7, PartsExcept
  <2> HIDE DEF u
  <2>9. ASSUME p \in PartsOf(t) PROVE p \in PartsOf(u)
    <3>1. PICK j \in DOMAIN t.parts : p = t.parts[j]
      BY <2>2, <2>9, Extents
    <3>2. j \in DOMAIN s /\ s[j] = p
      BY <2>6, <2>7, <3>1
    <3> QED BY <2>8, <3>2, Extents
  <2>10. st'.rdb = u /\ st'.bd = st.bd
    BY <2>2, <2>5 DEF StType
  <2> QED BY <2>1, <2>9, <2>10, EditStays
<1> QED BY <1>2, <1>3

LEMMA DelPartStays ==
    ASSUME Kept, NEW d, NEW p, Watched(d, p), DelPart, <<d, p.name>> \notin ghost'.named
    PROVE  Stays(d, p)
<1> DEFINE t == st.rdb
<1>1. PICK name \in Names :
        IF ~HasTable \/ Find(t, name) = 0 THEN Returns("error")
        ELSE /\ st' = [st EXCEPT !.rdb.parts = RemoveAt(@, Find(t, name)), !.dirty = TRUE,
                                 !.unmount = @ \cup {name}]
             /\ ghost' = Named({<<st.bd, name>>})
             /\ UNCHANGED disk
  BY DEF DelPart
<1>2. CASE ~HasTable \/ Find(t, name) = 0
  BY <1>1, <1>2, ReturnsStays
<1>3. CASE HasTable /\ Find(t, name) # 0
  <2> DEFINE i == Find(t, name)
             u == [t EXCEPT !.parts = RemoveAt(t.parts, i)]
  <2>1. t \in Records /\ Good(t, ghost.older) /\ st \in StType /\ t \in Tables
    BY <1>3, KeptFacts DEF HasTable, Kept, CopyOK
  <2>2. i \in DOMAIN t.parts /\ t.parts[i].name = name
    BY <1>3, <2>1, Found
  <2>3. st' = [st EXCEPT !.rdb = u, !.dirty = TRUE, !.unmount = st.unmount \cup {name}]
    BY <1>1, <1>3, <2>1 DEF StType, Records
  <2>4. <<d, p.name>> \notin {<<st.bd, name>>}
    BY <1>1, <1>3, NotNamed DEF Watched
  <2> HIDE DEF i
  <2>5. \A k \in DOMAIN t.parts : k # i => t.parts[k] \in PartsOf(u)
    BY <2>1, <2>2, RemovedGood
  <2> HIDE DEF u
  <2>6. st'.rdb = u /\ st'.bd = st.bd
    BY <2>1, <2>3 DEF StType
  <2>7. CASE d = st.bd
    <3>1. p.name # name
      BY <2>4, <2>7
    <3>2. ASSUME p \in PartsOf(t) PROVE p \in PartsOf(u)
      <4>1. PICK j \in DOMAIN t.parts : p = t.parts[j]
        BY <2>1, <3>2, Extents
      <4> QED BY <2>2, <2>5, <3>1, <4>1
    <3> QED BY <1>1, <1>3, <2>6, <3>2, EditStays
  <2>8. CASE d # st.bd
    BY <1>1, <1>3, <2>6, <2>8, UntouchedStays
  <2> QED BY <2>7, <2>8
<1> QED BY <1>2, <1>3

LEMMA ResizeStays ==
    ASSUME Kept, NEW d, NEW p, Watched(d, p), HasTable,
           NEW i \in DOMAIN st.rdb.parts, NEW hi \in 1 .. TopCyl,
           NEW noUnmount \in BOOLEAN, Resize(i, hi, noUnmount),
           Good(With(st.rdb, i, hi), ghost.older), <<d, p.name>> \notin ghost'.named
    PROVE  Stays(d, p)
<1> DEFINE o == ghost.older
           b == st.bd
           q == st.rdb.parts[i]
           new == With(st.rdb, i, hi)
           cyls == Span(q) \cup Span(new.parts[i])
           after == Wrote(disk[b], cyls)
<1>1. /\ b \in Devices /\ MediaOK(disk[b], o) /\ st.rdb \in Records /\ st \in StType
      /\ disk[b] \in Media /\ Good(st.rdb, o) /\ d \in Devices /\ p \in Parts /\ ~p.want
  BY KeptFacts DEF HasTable, Kept, CopyOK, MediaOK, Watched
<1>2. new \in Records /\ DOMAIN new.parts = DOMAIN st.rdb.parts
  BY <1>1, WithParts
<1>3. cyls \in SUBSET Cyls
  <2>1. Span(st.rdb.parts[i]) \subseteq Cyls
    BY <1>1, Extents
  <2>2. Span(new.parts[i]) \subseteq Cyls
    BY <1>2, Extents
  <2> QED BY <2>1, <2>2
<1>4. MediaOK(after, o)
  BY <1>1, <1>3, WroteOK
<1>5. Named({<<b, q.name>>}) \in GhostType
  <2>1. q.name \in Names
    BY <1>1, Extents
  <2> QED BY <1>1, <2>1, NamedOK, NameSets DEF Kept
<1>6. \/ rc' = "error" /\ UNCHANGED <<disk, st, dos, ghost>>
      \/ /\ disk' \in {disk, [disk EXCEPT ![b] = after]} /\ UNCHANGED st
         /\ \E u : ghost' = [Named({<<b, q.name>>}) EXCEPT !.under = @ \/ u]
      \/ \E w \in Writes(after, new) :
              /\ \E u, e : ghost' = Noted([[Named({<<b, q.name>>}) EXCEPT !.under = @ \/ u]
                                              EXCEPT !.behind = @ /\ e], b, w)
              /\ rc' = w.rc
              /\ disk' = [disk EXCEPT ![b] = w.disk]
              /\ st' = IF w.rc = "ok" THEN Saved(st, new) ELSE [st EXCEPT !.rdb = new]
  BY Zenon DEF Resize
<1>7. CASE UNCHANGED <<disk, st>>
  BY <1>7, UntouchedStays
<1>8. CASE ~UNCHANGED <<disk, st>>
  <2>1. ghost'.named = Named({<<b, q.name>>}).named
    <3>1. CASE \E u : ghost' = [Named({<<b, q.name>>}) EXCEPT !.under = @ \/ u]
      BY <1>5, <3>1 DEF GhostType
    <3>2. CASE \E w, u, e : ghost' = Noted([[Named({<<b, q.name>>}) EXCEPT !.under = @ \/ u]
                                               EXCEPT !.behind = @ /\ e], b, w)
      BY <1>5, <3>2 DEF GhostType, Noted
    <3> QED BY <1>6, <1>8, <3>1, <3>2
  <2>2. <<d, p.name>> \notin {<<b, q.name>>}
    BY <1>1, <2>1, NotNamed
  <2>3. /\ \E dk : disk' \in {disk, [disk EXCEPT ![b] = dk]}
        /\ st'.bd = b
    <3>1. st' = st \/ st' = Saved(st, new) \/ st' = [st EXCEPT !.rdb = new]
      BY <1>6
    <3>2. st'.bd = b
      BY <1>1, <3>1 DEF Saved, StType
    <3> QED BY <1>6, <3>2
  <2>4. CASE d # b
    <3>1. disk'[d] = disk[d]
      BY <1>1, <2>3, <2>4, OthersSame
    <3> QED BY <2>3, <2>4, <3>1, UntouchedStays
  <2>5. CASE d = b
    <3>1. p.name # q.name /\ p \in PartsOf(st.rdb) /\ SparedOn(disk[b], p)
      BY <2>2, <2>5 DEF Watched, HeldIn, HasTable
    <3>2. Span(p) \cap Span(q) = {}
      BY <1>1, <3>1, OtherEntry
    <3>3. p \in PartsOf(new) /\ Span(p) \cap Span(new.parts[i]) = {}
      BY <1>1, <3>1, OtherEntry
    <3>4. SparedOn(after, p)
      BY <1>1, <3>1, <3>2, <3>3, WroteSpares
    <3>5. Good(new, o)
      OBVIOUS
    <3> HIDE DEF after, new
    <3>6. \A w \in Writes(after, new) : SparedBy(b, p, w)
      BY <1>1, <1>2, <1>4, <3>3, <3>4, <3>5, WritesSpare
    <3>7. ASSUME disk' = disk \/ disk' = [disk EXCEPT ![b] = after] PROVE SparedNow(d, p)'
      <4>1. SparedOn(disk'[b], p)
        BY <1>1, <3>1, <3>4, <3>7, OthersSame
      <4> QED BY <2>5, <4>1 DEF SparedNow
    <3>8. ASSUME NEW w \in Writes(after, new), rc' = w.rc, disk' = [disk EXCEPT ![b] = w.disk],
                 \E u, e : ghost' = Noted([[Named({<<b, q.name>>}) EXCEPT !.under = @ \/ u]
                                              EXCEPT !.behind = @ /\ e], b, w)
          PROVE  SparedNow(d, p)'
      <4>2. PICK u, e : ghost' = Noted([[Named({<<b, q.name>>}) EXCEPT !.under = @ \/ u]
                                           EXCEPT !.behind = @ /\ e], b, w)
        BY <3>8
      <4> DEFINE g == [[Named({<<b, q.name>>}) EXCEPT !.under = @ \/ u] EXCEPT !.behind = @ /\ e]
      <4>3. g \in GhostType
        BY <1>5 DEF GhostType
      <4> HIDE DEF g
      <4>4. ghost' = Noted(g, b, w)
        BY <4>2 DEF g
      <4>5. SparedBy(b, p, w)
        BY <3>6
      <4> QED BY <1>1, <2>5, <3>8, <4>3, <4>4, <4>5, SparedWritten
    <3>9. st'.rdb = new \/ st'.rdb = st.rdb
      BY <1>1, <1>6 DEF Saved, StType
    <3>10. HeldIn(st', b, p)
      BY <3>1, <3>3, <3>9 DEF HeldIn
    <3>11. SparedNow(d, p)'
      BY <1>6, <3>7, <3>8
    <3> QED BY <2>5, <3>10, <3>11 DEF Stays
  <2> QED BY <2>4, <2>5
<1> QED BY <1>7, <1>8

LEMMA ResizeCommandStays ==
    ASSUME Kept, NEW d, NEW p, Watched(d, p), NEW larger \in BOOLEAN, ResizeCommand(larger),
           <<d, p.name>> \notin ghost'.named
    PROVE  Stays(d, p)
<1> DEFINE t == st.rdb
<1>1. PICK name \in Names, hi \in 1 .. TopCyl, noUnmount \in BOOLEAN :
        LET i == Find(t, name)
            q == t.parts[i]
        IN  IF ~HasTable \/ i = 0 THEN Returns("error")
            ELSE IF larger /\ Gap(t, q) <= q.hi THEN Returns("error")
            ELSE IF ~larger /\ q.lo = q.hi THEN Returns("ok")
            ELSE /\ IF larger THEN hi > q.hi /\ hi <= Gap(t, q) ELSE hi < q.hi /\ hi >= q.lo
                 /\ IF st.dryrun THEN Returns("ok")
                    ELSE \/ Resize(i, hi, noUnmount)
                         \/ FALSE \in Answers /\ Returns("error")
  BY DEF ResizeCommand
<1>2. CASE Returns("error") \/ Returns("ok")
  BY <1>2, ReturnsStays
<1>3. CASE ~Returns("error") /\ ~Returns("ok")
  <2> DEFINE i == Find(t, name)
             q == t.parts[i]
  <2>1. /\ HasTable /\ i # 0 /\ Resize(i, hi, noUnmount)
        /\ IF larger THEN hi > q.hi /\ hi <= Gap(t, q) ELSE hi < q.hi /\ hi >= q.lo
    BY <1>1, <1>3
  <2>2. t \in Records /\ Good(t, ghost.older) /\ t \in Tables
    BY <2>1, KeptFacts DEF HasTable
  <2>3. i \in DOMAIN t.parts
    BY <2>1, <2>2, Found
  <2> HIDE DEF i
  <2>4. /\ q.lo \in Nat /\ q.hi \in Nat /\ q.lo <= q.hi /\ hi \in Nat
        /\ hi >= q.lo /\ (hi <= q.hi \/ hi <= Gap(t, q))
    <3>1. t # NoTable
      BY <2>1 DEF HasTable
    <3>2. q.lo \in Nat /\ q.hi \in Nat /\ q.lo <= q.hi
      BY <2>2, <2>3, <3>1, Extents DEF Good, Disjoint
    <3>3. hi \in Nat
      BY SessionAssumption
    <3> QED BY <2>1, <3>2, <3>3
  <2>5. Good(With(t, i, hi), ghost.older)
    BY <2>2, <2>3, <2>4, ResizedGood
  <2> QED BY <2>1, <2>3, <2>5, ResizeStays
<1> QED BY <1>2, <1>3

\* A clone writes the target's blocks and the target's table.
LEMMA CopyIntoStays ==
    ASSUME Kept, NEW d, NEW p, Watched(d, p), NEW e \in Devices, NEW t \in Records,
           NEW i \in DOMAIN t.parts, NEW own \in BOOLEAN, CopyInto(e, t, i, own),
           Good(t, ghost.older), own => e = st.bd /\ t = st.rdb,
           d = e => p \in PartsOf(t), <<d, p.name>> \notin ghost'.named
    PROVE  Stays(d, p)
<1> DEFINE o == ghost.older
           q == t.parts[i]
           after == Wrote(disk[e], Span(q))
<1>1. /\ MediaOK(disk[e], o) /\ disk[e] \in Media /\ st \in StType /\ t # NoTable
      /\ q.lo \in 1 .. TopCyl /\ q.hi \in 1 .. TopCyl /\ q.name \in Names
      /\ Span(q) \in SUBSET Cyls /\ q.lo \in Nat /\ q.hi \in Nat
      /\ d \in Devices /\ p \in Parts /\ ~p.want
  BY KeptFacts, Extents, SessionAssumption DEF Kept, CopyOK, MediaOK, Watched
<1>2. q.lo <= q.hi
  BY <1>1 DEF Good, Disjoint
<1>3. MediaOK(after, o)
  BY <1>1, WroteOK
<1> DEFINE told == [Named({<<e, q.name>>}) EXCEPT !.behind = @ \/ (~own /\ e = st.bd)]
<1>4. \/ /\ disk' \in {disk, [disk EXCEPT ![e] = after]} /\ UNCHANGED st
         /\ ghost' = told
      \/ \E hi \in {q.hi, q.lo} : \E w \in Writes(after, With(t, i, hi)) :
              /\ disk' = [disk EXCEPT ![e] = w.disk]
              /\ rc' = w.rc
              /\ ghost' = Noted(told, e, w)
              /\ st' = IF ~own THEN st
                       ELSE IF w.rc = "ok" THEN Saved(st, With(t, i, hi))
                       ELSE [st EXCEPT !.rdb = With(t, i, hi)]
  BY DEF CopyInto
<1>5. told \in GhostType /\ ghost'.named = Named({<<e, q.name>>}).named
  <2>1. Named({<<e, q.name>>}) \in GhostType
    BY <1>1, NamedOK, NameSets DEF Kept
  <2>2. told \in GhostType /\ told.named = Named({<<e, q.name>>}).named
    BY <2>1 DEF GhostType
  <2>3. ghost' = told \/ \E w : ghost' = Noted(told, e, w)
    BY <1>4
  <2> HIDE DEF told
  <2> QED BY <2>2, <2>3 DEF GhostType, Noted
<1>6. <<d, p.name>> \notin {<<e, q.name>>}
  BY <1>1, <1>5, NotNamed
<1>7. d = e => SparedOn(after, p) /\ p.name # q.name
  <2> SUFFICES ASSUME d = e PROVE SparedOn(after, p) /\ p.name # q.name
    OBVIOUS
  <2>1. p.name # q.name /\ p \in PartsOf(t) /\ SparedOn(disk[e], p)
    BY <1>6 DEF Watched
  <2>2. Span(p) \cap Span(q) = {}
    BY <2>1, OtherEntry
  <2> QED BY <1>1, <2>1, <2>2, WroteSpares
<1> HIDE DEF after, told
<1>8. CASE disk' \in {disk, [disk EXCEPT ![e] = after]} /\ UNCHANGED st
  <2>1. SparedOn(disk'[d], p)
    <3>1. disk'[d] = disk[d] \/ (d = e /\ disk'[d] = after)
      BY <1>1, <1>8, OthersSame
    <3> QED BY <1>7, <3>1 DEF Watched
  <2> QED BY <1>8, <2>1 DEF Stays, Watched, SparedNow
<1>9. ASSUME NEW hi \in {q.hi, q.lo}, NEW w \in Writes(after, With(t, i, hi)),
             disk' = [disk EXCEPT ![e] = w.disk], rc' = w.rc, ghost' = Noted(told, e, w),
             st' = IF ~own THEN st
                   ELSE IF w.rc = "ok" THEN Saved(st, With(t, i, hi))
                   ELSE [st EXCEPT !.rdb = With(t, i, hi)]
      PROVE  Stays(d, p)
  <2> DEFINE new == With(t, i, hi)
  <2>1. hi \in 1 .. TopCyl /\ q.lo <= hi /\ hi <= q.hi
    BY <1>1, <1>2
  <2>2. Good(new, o) /\ new \in Records
    BY <2>1, ResizedGood, WithParts
  <2>3. d = e => p \in PartsOf(new)
    BY <1>7, <2>1, OtherEntry
  <2> HIDE DEF new
  <2>4. d = e => SparedBy(d, p, w)
    BY <1>1, <1>3, <1>7, <1>9, <2>2, <2>3, WritesSpare DEF new
  <2>5. SparedNow(d, p)'
    BY <1>5, <1>9, <2>4, SparedWritten
  <2>6. /\ st'.bd = st.bd
        /\ st' = st \/ (own /\ st'.rdb = new)
    BY <1>1, <1>9 DEF Saved, StType, new
  <2>7. HeldIn(st', d, p)
    BY <2>3, <2>6 DEF HeldIn, Watched
  <2> QED BY <2>5, <2>7 DEF Stays
<1> QED BY <1>4, <1>8, <1>9

LEMMA PartCloneStays ==
    ASSUME Kept, NEW d, NEW p, Watched(d, p), PartClone, <<d, p.name>> \notin ghost'.named
    PROVE  Stays(d, p)
<1>1. PICK src \in Names, dst \in Names, cross \in BOOLEAN :
        LET t == IF cross THEN Read(disk[HD]) ELSE st.rdb
            i == Find(st.rdb, src)
            k == Find(t, dst)
        IN  IF ~HasTable \/ i = 0 THEN Returns("error")
            ELSE IF st.dryrun THEN Returns("ok")
            ELSE IF k = 0 \/ (~cross /\ i = k) THEN Returns("error")
            ELSE \E u \in IF cross THEN Carried(t) ELSE {t} :
                     CopyInto(IF cross THEN HD ELSE st.bd, u, k, ~cross)
  BY DEF PartClone
<1>2. CASE Returns("error") \/ Returns("ok")
  BY <1>2, ReturnsStays
<1>3. CASE ~Returns("error") /\ ~Returns("ok")
  <2> DEFINE t == IF cross THEN Read(disk[HD]) ELSE st.rdb
             k == Find(t, dst)
             e == IF cross THEN HD ELSE st.bd
  <2>1. /\ HasTable /\ k # 0
        /\ \E u \in Carried(t) \cup {t} : CopyInto(e, u, k, ~cross) /\ (~cross => u = t)
    BY <1>1, <1>3
  <2>2. HD \in Devices /\ (HD \in Devices => MediaOK(disk[HD], ghost.older))
    BY KeptFacts DEF Devices
  <2>3. Read(disk[HD]) \in Tables /\ Good(Read(disk[HD]), ghost.older)
    BY <2>2, ReadGood DEF MediaOK, Placed
  <2>4. /\ t \in Tables /\ Good(t, ghost.older) /\ e \in Devices
        /\ (~cross => e = st.bd /\ t = st.rdb)
        /\ (d = e /\ t # NoTable => p \in PartsOf(t))
    <3>1. st.rdb \in Tables /\ Good(st.rdb, ghost.older) /\ st.bd \in Devices
      BY <2>1, KeptFacts DEF HasTable
    <3>2. CASE cross
      BY <2>2, <2>3, <3>2, ReadHolds DEF Watched
    <3>3. CASE ~cross
      BY <3>1, <3>3 DEF Watched, HeldIn
    <3> QED BY <3>2, <3>3
  <2> HIDE DEF t, e
  <2>5. t \in Records /\ k \in DOMAIN t.parts
    BY <2>1, <2>4, Found
  <2>6. (~cross) \in BOOLEAN /\ t # NoTable
    BY <2>5, SessionAssumption
  <2> HIDE DEF k
  <2>7. PICK u \in Carried(t) \cup {t} : CopyInto(e, u, k, ~cross) /\ (~cross => u = t)
    BY <2>1
  <2>8. /\ u \in Records /\ k \in DOMAIN u.parts /\ Good(u, ghost.older)
        /\ (~cross => e = st.bd /\ u = st.rdb) /\ (d = e => p \in PartsOf(u))
    BY <2>4, <2>5, <2>6, <2>7, CarriedGood
  <2> QED BY <2>4, <2>6, <2>7, <2>8, CopyIntoStays
<1> QED BY <1>2, <1>3

LEMMA PartInStays ==
    ASSUME Kept, NEW d, NEW p, Watched(d, p), PartIn, <<d, p.name>> \notin ghost'.named
    PROVE  Stays(d, p)
<1>1. PICK name \in Names :
        IF ~HasTable \/ Find(st.rdb, name) = 0 THEN Returns("error")
        ELSE IF st.dryrun THEN Returns("ok")
        ELSE CopyInto(st.bd, st.rdb, Find(st.rdb, name), TRUE)
  BY DEF PartIn
<1>2. CASE Returns("error") \/ Returns("ok")
  BY <1>2, ReturnsStays
<1>3. CASE ~Returns("error") /\ ~Returns("ok")
  <2>1. /\ HasTable /\ Find(st.rdb, name) # 0
        /\ CopyInto(st.bd, st.rdb, Find(st.rdb, name), TRUE)
    BY <1>1, <1>3
  <2>2. /\ st.rdb \in Records /\ Good(st.rdb, ghost.older) /\ st.bd \in Devices
        /\ Find(st.rdb, name) \in DOMAIN st.rdb.parts
    BY <2>1, KeptFacts, Found DEF HasTable
  <2>3. TRUE \in BOOLEAN /\ (d = st.bd => p \in PartsOf(st.rdb))
    BY <2>1 DEF Watched, HeldIn, HasTable
  <2> QED BY <2>1, <2>2, <2>3, CopyIntoStays
<1> QED BY <1>2, <1>3

LEMMA ZeroPartStays ==
    ASSUME Kept, NEW d, NEW p, Watched(d, p), ZeroPart, <<d, p.name>> \notin ghost'.named
    PROVE  Stays(d, p)
<1> DEFINE b == st.bd
<1>1. PICK name \in Names :
        IF ~HasTable \/ Find(st.rdb, name) = 0 THEN Returns("error")
        ELSE IF st.dryrun THEN Returns("ok")
        ELSE /\ disk' = [disk EXCEPT ![b] = Wrote(@, Span(st.rdb.parts[Find(st.rdb, name)]))]
             /\ ghost' = Named({<<b, name>>})
             /\ UNCHANGED st
  BY DEF ZeroPart
<1>2. CASE Returns("error") \/ Returns("ok")
  BY <1>2, ReturnsStays
<1>3. CASE ~Returns("error") /\ ~Returns("ok")
  <2> DEFINE i == Find(st.rdb, name)
             c == Span(st.rdb.parts[i])
  <2>1. /\ HasTable /\ i # 0 /\ st' = st /\ ghost' = Named({<<b, name>>})
        /\ disk' = [disk EXCEPT ![b] = Wrote(@, c)]
    BY <1>1, <1>3
  <2>2. /\ b \in Devices /\ st.rdb \in Records /\ Good(st.rdb, ghost.older)
        /\ disk \in [Devices -> Media] /\ disk[b] \in Media
    BY <2>1, KeptFacts DEF HasTable, Kept, DisksOK
  <2>3. i \in DOMAIN st.rdb.parts /\ st.rdb.parts[i].name = name
    BY <2>1, <2>2, Found DEF Tables
  <2>4. <<d, p.name>> \notin {<<b, name>>}
    BY <2>1, NotNamed DEF Watched
  <2>5. d = b => Span(p) \cap c = {}
    <3> SUFFICES ASSUME d = b PROVE Span(p) \cap c = {}
      OBVIOUS
    <3>1. p.name # st.rdb.parts[i].name /\ p \in PartsOf(st.rdb)
      BY <2>1, <2>3, <2>4 DEF Watched, HeldIn, HasTable
    <3> QED BY <2>2, <2>3, <3>1, OtherEntry
  <2> HIDE DEF c, i
  <2>6. disk' = [disk EXCEPT ![b] = Wrote(disk[b], c)]
    BY <2>1, <2>2
  <2>7. disk'[b] = Wrote(disk[b], c) /\ \A e \in Devices \ {b} : disk'[e] = disk[e]
    BY <2>2, <2>6, OthersSame
  <2>8. SparedOn(disk'[d], p)
    <3>1. CASE d = b
      BY <2>2, <2>5, <2>7, <3>1, WroteSpares DEF Watched
    <3>2. CASE d # b
      BY <2>7, <3>2 DEF Watched
    <3> QED BY <3>1, <3>2
  <2> QED BY <2>1, <2>8 DEF Stays, Watched, SparedNow
<1> QED BY <1>2, <1>3

LEMMA MbrStays ==
    ASSUME Kept, NEW d, NEW p, Watched(d, p), AddMbr \/ DelMbr PROVE Stays(d, p)
<1> DEFINE b == st.bd
<1>1. CASE \E r : Returns(r)
  BY <1>1, ReturnsStays
<1>2. CASE ~ \E r : Returns(r)
  <2>1. /\ HasDevice /\ \E m : st' = [st EXCEPT !.mbr = m]
        /\ disk' = disk \/ \E m : disk' = [disk EXCEPT ![b].mbr = m]
    <3>1. CASE AddMbr
      BY <1>2, <3>1 DEF AddMbr, HasTable
    <3>2. CASE DelMbr
      BY <1>2, <3>2 DEF DelMbr
    <3> QED BY <3>1, <3>2
  <2>2. b \in Devices /\ disk \in [Devices -> Media] /\ disk[b] \in Media /\ st \in StType
    BY <2>1, KeptFacts DEF Kept, CopyOK, DisksOK
  <2>3. st'.rdb = st.rdb /\ st'.bd = st.bd
    BY <2>1, <2>2 DEF StType
  <2>4. disk'[d].t = disk[d].t /\ disk'[d].new = disk[d].new
    <3>1. ASSUME NEW m, disk' = [disk EXCEPT ![b].mbr = m]
          PROVE  disk'[d].t = disk[d].t /\ disk'[d].new = disk[d].new
      <4>1. disk' = [disk EXCEPT ![b] = [disk[b] EXCEPT !.mbr = m]]
        BY <2>2, <3>1
      <4>2. /\ [disk[b] EXCEPT !.mbr = m].t = disk[b].t
            /\ [disk[b] EXCEPT !.mbr = m].new = disk[b].new
        BY <2>2 DEF Media
      <4>3. disk'[b].t = disk[b].t /\ disk'[b].new = disk[b].new
            /\ \A e \in Devices \ {b} : disk'[e] = disk[e]
        BY <2>2, <4>1, <4>2, OthersSame
      <4> QED BY <4>3 DEF Watched
    <3> QED BY <2>1, <3>1
  <2> QED BY <2>3, <2>4 DEF Stays, Watched, SparedNow, SparedOn, HeldIn
<1> QED BY <1>1, <1>2

LEMMA WriteStays == ASSUME Kept, NEW d, NEW p, Watched(d, p), Write PROVE Stays(d, p)
<1> DEFINE b == st.bd
           t == st.rdb
           o == ghost.older
<1>0. st \in StType
  BY DEF Kept, CopyOK
<1>1. CASE \E r : Returns(r)
  BY <1>1, ReturnsStays
<1>2. CASE HasTable /\ st.dryrun
  BY <1>0, <1>2, UntouchedStays DEF Write, StType
<1>3. CASE HasTable /\ ~st.dryrun /\ ~ \E r : Returns(r)
  <2>1. b \in Devices /\ MediaOK(disk[b], o) /\ t \in Records /\ Good(t, o) /\ t # NoTable
    BY <1>3, KeptFacts DEF HasTable
  <2>2. d \in Devices /\ (d = b => p \in PartsOf(t) /\ ~p.want /\ SparedOn(disk[b], p))
    BY <2>1 DEF Watched, HeldIn
  <2>3. \A w \in Writes(disk[b], t) : d = b => SparedBy(d, p, w)
    BY <2>1, <2>2, WritesSpare
  <2>4. ASSUME NEW w \in Writes(disk[b], t), disk' = [disk EXCEPT ![b] = w.disk], st' = st,
               rc' = w.rc, ghost' = Noted(ghost, b, w)
        PROVE  Stays(d, p)
    <3>0. ghost \in GhostType
      BY DEF Kept
    <3>1. SparedNow(d, p)'
      BY <2>1, <2>3, <2>4, <3>0, SparedWritten
    <3> QED BY <2>4, <3>1 DEF Stays, Watched
  <2>5. ASSUME NEW w \in Writes(disk[b], t), w.rc = "ok",
               disk' = [disk EXCEPT ![b] = Formatted(w.disk, t)],
               st' = [Saved(st, Forgotten(t)) EXCEPT !.unmount = {}]
        PROVE  Stays(d, p)
    <3> DEFINE c == UNION {Span(q) : q \in {q \in PartsOf(t) : q.want}}
    <3>1. w.disk \in Media /\ ~w.torn
      BY <2>1, <2>5, WritesOK
    <3>2. d = b => Span(p) \cap c = {}
      <4>1. ASSUME d = b, NEW q \in PartsOf(t), q.want PROVE Span(p) \cap Span(q) = {}
        <5>1. PICK j \in DOMAIN t.parts : p = t.parts[j]
          BY <2>1, <2>2, <4>1, Extents
        <5>2. PICK k \in DOMAIN t.parts : q = t.parts[k]
          BY <2>1, <4>1, Extents
        <5>3. j # k
          BY <2>2, <4>1, <5>1, <5>2
        <5> QED BY <2>1, <5>1, <5>2, <5>3 DEF Good, Disjoint
      <4> QED BY <4>1
    <3>3. Formatted(w.disk, t) = Wrote(w.disk, c)
      BY DEF Formatted
    <3> HIDE DEF c
    <3>4. d = b => SparedOn(Formatted(w.disk, t), p)
      BY <2>3, <3>1, <3>2, <3>3, WroteSpares DEF SparedBy
    <3>5. SparedOn(disk'[d], p)
      BY <2>1, <2>2, <2>5, <3>4, OthersSame DEF Watched
    <3>6. st'.rdb = Forgotten(t) /\ st'.bd = b
      BY <1>0, <2>5 DEF Saved, StType
    <3>7. HeldIn(st', d, p)
      BY <2>1, <2>2, <3>6, PlainHolds DEF HeldIn
    <3> QED BY <3>5, <3>7 DEF Stays, SparedNow
  <2> QED BY <1>3, <2>4, <2>5 DEF Write
<1>4. HasTable \/ \E r : Returns(r)
  BY DEF Write
<1> QED BY <1>1, <1>2, <1>3, <1>4

LEMMA LeaveStays == ASSUME Kept, NEW d, NEW p, Watched(d, p), Close \/ End PROVE Stays(d, p)
<1>1. CASE \E r : Returns(r)
  BY <1>1, ReturnsStays
<1>2. CASE ~ \E r : Returns(r)
  <2>1. disk' = disk /\ st'.rdb = NoTable
    BY <1>2 DEF Close, End, Kept, CopyOK, StType
  <2> QED BY <2>1, UntouchedStays
<1> QED BY <1>1, <1>2

LEMMA LookStays ==
    ASSUME NEW d, NEW p, Watched(d, p),
           \/ CheckRdb \/ VerifyRdb \/ VerifyExt \/ ShrinkInfo \/ PartOut
           \/ ImageOut \/ MountList \/ Info \/ Reboot \/ (\E ext \in BOOLEAN : Backup(ext))
    PROVE  Stays(d, p)
<1>1. CASE \E r : Returns(r)
  BY <1>1, ReturnsStays
<1>2. CASE \E ext \in BOOLEAN : Backup(ext)
  <2>1. st' = st /\ disk' = disk
    BY <1>2 DEF Backup, Returns
  <2> QED BY <2>1, UntouchedStays
<1> QED BY <1>1, <1>2 DEF Answer, CheckRdb, VerifyRdb, VerifyExt, ShrinkInfo, PartOut,
                         ImageOut, MountList, Info, Reboot

LEMMA NextStays ==
    ASSUME Kept, NEW d, NEW p, Watched(d, p), Next, <<d, p.name>> \notin ghost'.named
    PROVE  Stays(d, p)
<1>1. CASE \E withMbr \in BOOLEAN : InitNew(withMbr)
  BY <1>1, InitNewStays
<1>2. CASE \E ext \in BOOLEAN : Restore(ext)
  BY <1>2, RestoreStays
<1>3. CASE Grow \/ Shrink
  BY <1>3, ResizeCommandStays DEF Grow, Shrink
<1> QED BY <1>1, <1>2, <1>3, OpenStays, CreateStays, TableEditsStay, AddPartStays, DelPartStays,
           LookStays, PartCloneStays, PartInStays, ZeroPartStays, ClearedStays, MbrStays,
           WriteStays, LeaveStays DEF Next

\* What was named stays named, and the beginning is not forgotten.
Grown(g) == g.start = ghost.start /\ ghost.named \subseteq g.named

LEMMA NoteGrows ==
    ASSUME Kept
    PROVE  /\ Grown(ghost) /\ Grown([ghost EXCEPT !.behind = FALSE])
           /\ \A S : Grown(Named(S)) /\ Grown([Named(S) EXCEPT !.behind = FALSE])
<1>1. ghost \in GhostType
  BY DEF Kept
<1> QED BY <1>1 DEF Named, GhostType, Grown

LEMMA NoteGrowsMore ==
    ASSUME Kept
    PROVE  /\ \A S, x : /\ Grown([Named(S) EXCEPT !.behind = @ \/ x])
                       /\ Grown([Named(S) EXCEPT !.under = @ \/ x])
                       /\ Grown([Named(S) EXCEPT !.behind = FALSE, !.older = @ \/ x])
           /\ \A S, x, y : Grown([[Named(S) EXCEPT !.under = @ \/ x] EXCEPT !.behind = @ /\ y])
<1>1. ghost \in GhostType
  BY DEF Kept
<1> QED BY <1>1 DEF Named, GhostType, Grown

\* Where a write broke off is one more note.
LEMMA NotedGrows ==
    ASSUME NEW g, Grown(g), NEW d, NEW w
    PROVE  Grown(Noted(g, d, w))
BY DEF Grown, Noted

LEMMA NamesStay == ASSUME Kept, Next PROVE Grown(ghost')
<1>1. ASSUME ghost' = ghost PROVE Grown(ghost')
  BY <1>1, NoteGrows
<1>2. ASSUME ghost' = [ghost EXCEPT !.behind = FALSE] PROVE Grown(ghost')
  BY <1>2, NoteGrows
<1>3. ASSUME NEW S, \/ ghost' = Named(S) \/ ghost' = [Named(S) EXCEPT !.behind = FALSE]
      PROVE  Grown(ghost')
  BY <1>3, NoteGrows
<1>4. ASSUME \E r : Returns(r) PROVE Grown(ghost')
  BY <1>1, <1>4 DEF Returns
<1>5. CASE Open \/ Create
  <2>1. \/ ghost' = ghost \/ ghost' = [ghost EXCEPT !.behind = FALSE]
        \/ ghost' = [Named(Everything(Img)) EXCEPT !.behind = FALSE]
    BY <1>5 DEF Open, Create, Unopened
  <2> QED BY <1>1, <1>2, <1>3, <2>1
<1>6. ASSUME NEW withMbr \in BOOLEAN, InitNew(withMbr) PROVE Grown(ghost')
  <2>1. (\E r : Returns(r)) \/ ghost' = Named(Everything(st.bd))
    BY <1>6 DEF InitNew
  <2> QED BY <1>3, <1>4, <2>1
<1>7. CASE NewGeo \/ AddFs
  <2>1. (\E r : Returns(r)) \/ ghost' = ghost
    BY <1>7 DEF NewGeo, AddFs
  <2> QED BY <1>1, <1>4, <2>1
<1>8. CASE AddPart
  <2>1. (\E r : Returns(r)) \/ \E name : ghost' = Named({<<st.bd, name>>})
    BY <1>8 DEF AddPart
  <2> QED BY <1>3, <1>4, <2>1
<1>9. CASE DelPart \/ ZeroPart
  <2>1. (\E r : Returns(r)) \/ \E name : ghost' = Named({<<st.bd, name>>})
    BY <1>9 DEF DelPart, ZeroPart
  <2> QED BY <1>3, <1>4, <2>1
<1>10. ASSUME NEW ext \in BOOLEAN, Backup(ext) PROVE Grown(ghost')
  <2>1. (\E r : Returns(r)) \/ ghost' = ghost
    BY <1>10 DEF Backup
  <2> QED BY <1>1, <1>4, <2>1
<1>11. ASSUME NEW ext \in BOOLEAN, Restore(ext) PROVE Grown(ghost')
  <2>1. \/ \E r : Returns(r)
        \/ ghost' = [Named(Everything(st.bd)) EXCEPT !.behind = FALSE,
                                                     !.older = @ \/ (~ext \/ rc' # "ok")]
    BY <1>11 DEF Restore
  <2> QED BY <1>4, <2>1, NoteGrowsMore
<1>12. CASE Grow \/ Shrink
  <2>1. \/ \E r : Returns(r)
        \/ \E i, hi, noUnmount : Resize(i, hi, noUnmount)
    BY <1>12 DEF Grow, Shrink, ResizeCommand
  <2>2. ASSUME NEW i, NEW hi, NEW noUnmount, Resize(i, hi, noUnmount) PROVE Grown(ghost')
    <3> DEFINE S == {<<st.bd, st.rdb.parts[i].name>>}
    <3>1. \/ ghost' = ghost
          \/ \E x : ghost' = [Named(S) EXCEPT !.under = @ \/ x]
          \/ \E x, y, w : ghost' = Noted([[Named(S) EXCEPT !.under = @ \/ x]
                                             EXCEPT !.behind = @ /\ y], st.bd, w)
      BY <2>2, Zenon DEF Resize
    <3> HIDE DEF S
    <3>2. CASE \E x : ghost' = [Named(S) EXCEPT !.under = @ \/ x]
      BY <3>2, NoteGrowsMore, Zenon
    <3>3. ASSUME NEW x, NEW y, NEW w,
                 ghost' = Noted([[Named(S) EXCEPT !.under = @ \/ x] EXCEPT !.behind = @ /\ y],
                                st.bd, w)
          PROVE  Grown(ghost')
      <4>1. Grown([[Named(S) EXCEPT !.under = @ \/ x] EXCEPT !.behind = @ /\ y])
        BY NoteGrowsMore
      <4> QED BY <3>3, <4>1, NotedGrows, Zenon
    <3> QED BY <1>1, <3>1, <3>2, <3>3, Zenon
  <2> QED BY <1>4, <2>1, <2>2
<1>13. CASE PartClone \/ PartIn
  <2>1. \/ \E r : Returns(r)
        \/ \E e, t, i, own : CopyInto(e, t, i, own)
    BY <1>13 DEF PartClone, PartIn
  <2>2. ASSUME NEW e, NEW t, NEW i, NEW own, CopyInto(e, t, i, own) PROVE Grown(ghost')
    <3> DEFINE g == [Named({<<e, t.parts[i].name>>}) EXCEPT !.behind = @ \/ (~own /\ e = st.bd)]
    <3>1. ghost' = g \/ \E w : ghost' = Noted(g, e, w)
      BY <2>2, Zenon DEF CopyInto
    <3>2. Grown(g)
      BY NoteGrowsMore, Zenon
    <3> HIDE DEF g
    <3> QED BY <3>1, <3>2, NotedGrows, Zenon
  <2> QED BY <1>4, <2>1, <2>2
<1>14. CASE ClearRdb \/ ImageIn
  <2>1. (\E r : Returns(r)) \/ ghost' = [Named(Everything(st.bd)) EXCEPT !.behind = FALSE]
    BY <1>14 DEF ClearRdb, ImageIn
  <2> QED BY <1>3, <1>4, <2>1
<1>15. CASE AddMbr \/ DelMbr \/ Close \/ Reboot \/ End
  <2>1. (\E r : Returns(r)) \/ ghost' = ghost
    BY <1>15 DEF AddMbr, DelMbr, Close, Reboot, End
  <2> QED BY <1>1, <1>4, <2>1
<1>16. CASE Write
  <2>1. \/ \E r : Returns(r)
        \/ ghost' = ghost \/ ghost' = [ghost EXCEPT !.behind = FALSE]
        \/ \E d, w : ghost' = Noted(ghost, d, w)
    BY <1>16 DEF Write
  <2>2. (\E d, w : ghost' = Noted(ghost, d, w)) => Grown(ghost')
    BY NoteGrows, NotedGrows, Zenon
  <2> QED BY <1>1, <1>2, <1>4, <2>1, <2>2
<1>17. CASE \/ CheckRdb \/ VerifyRdb \/ VerifyExt \/ ShrinkInfo \/ PartOut
            \/ ImageOut \/ MountList \/ Info
  <2>1. \E r : Returns(r)
    BY <1>17 DEF Answer, CheckRdb, VerifyRdb, VerifyExt, ShrinkInfo, PartOut,
       ImageOut, MountList, Info
  <2> QED BY <1>4, <2>1
<1> QED BY <1>5, <1>6, <1>7, <1>8, <1>9, <1>10, <1>11, <1>12, <1>13, <1>14, <1>15, <1>16,
           <1>17 DEF Next

LEMMA SparedStep == Sound /\ AllSpared /\ [Next]_vars => AllSpared'
<1> SUFFICES ASSUME Sound, AllSpared, [Next]_vars PROVE AllSpared'
  OBVIOUS
<1>1. CASE UNCHANGED vars
  BY <1>1 DEF vars, AllSpared, SparedNow
<1>2. CASE Next
  <2>0. Kept /\ rc = "ok"
    BY <1>2, SoundNext
  <2>1. ghost'.start = ghost.start /\ ghost.named \subseteq ghost'.named
    BY <1>2, <2>0, NamesStay DEF Grown
  <2>2. ASSUME NEW d \in Devices, NEW p \in PartsOf(Read(ghost.start[d])),
               <<d, p.name>> \notin ghost'.named
        PROVE  SparedNow(d, p)' /\ HeldIn(st', d, p)
    <3>1. SparedOn(disk[d], p) /\ HeldIn(st, d, p)
      BY <2>0, <2>1, <2>2 DEF AllSpared, SparedNow
    <3>2. p \in Parts /\ ~p.want
      <4>1. MediaOK(ghost.start[d], FALSE)
        BY DEF AllSpared
      <4>2. Read(ghost.start[d]) \in Tables /\ Clean(Read(ghost.start[d]))
        BY <4>1, ReadGood DEF MediaOK, Placed
      <4>3. Read(ghost.start[d]) # NoTable
        BY <2>2 DEF PartsOf
      <4>4. Read(ghost.start[d]) \in Records
        BY <4>2, <4>3 DEF Tables
      <4>5. p \in Parts
        BY <2>2, <4>4, Extents
      <4> QED BY <2>2, <4>2, <4>5 DEF Clean
    <3>3. Watched(d, p)
      BY <3>1, <3>2 DEF Watched
    <3> QED BY <1>2, <2>0, <2>2, <3>3, NextStays DEF Stays
  <2> QED BY <2>1, <2>2 DEF AllSpared
<1> QED BY <1>1, <1>2

\* At the beginning one place of the two holds a table.
LEMMA SparedInit == Init => AllSpared
<1> SUFFICES ASSUME Init PROVE AllSpared
  OBVIOUS
<1>1. PICK s \in Starts, i \in Images : disk = [d \in Devices |-> IF d = HD THEN s ELSE i]
  BY DEF Init
<1>2. \A d \in Devices : disk[d] \in Starts \cup Images
  BY <1>1
<1>3. ghost.start = disk /\ st.bd = NoDevice
  BY DEF Init, Unopen
<1>4. ASSUME NEW d \in Devices, NEW p \in PartsOf(Read(disk[d])) PROVE SparedOn(disk[d], p)
  <2> DEFINE dk == disk[d]
  <2>1. dk.new = {} /\ NoTable \in {dk.t[0], dk.t[1]}
    BY <1>2, SessionAssumption
  <2>2. \A h \in 0 .. 1 : dk.t[h] # NoTable => dk.t[h] = OnDisk(dk)
    BY <2>1 DEF OnDisk
  <2>3. PartsOf(Read(dk)) = Entries(OnDisk(dk))
    BY DEF Read, Entries
  <2> QED BY <2>1, <2>2, <2>3 DEF SparedOn
<1>5. \A d \in Devices : MediaOK(disk[d], FALSE)
  BY <1>2, ImageOK
<1>6. \A d \in Devices : \A p : HeldIn(st, d, p)
  BY <1>3 DEF HeldIn, Devices, NoDevice, HD, Img
<1> QED BY <1>3, <1>4, <1>5, <1>6 DEF AllSpared, SparedNow

LEMMA SparedBystanders == Sound /\ AllSpared => Bystanders
<1> SUFFICES ASSUME Sound, AllSpared, NEW d \in Devices, NEW p \in PartsOf(Read(ghost.start[d])),
                    <<d, p.name>> \notin ghost.named
             PROVE  /\ Span(p) \cap disk[d].new = {}
                    /\ st.bd = d /\ st.rdb # NoTable => p \in PartsOf(st.rdb)
                    /\ OnDisk(disk[d]) # NoTable /\ d # ghost.torn => p \in PartsOf(OnDisk(disk[d]))
  BY DEF Bystanders
<1>1. SparedNow(d, p) /\ HeldIn(st, d, p)
  BY DEF AllSpared
<1>2. Span(p) \cap disk[d].new = {}
  BY <1>1 DEF SparedNow, SparedOn
<1>3. ASSUME d # ghost.torn, OnDisk(disk[d]) # NoTable PROVE p \in PartsOf(OnDisk(disk[d]))
  <2> DEFINE t == OnDisk(disk[d])
  <2>1. SparedOn(disk[d], p) /\ MediaOK(disk[d], ghost.older)
    BY <1>1, <1>3, KeptFacts DEF SparedNow, Sound, TornKept
  <2>2. t = disk[d].t[0] \/ t = disk[d].t[1]
    BY DEF OnDisk
  <2>3. t \in Tables /\ t # NoTable
    BY <1>3, <2>1, ReadGood DEF MediaOK, Placed
  <2> HIDE DEF t
  <2>4. p \in Entries(t)
    BY <2>1, <2>2, <2>3 DEF SparedOn
  <2> QED BY <2>3, <2>4, EntriesOf DEF Tables, t
<1> QED BY <1>1, <1>2, <1>3 DEF HeldIn

(***************************************************************************)
(* A partition no command names keeps its blocks and, in the table in      *)
(* memory and on the disk, its entry, whatever the script (script.c) adds, *)
(* grows, formats, clones or writes around it and whichever command fails; *)
(* but for its entry on a device on which the table's write (rdb.c) broke  *)
(* off below a standing header.                                             *)
(***************************************************************************)
THEOREM BystandersKeep == Spec => []Bystanders
<1>1. Init => Sound /\ AllSpared
  BY InitKept, SparedInit DEF Sound
<1>2. Sound /\ AllSpared /\ [Next]_vars => Sound' /\ AllSpared'
  BY NextSound, SparedStep
<1> QED BY <1>1, <1>2, SparedBystanders, PTL DEF Spec

---------------------------------------------------------------------------
(* What reading a device gives *)

\* A table without the session's notes is itself, but for the chain's mark.
LEMMA PlainClean ==
    ASSUME NEW t \in Records, Clean(t)
    PROVE  Unmarked(t) = t.parts /\ Plain(t) = [t EXCEPT !.cut = FALSE]
<1>1. /\ Unmarked(t) \in Seq(Parts) /\ t.parts \in Seq(Parts)
      /\ Len(Unmarked(t)) = Len(t.parts) /\ Len(t.parts) \in Nat
      /\ DOMAIN t.parts = 1 .. Len(t.parts)
      /\ \A i \in DOMAIN t.parts : Unmarked(t)[i] = t.parts[i]
  BY UnmarkedParts, Extents DEF Clean
<1>2. Unmarked(t) = t.parts
  BY <1>1, SeqEqual
<1>3. Plain(t) = [t EXCEPT !.parts = Unmarked(t), !.cut = FALSE]
  BY SessionAssumption DEF Plain, Unmarked, Quiet
<1> QED BY <1>2, <1>3 DEF Records

LEMMA ReadSeen ==
    ASSUME NEW dk, NEW older, MediaOK(dk, older)
    PROVE  /\ Plain(Read(dk)) = SeenTable(OnDisk(dk))
           /\ OnDisk(dk) \in Tables /\ Read(dk) \in Tables
           /\ Read(dk) = NoTable <=> OnDisk(dk) = NoTable
           /\ Read(dk) # NoTable /\ Read(dk).home = 1 => dk.t[0] = NoTable
<1> DEFINE t == OnDisk(dk)
<1>1. dk \in Media /\ Placed(dk.t[0], 0, older) /\ Placed(dk.t[1], 1, older)
  BY DEF MediaOK
<1>2. t \in Tables /\ Clean(t) /\ Read(dk) \in Tables /\ Clean(Read(dk))
  BY <1>1, ReadGood DEF MediaOK, Placed
<1>3. t # NoTable /\ t.home = 1 => dk.t[0] = NoTable
  BY <1>1 DEF OnDisk, Placed
<1> HIDE DEF t
<1>4. CASE t = NoTable
  BY <1>4, <1>2 DEF t, Read, Plain, SeenTable
<1>5. CASE t # NoTable /\ ~t.cut
  <2>1. t \in Records /\ Read(dk) = t /\ SeenTable(t) = t
    BY <1>2, <1>5 DEF t, Tables, Read, SeenTable
  <2>2. [t EXCEPT !.cut = FALSE] = t
    BY <1>5, <2>1 DEF Records
  <2> QED BY <1>2, <1>3, <1>5, <2>1, <2>2, PlainClean DEF t
<1>6. CASE t # NoTable /\ t.cut
  <2> DEFINE u == [t EXCEPT !.parts = Front(t.parts)]
  <2>1. t \in Records /\ Read(dk) = u /\ SeenTable(t) = [u EXCEPT !.cut = FALSE]
    BY <1>2, <1>6 DEF t, Tables, Read, SeenTable, Records
  <2>2. u.home = t.home
    BY <2>1 DEF Records
  <2> HIDE DEF u
  <2>3. u # NoTable
    <3>1. Len(t.parts) \in Nat /\ Len(t.parts) - 1 \in Int /\ Len(t.parts) - 1 <= Len(t.parts)
      BY <2>1, Extents
    <3>2. u = [t EXCEPT !.parts = SubSeq(t.parts, 1, Len(t.parts) - 1)]
      BY DEF u, Front
    <3>3. Good(t, older)
      BY <1>1, ReadGood DEF Placed, t
    <3>4. u \in Records
      BY <2>1, <3>1, <3>2, <3>3, PrefixGood, Zenon
    <3> QED BY <3>4, SessionAssumption
  <2>4. u \in Records /\ Clean(u)
    BY <1>2, <2>1, <2>3 DEF Tables
  <2>5. Plain(u) = [u EXCEPT !.cut = FALSE]
    BY <2>4, PlainClean
  <2> QED BY <1>2, <1>3, <1>6, <2>1, <2>2, <2>3, <2>5 DEF t
<1> QED BY <1>4, <1>5, <1>6

---------------------------------------------------------------------------
(* What must hold before a step *)

\* A table that will be written to block 1 stands alone: no header in block 0
\* would be found before it.
Homed == HasTable /\ ~st.dryrun /\ st.rdb.home = 1 /\ rc = "ok" => disk[st.bd].t[0] = NoTable

Typed == /\ [d \in Devices |-> OnDisk(disk[d])] \in [Devices -> Tables]
         /\ st.bd \in Devices \cup {NoDevice}
         /\ st.dirty \in BOOLEAN /\ ghost.behind \in BOOLEAN /\ st.dryrun \in BOOLEAN

LEMMA StoreTypes == Sound => Typed
<1> SUFFICES ASSUME Sound PROVE Typed
  OBVIOUS
<1>1. /\ disk \in [Devices -> Media] /\ ghost \in GhostType /\ st \in StType
  BY DEF Sound, Kept, TornKept, DisksOK, CopyOK
<1>2. \A d \in Devices : OnDisk(disk[d]) \in Tables
  <2>1. ASSUME NEW d \in Devices PROVE OnDisk(disk[d]) \in Tables
    <3>1. disk[d] \in Media
      BY <1>1
    <3>2. disk[d].t[0] \in Tables /\ disk[d].t[1] \in Tables
      BY <3>1, MediaFields
    <3> QED BY <3>2 DEF OnDisk
  <2> QED BY <2>1
<1> QED BY <1>1, <1>2 DEF StType, GhostType, Typed

\* So it is after the step.
LEMMA NextStoreTypes ==
    ASSUME Sound'
    PROVE  /\ [d \in Devices |-> OnDisk(disk'[d])] \in [Devices -> Tables]
           /\ st'.bd \in Devices \cup {NoDevice}
           /\ st'.dirty \in BOOLEAN /\ ghost'.behind \in BOOLEAN
<1>1. Typed'
  BY StoreTypes, PTL
<1> QED BY <1>1 DEF Typed

---------------------------------------------------------------------------
(* The steps of the promise, told by the session's variables *)

\* A command that fails ends the session.
LEMMA MakeStop ==
    ASSUME Kept, Sound', rc' # "ok", st'.dryrun = st.dryrun
    PROVE  Store!Stop
<1>1. /\ [d \in Devices |-> OnDisk(disk'[d])] \in [Devices -> Tables]
      /\ st'.bd \in Devices \cup {NoDevice} /\ st'.dirty \in BOOLEAN /\ ghost'.behind \in BOOLEAN
  BY NextStoreTypes
<1> QED BY <1>1 DEF Store!Stop

\* Nothing the promise speaks of changes.
LEMMA MakeStutter ==
    ASSUME rc' = rc, st'.bd = st.bd, st'.rdb = st.rdb, st'.dirty = st.dirty,
           st'.dryrun = st.dryrun, ghost'.behind = ghost.behind,
           \A d \in Devices : OnDisk(disk'[d]) = OnDisk(disk[d])
    PROVE  UNCHANGED Store!vars
<1>1. [d \in Devices |-> OnDisk(disk'[d])] = [d \in Devices |-> OnDisk(disk[d])]
  OBVIOUS
<1> QED BY <1>1 DEF Store!vars, HasDevice

\* The copy in memory is the one reading device d gives.
LEMMA MakeLoad ==
    ASSUME Kept, Sound', rc' = rc, NEW d \in Devices, st'.bd = d, st'.dirty = FALSE,
           ghost'.behind = FALSE, st'.dryrun = st.dryrun,
           \A e \in Devices \ {d} : OnDisk(disk'[e]) = OnDisk(disk[e]),
           Plain(st'.rdb) = SeenTable(OnDisk(disk'[d]))
    PROVE  Store!Load(d)
<1>1. d # NoDevice
  BY DEF Devices, HD, Img, NoDevice
<1>2. [e \in Devices |-> OnDisk(disk'[e])] \in [Devices -> Tables]
  BY NextStoreTypes
<1> QED BY <1>1, <1>2 DEF Store!Load, HasDevice

\* The copy is edited; what else is on the open device may go.
LEMMA MakeEdit ==
    ASSUME Kept, Sound', HasDevice, rc' = rc, st'.bd = st.bd, st'.dirty = TRUE,
           ghost'.behind = ghost.behind, st'.dryrun = st.dryrun,
           \A e \in Devices \ {st.bd} : OnDisk(disk'[e]) = OnDisk(disk[e])
    PROVE  Store!Edit
<1>1. [e \in Devices |-> OnDisk(disk'[e])] \in [Devices -> Tables]
  BY NextStoreTypes
<1> QED BY <1>1 DEF Store!Edit, HasDevice

\* The copy and the open device are in step.
LEMMA MakeSync ==
    ASSUME Kept, Sound', HasDevice, rc' = rc, st'.bd = st.bd,
           st'.dirty \in {FALSE, st.dirty}, ghost'.behind \in {FALSE, ghost.behind},
           st'.dryrun = st.dryrun,
           \A e \in Devices \ {st.bd} : OnDisk(disk'[e]) = OnDisk(disk[e]),
           Plain(st'.rdb) = SeenTable(OnDisk(disk'[st.bd]))
    PROVE  Store!Sync
<1>1. [e \in Devices |-> OnDisk(disk'[e])] \in [Devices -> Tables]
  BY NextStoreTypes
<1>2. st.bd \in Devices
  BY KeptFacts
<1> QED BY <1>1, <1>2 DEF Store!Sync, HasDevice

\* The edits' mark goes although nothing was written.
LEMMA MakePretend ==
    ASSUME disk' = disk, rc' = rc, st'.bd = st.bd, st'.rdb = st.rdb, st'.dirty = FALSE,
           st'.dryrun = st.dryrun, ghost'.behind = ghost.behind, st.dryrun
    PROVE  Store!Pretend
<1>1. [d \in Devices |-> OnDisk(disk'[d])] = [d \in Devices |-> OnDisk(disk[d])]
  OBVIOUS
<1> QED BY <1>1 DEF Store!Pretend, HasDevice

\* A second copy of the open device's table is written.
LEMMA MakeSlip ==
    ASSUME Kept, Sound', HasDevice, rc' = rc, st'.bd = st.bd,
           st'.dirty \in {FALSE, st.dirty}, ghost'.behind = TRUE, st'.dryrun = st.dryrun
    PROVE  Store!Slip
<1>1. [e \in Devices |-> OnDisk(disk'[e])] \in [Devices -> Tables]
  BY NextStoreTypes
<1> QED BY <1>1 DEF Store!Slip, HasDevice

\* The table of a device that is not open is written.
LEMMA MakeElsewhere ==
    ASSUME Kept, Sound', HasDevice, rc' = rc, st' = st, ghost'.behind = ghost.behind,
           OnDisk(disk'[st.bd]) = OnDisk(disk[st.bd])
    PROVE  Store!Elsewhere
<1>1. [e \in Devices |-> OnDisk(disk'[e])] \in [Devices -> Tables]
  BY NextStoreTypes
<1>2. st.bd \in Devices
  BY KeptFacts
<1> QED BY <1>1, <1>2 DEF Store!Elsewhere, HasDevice

LEMMA MakeDrop ==
    ASSUME disk' = disk, rc' = rc, st'.bd = NoDevice, st'.dirty = FALSE,
           st'.dryrun = st.dryrun, ghost'.behind = ghost.behind
    PROVE  Store!Drop
<1>1. [d \in Devices |-> OnDisk(disk'[d])] = [d \in Devices |-> OnDisk(disk[d])]
  OBVIOUS
<1> QED BY <1>1 DEF Store!Drop, HasDevice

---------------------------------------------------------------------------
(* What each command must be shown to do *)

PromiseStep == \/ \E d \in Devices : Store!Load(d)
               \/ Store!Edit \/ Store!Sync \/ Store!Pretend \/ Store!Slip
               \/ Store!Elsewhere \/ Store!Drop

Follows == /\ st'.dryrun = st.dryrun
           /\ rc' = "ok" => Homed' /\ (PromiseStep \/ UNCHANGED Store!vars)

\* The table in memory is the one read from the device.
LEMMA HomedRead ==
    ASSUME NEW dk, NEW older, MediaOK(dk, older), st'.rdb = Read(dk), disk'[st'.bd] = dk
    PROVE  Homed'
BY ReadSeen DEF Homed, HasTable

\* It stays in its block, and no header appears above it.
LEMMA HomedStays ==
    ASSUME Homed, rc = "ok", st'.bd = st.bd, st'.dryrun = st.dryrun,
           st'.rdb # NoTable => st.rdb # NoTable /\ st'.rdb.home = st.rdb.home,
           disk'[st.bd].t[0] \in {disk[st.bd].t[0], NoTable}
    PROVE  Homed'
BY DEF Homed, HasTable, HasDevice

\* A table found in block 1 has its header there.
LEMMA HomeRead ==
    ASSUME NEW dk, NEW older, MediaOK(dk, older), dk.t[0] = NoTable, Read(dk) # NoTable
    PROVE  Read(dk).home = 1
<1> DEFINE t == dk.t[1]
<1>1. /\ Placed(t, 1, older) /\ OnDisk(dk) = t
      /\ Read(dk) = IF t = NoTable \/ ~t.cut THEN t ELSE [t EXCEPT !.parts = Front(@)]
  BY DEF MediaOK, OnDisk, Read
<1> HIDE DEF t
<1>2. t # NoTable /\ t.home = 1 /\ t \in Records
  BY <1>1 DEF Placed, Good, Tables
<1> QED BY <1>1, <1>2 DEF Records

\* What is written is what is read back.
LEMMA AfterSeen ==
    ASSUME NEW dk, NEW older, MediaOK(dk, older), NEW t \in Records, Good(t, older),
           t.home = 1 => dk.t[0] = NoTable
    PROVE  /\ SeenTable(OnDisk(After(dk, t))) = Plain(t)
           /\ t.home = 1 => After(dk, t).t[0] = NoTable
<1>1. /\ dk \in Media /\ dk.t \in [0 .. 1 -> Tables]
      /\ Plain(t) \in Records /\ Plain(t) # NoTable /\ Plain(t).cut = FALSE
      /\ (t.home = 0 \/ t.home = 1)
  <2>1. dk \in Media /\ dk.t \in [0 .. 1 -> Tables] /\ (t.home = 0 \/ t.home = 1)
    BY MediaFields DEF MediaOK, Records
  <2>2. Plain(t) \in Records /\ Plain(t).cut = FALSE
    BY PlainGood
  <2> QED BY <2>1, <2>2, SessionAssumption
<1>2. SeenTable(Plain(t)) = Plain(t)
  BY <1>1 DEF SeenTable
<1>3. CASE t.home = 0
  <2> DEFINE ts == [h \in 0..1 |-> IF h = 0 THEN Plain(t) ELSE NoTable]
  <2>1. After(dk, t) = [dk EXCEPT !.t = ts, !.mbr = NoMbr] /\ ts[0] = Plain(t)
    BY <1>3 DEF After
  <2> HIDE DEF ts
  <2>2. After(dk, t).t = ts
    BY <1>1, <2>1 DEF Media
  <2> QED BY <1>1, <1>2, <1>3, <2>1, <2>2 DEF OnDisk
<1>4. CASE t.home = 1
  <2> DEFINE ts == [dk.t EXCEPT ![1] = Plain(t)]
  <2>1. After(dk, t) = [dk EXCEPT !.t = ts]
    BY <1>1, <1>4 DEF After, Media
  <2>2. ts[0] = dk.t[0] /\ ts[1] = Plain(t)
    BY <1>1
  <2> HIDE DEF ts
  <2>3. After(dk, t).t = ts
    BY <1>1, <2>1 DEF Media
  <2> QED BY <1>1, <1>2, <1>4, <2>2, <2>3 DEF OnDisk
<1> QED BY <1>1, <1>3, <1>4

---------------------------------------------------------------------------
(* The commands *)

LEMMA ReturnsFollows ==
    ASSUME Homed, rc = "ok", NEW r, Returns(r)
    PROVE  Follows
<1>1. /\ st' = st /\ disk' = disk /\ ghost' = ghost /\ rc' = r
  BY DEF Returns
<1>2. ASSUME rc' = "ok" PROVE Homed' /\ UNCHANGED Store!vars
  <2>1. UNCHANGED Store!vars
    BY <1>1, <1>2, MakeStutter
  <2>2. Homed'
    BY <1>1, <1>2, HomedStays
  <2> QED BY <2>1, <2>2
<1> QED BY <1>1, <1>2 DEF Follows

\* A command that failed owes nothing but DRYRUN.
LEMMA FailedFollows ==
    ASSUME rc' # "ok", st'.dryrun = st.dryrun
    PROVE  Follows
BY DEF Follows

LEMMA OpenFollows == ASSUME Kept, Sound', Homed, rc = "ok", Open PROVE Follows
<1>1. st \in StType
  BY DEF Kept, CopyOK
<1>2. CASE Unopened
  BY <1>1, <1>2, FailedFollows DEF Unopened, StType
<1>3. ASSUME NEW d \in Devices, st' = Opened(disk[d], d), rc' = "ok",
             ghost' = [ghost EXCEPT !.behind = FALSE], UNCHANGED <<disk, dos, file>>
      PROVE  Follows
  <2>1. st'.bd = d /\ st'.rdb = Read(disk[d]) /\ st'.dirty = FALSE /\ st'.dryrun = st.dryrun
    BY <1>1, <1>3 DEF Opened, StType
  <2>2. MediaOK(disk[d], ghost.older) /\ disk' = disk /\ ghost'.behind = FALSE
    BY <1>3, KeptFacts DEF Kept, GhostType
  <2>3. Homed'
    BY <2>1, <2>2, HomedRead
  <2>4. Plain(st'.rdb) = SeenTable(OnDisk(disk'[d]))
    BY <2>1, <2>2, ReadSeen
  <2>5. Store!Load(d)
    BY <1>3, <2>1, <2>2, <2>4, MakeLoad
  <2> QED BY <2>1, <2>3, <2>5 DEF Follows, PromiseStep
<1> QED BY <1>2, <1>3 DEF Open

LEMMA CreateFollows == ASSUME Kept, Sound', Homed, rc = "ok", Create PROVE Follows
<1>1. st \in StType /\ Img \in Devices
  BY DEF Kept, CopyOK, Devices
<1>2. CASE Unopened
  BY <1>1, <1>2, FailedFollows DEF Unopened, StType
<1>3. CASE /\ disk' = [disk EXCEPT ![Img] = Blank]
           /\ st' = Opened(Blank, Img)
           /\ rc' = "ok"
           /\ ghost' = [Named(Everything(Img)) EXCEPT !.behind = FALSE]
  <2>1. /\ st'.bd = Img /\ st'.rdb = Read(Blank) /\ st'.dirty = FALSE
        /\ st'.dryrun = st.dryrun
    BY <1>1, <1>3 DEF Opened, StType
  <2>2. disk'[Img] = Blank /\ \A e \in Devices \ {Img} : disk'[e] = disk[e]
    BY <1>1, <1>3, OthersSame
  <2>3. MediaOK(Blank, ghost.older)
    <3>1. NoMbr \in {NoMbr} \cup SUBSET Slots /\ Cyls \in SUBSET Cyls
      OBVIOUS
    <3> QED BY <3>1, EmptyOK DEF Blank
  <2>4. ghost'.behind = FALSE
    BY <1>1, <1>3, NamedOK, NameSets DEF Kept, GhostType
  <2>5. Homed'
    BY <2>1, <2>2, <2>3, HomedRead
  <2>6. Plain(st'.rdb) = SeenTable(OnDisk(disk'[Img]))
    BY <2>1, <2>2, <2>3, ReadSeen
  <2>7. Store!Load(Img)
    BY <1>1, <1>3, <2>1, <2>2, <2>4, <2>6, MakeLoad
  <2> QED BY <1>1, <2>1, <2>5, <2>7 DEF Follows, PromiseStep
<1> QED BY <1>2, <1>3 DEF Create

LEMMA InitNewFollows ==
    ASSUME Kept, Sound', Homed, rc = "ok", NEW withMbr \in BOOLEAN, InitNew(withMbr)
    PROVE  Follows
<1> DEFINE d == st.bd
<1>1. st \in StType /\ disk \in [Devices -> Media]
  BY DEF Kept, CopyOK, DisksOK
<1>2. CASE Returns("error")
  BY <1>2, ReturnsFollows
<1>3. CASE ~Returns("error")
  <2>1. HasDevice /\ d \in Devices /\ MediaOK(disk[d], ghost.older)
    BY <1>3, KeptFacts DEF InitNew
  <2>2. CASE rc' # "ok"
    <3>1. st'.dryrun = st.dryrun
      BY <1>1, <1>3, <2>1, <2>2 DEF InitNew, StType
    <3> QED BY <2>2, <3>1, FailedFollows
  <2>3. CASE rc' = "ok"
    <3>1. /\ st' = [st EXCEPT !.rdb = Fresh(IF withMbr THEN 1 ELSE 0), !.dirty = TRUE,
                              !.mbr = IF ~withMbr THEN NoMbr ELSE IF st.dryrun THEN @ ELSE {}]
          /\ disk' = IF withMbr /\ ~st.dryrun
                     THEN [disk EXCEPT ![d].mbr = {}, ![d].t[0] = NoTable] ELSE disk
          /\ ghost' = Named(Everything(d))
      BY <1>3, <2>1, <2>3 DEF InitNew
    <3>2. /\ st'.bd = d /\ st'.dirty = TRUE /\ st'.dryrun = st.dryrun
          /\ st'.rdb = Fresh(IF withMbr THEN 1 ELSE 0)
      BY <1>1, <3>1 DEF StType
    <3>3. ghost'.behind = ghost.behind
      BY <3>1 DEF Named, Kept, GhostType
    <3>4. \A e \in Devices \ {d} : OnDisk(disk'[e]) = OnDisk(disk[e])
      BY <1>1, <3>1
    <3>5. withMbr /\ ~st.dryrun => disk'[d].t[0] = NoTable
      <4> SUFFICES ASSUME withMbr, ~st.dryrun PROVE disk'[d].t[0] = NoTable
        OBVIOUS
      <4> DEFINE dk == [disk[d] EXCEPT !.mbr = {}, !.t[0] = NoTable]
      <4>1. disk' = [disk EXCEPT ![d] = dk]
        BY <1>1, <2>1, <3>1
      <4>2. disk[d].t \in [0 .. 1 -> Tables] /\ disk[d] \in Media
        BY <2>1, MediaFields DEF MediaOK
      <4>3. dk.t[0] = NoTable
        BY <4>2 DEF Media
      <4> HIDE DEF dk
      <4> QED BY <2>1, <4>1, <4>3, OthersSame
    <3>6. Homed'
      <4>1. st'.rdb.home = 1 => withMbr
        BY <3>2, FreshGood
      <4> QED BY <3>2, <3>5, <4>1 DEF Homed
    <3>7. Store!Edit
      BY <2>1, <2>3, <3>2, <3>3, <3>4, MakeEdit
    <3> QED BY <3>2, <3>6, <3>7 DEF Follows, PromiseStep
  <2> QED BY <2>2, <2>3
<1> QED BY <1>2, <1>3

\* An edit of the table in memory that leaves its header's place.
LEMMA EditFollows ==
    ASSUME Kept, Sound', Homed, rc = "ok", rc' = "ok", HasTable, NEW t,
           t.home = st.rdb.home,
           st'.bd = st.bd, st'.rdb = t, st'.dirty = TRUE, st'.dryrun = st.dryrun,
           ghost'.behind = ghost.behind, disk' = disk
    PROVE  Follows
<1>1. Homed'
  BY HomedStays DEF HasTable
<1>2. Store!Edit
  BY MakeEdit DEF HasTable
<1> QED BY <1>1, <1>2 DEF Follows, PromiseStep

LEMMA NewGeoFollows == ASSUME Kept, Sound', Homed, rc = "ok", NewGeo PROVE Follows
<1>1. CASE ~HasTable
  BY <1>1, ReturnsFollows DEF NewGeo
<1>2. CASE HasTable /\ TopCyl <= st.rdb.top
  <2>1. /\ st' = st /\ disk' = disk /\ ghost' = ghost /\ rc' = rc
    BY <1>2 DEF NewGeo
  <2>2. UNCHANGED Store!vars
    BY <2>1, MakeStutter
  <2>3. Homed'
    BY <2>1, HomedStays
  <2> QED BY <2>1, <2>2, <2>3 DEF Follows
<1>3. CASE HasTable /\ ~(TopCyl <= st.rdb.top)
  <2>1. st.rdb \in Records /\ st \in StType
    BY <1>3, KeptFacts DEF HasTable, Kept, CopyOK
  <2> DEFINE u == [st.rdb EXCEPT !.top = TopCyl]
  <2>2. st' = [st EXCEPT !.rdb = u, !.dirty = TRUE] /\ rc' = "ok" /\ UNCHANGED <<disk, ghost>>
    BY <1>3, <2>1 DEF NewGeo, StType
  <2>3. u.home = st.rdb.home
    BY <2>1 DEF Records
  <2> HIDE DEF u
  <2>4. st'.rdb = u /\ st'.bd = st.bd /\ st'.dirty = TRUE /\ st'.dryrun = st.dryrun
    BY <2>1, <2>2 DEF StType
  <2> QED BY <1>3, <2>2, <2>3, <2>4, EditFollows
<1> QED BY <1>1, <1>2, <1>3

LEMMA AddPartFollows == ASSUME Kept, Sound', Homed, rc = "ok", AddPart PROVE Follows
<1> DEFINE t == st.rdb
<1>1. PICK name \in Names, lo \in 1 .. TopCyl, hi \in 1 .. TopCyl, want \in BOOLEAN :
        LET end == Clamped(t, lo, hi)
            p == [name |-> name, lo |-> lo, hi |-> end, want |-> want]
        IN  /\ lo <= hi
            /\ \/ Returns("error")
               \/ /\ HasTable
                  /\ st' = [st EXCEPT !.rdb.parts = Append(@, p), !.dirty = TRUE]
                  /\ ghost' = Named({<<st.bd, name>>})
                  /\ rc' = "ok"
                  /\ UNCHANGED <<disk, dos, file>>
  BY DEF AddPart
<1>2. CASE Returns("error")
  BY <1>2, ReturnsFollows
<1>3. CASE ~Returns("error")
  <2> DEFINE end == Clamped(t, lo, hi)
             p == [name |-> name, lo |-> lo, hi |-> end, want |-> want]
             u == [t EXCEPT !.parts = Append(t.parts, p)]
  <2>1. /\ lo <= hi /\ HasTable
        /\ st' = [st EXCEPT !.rdb.parts = Append(@, p), !.dirty = TRUE]
        /\ ghost' = Named({<<st.bd, name>>})
        /\ rc' = "ok"
        /\ UNCHANGED <<disk, dos, file>>
    BY <1>1, <1>3
  <2>2. t \in Records /\ st \in StType /\ ghost \in GhostType
    BY <2>1, KeptFacts DEF HasTable, Kept, CopyOK
  <2> HIDE DEF end
  <2>3. st' = [st EXCEPT !.rdb = u, !.dirty = TRUE]
    BY <2>1, <2>2 DEF StType, Records
  <2>4. u.home = t.home
    BY <2>2 DEF Records
  <2> HIDE DEF u, p
  <2>5. st'.rdb = u /\ st'.bd = st.bd /\ st'.dirty = TRUE /\ st'.dryrun = st.dryrun
    BY <2>2, <2>3 DEF StType
  <2>6. ghost'.behind = ghost.behind
    BY <2>1, <2>2 DEF Named, GhostType
  <2> QED BY <2>1, <2>4, <2>5, <2>6, EditFollows
<1> QED BY <1>2, <1>3

LEMMA DelPartFollows == ASSUME Kept, Sound', Homed, rc = "ok", DelPart PROVE Follows
<1> DEFINE t == st.rdb
<1>1. PICK name \in Names :
        IF ~HasTable \/ Find(t, name) = 0 THEN Returns("error")
        ELSE /\ st' = [st EXCEPT !.rdb.parts = RemoveAt(@, Find(t, name)), !.dirty = TRUE,
                                 !.unmount = @ \cup {name}]
             /\ ghost' = Named({<<st.bd, name>>})
             /\ rc' = "ok"
             /\ UNCHANGED <<disk, dos, file>>
  BY DEF DelPart
<1>2. CASE ~HasTable \/ Find(t, name) = 0
  BY <1>1, <1>2, ReturnsFollows
<1>3. CASE HasTable /\ Find(t, name) # 0
  <2> DEFINE u == [t EXCEPT !.parts = RemoveAt(t.parts, Find(t, name))]
  <2>1. t \in Records /\ st \in StType /\ ghost \in GhostType
    BY <1>3, KeptFacts DEF HasTable, Kept, CopyOK
  <2>2. st' = [st EXCEPT !.rdb = u, !.dirty = TRUE, !.unmount = st.unmount \cup {name}]
    BY <1>1, <1>3, <2>1 DEF StType, Records
  <2>3. u.home = t.home
    BY <2>1 DEF Records
  <2> HIDE DEF u
  <2>4. st'.rdb = u /\ st'.bd = st.bd /\ st'.dirty = TRUE /\ st'.dryrun = st.dryrun
    BY <2>1, <2>2 DEF StType
  <2>5. ghost'.behind = ghost.behind
    BY <1>1, <1>3, <2>1 DEF Named, GhostType
  <2> QED BY <1>1, <1>3, <2>3, <2>4, <2>5, EditFollows
<1> QED BY <1>2, <1>3

LEMMA AddFsFollows == ASSUME Kept, Sound', Homed, rc = "ok", AddFs PROVE Follows
<1> DEFINE t == st.rdb
           u == [t EXCEPT !.drivers = t.drivers + 1]
<1>1. CASE ~HasTable \/ t.drivers >= MaxDrivers
  BY <1>1, ReturnsFollows DEF AddFs
<1>2. CASE HasTable /\ ~(t.drivers >= MaxDrivers)
  <2>1. t \in Records /\ st \in StType
    BY <1>2, KeptFacts DEF HasTable, Kept, CopyOK
  <2>2. st' = [st EXCEPT !.rdb = u, !.dirty = TRUE]
    BY <1>2, <2>1 DEF AddFs, StType, Records
  <2>3. u.home = t.home
    BY <2>1 DEF Records
  <2> HIDE DEF u
  <2>4. st'.rdb = u /\ st'.bd = st.bd /\ st'.dirty = TRUE /\ st'.dryrun = st.dryrun
    BY <2>1, <2>2 DEF StType
  <2>5. rc' = "ok" /\ disk' = disk /\ ghost' = ghost
    BY <1>2 DEF AddFs
  <2> QED BY <1>2, <2>3, <2>4, <2>5, EditFollows
<1> QED BY <1>1, <1>2

\* The commands that look, and a backup, change nothing the promise speaks of.
LEMMA AnswersFollow ==
    ASSUME Homed, rc = "ok",
           \/ CheckRdb \/ VerifyRdb \/ VerifyExt \/ ShrinkInfo \/ PartOut
           \/ ImageOut \/ MountList \/ Info
    PROVE  Follows
<1>1. \E r : Returns(r)
  BY DEF Answer, CheckRdb, VerifyRdb, VerifyExt, ShrinkInfo, PartOut, ImageOut, MountList, Info
<1> QED BY <1>1, ReturnsFollows

LEMMA SameFollows ==
    ASSUME Homed, rc = "ok", st' = st, disk' = disk, ghost' = ghost, rc' = "ok"
    PROVE  Follows
<1>1. UNCHANGED Store!vars
  BY MakeStutter
<1>2. Homed'
  BY HomedStays
<1> QED BY <1>1, <1>2 DEF Follows

LEMMA BackupFollows ==
    ASSUME Homed, rc = "ok", NEW ext \in BOOLEAN, Backup(ext) PROVE Follows
<1>1. CASE \E r : Returns(r)
  BY <1>1, ReturnsFollows
<1>2. CASE ~ \E r : Returns(r)
  BY <1>2, SameFollows DEF Backup
<1> QED BY <1>1, <1>2

LEMMA RestoreFollows ==
    ASSUME Kept, Sound', Homed, rc = "ok", NEW ext \in BOOLEAN, Restore(ext) PROVE Follows
<1> DEFINE d == st.bd
<1>1. CASE \E r : Returns(r)
  BY <1>1, ReturnsFollows
<1>2. CASE ~ \E r : Returns(r)
  <2> DEFINE dk == IF ext THEN AllBack(disk[d]) ELSE HeaderBack(disk[d])
  <2>1. /\ HasDevice
        /\ \/ rc' = "ok" /\ disk' = [disk EXCEPT ![d] = dk] /\ st' = Reloaded(dk)
           \/ rc' = "error" /\ st' = st
        /\ ghost' = [Named(Everything(d)) EXCEPT !.behind = FALSE,
                                                 !.older = @ \/ ~ext \/ rc' # "ok"]
    BY <1>2 DEF Restore
  <2>2. CASE rc' = "error" /\ st' = st
    BY <2>2, FailedFollows
  <2> HIDE DEF dk
  <2>3. CASE rc' = "ok" /\ disk' = [disk EXCEPT ![d] = dk] /\ st' = Reloaded(dk)
    <3>1. d \in Devices /\ st \in StType
      BY <2>1, KeptFacts DEF Kept, CopyOK
    <3>2. disk'[d] = dk /\ \A e \in Devices \ {d} : disk'[e] = disk[e]
      BY <2>3, <3>1, OthersSame
    <3>3. st'.bd = d /\ st'.rdb = Read(dk) /\ st'.dirty = FALSE /\ st'.dryrun = st.dryrun
      BY <2>3, <3>1 DEF Reloaded, Opened, StType
    <3>4. MediaOK(dk, ghost'.older)
      BY <2>3, <3>1, <3>2 DEF Sound, Kept, TornKept, DisksOK
    <3>5. Homed'
      BY <3>2, <3>3, <3>4, HomedRead
    <3>6. Plain(st'.rdb) = SeenTable(OnDisk(disk'[d]))
      BY <3>2, <3>3, <3>4, ReadSeen
    <3>7. ghost'.behind = FALSE
      BY <2>1, <3>1, NamedOK, NameSets DEF Kept, GhostType
    <3>8. Store!Sync
      BY <2>1, <2>3, <3>2, <3>3, <3>6, <3>7, MakeSync
    <3> QED BY <3>3, <3>5, <3>8 DEF Follows, PromiseStep
  <2> QED BY <2>1, <2>2, <2>3
<1> QED BY <1>1, <1>2

\* The table goes to the open device, and the memory keeps it.
LEMMA SavedFollows ==
    ASSUME Kept, Sound', Homed, rc = "ok", rc' = "ok", HasTable, ~st.dryrun,
           NEW dk, MediaOK(dk, ghost.older), dk.t = disk[st.bd].t,
           NEW t \in Records, Good(t, ghost.older), t.home = st.rdb.home,
           NEW w, w.t = After(dk, t).t, disk' = [disk EXCEPT ![st.bd] = w],
           Plain(st'.rdb) = Plain(t), st'.rdb.home = t.home,
           st'.bd = st.bd, st'.dirty \in {FALSE, st.dirty}, st'.dryrun = st.dryrun,
           ghost'.behind \in {FALSE, ghost.behind}
    PROVE  Follows
<1> DEFINE d == st.bd
<1>1. d \in Devices /\ HasDevice
  BY KeptFacts DEF HasTable
<1>2. disk'[d] = w /\ \A e \in Devices \ {d} : disk'[e] = disk[e]
  BY <1>1, OthersSame
<1>3. t.home = 1 => dk.t[0] = NoTable
  BY DEF Homed
<1>4. /\ SeenTable(OnDisk(After(dk, t))) = Plain(t)
      /\ t.home = 1 => After(dk, t).t[0] = NoTable
  BY <1>3, AfterSeen
<1>5. OnDisk(w) = OnDisk(After(dk, t))
  BY DEF OnDisk
<1>6. Homed'
  BY <1>2, <1>4 DEF Homed
<1>7. Store!Sync
  BY <1>1, <1>2, <1>4, <1>5, MakeSync
<1> QED BY <1>6, <1>7 DEF Follows, PromiseStep

LEMMA ResizeFollows ==
    ASSUME Kept, Sound', Homed, rc = "ok", HasTable, ~st.dryrun,
           NEW i \in DOMAIN st.rdb.parts, NEW hi \in 1 .. TopCyl,
           NEW noUnmount \in BOOLEAN, Resize(i, hi, noUnmount),
           Good(With(st.rdb, i, hi), ghost.older)
    PROVE  Follows
<1> DEFINE o == ghost.older
           d == st.bd
           p == st.rdb.parts[i]
           new == With(st.rdb, i, hi)
           cyls == Span(p) \cup Span(new.parts[i])
           after == Wrote(disk[d], cyls)
<1>1. /\ d \in Devices /\ MediaOK(disk[d], o) /\ st.rdb \in Records /\ st \in StType
      /\ ghost \in GhostType /\ disk[d] \in Media
  BY KeptFacts DEF HasTable, Kept, CopyOK, MediaOK
<1>2. new \in Records /\ DOMAIN new.parts = DOMAIN st.rdb.parts /\ new.home = st.rdb.home
  BY <1>1, WithParts
<1>3. cyls \in SUBSET Cyls
  <2>1. Span(st.rdb.parts[i]) \subseteq Cyls
    BY <1>1, Extents
  <2>2. Span(new.parts[i]) \subseteq Cyls
    BY <1>2, Extents
  <2> QED BY <2>1, <2>2
<1>4. MediaOK(after, o) /\ after.t = disk[d].t
  BY <1>1, <1>3, WroteOK, WroteSame
<1>5. \/ rc' = "error" /\ st' = st
      \/ \E w \in Writes(after, new) :
              /\ \E u, b : /\ ghost' = Noted([[Named({<<d, p.name>>}) EXCEPT !.under = @ \/ u]
                                                 EXCEPT !.behind = @ /\ b], d, w)
                           /\ b = (w.rc # "ok")
              /\ disk' = [disk EXCEPT ![d] = w.disk]
              /\ rc' = w.rc
              /\ st' = IF w.rc = "ok" THEN Saved(st, new) ELSE [st EXCEPT !.rdb = new]
  BY Zenon DEF Resize
<1>6. CASE rc' = "error" /\ st' = st
  BY <1>6, FailedFollows
<1> HIDE DEF after, new, p
<1>7. ASSUME NEW w \in Writes(after, new), disk' = [disk EXCEPT ![d] = w.disk], rc' = w.rc,
             st' = IF w.rc = "ok" THEN Saved(st, new) ELSE [st EXCEPT !.rdb = new],
             NEW u, ghost' = Noted([[Named({<<d, p.name>>}) EXCEPT !.under = @ \/ u]
                                       EXCEPT !.behind = @ /\ (w.rc # "ok")], d, w)
      PROVE  Follows
  <2>1. st'.dryrun = st.dryrun
    BY <1>1, <1>7 DEF Saved, StType
  <2>2. CASE rc' # "ok"
    BY <2>1, <2>2, FailedFollows
  <2>3. CASE rc' = "ok"
    <3>1. st' = Saved(st, new) /\ w.rc = "ok"
      BY <1>7, <2>3
    <3>2. st'.rdb = new /\ st'.bd = st.bd /\ st'.dirty = FALSE
      BY <1>1, <3>1 DEF Saved, StType
    <3>3. Good(new, o)
      BY DEF new
    <3>4. w.disk = After(after, new)
      BY <1>2, <1>4, <1>7, <3>1, <3>3, WritesOK
    <3>5. ghost'.behind = FALSE
      BY <1>1, <1>7, <2>3 DEF Named, GhostType, Noted
    <3>6. w.disk.t = After(after, new).t /\ Plain(st'.rdb) = Plain(new) /\ st'.rdb.home = new.home
      BY <3>2, <3>4
    <3> QED BY <1>2, <1>4, <1>7, <2>1, <2>3, <3>2, <3>3, <3>5, <3>6, SavedFollows
  <2> QED BY <2>2, <2>3
<1> QED BY <1>5, <1>6, <1>7

LEMMA ResizeCommandFollows ==
    ASSUME Kept, Sound', Homed, rc = "ok", NEW larger \in BOOLEAN, ResizeCommand(larger)
    PROVE  Follows
<1> DEFINE t == st.rdb
<1>1. PICK name \in Names, hi \in 1 .. TopCyl, noUnmount \in BOOLEAN :
        LET i == Find(t, name)
            p == t.parts[i]
        IN  IF ~HasTable \/ i = 0 THEN Returns("error")
            ELSE IF larger /\ Gap(t, p) <= p.hi THEN Returns("error")
            ELSE IF ~larger /\ p.lo = p.hi THEN Returns("ok")
            ELSE /\ IF larger THEN hi > p.hi /\ hi <= Gap(t, p) ELSE hi < p.hi /\ hi >= p.lo
                 /\ IF st.dryrun THEN Returns("ok")
                    ELSE \/ Resize(i, hi, noUnmount)
                         \/ FALSE \in Answers /\ Returns("error")
  BY DEF ResizeCommand
<1>2. CASE Returns("error") \/ Returns("ok")
  BY <1>2, ReturnsFollows
<1>3. CASE ~Returns("error") /\ ~Returns("ok")
  <2> DEFINE i == Find(t, name)
             p == t.parts[i]
  <2>1. /\ HasTable /\ i # 0 /\ Resize(i, hi, noUnmount) /\ ~st.dryrun
        /\ IF larger THEN hi > p.hi /\ hi <= Gap(t, p) ELSE hi < p.hi /\ hi >= p.lo
    BY <1>1, <1>3
  <2>2. t \in Records /\ Good(t, ghost.older) /\ t \in Tables
    BY <2>1, KeptFacts DEF HasTable
  <2>3. i \in DOMAIN t.parts
    BY <2>1, <2>2, Found
  <2> HIDE DEF i
  <2>4. /\ p.lo \in Nat /\ p.hi \in Nat /\ p.lo <= p.hi /\ hi \in Nat
        /\ hi >= p.lo /\ (hi <= p.hi \/ hi <= Gap(t, p))
    <3>1. t # NoTable
      BY <2>1 DEF HasTable
    <3>2. p.lo \in Nat /\ p.hi \in Nat /\ p.lo <= p.hi
      BY <2>2, <2>3, <3>1, Extents DEF Good, Disjoint
    <3>3. hi \in Nat
      BY SessionAssumption
    <3> QED BY <2>1, <3>2, <3>3
  <2>5. Good(With(t, i, hi), ghost.older)
    BY <2>2, <2>3, <2>4, ResizedGood
  <2> QED BY <2>1, <2>3, <2>5, ResizeFollows
<1> QED BY <1>2, <1>3

\* A copy into a partition of the table in memory.
LEMMA OwnCopyFollows ==
    ASSUME Kept, Sound', Homed, rc = "ok", HasTable, ~st.dryrun, NEW i \in DOMAIN st.rdb.parts,
           CopyInto(st.bd, st.rdb, i, TRUE)
    PROVE  Follows
<1> DEFINE o == ghost.older
           d == st.bd
           p == st.rdb.parts[i]
           after == Wrote(disk[d], Span(p))
<1>1. /\ d \in Devices /\ MediaOK(disk[d], o) /\ disk[d] \in Media /\ st.rdb \in Records
      /\ Good(st.rdb, o) /\ st.rdb # NoTable /\ st \in StType /\ ghost \in GhostType
  BY KeptFacts DEF HasTable, Kept, CopyOK, MediaOK
<1>2. /\ p.lo \in 1 .. TopCyl /\ p.hi \in 1 .. TopCyl /\ p.lo \in Nat /\ p.hi \in Nat
      /\ Span(p) \in SUBSET Cyls
  BY <1>1, Extents
<1>3. p.lo <= p.hi
  BY <1>1 DEF Good, Disjoint
<1>4. MediaOK(after, o) /\ after.t = disk[d].t
  BY <1>1, <1>2, WroteOK, WroteSame
<1>5. \/ rc' = "error" /\ st' = st
      \/ \E hi \in {p.hi, p.lo} : \E w \in Writes(after, With(st.rdb, i, hi)) :
              /\ disk' = [disk EXCEPT ![d] = w.disk]
              /\ rc' = w.rc
              /\ ghost' = Noted([Named({<<d, p.name>>}) EXCEPT
                                       !.behind = @ \/ (~TRUE /\ d = st.bd)], d, w)
              /\ st' = IF w.rc = "ok" THEN Saved(st, With(st.rdb, i, hi))
                       ELSE [st EXCEPT !.rdb = With(st.rdb, i, hi)]
  BY DEF CopyInto
<1>7. CASE rc' = "error" /\ st' = st
  BY <1>7, FailedFollows
<1> HIDE DEF after
<1>8. ASSUME NEW hi \in {p.hi, p.lo}, NEW w \in Writes(after, With(st.rdb, i, hi)),
             disk' = [disk EXCEPT ![d] = w.disk], rc' = w.rc,
             ghost' = Noted([Named({<<d, p.name>>}) EXCEPT
                                  !.behind = @ \/ (~TRUE /\ d = st.bd)], d, w),
             st' = IF w.rc = "ok" THEN Saved(st, With(st.rdb, i, hi))
                   ELSE [st EXCEPT !.rdb = With(st.rdb, i, hi)]
      PROVE  Follows
  <2>0. ghost'.behind = ghost.behind
    BY <1>1, <1>8 DEF Named, GhostType, Noted
  <2> DEFINE new == With(st.rdb, i, hi)
  <2>1. hi \in 1 .. TopCyl /\ p.lo <= hi /\ hi <= p.hi
    BY <1>2, <1>3
  <2>2. Good(new, o) /\ new \in Records /\ new.home = st.rdb.home
    BY <1>1, <2>1, ResizedGood, WithParts
  <2>3. w.rc = "ok" => w.disk = After(after, new)
    BY <1>4, <2>2, WritesOK
  <2> HIDE DEF new
  <2>4. st' = (IF w.rc = "ok" THEN Saved(st, new) ELSE [st EXCEPT !.rdb = new])
    BY <1>8 DEF new
  <2>5. st'.dryrun = st.dryrun
    BY <1>1, <2>4 DEF Saved, StType
  <2>6. CASE rc' # "ok"
    BY <2>5, <2>6, FailedFollows
  <2>7. CASE rc' = "ok"
    <3>1. st'.rdb = new /\ st'.bd = st.bd /\ st'.dirty = FALSE
      BY <1>1, <1>8, <2>4, <2>7 DEF Saved, StType
    <3>2. w.disk.t = After(after, new).t /\ Plain(st'.rdb) = Plain(new) /\ st'.rdb.home = new.home
      BY <1>8, <2>3, <2>7, <3>1
    <3> QED BY <1>4, <1>8, <2>0, <2>2, <2>5, <2>7, <3>1, <3>2, SavedFollows
  <2> QED BY <2>6, <2>7
<1> QED BY <1>5, <1>7, <1>8

\* A copy into a partition of a second copy of the hard disk's table.
LEMMA CrossCopyFollows ==
    ASSUME Kept, Sound', Homed, rc = "ok", HasTable, ~st.dryrun, NEW t \in Records,
           Good(t, ghost.older), Read(disk[HD]) # NoTable, t.home = Read(disk[HD]).home, NEW i \in DOMAIN t.parts, CopyInto(HD, t, i, FALSE)
    PROVE  Follows
<1> DEFINE o == ghost.older
           p == t.parts[i]
           after == Wrote(disk[HD], Span(p))
<1>1. /\ HD \in Devices /\ st.bd \in Devices /\ HasDevice /\ disk[HD] \in Media
      /\ MediaOK(disk[HD], o) /\ st \in StType /\ ghost \in GhostType
  BY KeptFacts DEF Devices, HasTable, Kept, CopyOK, MediaOK
<1>2. Good(t, o) /\ t # NoTable
  BY SessionAssumption
<1>3. /\ p.lo \in 1 .. TopCyl /\ p.hi \in 1 .. TopCyl /\ p.lo \in Nat /\ p.hi \in Nat
      /\ Span(p) \in SUBSET Cyls
  BY Extents
<1>4. p.lo <= p.hi
  BY <1>2 DEF Good, Disjoint
<1>5. MediaOK(after, o) /\ after.t = disk[HD].t
  BY <1>1, <1>3, WroteOK, WroteSame
<1>6. /\ st' = st
      /\ \/ rc' = "error"
         \/ \E hi \in {p.hi, p.lo} : \E w \in Writes(after, With(t, i, hi)) :
              /\ disk' = [disk EXCEPT ![HD] = w.disk] /\ rc' = w.rc
              /\ ghost' = Noted([Named({<<HD, p.name>>}) EXCEPT
                                       !.behind = @ \/ (~FALSE /\ HD = st.bd)], HD, w)
  BY DEF CopyInto
<1>8. CASE rc' # "ok"
  BY <1>6, <1>8, FailedFollows
<1> HIDE DEF after
<1>9. ASSUME rc' = "ok", NEW hi \in {p.hi, p.lo}, NEW w \in Writes(after, With(t, i, hi)),
             disk' = [disk EXCEPT ![HD] = w.disk], rc' = w.rc,
             ghost' = Noted([Named({<<HD, p.name>>}) EXCEPT
                                  !.behind = @ \/ (~FALSE /\ HD = st.bd)], HD, w)
      PROVE  Follows
  <2>0. ghost'.behind = (ghost.behind \/ HD = st.bd)
    BY <1>1, <1>9 DEF Named, GhostType, Noted
  <2> DEFINE new == With(t, i, hi)
  <2>1. hi \in 1 .. TopCyl /\ p.lo <= hi /\ hi <= p.hi
    BY <1>3, <1>4
  <2>2. Good(new, o) /\ new \in Records /\ new.home = t.home
    BY <1>2, <2>1, ResizedGood, WithParts
  <2>3. w.disk = After(after, new)
    BY <1>5, <1>9, <2>2, WritesOK
  <2> HIDE DEF new
  <2>4. disk'[HD] = w.disk /\ \A e \in Devices \ {HD} : disk'[e] = disk[e]
    BY <1>1, <1>9, OthersSame
  <2>5. CASE st.bd = HD
    <3>1. ASSUME st.rdb.home = 1 PROVE disk'[HD].t[0] = NoTable
      <4>1. disk[HD].t[0] = NoTable
        BY <2>5, <3>1 DEF Homed
      <4>2. t.home = 1
        BY <1>1, <1>2, <4>1, HomeRead
      <4> QED BY <1>5, <2>2, <2>3, <2>4, <4>1, <4>2, AfterSeen
    <3>2. Homed'
      BY <1>6, <2>5, <3>1 DEF Homed
    <3>3. Store!Slip
      BY <1>1, <1>6, <1>9, <2>0, <2>5, MakeSlip
    <3> QED BY <1>6, <3>2, <3>3 DEF Follows, PromiseStep
  <2>6. CASE st.bd # HD
    <3>1. disk'[st.bd] = disk[st.bd]
      BY <1>1, <2>4, <2>6
    <3>2. Homed'
      BY <1>6, <3>1, HomedStays
    <3>3. ghost'.behind = ghost.behind
      BY <1>1, <2>0, <2>6 DEF GhostType
    <3>4. Store!Elsewhere
      BY <1>1, <1>6, <1>9, <3>1, <3>3, MakeElsewhere
    <3> QED BY <1>6, <3>2, <3>4 DEF Follows, PromiseStep
  <2> QED BY <2>5, <2>6
<1> QED BY <1>6, <1>8, <1>9

LEMMA PartCloneFollows == ASSUME Kept, Sound', Homed, rc = "ok", PartClone PROVE Follows
<1>1. PICK src \in Names, dst \in Names, cross \in BOOLEAN :
        LET t == IF cross THEN Read(disk[HD]) ELSE st.rdb
            i == Find(st.rdb, src)
            k == Find(t, dst)
        IN  IF ~HasTable \/ i = 0 THEN Returns("error")
            ELSE IF st.dryrun THEN Returns("ok")
            ELSE IF k = 0 \/ (~cross /\ i = k) THEN Returns("error")
            ELSE \E u \in IF cross THEN Carried(t) ELSE {t} :
                     CopyInto(IF cross THEN HD ELSE st.bd, u, k, ~cross)
  BY DEF PartClone
<1>2. CASE Returns("error") \/ Returns("ok")
  BY <1>2, ReturnsFollows
<1>3. CASE ~Returns("error") /\ ~Returns("ok") /\ cross
  <2> DEFINE t == Read(disk[HD])
  <2>0. (~cross) = FALSE
    BY <1>3
  <2>1. /\ HasTable /\ ~st.dryrun /\ Find(t, dst) # 0
        /\ \E u \in Carried(t) : CopyInto(HD, u, Find(t, dst), ~cross)
    BY <1>1, <1>3
  <2>2. t \in Tables /\ Good(t, ghost.older)
    BY KeptFacts, ReadGood DEF MediaOK, Placed, Devices
  <2> HIDE DEF t
  <2>3. t \in Records /\ Find(t, dst) \in DOMAIN t.parts
    BY <2>1, <2>2, Found
  <2>4. PICK u \in Carried(t) : CopyInto(HD, u, Find(t, dst), FALSE)
    BY <2>0, <2>1
  <2>5. /\ u \in Records /\ Good(u, ghost.older) /\ u.home = t.home
        /\ Find(t, dst) \in DOMAIN u.parts
    BY <2>2, <2>3, <2>4, CarriedGood
  <2>6. Read(disk[HD]) # NoTable /\ u.home = Read(disk[HD]).home
    BY <2>3, <2>5, SessionAssumption DEF t
  <2> QED BY <2>1, <2>4, <2>5, <2>6, CrossCopyFollows
<1>4. CASE ~Returns("error") /\ ~Returns("ok") /\ ~cross
  <2>0. (~cross) = TRUE
    BY <1>4
  <2>1. /\ HasTable /\ ~st.dryrun /\ Find(st.rdb, dst) # 0
        /\ CopyInto(st.bd, st.rdb, Find(st.rdb, dst), ~cross)
    BY <1>1, <1>4
  <2>2. Find(st.rdb, dst) \in DOMAIN st.rdb.parts
    BY <2>1, KeptFacts, Found
  <2>3. CopyInto(st.bd, st.rdb, Find(st.rdb, dst), TRUE)
    BY <2>0, <2>1
  <2> QED BY <2>1, <2>2, <2>3, OwnCopyFollows
<1> QED BY <1>2, <1>3, <1>4

LEMMA PartInFollows == ASSUME Kept, Sound', Homed, rc = "ok", PartIn PROVE Follows
<1>1. PICK name \in Names :
        IF ~HasTable \/ Find(st.rdb, name) = 0 THEN Returns("error")
        ELSE IF st.dryrun THEN Returns("ok")
        ELSE CopyInto(st.bd, st.rdb, Find(st.rdb, name), TRUE)
  BY DEF PartIn
<1>2. CASE Returns("error") \/ Returns("ok")
  BY <1>2, ReturnsFollows
<1>3. CASE ~Returns("error") /\ ~Returns("ok")
  <2>1. /\ HasTable /\ ~st.dryrun /\ Find(st.rdb, name) # 0
        /\ CopyInto(st.bd, st.rdb, Find(st.rdb, name), TRUE)
    BY <1>1, <1>3
  <2>2. Find(st.rdb, name) \in DOMAIN st.rdb.parts
    BY <2>1, KeptFacts, Found
  <2> QED BY <2>1, <2>2, OwnCopyFollows
<1> QED BY <1>2, <1>3

LEMMA ZeroPartFollows == ASSUME Kept, Sound', Homed, rc = "ok", ZeroPart PROVE Follows
<1> DEFINE d == st.bd
<1>1. CASE \E r : Returns(r)
  BY <1>1, ReturnsFollows
<1>2. CASE ~ \E r : Returns(r)
  <2>1. /\ HasTable /\ st' = st
        /\ \E c, x : disk' = [disk EXCEPT ![d] = Wrote(@, c)] /\ ghost' = Named({<<d, x>>})
    BY <1>2 DEF ZeroPart
  <2>2. PICK c, x : disk' = [disk EXCEPT ![d] = Wrote(@, c)] /\ ghost' = Named({<<d, x>>})
    BY <2>1
  <2>3. d \in Devices /\ disk \in [Devices -> Media] /\ disk[d] \in Media /\ ghost \in GhostType
    BY <2>1, KeptFacts DEF HasTable, Kept, DisksOK
  <2>4. disk' = [disk EXCEPT ![d] = Wrote(disk[d], c)]
    BY <2>2, <2>3
  <2>5. disk'[d] = Wrote(disk[d], c) /\ \A e \in Devices \ {d} : disk'[e] = disk[e]
    BY <2>3, <2>4, OthersSame
  <2>6. disk'[d].t = disk[d].t /\ OnDisk(disk'[d]) = OnDisk(disk[d])
    BY <2>3, <2>5, WroteSame
  <2>7. ghost'.behind = ghost.behind
    BY <2>2, <2>3 DEF Named, GhostType
  <2>8. CASE rc' # "ok"
    BY <2>1, <2>8, FailedFollows
  <2>9. CASE rc' = "ok"
    <3>1. UNCHANGED Store!vars
      BY <2>1, <2>5, <2>6, <2>7, <2>9, MakeStutter
    <3>2. Homed'
      BY <2>1, <2>6, HomedStays
    <3> QED BY <2>1, <3>1, <3>2 DEF Follows
  <2> QED BY <2>8, <2>9
<1> QED BY <1>1, <1>2

LEMMA ClearRdbFollows == ASSUME Kept, Sound', Homed, rc = "ok", ClearRdb PROVE Follows
<1> DEFINE d == st.bd
           ts == [h \in 0..1 |-> NoTable]
           dk == [disk[d] EXCEPT !.t = ts, !.mbr = NoMbr]
<1>1. CASE \E r : Returns(r)
  BY <1>1, ReturnsFollows
<1>2. CASE ~ \E r : Returns(r)
  <2>1. /\ HasDevice
        /\ ghost' = [Named(Everything(d)) EXCEPT !.behind = FALSE]
        /\ \/ /\ disk' = [disk EXCEPT ![d] = dk] /\ rc' = "ok"
              /\ st' = [st EXCEPT !.rdb = NoTable, !.mbr = NoMbr, !.dirty = FALSE]
           \/ st' = st /\ rc' = "error"
    BY <1>2 DEF ClearRdb
  <2>2. CASE st' = st /\ rc' = "error"
    BY <2>2, FailedFollows
  <2>3. CASE /\ disk' = [disk EXCEPT ![d] = dk] /\ rc' = "ok"
             /\ st' = [st EXCEPT !.rdb = NoTable, !.mbr = NoMbr, !.dirty = FALSE]
    <3>1. d \in Devices /\ disk[d] \in Media /\ ghost \in GhostType /\ st \in StType
      BY <2>1, KeptFacts DEF Kept, DisksOK, CopyOK
    <3>2. OnDisk(dk) = NoTable
      <4>1. ts[0] = NoTable /\ ts[1] = NoTable
        OBVIOUS
      <4> HIDE DEF ts
      <4>2. dk.t = ts
        BY <3>1 DEF Media
      <4> QED BY <4>1, <4>2 DEF OnDisk
    <3> HIDE DEF dk, ts
    <3>3. disk'[d] = dk /\ \A e \in Devices \ {d} : disk'[e] = disk[e]
      BY <2>3, <3>1, OthersSame
    <3>4. st'.rdb = NoTable /\ st'.bd = d /\ st'.dirty = FALSE /\ st'.dryrun = st.dryrun
      BY <2>3, <3>1 DEF StType
    <3>5. Homed'
      BY <3>4 DEF Homed, HasTable
    <3>6. ghost'.behind = FALSE
      BY <2>1, <3>1, NamedOK, NameSets DEF GhostType
    <3>7. Plain(st'.rdb) = SeenTable(OnDisk(disk'[d]))
      BY <3>2, <3>3, <3>4 DEF Plain, SeenTable
    <3>8. Store!Sync
      BY <2>1, <2>3, <3>3, <3>4, <3>6, <3>7, MakeSync
    <3> QED BY <3>4, <3>5, <3>8 DEF Follows, PromiseStep
  <2> QED BY <2>1, <2>2, <2>3
<1> QED BY <1>1, <1>2

LEMMA ImageInFollows == ASSUME Kept, Sound', Homed, rc = "ok", ImageIn PROVE Follows
<1> DEFINE d == st.bd
<1>1. CASE \E r : Returns(r)
  BY <1>1, ReturnsFollows
<1>2. CASE ~ \E r : Returns(r)
  <2>1. /\ HasDevice
        /\ ghost' = [Named(Everything(d)) EXCEPT !.behind = FALSE]
        /\ \E dk : /\ disk' = [disk EXCEPT ![d] = dk]
                   /\ \/ st' = [st EXCEPT !.rdb = Read(dk)] /\ rc' = "ok"
                      \/ st' = st /\ rc' = "error"
    BY <1>2 DEF ImageIn
  <2>2. PICK dk : /\ disk' = [disk EXCEPT ![d] = dk]
                  /\ \/ st' = [st EXCEPT !.rdb = Read(dk)] /\ rc' = "ok"
                     \/ st' = st /\ rc' = "error"
    BY <2>1
  <2>3. CASE st' = st /\ rc' = "error"
    BY <2>3, FailedFollows
  <2>4. CASE st' = [st EXCEPT !.rdb = Read(dk)] /\ rc' = "ok"
    <3>1. d \in Devices /\ ghost \in GhostType /\ st \in StType
      BY <2>1, KeptFacts DEF Kept, CopyOK
    <3>2. disk'[d] = dk /\ \A e \in Devices \ {d} : disk'[e] = disk[e]
      BY <2>2, <3>1, OthersSame
    <3>3. MediaOK(dk, ghost'.older)
      BY <2>4, <3>1, <3>2 DEF Sound, Kept, TornKept, DisksOK
    <3>4. /\ st'.rdb = Read(dk) /\ st'.bd = d /\ st'.dirty = st.dirty /\ st'.dryrun = st.dryrun
      BY <2>4, <3>1 DEF StType
    <3>5. Homed'
      BY <3>2, <3>3, <3>4, HomedRead
    <3>6. ghost'.behind = FALSE
      BY <2>1, <3>1, NamedOK, NameSets DEF GhostType
    <3>7. Plain(st'.rdb) = SeenTable(OnDisk(disk'[d]))
      BY <3>2, <3>3, <3>4, ReadSeen
    <3>8. Store!Sync
      BY <2>1, <2>4, <3>2, <3>4, <3>6, <3>7, MakeSync
    <3> QED BY <3>4, <3>5, <3>8 DEF Follows, PromiseStep
  <2> QED BY <2>2, <2>3, <2>4
<1> QED BY <1>1, <1>2

\* ADDMBR and DELMBR leave the tables.
LEMMA MbrFollows == ASSUME Kept, Sound', Homed, rc = "ok", AddMbr \/ DelMbr PROVE Follows
<1> DEFINE d == st.bd
<1>1. CASE \E r : Returns(r)
  BY <1>1, ReturnsFollows
<1>2. CASE ~ \E r : Returns(r)
  <2>1. /\ HasDevice /\ \E m : st' = [st EXCEPT !.mbr = m]
        /\ ghost' = ghost
        /\ (\E m : disk' = [disk EXCEPT ![d].mbr = m] /\ rc' = "ok") \/ rc' = "error"
    <3>1. CASE AddMbr
      BY <1>2, <3>1 DEF AddMbr, HasTable
    <3>2. CASE DelMbr
      BY <1>2, <3>2 DEF DelMbr
    <3> QED BY <3>1, <3>2
  <2>2. d \in Devices /\ disk \in [Devices -> Media] /\ disk[d] \in Media /\ st \in StType
    BY <2>1, KeptFacts DEF Kept, CopyOK, DisksOK
  <2>3. /\ st'.rdb = st.rdb /\ st'.bd = st.bd /\ st'.dirty = st.dirty /\ st'.dryrun = st.dryrun
    BY <2>1, <2>2 DEF StType
  <2>4. CASE rc' = "error"
    BY <2>3, <2>4, FailedFollows
  <2>5. ASSUME NEW m, disk' = [disk EXCEPT ![d].mbr = m], rc' = "ok" PROVE Follows
    <3>1. disk' = [disk EXCEPT ![d] = [disk[d] EXCEPT !.mbr = m]]
      BY <2>2, <2>5
    <3>2. [disk[d] EXCEPT !.mbr = m].t = disk[d].t
      BY <2>2 DEF Media
    <3>3. disk'[d].t = disk[d].t /\ \A e \in Devices \ {d} : disk'[e] = disk[e]
      BY <2>2, <3>1, <3>2, OthersSame
    <3>4. \A e \in Devices : OnDisk(disk'[e]) = OnDisk(disk[e])
      BY <3>3 DEF OnDisk
    <3>5. UNCHANGED Store!vars
      BY <2>1, <2>3, <2>5, <3>4, MakeStutter
    <3>6. Homed'
      BY <2>3, <3>3, HomedStays
    <3> QED BY <2>3, <3>5, <3>6 DEF Follows
  <2> QED BY <2>1, <2>4, <2>5
<1> QED BY <1>1, <1>2

\* What the session notes of its formats is not written.
LEMMA ForgottenPlain ==
    ASSUME NEW t \in Records, NEW older, Good(t, older)
    PROVE  Plain(Forgotten(t)) = Plain(t)
<1> DEFINE u == Forgotten(t)
<1>1. /\ u \in Records /\ Good(u, older) /\ u.parts = Unmarked(t) /\ u.home = t.home
      /\ u.top = t.top /\ u.drivers = t.drivers
  BY ForgottenGood
<1> HIDE DEF u
<1>2. Clean(u)
  <2>1. \A p \in PartsOf(u) : \E i \in DOMAIN t.parts : p = Unmarked(t)[i]
    BY <1>1, Extents, UnmarkedParts
  <2> QED BY <2>1, UnmarkedParts DEF Clean
<1>3. Unmarked(u) = Unmarked(t)
  BY <1>1, <1>2, PlainClean
<1>4. /\ Plain(u) \in Records /\ Plain(u).parts = Unmarked(u) /\ Plain(u).cut = FALSE
      /\ Plain(u).home = u.home /\ Plain(u).top = u.top /\ Plain(u).drivers = u.drivers
  BY <1>1, PlainGood
<1>5. /\ Plain(t) \in Records /\ Plain(t).parts = Unmarked(t) /\ Plain(t).cut = FALSE
      /\ Plain(t).home = t.home /\ Plain(t).top = t.top /\ Plain(t).drivers = t.drivers
  BY PlainGood
<1>6. \A a, b \in Records : /\ a.home = b.home /\ a.top = b.top /\ a.drivers = b.drivers
                            /\ a.parts = b.parts /\ a.cut = b.cut
                            => a = b
  BY DEF Records
<1>7. Plain(u) = Plain(t)
  BY <1>1, <1>3, <1>4, <1>5, <1>6
<1> QED BY <1>7 DEF u

LEMMA WriteFollows == ASSUME Kept, Sound', Homed, rc = "ok", Write PROVE Follows
<1> DEFINE d == st.bd
           t == st.rdb
<1>0. st \in StType /\ ghost \in GhostType
  BY DEF Kept, CopyOK
<1>1. CASE \E r : Returns(r)
  BY <1>1, ReturnsFollows
<1>2. CASE HasTable /\ st.dryrun
  <2>1. st' = [st EXCEPT !.dirty = FALSE] /\ rc' = "ok" /\ UNCHANGED <<disk, dos, file, ghost>>
    BY <1>2 DEF Write
  <2>2. st'.rdb = t /\ st'.bd = d /\ st'.dirty = FALSE /\ st'.dryrun = st.dryrun
    BY <1>0, <2>1 DEF StType
  <2>3. Store!Pretend
    BY <1>2, <2>1, <2>2, MakePretend
  <2>4. Homed'
    BY <2>1, <2>2, HomedStays
  <2> QED BY <2>2, <2>3, <2>4 DEF Follows, PromiseStep
<1>3. CASE HasTable /\ ~st.dryrun /\ ~ \E r : Returns(r)
  <2>1. d \in Devices /\ MediaOK(disk[d], ghost.older) /\ t \in Records /\ Good(t, ghost.older)
    BY <1>3, KeptFacts DEF HasTable
  <2>2. ASSUME NEW w \in Writes(disk[d], t), w.rc # "ok", rc' = w.rc, st' = st
        PROVE  Follows
    BY <2>2, FailedFollows
  <2>3. ASSUME NEW w \in Writes(disk[d], t), w.rc = "ok",
               disk' = [disk EXCEPT ![d] = Formatted(w.disk, t)],
               st' = [Saved(st, Forgotten(t)) EXCEPT !.unmount = {}], rc' = "ok",
               ghost' = [ghost EXCEPT !.behind = FALSE]
        PROVE  Follows
    <3>1. w.disk = After(disk[d], t) /\ w.disk \in Media
      BY <2>1, <2>3, WritesOK
    <3>2. Formatted(w.disk, t).t = After(disk[d], t).t
      BY <3>1, WroteSame DEF Formatted
    <3>3. /\ st'.rdb = Forgotten(t) /\ st'.bd = d /\ st'.dirty = FALSE
          /\ st'.dryrun = st.dryrun
      BY <1>0, <2>3 DEF Saved, StType
    <3>4. Plain(st'.rdb) = Plain(t) /\ st'.rdb.home = t.home
      BY <2>1, <3>3, ForgottenPlain, ForgottenGood
    <3>5. ghost'.behind = FALSE
      BY <1>0, <2>3 DEF GhostType
    <3> HIDE DEF t
    <3>6. t.home = st.rdb.home
      BY DEF t
    <3> QED BY <1>3, <2>1, <2>3, <3>2, <3>3, <3>4, <3>5, <3>6, SavedFollows
  <2> QED BY <1>3, <2>2, <2>3 DEF Write
<1>4. HasTable \/ \E r : Returns(r)
  BY DEF Write
<1> QED BY <1>1, <1>2, <1>3, <1>4

LEMMA CloseFollows == ASSUME Kept, Homed, rc = "ok", Close PROVE Follows
<1>1. CASE ~HasDevice
  BY <1>1, ReturnsFollows DEF Close
<1>2. CASE HasDevice
  <2>1. /\ st' = [st EXCEPT !.bd = NoDevice, !.rdb = NoTable, !.dirty = FALSE]
        /\ rc' = "ok" /\ UNCHANGED <<disk, dos, file, ghost>>
    BY <1>2 DEF Close
  <2>2. st'.bd = NoDevice /\ st'.dirty = FALSE /\ st'.dryrun = st.dryrun
    BY <2>1 DEF Kept, CopyOK, StType
  <2>3. Store!Drop
    BY <2>1, <2>2, MakeDrop
  <2>4. Homed'
    BY <2>2 DEF Homed, HasTable, HasDevice
  <2> QED BY <2>2, <2>3, <2>4 DEF Follows, PromiseStep
<1> QED BY <1>1, <1>2

LEMMA RebootFollows == ASSUME Homed, rc = "ok", Reboot PROVE Follows
BY ReturnsFollows DEF Reboot

LEMMA EndFollows == ASSUME Kept, End PROVE Follows
<1>1. st'.dryrun = st.dryrun
  BY DEF End, Kept, CopyOK, StType
<1> QED BY <1>1, FailedFollows DEF End

---------------------------------------------------------------------------
(* Every step *)

LEMMA NextFollows == ASSUME Kept, Sound', Homed, Next PROVE rc = "ok" /\ Follows
<1>1. rc = "ok"
  BY DEF Next, Command, End
<1>2. CASE \E withMbr \in BOOLEAN : InitNew(withMbr)
  BY <1>1, <1>2, InitNewFollows
<1>3. CASE \E ext \in BOOLEAN : Backup(ext) \/ Restore(ext)
  BY <1>1, <1>3, BackupFollows, RestoreFollows
<1>4. CASE Grow \/ Shrink
  BY <1>1, <1>4, ResizeCommandFollows DEF Grow, Shrink
<1> QED BY <1>1, <1>2, <1>3, <1>4, OpenFollows, CreateFollows, NewGeoFollows, AddPartFollows,
           DelPartFollows, AddFsFollows, AnswersFollow, PartCloneFollows, PartInFollows,
           ZeroPartFollows, ClearRdbFollows, ImageInFollows, MbrFollows, WriteFollows,
           CloseFollows, RebootFollows, EndFollows DEF Next

LEMMA StepKeepsThePromise ==
    ASSUME Sound, Sound', rc = "ok" => Homed, [Next]_vars
    PROVE  (rc' = "ok" => Homed') /\ [Store!Next]_(Store!vars)
<1>1. CASE UNCHANGED vars
  <2>1. st' = st /\ disk' = disk /\ ghost' = ghost /\ rc' = rc
    BY <1>1 DEF vars
  <2>2. UNCHANGED Store!vars
    BY <2>1, MakeStutter
  <2>3. rc' = "ok" => Homed'
    BY <2>1, HomedStays
  <2> QED BY <2>2, <2>3
<1>2. CASE Next
  <2>0. Kept
    BY <1>2, SoundNext
  <2>1. rc = "ok" /\ Follows
    <3>1. rc = "ok"
      BY <1>2 DEF Next, Command, End
    <3> QED BY <1>2, <2>0, <3>1, NextFollows
  <2>2. CASE rc' # "ok"
    <3>1. Store!Stop
      BY <2>0, <2>1, <2>2, MakeStop DEF Follows
    <3> QED BY <2>1, <2>2, <3>1 DEF Store!Next
  <2>3. CASE rc' = "ok"
    <3>1. Homed' /\ (PromiseStep \/ UNCHANGED Store!vars)
      BY <2>1, <2>3 DEF Follows
    <3> QED BY <2>1, <3>1 DEF PromiseStep, Store!Next
  <2> QED BY <2>2, <2>3
<1> QED BY <1>1, <1>2

LEMMA InitKeepsThePromise == Init => Homed /\ Store!Init
<1> SUFFICES ASSUME Init PROVE Homed /\ Store!Init
  OBVIOUS
<1>1. st \in Unopen
  BY DEF Init
<1>2. st.bd = NoDevice /\ st.rdb = NoTable /\ st.dirty = FALSE /\ st.dryrun \in BOOLEAN
  BY <1>1 DEF Unopen
<1>3. [d \in Devices |-> OnDisk(disk[d])] \in [Devices -> Tables]
  BY InitKept, StoreTypes DEF Typed, Sound
<1>4. rc = "ok" /\ ghost.behind = FALSE
  BY DEF Init
<1> QED BY <1>2, <1>3, <1>4 DEF Homed, HasTable, HasDevice, Store!Init

(***************************************************************************)
(* A session (script.c) implements TableStore: every command that changes  *)
(* the open disk's table leaves the copy in memory in step with it, or     *)
(* marks the copy as edited; a clone onto the open device by its own TODEV *)
(* is the one that does neither.                                            *)
(***************************************************************************)
THEOREM KeepsThePromise == Spec => StoreSpec
<1>1. Init => Sound /\ (rc = "ok" => Homed) /\ Store!Init
  BY InitKept, InitKeepsThePromise DEF Sound
<1>2. Sound /\ (rc = "ok" => Homed) /\ [Next]_vars
         => Sound' /\ (rc = "ok" => Homed)' /\ [Store!Next]_(Store!vars)
  BY NextSound, StepKeepsThePromise
<1> QED BY <1>1, <1>2, PTL DEF Spec, StoreSpec, Store!Spec

Promise == INSTANCE TableStore_proofs
    WITH Seen <- SeenTable,
         store <- [d \in Devices |-> OnDisk(disk[d])],
         open <- st.bd,
         copy <- IF HasDevice THEN Plain(st.rdb) ELSE NoTable,
         unsaved <- st.dirty,
         behind <- ghost.behind,
         preview <- st.dryrun,
         over <- rc # "ok"

(***************************************************************************)
(* So no script forgets an edit: while it runs and may write, a table with *)
(* no unsaved edits (`dirty', script.c) is what reading the open device    *)
(* gives, but for a clone that went past it.                                *)
(***************************************************************************)
THEOREM NoEditForgotten == Spec => []Store!Honest
<1>1. Store!Init => Store!Honest
  BY DEF Store!Init, Store!Honest
<1>2. Store!Next <=> Promise!Next
  BY Zenon DEF Store!Next, Promise!Next, Store!Load, Promise!Load, Store!Edit, Promise!Edit,
     Store!Sync, Promise!Sync, Store!Pretend, Promise!Pretend, Store!Slip, Promise!Slip,
     Store!Elsewhere, Promise!Elsewhere, Store!Drop, Promise!Drop, Store!Stop, Promise!Stop
<1>3. Store!Honest <=> Promise!Honest
  BY Zenon DEF Store!Honest, Promise!Honest, Store!InStep, Promise!InStep
<1>4. Store!Honest' <=> Promise!Honest'
  BY <1>3, PTL
<1>5. UNCHANGED Store!vars <=> UNCHANGED Promise!vars
  BY Zenon DEF Store!vars, Promise!vars
<1>6. Store!Honest /\ [Store!Next]_(Store!vars) => Store!Honest'
  BY <1>2, <1>3, <1>4, <1>5, Promise!HonestStep
<1> QED BY <1>1, <1>6, KeepsThePromise, PTL DEF StoreSpec, Store!Spec
=============================================================================
