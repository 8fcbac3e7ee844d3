---------------------------- MODULE Editor_proofs ----------------------------
(***************************************************************************)
(* Proofs about Editor, for any disk and MBR at the start, any images and  *)
(* backups, any limits and any number of events.                           *)
(*                                                                         *)
(* TypeCorrect: TypeOK.  OnlyWhatWasAgreed: Accepted.  FormatsWhatWasAsked: *)
(* FormatsAsked.  All three rest on Inv, which says in what state an event *)
(* finds the disk and the copy: both hold, once a drag in progress is      *)
(* taken back, only extents that were agreed to (Within), the disk asks    *)
(* for no format (DiskOK), and what the copy asks for is still owed, by a   *)
(* name no other entry has (Asked).                                         *)
(*                                                                         *)
(* KeepsThePromise: StoreSpec, the window implements TableStore: by Inv     *)
(* every event is a step of the promise or none.  NoEditForgotten: Honest  *)
(* of the promise, by NothingForgotten.                                     *)
(***************************************************************************)
EXTENDS Editor, FiniteSetTheorems, SequenceTheorems, WellFoundedInduction, TLAPS

---------------------------------------------------------------------------
(* Numbers *)

\* A set of integers with a lower bound has a least one.
LEMMA LeastOf ==
    ASSUME NEW S \in SUBSET Int, S # {}, NEW b \in Int, \A x \in S : b <= x
    PROVE  Min(S) \in S /\ \A x \in S : Min(S) <= x
<1> DEFINE N == {x - b : x \in S}
<1>1. N \in SUBSET Nat /\ N # {}
  OBVIOUS
<1>2. PICK m \in N : \A y \in N : ~(<<y, m>> \in OpToRel(<, Nat))
  BY <1>1, NatLessThanWellFounded, WFMin, Zenon
<1>3. ASSUME NEW y \in N PROVE m <= y
  <2>1. ~(y < m)
    BY <1>1, <1>2 DEF OpToRel
  <2> QED BY <1>1, <2>1
<1>4. PICK x \in S : m = x - b
  BY <1>2
<1>5. ASSUME NEW y \in S PROVE x <= y
  <2>1. m <= y - b
    BY <1>3
  <2> QED BY <1>4, <2>1
<1>6. Min(S) \in S /\ \A y \in S : Min(S) <= y
  BY <1>5, Zenon DEF Min
<1> QED BY <1>6

\* With an upper bound, a greatest one.
LEMMA GreatestOf ==
    ASSUME NEW S \in SUBSET Int, S # {}, NEW b \in Int, \A x \in S : x <= b
    PROVE  Max(S) \in S /\ \A x \in S : x <= Max(S)
<1> DEFINE N == {b - x : x \in S}
<1>1. N \in SUBSET Nat /\ N # {}
  <2>1. \A x \in S : b - x \in Nat
    OBVIOUS
  <2> QED BY <2>1
<1>2. PICK m \in N : \A y \in N : ~(<<y, m>> \in OpToRel(<, Nat))
  BY <1>1, NatLessThanWellFounded, WFMin, Zenon
<1>3. ASSUME NEW y \in N PROVE m <= y
  <2>1. ~(y < m)
    BY <1>1, <1>2 DEF OpToRel
  <2> QED BY <1>1, <2>1
<1>4. PICK x \in S : m = b - x
  BY <1>2
<1>5. ASSUME NEW y \in S PROVE x >= y
  <2>1. m <= b - y
    BY <1>3
  <2> QED BY <1>4, <2>1
<1>6. \E z \in S : \A y \in S : z >= y
  BY <1>5
<1>7. Max(S) \in S /\ \A y \in S : Max(S) >= y
  BY <1>6, Zenon DEF Max
<1> QED BY <1>7

LEMMA MinPair ==
    ASSUME NEW a \in Int, NEW b \in Int
    PROVE  Min({a, b}) \in {a, b} /\ Min({a, b}) <= a /\ Min({a, b}) <= b
<1> DEFINE m == IF a <= b THEN a ELSE b
<1>1. m \in Int /\ \A x \in {a, b} : m <= x
  OBVIOUS
<1> HIDE DEF m
<1>2. {a, b} \in SUBSET Int /\ {a, b} # {}
  OBVIOUS
<1> QED BY <1>1, <1>2, LeastOf

LEMMA MaxPair ==
    ASSUME NEW a \in Int, NEW b \in Int
    PROVE  Max({a, b}) \in {a, b} /\ a <= Max({a, b}) /\ b <= Max({a, b})
<1> DEFINE m == IF a <= b THEN b ELSE a
<1>1. m \in Int /\ \A x \in {a, b} : x <= m
  OBVIOUS
<1> HIDE DEF m
<1>2. {a, b} \in SUBSET Int /\ {a, b} # {}
  OBVIOUS
<1> QED BY <1>1, <1>2, GreatestOf

---------------------------------------------------------------------------
(* Tables *)

\* Every extent an entry can have.
Anything == {<<x, lo, hi>> : x \in Names, lo \in Nat, hi \in Int}

\* The entries of a table, one by one.
LEMMA Entries ==
    ASSUME NEW t \in Records
    PROVE  /\ t # NoTable /\ t.parts \in Seq(Parts) /\ Len(t.parts) \in Nat
           /\ DOMAIN t.parts = 1 .. Len(t.parts)
           /\ t.lo \in Nat /\ t.hi \in Nat /\ t.home \in 0 .. 1 /\ t.drivers \in 0 .. MaxDrivers
           /\ PartsOf(t) = {t.parts[i] : i \in DOMAIN t.parts}
           /\ \A i \in DOMAIN t.parts :
                /\ t.parts[i] \in Parts /\ t.parts[i].name \in Names
                /\ t.parts[i].lo \in Nat /\ t.parts[i].hi \in Int
                /\ t.parts[i].want \in BOOLEAN /\ t.parts[i].adv \in BOOLEAN
<1>1. t # NoTable /\ t.parts \in Seq(Parts)
  BY EditorAssumption DEF Records
<1>2. Len(t.parts) \in Nat /\ DOMAIN t.parts = 1 .. Len(t.parts)
      /\ \A i \in DOMAIN t.parts : t.parts[i] \in Parts
  BY <1>1
<1>3. PartsOf(t) = {t.parts[i] : i \in DOMAIN t.parts}
  BY <1>1 DEF PartsOf, Range
<1>4. \A p \in Parts : /\ p.name \in Names /\ p.lo \in Nat /\ p.hi \in Int
                       /\ p.want \in BOOLEAN /\ p.adv \in BOOLEAN
  BY DEF Parts
<1>5. t.lo \in Nat /\ t.hi \in Nat /\ t.home \in 0 .. 1 /\ t.drivers \in 0 .. MaxDrivers
  BY DEF Records
<1> QED BY <1>1, <1>2, <1>3, <1>4, <1>5

\* All entries of the table have extents from S.
Within(t, S) == t \in Tables /\ Exts(t) \subseteq S

LEMMA WithinEach ==
    ASSUME NEW t \in Records, NEW S
    PROVE  Within(t, S) <=> \A i \in DOMAIN t.parts : Ext(t.parts[i]) \in S
<1>1. PartsOf(t) = {t.parts[i] : i \in DOMAIN t.parts}
  BY Entries
<1>2. Exts(t) = {Ext(t.parts[i]) : i \in DOMAIN t.parts}
  BY <1>1 DEF Exts
<1> QED BY <1>2 DEF Within, Tables

LEMMA WithinNone == ASSUME NEW S PROVE Within(NoTable, S) /\ Unmarked(NoTable)
BY DEF Within, Exts, PartsOf, Tables, Unmarked

LEMMA WithinMore ==
    ASSUME NEW S, NEW R, S \subseteq R
    PROVE  \A t : Within(t, S) => Within(t, R)
BY DEF Within

LEMMA WithinAny == ASSUME NEW t \in Tables PROVE Within(t, Anything)
<1>1. CASE t = NoTable
  BY <1>1, WithinNone
<1>2. CASE t \in Records
  <2>1. \A i \in DOMAIN t.parts : Ext(t.parts[i]) \in Anything
    BY <1>2, Entries DEF Anything, Ext
  <2> QED BY <1>2, <2>1, WithinEach
<1> QED BY <1>1, <1>2 DEF Tables

\* A table with other entries is a table.
LEMMA PartsExcept ==
    ASSUME NEW t \in Records, NEW s \in Seq(Parts), NEW u, u = [t EXCEPT !.parts = s]
    PROVE  /\ u \in Records /\ u.parts = s /\ u.lo = t.lo /\ u.hi = t.hi
           /\ u.home = t.home /\ u.drivers = t.drivers
BY DEF Records

\* One entry of it is another.
Put(t, i, q) == [t EXCEPT !.parts[i] = q]

LEMMA PutEntry ==
    ASSUME NEW t \in Records, NEW i \in DOMAIN t.parts, NEW q \in Parts, NEW u, u = Put(t, i, q)
    PROVE  /\ u \in Records /\ u.lo = t.lo /\ u.hi = t.hi
           /\ u.home = t.home /\ u.drivers = t.drivers
           /\ DOMAIN u.parts = DOMAIN t.parts /\ u.parts[i] = q
           /\ \A j \in DOMAIN t.parts : j # i => u.parts[j] = t.parts[j]
<1> DEFINE s == [t.parts EXCEPT ![i] = q]
<1>1. t.parts \in Seq(Parts) /\ DOMAIN t.parts = 1 .. Len(t.parts) /\ Len(t.parts) \in Nat
  BY Entries
<1>2. s \in Seq(Parts) /\ DOMAIN s = DOMAIN t.parts /\ s[i] = q
      /\ \A j \in DOMAIN t.parts : j # i => s[j] = t.parts[j]
  BY <1>1
<1>3. u = [t EXCEPT !.parts = s]
  BY DEF Records, Put
<1> HIDE DEF s
<1> QED BY <1>2, <1>3, PartsExcept

\* An entry put where another one was.
LEMMA PutPut ==
    ASSUME NEW t \in Records, NEW i \in DOMAIN t.parts, NEW q, NEW r
    PROVE  Put(Put(t, i, q), i, r) = Put(t, i, r)
<1>1. t.parts = [j \in DOMAIN t.parts |-> t.parts[j]]
  BY Entries
<1>2. [[t.parts EXCEPT ![i] = q] EXCEPT ![i] = r] = [t.parts EXCEPT ![i] = r]
  BY <1>1
<1> DEFINE u == Put(t, i, q)
<1>3. u.parts = [t.parts EXCEPT ![i] = q] /\ u = [t EXCEPT !.parts = u.parts]
  BY DEF Put, Records
<1> HIDE DEF u
<1>4. Put(u, i, r) = [t EXCEPT !.parts = [u.parts EXCEPT ![i] = r]]
  BY <1>3 DEF Put, Records
<1>5. Put(u, i, r) = [t EXCEPT !.parts = [t.parts EXCEPT ![i] = r]]
  BY <1>2, <1>3, <1>4
<1> QED BY <1>5 DEF Put, Records, u

LEMMA PutSame ==
    ASSUME NEW t \in Records, NEW i \in DOMAIN t.parts
    PROVE  Put(t, i, t.parts[i]) = t
<1>1. t.parts = [j \in DOMAIN t.parts |-> t.parts[j]]
  BY Entries
<1>2. [t.parts EXCEPT ![i] = t.parts[i]] = t.parts
  BY <1>1
<1> QED BY <1>2 DEF Put, Records

\* An entry with another end, or elsewhere.
Ending(p, hi) == [p EXCEPT !.hi = hi]
Placing(p, lo, hi) == [p EXCEPT !.lo = lo, !.hi = hi]

LEMMA Ends ==
    ASSUME NEW p \in Parts, NEW hi \in Int
    PROVE  /\ Ending(p, hi) \in Parts /\ Ending(p, hi).hi = hi /\ Ending(p, hi).lo = p.lo
           /\ Ending(p, hi).name = p.name /\ Ending(p, hi).want = p.want
           /\ Ending(p, hi).adv = p.adv /\ Ending(p, p.hi) = p
BY DEF Parts, Ending

LEMMA Places ==
    ASSUME NEW p \in Parts, NEW lo \in Nat, NEW hi \in Int
    PROVE  /\ Placing(p, lo, hi) \in Parts /\ Placing(p, lo, hi).hi = hi
           /\ Placing(p, lo, hi).lo = lo /\ Placing(p, lo, hi).name = p.name
           /\ Placing(p, lo, hi).want = p.want /\ Placing(p, lo, hi).adv = p.adv
BY DEF Parts, Placing

LEMMA PlacesAgain ==
    ASSUME NEW p \in Parts, NEW lo \in Nat, NEW hi \in Int, NEW a \in Nat, NEW b \in Int
    PROVE  /\ Placing(Placing(p, a, b), lo, hi) = Placing(p, lo, hi)
           /\ Placing(Ending(p, b), lo, hi) = Placing(p, lo, hi)
           /\ Ending(Placing(p, a, b), hi) = Placing(p, a, hi)
           /\ Ending(Ending(p, b), hi) = Ending(p, hi)
           /\ Placing(p, p.lo, hi) = Ending(p, hi) /\ Placing(p, p.lo, p.hi) = p
BY DEF Parts, Placing, Ending

LEMMA NewEnd ==
    ASSUME NEW t \in Records, NEW i \in DOMAIN t.parts, NEW hi \in Int
    PROVE  [t EXCEPT !.parts[i].hi = hi] = Put(t, i, Ending(t.parts[i], hi))
<1>1. t.parts[i] \in Parts /\ t.parts \in Seq(Parts)
  BY Entries
<1> QED BY <1>1 DEF Parts, Records, Put, Ending

LEMMA NewPlace ==
    ASSUME NEW t \in Records, NEW i \in DOMAIN t.parts, NEW lo \in Nat, NEW hi \in Int
    PROVE  At(t, i, lo, hi) = Put(t, i, Placing(t.parts[i], lo, hi))
<1>1. t.parts[i] \in Parts /\ t.parts \in Seq(Parts)
  BY Entries
<1> QED BY <1>1 DEF At, Parts, Records, Put, Placing

---------------------------------------------------------------------------
(* What is on the disk *)

\* A table as the disk keeps it.
LEMMA PlainRecord ==
    ASSUME NEW t \in Records, NEW u, u = Plain(t)
    PROVE  /\ u \in Records /\ u.lo = t.lo /\ u.hi = t.hi /\ u.home = t.home
           /\ u.drivers = t.drivers /\ DOMAIN u.parts = DOMAIN t.parts
           /\ \A i \in DOMAIN t.parts : u.parts[i] = [t.parts[i] EXCEPT !.want = FALSE]
           /\ \A i \in DOMAIN t.parts : Ext(u.parts[i]) = Ext(t.parts[i])
           /\ Unmarked(u)
<1> DEFINE s == [i \in DOMAIN t.parts |-> [t.parts[i] EXCEPT !.want = FALSE]]
<1>1. /\ t # NoTable /\ DOMAIN t.parts = 1 .. Len(t.parts) /\ Len(t.parts) \in Nat
      /\ \A i \in DOMAIN t.parts : t.parts[i] \in Parts
  BY Entries
<1>2. \A i \in DOMAIN t.parts : /\ [t.parts[i] EXCEPT !.want = FALSE] \in Parts
                                /\ ~[t.parts[i] EXCEPT !.want = FALSE].want
                                /\ Ext([t.parts[i] EXCEPT !.want = FALSE]) = Ext(t.parts[i])
  BY <1>1 DEF Parts, Ext
<1>3. s \in Seq(Parts) /\ DOMAIN s = DOMAIN t.parts
      /\ \A i \in DOMAIN t.parts : s[i] = [t.parts[i] EXCEPT !.want = FALSE]
  BY <1>1, <1>2
<1>4. u = [t EXCEPT !.parts = s]
  BY <1>1 DEF Plain
<1> HIDE DEF s
<1>5. /\ u \in Records /\ u.parts = s /\ u.lo = t.lo /\ u.hi = t.hi
      /\ u.home = t.home /\ u.drivers = t.drivers
  BY <1>3, <1>4, PartsExcept
<1>6. ASSUME NEW i \in DOMAIN u.parts PROVE ~u.parts[i].want
  <2> DEFINE q == [t.parts[i] EXCEPT !.want = FALSE]
  <2>1. i \in DOMAIN t.parts
    BY <1>3, <1>5
  <2>2. ~q.want
    BY <1>2, <2>1
  <2>3. u.parts[i] = q
    BY <1>3, <1>5, <2>1
  <2> HIDE DEF q
  <2> QED BY <2>2, <2>3
<1>7. Unmarked(u)
  BY <1>6 DEF Unmarked
<1>8. \A i \in DOMAIN t.parts : u.parts[i] = [t.parts[i] EXCEPT !.want = FALSE]
                                /\ Ext(u.parts[i]) = Ext(t.parts[i])
  BY <1>2, <1>3, <1>5, Zenon
<1> QED BY <1>3, <1>5, <1>7, <1>8, Zenon

LEMMA PlainWithin ==
    ASSUME NEW S, NEW t, Within(t, S)
    PROVE  Within(Plain(t), S) /\ Unmarked(Plain(t))
<1>1. CASE t = NoTable
  BY <1>1, WithinNone DEF Plain
<1>2. CASE t \in Records
  BY <1>2, PlainRecord, WithinEach
<1> QED BY <1>1, <1>2 DEF Within, Tables

\* A table without marks is kept as it is.
LEMMA PlainSame == ASSUME NEW t \in Tables, Unmarked(t) PROVE Plain(t) = t
<1>1. CASE t = NoTable
  BY <1>1 DEF Plain
<1>2. CASE t \in Records
  <2> DEFINE s == [i \in DOMAIN t.parts |-> [t.parts[i] EXCEPT !.want = FALSE]]
  <2>1. t # NoTable /\ t.parts \in Seq(Parts) /\ DOMAIN t.parts = 1 .. Len(t.parts)
        /\ \A i \in DOMAIN t.parts : t.parts[i] \in Parts /\ t.parts[i].want = FALSE
    BY <1>2, Entries DEF Unmarked
  <2>2. \A i \in DOMAIN t.parts : [t.parts[i] EXCEPT !.want = FALSE] = t.parts[i]
    BY <2>1 DEF Parts
  <2>3. s = t.parts
    <3>1. t.parts = [i \in DOMAIN t.parts |-> t.parts[i]]
      BY <2>1
    <3> QED BY <2>2, <3>1, Zenon
  <2>4. Plain(t) = [t EXCEPT !.parts = s]
    BY <2>1 DEF Plain
  <2> HIDE DEF s
  <2> QED BY <1>2, <2>3, <2>4 DEF Records
<1> QED BY <1>1, <1>2 DEF Tables

LEMMA CutRecord ==
    ASSUME NEW t \in Records, NEW u, u = Cut(t)
    PROVE  u \in Records /\ u.parts = <<>> /\ u.home = t.home
<1>1. t # NoTable /\ <<>> \in Seq(Parts) /\ 0 \in 0 .. MaxDrivers
  BY Entries, EditorAssumption
<1> QED BY <1>1 DEF Cut, Records

LEMMA CutWithin ==
    ASSUME NEW S, NEW t \in Tables
    PROVE  /\ Cut(t) \in Tables /\ (Cut(t) # NoTable => t # NoTable)
           /\ Within(Cut(t), S) /\ Unmarked(Cut(t))
<1>1. CASE t = NoTable
  BY <1>1, WithinNone DEF Cut, Tables
<1>2. CASE t \in Records
  <2>1. Cut(t) \in Records /\ DOMAIN Cut(t).parts = {}
    BY <1>2, CutRecord
  <2>2. Within(Cut(t), S) /\ Unmarked(Cut(t))
    BY <2>1, WithinEach DEF Unmarked
  <2> QED BY <1>2, <2>1, <2>2, Entries DEF Tables
<1> QED BY <1>1, <1>2 DEF Tables

\* What a disk keeps: tables without marks, their entries with extents from S, and no
\* MBR beside a header in block 0.
DiskOK(dk, S) ==
    /\ dk \in Disks /\ (dk.t[0] # NoTable => dk.mbr = NoMbr)
    /\ \A h \in 0 .. 1 : Within(dk.t[h], S) /\ Unmarked(dk.t[h])

LEMMA DiskMore ==
    ASSUME NEW S, NEW R, S \subseteq R
    PROVE  \A dk : DiskOK(dk, S) => DiskOK(dk, R)
BY WithinMore DEF DiskOK

\* Two tables and an MBR make a disk.
LEMMA MakeDisk ==
    ASSUME NEW S, NEW dk \in Disks, NEW t0, NEW t1, NEW u,
           Within(t0, S), Unmarked(t0), Within(t1, S), Unmarked(t1),
           NEW m \in {NoMbr} \cup SUBSET Slots, t0 # NoTable => m = NoMbr,
           u = [t |-> [h \in 0 .. 1 |-> IF h = 0 THEN t0 ELSE t1], mbr |-> m]
    PROVE  DiskOK(u, S) /\ u.t[0] = t0 /\ u.t[1] = t1 /\ u.mbr = m
<1>1. t0 \in Tables /\ t1 \in Tables
  BY DEF Within
<1>2. u \in Disks /\ u.t[0] = t0 /\ u.t[1] = t1 /\ u.mbr = m
  BY <1>1 DEF Disks
<1>3. \A h \in 0 .. 1 : h = 0 \/ h = 1
  OBVIOUS
<1> QED BY <1>2, <1>3 DEF DiskOK

\* A disk that differs in its tables.
LEMMA OtherTables ==
    ASSUME NEW S, NEW u \in Disks, u.t[0] # NoTable => u.mbr = NoMbr,
           Within(u.t[0], S), Unmarked(u.t[0]), Within(u.t[1], S), Unmarked(u.t[1])
    PROVE  DiskOK(u, S)
<1>1. \A h \in 0 .. 1 : h = 0 \/ h = 1
  OBVIOUS
<1> QED BY <1>1 DEF DiskOK

LEMMA PutTable ==
    ASSUME NEW S, NEW dk, DiskOK(dk, S), NEW h \in 0 .. 1, NEW t,
           Within(t, S), Unmarked(t), h = 0 /\ t # NoTable => dk.mbr = NoMbr,
           NEW u, u = [dk EXCEPT !.t[h] = t]
    PROVE  DiskOK(u, S) /\ u.t[h] = t /\ u.t[1 - h] = dk.t[1 - h] /\ u.mbr = dk.mbr
<1>1. /\ dk \in Disks /\ t \in Tables /\ 1 - h \in 0 .. 1 /\ 1 - h # h
      /\ \A k \in 0 .. 1 : k = h \/ k = 1 - h
  BY DEF DiskOK, Within
<1>2. u \in Disks /\ u.t[h] = t /\ u.t[1 - h] = dk.t[1 - h] /\ u.mbr = dk.mbr
  BY <1>1 DEF Disks
<1>3. u.t[0] # NoTable => u.mbr = NoMbr
  BY <1>1, <1>2 DEF DiskOK
<1> QED BY <1>1, <1>2, <1>3 DEF DiskOK

LEMMA AfterOK ==
    ASSUME NEW S, NEW dk, DiskOK(dk, S), NEW t \in Records, Within(t, S)
    PROVE  /\ DiskOK(After(dk, t), S) /\ After(dk, t).t[t.home] = Plain(t)
           /\ After(dk, t).t[1 - t.home] = NoTable
           /\ After(dk, t).mbr = IF t.home = 0 THEN NoMbr ELSE dk.mbr
<1>1. t.home \in 0 .. 1 /\ dk \in Disks /\ Within(Plain(t), S) /\ Unmarked(Plain(t))
  BY Entries, PlainWithin DEF DiskOK
<1>2. Plain(t) \in Tables /\ NoTable \in Tables
  BY <1>1 DEF Within, Tables
<1> DEFINE u == After(dk, t)
<1>3. /\ u \in Disks /\ u.t[t.home] = Plain(t) /\ u.t[1 - t.home] = NoTable
      /\ u.mbr = IF t.home = 0 THEN NoMbr ELSE dk.mbr
  BY <1>1, <1>2 DEF After, Disks
<1>4. u.t[0] # NoTable => u.mbr = NoMbr
  BY <1>1, <1>3
<1> HIDE DEF u
<1>5. \A h \in 0 .. 1 : h = t.home \/ h = 1 - t.home
  BY <1>1
<1>6. DiskOK(u, S)
  BY <1>1, <1>3, <1>4, <1>5, WithinNone DEF DiskOK
<1> QED BY <1>3, <1>6 DEF u

---------------------------------------------------------------------------
(* What a write leaves *)

\* The first k of the new entries, and the old ones behind them.
LEMMA MixedOK ==
    ASSUME NEW S, NEW old \in Records, Within(old, S), Unmarked(old),
           NEW t \in Records, Within(t, S), Unmarked(t), NEW k \in 1 .. Len(t.parts)
    PROVE  Mixed(old, t.parts, k) \in Records
           /\ Within(Mixed(old, t.parts, k), S) /\ Unmarked(Mixed(old, t.parts, k))
<1> DEFINE a == SubSeq(t.parts, 1, k)
           b == IF k = Len(t.parts) THEN <<>> ELSE SubSeq(old.parts, k + 1, Len(old.parts))
           s == IF old.parts = <<>> THEN old.parts ELSE a \o b
           u == Mixed(old, t.parts, k)
<1>1. /\ Len(t.parts) \in Nat /\ DOMAIN t.parts = 1 .. Len(t.parts)
      /\ Len(old.parts) \in Nat /\ DOMAIN old.parts = 1 .. Len(old.parts)
      /\ \A i \in DOMAIN t.parts : t.parts[i] \in Parts
      /\ \A i \in DOMAIN old.parts : old.parts[i] \in Parts
      /\ t # NoTable /\ old # NoTable /\ old.parts \in Seq(Parts)
  BY Entries
<1> DEFINE Fine(p) == p \in Parts /\ Ext(p) \in S /\ ~p.want
<1>2. \A i \in DOMAIN t.parts : Fine(t.parts[i])
  BY <1>1, WithinEach DEF Unmarked
<1>3. \A i \in DOMAIN old.parts : Fine(old.parts[i])
  BY <1>1, WithinEach DEF Unmarked
<1>4. a \in Seq(Parts) /\ \A i \in DOMAIN a : Fine(a[i])
  <2>1. \A j \in 1 .. k : t.parts[j] \in Parts
    BY <1>1
  <2>2. /\ a \in Seq(Parts) /\ Len(a) = (IF 1 <= k THEN k - 1 + 1 ELSE 0)
        /\ \A j \in 1 .. (k - 1 + 1) : a[j] = t.parts[1 + j - 1]
    BY <1>1, <2>1, SubSeqProperties
  <2> HIDE DEF a, Fine
  <2>3. \A j \in 1 .. k : a[j] = t.parts[j] /\ j \in DOMAIN t.parts
    BY <1>1, <2>2
  <2>4. DOMAIN a = 1 .. k
    BY <1>1, <2>2
  <2> QED BY <1>2, <2>2, <2>3, <2>4
<1>5. b \in Seq(Parts) /\ \A i \in DOMAIN b : Fine(b[i])
  <2>1. CASE k = Len(t.parts)
    <3>1. b = <<>>
      BY <2>1
    <3> HIDE DEF b, Fine
    <3> QED BY <3>1
  <2>2. CASE k # Len(t.parts)
    <3> DEFINE c == SubSeq(old.parts, k + 1, Len(old.parts))
               m == Len(old.parts)
    <3>1. \A j \in (k + 1) .. m : old.parts[j] \in Parts
      BY <1>1
    <3>2. /\ c \in Seq(Parts) /\ Len(c) = (IF k + 1 <= m THEN m - (k + 1) + 1 ELSE 0)
          /\ \A j \in 1 .. (m - (k + 1) + 1) : c[j] = old.parts[(k + 1) + j - 1]
      BY <1>1, <3>1, SubSeqProperties
    <3>3. b = c
      BY <2>2
    <3> HIDE DEF b, c, Fine
    <3>4. \A j \in 1 .. Len(c) : c[j] = old.parts[k + j] /\ k + j \in DOMAIN old.parts
      BY <1>1, <3>2
    <3>5. \A j \in DOMAIN c : Fine(c[j])
      BY <1>3, <3>2, <3>4
    <3> QED BY <3>2, <3>3, <3>5
  <2> QED BY <2>1, <2>2
<1>6. s \in Seq(Parts) /\ \A i \in DOMAIN s : Fine(s[i])
  <2>1. CASE old.parts = <<>>
    <3>1. s = old.parts
      BY <2>1
    <3> HIDE DEF s, Fine
    <3> QED BY <1>1, <1>3, <3>1
  <2>2. CASE old.parts # <<>>
    <3>1. s = a \o b
      BY <2>2
    <3> HIDE DEF s, a, b, Fine
    <3>2. /\ a \o b \in Seq(Parts) /\ Len(a \o b) = Len(a) + Len(b)
          /\ Len(a) \in Nat /\ Len(b) \in Nat /\ DOMAIN a = 1 .. Len(a) /\ DOMAIN b = 1 .. Len(b)
      BY <1>4, <1>5
    <3>3. \A i \in 1 .. Len(a) + Len(b) :
             (a \o b)[i] = IF i <= Len(a) THEN a[i] ELSE b[i - Len(a)]
      BY <1>4, <1>5, ConcatProperties
    <3>4. \A i \in 1 .. Len(a) + Len(b) : i <= Len(a) => i \in DOMAIN a
      BY <3>2
    <3>5. \A i \in 1 .. Len(a) + Len(b) : ~(i <= Len(a)) => i - Len(a) \in DOMAIN b
      BY <3>2
    <3>6. DOMAIN s = 1 .. Len(a) + Len(b)
      BY <3>1, <3>2
    <3>7. \A i \in DOMAIN s : Fine(s[i])
      BY <1>4, <1>5, <3>1, <3>3, <3>4, <3>5, <3>6
    <3> QED BY <3>1, <3>2, <3>7
  <2> QED BY <2>1, <2>2
<1>7. u = [old EXCEPT !.parts = s]
  BY DEF Mixed
<1> HIDE DEF s, u
<1>8. u \in Records /\ u.parts = s
  BY <1>6, <1>7, PartsExcept
<1>9. Within(u, S) /\ Unmarked(u)
  BY <1>6, <1>8, WithinEach DEF Unmarked
<1> QED BY <1>8, <1>9 DEF u

LEMMA UnretiredOK ==
    ASSUME NEW S, NEW dk, DiskOK(dk, S), NEW t \in Records, Within(t, S),
           NEW d \in Unretired(dk, t)
    PROVE  DiskOK(d, S) /\ t.home = 1 /\ d.t[1] = Plain(t)
<1>1. t.home = 1 /\ dk.t[0] # NoTable /\ d = [After(dk, t) EXCEPT !.t[0] = Cut(dk.t[0])]
  BY DEF Unretired
<1>2. /\ DiskOK(After(dk, t), S) /\ After(dk, t).t[1] = Plain(t)
      /\ After(dk, t).mbr = dk.mbr
  BY <1>1, AfterOK
<1>3. dk.t[0] \in Tables /\ dk.mbr = NoMbr
  BY <1>1 DEF DiskOK, Disks
<1>4. Within(Cut(dk.t[0]), S) /\ Unmarked(Cut(dk.t[0]))
  BY <1>3, CutWithin
<1>5. DiskOK(d, S) /\ d.t[1 - 0] = After(dk, t).t[1 - 0]
  BY <1>1, <1>2, <1>3, <1>4, PutTable
<1> QED BY <1>1, <1>2, <1>5

LEMMA TornOK ==
    ASSUME NEW S, NEW dk, DiskOK(dk, S), NEW t \in Records, Within(t, S), NEW d \in Torn(dk, t)
    PROVE  DiskOK(d, S)
<1> DEFINE h == t.home
           o == Cut(dk.t[1 - h])
<1>1. /\ h \in 0 .. 1 /\ 1 - h \in 0 .. 1 /\ 1 - h # h /\ dk \in Disks
      /\ dk.t[h] \in Tables /\ dk.t[1 - h] \in Tables
      /\ Within(dk.t[h], S) /\ Unmarked(dk.t[h])
  BY Entries DEF DiskOK, Disks
<1>2. o \in Tables /\ (o # NoTable => dk.t[1 - h] # NoTable) /\ Within(o, S) /\ Unmarked(o)
  BY <1>1, CutWithin
<1>3. dk.t[0] # NoTable => dk.mbr = NoMbr
  BY DEF DiskOK
<1>4. CASE dk.t[h] = NoTable
  <2>1. d = [dk EXCEPT !.t[1 - h] = o]
    BY <1>4 DEF Torn
  <2> HIDE DEF h, o
  <2> QED BY <1>1, <1>2, <1>3, <2>1, PutTable
<1>5. CASE dk.t[h] # NoTable
  <2> DEFINE p == Plain(t)
  <2>1. p \in Records /\ DOMAIN p.parts = DOMAIN t.parts
    BY PlainRecord
  <2>2. Within(p, S) /\ Unmarked(p)
    BY PlainWithin
  <2>3. PICK k \in 1 .. Len(t.parts) :
           d = [dk EXCEPT !.t[h] = Mixed(@, p.parts, k), !.t[1 - h] = Cut(@)]
    BY <1>5 DEF Torn
  <2> HIDE DEF p
  <2>4. k \in 1 .. Len(p.parts)
    BY <2>1, Entries
  <2> DEFINE m == Mixed(dk.t[h], p.parts, k)
  <2>5. m \in Records /\ Within(m, S) /\ Unmarked(m) /\ m \in Tables
    BY <1>1, <1>5, <2>1, <2>2, <2>4, MixedOK DEF Tables
  <2>6. d = [dk EXCEPT !.t[h] = m, !.t[1 - h] = o]
    BY <1>1, <2>3 DEF Disks
  <2> HIDE DEF m, o, h
  <2>7. d \in Disks /\ d.t[h] = m /\ d.t[1 - h] = o /\ d.mbr = dk.mbr
    BY <1>1, <1>2, <2>5, <2>6 DEF Disks
  <2>8. d.t[0] # NoTable => d.mbr = NoMbr
    BY <1>1, <1>2, <1>3, <1>5, <2>7
  <2>9. \A g \in 0 .. 1 : g = h \/ g = 1 - h
    BY <1>1
  <2> QED BY <1>2, <2>5, <2>7, <2>8, <2>9 DEF DiskOK
<1> QED BY <1>4, <1>5

\* Whatever becomes of a write, the disk holds entries it held or was to hold; and one
\* that succeeds leaves the table in its place.
LEMMA WrittenOK ==
    ASSUME NEW S, NEW dk, DiskOK(dk, S), NEW t, Within(t, S), NEW w \in Written(dk, t)
    PROVE  /\ DiskOK(w.disk, S) /\ w.ok \in BOOLEAN
           /\ w.ok => t \in Records /\ w.disk.t[t.home] = Plain(t)
<1>1. ASSUME NEW d, NEW why, w = Outcome(d, why)
      PROVE  w.disk = d /\ w.ok \in BOOLEAN /\ (w.ok <=> why = "ok")
  BY <1>1 DEF Outcome
<1>2. CASE t = NoTable \/ ~Sound(t) \/ Need(t) > t.lo
  <2>1. w \in {Outcome(dk, "refused"), Outcome(dk, "overflow")}
    BY <1>2 DEF Written
  <2>2. w.disk = dk /\ w.ok \in BOOLEAN /\ ~w.ok
    BY <1>1, <2>1
  <2> QED BY <2>2
<1>3. CASE ~(t = NoTable \/ ~Sound(t) \/ Need(t) > t.lo)
  <2>1. t \in Records
    BY <1>3 DEF Within, Tables
  <2>2. w \in {Outcome(d, "ok") : d \in {After(dk, t)} \cup Unretired(dk, t)}
                \cup {Outcome(d, "error") : d \in {dk, After(dk, t)} \cup Torn(dk, t)}
    BY <1>3 DEF Written
  <2>3. CASE w \in {Outcome(d, "ok") : d \in {After(dk, t)} \cup Unretired(dk, t)}
    <3>1. PICK d \in {After(dk, t)} \cup Unretired(dk, t) : w = Outcome(d, "ok")
      BY <2>3
    <3>2. DiskOK(d, S) /\ d.t[t.home] = Plain(t)
      BY <2>1, AfterOK, UnretiredOK
    <3>3. w.disk = d /\ w.ok \in BOOLEAN
      BY <1>1, <3>1
    <3> QED BY <2>1, <3>2, <3>3
  <2>4. CASE w \in {Outcome(d, "error") : d \in {dk, After(dk, t)} \cup Torn(dk, t)}
    <3>1. PICK d \in {dk, After(dk, t)} \cup Torn(dk, t) : w = Outcome(d, "error")
      BY <2>4
    <3>2. DiskOK(d, S)
      BY <2>1, <3>1, AfterOK, TornOK
    <3>3. w.disk = d /\ w.ok \in BOOLEAN /\ ~w.ok
      BY <1>1, <3>1
    <3> QED BY <3>2, <3>3
  <2> QED BY <2>2, <2>3, <2>4
<1> QED BY <1>2, <1>3

---------------------------------------------------------------------------
(* The inductive invariant *)

DragType == [kind : {"none", "resize", "move", "new"}, i : Nat, lo : Nat, hi : Int,
             min : Nat, max : Int]

EdType == [rdb : Tables, mbr : {NoMbr} \cup SUBSET Slots, dirty : BOOLEAN, reboot : BOOLEAN,
           unmount : SUBSET Names, drag : DragType]

GhostType == [accepted : SUBSET Anything, owed : SUBSET Names, formatted : SUBSET Anything,
              loose : BOOLEAN, split : BOOLEAN]

\* The extents that may be on the disk: after an Undo with the button held, any.
Allowed(g) == IF g.split THEN Anything ELSE g.accepted

\* A drag of an entry finds it in the list, unless an Undo came between; that of an
\* edge leaves its beginning alone.
DragOK(e, g) ==
    /\ e.drag.kind \in {"none", "new"} => e.drag.i = 0
    /\ ~g.split /\ e.drag.kind \in {"resize", "move"} =>
          e.rdb # NoTable /\ e.drag.i \in DOMAIN e.rdb.parts
    /\ ~g.split /\ e.drag.kind = "resize" => e.rdb.parts[e.drag.i].lo = e.drag.lo
    /\ e.drag.kind = "move" => e.drag.max \in Nat

\* A format is asked for by a name that the user owes one and that no other entry has.
Asked(t, Y) ==
    t # NoTable => \A i \in DOMAIN t.parts : t.parts[i].want =>
                      /\ t.parts[i].name \in Y
                      /\ \A j \in DOMAIN t.parts : j # i => t.parts[j].name # t.parts[i].name

\* The disk, and the copy with what a drag has done taken back, hold what was agreed to.
Held(dk, e, g) ==
    /\ e \in EdType /\ g \in GhostType /\ DragOK(e, g)
    /\ DiskOK(dk, Allowed(g)) /\ Within(Restored(e.rdb, e.drag), Allowed(g))
    /\ Asked(e.rdb, g.owed)

Phases == {"edit", "closed", "wrote", "reboot"}

Inv ==
    /\ n \in 0 .. MaxEvents /\ phase \in {"start"} \cup Phases
    /\ phase = "start" =>
         /\ disk \in Starts /\ ed \in EdType /\ ghost \in GhostType
         /\ ed.rdb = NoTable /\ ed.drag = NoDrag /\ ~ed.dirty /\ ~ghost.loose /\ ~ghost.split
         /\ ghost.formatted = {}
    /\ phase # "start" => Held(disk, ed, ghost)

LEMMA NoDragType == NoDrag \in DragType /\ NoDrag.i = 0 /\ NoDrag.kind = "none"
BY DEF NoDrag, DragType

LEMMA StartsOK == ASSUME NEW s \in Starts \cup Images PROVE DiskOK(s, Anything)
<1>1. /\ s \in Disks /\ (s.t[0] # NoTable => s.mbr = NoMbr)
      /\ \A h \in 0 .. 1 : Unmarked(s.t[h])
  BY EditorAssumption
<1>2. \A h \in 0 .. 1 : s.t[h] \in Tables
  BY <1>1 DEF Disks
<1> QED BY <1>1, <1>2, WithinAny DEF DiskOK

LEMMA InvInit == Init => Inv
<1> SUFFICES ASSUME Init PROVE Inv
  OBVIOUS
<1>1. NoTable \in Tables /\ MaxEvents \in Nat /\ {} \in SUBSET Names
  BY EditorAssumption DEF Tables
<1>2. ed \in EdType /\ ed.rdb = NoTable /\ ed.drag = NoDrag /\ ~ed.dirty
  BY <1>1, NoDragType DEF Init, EdType
<1>3. ghost \in GhostType /\ ~ghost.loose /\ ~ghost.split /\ ghost.formatted = {}
  BY DEF Init, GhostType
<1> QED BY <1>1, <1>2, <1>3 DEF Init, Inv

LEMMA InvTypes == Inv => TypeOK
<1> SUFFICES ASSUME Inv PROVE TypeOK
  OBVIOUS
<1>1. ed \in EdType
  BY DEF Inv, Held
<1>2. disk \in Disks /\ (disk.t[0] # NoTable => disk.mbr = NoMbr)
  BY StartsOK DEF Inv, Held, DiskOK
<1> QED BY <1>1, <1>2 DEF Inv, Phases, TypeOK, EdType, DragType

\* The disk's table is found in one of two places.
LEMMA ReadOK ==
    ASSUME NEW S, NEW dk, DiskOK(dk, S)
    PROVE  Within(Read(dk), S) /\ Unmarked(Read(dk)) /\ Plain(Read(dk)) = Read(dk)
<1>1. \E h \in 0 .. 1 : Read(dk) = dk.t[h]
  BY DEF Read
<1>2. Within(Read(dk), S) /\ Unmarked(Read(dk))
  BY <1>1 DEF DiskOK
<1> QED BY <1>2, PlainSame DEF Within

LEMMA InvAccepted == Inv => Accepted
<1> SUFFICES ASSUME Inv, ~ghost.split, phase # "start"
             PROVE  Exts(Read(disk)) \subseteq ghost.accepted
  BY DEF Accepted
<1>1. DiskOK(disk, ghost.accepted)
  BY DEF Inv, Held, Allowed
<1> QED BY <1>1, ReadOK DEF Within

\* An event finds the window as the invariant says.
LEMMA Found ==
    ASSUME Inv, phase = "edit"
    PROVE  /\ ed \in EdType /\ ghost \in GhostType /\ DragOK(ed, ghost)
           /\ ed.rdb \in Tables /\ ed.drag \in DragType /\ ed.dirty \in BOOLEAN
           /\ ed.reboot \in BOOLEAN /\ ed.unmount \in SUBSET Names
           /\ ed.mbr \in {NoMbr} \cup SUBSET Slots
           /\ DiskOK(disk, Allowed(ghost)) /\ Within(Restored(ed.rdb, ed.drag), Allowed(ghost))
           /\ Asked(ed.rdb, ghost.owed)
BY DEF Inv, Held, EdType

\* Without a drag there is nothing to take back.
LEMMA NotDragged ==
    ASSUME NEW t \in Tables, NEW d, d.i = 0
    PROVE  Restored(t, d) = t
<1>1. t # NoTable => 0 \notin DOMAIN t.parts
  BY Entries DEF Tables
<1> QED BY <1>1 DEF Restored

LEMMA IdleFound ==
    ASSUME Inv, Idle
    PROVE  /\ phase = "edit" /\ phase' = "edit" /\ n' \in 0 .. MaxEvents /\ ed.drag = NoDrag
           /\ Within(ed.rdb, Allowed(ghost))
<1>1. phase = "edit" /\ phase' = "edit" /\ n' \in 0 .. MaxEvents /\ ed.drag = NoDrag
  BY EditorAssumption DEF Idle, Event, Inv
<1> QED BY <1>1, Found, NotDragged, NoDragType

\* What ends an event without a drag.
LEMMA Rested ==
    ASSUME NEW S, NEW dk, DiskOK(dk, S), NEW e \in EdType, e.drag = NoDrag, Within(e.rdb, S),
           NEW g \in GhostType, S \subseteq Allowed(g), Asked(e.rdb, g.owed)
    PROVE  Held(dk, e, g)
<1>1. e.rdb \in Tables /\ Restored(e.rdb, e.drag) = e.rdb
  BY NotDragged, NoDragType DEF Within
<1>2. DragOK(e, g)
  BY NoDragType DEF DragOK
<1> QED BY <1>1, <1>2, DiskMore, WithinMore DEF Held

LEMMA Ended ==
    ASSUME Inv, n' \in 0 .. MaxEvents, phase' \in Phases, Held(disk', ed', ghost')
    PROVE  Inv'
BY DEF Inv, Phases

\* Ghosts
LEMMA GhostFields ==
    ASSUME ghost \in GhostType
    PROVE  /\ Ghost \in GhostType /\ Allowed(Ghost) = Allowed(ghost) /\ Ghost.owed = ghost.owed
           /\ Ghost.loose = ghost.loose /\ Ghost.formatted = {} /\ Ghost.split = ghost.split
           /\ Ghost.accepted = ghost.accepted
BY DEF GhostType, Ghost, Allowed

LEMMA AgreedFields ==
    ASSUME ghost \in GhostType, NEW X \in SUBSET Anything
    PROVE  /\ Agreed(X) \in GhostType /\ Allowed(ghost) \cup X \subseteq Allowed(Agreed(X))
           /\ Agreed(X).owed = ghost.owed /\ Agreed(X).loose = ghost.loose
           /\ Agreed(X).formatted = {} /\ Agreed(X).split = ghost.split
<1>1. Ghost \in GhostType
  BY GhostFields
<1> QED BY <1>1, GhostFields DEF GhostType, Agreed, Allowed

LEMMA AstrayFields ==
    ASSUME NEW g \in GhostType, NEW gone \in BOOLEAN, ed.dirty \in BOOLEAN
    PROVE  /\ Astray(g, gone) \in GhostType /\ Allowed(Astray(g, gone)) = Allowed(g)
           /\ Astray(g, gone).owed = g.owed /\ Astray(g, gone).formatted = g.formatted
           /\ Astray(g, gone).loose = (g.loose \/ (gone /\ ~ed.dirty))
           /\ Astray(g, gone).split = g.split
BY DEF GhostType, Astray, Allowed

LEMMA OwedFields ==
    ASSUME NEW g \in GhostType, NEW Y \in SUBSET Names
    PROVE  /\ [g EXCEPT !.owed = Y] \in GhostType
           /\ Allowed([g EXCEPT !.owed = Y]) = Allowed(g)
           /\ [g EXCEPT !.owed = Y].loose = g.loose /\ [g EXCEPT !.owed = Y].split = g.split
           /\ [g EXCEPT !.owed = Y].formatted = g.formatted
           /\ [g EXCEPT !.owed = Y].owed = Y
BY DEF GhostType, Allowed

---------------------------------------------------------------------------
(* Drags *)

\* What lies below an entry ends somewhere, and so does the space above it.
LEMMA Below ==
    ASSUME NEW lo \in Nat, NEW c \in Int, NEW Q, \A q \in Q : q.hi \in Int
    PROVE  Max({lo} \cup {q.hi + 1 : q \in {q \in Q : q.hi < c}}) \in Nat
<1> DEFINE S == {lo} \cup {q.hi + 1 : q \in {q \in Q : q.hi < c}}
           b == IF lo <= c THEN c ELSE lo
<1>1. S \in SUBSET Int /\ S # {} /\ lo \in S /\ b \in Int /\ \A x \in S : x <= b
  OBVIOUS
<1> HIDE DEF S, b
<1>2. Max(S) \in Int /\ lo <= Max(S)
  BY <1>1, GreatestOf
<1>3. Max(S) \in Nat
  BY <1>2
<1> QED BY <1>3 DEF S

LEMMA Above ==
    ASSUME NEW hi \in Int, NEW c \in Int, NEW Q, \A q \in Q : q.lo \in Int
    PROVE  Min({hi} \cup {q.lo - 1 : q \in {q \in Q : q.lo > c}}) \in Int
<1> DEFINE S == {hi} \cup {q.lo - 1 : q \in {q \in Q : q.lo > c}}
           b == IF hi <= c THEN hi ELSE c
<1>1. S \in SUBSET Int /\ S # {} /\ b \in Int /\ \A x \in S : b <= x
  OBVIOUS
<1> HIDE DEF S, b
<1>2. Min(S) \in Int
  BY <1>1, LeastOf
<1> QED BY <1>2 DEF S

LEMMA Bounds ==
    ASSUME NEW t \in Records, NEW i \in DOMAIN t.parts, NEW p, p = t.parts[i]
    PROVE  Floor(t, p) \in Nat /\ Ceiling(t, p) \in Int
<1>1. /\ t.lo \in Nat /\ t.hi \in Int /\ p.lo \in Int /\ p.hi \in Int
      /\ \A q \in PartsOf(t) : q.lo \in Int /\ q.hi \in Int
  BY Entries
<1>2. Floor(t, p) \in Nat
  BY <1>1, Below DEF Floor
<1>3. Ceiling(t, p) \in Int
  BY <1>1, Above DEF Ceiling
<1> QED BY <1>2, <1>3

\* An entry that is put back where it is.
LEMMA AtSame ==
    ASSUME NEW t \in Records, NEW i \in DOMAIN t.parts
    PROVE  At(t, i, t.parts[i].lo, t.parts[i].hi) = t
<1> DEFINE p == t.parts[i]
<1>1. p \in Parts /\ p.lo \in Nat /\ p.hi \in Int
  BY Entries
<1>2. Placing(p, p.lo, p.hi) = p
  BY <1>1, PlacesAgain
<1>3. At(t, i, p.lo, p.hi) = Put(t, i, Placing(p, p.lo, p.hi))
  BY <1>1, NewPlace
<1> QED BY <1>2, <1>3, PutSame

\* What a later motion or the release puts back is the same wherever the entry is.
LEMMA AtPut ==
    ASSUME NEW t \in Records, NEW i \in DOMAIN t.parts, NEW lo \in Nat, NEW hi \in Int,
           NEW q \in Parts, Placing(q, lo, hi) = Placing(t.parts[i], lo, hi)
    PROVE  At(Put(t, i, q), i, lo, hi) = At(t, i, lo, hi)
<1> DEFINE u == Put(t, i, q)
<1>1. u \in Records /\ i \in DOMAIN u.parts /\ u.parts[i] = q
  BY PutEntry
<1> HIDE DEF u
<1>2. At(u, i, lo, hi) = Put(u, i, Placing(q, lo, hi))
  BY <1>1, NewPlace
<1>3. At(t, i, lo, hi) = Put(t, i, Placing(q, lo, hi))
  BY NewPlace
<1> QED BY <1>2, <1>3, PutPut DEF u

LEMMA AtAt ==
    ASSUME NEW t \in Records, NEW i \in DOMAIN t.parts,
           NEW lo \in Nat, NEW hi \in Int, NEW a \in Nat, NEW b \in Int
    PROVE  /\ At(At(t, i, a, b), i, lo, hi) = At(t, i, lo, hi)
           /\ At([t EXCEPT !.parts[i].hi = b], i, lo, hi) = At(t, i, lo, hi)
<1>1. t.parts[i] \in Parts
  BY Entries
<1>2. At(t, i, a, b) = Put(t, i, Placing(t.parts[i], a, b))
  BY NewPlace
<1>3. [t EXCEPT !.parts[i].hi = b] = Put(t, i, Ending(t.parts[i], b))
  BY NewEnd
<1>4. /\ Placing(t.parts[i], a, b) \in Parts /\ Ending(t.parts[i], b) \in Parts
      /\ Placing(Placing(t.parts[i], a, b), lo, hi) = Placing(t.parts[i], lo, hi)
      /\ Placing(Ending(t.parts[i], b), lo, hi) = Placing(t.parts[i], lo, hi)
  BY <1>1, Ends, Places, PlacesAgain
<1> QED BY <1>2, <1>3, <1>4, AtPut

\* A format that is asked for stays so, wherever its entry lies.
LEMMA AskedPut ==
    ASSUME NEW t \in Records, NEW i \in DOMAIN t.parts, NEW q \in Parts,
           q.name = t.parts[i].name, q.want = t.parts[i].want, NEW Y, Asked(t, Y)
    PROVE  Asked(Put(t, i, q), Y)
<1> DEFINE u == Put(t, i, q)
<1>1. /\ t # NoTable /\ DOMAIN u.parts = DOMAIN t.parts /\ u.parts[i] = q
      /\ \A j \in DOMAIN t.parts : j # i => u.parts[j] = t.parts[j]
  BY PutEntry, Entries
<1> HIDE DEF u
<1>2. \A j \in DOMAIN t.parts : u.parts[j].name = t.parts[j].name /\ u.parts[j].want = t.parts[j].want
  BY <1>1
<1>3. Asked(u, Y)
  BY <1>1, <1>2 DEF Asked
<1> QED BY <1>3 DEF u

\* One table asks for no more than the other.
AsksAs(t, u) == \A Y : Asked(t, Y) => Asked(u, Y)

LEMMA AskedEnd ==
    ASSUME NEW t \in Records, NEW i \in DOMAIN t.parts, NEW lo \in Nat, NEW hi \in Int,
           NEW Y, Asked(t, Y)
    PROVE  /\ Asked(Put(t, i, Ending(t.parts[i], hi)), Y)
           /\ Asked(At(t, i, lo, hi), Y)
<1> DEFINE p == t.parts[i]
<1>1. p \in Parts
  BY Entries
<1>2. /\ Ending(p, hi) \in Parts /\ Ending(p, hi).name = p.name /\ Ending(p, hi).want = p.want
      /\ Placing(p, lo, hi) \in Parts /\ Placing(p, lo, hi).name = p.name
      /\ Placing(p, lo, hi).want = p.want
  <2> HIDE DEF p
  <2> QED BY <1>1, Ends, Places
<1>3. At(t, i, lo, hi) = Put(t, i, Placing(p, lo, hi))
  BY NewPlace
<1> QED BY <1>2, <1>3, AskedPut

LEMMA AskedRestored ==
    ASSUME NEW t \in Tables, NEW d \in DragType, NEW Y, Asked(t, Y)
    PROVE  Asked(Restored(t, d), Y)
<1>1. CASE t = NoTable \/ d.i \notin DOMAIN t.parts
  BY <1>1 DEF Restored
<1>2. CASE t # NoTable /\ d.i \in DOMAIN t.parts
  <2>1. t \in Records /\ d.lo \in Nat /\ d.hi \in Int
    BY <1>2 DEF Tables, DragType
  <2>2. Asked(At(t, d.i, d.lo, d.hi), Y)
    BY <1>2, <2>1, AskedEnd
  <2> QED BY <1>2, <2>2 DEF Restored
<1> QED BY <1>1, <1>2

LEMMA AskedNone == ASSUME NEW t, Unmarked(t) PROVE \A Y : Asked(t, Y)
BY DEF Asked, Unmarked

LEMMA HasEntries ==
    ASSUME Inv, phase = "edit", NEW i \in Indices
    PROVE  /\ ed.rdb \in Records /\ i \in DOMAIN ed.rdb.parts /\ i \in Nat \ {0}
           /\ ed.rdb.parts[i] \in Parts /\ ed.rdb.parts[i].lo \in Nat
           /\ ed.rdb.parts[i].hi \in Int
BY Found, Entries DEF Indices, HasTable, Tables

\* A drag begins with the entry where it is.
LEMMA DragBegins ==
    ASSUME Inv, Idle, NEW i \in Indices, NEW kind \in {"resize", "move"},
           NEW min \in Nat, NEW max \in Int, kind = "move" => max \in Nat,
           ed' = [ed EXCEPT !.drag = Drag(kind, i, ed.rdb.parts[i].lo, ed.rdb.parts[i].hi,
                                          min, max)],
           ghost' = Ghost, disk' = disk
    PROVE  Inv'
<1> DEFINE p == ed.rdb.parts[i]
           d == Drag(kind, i, p.lo, p.hi, min, max)
<1>1. /\ phase = "edit" /\ phase' = "edit" /\ n' \in 0 .. MaxEvents
      /\ Within(ed.rdb, Allowed(ghost))
  BY IdleFound
<1>2. /\ ed.rdb \in Records /\ i \in DOMAIN ed.rdb.parts /\ i \in Nat \ {0}
      /\ p.lo \in Nat /\ p.hi \in Int
  BY <1>1, HasEntries
<1>3. /\ d \in DragType /\ d.kind = kind /\ d.i = i /\ d.lo = p.lo /\ d.hi = p.hi /\ d.max = max
  <2>1. kind \in {"resize", "move", "new"} /\ i \in Nat
    BY <1>2
  <2> HIDE DEF p
  <2> QED BY <1>2, <2>1 DEF Drag, DragType, d
<1>4. ed' \in EdType /\ ed'.drag = d /\ ed'.rdb = ed.rdb
  BY <1>1, <1>3, Found DEF EdType
<1> HIDE DEF d
<1>5. DragOK(ed', ghost')
  BY <1>2, <1>3, <1>4, Entries DEF DragOK, p
<1>6. Restored(ed'.rdb, ed'.drag) = ed.rdb
  <2>1. Restored(ed'.rdb, ed'.drag) = At(ed.rdb, i, p.lo, p.hi)
    BY <1>2, <1>3, <1>4, Entries DEF Restored
  <2> QED BY <1>2, <2>1, AtSame
<1>7. Held(disk', ed', ghost')
  BY <1>1, <1>4, <1>5, <1>6, Found, GhostFields DEF Held
<1> QED BY <1>1, <1>7, Ended DEF Phases

LEMMA PressEdgeInv == ASSUME Inv, Idle, PressEdge PROVE Inv'
<1>1. PICK i \in Indices :
        /\ ed' = [ed EXCEPT !.drag = Drag("resize", i, ed.rdb.parts[i].lo, ed.rdb.parts[i].hi,
                                          ed.rdb.parts[i].lo, Ceiling(ed.rdb, ed.rdb.parts[i]))]
        /\ ghost' = Ghost /\ UNCHANGED disk
  BY DEF PressEdge
<1>2. ed.rdb.parts[i].lo \in Nat /\ Ceiling(ed.rdb, ed.rdb.parts[i]) \in Int
  BY IdleFound, HasEntries, Bounds
<1> QED BY <1>1, <1>2, DragBegins

LEMMA PressBlockInv == ASSUME Inv, Idle, PressBlock PROVE Inv'
<1>1. PICK i \in Indices :
        LET p == ed.rdb.parts[i]
            floor == Floor(ed.rdb, p)
            top == Ceiling(ed.rdb, p) + 1
            width == p.hi - p.lo
        IN  /\ ed' = [ed EXCEPT !.drag = Drag("move", i, p.lo, p.hi, floor,
                                              IF top > width THEN top - 1 - width ELSE floor)]
            /\ ghost' = Ghost /\ UNCHANGED disk
  BY DEF PressBlock
<1> DEFINE p == ed.rdb.parts[i]
           top == Ceiling(ed.rdb, p) + 1
           max == IF top > p.hi - p.lo THEN top - 1 - (p.hi - p.lo) ELSE Floor(ed.rdb, p)
<1>2. p.lo \in Nat /\ p.hi \in Int
  BY IdleFound, HasEntries
<1>3. Floor(ed.rdb, p) \in Nat /\ Ceiling(ed.rdb, p) \in Int
  BY IdleFound, HasEntries, Bounds
<1>4. max \in Nat
  BY <1>2, <1>3
<1>5. ed' = [ed EXCEPT !.drag = Drag("move", i, p.lo, p.hi, Floor(ed.rdb, p), max)]
      /\ ghost' = Ghost /\ disk' = disk
  BY <1>1
<1> HIDE DEF max
<1> QED BY <1>3, <1>4, <1>5, DragBegins

\* Where the partitions of both tables lie.
LEMMA Slotted ==
    ASSUME NEW t \in Records, NEW m \in {NoMbr} \cup SUBSET Slots
    PROVE  \A q \in PartsOf(t) \cup (IF m = NoMbr THEN {} ELSE m) : q.lo \in Int /\ q.hi \in Int
<1>1. \A q \in Slots : q.lo \in Int /\ q.hi \in Int
  BY EditorAssumption DEF Cyls
<1>2. \A q \in PartsOf(t) : q.lo \in Int /\ q.hi \in Int
  BY Entries
<1> QED BY <1>1, <1>2

LEMMA PressGapInv == ASSUME Inv, Idle, PressGap PROVE Inv'
<1> DEFINE t == ed.rdb
           others == PartsOf(t) \cup (IF ed.mbr = NoMbr THEN {} ELSE ed.mbr)
           From(start) == Max({t.lo} \cup {q.hi + 1 : q \in {q \in others : q.hi < start}})
           To(start) == Min({t.hi} \cup {q.lo - 1 : q \in {q \in others : q.lo > start}})
<1>1. PICK at \in Cyls :
        /\ ed' = [ed EXCEPT !.drag =
                    Drag("new", 0, From(Max({at, t.lo})),
                         Max({From(Max({at, t.lo})), Min({Max({at, t.lo}), To(Max({at, t.lo}))})}),
                         From(Max({at, t.lo})), To(Max({at, t.lo})))]
        /\ ghost' = Ghost /\ UNCHANGED disk
  BY DEF PressGap
<1> DEFINE start == Max({at, t.lo})
<1>2. /\ phase = "edit" /\ phase' = "edit" /\ n' \in 0 .. MaxEvents
      /\ Within(ed.rdb, Allowed(ghost))
  BY IdleFound
<1>3. t \in Records /\ t.lo \in Nat /\ t.lo \in Int /\ t.hi \in Int /\ at \in Int
      /\ \A q \in others : q.lo \in Int /\ q.hi \in Int
  <2>1. t \in Records
    BY <1>2, Found DEF PressGap, HasTable, Tables
  <2> QED BY <1>2, <2>1, Found, Entries, Slotted DEF Cyls
<1>4. start \in Int
  <2>1. start \in {at, t.lo}
    BY <1>3, MaxPair, Zenon
  <2> HIDE DEF start
  <2> QED BY <1>3, <2>1
<1> HIDE DEF t, others, start
<1>5. From(start) \in Nat /\ To(start) \in Int
  BY <1>3, <1>4, Below, Above
<1> DEFINE hi == Max({From(start), Min({start, To(start)})})
<1>6. hi \in Int
  <2>1. Min({start, To(start)}) \in Int
    BY <1>4, <1>5, MinPair
  <2> HIDE DEF From, To
  <2>2. From(start) \in Int
    BY <1>5
  <2>3. hi \in {From(start), Min({start, To(start)})}
    BY <2>1, <2>2, MaxPair, Zenon
  <2> HIDE DEF hi
  <2> QED BY <2>1, <2>2, <2>3
<1> DEFINE d == Drag("new", 0, From(start), hi, From(start), To(start))
<1>7. ed' = [ed EXCEPT !.drag = d]
  BY <1>1 DEF t, start
<1> HIDE DEF From, To, hi
<1>8. d \in DragType /\ d.kind = "new" /\ d.i = 0
  <2> DEFINE min == From(start)
             max == To(start)
  <2>1. min \in Nat /\ max \in Int
    BY <1>5
  <2>2. d = Drag("new", 0, min, hi, min, max)
    OBVIOUS
  <2> HIDE DEF min, max, d
  <2> QED BY <1>6, <2>1, <2>2 DEF Drag, DragType
<1> HIDE DEF d
<1>9. ed' \in EdType /\ ed'.drag = d /\ ed'.rdb = ed.rdb
  BY <1>2, <1>7, <1>8, Found DEF EdType
<1>10. DragOK(ed', ghost') /\ Restored(ed'.rdb, ed'.drag) = ed.rdb
  BY <1>2, <1>8, <1>9, Found, NotDragged DEF DragOK
<1>11. Held(disk', ed', ghost')
  BY <1>1, <1>2, <1>9, <1>10, Found, GhostFields DEF Held
<1> QED BY <1>2, <1>11, Ended DEF Phases

---------------------------------------------------------------------------
(* The copy is read *)

LEMMA AllExtsOK ==
    ASSUME NEW S, NEW dk, DiskOK(dk, S)
    PROVE  /\ DiskOK(dk, AllExts(dk)) /\ AllExts(dk) \in SUBSET Anything
           /\ AllExts(dk) \subseteq S
<1>1. \A h \in 0 .. 1 : h = 0 \/ h = 1
  OBVIOUS
<1>2. /\ dk.t[0] \in Tables /\ dk.t[1] \in Tables
      /\ Exts(dk.t[0]) \subseteq S /\ Exts(dk.t[1]) \subseteq S
  BY DEF DiskOK, Within
<1>3. Exts(dk.t[0]) \subseteq Anything /\ Exts(dk.t[1]) \subseteq Anything
  BY <1>2, WithinAny DEF Within
<1>4. \A h \in 0 .. 1 : Within(dk.t[h], AllExts(dk))
  BY <1>1, <1>2 DEF Within, AllExts
<1> QED BY <1>2, <1>3, <1>4 DEF DiskOK, AllExts

LEMMA LoadedOK ==
    ASSUME NEW e \in EdType, NEW S, NEW dk, DiskOK(dk, S)
    PROVE  /\ Loaded(e, dk) \in EdType /\ Loaded(e, dk).rdb = Read(dk)
           /\ Loaded(e, dk).drag = e.drag /\ Loaded(e, dk).dirty = e.dirty
           /\ Loaded(e, dk).mbr = ReadMbr(dk)
<1>1. Read(dk) \in Tables
  BY ReadOK DEF Within
<1>2. ReadMbr(dk) \in {NoMbr} \cup SUBSET Slots
  BY DEF ReadMbr, DiskOK, Disks
<1> QED BY <1>1, <1>2 DEF Loaded, EdType

LEMMA StartInv == ASSUME Inv, Start PROVE Inv'
<1>1. /\ disk \in Starts /\ ed \in EdType /\ ghost \in GhostType /\ ed.drag = NoDrag
      /\ disk' = disk /\ n' = n /\ phase' = "edit" /\ n \in 0 .. MaxEvents
      /\ ed' = Loaded(ed, disk) /\ ghost' = [ghost EXCEPT !.accepted = AllExts(disk)]
  BY DEF Inv, Start
<1>2. DiskOK(disk, AllExts(disk)) /\ AllExts(disk) \in SUBSET Anything
  BY <1>1, StartsOK, AllExtsOK
<1>3. /\ ed' \in EdType /\ ed'.rdb = Read(disk) /\ ed'.drag = NoDrag
      /\ Within(ed'.rdb, AllExts(disk)) /\ Asked(ed'.rdb, ghost'.owed)
  BY <1>1, <1>2, LoadedOK, ReadOK, AskedNone
<1>4. ghost' \in GhostType /\ AllExts(disk) \subseteq Allowed(ghost')
  BY <1>1, <1>2 DEF GhostType, Allowed
<1>5. Held(disk', ed', ghost')
  BY <1>1, <1>2, <1>3, <1>4, Rested
<1> QED BY <1>1, <1>5, Ended DEF Phases

---------------------------------------------------------------------------
(* The mouse *)

\* What a motion does to the entry, the release takes back.
LEMMA TakenBack ==
    ASSUME NEW t \in Records, NEW d \in DragType, d.i \in DOMAIN t.parts,
           NEW a \in Nat, NEW b \in Int
    PROVE  /\ Restored(At(t, d.i, a, b), d) = Restored(t, d)
           /\ Restored([t EXCEPT !.parts[d.i].hi = b], d) = Restored(t, d)
<1> DEFINE u == At(t, d.i, a, b)
           v == [t EXCEPT !.parts[d.i].hi = b]
<1>1. d.i \in Nat /\ d.lo \in Nat /\ d.hi \in Int
  BY DEF DragType
<1>2. t.parts[d.i] \in Parts /\ t # NoTable
  BY Entries
<1>3. u = Put(t, d.i, Placing(t.parts[d.i], a, b)) /\ v = Put(t, d.i, Ending(t.parts[d.i], b))
  <2>1. u = Put(t, d.i, Placing(t.parts[d.i], a, b))
    BY <1>1, NewPlace, Zenon
  <2>2. v = Put(t, d.i, Ending(t.parts[d.i], b))
    <3>1. \A i \in DOMAIN t.parts :
             [t EXCEPT !.parts[i].hi = b] = Put(t, i, Ending(t.parts[i], b))
      BY NewEnd
    <3> QED BY <3>1, Zenon
  <2> QED BY <2>1, <2>2
<1>4. Placing(t.parts[d.i], a, b) \in Parts /\ Ending(t.parts[d.i], b) \in Parts
  BY <1>2, Places, Ends
<1>6. At(u, d.i, d.lo, d.hi) = At(t, d.i, d.lo, d.hi)
      /\ At(v, d.i, d.lo, d.hi) = At(t, d.i, d.lo, d.hi)
  <2>1. ASSUME NEW i \in DOMAIN t.parts, NEW lo \in Nat, NEW hi \in Int
        PROVE  /\ At(At(t, i, a, b), i, lo, hi) = At(t, i, lo, hi)
               /\ At([t EXCEPT !.parts[i].hi = b], i, lo, hi) = At(t, i, lo, hi)
    BY AtAt
  <2> QED BY <1>1, <2>1, Zenon
<1> HIDE DEF u, v
<1>5. /\ u \in Records /\ d.i \in DOMAIN u.parts /\ u # NoTable
      /\ v \in Records /\ d.i \in DOMAIN v.parts /\ v # NoTable
  BY <1>3, <1>4, PutEntry, Entries
<1> QED BY <1>2, <1>5, <1>6 DEF Restored, u, v

LEMMA Motion ==
    ASSUME NEW d \in DragType, NEW at \in Cyls, NEW c, c = Min({Max({at, d.min}), d.max})
    PROVE  c \in Int /\ (d.max \in Nat => c \in Nat)
<1>1. at \in Nat /\ d.min \in Nat /\ d.max \in Int
  BY EditorAssumption DEF Cyls, DragType
<1> DEFINE m == Max({at, d.min})
<1>2. at \in Int /\ d.min \in Int
  BY <1>1
<1>3. m \in {at, d.min}
  BY <1>2, MaxPair, Zenon
<1>4. m \in Nat /\ m \in Int
  BY <1>1, <1>3
<1> HIDE DEF m
<1>5. c \in {m, d.max}
  BY <1>1, <1>4, MinPair, Zenon DEF m
<1> QED BY <1>1, <1>4, <1>5

LEMMA MouseMoveInv == ASSUME Inv, MouseMove PROVE Inv'
<1> DEFINE d == ed.drag
           seen == d.i \in Indices
<1>1. PICK at \in Cyls :
        LET c == Min({Max({at, d.min}), d.max})
        IN  CASE d.kind = "resize" /\ seen -> ed' = [ed EXCEPT !.rdb.parts[d.i].hi = c]
              [] d.kind = "move" /\ seen -> ed' = [ed EXCEPT !.rdb = At(@, d.i, c, c + d.hi - d.lo)]
              [] d.kind = "new" -> ed' = [ed EXCEPT !.drag.hi = c]
              [] OTHER -> ed' = ed
  BY DEF MouseMove
<1> DEFINE c == Min({Max({at, d.min}), d.max})
<1>2. /\ phase = "edit" /\ phase' = "edit" /\ n' \in 0 .. MaxEvents /\ disk' = disk
      /\ ghost' = Ghost
  BY DEF MouseMove, Inv
<1>3. c \in Int /\ (d.max \in Nat => c \in Nat)
  BY <1>2, Found, Motion
<1> HIDE DEF c
<1>4. /\ ghost' \in GhostType /\ Allowed(ghost') = Allowed(ghost) /\ ghost'.split = ghost.split
      /\ ghost'.owed = ghost.owed /\ Asked(ed.rdb, ghost.owed)
  BY <1>2, Found, GhostFields
<1>5. SUFFICES ed' \in EdType /\ DragOK(ed', ghost') /\ Asked(ed'.rdb, ghost.owed)
               /\ Within(Restored(ed'.rdb, ed'.drag), Allowed(ghost))
  BY <1>2, <1>4, Found, Ended DEF Held, Phases
<1>6. CASE d.kind = "resize" /\ seen
  <2>1. /\ ed.rdb \in Records /\ d.i \in DOMAIN ed.rdb.parts /\ ed.rdb.parts[d.i] \in Parts
        /\ d \in DragType
    BY <1>2, <1>6, HasEntries, Found
  <2> DEFINE u == [ed.rdb EXCEPT !.parts[d.i].hi = c]
  <2>2. ed' = [ed EXCEPT !.rdb.parts[d.i].hi = c]
    BY <1>1, <1>6 DEF c
  <2>3. ed' = [ed EXCEPT !.rdb = u]
    BY <1>2, <2>1, <2>2, Found DEF EdType
  <2>4. u = Put(ed.rdb, d.i, Ending(ed.rdb.parts[d.i], c))
    BY <1>3, <2>1, NewEnd
  <2>5. Restored(u, d) = Restored(ed.rdb, d) /\ Asked(u, ghost.owed)
    <3>1. 0 \in Nat /\ Restored(u, d) = Restored(ed.rdb, d)
      BY <1>3, <2>1, TakenBack
    <3> HIDE DEF u
    <3> QED BY <1>3, <1>4, <2>1, <2>4, <3>1, AskedEnd
  <2> HIDE DEF u
  <2> DEFINE q == Ending(ed.rdb.parts[d.i], c)
  <2>6. q \in Parts /\ q.lo = ed.rdb.parts[d.i].lo
    BY <1>3, <2>1, Ends
  <2> HIDE DEF q
  <2>7. u \in Records /\ DOMAIN u.parts = DOMAIN ed.rdb.parts /\ u.parts[d.i] = q
    BY <2>1, <2>4, <2>6, PutEntry DEF q
  <2>8. ed' \in EdType /\ ed'.rdb = u /\ ed'.drag = d
    BY <1>2, <2>3, <2>7, Found DEF EdType, Tables
  <2>9. DragOK(ed', ghost')
    BY <1>2, <1>4, <1>6, <2>1, <2>6, <2>7, <2>8, Found, Entries DEF DragOK
  <2> QED BY <1>2, <2>5, <2>8, <2>9, Found
<1>7. CASE d.kind = "move" /\ seen
  <2>1. /\ ed.rdb \in Records /\ d.i \in DOMAIN ed.rdb.parts /\ ed.rdb.parts[d.i] \in Parts
        /\ d \in DragType /\ d.lo \in Int /\ d.hi \in Int /\ d.max \in Nat
    BY <1>2, <1>7, HasEntries, Found DEF DragOK, DragType
  <2> DEFINE b == c + d.hi - d.lo
             u == At(ed.rdb, d.i, c, b)
             q == Placing(ed.rdb.parts[d.i], c, b)
  <2>2. b \in Int /\ c \in Nat
    BY <1>3, <2>1
  <2>3. ed' = [ed EXCEPT !.rdb = u]
    BY <1>1, <1>7 DEF c
  <2> HIDE DEF b
  <2>4. u = Put(ed.rdb, d.i, q)
    BY <2>1, <2>2, NewPlace
  <2>5. Restored(u, d) = Restored(ed.rdb, d) /\ Asked(u, ghost.owed)
    <3>1. Restored(At(ed.rdb, d.i, c, b), d) = Restored(ed.rdb, d)
      BY <2>1, <2>2, TakenBack
    <3>2. Asked(At(ed.rdb, d.i, c, b), ghost.owed)
      BY <1>4, <2>1, <2>2, AskedEnd
    <3> QED BY <3>1, <3>2
  <2>6. q \in Parts
    BY <2>1, <2>2, Places
  <2> HIDE DEF u, q
  <2>7. u \in Records /\ DOMAIN u.parts = DOMAIN ed.rdb.parts
    BY <2>1, <2>4, <2>6, PutEntry
  <2>8. ed' \in EdType /\ ed'.rdb = u /\ ed'.drag = d
    BY <1>2, <2>3, <2>7, Found DEF EdType, Tables
  <2>9. DragOK(ed', ghost')
    BY <1>2, <1>4, <1>7, <2>1, <2>7, <2>8, Found, Entries DEF DragOK
  <2> QED BY <1>2, <2>5, <2>8, <2>9, Found
<1>8. CASE d.kind = "new"
  <2>1. ed' = [ed EXCEPT !.drag.hi = c]
    BY <1>1, <1>8 DEF c
  <2>2. d \in DragType /\ d.i = 0
    BY <1>2, <1>8, Found DEF DragOK
  <2> DEFINE f == [d EXCEPT !.hi = c]
  <2>3. f \in DragType /\ f.kind = "new" /\ f.i = 0
    BY <1>3, <1>8, <2>2 DEF DragType
  <2> HIDE DEF f
  <2>4. ed' \in EdType /\ ed'.rdb = ed.rdb /\ ed'.drag = f
    BY <1>2, <2>1, <2>3, Found DEF EdType, f
  <2>5. Restored(ed'.rdb, f) = ed.rdb /\ Restored(ed.rdb, d) = ed.rdb
    BY <1>2, <2>2, <2>3, <2>4, Found, NotDragged
  <2>6. DragOK(ed', ghost')
    BY <2>3, <2>4 DEF DragOK
  <2> QED BY <1>2, <1>4, <2>4, <2>5, <2>6, Found
<1>9. CASE ~(d.kind = "resize" /\ seen) /\ ~(d.kind = "move" /\ seen) /\ d.kind # "new"
  <2>1. ed' = ed
    BY <1>1, <1>9
  <2> QED BY <1>2, <1>4, <2>1, Found DEF DragOK
<1> QED BY <1>6, <1>7, <1>8, <1>9

---------------------------------------------------------------------------
(* Offers *)

\* The other entries have extents from S.
OthersWithin(t, i, S) == \A j \in DOMAIN t.parts : j # i => Ext(t.parts[j]) \in S

\* One entry is new, the others are as they were.
LEMMA PutWithin ==
    ASSUME NEW S, NEW t \in Records, NEW i \in DOMAIN t.parts, NEW q \in Parts,
           OthersWithin(t, i, S), NEW u, u = Put(t, i, q)
    PROVE  Within(u, S \cup {Ext(q)})
<1>1. /\ u \in Records /\ DOMAIN u.parts = DOMAIN t.parts /\ u.parts[i] = q
      /\ \A j \in DOMAIN t.parts : j # i => u.parts[j] = t.parts[j]
  BY PutEntry
<1>2. \A j \in DOMAIN u.parts : Ext(u.parts[j]) \in S \cup {Ext(q)}
  BY <1>1 DEF OthersWithin
<1> QED BY <1>1, <1>2, WithinEach

LEMMA SameEnd ==
    ASSUME NEW t \in Records, NEW i \in DOMAIN t.parts
    PROVE  [t EXCEPT !.parts[i].hi = t.parts[i].hi] = t
<1> DEFINE p == t.parts[i]
<1>1. p \in Parts /\ p.hi \in Int
  BY Entries
<1>2. Ending(p, p.hi) = p
  BY <1>1, Ends
<1>3. [t EXCEPT !.parts[i].hi = p.hi] = Put(t, i, Ending(p, p.hi))
  BY <1>1, NewEnd
<1> QED BY <1>2, <1>3, PutSame

\* The entry with another end.
Longer(t, i, hi) == [t EXCEPT !.parts[i].hi = hi]

\* The disk is left alone or the table written.
Carried(o) == o.disk = disk \/ \E w \in Written(disk, o.t) : o.disk = w.disk

\* An offer leaves the entry with some end, and the disk alone or the table written.
LEMMA OfferForm ==
    ASSUME NEW t \in Records, NEW i \in DOMAIN t.parts, NEW old \in Int, NEW o \in Offers(t, i, old)
    PROVE  /\ \E hi \in Int : o.t = Longer(t, i, hi)
           /\ Carried(o)
           /\ o.g = "none" => o.t = t /\ o.disk = disk
           /\ o.g = "aborted" => o.t = Longer(t, i, old) /\ o.disk = disk
<1> DEFINE p == t.parts[i]
<1>1. p.hi \in Int /\ t = Longer(t, i, p.hi)
  BY Entries, SameEnd DEF Longer
<1>2. ASSUME NEW v, NEW dk, NEW g, o = Offer(v, dk, g)
      PROVE  o.t = v /\ o.disk = dk /\ o.g = g
  BY <1>2 DEF Offer
<1>3. CASE o = Declined(t)
  <2>1. o.t = t /\ o.disk = disk /\ o.g = "none"
    BY <1>2, <1>3 DEF Declined
  <2>2. Carried(o)
    BY <2>1 DEF Carried
  <2> QED BY <1>1, <2>1, <2>2
<1>4. CASE o = Aborted(t, i, old)
  <2>1. o.t = Longer(t, i, old) /\ o.disk = disk /\ o.g = "aborted"
    BY <1>2, <1>4 DEF Aborted, Longer
  <2>2. Carried(o)
    BY <2>1 DEF Carried
  <2> QED BY <2>1, <2>2
<1>5. ASSUME NEW hi \in Int, NEW v, v = Longer(t, i, hi),
             NEW w \in Written(disk, v), NEW g \in {"remounted", "reboot"},
             o = Offer(v, w.disk, g)
      PROVE  /\ \E h \in Int : o.t = Longer(t, i, h)
             /\ Carried(o)
             /\ o.g # "none" /\ o.g # "aborted"
  <2>1. o.t = v /\ o.disk = w.disk /\ o.g = g
    BY <1>2, <1>5
  <2>2. Carried(o)
    BY <1>5, <2>1 DEF Carried
  <2> QED BY <1>5, <2>1, <2>2
<1>6. CASE o \in Grown(t, i, old)
  <2>1. \/ o = Declined(t) \/ o = Aborted(t, i, old)
        \/ \E w \in Written(disk, t), g \in {"remounted", "reboot"} : o = Offer(t, w.disk, g)
    BY <1>6 DEF Grown, OfferFfsGrow, OfferPfsGrow, OfferSfsGrow, Wrote
  <2>2. CASE \E w \in Written(disk, t), g \in {"remounted", "reboot"} : o = Offer(t, w.disk, g)
    <3>1. PICK w \in Written(disk, t), g \in {"remounted", "reboot"} : o = Offer(t, w.disk, g)
      BY <2>2
    <3> HIDE DEF p
    <3> QED BY <1>1, <1>5, <3>1, Zenon
  <2> QED BY <1>3, <1>4, <2>1, <2>2
<1>7. CASE o \in Shrunk(t, i, old)
  <2> DEFINE s(h) == Longer(t, i, h)
  <2>1. \/ o = Declined(t) \/ o = Aborted(t, i, old)
        \/ \E h \in p.hi .. (old - 1) : \E w \in Written(disk, s(h)), g \in {"remounted", "reboot"} :
              o = Offer(s(h), w.disk, g)
    BY <1>7 DEF Shrunk, Longer
  <2>2. CASE \E h \in p.hi .. (old - 1) : \E w \in Written(disk, s(h)), g \in {"remounted", "reboot"} :
                o = Offer(s(h), w.disk, g)
    <3>1. PICK h \in p.hi .. (old - 1) : \E w \in Written(disk, s(h)), g \in {"remounted", "reboot"} :
                o = Offer(s(h), w.disk, g)
      BY <2>2
    <3>2. PICK w \in Written(disk, s(h)), g \in {"remounted", "reboot"} : o = Offer(s(h), w.disk, g)
      BY <3>1
    <3>3. h \in Int
      BY <1>1
    <3> HIDE DEF p
    <3> QED BY <1>5, <3>2, <3>3, Zenon
  <2> QED BY <1>3, <1>4, <2>1, <2>2
<1> QED BY <1>3, <1>6, <1>7 DEF Offers

LEMMA OffersOK ==
    ASSUME NEW t \in Records, NEW i \in DOMAIN t.parts, NEW old \in Int, NEW o \in Offers(t, i, old),
           NEW S, DiskOK(disk, S), OthersWithin(t, i, S), NEW e, e = Ext(o.t.parts[i])
    PROVE  /\ o.t \in Records /\ i \in DOMAIN o.t.parts /\ e \in Anything
           /\ DiskOK(o.disk, S \cup {e}) /\ Within(o.t, S \cup {e})
           /\ DOMAIN o.t.parts = DOMAIN t.parts /\ o.t.parts[i].name = t.parts[i].name
           /\ o.t.parts[i].want = t.parts[i].want
           /\ AsksAs(t, o.t)
<1>1. PICK hi \in Int : o.t = Longer(t, i, hi)
  BY OfferForm, Zenon
<1> DEFINE q == Ending(t.parts[i], hi)
<1>2. o.t = Put(t, i, q)
  BY <1>1, NewEnd DEF Longer
<1>3. q \in Parts /\ q.name = t.parts[i].name /\ q.want = t.parts[i].want
  BY Entries, Ends
<1> HIDE DEF q
<1>4. /\ o.t \in Records /\ DOMAIN o.t.parts = DOMAIN t.parts /\ o.t.parts[i] = q
      /\ \A j \in DOMAIN t.parts : j # i => o.t.parts[j] = t.parts[j]
  BY <1>2, <1>3, PutEntry
<1>5. Within(o.t, S \cup {e})
  BY <1>2, <1>3, <1>4, PutWithin
<1>6. DiskOK(disk, S \cup {e})
  BY DiskMore
<1>7. DiskOK(o.disk, S \cup {e})
  <2>1. Carried(o)
    BY OfferForm, Zenon
  <2> QED BY <1>5, <1>6, <2>1, WrittenOK DEF Carried
<1>8. e \in Anything
  <2>1. o.t.parts[i] \in Parts /\ o.t.parts[i].name \in Names
        /\ o.t.parts[i].lo \in Nat /\ o.t.parts[i].hi \in Int
    BY <1>4, Entries
  <2> QED BY <2>1 DEF Ext, Anything
<1>9. AsksAs(t, o.t)
  BY <1>2, <1>3, AskedPut DEF AsksAs
<1> QED BY <1>3, <1>4, <1>5, <1>7, <1>8, <1>9

---------------------------------------------------------------------------
(* The button goes up *)

\* What ends an event, or a drag, without another one.
LEMMA Closes ==
    ASSUME Inv, n' \in 0 .. MaxEvents, phase' \in Phases, NEW S,
           DiskOK(disk', S), ed' \in EdType, ed'.drag = NoDrag, Within(ed'.rdb, S),
           ghost' \in GhostType, S \subseteq Allowed(ghost'), Asked(ed'.rdb, ghost'.owed)
    PROVE  Inv'
<1>1. Held(disk', ed', ghost')
  BY Rested
<1> QED BY <1>1, Ended

LEMMA GhostCloses ==
    ASSUME Inv, phase = "edit", n' \in 0 .. MaxEvents, phase' \in Phases,
           DiskOK(disk', Allowed(ghost)), ed' \in EdType, ed'.drag = NoDrag,
           Within(ed'.rdb, Allowed(ghost)), Asked(ed'.rdb, ghost.owed), ghost' = Ghost
    PROVE  Inv'
<1>1. ghost' \in GhostType /\ Allowed(ghost') = Allowed(ghost) /\ ghost'.owed = ghost.owed
  BY Found, GhostFields
<1> QED BY <1>1, Closes

LEMMA Undragged ==
    ASSUME Inv, phase = "edit"
    PROVE  /\ [Released EXCEPT !.rdb = Restored(@, ed.drag)] \in EdType
           /\ [Released EXCEPT !.rdb = Restored(@, ed.drag)].drag = NoDrag
           /\ [Released EXCEPT !.rdb = Restored(@, ed.drag)].rdb = Restored(ed.rdb, ed.drag)
           /\ [Released EXCEPT !.rdb = Restored(@, ed.drag)].dirty = ed.dirty
           /\ Restored(ed.rdb, ed.drag) \in Tables
           /\ Asked(Restored(ed.rdb, ed.drag), ghost.owed)
<1>1. Restored(ed.rdb, ed.drag) \in Tables
  BY Found DEF Within
<1>2. Asked(Restored(ed.rdb, ed.drag), ghost.owed)
  BY Found, AskedRestored
<1> QED BY <1>1, <1>2, Found, NoDragType DEF EdType, Released

LEMMA NewSizeInv == ASSUME Inv, NewSize PROVE Inv'
<1>1. phase = "edit" /\ phase' = "edit" /\ n' \in 0 .. MaxEvents
      /\ ghost' = Ghost /\ disk' = disk
      /\ ed' = [ed EXCEPT !.rdb = Restored(@, ed.drag), !.drag = NoDrag]
  BY DEF NewSize, Inv
<1>2. Restored(ed.rdb, ed.drag) \in Tables /\ Asked(Restored(ed.rdb, ed.drag), ghost.owed)
  BY <1>1, Undragged
<1>3. ed' \in EdType /\ ed'.rdb = Restored(ed.rdb, ed.drag) /\ ed'.drag = NoDrag
  BY <1>1, <1>2, Found, NoDragType DEF EdType
<1> QED BY <1>1, <1>2, <1>3, Found, GhostCloses DEF Phases

LEMMA CancelledInv ==
    ASSUME Inv, phase = "edit", UNCHANGED <<phase, n>>, Cancelled
    PROVE  Inv'
<1>1. /\ ed' = [Released EXCEPT !.rdb = Restored(@, ed.drag)]
      /\ ghost' = Ghost /\ disk' = disk /\ n' \in 0 .. MaxEvents
  BY DEF Cancelled, Inv
<1> QED BY <1>1, Undragged, Found, GhostCloses DEF Phases

\* The entries that are not dragged are as they were.
LEMMA OthersKept ==
    ASSUME NEW S, NEW t \in Records, NEW d \in DragType, Within(Restored(t, d), S)
    PROVE  /\ OthersWithin(t, d.i, S)
           /\ d.i \notin DOMAIN t.parts => Within(t, S)
<1>1. CASE d.i \notin DOMAIN t.parts
  <2>1. Restored(t, d) = t
    BY <1>1 DEF Restored
  <2> QED BY <2>1, WithinEach DEF OthersWithin
<1>2. CASE d.i \in DOMAIN t.parts
  <2>1. d.lo \in Nat /\ d.hi \in Int /\ t.parts[d.i] \in Parts /\ t # NoTable
    BY <1>2, Entries DEF DragType
  <2> DEFINE q == Placing(t.parts[d.i], d.lo, d.hi)
             u == Restored(t, d)
  <2>2. u = Put(t, d.i, q)
    BY <1>2, <2>1, NewPlace DEF Restored
  <2>3. q \in Parts
    BY <2>1, Places
  <2> HIDE DEF q, u
  <2>4. /\ u \in Records /\ DOMAIN u.parts = DOMAIN t.parts
        /\ \A j \in DOMAIN t.parts : j # d.i => u.parts[j] = t.parts[j]
    BY <1>2, <2>2, <2>3, PutEntry
  <2>5. \A j \in DOMAIN u.parts : Ext(u.parts[j]) \in S
    BY <2>4, WithinEach DEF u
  <2> QED BY <1>2, <2>4, <2>5 DEF OthersWithin
<1> QED BY <1>1, <1>2

LEMMA KeptInv ==
    ASSUME Inv, phase = "edit", UNCHANGED <<phase, n>>, Kept
    PROVE  Inv'
<1> DEFINE d == ed.drag
           x == Ext(ed.rdb.parts[d.i])
<1>1. /\ ed' = [Unsaved(Released) EXCEPT !.reboot = TRUE] /\ disk' = disk
      /\ ghost' = IF d.i \in Indices THEN Agreed({x}) ELSE Ghost
      /\ n' \in 0 .. MaxEvents /\ phase' \in Phases
  BY DEF Kept, Inv, Phases
<1>2. ed' \in EdType /\ ed'.rdb = ed.rdb /\ ed'.drag = NoDrag
  BY <1>1, Found, NoDragType DEF EdType, Unsaved, Released
<1>3. CASE d.i \in Indices
  <2>1. ed.rdb \in Records /\ d.i \in DOMAIN ed.rdb.parts
    BY <1>3, HasEntries
  <2>2. x \in Anything
    <3> DEFINE p == ed.rdb.parts[d.i]
    <3>1. p.name \in Names /\ p.lo \in Nat /\ p.hi \in Int
      BY <2>1, Entries
    <3>2. x = <<p.name, p.lo, p.hi>>
      BY DEF Ext
    <3> HIDE DEF p, x
    <3> QED BY <3>1, <3>2 DEF Anything
  <2>3. OthersWithin(ed.rdb, d.i, Allowed(ghost))
    BY <2>1, Found, OthersKept
  <2>4. \A j \in DOMAIN ed.rdb.parts : Ext(ed.rdb.parts[j]) \in Allowed(ghost) \cup {x}
    BY <2>3 DEF OthersWithin
  <2> HIDE DEF x
  <2>5. Within(ed.rdb, Allowed(ghost) \cup {x}) /\ DiskOK(disk, Allowed(ghost) \cup {x})
    BY <2>1, <2>4, WithinEach, DiskMore, Found
  <2>6. /\ ghost' \in GhostType /\ Allowed(ghost) \cup {x} \subseteq Allowed(ghost')
        /\ Asked(ed'.rdb, ghost'.owed)
    BY <1>1, <1>2, <1>3, <2>2, Found, AgreedFields
  <2> QED BY <1>1, <1>2, <2>5, <2>6, Closes
<1>4. CASE d.i \notin Indices
  <2>1. Restored(ed.rdb, d) = ed.rdb
    BY <1>4 DEF Restored, Indices, HasTable
  <2> QED BY <1>1, <1>2, <1>4, <2>1, Found, GhostCloses
<1> QED BY <1>3, <1>4

LEMMA ResizedInv ==
    ASSUME Inv, phase = "edit", UNCHANGED <<phase, n>>, Resized
    PROVE  Inv'
<1> DEFINE d == ed.drag
           p == ed.rdb.parts[d.i]
<1>1. PICK o \in Offers(ed.rdb, d.i, d.hi) :
        /\ disk' = o.disk
        /\ ed' = [Released EXCEPT !.rdb = o.t, !.dirty = @ \/ p.hi > d.hi \/ o.g # "aborted",
                                  !.reboot = @ \/ o.g = "reboot"]
        /\ ghost' = Agreed({Ext(o.t.parts[d.i])})
  BY DEF Resized
<1> DEFINE x == Ext(o.t.parts[d.i])
<1>2. /\ ed.rdb \in Records /\ d.i \in DOMAIN ed.rdb.parts /\ d \in DragType /\ d.hi \in Int
      /\ n' \in 0 .. MaxEvents /\ phase' \in Phases
  BY Found, HasEntries DEF Resized, DragType, Inv, Phases
<1>3. OthersWithin(ed.rdb, d.i, Allowed(ghost))
  BY <1>2, Found, OthersKept
<1>4. /\ o.t \in Records /\ x \in Anything
      /\ DiskOK(o.disk, Allowed(ghost) \cup {x}) /\ Within(o.t, Allowed(ghost) \cup {x})
      /\ AsksAs(ed.rdb, o.t)
  <2>1. DiskOK(disk, Allowed(ghost))
    BY Found
  <2>2. x = Ext(o.t.parts[d.i])
    OBVIOUS
  <2> HIDE DEF x, d
  <2>3. /\ o.t \in Records /\ x \in Anything
        /\ DiskOK(o.disk, Allowed(ghost) \cup {x}) /\ Within(o.t, Allowed(ghost) \cup {x})
    BY <1>2, <1>3, <2>1, <2>2, OffersOK, Zenon DEF d
  <2>4. AsksAs(ed.rdb, o.t)
    BY <1>2, <1>3, <2>1, <2>2, OffersOK, Zenon DEF d
  <2> QED BY <2>3, <2>4
<1> HIDE DEF x
<1>5. /\ ghost' \in GhostType /\ Allowed(ghost) \cup {x} \subseteq Allowed(ghost')
      /\ Asked(o.t, ghost'.owed)
  BY <1>1, <1>4, Found, AgreedFields DEF x, AsksAs
<1>6. ed' \in EdType /\ ed'.rdb = o.t /\ ed'.drag = NoDrag
  BY <1>1, <1>4, Found, NoDragType DEF EdType, Released, Tables
<1> QED BY <1>1, <1>2, <1>4, <1>5, <1>6, Closes

LEMMA ReleaseEdgeInv == ASSUME Inv, ReleaseEdge PROVE Inv'
BY CancelledInv, KeptInv, ResizedInv DEF ReleaseEdge

---------------------------------------------------------------------------
(* New entries *)

\* Where the dialog can let an entry end.
LEMMA DialogTopInt ==
    ASSUME NEW t \in Records, NEW i, NEW lo \in Int
    PROVE  DialogTop(t, i, lo) \in Int
<1> DEFINE S == {t.hi} \cup {t.parts[j].lo - 1 :
                               j \in {j \in DOMAIN t.parts \ {i} : t.parts[j].lo > lo}}
           b == IF t.hi <= lo THEN t.hi ELSE lo
<1>1. t.hi \in Int /\ \A j \in DOMAIN t.parts : t.parts[j].lo \in Int
  BY Entries
<1>2. S \in SUBSET Int /\ S # {} /\ b \in Int /\ \A x \in S : b <= x
  BY <1>1
<1> HIDE DEF S, b
<1>3. Min(S) \in Int
  BY <1>2, LeastOf
<1> QED BY <1>3 DEF DialogTop, S

LEMMA DialogEndsInt ==
    ASSUME NEW t \in Records, NEW i, NEW lo \in Nat, NEW hi \in Int
    PROVE  DialogEnds(t, i, lo, hi) \subseteq Int
<1>1. DialogTop(t, i, lo) \in Int
  BY DialogTopInt
<1>2. ASSUME NEW h \in lo .. TopCyl PROVE Min({h, DialogTop(t, i, lo)}) \in Int
  <2>1. h \in Int
    BY EditorAssumption
  <2>2. Min({h, DialogTop(t, i, lo)}) \in {h, DialogTop(t, i, lo)}
    BY <1>1, <2>1, MinPair, Zenon
  <2> QED BY <1>1, <2>1, <2>2
<1> QED BY <1>2 DEF DialogEnds

\* An entry at the end of the list.
Adding(t, p) == [t EXCEPT !.parts = Append(@, p)]

LEMMA Appends ==
    ASSUME NEW t \in Records, NEW p \in Parts
    PROVE  /\ Adding(t, p) \in Records
           /\ Adding(t, p).home = t.home /\ Adding(t, p).lo = t.lo
           /\ DOMAIN Adding(t, p).parts = DOMAIN t.parts \cup {Len(t.parts) + 1}
           /\ Len(t.parts) + 1 \notin DOMAIN t.parts
           /\ Adding(t, p).parts[Len(t.parts) + 1] = p
           /\ \A j \in DOMAIN t.parts : Adding(t, p).parts[j] = t.parts[j]
<1> DEFINE s == Append(t.parts, p)
           u == Adding(t, p)
<1>1. /\ t.parts \in Seq(Parts) /\ DOMAIN t.parts = 1 .. Len(t.parts) /\ Len(t.parts) \in Nat
  BY Entries
<1>2. /\ s \in Seq(Parts) /\ DOMAIN s = DOMAIN t.parts \cup {Len(t.parts) + 1}
      /\ s[Len(t.parts) + 1] = p /\ \A j \in DOMAIN t.parts : s[j] = t.parts[j]
  BY <1>1
<1>3. u = [t EXCEPT !.parts = s]
  BY DEF Adding
<1> HIDE DEF s, u
<1>4. u \in Records /\ u.parts = s /\ u.home = t.home /\ u.lo = t.lo
  BY <1>2, <1>3, PartsExcept
<1> QED BY <1>1, <1>2, <1>4 DEF u

LEMMA AppendsWithin ==
    ASSUME NEW S, NEW t \in Records, Within(t, S), NEW p \in Parts
    PROVE  Within(Adding(t, p), S \cup {Ext(p)})
<1> DEFINE k == Len(t.parts) + 1
           u == Adding(t, p)
<1>1. /\ u \in Records /\ DOMAIN u.parts = DOMAIN t.parts \cup {k}
      /\ u.parts[k] = p /\ \A j \in DOMAIN t.parts : u.parts[j] = t.parts[j]
  BY Appends
<1>2. \A j \in DOMAIN t.parts : Ext(t.parts[j]) \in S
  BY WithinEach
<1> HIDE DEF k, u
<1>3. \A j \in DOMAIN u.parts : Ext(u.parts[j]) \in S \cup {Ext(p)}
  BY <1>1, <1>2
<1>4. Within(u, S \cup {Ext(p)})
  BY <1>1, <1>3, WithinEach
<1> QED BY <1>4 DEF u

LEMMA AppendsAsked ==
    ASSUME NEW t \in Records, NEW p \in Parts, NEW Y, NEW Z, Asked(t, Y),
           \A j \in DOMAIN t.parts : t.parts[j].name # p.name,
           p.want => p.name \in Z, Y \ {p.name} \subseteq Z
    PROVE  Asked(Adding(t, p), Z)
<1> DEFINE k == Len(t.parts) + 1
           u == Adding(t, p)
<1>1. /\ t # NoTable /\ u \in Records /\ DOMAIN u.parts = DOMAIN t.parts \cup {k}
      /\ k \notin DOMAIN t.parts
      /\ u.parts[k] = p /\ \A j \in DOMAIN t.parts : u.parts[j] = t.parts[j]
  BY Appends, Entries
<1> HIDE DEF k, u
<1>2. ASSUME NEW i \in DOMAIN u.parts, u.parts[i].want
      PROVE  /\ u.parts[i].name \in Z
             /\ \A j \in DOMAIN u.parts : j # i => u.parts[j].name # u.parts[i].name
  <2>1. CASE i = k
    BY <1>1, <1>2, <2>1
  <2>2. CASE i \in DOMAIN t.parts
    BY <1>1, <1>2, <2>2 DEF Asked
  <2> QED BY <1>1, <2>1, <2>2
<1>3. Asked(u, Z)
  BY <1>2 DEF Asked
<1> QED BY <1>3 DEF u

LEMMA AppendedInv ==
    ASSUME Inv, phase = "edit", n' \in 0 .. MaxEvents, phase' \in Phases,
           NEW t \in Records, Within(t, Allowed(ghost)), NEW lo \in Nat, NEW hi \in Int,
           Asked(t, ghost.owed), Appended(t, lo, hi)
    PROVE  Inv'
<1>1. PICK name \in Unused(t, 0), end \in DialogEnds(t, 0, lo, hi), want \in BOOLEAN :
         LET p == NewPart(name, lo, end, want)
         IN  /\ ed' = [Unsaved(Released) EXCEPT !.rdb = [t EXCEPT !.parts = Append(@, p)],
                                                !.reboot = @ \/ ~want]
             /\ ghost' = [Agreed({Ext(p)}) EXCEPT !.owed = IF want THEN @ \cup {name} ELSE @ \ {name}]
  BY DEF Appended
<1> DEFINE p == NewPart(name, lo, end, want)
           u == Adding(t, p)
           x == Ext(p)
           owed == IF want THEN ghost.owed \cup {name} ELSE ghost.owed \ {name}
<1>2. /\ end \in Int /\ name \in Names /\ disk' = disk
      /\ \A j \in DOMAIN t.parts : t.parts[j].name # name
  <2>1. DOMAIN t.parts \ {0} = DOMAIN t.parts
    BY Entries
  <2>2. name \in Names /\ \A j \in DOMAIN t.parts : t.parts[j].name # name
    BY <2>1 DEF Unused
  <2> QED BY <1>1, <2>2, DialogEndsInt DEF Appended
<1>3. p \in Parts /\ x \in Anything /\ p.name = name /\ p.want = want
  BY <1>2 DEF NewPart, Parts, Ext, Anything
<1>4. ed' = [Unsaved(Released) EXCEPT !.rdb = u, !.reboot = @ \/ ~want]
      /\ ghost' = [Agreed({x}) EXCEPT !.owed = IF want THEN @ \cup {name} ELSE @ \ {name}]
  BY <1>1 DEF Adding
<1> HIDE DEF p, x
<1>5. u \in Records
  BY <1>3, Appends
<1>6. Within(u, Allowed(ghost) \cup {x})
  BY <1>3, AppendsWithin DEF x
<1>13. Asked(u, owed)
  <2>1. (p.want => p.name \in owed) /\ ghost.owed \ {p.name} \subseteq owed
    BY <1>3
  <2> HIDE DEF owed
  <2> QED BY <1>2, <1>3, <2>1, AppendsAsked
<1> HIDE DEF u
<1>7. DiskOK(disk, Allowed(ghost) \cup {x})
  BY DiskMore, Found
<1>8. ed' \in EdType /\ ed'.rdb = u /\ ed'.drag = NoDrag
  BY <1>4, <1>5, Found, NoDragType DEF EdType, Unsaved, Released, Tables
<1>9. /\ Agreed({x}) \in GhostType /\ Allowed(ghost) \cup {x} \subseteq Allowed(Agreed({x}))
      /\ Agreed({x}).owed = ghost.owed /\ ghost.owed \in SUBSET Names
  BY <1>3, Found, AgreedFields DEF GhostType
<1>10. owed \in SUBSET Names
  BY <1>2, <1>9
<1>11. ghost' = [Agreed({x}) EXCEPT !.owed = owed]
  BY <1>4, <1>9
<1> HIDE DEF owed
<1>12. ghost' \in GhostType /\ Allowed(ghost) \cup {x} \subseteq Allowed(ghost')
       /\ ghost'.owed = owed
  BY <1>9, <1>10, <1>11, OwedFields
<1> QED BY <1>2, <1>6, <1>7, <1>8, <1>12, <1>13, Closes

LEMMA ReleaseGapInv == ASSUME Inv, ReleaseGap PROVE Inv'
<1>1. phase = "edit" /\ ed.drag.kind = "new" /\ n' \in 0 .. MaxEvents /\ phase' \in Phases
  BY DEF ReleaseGap, Inv, Phases
<1>2. CASE Cancelled
  BY <1>1, <1>2, CancelledInv DEF ReleaseGap
<1>3. CASE HasTable /\ Appended(ed.rdb, ed.drag.lo, ed.drag.hi)
  <2>1. /\ ed.rdb \in Records /\ ed.drag \in DragType /\ ed.drag.i = 0
        /\ ed.drag.lo \in Nat /\ ed.drag.hi \in Int
    BY <1>1, <1>3, Found DEF HasTable, Tables, DragOK, DragType
  <2>2. Within(ed.rdb, Allowed(ghost)) /\ Asked(ed.rdb, ghost.owed)
    BY <1>1, <2>1, Found, NotDragged
  <2> QED BY <1>1, <1>3, <2>1, <2>2, AppendedInv
<1> QED BY <1>2, <1>3 DEF ReleaseGap

\* A new table has no entries.
LEMMA FreshOK ==
    ASSUME NEW home \in 0 .. 1
    PROVE  /\ Fresh(home) \in Records /\ Fresh(home).parts = <<>> /\ Fresh(home).home = home
           /\ \A S : Within(Fresh(home), S) /\ Asked(Fresh(home), S)
<1>1. Fresh(home) \in Records /\ Fresh(home).parts = <<>> /\ Fresh(home).home = home
  BY EditorAssumption DEF Fresh, Records
<1>2. DOMAIN Fresh(home).parts = {}
  BY <1>1
<1> QED BY <1>1, <1>2, WithinEach DEF Asked

\* Finitely many integers have a bound, for a smallest set without one could lose an element.
LEMMA BoundOf ==
    ASSUME NEW S \in SUBSET Int, IsFiniteSet(S)
    PROVE  \E m \in Int : \A x \in S : x <= m
<1> DEFINE Bounded(T) == \E m \in Int : \A x \in T : x <= m
           sizes == {Cardinality(T) : T \in {T \in SUBSET S : ~Bounded(T)}}
<1>1. SUFFICES ASSUME ~Bounded(S) PROVE FALSE
  OBVIOUS
<1>2. \A T \in SUBSET S : IsFiniteSet(T) /\ Cardinality(T) \in Nat
  BY FS_Subset, FS_CardinalityType
<1>3. sizes \in SUBSET Int /\ sizes # {} /\ \A k \in sizes : 0 <= k
  BY <1>1, <1>2
<1>4. PICK T \in SUBSET S : ~Bounded(T) /\ \A k \in sizes : Cardinality(T) <= k
  <2> HIDE DEF sizes
  <2>1. Min(sizes) \in sizes /\ \A k \in sizes : Min(sizes) <= k
    BY <1>3, LeastOf
  <2> QED BY <2>1 DEF sizes
<1>5. PICK x \in T : TRUE
  <2>1. T # {}
    BY <1>4
  <2> QED BY <2>1
<1> DEFINE U == T \ {x}
<1>6. U \in SUBSET S /\ Cardinality(U) < Cardinality(T)
  BY <1>2, <1>5, FS_RemoveElement
<1>7. Bounded(U)
  BY <1>2, <1>4, <1>6
<1>8. PICK m \in Int : \A y \in U : y <= m
  BY <1>7
<1>9. \A y \in T : y <= (IF m <= x THEN x ELSE m)
  BY <1>8
<1> QED BY <1>4, <1>9

\* The entries of a table do not end beyond all bounds.
LEMMA EndsBounded ==
    ASSUME NEW t \in Records
    PROVE  \E m \in Int : \A q \in PartsOf(t) : q.hi <= m
<1> DEFINE S == {t.parts[i].hi : i \in DOMAIN t.parts}
<1>1. /\ DOMAIN t.parts = 1 .. Len(t.parts) /\ Len(t.parts) \in Nat
      /\ PartsOf(t) = {t.parts[i] : i \in DOMAIN t.parts}
      /\ \A i \in DOMAIN t.parts : t.parts[i].hi \in Int
  BY Entries
<1>2. IsFiniteSet(DOMAIN t.parts)
  BY <1>1, FS_Interval
<1>3. IsFiniteSet(S)
  <2> DEFINE f == [i \in DOMAIN t.parts |-> t.parts[i].hi]
  <2>1. f \in Surjection(DOMAIN t.parts, S)
    BY DEF Surjection
  <2> QED BY <1>2, <2>1, FS_Surjection
<1>4. S \in SUBSET Int
  BY <1>1
<1>5. \A q \in PartsOf(t) : q.hi \in S
  BY <1>1
<1> HIDE DEF S
<1> QED BY <1>3, <1>4, <1>5, BoundOf

LEMMA FreeRangeInt ==
    ASSUME NEW t \in Records, ed.mbr \in {NoMbr} \cup SUBSET Slots
    PROVE  FreeRange(t)[1] \in Nat /\ FreeRange(t)[2] \in Int
<1> DEFINE others == PartsOf(t) \cup (IF ed.mbr = NoMbr THEN {} ELSE ed.mbr)
           ends == {t.lo} \cup {q.hi + 1 : q \in others}
           gap == {c \in ends : c >= t.lo /\ \A q \in others : c \notin Span(q)}
           lo == Min(gap)
           above == {q.lo : q \in {q \in others : q.lo > lo}}
<1>1. t.lo \in Nat /\ t.hi \in Nat
  BY Entries
<1>2. FreeRange(t) = <<lo, IF above = {} THEN t.hi ELSE Min(above) - 1>>
  BY DEF FreeRange
<1>3. \A q \in others : q.lo \in Int /\ q.hi \in Int
  BY Slotted
<1>4. PICK b \in Int : \A q \in others : q.hi <= b
  <2>1. PICK b \in Int : \A q \in PartsOf(t) : q.hi <= b
    BY EndsBounded
  <2>2. \A q \in Slots : q.hi \in Int /\ q.hi <= TopCyl
    BY EditorAssumption DEF Cyls
  <2>3. TopCyl \in Int /\ \A q \in others : q.hi <= b \/ q.hi <= TopCyl
    BY <2>1, <2>2, EditorAssumption
  <2> HIDE DEF others
  <2>4. \A q \in others : q.hi <= (IF b <= TopCyl THEN TopCyl ELSE b)
    BY <1>3, <2>3
  <2> QED BY <2>3, <2>4
<1> HIDE DEF others
<1>5. gap \in SUBSET Int /\ \A x \in gap : x \in Nat /\ t.lo <= x
  BY <1>1, <1>3
<1>6. gap # {}
  <2>1. ends \in SUBSET Int /\ t.lo \in ends /\ \A q \in others : q.hi + 1 \in ends
    BY <1>1, <1>3
  <2>2. PICK u \in Int : \A x \in ends : x <= u
    <3>1. \A x \in ends : x <= (IF b + 1 <= t.lo THEN t.lo ELSE b + 1)
      BY <1>1, <1>3, <1>4
    <3> QED BY <1>1, <3>1
  <2> HIDE DEF ends
  <2>3. PICK m \in ends : \A x \in ends : x <= m
    <3>1. ends # {}
      BY <2>1
    <3>2. Max(ends) \in ends /\ \A x \in ends : x <= Max(ends)
      BY <2>1, <2>2, <3>1, GreatestOf
    <3> QED BY <3>2
  <2>4. m >= t.lo /\ \A q \in others : q.hi < m
    <3>1. m \in Int /\ t.lo <= m
      BY <2>1, <2>3
    <3>2. ASSUME NEW q \in others PROVE q.hi < m
      <4>1. q.hi + 1 \in ends
        BY <2>1
      <4>2. q.hi + 1 <= m
        BY <2>3, <4>1
      <4> QED BY <1>3, <3>1, <4>2
    <3> QED BY <1>1, <3>1, <3>2
  <2>5. \A q \in others : m \notin Span(q)
    BY <1>3, <2>1, <2>4 DEF Span
  <2> QED BY <2>3, <2>4, <2>5
<1> HIDE DEF gap
<1>7. lo \in Nat
  <2>1. lo \in gap
    BY <1>1, <1>5, <1>6, LeastOf
  <2> QED BY <1>1, <1>5, <2>1
<1> HIDE DEF lo
<1>8. above \in SUBSET Int /\ \A x \in above : lo <= x
  BY <1>3, <1>7
<1> HIDE DEF above
<1>9. ASSUME above # {} PROVE Min(above) \in Int
  <2>1. Min(above) \in above
    BY <1>7, <1>8, <1>9, LeastOf
  <2> QED BY <1>8, <2>1
<1> QED BY <1>1, <1>2, <1>7, <1>9

LEMMA AddInv == ASSUME Inv, Idle, Add PROVE Inv'
<1> DEFINE t == IF HasTable THEN ed.rdb ELSE Fresh(0)
<1>1. /\ phase = "edit" /\ phase' \in Phases /\ n' \in 0 .. MaxEvents /\ ed.drag = NoDrag
      /\ Within(ed.rdb, Allowed(ghost))
  BY IdleFound DEF Phases
<1>2. t \in Records /\ Within(t, Allowed(ghost)) /\ Asked(t, ghost.owed)
  BY <1>1, FreshOK, Found DEF HasTable, Tables
<1> HIDE DEF t
<1>3. CASE Appended(t, FreeRange(t)[1], FreeRange(t)[2])
  <2>1. FreeRange(t)[1] \in Nat /\ FreeRange(t)[2] \in Int
    BY <1>1, <1>2, Found, FreeRangeInt
  <2> QED BY <1>1, <1>2, <1>3, <2>1, AppendedInv
<1>4. CASE ed' = [ed EXCEPT !.rdb = t] /\ ghost' = Astray(Ghost, TRUE) /\ disk' = disk
  <2>1. ed' \in EdType /\ ed'.rdb = t /\ ed'.drag = NoDrag
    BY <1>1, <1>2, <1>4, Found DEF EdType, Tables
  <2>2. ghost' \in GhostType /\ Allowed(ghost') = Allowed(ghost) /\ ghost'.owed = ghost.owed
    BY <1>1, <1>4, Found, GhostFields, AstrayFields
  <2> QED BY <1>1, <1>2, <1>4, <2>1, <2>2, Found, Closes
<1> QED BY <1>3, <1>4 DEF Add, t

---------------------------------------------------------------------------
(* A move of the data *)

LEMMA MovedInv ==
    ASSUME Inv, phase = "edit", n' \in 0 .. MaxEvents, phase' \in Phases,
           NEW e \in EdType, e.drag = NoDrag, Within(e.rdb, Allowed(ghost)),
           Asked(e.rdb, ghost.owed), e.rdb \in Records, NEW i \in DOMAIN e.rdb.parts,
           Moved(e, i)
    PROVE  Inv'
<1>1. CASE ed' = e /\ ghost' = Ghost /\ UNCHANGED disk
  BY <1>1, Found, GhostCloses
<1>2. CASE ~(ed' = e /\ ghost' = Ghost /\ UNCHANGED disk)
  <2> DEFINE p == e.rdb.parts[i]
             New(lo) == At(e.rdb, i, lo, lo + p.hi - p.lo)
  <2>0. PICK lo \in Cyls : \E w \in Written(disk, New(lo)) :
          /\ disk' = w.disk
          /\ ed' = [e EXCEPT !.rdb = New(lo), !.reboot = TRUE]
          /\ ghost' = Astray(Agreed({Ext(New(lo).parts[i])}), Hidden(w.disk, New(lo)))
    BY <1>2 DEF Moved
  <2>1. PICK w \in Written(disk, New(lo)) :
          /\ disk' = w.disk
          /\ ed' = [e EXCEPT !.rdb = New(lo), !.reboot = TRUE]
          /\ ghost' = Astray(Agreed({Ext(New(lo).parts[i])}), Hidden(w.disk, New(lo)))
    BY <2>0
  <2> DEFINE new == New(lo)
             hi == lo + p.hi - p.lo
             q == Placing(p, lo, hi)
             x == Ext(q)
             S == Allowed(ghost) \cup {x}
  <2>2. lo \in Nat /\ hi \in Int /\ p \in Parts /\ p.name \in Names
    <3>1. p \in Parts /\ p.name \in Names /\ p.lo \in Nat /\ p.hi \in Int
      BY Entries
    <3>2. lo \in Nat
      BY EditorAssumption DEF Cyls
    <3> HIDE DEF p
    <3> QED BY <3>1, <3>2
  <2>3. new = Put(e.rdb, i, q) /\ Asked(new, ghost.owed)
    <3>1. hi \in Int /\ lo \in Nat
      BY <2>2
    <3> HIDE DEF hi
    <3>2. At(e.rdb, i, lo, hi) = Put(e.rdb, i, q) /\ Asked(At(e.rdb, i, lo, hi), ghost.owed)
      BY <3>1, NewPlace, AskedEnd
    <3> QED BY <3>2 DEF hi
  <2>4. q \in Parts /\ q.lo = lo /\ q.hi = hi /\ q.name = p.name
    <3> HIDE DEF hi, p
    <3> QED BY <2>2, Places
  <2>5. x \in Anything
    <3>1. x = <<p.name, lo, hi>>
      BY <2>4 DEF Ext
    <3> HIDE DEF x, hi, p
    <3> QED BY <2>2, <3>1 DEF Anything
  <2>6. ghost' = Astray(Agreed({Ext(new.parts[i])}), Hidden(w.disk, new))
        /\ ed' = [e EXCEPT !.rdb = new, !.reboot = TRUE] /\ w \in Written(disk, new)
    BY <2>1
  <2> HIDE DEF hi, q, New, new
  <2>7. OthersWithin(e.rdb, i, Allowed(ghost))
    BY WithinEach DEF OthersWithin
  <2>8. new \in Records /\ new.parts[i] = q
    BY <2>3, <2>4, PutEntry
  <2>9. Within(new, S)
    BY <2>3, <2>4, <2>7, PutWithin
  <2> HIDE DEF x
  <2>10. DiskOK(w.disk, S)
    <3>1. DiskOK(disk, S)
      BY DiskMore, Found
    <3> HIDE DEF S
    <3> QED BY <2>6, <2>9, <3>1, WrittenOK
  <2>11. ed' \in EdType /\ ed'.rdb = new /\ ed'.drag = NoDrag
    BY <2>6, <2>8 DEF EdType, Tables
  <2>12. /\ ghost' \in GhostType /\ S \subseteq Allowed(ghost') /\ ghost'.owed = ghost.owed
    <3>1. Agreed({x}) \in GhostType /\ S \subseteq Allowed(Agreed({x})) /\ Agreed({x}).owed = ghost.owed
      BY <2>5, Found, AgreedFields
    <3>2. Hidden(w.disk, new) \in BOOLEAN /\ ed.dirty \in BOOLEAN
      BY Found DEF Hidden
    <3>3. ghost' = Astray(Agreed({x}), Hidden(w.disk, new))
      BY <2>6, <2>8 DEF x
    <3> DEFINE g == Agreed({x})
               gone == Hidden(w.disk, new)
    <3> HIDE DEF S, g, gone
    <3>4. g \in GhostType /\ gone \in BOOLEAN /\ ghost' = Astray(g, gone)
      BY <3>1, <3>2, <3>3 DEF g, gone
    <3>5. g \in GhostType /\ gone \in BOOLEAN /\ ed.dirty \in BOOLEAN
      BY <3>2, <3>4
    <3>6. /\ Astray(g, gone) \in GhostType /\ Allowed(Astray(g, gone)) = Allowed(g)
          /\ Astray(g, gone).owed = g.owed
      BY <3>5, AstrayFields
    <3> QED BY <3>1, <3>4, <3>6 DEF g
  <2> QED BY <2>1, <2>3, <2>9, <2>10, <2>11, <2>12, Closes
<1> QED BY <1>1, <1>2

LEMMA MoveGadgetInv == ASSUME Inv, Idle, MoveGadget PROVE Inv'
<1>1. /\ phase = "edit" /\ phase' \in Phases /\ n' \in 0 .. MaxEvents /\ ed.drag = NoDrag
      /\ Within(ed.rdb, Allowed(ghost)) /\ Asked(ed.rdb, ghost.owed) /\ ed \in EdType
  BY IdleFound, Found DEF Phases
<1>2. PICK i \in Indices : Moved(ed, i)
  BY DEF MoveGadget
<1>3. ed.rdb \in Records /\ i \in DOMAIN ed.rdb.parts
  BY <1>1, HasEntries
<1> QED BY <1>1, <1>2, <1>3, MovedInv

LEMMA ReleaseBlockInv == ASSUME Inv, ReleaseBlock PROVE Inv'
<1> DEFINE e == [Released EXCEPT !.rdb = Restored(@, ed.drag)]
           i == ed.drag.i
<1>1. phase = "edit" /\ n' \in 0 .. MaxEvents /\ phase' \in Phases
  BY DEF ReleaseBlock, Inv, Phases
<1>2. /\ e \in EdType /\ e.drag = NoDrag /\ e.rdb = Restored(ed.rdb, ed.drag)
      /\ Within(e.rdb, Allowed(ghost)) /\ Asked(e.rdb, ghost.owed)
  BY <1>1, Undragged, Found
<1>3. CASE i \in Indices
  <2>1. Moved(e, i)
    BY <1>3 DEF ReleaseBlock
  <2>2. e.rdb \in Records /\ i \in DOMAIN e.rdb.parts
    <3>1. /\ ed.rdb \in Records /\ i \in DOMAIN ed.rdb.parts /\ ed.rdb # NoTable
          /\ ed.rdb.parts[i] \in Parts
      BY <1>1, <1>3, HasEntries, Entries
    <3>2. ed.drag.lo \in Nat /\ ed.drag.hi \in Int
      BY <1>1, Found DEF DragType
    <3> DEFINE q == Placing(ed.rdb.parts[i], ed.drag.lo, ed.drag.hi)
    <3>3. q \in Parts
      BY <3>1, <3>2, Places
    <3>4. e.rdb = Put(ed.rdb, i, q)
      BY <1>2, <3>1, <3>2, NewPlace DEF Restored
    <3> HIDE DEF e, q, i
    <3> QED BY <3>1, <3>3, <3>4, PutEntry
  <2> HIDE DEF e, i
  <2> QED BY <1>1, <1>2, <2>1, <2>2, MovedInv
<1>4. CASE i \notin Indices
  <2>1. ed' = e /\ ghost' = Ghost /\ disk' = disk
    BY <1>4 DEF ReleaseBlock
  <2> QED BY <1>1, <1>2, <2>1, Found, GhostCloses
<1> QED BY <1>3, <1>4

---------------------------------------------------------------------------
(* Edits of the copy *)

\* What a ghost is after it goes astray.
LEMMA AstrayCloses ==
    ASSUME Inv, phase = "edit", n' \in 0 .. MaxEvents, phase' \in Phases, NEW gone \in BOOLEAN,
           DiskOK(disk', Allowed(ghost)), ed' \in EdType, ed'.drag = NoDrag,
           Within(ed'.rdb, Allowed(ghost)), Asked(ed'.rdb, ghost.owed), ghost' = Astray(Ghost, gone)
    PROVE  Inv'
<1>1. /\ Ghost \in GhostType /\ Allowed(Ghost) = Allowed(ghost) /\ Ghost.owed = ghost.owed
      /\ ed.dirty \in BOOLEAN
  BY Found, GhostFields
<1>2. /\ ghost' \in GhostType /\ Allowed(ghost') = Allowed(ghost) /\ ghost'.owed = ghost.owed
  <2>1. /\ Astray(Ghost, gone) \in GhostType /\ Allowed(Astray(Ghost, gone)) = Allowed(Ghost)
        /\ Astray(Ghost, gone).owed = Ghost.owed
    BY <1>1, AstrayFields
  <2> QED BY <1>1, <2>1
<1> QED BY <1>2, Closes

LEMMA AgreedAstray ==
    ASSUME ghost \in GhostType, ed.dirty \in BOOLEAN, NEW X \in SUBSET Anything, NEW gone \in BOOLEAN
    PROVE  /\ Astray(Agreed(X), gone) \in GhostType
           /\ Allowed(ghost) \cup X \subseteq Allowed(Astray(Agreed(X), gone))
           /\ Astray(Agreed(X), gone).owed = ghost.owed
           /\ Astray(Agreed(X), gone).loose = (ghost.loose \/ (gone /\ ~ed.dirty))
           /\ Astray(Agreed(X), gone).split = ghost.split
           /\ Astray(Agreed(X), gone).formatted = {}
<1> DEFINE g == Agreed(X)
<1>1. /\ g \in GhostType /\ Allowed(ghost) \cup X \subseteq Allowed(g) /\ g.owed = ghost.owed
      /\ g.loose = ghost.loose /\ g.split = ghost.split /\ g.formatted = {}
  BY AgreedFields
<1> HIDE DEF g
<1>2. /\ Astray(g, gone) \in GhostType /\ Allowed(Astray(g, gone)) = Allowed(g)
      /\ Astray(g, gone).owed = g.owed /\ Astray(g, gone).split = g.split
      /\ Astray(g, gone).formatted = g.formatted
  BY <1>1, AstrayFields
<1>3. Astray(g, gone).loose = (g.loose \/ (gone /\ ~ed.dirty))
  BY <1>1, AstrayFields
<1> QED BY <1>1, <1>2, <1>3 DEF g

LEMMA AstrayAgreedCloses ==
    ASSUME Inv, phase = "edit", n' \in 0 .. MaxEvents, phase' \in Phases,
           NEW X \in SUBSET Anything, NEW gone \in BOOLEAN,
           DiskOK(disk', Allowed(ghost) \cup X), ed' \in EdType, ed'.drag = NoDrag,
           Within(ed'.rdb, Allowed(ghost) \cup X), Asked(ed'.rdb, ghost.owed),
           ghost' = Astray(Agreed(X), gone)
    PROVE  Inv'
<1>1. /\ ghost' \in GhostType /\ Allowed(ghost) \cup X \subseteq Allowed(ghost')
      /\ ghost'.owed = ghost.owed
  BY Found, AgreedAstray
<1> QED BY <1>1, Closes

\* An entry that is edited gives up its name and its format.
LEMMA AskedEdited ==
    ASSUME NEW t \in Records, NEW i \in DOMAIN t.parts, NEW q \in Parts, ~q.want,
           q.name \in Unused(t, i), NEW Y, Asked(t, Y)
    PROVE  Asked(Put(t, i, q), Y \ {t.parts[i].name})
<1> DEFINE u == Put(t, i, q)
<1>1. /\ t # NoTable /\ DOMAIN u.parts = DOMAIN t.parts /\ u.parts[i] = q
      /\ \A j \in DOMAIN t.parts : j # i => u.parts[j] = t.parts[j]
  BY PutEntry, Entries
<1>2. \A j \in DOMAIN t.parts : j # i => t.parts[j].name # q.name
  BY DEF Unused
<1> HIDE DEF u
<1>3. ASSUME NEW j \in DOMAIN u.parts, u.parts[j].want
      PROVE  /\ u.parts[j].name \in Y \ {t.parts[i].name}
             /\ \A k \in DOMAIN u.parts : k # j => u.parts[k].name # u.parts[j].name
  <2>1. j # i /\ u.parts[j] = t.parts[j] /\ t.parts[j].want
    BY <1>1, <1>3
  <2>2. t.parts[j].name \in Y /\ \A k \in DOMAIN t.parts : k # j => t.parts[k].name # t.parts[j].name
    BY <1>1, <2>1 DEF Asked
  <2>3. \A k \in DOMAIN u.parts : k # j => u.parts[k].name # t.parts[j].name
    BY <1>1, <1>2, <2>1, <2>2
  <2> QED BY <1>1, <2>1, <2>2, <2>3
<1>4. Asked(u, Y \ {t.parts[i].name})
  BY <1>3 DEF Asked
<1> QED BY <1>4 DEF u

LEMMA EditInv == ASSUME Inv, Idle, Edit PROVE Inv'
<1>0. PICK i \in Indices : \E set \in Advanced(ed.rdb.parts[i]) :
        LET p == ed.rdb.parts[i]
        IN  \/ /\ ed' = [ed EXCEPT !.rdb.parts[i] = set]
               /\ ghost' = Astray(Ghost, set # p)
               /\ UNCHANGED disk
            \/ \E name \in Unused(ed.rdb, i), hi \in DialogEnds(ed.rdb, i, p.lo, p.hi) :
                 LET t == [ed.rdb EXCEPT !.parts[i] = [set EXCEPT !.name = name, !.hi = hi,
                                                                  !.want = FALSE]]
                 IN  \E o \in Offers(t, i, p.hi) :
                       /\ disk' = o.disk
                       /\ ed' = [Unsaved(ed) EXCEPT !.rdb = o.t,
                                                    !.reboot = @ \/ o.g \in {"none", "reboot"}]
                       /\ ghost' = [Agreed({Ext(o.t.parts[i])}) EXCEPT !.owed = @ \ {p.name}]
  BY DEF Edit
<1>1. PICK set \in Advanced(ed.rdb.parts[i]) :
        LET p == ed.rdb.parts[i]
        IN  \/ /\ ed' = [ed EXCEPT !.rdb.parts[i] = set]
               /\ ghost' = Astray(Ghost, set # p)
               /\ UNCHANGED disk
            \/ \E name \in Unused(ed.rdb, i), hi \in DialogEnds(ed.rdb, i, p.lo, p.hi) :
                 LET t == [ed.rdb EXCEPT !.parts[i] = [set EXCEPT !.name = name, !.hi = hi,
                                                                  !.want = FALSE]]
                 IN  \E o \in Offers(t, i, p.hi) :
                       /\ disk' = o.disk
                       /\ ed' = [Unsaved(ed) EXCEPT !.rdb = o.t,
                                                    !.reboot = @ \/ o.g \in {"none", "reboot"}]
                       /\ ghost' = [Agreed({Ext(o.t.parts[i])}) EXCEPT !.owed = @ \ {p.name}]
  BY <1>0
<1> DEFINE p == ed.rdb.parts[i]
<1>2. /\ phase = "edit" /\ phase' \in Phases /\ n' \in 0 .. MaxEvents /\ ed.drag = NoDrag
      /\ Within(ed.rdb, Allowed(ghost)) /\ Asked(ed.rdb, ghost.owed) /\ ed \in EdType
      /\ ghost \in GhostType
  BY IdleFound, Found DEF Phases
<1>3. /\ ed.rdb \in Records /\ i \in DOMAIN ed.rdb.parts /\ p \in Parts
      /\ p.lo \in Nat /\ p.hi \in Int /\ p.name \in Names
  BY <1>2, HasEntries, Entries
<1>4. /\ set \in Parts /\ Ext(set) = Ext(p) /\ set.name = p.name /\ set.want = p.want
      /\ set.lo = p.lo
  <2> HIDE DEF p
  <2> QED BY <1>3 DEF Advanced, Parts, Ext, p
<1>5. OthersWithin(ed.rdb, i, Allowed(ghost)) /\ Ext(p) \in Allowed(ghost)
  BY <1>2, <1>3, WithinEach DEF OthersWithin
<1>6. CASE /\ ed' = [ed EXCEPT !.rdb.parts[i] = set]
           /\ ghost' = Astray(Ghost, set # p)
           /\ UNCHANGED disk
  <2> DEFINE u == Put(ed.rdb, i, set)
  <2>1. ed' = [ed EXCEPT !.rdb = u]
    BY <1>2, <1>3, <1>6 DEF EdType, Put
  <2>2. u \in Records /\ Asked(u, ghost.owed)
    BY <1>2, <1>3, <1>4, PutEntry, AskedPut
  <2>3. Within(u, Allowed(ghost))
    <3>1. Within(u, Allowed(ghost) \cup {Ext(set)})
      BY <1>3, <1>4, <1>5, PutWithin
    <3>2. Allowed(ghost) \cup {Ext(set)} = Allowed(ghost)
      BY <1>4, <1>5
    <3> QED BY <3>1, <3>2
  <2> HIDE DEF u
  <2>4. ed' \in EdType /\ ed'.rdb = u /\ ed'.drag = NoDrag
    BY <1>2, <2>1, <2>2 DEF EdType, Tables
  <2> QED BY <1>2, <1>6, <2>2, <2>3, <2>4, Found, AstrayCloses
<1>7. CASE \E name \in Unused(ed.rdb, i), hi \in DialogEnds(ed.rdb, i, p.lo, p.hi) :
             LET t == [ed.rdb EXCEPT !.parts[i] = [set EXCEPT !.name = name, !.hi = hi,
                                                              !.want = FALSE]]
             IN  \E o \in Offers(t, i, p.hi) :
                   /\ disk' = o.disk
                   /\ ed' = [Unsaved(ed) EXCEPT !.rdb = o.t,
                                                !.reboot = @ \/ o.g \in {"none", "reboot"}]
                   /\ ghost' = [Agreed({Ext(o.t.parts[i])}) EXCEPT !.owed = @ \ {p.name}]
  <2> DEFINE Set(name, hi) == [set EXCEPT !.name = name, !.hi = hi, !.want = FALSE]
  <2>1. PICK name \in Unused(ed.rdb, i), hi \in DialogEnds(ed.rdb, i, p.lo, p.hi) :
          \E o \in Offers(Put(ed.rdb, i, Set(name, hi)), i, p.hi) :
             /\ disk' = o.disk
             /\ ed' = [Unsaved(ed) EXCEPT !.rdb = o.t,
                                          !.reboot = @ \/ o.g \in {"none", "reboot"}]
             /\ ghost' = [Agreed({Ext(o.t.parts[i])}) EXCEPT !.owed = @ \ {p.name}]
    BY <1>7 DEF Put
  <2> DEFINE q == Set(name, hi)
             t == Put(ed.rdb, i, q)
  <2>2. PICK o \in Offers(t, i, p.hi) :
             /\ disk' = o.disk
             /\ ed' = [Unsaved(ed) EXCEPT !.rdb = o.t,
                                          !.reboot = @ \/ o.g \in {"none", "reboot"}]
             /\ ghost' = [Agreed({Ext(o.t.parts[i])}) EXCEPT !.owed = @ \ {p.name}]
    BY <2>1
  <2>3. hi \in Int /\ name \in Names
    BY <1>3, DialogEndsInt DEF Unused
  <2>4. q \in Parts /\ q.want = FALSE /\ q.name = name
    <3> HIDE DEF p
    <3> QED BY <1>4, <2>3 DEF Parts
  <2> DEFINE x == Ext(o.t.parts[i])
             S == Allowed(ghost) \cup {x}
             owed == ghost.owed \ {p.name}
  <2>5. ed' = [Unsaved(ed) EXCEPT !.rdb = o.t, !.reboot = @ \/ o.g \in {"none", "reboot"}]
        /\ disk' = o.disk
    BY <2>2
  <2>6. ghost' = [Agreed({x}) EXCEPT !.owed = @ \ {p.name}]
    BY <2>2
  <2> HIDE DEF q, p
  <2>7. t \in Records /\ i \in DOMAIN t.parts /\ OthersWithin(t, i, Allowed(ghost))
    BY <1>3, <1>5, <2>4, PutEntry DEF OthersWithin
  <2>8. Asked(t, owed)
    BY <1>2, <1>3, <2>4, AskedEdited DEF p
  <2> HIDE DEF t
  <2>9. x = Ext(o.t.parts[i]) /\ DiskOK(disk, Allowed(ghost))
    BY <1>2, Found
  <2> HIDE DEF x, owed
  <2>10. /\ o.t \in Records /\ x \in Anything
         /\ DiskOK(o.disk, S) /\ Within(o.t, S)
    BY <1>3, <2>7, <2>9, OffersOK, Zenon
  <2>11. AsksAs(t, o.t)
    BY <1>3, <2>7, <2>9, OffersOK, Zenon
  <2>12. ed' \in EdType /\ ed'.rdb = o.t /\ ed'.drag = NoDrag
    BY <1>2, <2>5, <2>10 DEF EdType, Unsaved, Tables
  <2>13. ghost' \in GhostType /\ S \subseteq Allowed(ghost') /\ ghost'.owed = owed
    <3>1. Agreed({x}) \in GhostType /\ S \subseteq Allowed(Agreed({x})) /\ Agreed({x}).owed = ghost.owed
      BY <1>2, <2>10, AgreedFields
    <3>2. ghost' = [Agreed({x}) EXCEPT !.owed = owed] /\ owed \in SUBSET Names
      BY <1>2, <2>6, <3>1 DEF owed, GhostType
    <3> QED BY <3>1, <3>2, OwedFields
  <2> HIDE DEF S
  <2>14. Asked(ed'.rdb, ghost'.owed)
    BY <2>8, <2>11, <2>12, <2>13 DEF AsksAs
  <2> QED BY <1>2, <2>5, <2>10, <2>12, <2>13, <2>14, Closes
<1> QED BY <1>1, <1>6, <1>7

\* An entry is taken out of the list.
Removing(t, i) == [t EXCEPT !.parts = RemoveAt(@, i)]

LEMMA Removes ==
    ASSUME NEW t \in Records, NEW i \in DOMAIN t.parts
    PROVE  /\ Removing(t, i) \in Records
           /\ DOMAIN Removing(t, i).parts = 1 .. (Len(t.parts) - 1)
           /\ \A j \in 1 .. (Len(t.parts) - 1) :
                 /\ Removing(t, i).parts[j] = t.parts[IF j < i THEN j ELSE j + 1]
                 /\ (IF j < i THEN j ELSE j + 1) \in DOMAIN t.parts \ {i}
<1> DEFINE a == SubSeq(t.parts, 1, i - 1)
           b == SubSeq(t.parts, i + 1, Len(t.parts))
           s == a \o b
           u == Removing(t, i)
<1>1. /\ Len(t.parts) \in Nat /\ DOMAIN t.parts = 1 .. Len(t.parts) /\ i \in 1 .. Len(t.parts)
      /\ \A j \in DOMAIN t.parts : t.parts[j] \in Parts
  BY Entries
<1>2. /\ a \in Seq(Parts) /\ Len(a) = i - 1 /\ \A j \in 1 .. (i - 1) : a[j] = t.parts[j]
  <2>1. \A j \in 1 .. (i - 1) : t.parts[j] \in Parts
    BY <1>1
  <2>2. /\ a \in Seq(Parts) /\ Len(a) = (IF 1 <= i - 1 THEN (i - 1) - 1 + 1 ELSE 0)
        /\ \A j \in 1 .. ((i - 1) - 1 + 1) : a[j] = t.parts[1 + j - 1]
    BY <1>1, <2>1, SubSeqProperties
  <2> HIDE DEF a
  <2> QED BY <1>1, <2>2
<1>3. /\ b \in Seq(Parts) /\ Len(b) = Len(t.parts) - i
      /\ \A j \in 1 .. (Len(t.parts) - i) : b[j] = t.parts[i + j]
  <2>1. \A j \in (i + 1) .. Len(t.parts) : t.parts[j] \in Parts
    BY <1>1
  <2>2. /\ b \in Seq(Parts)
        /\ Len(b) = (IF i + 1 <= Len(t.parts) THEN Len(t.parts) - (i + 1) + 1 ELSE 0)
        /\ \A j \in 1 .. (Len(t.parts) - (i + 1) + 1) : b[j] = t.parts[(i + 1) + j - 1]
    BY <1>1, <2>1, SubSeqProperties
  <2> HIDE DEF b
  <2> QED BY <1>1, <2>2
<1> HIDE DEF a, b
<1>4. s \in Seq(Parts) /\ Len(s) = Len(t.parts) - 1 /\ DOMAIN s = 1 .. (Len(t.parts) - 1)
  <2>1. s \in Seq(Parts) /\ Len(s) = Len(a) + Len(b)
    BY <1>2, <1>3
  <2> HIDE DEF s
  <2> QED BY <1>1, <1>2, <1>3, <2>1
<1>5. ASSUME NEW j \in 1 .. (Len(t.parts) - 1)
      PROVE  /\ s[j] = t.parts[IF j < i THEN j ELSE j + 1]
             /\ (IF j < i THEN j ELSE j + 1) \in DOMAIN t.parts \ {i}
  <2>1. s[j] = IF j <= Len(a) THEN a[j] ELSE b[j - Len(a)]
    BY <1>1, <1>2, <1>3, ConcatProperties
  <2> HIDE DEF s
  <2>2. CASE j < i
    BY <1>1, <1>2, <2>1, <2>2
  <2>3. CASE ~(j < i)
    <3>1. j - Len(a) \in 1 .. (Len(t.parts) - i) /\ i + (j - Len(a)) = j + 1 /\ ~(j <= Len(a))
      BY <1>1, <1>2, <2>3
    <3> QED BY <1>1, <1>3, <2>1, <2>3, <3>1
  <2> QED BY <2>2, <2>3
<1> HIDE DEF s
<1>6. u = [t EXCEPT !.parts = s]
  BY DEF Removing, RemoveAt, s, a, b
<1> HIDE DEF u
<1>7. u \in Records /\ u.parts = s
  BY <1>4, <1>6, PartsExcept
<1> QED BY <1>4, <1>5, <1>7 DEF u

LEMMA RemovesOK ==
    ASSUME NEW t \in Records, NEW i \in DOMAIN t.parts, NEW S, Within(t, S), NEW Y, Asked(t, Y)
    PROVE  Within(Removing(t, i), S) /\ Asked(Removing(t, i), Y \ {t.parts[i].name})
<1> DEFINE u == Removing(t, i)
           m(j) == IF j < i THEN j ELSE j + 1
<1>1. /\ u \in Records /\ DOMAIN u.parts = 1 .. (Len(t.parts) - 1)
      /\ \A j \in DOMAIN u.parts : u.parts[j] = t.parts[m(j)] /\ m(j) \in DOMAIN t.parts \ {i}
  BY Removes
<1>2. \A j, k \in DOMAIN u.parts : j # k => m(j) # m(k)
  <2>1. Len(t.parts) \in Nat /\ i \in Nat
    BY Entries
  <2> HIDE DEF u
  <2> QED BY <1>1, <2>1
<1> HIDE DEF u, m
<1>3. Within(u, S)
  BY <1>1, WithinEach
<1>4. ASSUME NEW j \in DOMAIN u.parts, u.parts[j].want
      PROVE  /\ u.parts[j].name \in Y \ {t.parts[i].name}
             /\ \A k \in DOMAIN u.parts : k # j => u.parts[k].name # u.parts[j].name
  <2> DEFINE p == t.parts[m(j)]
  <2>1. u.parts[j] = p /\ m(j) \in DOMAIN t.parts /\ m(j) # i /\ t # NoTable /\ p.want
    BY <1>1, <1>4, Entries
  <2>2. p.name \in Y /\ \A k \in DOMAIN t.parts : k # m(j) => t.parts[k].name # p.name
    BY <2>1 DEF Asked
  <2> HIDE DEF p
  <2>3. p.name # t.parts[i].name
    BY <2>1, <2>2
  <2>4. \A k \in DOMAIN u.parts : k # j => u.parts[k].name # p.name
    BY <1>1, <1>2, <2>2
  <2> QED BY <2>1, <2>2, <2>3, <2>4
<1>5. Asked(u, Y \ {t.parts[i].name})
  BY <1>4 DEF Asked
<1> QED BY <1>3, <1>5 DEF u

LEMMA DeleteInv == ASSUME Inv, Idle, Delete PROVE Inv'
<1>1. PICK i \in Indices : /\ ed' = Deleted(ed, i)
                           /\ ghost' = [Ghost EXCEPT !.owed = @ \ {ed.rdb.parts[i].name}]
                           /\ UNCHANGED disk
  BY DEF Delete
<1> DEFINE u == Removing(ed.rdb, i)
           x == ed.rdb.parts[i].name
           owed == ghost.owed \ {x}
<1>2. /\ phase = "edit" /\ phase' \in Phases /\ n' \in 0 .. MaxEvents /\ ed.drag = NoDrag
      /\ Within(ed.rdb, Allowed(ghost)) /\ Asked(ed.rdb, ghost.owed) /\ ed \in EdType
      /\ ghost \in GhostType /\ ed.unmount \in SUBSET Names
  BY IdleFound, Found DEF Phases
<1>3. ed.rdb \in Records /\ i \in DOMAIN ed.rdb.parts /\ x \in Names
  BY <1>2, HasEntries, Entries
<1>4. u \in Records /\ Within(u, Allowed(ghost)) /\ Asked(u, owed)
  BY <1>2, <1>3, Removes, RemovesOK
<1>5. ed' = [Unsaved(ed) EXCEPT !.rdb = u, !.unmount = ed.unmount \cup {x}]
  <2>1. Unsaved(ed).rdb = ed.rdb /\ Unsaved(ed).unmount = ed.unmount /\ Unsaved(ed) \in EdType
    BY <1>2 DEF Unsaved, EdType
  <2>2. Unsaved(ed).rdb.parts = ed.rdb.parts
    BY <2>1
  <2> QED BY <1>1, <1>2, <2>1, <2>2 DEF Deleted, Removing, EdType
<1> HIDE DEF u, x
<1>6. ed' \in EdType /\ ed'.rdb = u /\ ed'.drag = NoDrag
  BY <1>2, <1>3, <1>4, <1>5 DEF EdType, Unsaved, Tables
<1>7. /\ Ghost \in GhostType /\ Allowed(Ghost) = Allowed(ghost) /\ Ghost.owed = ghost.owed
  BY <1>2, GhostFields
<1>8. ghost' = [Ghost EXCEPT !.owed = owed] /\ owed \in SUBSET Names
  BY <1>1, <1>2, <1>7 DEF x, GhostType
<1>9. ghost' \in GhostType /\ Allowed(ghost') = Allowed(ghost) /\ ghost'.owed = owed
  BY <1>7, <1>8, OwedFields
<1> HIDE DEF owed
<1> QED BY <1>1, <1>2, <1>4, <1>6, <1>9, Found, Closes

\* A table with other numbers has the same entries.
LEMMA SameEntries ==
    ASSUME NEW t \in Records, NEW u \in Records, u.parts = t.parts
    PROVE  /\ \A S : Within(t, S) => Within(u, S)
           /\ AsksAs(t, u) /\ Exts(u) = Exts(t)
<1>1. t # NoTable /\ u # NoTable /\ Exts(u) = Exts(t)
  BY Entries DEF Exts, PartsOf
<1>2. \A S : Within(t, S) => Within(u, S)
  BY <1>1 DEF Within, Tables
<1> QED BY <1>1, <1>2 DEF AsksAs, Asked

LEMMA FilesystemsInv == ASSUME Inv, Idle, Filesystems PROVE Inv'
<1>1. PICK k \in 0 .. MaxDrivers : ed' = [Unsaved(ed) EXCEPT !.rdb.drivers = k]
  BY DEF Filesystems
<1> DEFINE u == [ed.rdb EXCEPT !.drivers = k]
<1>2. /\ phase = "edit" /\ phase' \in Phases /\ n' \in 0 .. MaxEvents /\ ed.drag = NoDrag
      /\ Within(ed.rdb, Allowed(ghost)) /\ Asked(ed.rdb, ghost.owed) /\ ed \in EdType
      /\ ghost' = Ghost /\ disk' = disk /\ ed.rdb \in Records
  BY IdleFound, Found DEF Phases, Filesystems, HasTable, Tables
<1>3. u \in Records /\ u.parts = ed.rdb.parts
  BY <1>2 DEF Records
<1>4. ed' = [Unsaved(ed) EXCEPT !.rdb = u]
  BY <1>1, <1>2 DEF EdType, Unsaved
<1> HIDE DEF u
<1>5. ed' \in EdType /\ ed'.rdb = u /\ ed'.drag = NoDrag
  BY <1>2, <1>3, <1>4 DEF EdType, Unsaved, Tables
<1>6. Within(u, Allowed(ghost)) /\ Asked(u, ghost.owed)
  BY <1>2, <1>3, SameEntries DEF AsksAs
<1> QED BY <1>2, <1>5, <1>6, Found, GhostCloses

LEMMA FlagsInv == ASSUME Inv, Idle, Flags PROVE Inv'
<1>1. /\ phase = "edit" /\ phase' \in Phases /\ n' \in 0 .. MaxEvents /\ ed.drag = NoDrag
      /\ Within(ed.rdb, Allowed(ghost)) /\ Asked(ed.rdb, ghost.owed) /\ ed \in EdType
      /\ ghost' = Ghost /\ disk' = disk /\ ed' = Unsaved(ed)
  BY IdleFound, Found DEF Phases, Flags
<1>2. ed' \in EdType /\ ed'.rdb = ed.rdb /\ ed'.drag = NoDrag
  BY <1>1 DEF EdType, Unsaved
<1> QED BY <1>1, <1>2, Found, GhostCloses

LEMMA UpdateGeometryInv == ASSUME Inv, Idle, UpdateGeometry PROVE Inv'
<1> DEFINE u == [ed.rdb EXCEPT !.hi = TopCyl]
<1>2. /\ phase = "edit" /\ phase' \in Phases /\ n' \in 0 .. MaxEvents /\ ed.drag = NoDrag
      /\ Within(ed.rdb, Allowed(ghost)) /\ Asked(ed.rdb, ghost.owed) /\ ed \in EdType
      /\ ghost' = Ghost /\ disk' = disk /\ ed.rdb \in Records /\ TopCyl \in Nat
      /\ ed' = [Unsaved(ed) EXCEPT !.rdb.hi = TopCyl]
  BY EditorAssumption, IdleFound, Found DEF Phases, UpdateGeometry, HasTable, Tables
<1>3. u \in Records /\ u.parts = ed.rdb.parts
  BY <1>2 DEF Records
<1>4. ed' = [Unsaved(ed) EXCEPT !.rdb = u]
  BY <1>2 DEF EdType, Unsaved
<1> HIDE DEF u
<1>5. ed' \in EdType /\ ed'.rdb = u /\ ed'.drag = NoDrag
  BY <1>2, <1>3, <1>4 DEF EdType, Unsaved, Tables
<1>6. Within(u, Allowed(ghost)) /\ Asked(u, ghost.owed)
  BY <1>2, <1>3, SameEntries DEF AsksAs
<1> QED BY <1>2, <1>5, <1>6, Found, GhostCloses

LEMMA InitRdbInv == ASSUME Inv, Idle, NEW withMbr \in BOOLEAN, InitRdb(withMbr) PROVE Inv'
<1> DEFINE home == IF withMbr THEN 1 ELSE 0
           t == Fresh(home)
           S == Allowed(ghost)
<1>1. /\ phase = "edit" /\ phase' \in Phases /\ n' \in 0 .. MaxEvents /\ ed.drag = NoDrag
      /\ ed \in EdType /\ ghost \in GhostType /\ DiskOK(disk, S)
  BY IdleFound, Found DEF Phases
<1>2. t \in Records /\ Within(t, S) /\ \A Y : Asked(t, Y)
  BY FreshOK
<1> HIDE DEF t
<1>3. /\ ghost' = [Ghost EXCEPT !.owed = {}]
      /\ \/ /\ ed' = [Unsaved(ed) EXCEPT !.rdb = t, !.mbr = IF withMbr THEN {} ELSE NoMbr]
            /\ disk' = IF withMbr THEN [disk EXCEPT !.t[0] = NoTable, !.mbr = {}] ELSE disk
         \/ /\ withMbr
            /\ ed' = [Unsaved(ed) EXCEPT !.rdb = t, !.mbr = NoMbr]
            /\ UNCHANGED disk
  BY DEF InitRdb, t
<1>4. ed' \in EdType /\ ed'.rdb = t /\ ed'.drag = NoDrag
  BY <1>1, <1>2, <1>3 DEF EdType, Unsaved, Tables
<1>5. /\ ghost' \in GhostType /\ Allowed(ghost') = Allowed(ghost)
  BY <1>1, <1>3, GhostFields, OwedFields
<1>6. DiskOK(disk', S)
  <2>1. CASE disk' = disk
    BY <1>1, <2>1
  <2>2. CASE disk' = [disk EXCEPT !.t[0] = NoTable, !.mbr = {}]
    <3>1. /\ disk \in Disks /\ Within(disk.t[1], S) /\ Unmarked(disk.t[1]) /\ NoTable \in Tables
      BY <1>1 DEF DiskOK, Tables
    <3>2. disk' \in Disks /\ disk'.t[0] = NoTable /\ disk'.t[1] = disk.t[1]
      <4>1. /\ [disk.t EXCEPT ![0] = NoTable] \in [0 .. 1 -> Tables]
            /\ [disk.t EXCEPT ![0] = NoTable][0] = NoTable
            /\ [disk.t EXCEPT ![0] = NoTable][1] = disk.t[1]
        BY <3>1 DEF Disks
      <4>2. disk'.t = [disk.t EXCEPT ![0] = NoTable] /\ disk' \in Disks
        BY <2>2, <3>1, <4>1 DEF Disks
      <4> QED BY <4>1, <4>2
    <3> QED BY <3>1, <3>2, WithinNone, OtherTables
  <2> QED BY <1>3, <2>1, <2>2
<1> HIDE DEF S
<1> QED BY <1>1, <1>2, <1>4, <1>5, <1>6, Closes DEF S

---------------------------------------------------------------------------
(* The disk is written at once *)

LEMMA RereadFields ==
    ASSUME ghost \in GhostType, NEW S, NEW dk, DiskOK(dk, S)
    PROVE  /\ Reread(dk) \in GhostType /\ AllExts(dk) \subseteq Allowed(Reread(dk))
           /\ ~Reread(dk).loose /\ Reread(dk).owed = {} /\ Reread(dk).split = ghost.split
           /\ Reread(dk).formatted = {}
<1>1. AllExts(dk) \in SUBSET Anything
  BY AllExtsOK
<1>2. /\ Ghost \in GhostType /\ Ghost.split = ghost.split /\ Ghost.formatted = {}
      /\ Ghost.accepted = ghost.accepted
  BY GhostFields
<1> QED BY <1>1, <1>2 DEF Reread, GhostType, Allowed

\* The window after the copy is read again.
LEMMA PutBackInv ==
    ASSUME Inv, phase = "edit", n' \in 0 .. MaxEvents, phase' \in Phases,
           NEW S, DiskOK(disk', S), ed' \in EdType, ed'.drag = NoDrag,
           ed'.rdb = Read(disk'), ghost' \in GhostType, AllExts(disk') \subseteq Allowed(ghost')
    PROVE  Inv'
<1> DEFINE dk == disk'
<1>1. DiskOK(dk, S)
  OBVIOUS
<1> HIDE DEF dk
<1>2. DiskOK(dk, AllExts(dk))
  BY <1>1, AllExtsOK
<1>3. Within(Read(dk), AllExts(dk)) /\ Unmarked(Read(dk))
  BY <1>2, ReadOK
<1>4. Asked(Read(dk), ghost'.owed)
  BY <1>3, AskedNone
<1> QED BY <1>2, <1>3, <1>4, Closes DEF dk

LEMMA RestoredTable ==
    ASSUME NEW t \in Tables, NEW d \in DragType
    PROVE  Restored(t, d) \in Tables
<1>1. CASE t = NoTable \/ d.i \notin DOMAIN t.parts
  BY <1>1 DEF Restored
<1>2. CASE t # NoTable /\ d.i \in DOMAIN t.parts
  <2>1. t \in Records /\ d.lo \in Nat /\ d.hi \in Int
    BY <1>2 DEF Tables, DragType
  <2> DEFINE q == Placing(t.parts[d.i], d.lo, d.hi)
             i == d.i
  <2>2. At(t, i, d.lo, d.hi) = Put(t, i, q) /\ t.parts[i] \in Parts
    BY <1>2, <2>1, NewPlace, Entries
  <2>3. q \in Parts
    BY <2>1, <2>2, Places
  <2> HIDE DEF q, i
  <2>4. Put(t, i, q) \in Records
    BY <1>2, <2>1, <2>3, PutEntry DEF i
  <2> QED BY <1>2, <2>2, <2>4 DEF Restored, Tables, i
<1> QED BY <1>1, <1>2

LEMMA UndoInv == ASSUME Inv, Undo PROVE Inv'
<1>1. /\ phase = "edit" /\ phase' \in Phases /\ n' \in 0 .. MaxEvents /\ disk' = disk
      /\ ed' = [Loaded(ed, disk) EXCEPT !.dirty = FALSE, !.unmount = {}]
      /\ ghost' = [Reread(disk) EXCEPT !.loose = ed.drag # NoDrag,
                                       !.split = @ \/ ed.drag # NoDrag]
  BY EditorAssumption DEF Undo, Event, Inv, Phases
<1>2. /\ ed \in EdType /\ ghost \in GhostType /\ DragOK(ed, ghost) /\ ed.drag \in DragType
      /\ DiskOK(disk, Allowed(ghost))
  BY <1>1, Found
<1>3. /\ Loaded(ed, disk) \in EdType /\ Loaded(ed, disk).rdb = Read(disk)
      /\ Loaded(ed, disk).drag = ed.drag
  BY <1>2, LoadedOK
<1>4. ed' \in EdType /\ ed'.rdb = Read(disk) /\ ed'.drag = ed.drag
  BY <1>1, <1>3 DEF EdType
<1>5. /\ Reread(disk) \in GhostType /\ AllExts(disk) \subseteq Allowed(Reread(disk))
      /\ Reread(disk).split = ghost.split /\ Reread(disk).owed = {}
  BY <1>2, RereadFields
<1>6. CASE ed.drag = NoDrag
  <2>1. ghost' \in GhostType /\ AllExts(disk) \subseteq Allowed(ghost')
    BY <1>1, <1>5, <1>6 DEF GhostType, Allowed
  <2> QED BY <1>1, <1>2, <1>4, <1>6, <2>1, PutBackInv
<1>7. CASE ed.drag # NoDrag
  <2>1. /\ ghost' \in GhostType /\ ghost'.split
    BY <1>1, <1>5, <1>7 DEF GhostType
  <2>2. Allowed(ghost') = Anything
    BY <2>1 DEF Allowed
  <2>3. DiskOK(disk, Anything)
    BY <1>2, AllExtsOK, DiskMore
  <2>4. DragOK(ed', ghost')
    BY <1>2, <1>4, <2>1 DEF DragOK
  <2>5. Read(disk) \in Tables /\ Unmarked(Read(disk))
    BY <1>2, ReadOK DEF Within
  <2>6. Within(Restored(ed'.rdb, ed'.drag), Anything) /\ Asked(ed'.rdb, ghost'.owed)
    BY <1>2, <1>4, <2>5, RestoredTable, WithinAny, AskedNone
  <2>7. Held(disk', ed', ghost')
    BY <1>1, <1>4, <2>1, <2>2, <2>3, <2>4, <2>6 DEF Held
  <2> QED BY <1>1, <2>7, Ended
<1> QED BY <1>6, <1>7

\* A header that comes back, over whatever lists.
LEMMA HeaderBackOK ==
    ASSUME NEW S, DiskOK(disk, S), NEW b \in Backups, NEW dk \in HeaderBack(b)
    PROVE  DiskOK(dk, Anything)
<1> DEFINE old == disk.t[b.home]
           lists == IF b.home = 0 /\ disk.t[1] # NoTable THEN {Cut(b)}
                    ELSE IF old = NoTable THEN {b, Cut(b)}
                    ELSE {[b EXCEPT !.parts = old.parts, !.drivers = old.drivers]}
<1>1. b \in Records /\ Unmarked(b) /\ b.home \in 0 .. 1
  BY EditorAssumption, Entries
<1>2. disk \in Disks /\ \A h \in 0 .. 1 : disk.t[h] \in Tables /\ Unmarked(disk.t[h])
  BY DEF DiskOK, Disks
<1>3. ASSUME NEW t \in lists PROVE t \in Tables /\ Unmarked(t)
  <2>1. CASE t = b
    BY <1>1, <2>1 DEF Tables
  <2>2. CASE t = Cut(b)
    BY <1>1, <2>2, CutWithin DEF Tables
  <2>3. CASE old # NoTable /\ t = [b EXCEPT !.parts = old.parts, !.drivers = old.drivers]
    <3>1. old \in Records /\ Unmarked(old) /\ old # NoTable
      BY <1>1, <1>2, <2>3 DEF Tables
    <3>2. old.parts \in Seq(Parts) /\ old.drivers \in 0 .. MaxDrivers
      BY <3>1, Entries
    <3> HIDE DEF old
    <3>3. t \in Records /\ t.parts = old.parts
      BY <1>1, <2>3, <3>2 DEF Records
    <3> QED BY <3>1, <3>3 DEF Unmarked, Tables
  <2> QED BY <2>1, <2>2, <2>3
<1>4. PICK t \in lists :
        dk = IF b.home = 0 THEN [disk EXCEPT !.t[0] = t, !.mbr = NoMbr]
             ELSE [disk EXCEPT !.t = [h \in 0 .. 1 |-> IF h = 0 THEN Cut(@[0]) ELSE t]]
  BY DEF HeaderBack
<1>5. t \in Tables /\ Unmarked(t) /\ Within(t, Anything)
  BY <1>3, WithinAny
<1> HIDE DEF lists
<1>6. CASE b.home = 0
  <2>1. dk = [disk EXCEPT !.t[0] = t, !.mbr = NoMbr]
    BY <1>4, <1>6
  <2>2. /\ dk \in Disks /\ dk.t[0] = t /\ dk.t[1] = disk.t[1] /\ dk.mbr = NoMbr
    <3>1. /\ [disk.t EXCEPT ![0] = t] \in [0 .. 1 -> Tables]
          /\ [disk.t EXCEPT ![0] = t][0] = t /\ [disk.t EXCEPT ![0] = t][1] = disk.t[1]
      BY <1>2, <1>5 DEF Disks
    <3>2. dk.t = [disk.t EXCEPT ![0] = t] /\ dk.mbr = NoMbr /\ dk \in Disks
      BY <1>2, <2>1, <3>1 DEF Disks
    <3> QED BY <3>1, <3>2
  <2>3. Within(dk.t[1], Anything) /\ Unmarked(dk.t[1])
    BY <1>2, <2>2, WithinAny
  <2> QED BY <1>5, <2>2, <2>3, OtherTables
<1>7. CASE b.home # 0
  <2> DEFINE c == Cut(disk.t[0])
  <2>1. c \in Tables /\ Unmarked(c) /\ Within(c, Anything) /\ (c # NoTable => disk.t[0] # NoTable)
    BY <1>2, CutWithin
  <2>2. dk = [disk EXCEPT !.t = [h \in 0 .. 1 |-> IF h = 0 THEN c ELSE t]]
    BY <1>4, <1>7
  <2> HIDE DEF c
  <2>3. dk \in Disks /\ dk.t[0] = c /\ dk.t[1] = t /\ dk.mbr = disk.mbr
    BY <1>2, <1>5, <2>1, <2>2 DEF Disks
  <2>4. dk.t[0] # NoTable => dk.mbr = NoMbr
    BY <2>1, <2>3 DEF DiskOK
  <2> QED BY <1>5, <2>1, <2>3, <2>4, OtherTables
<1> QED BY <1>6, <1>7

\* Every disk that comes back is read.
LEMMA PutBackStep ==
    ASSUME Inv, Idle, NEW dk, DiskOK(dk, Anything), PutBack(dk)
    PROVE  Inv'
<1>1. /\ phase = "edit" /\ phase' \in Phases /\ n' \in 0 .. MaxEvents /\ ed.drag = NoDrag
      /\ ed \in EdType /\ ghost \in GhostType
  BY IdleFound, Found DEF Phases
<1>2. disk' = dk /\ ed' = [Loaded(ed, dk) EXCEPT !.reboot = TRUE] /\ ghost' = Reread(dk)
  BY DEF PutBack
<1>3. Loaded(ed, dk) \in EdType /\ Loaded(ed, dk).rdb = Read(dk) /\ Loaded(ed, dk).drag = ed.drag
  BY <1>1, LoadedOK
<1>4. ed' \in EdType /\ ed'.rdb = Read(dk) /\ ed'.drag = NoDrag
  BY <1>1, <1>2, <1>3 DEF EdType
<1>5. ghost' \in GhostType /\ AllExts(dk) \subseteq Allowed(ghost')
  BY <1>1, <1>2, RereadFields
<1> QED BY <1>1, <1>2, <1>4, <1>5, PutBackInv

\* A block that is no header.
LEMMA OtherBlockOK ==
    ASSUME NEW S, DiskOK(disk, S), NEW m \in {NoMbr} \cup SUBSET Slots
    PROVE  DiskOK(OtherBlock(m), S)
<1> DEFINE u == OtherBlock(m)
           f == [disk.t EXCEPT ![0] = NoTable]
<1>1. disk \in Disks /\ Within(disk.t[1], S) /\ Unmarked(disk.t[1])
  BY DEF DiskOK
<1>2. f \in [0 .. 1 -> Tables] /\ f[0] = NoTable /\ f[1] = disk.t[1]
  BY <1>1 DEF Disks, Tables
<1>3. u = [disk EXCEPT !.t = f, !.mbr = m]
  BY DEF OtherBlock
<1> HIDE DEF u, f
<1>4. u \in Disks /\ u.t = f
  BY <1>1, <1>2, <1>3 DEF Disks
<1>5. DiskOK(u, S)
  BY <1>1, <1>2, <1>4, WithinNone, OtherTables
<1> QED BY <1>5 DEF u

LEMMA RestoreBlockInv == ASSUME Inv, Idle, RestoreBlock PROVE Inv'
<1>1. DiskOK(disk, Allowed(ghost))
  BY IdleFound, Found
<1>2. CASE \E b \in Backups : \E dk \in HeaderBack(b) : PutBack(dk)
  <2>1. PICK b \in Backups : \E dk \in HeaderBack(b) : PutBack(dk)
    BY <1>2
  <2>2. PICK dk \in HeaderBack(b) : PutBack(dk)
    BY <2>1
  <2>3. DiskOK(dk, Anything)
    BY <1>1, HeaderBackOK
  <2> QED BY <2>2, <2>3, PutBackStep
<1>3. CASE \E m \in {NoMbr} \cup SUBSET Slots : PutBack(OtherBlock(m))
  <2>1. PICK m \in {NoMbr} \cup SUBSET Slots : PutBack(OtherBlock(m))
    BY <1>3
  <2>2. DiskOK(disk, Anything)
    BY <1>1, IdleFound, Found, AllExtsOK, DiskMore
  <2>3. DiskOK(OtherBlock(m), Anything)
    BY <2>2, OtherBlockOK
  <2> QED BY <2>1, <2>3, PutBackStep
<1> QED BY <1>2, <1>3 DEF RestoreBlock

\* A disk that is written behind the copy: its entries are agreed to, the copy stays.
LEMMA BehindInv ==
    ASSUME Inv, Idle, NEW dk, DiskOK(dk, Anything), disk' = dk,
           ed' \in EdType, ed'.rdb = ed.rdb, ed'.drag = ed.drag,
           ghost' = Astray(Agreed(AllExts(dk)), TRUE)
    PROVE  Inv'
<1>1. /\ phase = "edit" /\ phase' \in Phases /\ n' \in 0 .. MaxEvents /\ ed.drag = NoDrag
      /\ Within(ed.rdb, Allowed(ghost)) /\ Asked(ed.rdb, ghost.owed)
  BY IdleFound, Found DEF Phases
<1> DEFINE X == AllExts(dk)
<1>2. X \in SUBSET Anything /\ DiskOK(dk, X)
  BY AllExtsOK
<1> HIDE DEF X
<1>3. DiskOK(dk, Allowed(ghost) \cup X) /\ Within(ed.rdb, Allowed(ghost) \cup X)
  BY <1>1, <1>2, DiskMore, WithinMore
<1> QED BY <1>1, <1>2, <1>3, AstrayAgreedCloses DEF X

LEMMA RestoreExtendedInv == ASSUME Inv, Idle, RestoreExtended PROVE Inv'
<1>1. PICK b \in Backups :
        \/ PutBack([After(disk, b) EXCEPT !.t[0] = IF b.home = 0 THEN b ELSE Cut(disk.t[0])])
        \/ \E dk \in HeaderBack(b) : /\ disk' = dk
                                     /\ ed' = ed
                                     /\ ghost' = Astray(Agreed(AllExts(dk)), TRUE)
  BY DEF RestoreExtended
<1>2. phase = "edit" /\ DiskOK(disk, Allowed(ghost)) /\ ed \in EdType
  BY IdleFound, Found
<1>3. CASE \E dk \in HeaderBack(b) : /\ disk' = dk
                                     /\ ed' = ed
                                     /\ ghost' = Astray(Agreed(AllExts(dk)), TRUE)
  <2>1. PICK dk \in HeaderBack(b) : /\ disk' = dk
                                    /\ ed' = ed
                                    /\ ghost' = Astray(Agreed(AllExts(dk)), TRUE)
    BY <1>3
  <2>2. DiskOK(dk, Anything)
    BY <1>2, HeaderBackOK
  <2> QED BY <1>2, <2>1, <2>2, BehindInv
<1>4. CASE PutBack([After(disk, b) EXCEPT !.t[0] = IF b.home = 0 THEN b ELSE Cut(disk.t[0])])
  <2> DEFINE t == IF b.home = 0 THEN b ELSE Cut(disk.t[0])
             a == After(disk, b)
             dk == [a EXCEPT !.t[0] = t]
  <2>1. b \in Records /\ Unmarked(b) /\ Within(b, Anything) /\ b.home \in 0 .. 1
    BY EditorAssumption, WithinAny, Entries DEF Tables
  <2>2. DiskOK(disk, Anything)
    BY <1>2, AllExtsOK, DiskMore
  <2>3. DiskOK(a, Anything) /\ a.mbr = IF b.home = 0 THEN NoMbr ELSE disk.mbr
    BY <2>1, <2>2, AfterOK
  <2>4. disk.t[0] \in Tables /\ (disk.t[0] # NoTable => disk.mbr = NoMbr)
    BY <1>2 DEF DiskOK, Disks
  <2>5. /\ Within(t, Anything) /\ Unmarked(t) /\ (t # NoTable => a.mbr = NoMbr)
    BY <2>1, <2>3, <2>4, CutWithin
  <2> HIDE DEF t, a
  <2>6. DiskOK(dk, Anything)
    BY <2>3, <2>5, PutTable
  <2>7. PutBack(dk)
    BY <1>4 DEF t, a
  <2> HIDE DEF dk
  <2> QED BY <2>6, <2>7, PutBackStep
<1> QED BY <1>1, <1>3, <1>4

LEMMA RestoreImageInv == ASSUME Inv, Idle, RestoreImage PROVE Inv'
<1>1. PICK i \in Images : /\ disk' = i
                          /\ ed' = ed
                          /\ ghost' = Astray(Agreed(AllExts(i)), TRUE)
  BY DEF RestoreImage
<1>2. DiskOK(i, Anything) /\ ed \in EdType
  BY StartsOK, IdleFound, Found
<1> QED BY <1>1, <1>2, BehindInv

LEMMA BlankOK == \A S : DiskOK(Blank, S)
<1>1. /\ Blank \in Disks /\ Blank.mbr = NoMbr /\ \A h \in 0 .. 1 : Blank.t[h] = NoTable
  BY DEF Blank, Disks, Tables
<1> QED BY <1>1, WithinNone DEF DiskOK

LEMMA ClearTableInv == ASSUME Inv, Idle, ClearTable PROVE Inv'
<1>1. /\ phase = "edit" /\ phase' \in Phases /\ n' \in 0 .. MaxEvents /\ ed.drag = NoDrag
      /\ ed \in EdType /\ ghost \in GhostType /\ Within(ed.rdb, Allowed(ghost))
      /\ Asked(ed.rdb, ghost.owed)
  BY IdleFound, Found DEF Phases
<1>2. CASE /\ disk' = Blank
           /\ ed' = [Loaded(ed, Blank) EXCEPT !.dirty = FALSE, !.reboot = TRUE]
           /\ ghost' = Reread(Blank)
  <2>1. DiskOK(Blank, {})
    BY BlankOK
  <2>2. /\ Loaded(ed, Blank) \in EdType /\ Loaded(ed, Blank).rdb = Read(Blank)
        /\ Loaded(ed, Blank).drag = ed.drag
    BY <1>1, <2>1, LoadedOK
  <2>3. ed' \in EdType /\ ed'.rdb = Read(Blank) /\ ed'.drag = NoDrag
    BY <1>1, <1>2, <2>2 DEF EdType
  <2>4. ghost' \in GhostType /\ AllExts(Blank) \subseteq Allowed(ghost')
    BY <1>1, <1>2, <2>1, RereadFields
  <2> QED BY <1>1, <1>2, <2>1, <2>3, <2>4, PutBackInv
<1>3. CASE disk' = Blank /\ ed' = ed /\ ghost' = Astray(Ghost, TRUE)
  BY <1>1, <1>3, BlankOK, AstrayCloses
<1> QED BY <1>2, <1>3 DEF ClearTable

LEMMA RestorePartitionInv == ASSUME Inv, Idle, RestorePartition PROVE Inv'
<1> DEFINE t(i, hi) == Longer(ed.rdb, i, hi)
<1>1. PICK i \in Indices : \E hi \in {ed.rdb.parts[i].hi, ed.rdb.parts[i].lo} :
        \E w \in Written(disk, t(i, hi)) :
           /\ disk' = w.disk
           /\ ed' = [ed EXCEPT !.rdb = t(i, hi), !.reboot = @ \/ w.ok]
           /\ ghost' = Astray(Agreed({Ext(t(i, hi).parts[i])}), Hidden(w.disk, t(i, hi)))
  BY DEF RestorePartition, Longer
<1>2. PICK hi \in {ed.rdb.parts[i].hi, ed.rdb.parts[i].lo} :
        \E w \in Written(disk, t(i, hi)) :
           /\ disk' = w.disk
           /\ ed' = [ed EXCEPT !.rdb = t(i, hi), !.reboot = @ \/ w.ok]
           /\ ghost' = Astray(Agreed({Ext(t(i, hi).parts[i])}), Hidden(w.disk, t(i, hi)))
  BY <1>1
<1> DEFINE u == Longer(ed.rdb, i, hi)
<1>3. PICK w \in Written(disk, u) :
           /\ disk' = w.disk
           /\ ed' = [ed EXCEPT !.rdb = u, !.reboot = @ \/ w.ok]
           /\ ghost' = Astray(Agreed({Ext(u.parts[i])}), Hidden(w.disk, u))
  BY <1>2
<1>4. /\ phase = "edit" /\ phase' \in Phases /\ n' \in 0 .. MaxEvents /\ ed.drag = NoDrag
      /\ Within(ed.rdb, Allowed(ghost)) /\ Asked(ed.rdb, ghost.owed) /\ ed \in EdType
      /\ ed.reboot \in BOOLEAN
  BY IdleFound, Found DEF Phases
<1>5. /\ ed.rdb \in Records /\ i \in DOMAIN ed.rdb.parts /\ hi \in Int
      /\ ed.rdb.parts[i] \in Parts
  BY <1>2, <1>4, HasEntries
<1> DEFINE q == Ending(ed.rdb.parts[i], hi)
           x == Ext(q)
           S == Allowed(ghost) \cup {x}
<1>6. u = Put(ed.rdb, i, q) /\ Asked(u, ghost.owed)
  <2>1. u = Put(ed.rdb, i, q)
    BY <1>5, NewEnd DEF Longer
  <2>2. 0 \in Nat /\ Asked(Put(ed.rdb, i, q), ghost.owed)
    BY <1>4, <1>5, AskedEnd
  <2> QED BY <2>1, <2>2
<1>7. q \in Parts
  BY <1>5, Ends
<1> HIDE DEF u, q
<1>8. u \in Records /\ u.parts[i] = q
  BY <1>5, <1>6, <1>7, PutEntry
<1>9. OthersWithin(ed.rdb, i, Allowed(ghost))
  BY <1>4, <1>5, WithinEach DEF OthersWithin
<1>10. Within(u, S)
  BY <1>5, <1>6, <1>7, <1>9, PutWithin
<1>11. x \in Anything
  BY <1>7 DEF Parts, Ext, Anything
<1>12. ghost' = Astray(Agreed({x}), Hidden(w.disk, u)) /\ Hidden(w.disk, u) \in BOOLEAN
  BY <1>3, <1>8 DEF Hidden
<1> HIDE DEF x
<1>13. DiskOK(disk, S)
  BY <1>4, Found, DiskMore
<1>14. DiskOK(w.disk, S) /\ w.ok \in BOOLEAN
  <2> HIDE DEF S
  <2> QED BY <1>3, <1>10, <1>13, WrittenOK
<1>15. ed' \in EdType /\ ed'.rdb = u /\ ed'.drag = NoDrag
  BY <1>3, <1>4, <1>8, <1>14 DEF EdType, Tables
<1> QED BY <1>3, <1>4, <1>6, <1>10, <1>11, <1>12, <1>14, <1>15, AstrayAgreedCloses

LEMMA DriverRecord ==
    ASSUME NEW t \in Records, NEW u \in WithDriver(t)
    PROVE  u \in Records
<1>1. t.drivers \in 0 .. MaxDrivers /\ MaxDrivers \in Nat
  BY Entries, EditorAssumption
<1>2. CASE u = t
  BY <1>2
<1>3. CASE t.drivers < MaxDrivers /\ u = [t EXCEPT !.drivers = @ + 1]
  <2>1. t.drivers + 1 \in 0 .. MaxDrivers
    BY <1>1, <1>3
  <2> QED BY <1>3, <2>1 DEF Records
<1> QED BY <1>2, <1>3 DEF WithDriver

LEMMA CopyPartitionInv == ASSUME Inv, Idle, CopyPartition PROVE Inv'
<1>1. phase = "edit" /\ ed \in EdType /\ ed.reboot \in BOOLEAN /\ DiskOK(disk, Anything)
  BY IdleFound, Found, AllExtsOK, DiskMore
<1>2. ASSUME NEW u \in Tables, NEW w \in Written(disk, u), disk' = w.disk,
             ed' = [ed EXCEPT !.reboot = @ \/ w.ok],
             ghost' = Astray(Agreed(AllExts(w.disk)), TRUE)
      PROVE  Inv'
  <2>1. Within(u, Anything)
    BY WithinAny
  <2>2. DiskOK(w.disk, Anything) /\ w.ok \in BOOLEAN
    BY <1>1, <2>1, WrittenOK
  <2>3. ed' \in EdType /\ ed'.rdb = ed.rdb /\ ed'.drag = ed.drag
    BY <1>1, <1>2, <2>2 DEF EdType
  <2> QED BY <1>2, <2>2, <2>3, BehindInv
<1>3. Read(disk) \in Records
  BY <1>1, ReadOK DEF CopyPartition, Within, Tables
<1>4. PICK t \in WithDriver(Read(disk)) :
         \/ \E i \in DOMAIN t.parts : \E hi \in {t.parts[i].lo, t.parts[i].hi} :
              \E w \in Written(disk, Longer(t, i, hi)) :
                /\ disk' = w.disk
                /\ ed' = [ed EXCEPT !.reboot = @ \/ w.ok]
                /\ ghost' = Astray(Agreed(AllExts(w.disk)), TRUE)
         \/ \E name \in Unused(t, 0), lo \in t.lo .. t.hi : \E hi \in lo .. t.hi :
              \E w \in Written(disk, Adding(t, NewPart(name, lo, hi, FALSE))) :
                /\ disk' = w.disk
                /\ ed' = [ed EXCEPT !.reboot = @ \/ w.ok]
                /\ ghost' = Astray(Agreed(AllExts(w.disk)), TRUE)
  BY DEF CopyPartition, Longer, Adding
<1>5. t \in Records
  BY <1>3, DriverRecord
<1>6. CASE \E i \in DOMAIN t.parts : \E hi \in {t.parts[i].lo, t.parts[i].hi} :
             \E w \in Written(disk, Longer(t, i, hi)) :
                /\ disk' = w.disk
                /\ ed' = [ed EXCEPT !.reboot = @ \/ w.ok]
                /\ ghost' = Astray(Agreed(AllExts(w.disk)), TRUE)
  <2>1. PICK i \in DOMAIN t.parts : \E hi \in {t.parts[i].lo, t.parts[i].hi} :
             \E w \in Written(disk, Longer(t, i, hi)) :
                /\ disk' = w.disk
                /\ ed' = [ed EXCEPT !.reboot = @ \/ w.ok]
                /\ ghost' = Astray(Agreed(AllExts(w.disk)), TRUE)
    BY <1>6
  <2>2. PICK hi \in {t.parts[i].lo, t.parts[i].hi} :
             \E w \in Written(disk, Longer(t, i, hi)) :
                /\ disk' = w.disk
                /\ ed' = [ed EXCEPT !.reboot = @ \/ w.ok]
                /\ ghost' = Astray(Agreed(AllExts(w.disk)), TRUE)
    BY <2>1
  <2>3. hi \in Int /\ t.parts[i] \in Parts
    BY <1>5, <2>2, Entries
  <2> DEFINE q == Ending(t.parts[i], hi)
             u == Longer(t, i, hi)
  <2>4. u = Put(t, i, q)
    BY <1>5, <2>3, NewEnd DEF Longer
  <2>5. q \in Parts
    BY <2>3, Ends
  <2> HIDE DEF q
  <2>6. u \in Tables
    BY <1>5, <2>4, <2>5, PutEntry DEF Tables
  <2>7. PICK w \in Written(disk, u) : /\ disk' = w.disk
                                      /\ ed' = [ed EXCEPT !.reboot = @ \/ w.ok]
                                      /\ ghost' = Astray(Agreed(AllExts(w.disk)), TRUE)
    BY <2>2
  <2> HIDE DEF u
  <2> QED BY <1>2, <2>6, <2>7
<1>7. CASE \E name \in Unused(t, 0), lo \in t.lo .. t.hi : \E hi \in lo .. t.hi :
              \E w \in Written(disk, Adding(t, NewPart(name, lo, hi, FALSE))) :
                /\ disk' = w.disk
                /\ ed' = [ed EXCEPT !.reboot = @ \/ w.ok]
                /\ ghost' = Astray(Agreed(AllExts(w.disk)), TRUE)
  <2>1. PICK name \in Unused(t, 0), lo \in t.lo .. t.hi : \E hi \in lo .. t.hi :
              \E w \in Written(disk, Adding(t, NewPart(name, lo, hi, FALSE))) :
                /\ disk' = w.disk
                /\ ed' = [ed EXCEPT !.reboot = @ \/ w.ok]
                /\ ghost' = Astray(Agreed(AllExts(w.disk)), TRUE)
    BY <1>7
  <2>2. PICK hi \in lo .. t.hi :
              \E w \in Written(disk, Adding(t, NewPart(name, lo, hi, FALSE))) :
                /\ disk' = w.disk
                /\ ed' = [ed EXCEPT !.reboot = @ \/ w.ok]
                /\ ghost' = Astray(Agreed(AllExts(w.disk)), TRUE)
    BY <2>1
  <2>3. lo \in Nat /\ hi \in Int /\ name \in Names
    BY <1>5, Entries DEF Unused
  <2> DEFINE q == NewPart(name, lo, hi, FALSE)
             u == Adding(t, q)
  <2>4. q \in Parts
    BY <2>3 DEF NewPart, Parts
  <2>5. PICK w \in Written(disk, u) : /\ disk' = w.disk
                                      /\ ed' = [ed EXCEPT !.reboot = @ \/ w.ok]
                                      /\ ghost' = Astray(Agreed(AllExts(w.disk)), TRUE)
    BY <2>2
  <2> HIDE DEF q
  <2>6. u \in Tables
    BY <1>5, <2>4, Appends DEF Tables
  <2> HIDE DEF u
  <2> QED BY <1>2, <2>5, <2>6
<1> QED BY <1>6, <1>7, <1>4

LEMMA WriteMbrInv ==
    ASSUME Inv, Idle, NEW m \in SUBSET Slots, WriteMbr(m)
    PROVE  Inv'
<1>1. /\ phase = "edit" /\ phase' \in Phases /\ n' \in 0 .. MaxEvents /\ ed.drag = NoDrag
      /\ Within(ed.rdb, Allowed(ghost)) /\ Asked(ed.rdb, ghost.owed) /\ ed \in EdType
      /\ DiskOK(disk, Allowed(ghost))
  BY IdleFound, Found DEF Phases
<1>2. /\ disk.t[0] = NoTable /\ disk' = [disk EXCEPT !.mbr = m] /\ ed' = [ed EXCEPT !.mbr = m]
      /\ ghost' = Ghost
  BY DEF WriteMbr, MbrAllowed
<1>3. ed' \in EdType /\ ed'.rdb = ed.rdb /\ ed'.drag = NoDrag
  BY <1>1, <1>2 DEF EdType
<1>4. disk' \in Disks /\ disk'.t = disk.t
  BY <1>1, <1>2 DEF Disks, DiskOK
<1>5. DiskOK(disk', Allowed(ghost))
  BY <1>1, <1>2, <1>4 DEF DiskOK
<1> QED BY <1>1, <1>2, <1>3, <1>5, GhostCloses

LEMMA SlotsInv == ASSUME Inv, Idle, AddSlot \/ EditSlot \/ DeleteSlot PROVE Inv'
<1>1. ed.mbr \in {NoMbr} \cup SUBSET Slots
  BY IdleFound, Found
<1>2. PICK m \in SUBSET Slots : WriteMbr(m)
  <2>1. HasMbr /\ ed.mbr \in SUBSET Slots
    BY <1>1 DEF HasMbr, AddSlot, EditSlot, DeleteSlot
  <2>2. CASE AddSlot
    BY <2>1, <2>2 DEF AddSlot
  <2>3. CASE EditSlot
    BY <2>1, <2>3 DEF EditSlot
  <2>4. CASE DeleteSlot
    BY <2>1, <2>4 DEF DeleteSlot
  <2> QED BY <2>2, <2>3, <2>4
<1> QED BY <1>2, WriteMbrInv

---------------------------------------------------------------------------
(* Write, and leaving *)

LEMMA SettledPlain ==
    ASSUME NEW t \in Records
    PROVE  Settled(t) = Plain(t)
BY Entries DEF Settled, Plain

LEMMA WantedOK ==
    ASSUME NEW t \in Records
    PROVE  /\ Wanted(t) \in SUBSET Anything /\ Wanted(t) \subseteq Exts(t)
           /\ \A f \in Wanted(t) : \E i \in DOMAIN t.parts : f = Ext(t.parts[i]) /\ t.parts[i].want
<1>1. /\ PartsOf(t) = {t.parts[i] : i \in DOMAIN t.parts}
      /\ \A i \in DOMAIN t.parts : t.parts[i].name \in Names /\ t.parts[i].lo \in Nat
                                   /\ t.parts[i].hi \in Int
  BY Entries
<1>2. \A f \in Wanted(t) : \E i \in DOMAIN t.parts : f = Ext(t.parts[i]) /\ t.parts[i].want
  BY <1>1 DEF Wanted
<1>3. Wanted(t) \subseteq Exts(t)
  BY DEF Wanted, Exts
<1>4. \A i \in DOMAIN t.parts : Ext(t.parts[i]) \in Anything
  BY <1>1 DEF Ext, Anything
<1> QED BY <1>2, <1>3, <1>4

\* Taking the MBR off a disk.
LEMMA BareOK ==
    ASSUME NEW S, NEW dk, DiskOK(dk, S), NEW u, u = [dk EXCEPT !.mbr = NoMbr]
    PROVE  DiskOK(u, S) /\ u.t = dk.t
<1>1. dk \in Disks
  BY DEF DiskOK
<1>2. u \in Disks /\ u.t = dk.t /\ u.mbr = NoMbr
  BY <1>1 DEF Disks
<1> QED BY <1>2 DEF DiskOK

\* What a settled write leaves.
LEMMA SettlesFields ==
    ASSUME ghost \in GhostType, NEW e \in EdType, e.drag = NoDrag, e.rdb \in Records,
           NEW S, Within(e.rdb, S), NEW dk, DiskOK(dk, S), NEW leave \in BOOLEAN,
           phase \in Phases, Settles(e, dk, leave)
    PROVE  /\ phase' \in Phases /\ DiskOK(disk', S) /\ disk'.t = dk.t
           /\ ed' \in EdType /\ ed'.rdb = Plain(e.rdb) /\ ed'.drag = NoDrag /\ ~ed'.dirty
           /\ ghost' \in GhostType /\ Allowed(ghost') = Allowed(ghost)
           /\ ghost'.formatted = Wanted(e.rdb) /\ ghost'.loose = Hidden(dk, e.rdb)
           /\ leave => phase' \in {"reboot", "wrote"}
           /\ ~leave => phase' = phase
<1> DEFINE gone == {x \in e.unmount : \A p \in PartsOf(e.rdb) : p.name # x}
<1>1. PICK failed \in BOOLEAN, bare \in BOOLEAN :
          /\ disk' = IF bare THEN [dk EXCEPT !.mbr = NoMbr] ELSE dk
          /\ ed' = [e EXCEPT !.rdb = Settled(@), !.dirty = FALSE, !.unmount = {},
                             !.reboot = FALSE]
          /\ ghost' = [Ghost EXCEPT !.formatted = Wanted(e.rdb), !.owed = {},
                                !.loose = Hidden(dk, e.rdb)]
          /\ phase' = IF ~leave THEN phase ELSE IF e.reboot \/ failed THEN "reboot" ELSE "wrote"
  <2>1. PICK failed \in IF Wanted(e.rdb) = {} /\ gone = {} THEN {FALSE} ELSE BOOLEAN :
        \E bare \in IF ~leave /\ e.mbr = NoMbr /\ dk.mbr # NoMbr THEN BOOLEAN ELSE {FALSE} :
          /\ disk' = IF bare THEN [dk EXCEPT !.mbr = NoMbr] ELSE dk
          /\ ed' = [e EXCEPT !.rdb = Settled(@), !.dirty = FALSE, !.unmount = {},
                             !.reboot = FALSE]
          /\ ghost' = [Ghost EXCEPT !.formatted = Wanted(e.rdb), !.owed = {},
                                !.loose = Hidden(dk, e.rdb)]
          /\ phase' = IF ~leave THEN phase ELSE IF e.reboot \/ failed THEN "reboot" ELSE "wrote"
    BY DEF Settles
  <2> HIDE DEF gone
  <2> QED BY <2>1
<1>2. DiskOK(disk', S) /\ disk'.t = dk.t
  BY <1>1, BareOK
<1>3. Plain(e.rdb) \in Records /\ Settled(e.rdb) = Plain(e.rdb)
  BY PlainRecord, SettledPlain
<1>4. ed' \in EdType /\ ed'.rdb = Plain(e.rdb) /\ ed'.drag = NoDrag /\ ~ed'.dirty
  BY <1>1, <1>3 DEF EdType, Tables
<1>5. /\ Ghost \in GhostType /\ Allowed(Ghost) = Allowed(ghost)
      /\ Wanted(e.rdb) \in SUBSET Anything /\ Hidden(dk, e.rdb) \in BOOLEAN
  BY GhostFields, WantedOK DEF Hidden
<1>6. /\ ghost' \in GhostType /\ Allowed(ghost') = Allowed(ghost)
      /\ ghost'.formatted = Wanted(e.rdb) /\ ghost'.loose = Hidden(dk, e.rdb)
  BY <1>1, <1>5 DEF GhostType, Allowed
<1>7. /\ phase' \in Phases /\ (~leave => phase' = phase)
      /\ leave => phase' \in {"reboot", "wrote"}
  BY <1>1 DEF Phases
<1> QED BY <1>2, <1>4, <1>6, <1>7

LEMMA SettlesInv ==
    ASSUME Inv, phase = "edit", n' \in 0 .. MaxEvents,
           NEW e \in EdType, e.drag = NoDrag, e.rdb \in Records, Within(e.rdb, Allowed(ghost)),
           NEW dk, DiskOK(dk, Allowed(ghost)), NEW leave \in BOOLEAN, Settles(e, dk, leave)
    PROVE  Inv'
<1>1. ghost \in GhostType /\ phase \in Phases
  BY Found DEF Phases
<1>2. /\ phase' \in Phases /\ DiskOK(disk', Allowed(ghost))
      /\ ed' \in EdType /\ ed'.rdb = Plain(e.rdb) /\ ed'.drag = NoDrag
      /\ ghost' \in GhostType /\ Allowed(ghost') = Allowed(ghost)
  BY <1>1, SettlesFields
<1>3. Within(Plain(e.rdb), Allowed(ghost)) /\ Asked(Plain(e.rdb), ghost'.owed)
  BY PlainWithin, AskedNone
<1> QED BY <1>2, <1>3, Closes

LEMMA FailsInv ==
    ASSUME Inv, phase = "edit", n' \in 0 .. MaxEvents, ed.drag = NoDrag,
           NEW w \in Written(disk, ed.rdb), Fails(w)
    PROVE  Inv'
<1>1. /\ Within(ed.rdb, Allowed(ghost)) /\ Asked(ed.rdb, ghost.owed) /\ ed \in EdType
      /\ DiskOK(disk, Allowed(ghost))
  BY Found, NotDragged, NoDragType
<1>2. DiskOK(w.disk, Allowed(ghost))
  BY <1>1, WrittenOK
<1>3. /\ disk' = w.disk /\ ed' = ed /\ ghost' = Astray(Ghost, w.disk # disk) /\ phase' \in Phases
  BY DEF Fails, Phases
<1>4. (w.disk # disk) \in BOOLEAN
  OBVIOUS
<1> QED BY <1>1, <1>2, <1>3, <1>4, AstrayCloses

\* The copy with the first cylinder raised.
LEMMA RaisedOK ==
    ASSUME ed \in EdType, ed.drag = NoDrag, ed.rdb \in Records
    PROVE  /\ Raised \in EdType /\ Raised.drag = NoDrag /\ Raised.dirty /\ Raised.rdb \in Records
           /\ Raised.rdb.parts = ed.rdb.parts /\ Raised.rdb.home = ed.rdb.home
<1> DEFINE u == [ed.rdb EXCEPT !.lo = Need(ed.rdb)]
<1>1. Need(ed.rdb) \in Nat
  BY Entries, EditorAssumption DEF Need
<1>2. u \in Records /\ u.parts = ed.rdb.parts /\ u.home = ed.rdb.home
  BY <1>1 DEF Records
<1>3. Raised = [Unsaved(ed) EXCEPT !.rdb = u]
  BY DEF Raised, EdType, Unsaved
<1> HIDE DEF u
<1> QED BY <1>2, <1>3 DEF EdType, Unsaved, Tables

LEMMA WriteInv == ASSUME Inv, Write PROVE Inv'
<1>1. /\ phase = "edit" /\ n' \in 0 .. MaxEvents /\ ed.drag = NoDrag
  BY EditorAssumption DEF Write, Event, Inv
<1>2. /\ Within(ed.rdb, Allowed(ghost)) /\ Asked(ed.rdb, ghost.owed) /\ ed \in EdType
      /\ DiskOK(disk, Allowed(ghost)) /\ ghost \in GhostType
  BY <1>1, Found, NotDragged, NoDragType
<1>3. PICK w \in Written(disk, ed.rdb) :
              \/ w.ok /\ Settles(ed, w.disk, FALSE)
              \/ Fails(w)
              \/ /\ w.why = "overflow"
                 /\ \A p \in PartsOf(ed.rdb) : p.lo >= Need(ed.rdb)
                 /\ \E v \in Written(disk, Raised.rdb) :
                      IF v.ok THEN Settles(Raised, v.disk, FALSE)
                      ELSE /\ disk' = v.disk
                           /\ ed' = Raised
                           /\ ghost' = Ghost
                           /\ UNCHANGED phase
  BY DEF Write
<1>4. CASE w.ok /\ Settles(ed, w.disk, FALSE)
  <2>1. DiskOK(w.disk, Allowed(ghost)) /\ ed.rdb \in Records
    BY <1>2, <1>4, WrittenOK
  <2> QED BY <1>1, <1>2, <1>4, <2>1, SettlesInv
<1>5. CASE Fails(w)
  BY <1>1, <1>5, FailsInv
<1>6. CASE /\ w.why = "overflow"
           /\ \E v \in Written(disk, Raised.rdb) :
                      IF v.ok THEN Settles(Raised, v.disk, FALSE)
                      ELSE /\ disk' = v.disk
                           /\ ed' = Raised
                           /\ ghost' = Ghost
                           /\ UNCHANGED phase
  <2>1. ed.rdb \in Records
    <3>1. CASE ed.rdb = NoTable
      <4>1. w = Outcome(disk, "refused")
        BY <3>1 DEF Written
      <4> QED BY <1>6, <4>1 DEF Outcome
    <3> QED BY <1>2, <3>1 DEF EdType, Tables
  <2>2. /\ Raised \in EdType /\ Raised.drag = NoDrag /\ Raised.rdb \in Records
        /\ Within(Raised.rdb, Allowed(ghost)) /\ Asked(Raised.rdb, ghost.owed)
    BY <1>1, <1>2, <2>1, RaisedOK, SameEntries DEF AsksAs
  <2>3. PICK v \in Written(disk, Raised.rdb) :
                      IF v.ok THEN Settles(Raised, v.disk, FALSE)
                      ELSE /\ disk' = v.disk
                           /\ ed' = Raised
                           /\ ghost' = Ghost
                           /\ UNCHANGED phase
    BY <1>6
  <2>4. DiskOK(v.disk, Allowed(ghost))
    BY <1>2, <2>2, WrittenOK
  <2>5. CASE v.ok
    BY <1>1, <2>2, <2>3, <2>4, <2>5, SettlesInv
  <2>6. CASE ~v.ok
    BY <1>1, <2>2, <2>3, <2>4, <2>6, GhostCloses DEF Phases
  <2> QED BY <2>5, <2>6
<1> QED BY <1>3, <1>4, <1>5, <1>6

LEMMA BackInv == ASSUME Inv, Back PROVE Inv'
<1>1. /\ phase = "edit" /\ n' \in 0 .. MaxEvents /\ ed.drag = NoDrag
  BY EditorAssumption DEF Back, Event, Inv
<1>2. /\ Within(ed.rdb, Allowed(ghost)) /\ ed \in EdType /\ DiskOK(disk, Allowed(ghost))
  BY <1>1, Found, NotDragged, NoDragType
<1>3. PICK w \in Written(disk, ed.rdb) : IF w.ok THEN Settles(ed, w.disk, TRUE) ELSE Fails(w)
  BY DEF Back
<1>4. CASE w.ok
  <2>1. DiskOK(w.disk, Allowed(ghost)) /\ ed.rdb \in Records
    BY <1>2, <1>4, WrittenOK
  <2> QED BY <1>1, <1>2, <1>3, <1>4, <2>1, SettlesInv
<1>5. CASE ~w.ok
  BY <1>1, <1>3, <1>5, FailsInv
<1> QED BY <1>4, <1>5

LEMMA CloseInv == ASSUME Inv, Close PROVE Inv'
<1>1. /\ phase = "edit" /\ n' \in 0 .. MaxEvents /\ ed.drag = NoDrag
  BY EditorAssumption DEF Close, Event, Inv
<1>2. /\ Within(ed.rdb, Allowed(ghost)) /\ ed \in EdType /\ DiskOK(disk, Allowed(ghost))
      /\ ghost \in GhostType /\ Asked(ed.rdb, ghost.owed)
  BY <1>1, Found, NotDragged, NoDragType
<1>3. PICK w \in Written(disk, ed.rdb) :
             IF w.ok THEN /\ disk' = w.disk
                          /\ ed' = [ed EXCEPT !.dirty = FALSE, !.reboot = FALSE]
                          /\ ghost' = [Ghost EXCEPT !.loose = Hidden(w.disk, ed.rdb)]
                          /\ phase' = IF ed.reboot THEN "reboot" ELSE "wrote"
             ELSE Fails(w)
  BY DEF Close
<1>4. CASE w.ok
  <2>1. DiskOK(w.disk, Allowed(ghost))
    BY <1>2, WrittenOK
  <2>2. ed' \in EdType /\ ed'.rdb = ed.rdb /\ ed'.drag = NoDrag
    BY <1>1, <1>2, <1>3, <1>4 DEF EdType
  <2>3. /\ Ghost \in GhostType /\ Allowed(Ghost) = Allowed(ghost) /\ Ghost.owed = ghost.owed
        /\ Hidden(w.disk, ed.rdb) \in BOOLEAN
    BY <1>2, GhostFields DEF Hidden
  <2>4. ghost' \in GhostType /\ Allowed(ghost') = Allowed(ghost) /\ ghost'.owed = ghost.owed
    BY <1>3, <1>4, <2>3 DEF GhostType, Allowed
  <2> QED BY <1>1, <1>2, <1>3, <1>4, <2>1, <2>2, <2>4, Closes DEF Phases
<1>5. CASE ~w.ok
  BY <1>1, <1>3, <1>5, FailsInv
<1> QED BY <1>4, <1>5

LEMMA LeaveInv == ASSUME Inv, Leave PROVE Inv'
<1>1. /\ phase = "edit" /\ n' \in 0 .. MaxEvents /\ ed.drag = NoDrag /\ phase' \in Phases
      /\ disk' = disk /\ ed' = ed /\ ghost' = Ghost
  BY EditorAssumption DEF Leave, Leaves, Event, Inv, Phases
<1> QED BY <1>1, Found, NotDragged, NoDragType, GhostCloses

---------------------------------------------------------------------------
(* Every step *)

LEMMA InvNext == ASSUME Inv, Next PROVE Inv'
<1>1. CASE Start
  BY <1>1, StartInv
<1>2. CASE Idle /\ (PressEdge \/ PressBlock \/ PressGap)
  BY <1>2, PressEdgeInv, PressBlockInv, PressGapInv
<1>3. CASE MouseMove \/ NewSize \/ ReleaseEdge \/ ReleaseGap \/ ReleaseBlock
  BY <1>3, MouseMoveInv, NewSizeInv, ReleaseEdgeInv, ReleaseGapInv, ReleaseBlockInv
<1>4. CASE Idle /\ (MoveGadget \/ Edit \/ Add \/ Delete \/ Filesystems \/ Flags)
  BY <1>4, MoveGadgetInv, EditInv, AddInv, DeleteInv, FilesystemsInv, FlagsInv
<1>5. CASE \E withMbr \in BOOLEAN : Idle /\ InitRdb(withMbr)
  BY <1>5, InitRdbInv
<1>6. CASE Idle /\ UpdateGeometry
  BY <1>6, UpdateGeometryInv
<1>7. CASE Undo
  BY <1>7, UndoInv
<1>8. CASE Idle /\ (RestoreBlock \/ RestoreExtended \/ RestoreImage \/ ClearTable)
  BY <1>8, RestoreBlockInv, RestoreExtendedInv, RestoreImageInv, ClearTableInv
<1>9. CASE Idle /\ (RestorePartition \/ CopyPartition)
  BY <1>9, RestorePartitionInv, CopyPartitionInv
<1>10. CASE Idle /\ (AddSlot \/ EditSlot \/ DeleteSlot)
  BY <1>10, SlotsInv
<1>11. CASE Write \/ Leave \/ Back \/ Close
  BY <1>11, WriteInv, LeaveInv, BackInv, CloseInv
<1> QED BY <1>1, <1>2, <1>3, <1>4, <1>5, <1>6, <1>7, <1>8, <1>9, <1>10, <1>11 DEF Next

LEMMA InvSpec == Spec => []Inv
<1>1. Init => Inv
  BY InvInit
<1>2. Inv /\ [Next]_vars => Inv'
  <2> SUFFICES ASSUME Inv, [Next]_vars PROVE Inv'
    OBVIOUS
  <2>1. CASE Next
    BY <2>1, InvNext
  <2>2. CASE UNCHANGED vars
    BY <2>2 DEF vars, Inv, Held, DragOK
  <2> QED BY <2>1, <2>2
<1> QED BY <1>1, <1>2, PTL DEF Spec

(***************************************************************************)
(* Whatever the mouse, the dialogs and the menu do, with whatever table,   *)
(* MBR, image and backup: the disk and the copy stay tables, the disk      *)
(* never holds an MBR beside a table that begins in block 0, and a drag    *)
(* keeps its bounds.                                                        *)
(***************************************************************************)
THEOREM TypeCorrect == Spec => []TypeOK
BY InvSpec, InvTypes, PTL

(***************************************************************************)
(* However long the session and whichever way the table is written, the    *)
(* disk holds no partition at cylinders that the user has not agreed to,   *)
(* unless Undo was chosen with the button held.                             *)
(***************************************************************************)
THEOREM OnlyWhatWasAgreed == Spec => []Accepted
BY InvSpec, InvAccepted, PTL

---------------------------------------------------------------------------
(* Formats *)

LEMMA SettlesFormats ==
    ASSUME Inv, phase = "edit", NEW e \in EdType, e.drag = NoDrag, e.rdb \in Records,
           Within(e.rdb, Allowed(ghost)), Asked(e.rdb, ghost.owed),
           NEW w \in Written(disk, e.rdb), w.ok, NEW leave \in BOOLEAN, Settles(e, w.disk, leave)
    PROVE  Formats
<1> DEFINE t == e.rdb
<1>1. DiskOK(w.disk, Allowed(ghost)) /\ w.disk.t[t.home] = Plain(t)
  BY Found, WrittenOK
<1>2. /\ disk'.t = w.disk.t /\ ed'.rdb = Plain(t) /\ ghost'.formatted = Wanted(t)
  BY <1>1, Found, SettlesFields DEF Phases
<1>3. /\ Plain(t) \in Records /\ Plain(t).home = t.home /\ DOMAIN Plain(t).parts = DOMAIN t.parts
      /\ \A i \in DOMAIN t.parts : Ext(Plain(t).parts[i]) = Ext(t.parts[i])
  BY PlainRecord
<1>4. disk'.t[ed'.rdb.home] = Plain(t)
  BY <1>1, <1>2, <1>3
<1>5. ASSUME NEW f \in Wanted(t)
      PROVE  f[1] \in ghost.owed /\ f \in Exts(Plain(t))
  <2>1. PICK i \in DOMAIN t.parts : f = Ext(t.parts[i]) /\ t.parts[i].want
    BY WantedOK
  <2>2. t # NoTable /\ Plain(t) # NoTable /\ PartsOf(Plain(t)) = {Plain(t).parts[j] : j \in DOMAIN t.parts}
    BY <1>3, Entries
  <2> HIDE DEF t
  <2>3. t.parts[i].name \in ghost.owed
    BY <2>1, <2>2 DEF Asked, t
  <2>4. f[1] \in ghost.owed
    BY <2>1, <2>3 DEF Ext
  <2>5. f = Ext(Plain(t).parts[i]) /\ Plain(t).parts[i] \in PartsOf(Plain(t))
    BY <1>3, <2>1, <2>2 DEF t
  <2> QED BY <2>4, <2>5 DEF Exts
<1> HIDE DEF t
<1> QED BY <1>2, <1>4, <1>5 DEF Formats

\* Every other event formats nothing.
LEMMA Silent ==
    ASSUME ghost \in GhostType, NEW X, NEW Y, NEW gone, NEW b, NEW dk
    PROVE  /\ Ghost.formatted = {} /\ [Ghost EXCEPT !.owed = Y].formatted = {}
           /\ [Ghost EXCEPT !.loose = b].formatted = {}
           /\ Agreed(X).formatted = {} /\ [Agreed(X) EXCEPT !.owed = Y].formatted = {}
           /\ Astray(Ghost, gone).formatted = {} /\ Astray(Agreed(X), gone).formatted = {}
           /\ Reread(dk).formatted = {} /\ [Reread(dk) EXCEPT !.loose = b, !.split = Y].formatted = {}
<1>1. Ghost.formatted = {} /\ Ghost \in GhostType
  BY GhostFields
<1> QED BY <1>1 DEF Agreed, Astray, Reread, GhostType

LEMMA DragsSilent ==
    ASSUME ghost \in GhostType, PressEdge \/ PressBlock \/ PressGap \/ MouseMove \/ NewSize
                                \/ ReleaseEdge \/ ReleaseGap \/ ReleaseBlock
    PROVE  ghost'.formatted = {}
<1>1. CASE ReleaseEdge
  BY <1>1, Silent DEF ReleaseEdge, Cancelled, Kept, Resized
<1>2. CASE ReleaseGap
  <2>1. CASE Cancelled
    BY <2>1, Silent DEF Cancelled
  <2>2. CASE Appended(ed.rdb, ed.drag.lo, ed.drag.hi)
    BY <2>2, Silent DEF Appended
  <2> QED BY <1>2, <2>1, <2>2 DEF ReleaseGap
<1>3. CASE ReleaseBlock
  <2>1. ghost' = Ghost \/ \E X, gone : ghost' = Astray(Agreed(X), gone)
    BY <1>3 DEF ReleaseBlock, Moved
  <2> QED BY <2>1, Silent, Zenon
<1> QED BY <1>1, <1>2, <1>3, Silent DEF PressEdge, PressBlock, PressGap, MouseMove, NewSize

LEMMA EditsSilent ==
    ASSUME ghost \in GhostType, NEW withMbr, MoveGadget \/ Edit \/ Add \/ Delete \/ Filesystems
                                \/ Flags \/ InitRdb(withMbr) \/ UpdateGeometry
    PROVE  ghost'.formatted = {}
<1>1. CASE Add
  <2>1. ghost' = Astray(Ghost, TRUE) \/ \E t, lo, hi : Appended(t, lo, hi)
    BY <1>1, Zenon DEF Add
  <2>2. ASSUME NEW t, NEW lo, NEW hi, Appended(t, lo, hi)
        PROVE  \E X, Y : ghost' = [Agreed(X) EXCEPT !.owed = Y]
    BY <2>2, Zenon DEF Appended
  <2> QED BY <2>1, <2>2, Silent, Zenon
<1>2. CASE Edit
  <2>1. \/ \E gone : ghost' = Astray(Ghost, gone)
        \/ \E X, Y : ghost' = [Agreed(X) EXCEPT !.owed = Y]
    BY <1>2 DEF Edit
  <2> QED BY <2>1, Silent, Zenon
<1>3. CASE MoveGadget
  <2>1. ghost' = Ghost \/ \E X, gone : ghost' = Astray(Agreed(X), gone)
    BY <1>3 DEF MoveGadget, Moved
  <2> QED BY <2>1, Silent, Zenon
<1>4. CASE Delete
  BY <1>4, Silent DEF Delete
<1>5. CASE InitRdb(withMbr)
  BY <1>5, Silent DEF InitRdb
<1> QED BY <1>1, <1>2, <1>3, <1>4, <1>5, Silent DEF Filesystems, Flags, UpdateGeometry

LEMMA MenuSilent ==
    ASSUME ghost \in GhostType, Undo \/ RestoreBlock \/ RestoreExtended \/ RestoreImage \/ ClearTable
                                \/ RestorePartition \/ CopyPartition
                                \/ AddSlot \/ EditSlot \/ DeleteSlot \/ Leave
    PROVE  ghost'.formatted = {}
<1>1. CASE Undo
  BY <1>1, Silent DEF Undo
<1>2. CASE RestoreBlock \/ RestoreExtended
  BY <1>2, Silent DEF RestoreBlock, RestoreExtended, PutBack
<1>3. CASE RestoreImage \/ ClearTable
  BY <1>3, Silent DEF RestoreImage, ClearTable
<1>4. CASE RestorePartition
  <2>1. \E X, gone : ghost' = Astray(Agreed(X), gone)
    BY <1>4 DEF RestorePartition
  <2> QED BY <2>1, Silent, Zenon
<1>5. CASE CopyPartition
  <2>1. \E X : ghost' = Astray(Agreed(X), TRUE)
    BY <1>5 DEF CopyPartition
  <2> QED BY <2>1, Silent, Zenon
<1>6. CASE AddSlot \/ EditSlot \/ DeleteSlot
  BY <1>6, Silent DEF AddSlot, EditSlot, DeleteSlot, WriteMbr
<1>7. CASE Leave
  BY <1>7, Silent DEF Leave, Leaves
<1> QED BY <1>1, <1>2, <1>3, <1>4, <1>5, <1>6, <1>7

LEMMA WritesFormat == ASSUME Inv, Write \/ Back \/ Close PROVE Formats
<1>1. phase = "edit" /\ ed.drag = NoDrag
  BY DEF Write, Back, Close, Event
<1>2. /\ Within(ed.rdb, Allowed(ghost)) /\ Asked(ed.rdb, ghost.owed) /\ ed \in EdType
      /\ DiskOK(disk, Allowed(ghost)) /\ ghost \in GhostType
  BY <1>1, Found, NotDragged, NoDragType
<1>3. ASSUME ghost'.formatted = {} PROVE Formats
  BY <1>3 DEF Formats
<1>4. ASSUME NEW w \in Written(disk, ed.rdb), w.ok, NEW leave \in BOOLEAN,
             Settles(ed, w.disk, leave)
      PROVE  Formats
  <2>1. ed.rdb \in Records
    BY <1>2, <1>4, WrittenOK
  <2> QED BY <1>1, <1>2, <1>4, <2>1, SettlesFormats
<1>5. CASE Write
  <2>1. PICK w \in Written(disk, ed.rdb) :
              \/ w.ok /\ Settles(ed, w.disk, FALSE)
              \/ Fails(w)
              \/ /\ w.why = "overflow"
                 /\ \E v \in Written(disk, Raised.rdb) :
                      IF v.ok THEN Settles(Raised, v.disk, FALSE)
                      ELSE ghost' = Ghost
    BY <1>5 DEF Write
  <2>2. CASE w.ok /\ Settles(ed, w.disk, FALSE)
    BY <1>4, <2>2
  <2>3. CASE Fails(w)
    BY <1>2, <1>3, <2>3, Silent DEF Fails
  <2>4. CASE /\ w.why = "overflow"
             /\ \E v \in Written(disk, Raised.rdb) :
                  IF v.ok THEN Settles(Raised, v.disk, FALSE) ELSE ghost' = Ghost
    <3>1. PICK v \in Written(disk, Raised.rdb) :
                  IF v.ok THEN Settles(Raised, v.disk, FALSE) ELSE ghost' = Ghost
      BY <2>4
    <3>2. CASE ~v.ok
      BY <1>2, <1>3, <3>1, <3>2, Silent
    <3>3. CASE v.ok
      <4>1. ed.rdb \in Records
        <5>1. CASE ed.rdb = NoTable
          <6>1. w = Outcome(disk, "refused")
            BY <5>1 DEF Written
          <6> QED BY <2>4, <6>1 DEF Outcome
        <5> QED BY <1>2, <5>1 DEF EdType, Tables
      <4>2. /\ Raised \in EdType /\ Raised.drag = NoDrag /\ Raised.rdb \in Records
            /\ Within(Raised.rdb, Allowed(ghost)) /\ Asked(Raised.rdb, ghost.owed)
        BY <1>1, <1>2, <4>1, RaisedOK, SameEntries DEF AsksAs
      <4> QED BY <1>1, <3>1, <3>3, <4>2, SettlesFormats
    <3> QED BY <3>2, <3>3
  <2> QED BY <2>1, <2>2, <2>3, <2>4
<1>6. CASE Back
  <2>1. PICK w \in Written(disk, ed.rdb) : IF w.ok THEN Settles(ed, w.disk, TRUE) ELSE Fails(w)
    BY <1>6 DEF Back
  <2>2. CASE w.ok
    BY <1>4, <2>1, <2>2
  <2>3. CASE ~w.ok
    BY <1>2, <1>3, <2>1, <2>3, Silent DEF Fails
  <2> QED BY <2>2, <2>3
<1>7. CASE Close
  <2>1. PICK w \in Written(disk, ed.rdb) :
          IF w.ok THEN ghost' = [Ghost EXCEPT !.loose = Hidden(w.disk, ed.rdb)] ELSE Fails(w)
    BY <1>7 DEF Close
  <2>2. CASE w.ok
    BY <1>2, <1>3, <2>1, <2>2, Silent
  <2>3. CASE ~w.ok
    BY <1>2, <1>3, <2>1, <2>3, Silent DEF Fails
  <2> QED BY <2>2, <2>3
<1> QED BY <1>5, <1>6, <1>7

LEMMA NextFormats == ASSUME Inv, Next PROVE Formats
<1>1. ASSUME ghost'.formatted = {} PROVE Formats
  BY <1>1 DEF Formats
<1>2. ghost \in GhostType
  BY DEF Inv, Held
<1>3. CASE Start
  <2>1. ghost'.formatted = {}
    BY <1>2, <1>3 DEF Start, Inv, GhostType
  <2> QED BY <1>1, <2>1
<1>4. CASE \/ Idle /\ (PressEdge \/ PressBlock \/ PressGap)
           \/ MouseMove \/ NewSize \/ ReleaseEdge \/ ReleaseGap \/ ReleaseBlock
  BY <1>1, <1>2, <1>4, DragsSilent
<1>5. CASE \/ Idle /\ (MoveGadget \/ Edit \/ Add \/ Delete \/ Filesystems \/ Flags)
           \/ Idle /\ UpdateGeometry
           \/ \E withMbr \in BOOLEAN : Idle /\ InitRdb(withMbr)
  BY <1>1, <1>2, <1>5, EditsSilent
<1>6. CASE \/ Undo \/ Leave
           \/ Idle /\ (RestoreBlock \/ RestoreExtended \/ RestoreImage \/ ClearTable)
           \/ Idle /\ (RestorePartition \/ CopyPartition \/ AddSlot \/ EditSlot \/ DeleteSlot)
  BY <1>1, <1>2, <1>6, MenuSilent
<1>7. CASE Write \/ Back \/ Close
  BY <1>7, WritesFormat
<1> QED BY <1>3, <1>4, <1>5, <1>6, <1>7 DEF Next

(***************************************************************************)
(* No write formats a partition that was not asked for since its name was  *)
(* last formatted, deleted, edited or read again, and what it formats is   *)
(* on the disk at these cylinders: however writes fail, entries move or    *)
(* names are used again.                                                    *)
(***************************************************************************)
THEOREM FormatsWhatWasAsked == Spec => FormatsAsked
<1>1. Inv /\ [Next]_vars => [Formats]_vars
  BY NextFormats
<1> QED BY <1>1, InvSpec, PTL DEF Spec, FormatsAsked

---------------------------------------------------------------------------
(* The steps of the promise, told by the window's variables *)

\* The copy as the promise sees it: without the formats asked for, and with a drag
\* taken back.
CopyOf(e) == Plain(Restored(e.rdb, e.drag))

\* The copy is edited, and counts as edited.
Marked == ed'.dirty = TRUE /\ ghost'.loose = ghost.loose

\* The copy is what the disk holds.
Synced == /\ CopyOf(ed') = Read(disk')
          /\ ed'.dirty \in {FALSE, ed.dirty} /\ ghost'.loose \in {FALSE, ghost.loose}

\* The two go apart, and the ghost says so.
Slipped == ghost'.loose = TRUE /\ ed'.dirty \in {FALSE, ed.dirty}

\* Nothing the promise speaks of changes.
Unnoticed == /\ Read(disk') = Read(disk) /\ CopyOf(ed') = CopyOf(ed)
             /\ ed'.dirty = ed.dirty /\ ghost'.loose = ghost.loose

Over == phase' \in {"closed", "wrote", "reboot"}
Follows == Over \/ (phase' = "edit" /\ (Marked \/ Synced \/ Slipped \/ Unnoticed))

StoreTyped == /\ [d \in {"disk"} |-> Read(disk)] \in [{"disk"} -> Tables]
              /\ ed \in EdType /\ ghost \in GhostType /\ Plain(Read(disk)) = Read(disk)

LEMMA InvTyped == Inv => StoreTyped
<1> SUFFICES ASSUME Inv PROVE StoreTyped
  OBVIOUS
<1>1. \E S : DiskOK(disk, S)
  BY StartsOK DEF Inv, Held
<1>2. Read(disk) \in Tables /\ Plain(Read(disk)) = Read(disk)
  BY <1>1, ReadOK DEF Within
<1>3. ed \in EdType /\ ghost \in GhostType
  BY DEF Inv, Held
<1> QED BY <1>2, <1>3 DEF StoreTyped

LEMMA FollowsPromise ==
    ASSUME Inv, Inv', phase = "edit", Follows
    PROVE  [Store!Next]_(Store!vars)
<1>3. StoreTyped'
  BY InvTyped, PTL
<1>4. /\ [d \in {"disk"} |-> Read(disk')] \in [{"disk"} -> Tables]
      /\ ed'.dirty \in BOOLEAN /\ ghost'.loose \in BOOLEAN
  BY <1>3 DEF StoreTyped, EdType, GhostType
<1>5. [d \in {"disk"} |-> Read(disk)]["disk"] = Read(disk)
      /\ [d \in {"disk"} |-> Read(disk')]["disk"] = Read(disk')
  OBVIOUS
<1>6. CASE Over
  <2>1. Store!Stop
    BY <1>4, <1>6 DEF Store!Stop, Over
  <2> QED BY <2>1 DEF Store!Next
<1>7. CASE phase' = "edit" /\ Marked
  <2>1. Store!Edit
    BY <1>4, <1>7 DEF Store!Edit, Marked
  <2> QED BY <2>1 DEF Store!Next
<1>8. CASE phase' = "edit" /\ Synced
  <2>1. Store!Sync
    BY <1>4, <1>5, <1>8 DEF Store!Sync, Synced, CopyOf
  <2> QED BY <2>1 DEF Store!Next
<1>9. CASE phase' = "edit" /\ Slipped
  <2>1. Store!Slip
    BY <1>4, <1>9 DEF Store!Slip, Slipped
  <2> QED BY <2>1 DEF Store!Next
<1>10. CASE phase' = "edit" /\ Unnoticed
  <2>1. UNCHANGED Store!vars
    BY <1>10 DEF Store!vars, Unnoticed, CopyOf
  <2> QED BY <2>1
<1> QED BY <1>6, <1>7, <1>8, <1>9, <1>10 DEF Follows

\* The table is read when the window opens.
LEMMA StartFollows == ASSUME Inv, Inv', Start PROVE [Store!Next]_(Store!vars)
<1>1. /\ phase = "start" /\ disk \in Starts /\ ed \in EdType /\ ed.drag = NoDrag
      /\ disk' = disk /\ phase' = "edit" /\ ed' = Loaded(ed, disk) /\ ~ed.dirty
      /\ ghost' = [ghost EXCEPT !.accepted = AllExts(disk)] /\ ~ghost.loose
      /\ ghost \in GhostType
  BY DEF Inv, Start
<1>2. DiskOK(disk, Anything)
  BY <1>1, StartsOK
<1>3. ed'.rdb = Read(disk) /\ ed'.drag = NoDrag /\ ed'.dirty = FALSE
  BY <1>1, <1>2, LoadedOK DEF EdType
<1>4. ghost'.loose = FALSE
  BY <1>1 DEF GhostType
<1>5. Read(disk) \in Tables /\ Plain(Read(disk)) = Read(disk)
  BY <1>2, ReadOK DEF Within
<1>6. CopyOf(ed') = Read(disk)
  BY <1>3, <1>5, NotDragged, NoDragType DEF CopyOf
<1>7. Store!Load("disk")
  BY <1>1, <1>3, <1>4, <1>5, <1>6 DEF Store!Load, CopyOf
<1> QED BY <1>1, <1>7 DEF Store!Next

---------------------------------------------------------------------------
(* Drags *)

\* What the mouse does to the copy is no edit yet.
LEMMA DragFollows ==
    ASSUME phase' = "edit", UNCHANGED disk, ed'.dirty = ed.dirty, ghost' = Ghost,
           ghost \in GhostType, Restored(ed'.rdb, ed'.drag) = Restored(ed.rdb, ed.drag)
    PROVE  Follows
<1>1. ghost'.loose = ghost.loose
  BY GhostFields
<1> QED BY <1>1 DEF Follows, Unnoticed, CopyOf

LEMMA PressFollows == ASSUME Inv, Idle, PressEdge \/ PressBlock PROVE Follows
<1>1. \E i \in Indices : \E kind, min, max :
        LET p == ed.rdb.parts[i]
        IN  /\ ed' = [ed EXCEPT !.drag = Drag(kind, i, p.lo, p.hi, min, max)]
            /\ ghost' = Ghost /\ UNCHANGED disk
  BY DEF PressEdge, PressBlock
<1>2. PICK i \in Indices : \E kind, min, max :
        /\ ed' = [ed EXCEPT !.drag = Drag(kind, i, ed.rdb.parts[i].lo, ed.rdb.parts[i].hi, min, max)]
        /\ ghost' = Ghost /\ UNCHANGED disk
  BY <1>1
<1>3. PICK kind, min, max :
        /\ ed' = [ed EXCEPT !.drag = Drag(kind, i, ed.rdb.parts[i].lo, ed.rdb.parts[i].hi, min, max)]
        /\ ghost' = Ghost /\ UNCHANGED disk
  BY <1>2
<1> DEFINE p == ed.rdb.parts[i]
           d == Drag(kind, i, p.lo, p.hi, min, max)
<1>4. phase = "edit" /\ phase' = "edit" /\ ed \in EdType /\ ghost \in GhostType /\ ed.drag = NoDrag
  BY IdleFound, Found
<1>5. ed.rdb \in Records /\ i \in DOMAIN ed.rdb.parts /\ ed.rdb # NoTable
  BY <1>4, HasEntries, Entries
<1>6. d.i = i /\ d.lo = p.lo /\ d.hi = p.hi
  BY DEF Drag
<1>7. ed'.rdb = ed.rdb /\ ed'.drag = d /\ ed'.dirty = ed.dirty
  BY <1>3, <1>4 DEF EdType
<1> HIDE DEF d
<1>8. Restored(ed.rdb, d) = ed.rdb
  <2>1. Restored(ed.rdb, d) = At(ed.rdb, i, p.lo, p.hi)
    BY <1>5, <1>6 DEF Restored
  <2> QED BY <1>5, <2>1, AtSame
<1>9. Restored(ed.rdb, NoDrag) = ed.rdb
  BY <1>4, Found, NotDragged, NoDragType
<1> QED BY <1>3, <1>4, <1>7, <1>8, <1>9, DragFollows

LEMMA PressGapFollows == ASSUME Inv, Idle, PressGap PROVE Follows
<1>1. \E lo, hi, min, max : ed' = [ed EXCEPT !.drag = Drag("new", 0, lo, hi, min, max)]
  <2> DEFINE t == ed.rdb
             others == PartsOf(t) \cup (IF ed.mbr = NoMbr THEN {} ELSE ed.mbr)
             From(start) == Max({t.lo} \cup {q.hi + 1 : q \in {q \in others : q.hi < start}})
             To(start) == Min({t.hi} \cup {q.lo - 1 : q \in {q \in others : q.lo > start}})
             hi(start) == Max({From(start), Min({start, To(start)})})
  <2>1. \E start : ed' = [ed EXCEPT !.drag = Drag("new", 0, From(start), hi(start),
                                                  From(start), To(start))]
    BY DEF PressGap
  <2> HIDE DEF From, To, hi
  <2> QED BY <2>1
<1>2. PICK lo, hi, min, max : ed' = [ed EXCEPT !.drag = Drag("new", 0, lo, hi, min, max)]
  BY <1>1
<1>3. ghost' = Ghost /\ UNCHANGED disk
  BY DEF PressGap
<1>4. phase = "edit" /\ phase' = "edit" /\ ed \in EdType /\ ghost \in GhostType /\ ed.drag = NoDrag
  BY IdleFound, Found
<1>5. Drag("new", 0, lo, hi, min, max).i = 0
  BY DEF Drag
<1>6. ed'.rdb = ed.rdb /\ ed'.drag.i = 0 /\ ed'.dirty = ed.dirty
  BY <1>2, <1>4, <1>5 DEF EdType
<1>7. Restored(ed'.rdb, ed'.drag) = ed.rdb /\ Restored(ed.rdb, ed.drag) = ed.rdb
  BY <1>4, <1>6, Found, NotDragged, NoDragType
<1> QED BY <1>3, <1>4, <1>6, <1>7, DragFollows

\* A motion moves what the release would put back from.
LEMMA MouseMoveFollows == ASSUME Inv, MouseMove PROVE Follows
<1> DEFINE d == ed.drag
           seen == d.i \in Indices
<1>1. PICK at \in Cyls :
        LET c == Min({Max({at, d.min}), d.max})
        IN  CASE d.kind = "resize" /\ seen -> ed' = [ed EXCEPT !.rdb.parts[d.i].hi = c]
              [] d.kind = "move" /\ seen -> ed' = [ed EXCEPT !.rdb = At(@, d.i, c, c + d.hi - d.lo)]
              [] d.kind = "new" -> ed' = [ed EXCEPT !.drag.hi = c]
              [] OTHER -> ed' = ed
  BY DEF MouseMove
<1> DEFINE c == Min({Max({at, d.min}), d.max})
<1>2. phase = "edit" /\ phase' = "edit" /\ disk' = disk /\ ghost' = Ghost
  BY DEF MouseMove
<1>3. c \in Int /\ (d.max \in Nat => c \in Nat)
  BY <1>2, Found, Motion
<1> HIDE DEF c
<1>4. ed \in EdType /\ ghost \in GhostType /\ d \in DragType /\ ed.rdb \in Tables
  BY <1>2, Found
<1>5. SUFFICES ed'.dirty = ed.dirty /\ Restored(ed'.rdb, ed'.drag) = Restored(ed.rdb, ed.drag)
  BY <1>2, <1>4, DragFollows
<1>6. CASE d.kind = "resize" /\ seen
  <2>1. ed.rdb \in Records /\ d.i \in DOMAIN ed.rdb.parts
    BY <1>2, <1>6, HasEntries
  <2> DEFINE u == [ed.rdb EXCEPT !.parts[d.i].hi = c]
  <2>2. ed' = [ed EXCEPT !.rdb.parts[d.i].hi = c]
    BY <1>1, <1>6 DEF c
  <2>3. ed' = [ed EXCEPT !.rdb = u]
    BY <1>4, <2>1, <2>2 DEF EdType
  <2>4. Restored(u, d) = Restored(ed.rdb, d)
    <3>1. 0 \in Nat
      OBVIOUS
    <3> QED BY <1>3, <1>4, <2>1, <3>1, TakenBack
  <2> HIDE DEF u
  <2> QED BY <1>4, <2>3, <2>4 DEF EdType
<1>7. CASE d.kind = "move" /\ seen
  <2>1. ed.rdb \in Records /\ d.i \in DOMAIN ed.rdb.parts
        /\ d.lo \in Int /\ d.hi \in Int /\ d.max \in Nat
    BY <1>2, <1>7, HasEntries, Found DEF DragOK, DragType
  <2> DEFINE b == c + d.hi - d.lo
             u == At(ed.rdb, d.i, c, b)
  <2>2. b \in Int /\ c \in Nat
    BY <1>3, <2>1
  <2>3. ed' = [ed EXCEPT !.rdb = u]
    BY <1>1, <1>7 DEF c
  <2> HIDE DEF b
  <2>4. Restored(u, d) = Restored(ed.rdb, d)
    BY <1>4, <2>1, <2>2, TakenBack
  <2> HIDE DEF u
  <2> QED BY <1>4, <2>3, <2>4 DEF EdType
<1>8. CASE d.kind = "new"
  <2>1. ed' = [ed EXCEPT !.drag.hi = c]
    BY <1>1, <1>8 DEF c
  <2>2. d.i = 0
    BY <1>2, <1>8, Found DEF DragOK
  <2>3. ed'.rdb = ed.rdb /\ ed'.drag.i = 0 /\ ed'.dirty = ed.dirty
    BY <1>4, <2>1, <2>2 DEF EdType, DragType
  <2> QED BY <1>4, <2>2, <2>3, NotDragged
<1>9. CASE ~(d.kind = "resize" /\ seen) /\ ~(d.kind = "move" /\ seen) /\ d.kind # "new"
  <2>1. ed' = ed
    BY <1>1, <1>9
  <2> QED BY <2>1
<1> QED BY <1>6, <1>7, <1>8, <1>9

\* A cancelled drag is taken back.
LEMMA CancelFollows ==
    ASSUME Inv, phase = "edit", phase' = "edit", Cancelled \/ NewSize PROVE Follows
<1>1. ghost' = Ghost /\ disk' = disk
      /\ ed' = [ed EXCEPT !.rdb = Restored(@, ed.drag), !.drag = NoDrag]
  BY Found DEF Cancelled, NewSize, Released, EdType
<1>2. ed \in EdType /\ ghost \in GhostType /\ Restored(ed.rdb, ed.drag) \in Tables
  BY Found DEF Within
<1>3. ed'.rdb = Restored(ed.rdb, ed.drag) /\ ed'.drag = NoDrag /\ ed'.dirty = ed.dirty
  BY <1>1, <1>2 DEF EdType
<1>4. Restored(ed'.rdb, ed'.drag) = Restored(ed.rdb, ed.drag)
  BY <1>2, <1>3, NotDragged, NoDragType
<1> QED BY <1>1, <1>2, <1>3, <1>4, DragFollows

---------------------------------------------------------------------------
(* What an event leaves *)

\* After the event the types are still right.
LEMMA Left ==
    ASSUME Inv'
    PROVE  ed' \in EdType /\ ghost' \in GhostType /\ Plain(Read(disk')) = Read(disk')
<1>1. StoreTyped'
  BY InvTyped, PTL
<1> QED BY <1>1 DEF StoreTyped

LEMMA Undisturbed == ASSUME NEW e \in EdType, e.drag = NoDrag PROVE CopyOf(e) = Plain(e.rdb)
<1>1. e.rdb \in Tables
  BY DEF EdType
<1> QED BY <1>1, NotDragged, NoDragType DEF CopyOf

LEMMA Loose ==
    ASSUME ghost \in GhostType
    PROVE  /\ Ghost.loose = ghost.loose
           /\ \A X : Agreed(X).loose = ghost.loose
           /\ \A X, Y : [Agreed(X) EXCEPT !.owed = Y].loose = ghost.loose
           /\ \A Y : [Ghost EXCEPT !.owed = Y].loose = ghost.loose
           /\ \A gone : Astray(Ghost, gone).loose = (ghost.loose \/ (gone /\ ~ed.dirty))
           /\ \A X, gone : Astray(Agreed(X), gone).loose = (ghost.loose \/ (gone /\ ~ed.dirty))
           /\ \A dk : Reread(dk).loose = FALSE
BY DEF GhostType, Ghost, Agreed, Astray, Reread

\* An edit that counts.
LEMMA MarkFollows ==
    ASSUME phase' = "edit", ed'.dirty = TRUE, ghost'.loose = ghost.loose PROVE Follows
BY DEF Follows, Marked

\* Without a mark the two agree, or nothing happens, or the ghost knows.
LEMMA GoneFollows ==
    ASSUME phase' = "edit", ed \in EdType, ghost \in GhostType, NEW gone \in BOOLEAN,
           ghost'.loose = (ghost.loose \/ (gone /\ ~ed.dirty)), ed'.dirty = ed.dirty,
           \/ gone
           \/ CopyOf(ed') = Read(disk')
           \/ Read(disk') = Read(disk) /\ CopyOf(ed') = CopyOf(ed)
    PROVE  Follows
<1>1. ed.dirty \in BOOLEAN /\ ghost.loose \in BOOLEAN
  BY DEF EdType, GhostType
<1>2. CASE ed.dirty
  BY <1>1, <1>2 DEF Follows, Marked
<1>3. CASE ~ed.dirty /\ gone
  BY <1>1, <1>3 DEF Follows, Slipped
<1>4. CASE ~ed.dirty /\ ~gone
  BY <1>1, <1>4 DEF Follows, Synced, Unnoticed
<1> QED BY <1>2, <1>3, <1>4

\* The table is written and found again, or hidden by another.
LEMMA WroteFollows ==
    ASSUME Inv, Inv', phase = "edit", phase' = "edit", NEW X,
           ed'.drag = NoDrag, ed'.dirty = ed.dirty,
           ghost' = Astray(Agreed(X), Hidden(disk', ed'.rdb))
    PROVE  Follows
<1>1. ed \in EdType /\ ghost \in GhostType /\ ed' \in EdType
  BY Found, Left
<1>2. CopyOf(ed') = Plain(ed'.rdb)
  <2>1. ASSUME NEW e \in EdType, e.drag = NoDrag PROVE CopyOf(e) = Plain(e.rdb)
    BY <2>1, Undisturbed
  <2> QED BY <1>1, <2>1
<1> DEFINE gone == Hidden(disk', ed'.rdb)
<1>3. gone \in BOOLEAN /\ (gone \/ CopyOf(ed') = Read(disk'))
  BY <1>2 DEF Hidden
<1> HIDE DEF gone
<1>4. ghost'.loose = (ghost.loose \/ (gone /\ ~ed.dirty))
  BY <1>1, Loose DEF gone
<1> QED BY <1>1, <1>3, <1>4, GoneFollows

LEMMA MovedFollows ==
    ASSUME Inv, Inv', phase = "edit", phase' = "edit", NEW e \in EdType, e.drag = NoDrag,
           e.rdb = Restored(ed.rdb, ed.drag), e.dirty = ed.dirty, NEW i, Moved(e, i)
    PROVE  Follows
<1>1. ed \in EdType /\ ghost \in GhostType
  BY Found
<1>2. CASE ed' = e /\ ghost' = Ghost /\ UNCHANGED disk
  <2>1. Restored(ed'.rdb, ed'.drag) = Restored(ed.rdb, ed.drag)
    <3>1. e.rdb \in Tables
      BY DEF EdType
    <3> QED BY <1>2, <3>1, NotDragged, NoDragType
  <2> QED BY <1>1, <1>2, <2>1, DragFollows
<1>3. CASE ~(ed' = e /\ ghost' = Ghost /\ UNCHANGED disk)
  <2>1. \E new, X : /\ ed' = [e EXCEPT !.rdb = new, !.reboot = TRUE]
                    /\ ghost' = Astray(Agreed(X), Hidden(disk', new))
    BY <1>3 DEF Moved
  <2>2. PICK new, X : /\ ed' = [e EXCEPT !.rdb = new, !.reboot = TRUE]
                      /\ ghost' = Astray(Agreed(X), Hidden(disk', new))
    BY <2>1
  <2>3. ed'.rdb = new /\ ed'.drag = NoDrag /\ ed'.dirty = ed.dirty
    BY <2>2 DEF EdType
  <2> QED BY <2>2, <2>3, WroteFollows
<1> QED BY <1>2, <1>3

LEMMA MoveGadgetFollows == ASSUME Inv, Inv', Idle, MoveGadget PROVE Follows
<1>1. phase = "edit" /\ phase' = "edit" /\ ed.drag = NoDrag /\ ed \in EdType /\ ed.rdb \in Tables
  BY IdleFound, Found
<1>2. PICK i \in Indices : Moved(ed, i)
  BY DEF MoveGadget
<1>3. Restored(ed.rdb, ed.drag) = ed.rdb
  BY <1>1, NotDragged, NoDragType
<1> QED BY <1>1, <1>2, <1>3, MovedFollows

LEMMA ReleaseBlockFollows == ASSUME Inv, Inv', ReleaseBlock PROVE Follows
<1> DEFINE e == [Released EXCEPT !.rdb = Restored(@, ed.drag)]
<1>1. phase = "edit" /\ phase' = "edit"
  BY DEF ReleaseBlock
<1>2. e \in EdType /\ e.drag = NoDrag /\ e.rdb = Restored(ed.rdb, ed.drag) /\ e.dirty = ed.dirty
  BY <1>1, Undragged
<1>3. CASE ed.drag.i \in Indices
  <2>1. Moved(e, ed.drag.i)
    BY <1>3 DEF ReleaseBlock
  <2> HIDE DEF e
  <2> QED BY <1>1, <1>2, <2>1, MovedFollows
<1>4. CASE ed.drag.i \notin Indices
  <2>1. Cancelled
    BY <1>4 DEF ReleaseBlock, Cancelled
  <2> QED BY <1>1, <2>1, CancelFollows
<1> QED BY <1>3, <1>4

---------------------------------------------------------------------------
(* The button goes up, and the gadgets *)

LEMMA KeptFollows ==
    ASSUME Inv, phase = "edit", phase' = "edit", Kept PROVE Follows
<1>1. ed \in EdType /\ ghost \in GhostType
  BY Found
<1>2. ed' = [Unsaved(Released) EXCEPT !.reboot = TRUE]
      /\ \E X : ghost' = Ghost \/ ghost' = Agreed(X)
  BY DEF Kept
<1>3. ed'.dirty = TRUE
  BY <1>1, <1>2 DEF Unsaved, Released, EdType
<1>4. ghost'.loose = ghost.loose
  BY <1>1, <1>2, Loose
<1> QED BY <1>3, <1>4, MarkFollows

\* Only a shrink that is aborted leaves no mark: the entry has its old end again.
LEMMA ResizedFollows ==
    ASSUME Inv, phase = "edit", phase' = "edit", Resized PROVE Follows
<1> DEFINE d == ed.drag
           p == ed.rdb.parts[d.i]
<1>1. PICK o \in Offers(ed.rdb, d.i, d.hi) :
        /\ disk' = o.disk
        /\ ed' = [Released EXCEPT !.rdb = o.t, !.dirty = @ \/ p.hi > d.hi \/ o.g # "aborted",
                                  !.reboot = @ \/ o.g = "reboot"]
        /\ ghost' = Agreed({Ext(o.t.parts[d.i])})
  BY DEF Resized
<1>2. /\ ed.rdb \in Records /\ d.i \in DOMAIN ed.rdb.parts /\ ed.rdb # NoTable
      /\ d \in DragType /\ d.lo \in Nat /\ d.hi \in Int
      /\ ed \in EdType /\ ghost \in GhostType /\ p.lo = d.lo /\ p \in Parts
  BY Found, HasEntries, Entries DEF Resized, DragType
<1>3. ghost'.loose = ghost.loose
  BY <1>1, <1>2, Loose
<1>4. /\ ed'.rdb = o.t /\ ed'.drag = NoDrag
      /\ ed'.dirty = (ed.dirty \/ p.hi > d.hi \/ o.g # "aborted")
  BY <1>1, <1>2 DEF Released, EdType
<1>5. CASE ed.dirty \/ p.hi > d.hi \/ o.g # "aborted"
  <2>1. ed'.dirty = TRUE
    BY <1>4, <1>5
  <2> QED BY <1>3, <2>1, MarkFollows
<1>6. CASE ~(ed.dirty \/ p.hi > d.hi \/ o.g # "aborted")
  <2>1. o.t = Longer(ed.rdb, d.i, d.hi) /\ o.disk = disk
    <3>1. o.g = "aborted"
      BY <1>6
    <3> HIDE DEF d
    <3> QED BY <1>2, <3>1, OfferForm
  <2>2. Longer(ed.rdb, d.i, d.hi) = Restored(ed.rdb, d)
    <3>1. Longer(ed.rdb, d.i, d.hi) = Put(ed.rdb, d.i, Ending(p, d.hi))
      BY <1>2, NewEnd DEF Longer
    <3>2. At(ed.rdb, d.i, d.lo, d.hi) = Put(ed.rdb, d.i, Placing(p, d.lo, d.hi))
      BY <1>2, NewPlace
    <3>3. Ending(p, d.hi) = Placing(p, d.lo, d.hi)
      <4>1. ASSUME NEW q \in Parts, NEW hi \in Int PROVE Ending(q, hi) = Placing(q, q.lo, hi)
        BY DEF Ending, Placing, Parts
      <4> QED BY <1>2, <4>1
    <3> QED BY <1>2, <3>1, <3>2, <3>3 DEF Restored
  <2>3. Restored(ed.rdb, d) \in Tables
    BY Found DEF Within
  <2>4. Restored(ed'.rdb, ed'.drag) = Restored(ed.rdb, d)
    <3>1. ed'.rdb = Restored(ed.rdb, d)
      BY <1>4, <2>1, <2>2
    <3> HIDE DEF d
    <3> QED BY <1>4, <2>3, <3>1, NotDragged, NoDragType
  <2>5. ed.dirty \in BOOLEAN /\ ed'.dirty = ed.dirty
    BY <1>2, <1>4, <1>6 DEF EdType
  <2>6. Follows
    BY <1>1, <1>3, <2>1, <2>4, <2>5 DEF Follows, Unnoticed, CopyOf
  <2> QED BY <2>6
<1> QED BY <1>5, <1>6

LEMMA ReleaseEdgeFollows == ASSUME Inv, ReleaseEdge PROVE Follows
<1>1. phase = "edit" /\ phase' = "edit"
  BY DEF ReleaseEdge
<1> QED BY <1>1, CancelFollows, KeptFollows, ResizedFollows DEF ReleaseEdge

LEMMA AppendedFollows ==
    ASSUME Inv, phase = "edit", phase' = "edit", NEW t, NEW lo, NEW hi, Appended(t, lo, hi)
    PROVE  Follows
<1>1. ed \in EdType /\ ghost \in GhostType
  BY Found
<1>2. /\ \E u, x : ed' = [Unsaved(Released) EXCEPT !.rdb = u, !.reboot = x]
      /\ \E X, Y : ghost' = [Agreed(X) EXCEPT !.owed = Y]
  <2>1. PICK name, end, want :
          LET p == NewPart(name, lo, end, want)
          IN  /\ ed' = [Unsaved(Released) EXCEPT !.rdb = [t EXCEPT !.parts = Append(@, p)],
                                                 !.reboot = @ \/ ~want]
              /\ ghost' = [Agreed({Ext(p)}) EXCEPT !.owed = IF want THEN @ \cup {name}
                                                            ELSE @ \ {name}]
    BY DEF Appended
  <2> DEFINE p == NewPart(name, lo, end, want)
             u == [t EXCEPT !.parts = Append(@, p)]
             x == Unsaved(Released).reboot \/ ~want
             X == {Ext(p)}
             Y == IF want THEN Agreed(X).owed \cup {name} ELSE Agreed(X).owed \ {name}
  <2>2. ed' = [Unsaved(Released) EXCEPT !.rdb = u, !.reboot = x]
    BY <2>1
  <2>3. ghost' = [Agreed(X) EXCEPT !.owed = Y]
    BY <2>1
  <2> HIDE DEF p, u, x, X, Y
  <2> QED BY <2>2, <2>3
<1>3. ed'.dirty = TRUE
  BY <1>1, <1>2 DEF Unsaved, Released, EdType
<1>4. ghost'.loose = ghost.loose
  BY <1>1, <1>2, Loose
<1> QED BY <1>3, <1>4, MarkFollows

LEMMA ReleaseGapFollows == ASSUME Inv, ReleaseGap PROVE Follows
<1>1. phase = "edit" /\ phase' = "edit"
  BY DEF ReleaseGap
<1> QED BY <1>1, CancelFollows, AppendedFollows DEF ReleaseGap

\* On a disk without a table Add leaves one in memory, mark or no mark.
LEMMA AddFollows == ASSUME Inv, Idle, Add PROVE Follows
<1>1. phase = "edit" /\ phase' = "edit" /\ ed \in EdType /\ ghost \in GhostType
  BY IdleFound, Found
<1>2. CASE \E t, lo, hi : Appended(t, lo, hi)
  BY <1>1, <1>2, AppendedFollows
<1>3. CASE ~ \E t, lo, hi : Appended(t, lo, hi)
  <2>1. (\E t : ed' = [ed EXCEPT !.rdb = t]) /\ ghost' = Astray(Ghost, TRUE)
    BY <1>3 DEF Add
  <2>2. ed'.dirty = ed.dirty /\ ghost'.loose = (ghost.loose \/ (TRUE /\ ~ed.dirty))
    BY <1>1, <2>1, Loose DEF EdType
  <2> QED BY <1>1, <2>2, GoneFollows
<1> QED BY <1>2, <1>3

\* A cancelled dialog can change the advanced settings without a mark.
LEMMA EditFollows == ASSUME Inv, Idle, Edit PROVE Follows
<1>1. /\ phase = "edit" /\ phase' = "edit" /\ ed \in EdType /\ ghost \in GhostType
  BY IdleFound, Found
<1>2. PICK i \in Indices : \E set \in Advanced(ed.rdb.parts[i]) :
        LET p == ed.rdb.parts[i]
        IN  \/ /\ ed' = [ed EXCEPT !.rdb.parts[i] = set]
               /\ ghost' = Astray(Ghost, set # p)
               /\ UNCHANGED disk
            \/ \E name \in Unused(ed.rdb, i), hi \in DialogEnds(ed.rdb, i, p.lo, p.hi) :
                 LET t == [ed.rdb EXCEPT !.parts[i] = [set EXCEPT !.name = name, !.hi = hi,
                                                                  !.want = FALSE]]
                 IN  \E o \in Offers(t, i, p.hi) :
                       /\ disk' = o.disk
                       /\ ed' = [Unsaved(ed) EXCEPT !.rdb = o.t,
                                                    !.reboot = @ \/ o.g \in {"none", "reboot"}]
                       /\ ghost' = [Agreed({Ext(o.t.parts[i])}) EXCEPT !.owed = @ \ {p.name}]
  BY DEF Edit
<1> DEFINE p == ed.rdb.parts[i]
           Set(set) == /\ ed' = [ed EXCEPT !.rdb.parts[i] = set]
                       /\ ghost' = Astray(Ghost, set # p)
                       /\ UNCHANGED disk
<1>3. PICK set \in Advanced(p) :
        \/ Set(set)
        \/ \E name \in Unused(ed.rdb, i), hi \in DialogEnds(ed.rdb, i, p.lo, p.hi) :
             LET t == [ed.rdb EXCEPT !.parts[i] = [set EXCEPT !.name = name, !.hi = hi,
                                                              !.want = FALSE]]
             IN  \E o \in Offers(t, i, p.hi) :
                   /\ disk' = o.disk
                   /\ ed' = [Unsaved(ed) EXCEPT !.rdb = o.t,
                                                !.reboot = @ \/ o.g \in {"none", "reboot"}]
                   /\ ghost' = [Agreed({Ext(o.t.parts[i])}) EXCEPT !.owed = @ \ {p.name}]
  BY <1>2
<1>4. CASE Set(set)
  <2>1. ed' = [ed EXCEPT !.rdb.parts[i] = set] /\ ghost' = Astray(Ghost, set # p) /\ disk' = disk
    BY <1>4
  <2>2. ed.rdb \in Records /\ i \in DOMAIN ed.rdb.parts
    BY <1>1, HasEntries
  <2>3. ed' = [ed EXCEPT !.rdb = Put(ed.rdb, i, set)]
    BY <1>1, <2>1, <2>2 DEF EdType, Put
  <2>4. ed'.dirty = ed.dirty /\ ed'.drag = ed.drag /\ ed'.rdb = Put(ed.rdb, i, set)
    BY <1>1, <2>3 DEF EdType
  <2> DEFINE gone == set # p
  <2>5. gone \in BOOLEAN /\ ghost'.loose = (ghost.loose \/ (gone /\ ~ed.dirty))
    BY <1>1, <2>1, Loose
  <2>6. gone \/ ed'.rdb = ed.rdb
    BY <2>2, <2>4, PutSame
  <2> HIDE DEF gone
  <2>7. gone \/ (Read(disk') = Read(disk) /\ CopyOf(ed') = CopyOf(ed))
    BY <2>1, <2>4, <2>6 DEF CopyOf
  <2> QED BY <1>1, <2>4, <2>5, <2>7, GoneFollows
<1>5. CASE ~Set(set)
  <2>1. PICK name \in Unused(ed.rdb, i), hi \in DialogEnds(ed.rdb, i, p.lo, p.hi) :
          LET t == [ed.rdb EXCEPT !.parts[i] = [set EXCEPT !.name = name, !.hi = hi,
                                                           !.want = FALSE]]
          IN  \E o \in Offers(t, i, p.hi) :
                /\ ed' = [Unsaved(ed) EXCEPT !.rdb = o.t,
                                             !.reboot = @ \/ o.g \in {"none", "reboot"}]
                /\ ghost' = [Agreed({Ext(o.t.parts[i])}) EXCEPT !.owed = @ \ {p.name}]
    BY <1>3, <1>5
  <2>2. PICK o : /\ ed' = [Unsaved(ed) EXCEPT !.rdb = o.t,
                                              !.reboot = @ \/ o.g \in {"none", "reboot"}]
                 /\ ghost' = [Agreed({Ext(o.t.parts[i])}) EXCEPT !.owed = @ \ {p.name}]
    BY <2>1
  <2>3. ed'.dirty = TRUE /\ ghost'.loose = ghost.loose
    BY <1>1, <2>2, Loose DEF Unsaved, EdType
  <2> QED BY <1>1, <2>3, MarkFollows
<1> QED BY <1>4, <1>5

\* The other gadgets mark what they do.
LEMMA GadgetsFollow ==
    ASSUME Inv, Idle, NEW withMbr \in BOOLEAN,
           Delete \/ Filesystems \/ Flags \/ UpdateGeometry \/ InitRdb(withMbr)
    PROVE  Follows
<1>1. /\ phase = "edit" /\ phase' = "edit" /\ ed \in EdType /\ ghost \in GhostType
      /\ ed.rdb \in Tables
  BY IdleFound, Found
<1>2. CASE Delete
  <2>1. PICK i \in Indices : /\ ed' = Deleted(ed, i)
                             /\ ghost' = [Ghost EXCEPT !.owed = @ \ {ed.rdb.parts[i].name}]
    BY <1>2 DEF Delete
  <2>2. ed'.dirty = TRUE
    BY <1>1, <2>1 DEF Deleted, Unsaved, EdType
  <2>3. ghost'.loose = ghost.loose
    BY <1>1, <2>1, Loose
  <2> QED BY <1>1, <2>2, <2>3, MarkFollows
<1>3. CASE Filesystems
  <2>1. ghost' = Ghost /\ \E k : ed' = [Unsaved(ed) EXCEPT !.rdb.drivers = k]
    BY <1>3 DEF Filesystems
  <2>2. ed'.dirty = TRUE
    BY <1>1, <2>1 DEF Unsaved, EdType
  <2> QED BY <1>1, <2>1, <2>2, Loose, MarkFollows
<1>4. CASE Flags
  <2>1. ed'.dirty = TRUE /\ ghost' = Ghost
    BY <1>1, <1>4 DEF Flags, Unsaved, EdType
  <2> QED BY <1>1, <2>1, Loose, MarkFollows
<1>5. CASE UpdateGeometry
  <2>1. ed'.dirty = TRUE /\ ghost' = Ghost
    BY <1>1, <1>5 DEF UpdateGeometry, Unsaved, EdType
  <2> QED BY <1>1, <2>1, Loose, MarkFollows
<1>6. CASE InitRdb(withMbr)
  <2>1. \E t, m : ed' = [Unsaved(ed) EXCEPT !.rdb = t, !.mbr = m]
    BY <1>6 DEF InitRdb
  <2>2. ed'.dirty = TRUE
    BY <1>1, <2>1 DEF Unsaved, EdType
  <2>3. ghost'.loose = ghost.loose
    BY <1>1, <1>6, Loose DEF InitRdb
  <2> QED BY <1>1, <2>2, <2>3, MarkFollows
<1> QED BY <1>2, <1>3, <1>4, <1>5, <1>6

---------------------------------------------------------------------------
(* Menu items *)

\* The table is read again.
LEMMA RereadFollows ==
    ASSUME Inv', phase' = "edit", ed'.drag = NoDrag, ed'.rdb = Read(disk'),
           ed'.dirty \in {FALSE, ed.dirty}, ghost'.loose = FALSE
    PROVE  Follows
<1>1. ed' \in EdType /\ Plain(Read(disk')) = Read(disk')
  BY Left
<1>2. ASSUME NEW e \in EdType, e.drag = NoDrag PROVE CopyOf(e) = Plain(e.rdb)
  BY <1>2, Undisturbed
<1>3. CopyOf(ed') = Read(disk')
  BY <1>1, <1>2
<1> QED BY <1>3 DEF Follows, Synced

\* With the button held, the drag goes on in the table that was read.
LEMMA UndoFollows == ASSUME Inv, Inv', Undo PROVE Follows
<1>1. /\ phase = "edit" /\ phase' = "edit" /\ disk' = disk
      /\ ed' = [Loaded(ed, disk) EXCEPT !.dirty = FALSE, !.unmount = {}]
      /\ ghost' = [Reread(disk) EXCEPT !.loose = ed.drag # NoDrag,
                                       !.split = @ \/ ed.drag # NoDrag]
  BY DEF Undo, Event
<1>2. ed \in EdType /\ ghost \in GhostType
  BY <1>1, Found
<1>3. ed'.rdb = Read(disk) /\ ed'.drag = ed.drag /\ ed'.dirty = FALSE
  BY <1>1, <1>2 DEF Loaded, EdType
<1>4. ghost'.loose = (ed.drag # NoDrag)
  BY <1>1, <1>2 DEF Reread, Ghost, GhostType
<1>5. CASE ed.drag = NoDrag
  BY <1>1, <1>3, <1>4, <1>5, RereadFollows
<1>6. CASE ed.drag # NoDrag
  BY <1>1, <1>3, <1>4, <1>6 DEF Follows, Slipped
<1> QED BY <1>5, <1>6

LEMMA PutBackFollows == ASSUME Inv, Inv', Idle, NEW dk, PutBack(dk) PROVE Follows
<1>1. phase = "edit" /\ phase' = "edit" /\ ed.drag = NoDrag /\ ed \in EdType /\ ghost \in GhostType
  BY IdleFound, Found
<1>2. disk' = dk /\ ed' = [Loaded(ed, dk) EXCEPT !.reboot = TRUE] /\ ghost' = Reread(dk)
  BY DEF PutBack
<1>3. ed'.rdb = Read(dk) /\ ed'.drag = NoDrag /\ ed'.dirty = ed.dirty
  BY <1>1, <1>2 DEF Loaded, EdType
<1> QED BY <1>1, <1>2, <1>3, Loose, RereadFollows

\* The disk is written and the copy stays.
LEMMA BehindFollows ==
    ASSUME Inv, Idle, ed'.dirty = ed.dirty, NEW X,
           ghost' = Astray(Agreed(X), TRUE) \/ ghost' = Astray(Ghost, TRUE)
    PROVE  Follows
<1>1. phase' = "edit" /\ ed \in EdType /\ ghost \in GhostType
  BY IdleFound, Found
<1>2. ghost'.loose = (ghost.loose \/ (TRUE /\ ~ed.dirty))
  <2>1. CASE ghost' = Astray(Agreed(X), TRUE)
    BY <1>1, <2>1, Loose
  <2>2. CASE ghost' = Astray(Ghost, TRUE)
    BY <1>1, <2>2, Loose
  <2> QED BY <2>1, <2>2
<1> QED BY <1>1, <1>2, GoneFollows

LEMMA RestoresFollow ==
    ASSUME Inv, Inv', Idle, RestoreBlock \/ RestoreExtended \/ RestoreImage \/ ClearTable
    PROVE  Follows
<1>1. phase = "edit" /\ phase' = "edit" /\ ed.drag = NoDrag /\ ed \in EdType /\ ghost \in GhostType
  BY IdleFound, Found
<1>2. CASE \E dk : PutBack(dk)
  BY <1>2, PutBackFollows
<1>3. CASE ed' = ed /\ \E X : ghost' = Astray(Agreed(X), TRUE) \/ ghost' = Astray(Ghost, TRUE)
  BY <1>3, BehindFollows
<1>4. CASE /\ disk' = Blank /\ ed' = [Loaded(ed, Blank) EXCEPT !.dirty = FALSE, !.reboot = TRUE]
           /\ ghost' = Reread(Blank)
  <2>1. ed'.rdb = Read(disk') /\ ed'.drag = NoDrag /\ ed'.dirty = FALSE
    BY <1>1, <1>4 DEF Loaded, EdType
  <2> QED BY <1>1, <1>4, <2>1, Loose, RereadFollows
<1>5. CASE RestoreBlock
  BY <1>2, <1>5 DEF RestoreBlock
<1>6. CASE RestoreExtended
  BY <1>2, <1>3, <1>6 DEF RestoreExtended
<1>7. CASE RestoreImage
  BY <1>3, <1>7 DEF RestoreImage
<1>8. CASE ClearTable
  BY <1>3, <1>4, <1>8 DEF ClearTable
<1> QED BY <1>5, <1>6, <1>7, <1>8

\* A restored partition is written with the whole copy.
LEMMA RestorePartitionFollows == ASSUME Inv, Inv', Idle, RestorePartition PROVE Follows
<1>1. phase = "edit" /\ phase' = "edit" /\ ed.drag = NoDrag /\ ed \in EdType
  BY IdleFound, Found
<1>2. \E t, x, X : /\ ed' = [ed EXCEPT !.rdb = t, !.reboot = x]
                   /\ ghost' = Astray(Agreed(X), Hidden(disk', t))
  BY DEF RestorePartition
<1>3. PICK t, x, X : /\ ed' = [ed EXCEPT !.rdb = t, !.reboot = x]
                     /\ ghost' = Astray(Agreed(X), Hidden(disk', t))
  BY <1>2
<1>4. ed'.rdb = t /\ ed'.drag = NoDrag /\ ed'.dirty = ed.dirty
  BY <1>1, <1>3 DEF EdType
<1> QED BY <1>1, <1>3, <1>4, WroteFollows

LEMMA CopyPartitionFollows == ASSUME Inv, Idle, CopyPartition PROVE Follows
<1>1. \E w : /\ ed' = [ed EXCEPT !.reboot = @ \/ w.ok]
             /\ ghost' = Astray(Agreed(AllExts(w.disk)), TRUE)
  BY DEF CopyPartition
<1>2. ed \in EdType
  BY IdleFound, Found
<1>3. ed'.dirty = ed.dirty /\ \E X : ghost' = Astray(Agreed(X), TRUE)
  BY <1>1, <1>2 DEF EdType
<1> QED BY <1>3, BehindFollows

\* The MBR is no part of the promise.
LEMMA SlotsFollow == ASSUME Inv, Idle, AddSlot \/ EditSlot \/ DeleteSlot PROVE Follows
<1>1. PICK m : WriteMbr(m)
  BY DEF AddSlot, EditSlot, DeleteSlot
<1>2. /\ phase = "edit" /\ phase' = "edit" /\ ed \in EdType /\ ghost \in GhostType
      /\ DiskOK(disk, Allowed(ghost))
  BY IdleFound, Found
<1>3. disk' = [disk EXCEPT !.mbr = m] /\ ed' = [ed EXCEPT !.mbr = m] /\ ghost' = Ghost
  BY <1>1 DEF WriteMbr
<1>4. Read(disk') = Read(disk)
  BY <1>2, <1>3 DEF DiskOK, Disks, Read
<1>5. CopyOf(ed') = CopyOf(ed) /\ ed'.dirty = ed.dirty
  BY <1>2, <1>3 DEF EdType, CopyOf
<1> QED BY <1>2, <1>3, <1>4, <1>5, Loose DEF Follows, Unnoticed

---------------------------------------------------------------------------
(* Writing, and leaving *)

LEMMA SettlesFollows ==
    ASSUME Inv, Inv', phase = "edit", NEW e \in EdType, e.drag = NoDrag, e.rdb \in Records,
           Within(e.rdb, Allowed(ghost)), NEW dk, DiskOK(dk, Allowed(ghost)),
           NEW leave \in BOOLEAN, Settles(e, dk, leave)
    PROVE  Follows
<1>1. ghost \in GhostType /\ phase \in Phases
  BY Found DEF Phases
<1>2. /\ disk'.t = dk.t /\ ed' \in EdType /\ ed'.rdb = Plain(e.rdb) /\ ed'.drag = NoDrag
      /\ ~ed'.dirty /\ ghost'.loose = Hidden(dk, e.rdb)
      /\ leave => phase' \in {"reboot", "wrote"}
      /\ ~leave => phase' = phase
  BY <1>1, SettlesFields
<1>3. CASE leave
  <2>1. phase' \in {"reboot", "wrote"}
    BY <1>2, <1>3
  <2>2. Over
    BY <2>1 DEF Over
  <2> QED BY <2>2 DEF Follows
<1>4. CASE ~leave
  <2>1. Read(disk') = Read(dk)
    BY <1>2 DEF Read
  <2>2. ed'.dirty = FALSE
    BY <1>2 DEF EdType
  <2>3. CASE Hidden(dk, e.rdb)
    BY <1>2, <1>4, <2>2, <2>3 DEF Follows, Slipped
  <2>4. CASE ~Hidden(dk, e.rdb)
    <3>1. ed'.rdb = Read(disk')
      BY <1>2, <2>1, <2>4 DEF Hidden
    <3>2. ghost'.loose = FALSE
      BY <1>2, <2>4 DEF Hidden
    <3> QED BY <1>2, <1>4, <2>2, <3>1, <3>2, RereadFollows
  <2> QED BY <2>3, <2>4
<1> QED BY <1>3, <1>4

LEMMA FailsFollows ==
    ASSUME Inv, phase = "edit", NEW w, Fails(w) PROVE Follows
<1>1. ed \in EdType /\ ghost \in GhostType /\ phase' = "edit" /\ ed' = ed /\ disk' = w.disk
      /\ ghost' = Astray(Ghost, w.disk # disk)
  BY Found DEF Fails
<1> DEFINE gone == w.disk # disk
<1>2. gone \in BOOLEAN /\ ghost'.loose = (ghost.loose \/ (gone /\ ~ed.dirty))
      /\ (gone \/ disk' = disk)
  BY <1>1, Loose
<1> HIDE DEF gone
<1>3. gone \/ (Read(disk') = Read(disk) /\ CopyOf(ed') = CopyOf(ed))
  BY <1>1, <1>2
<1> QED BY <1>1, <1>2, <1>3, GoneFollows

LEMMA WriteFollows == ASSUME Inv, Inv', Write PROVE Follows
<1>1. phase = "edit" /\ ed.drag = NoDrag
  BY DEF Write, Event
<1>2. /\ Within(ed.rdb, Allowed(ghost)) /\ ed \in EdType
      /\ DiskOK(disk, Allowed(ghost)) /\ ghost \in GhostType
  BY <1>1, Found, NotDragged, NoDragType
<1>3. PICK w \in Written(disk, ed.rdb) :
              \/ w.ok /\ Settles(ed, w.disk, FALSE)
              \/ Fails(w)
              \/ /\ w.why = "overflow"
                 /\ \E v \in Written(disk, Raised.rdb) :
                      IF v.ok THEN Settles(Raised, v.disk, FALSE)
                      ELSE /\ disk' = v.disk
                           /\ ed' = Raised
                           /\ ghost' = Ghost
                           /\ UNCHANGED phase
  BY DEF Write
<1>4. CASE w.ok /\ Settles(ed, w.disk, FALSE)
  <2>1. DiskOK(w.disk, Allowed(ghost)) /\ ed.rdb \in Records
    BY <1>2, <1>4, WrittenOK
  <2> QED BY <1>1, <1>2, <1>4, <2>1, SettlesFollows
<1>5. CASE Fails(w)
  BY <1>1, <1>5, FailsFollows
<1>6. CASE /\ w.why = "overflow"
           /\ \E v \in Written(disk, Raised.rdb) :
                      IF v.ok THEN Settles(Raised, v.disk, FALSE)
                      ELSE /\ disk' = v.disk
                           /\ ed' = Raised
                           /\ ghost' = Ghost
                           /\ UNCHANGED phase
  <2>1. ed.rdb \in Records
    <3>1. CASE ed.rdb = NoTable
      <4>1. w = Outcome(disk, "refused")
        BY <3>1 DEF Written
      <4> QED BY <1>6, <4>1 DEF Outcome
    <3> QED BY <1>2, <3>1 DEF EdType, Tables
  <2>2. /\ Raised \in EdType /\ Raised.drag = NoDrag /\ Raised.rdb \in Records /\ Raised.dirty
        /\ Within(Raised.rdb, Allowed(ghost))
    BY <1>1, <1>2, <2>1, RaisedOK, SameEntries DEF AsksAs
  <2>3. PICK v \in Written(disk, Raised.rdb) :
                      IF v.ok THEN Settles(Raised, v.disk, FALSE)
                      ELSE /\ ed' = Raised
                           /\ ghost' = Ghost
                           /\ UNCHANGED phase
    BY <1>6
  <2>4. DiskOK(v.disk, Allowed(ghost))
    BY <1>2, <2>2, WrittenOK
  <2>5. CASE v.ok
    BY <1>1, <2>2, <2>3, <2>4, <2>5, SettlesFollows
  <2>6. CASE ~v.ok
    <3>1. ed'.dirty = TRUE
      BY <2>2, <2>3, <2>6 DEF EdType
    <3> QED BY <1>1, <1>2, <2>3, <2>6, <3>1, Loose, MarkFollows
  <2> QED BY <2>5, <2>6
<1> QED BY <1>3, <1>4, <1>5, <1>6

LEMMA LeavesFollow == ASSUME Inv, Inv', Back \/ Close \/ Leave PROVE Follows
<1>1. phase = "edit"
  BY DEF Back, Close, Leave, Event
<1>2. CASE \E w : Fails(w)
  BY <1>1, <1>2, FailsFollows
<1>3. CASE Back
  <2>1. /\ Within(ed.rdb, Allowed(ghost)) /\ ed \in EdType /\ ed.drag = NoDrag
        /\ DiskOK(disk, Allowed(ghost))
    BY <1>1, <1>3, Found, NotDragged, NoDragType DEF Back
  <2>2. PICK w \in Written(disk, ed.rdb) : IF w.ok THEN Settles(ed, w.disk, TRUE) ELSE Fails(w)
    BY <1>3 DEF Back
  <2>3. CASE w.ok
    <3>1. DiskOK(w.disk, Allowed(ghost)) /\ ed.rdb \in Records
      BY <2>1, <2>3, WrittenOK
    <3> QED BY <1>1, <2>1, <2>2, <2>3, <3>1, SettlesFollows
  <2> QED BY <1>2, <2>2, <2>3
<1>4. CASE Close
  <2>1. CASE phase' = IF ed.reboot THEN "reboot" ELSE "wrote"
    <3>1. Over
      BY <2>1 DEF Over
    <3> QED BY <3>1 DEF Follows
  <2> QED BY <1>2, <1>4, <2>1 DEF Close
<1>5. CASE Leave
  <2>1. phase' = IF ~ed.dirty /\ ed.reboot THEN "reboot" ELSE "closed"
    BY <1>5 DEF Leave, Leaves
  <2>2. Over
    BY <2>1 DEF Over
  <2> QED BY <2>2 DEF Follows
<1> QED BY <1>3, <1>4, <1>5

---------------------------------------------------------------------------
(* Every step *)

LEMMA NextFollows == ASSUME Inv, Inv', Next PROVE Start \/ Follows
<1>1. CASE \/ Idle /\ (PressEdge \/ PressBlock \/ PressGap \/ MoveGadget)
           \/ MouseMove \/ NewSize \/ ReleaseEdge \/ ReleaseGap \/ ReleaseBlock
  <2>1. NewSize => phase = "edit" /\ phase' = "edit"
    BY DEF NewSize
  <2> QED BY <1>1, <2>1, PressFollows, PressGapFollows, MoveGadgetFollows, MouseMoveFollows,
             CancelFollows, ReleaseEdgeFollows, ReleaseGapFollows, ReleaseBlockFollows
<1>2. CASE \/ Idle /\ (Edit \/ Add \/ Delete \/ Filesystems \/ Flags \/ UpdateGeometry)
           \/ \E withMbr \in BOOLEAN : Idle /\ InitRdb(withMbr)
  <2>1. TRUE \in BOOLEAN
    OBVIOUS
  <2> QED BY <1>2, <2>1, EditFollows, AddFollows, GadgetsFollow
<1>3. CASE \/ Idle /\ (RestoreBlock \/ RestoreExtended \/ RestoreImage \/ ClearTable)
           \/ Idle /\ (RestorePartition \/ CopyPartition \/ AddSlot \/ EditSlot \/ DeleteSlot)
  BY <1>3, RestoresFollow, RestorePartitionFollows, CopyPartitionFollows, SlotsFollow
<1>4. CASE Undo \/ Write \/ Back \/ Close \/ Leave
  BY <1>4, UndoFollows, WriteFollows, LeavesFollow
<1> QED BY <1>1, <1>2, <1>3, <1>4 DEF Next

LEMMA StepKeepsThePromise == ASSUME Inv, Inv', [Next]_vars PROVE [Store!Next]_(Store!vars)
<1>1. CASE UNCHANGED vars
  BY <1>1 DEF vars, Store!vars
<1>2. CASE Next
  <2>1. CASE Start
    BY <2>1, StartFollows
  <2>2. CASE ~Start
    <3>1. phase = "edit"
      BY <1>2, <2>2 DEF Next, Idle, Event, MouseMove, NewSize, ReleaseEdge, ReleaseGap,
            ReleaseBlock, Undo, Write, Back, Close, Leave
    <3> QED BY <1>2, <2>2, <3>1, NextFollows, FollowsPromise
  <2> QED BY <2>1, <2>2
<1> QED BY <1>1, <1>2

LEMMA InitKeepsThePromise == Init => Store!Init
<1> SUFFICES ASSUME Init PROVE Store!Init
  OBVIOUS
<1>1. phase = "start" /\ ed.rdb = NoTable /\ ed.dirty = FALSE /\ ghost.loose = FALSE
  BY DEF Init
<1>2. StoreTyped
  BY InvInit, InvTyped
<1>3. Plain(Restored(ed.rdb, ed.drag)) = NoTable
  BY <1>1 DEF Plain, Restored
<1> QED BY <1>1, <1>2, <1>3 DEF Store!Init, StoreTyped

(***************************************************************************)
(* The partition window (partview.c) implements TableStore: what the mouse *)
(* or a dialog changes in the copy is marked dirty or taken back, a drag   *)
(* in progress is no edit, and whoever writes the disk at once leaves disk *)
(* and copy alike or is one of the exceptions the ghost notes (Astray).    *)
(***************************************************************************)
THEOREM KeepsThePromise == Spec => StoreSpec
<1>1. Init => Inv /\ Store!Init
  BY InvInit, InitKeepsThePromise
<1>2. Inv /\ [Next]_vars => Inv' /\ [Store!Next]_(Store!vars)
  <2> SUFFICES ASSUME Inv, [Next]_vars PROVE Inv' /\ [Store!Next]_(Store!vars)
    OBVIOUS
  <2>1. Inv'
    BY InvNext DEF vars, Inv, Held, DragOK
  <2> QED BY <2>1, StepKeepsThePromise
<1> QED BY <1>1, <1>2, PTL DEF Spec, StoreSpec, Store!Spec

Promise == INSTANCE TableStore_proofs
    WITH Devices <- {"disk"},
         NoDevice <- "none",
         Seen <- LAMBDA t : t,
         store <- [d \in {"disk"} |-> Read(disk)],
         open <- IF phase = "start" THEN "none" ELSE "disk",
         copy <- Plain(Restored(ed.rdb, ed.drag)),
         unsaved <- ed.dirty,
         behind <- ghost.loose,
         preview <- FALSE,
         over <- phase \notin {"start", "edit"}

(***************************************************************************)
(* So the window forgets no edit: while it is open, a copy that is not     *)
(* dirty (`dirty', partview.c) is what the disk holds, once a drag in      *)
(* progress is taken back, but for the exceptions the ghost notes.         *)
(***************************************************************************)
THEOREM NoEditForgotten == Spec => []Store!Honest
<1>1. Store!Init => Store!Honest
  BY DEF Store!Init, Store!Honest
<1>2. Store!Next <=> Promise!Next
  BY Zenon DEF Store!Next, Promise!Next, Store!Load, Promise!Load, Store!Edit, Promise!Edit,
     Store!Sync, Promise!Sync, Store!Pretend, Promise!Pretend, Store!Slip, Promise!Slip,
     Store!Elsewhere, Promise!Elsewhere, Store!Drop, Promise!Drop, Store!Stop, Promise!Stop
<1>3. Store!Honest <=> Promise!Honest
  BY Zenon DEF Store!Honest, Promise!Honest, Store!InStep, Promise!InStep
<1>4. Store!Honest' <=> Promise!Honest'
  BY <1>3, PTL
<1>5. UNCHANGED Store!vars <=> UNCHANGED Promise!vars
  BY Zenon DEF Store!vars, Promise!vars
<1>6. Store!Honest /\ [Store!Next]_(Store!vars) => Store!Honest'
  BY <1>2, <1>3, <1>4, <1>5, Promise!HonestStep
<1> QED BY <1>1, <1>6, KeepsThePromise, PTL DEF StoreSpec, Store!Spec

=============================================================================
