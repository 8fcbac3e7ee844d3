-------------------------- MODULE PartClone_proofs --------------------------
(***************************************************************************)
(* Theorems about PartClone, for any disks, tables, volumes and dumps the   *)
(* assumptions allow, and any number of copies and troubles.                *)
(***************************************************************************)
EXTENDS PartClone, TLAPS

---------------------------------------------------------------------------
(* Arithmetic *)

LEMMA MaxOfTwo == ASSUME NEW a \in Int, NEW b \in Int
                  PROVE  Max({a, b}) = IF a >= b THEN a ELSE b
<1> DEFINE m == IF a >= b THEN a ELSE b
<1>1. m \in {a, b} /\ \A y \in {a, b} : m >= y
  OBVIOUS
<1>2. \A x \in {a, b} : (\A y \in {a, b} : x >= y) => x = m
  BY <1>1
<1> HIDE DEF m
<1> QED BY <1>1, <1>2 DEF Max

LEMMA MinOfTwo == ASSUME NEW a \in Int, NEW b \in Int
                  PROVE  Min({a, b}) = IF a <= b THEN a ELSE b
<1> DEFINE m == IF a <= b THEN a ELSE b
<1>1. m \in {a, b} /\ \A y \in {a, b} : m <= y
  OBVIOUS
<1>2. \A x \in {a, b} : (\A y \in {a, b} : x <= y) => x = m
  BY <1>1
<1> HIDE DEF m
<1> QED BY <1>1, <1>2 DEF Min

\* A product of naturals grows with each factor.
LEMMA Product ==
    ASSUME NEW a \in Nat, NEW b \in Nat, NEW c \in Nat, a <= b
    PROVE  a * c \in Nat /\ b * c \in Nat /\ a * c <= b * c
<1>1. PICK d \in Nat : b = a + d
  <2>1. b - a \in Nat /\ b = a + (b - a)
    OBVIOUS
  <2> QED BY <2>1
<1>2. a * c \in Nat /\ d * c \in Nat
  OBVIOUS
<1>3. b * c = a * c + d * c
  BY <1>1
<1> QED BY <1>2, <1>3

\* So many cylinders hold n sectors, and one less does not.
LEMMA Ceiling ==
    ASSUME NEW n \in Nat \ {0}, NEW c \in Nat \ {0}
    PROVE  LET q == (n + c - 1) \div c
           IN q \in Nat \ {0} /\ q * c \in Nat /\ q * c >= n
<1> DEFINE m == n + c - 1
<1> DEFINE q == m \div c
<1>1. m \in Nat /\ m >= c
  OBVIOUS
<1>2. q \in Int /\ c * q <= m /\ m < c * q + c
  BY <1>1
<1> HIDE DEF q, m
<1>3. q > 0
  <2> SUFFICES ASSUME q <= 0 PROVE FALSE
    BY <1>2
  <2>1. c * q <= 0
    <3>1. (-q) \in Nat /\ c * (-q) \in Nat /\ c * (-q) = -(c * q)
      BY <1>2
    <3> QED BY <3>1, <1>2
  <2> QED BY <1>1, <1>2, <2>1
<1>4. c * q = q * c /\ q * c \in Nat
  BY <1>2, <1>3
<1>5. q * c >= n
  BY <1>1, <1>2, <1>4 DEF m
<1> QED BY <1>2, <1>3, <1>4, <1>5 DEF q, m

\* Where an entry begins and how much it holds, in sectors of its own cylinders.
LEMMA Extent ==
    ASSUME NEW e \in Entries
    PROVE  /\ e.cyl * e.unit \in Nat \ {0}
           /\ e.low \in Nat \ {0} /\ e.high \in Nat /\ e.low <= e.high /\ e.type \in Types
           /\ Base(e) = e.low * (e.cyl * e.unit)
           /\ Count(e) = (e.high - e.low + 1) * (e.cyl * e.unit)
           /\ Base(e) + Count(e) = (e.high + 1) * (e.cyl * e.unit)
           /\ Base(e) \in Nat \ {0} /\ Count(e) \in Nat \ {0}
<1>1. /\ e.low \in Nat \ {0} /\ e.high \in Nat /\ e.low <= e.high /\ e.type \in Types
      /\ e.cyl \in Nat \ {0} /\ e.unit \in Nat \ {0}
  BY DEF Entries
<1> DEFINE c == e.cyl * e.unit
           n == e.high - e.low + 1
<1>2. c \in Nat \ {0}
  <2>1. c \in Nat /\ 1 * e.unit <= e.cyl * e.unit
    BY <1>1, Product
  <2> QED BY <1>1, <2>1
<1>3. n \in Nat \ {0}
  BY <1>1
<1>4. Base(e) = e.low * c /\ Count(e) = n * c
  <2>1. (e.low * e.cyl) * e.unit = e.low * (e.cyl * e.unit)
    BY <1>1
  <2>2. \A k \in Nat : (k * e.cyl) * e.unit = k * (e.cyl * e.unit)
    BY <1>1
  <2>3. Count(e) = (n * e.cyl) * e.unit
    BY DEF Count
  <2>4. n \in Nat
    BY <1>3
  <2>5. Count(e) = n * (e.cyl * e.unit)
    BY <2>2, <2>3, <2>4
  <2> QED BY <2>1, <2>5 DEF Base
<1>5. e.low * c \in Nat /\ e.low * c >= 1 * c
  BY <1>1, <1>2, Product
<1>6. n * c \in Nat /\ n * c >= 1 * c
  BY <1>2, <1>3, Product
<1>7. e.low * c + n * c = (e.high + 1) * c
  <2>1. e.low + n = e.high + 1
    BY <1>1
  <2>2. (e.low + n) * c = e.low * c + n * c
    BY <1>1, <1>2, <1>3
  <2> QED BY <2>1, <2>2
<1> QED BY <1>1, <1>2, <1>4, <1>5, <1>6, <1>7

---------------------------------------------------------------------------
(* The invariant *)

Clear(p, q) == p.high < q.low \/ q.high < p.low

PartCopy == op.kind \in {"restore", "clone"}

\* The disks at any time: nothing but the first sector holds a table.
Media(D) ==
    /\ DOMAIN D = Disks
    /\ \A d \in Disks :
          /\ D[d] \in [Sectors(d) -> Blocks \cup Layouts]
          /\ \A b \in Sectors(d) \ {0} : D[d][b] \in Blocks

Images ==
    {f \in [kind : {"image"}, head : {Zero}, count : {0}, blocks : Seq(Blocks \cup Layouts)] :
        \A i \in 2 .. Len(f.blocks) : f.blocks[i] \in Blocks}

OpType ==
    [kind : Kinds \cup {"none"}, sd : Disks \cup {NoFile}, dd : Disks \cup {NoFile},
     from : Nat, to : Nat, count : Nat, done : Nat, src : Entries \cup {Zero},
     dst : Entries \cup {Zero}, fs : SUBSET Types, new : BOOLEAN, zeroed : SUBSET Nat,
     ok : BOOLEAN, exact : BOOLEAN]

Pcs == {"idle", "copy", "fix", "fill", "name", "table", "geometry", "report"}

\* The types of the variables, each by itself.
VarTypes ==
    /\ Media(disk) /\ Media(before)
    /\ file = NoFile \/ file \in Dumps \/ file \in Images
    /\ mem = NoMem \/ mem \in [disk : Disks, tbl : Layouts]
    /\ pc \in Pcs /\ op \in OpType
    /\ clean \in BOOLEAN /\ ops \in 0 .. MaxOps /\ troubles \in 0 .. MaxTroubles

\* What is copied, and where to.
Ends ==
    /\ op.kind \in Kinds
    /\ IF FromDisk THEN op.sd \in Disks ELSE op.sd = NoFile
    /\ IF ToDisk THEN op.dd \in Disks ELSE op.dd = NoFile
    /\ op.sd = op.dd => op.kind = "clone"
    /\ op.kind \in {"dump", "clone"} => op.from > 0
    /\ op.kind \in {"imageout", "diskcopy"} => op.from = 0
    /\ op.kind \in {"imagein", "diskcopy"} => op.to = 0
    /\ op.kind \in {"dump", "restore"} => file \in Dumps
    /\ op.kind \in {"imageout", "imagein"} => file \in Images
    /\ op.kind = "restore" => op.count = file.count
    /\ op.kind = "imagein" => op.count = Len(file.blocks)

\* A step of the copy changes no block it has not come to.
Counted ==
    /\ op.done <= op.count /\ op.zeroed \subseteq 0 .. op.done - 1
    /\ pc = "copy" /\ ~ToDisk => Len(file.blocks) = op.done
    /\ ToDisk /\ op.done > 0 => op.to + op.done <= Size[op.dd]
    /\ pc \in {"fix", "fill", "name", "table"} => PartCopy /\ op.done = op.count
    /\ pc = "geometry" => op.kind = "diskcopy" /\ op.done = op.count
    /\ pc \in {"copy", "fix", "fill"} => ~op.exact

\* The two entries of a copy of a partition.
EntriesOK ==
    /\ mem \in [disk : Disks, tbl : Layouts] /\ mem.disk = op.dd
    /\ op.src \in Entries /\ op.dst \in Entries /\ op.dst \in mem.tbl.parts
    /\ \A p \in mem.tbl.parts : p = op.dst \/ Clear(p, Written)
    /\ op.to = Base(Written) /\ op.count = Count(op.src)
    /\ op.kind = "clone" => op.from = Base(op.src) /\ op.count <= Count(op.dst)
    /\ op.kind = "restore" => op.src.low = op.dst.low
    /\ op.new => Saved \subseteq mem.tbl.parts \ {op.dst}
    /\ pc # "copy" /\ op.done = op.count =>
        /\ op.dst.type = op.src.type
        /\ op.kind = "restore" => op.dst = op.src
    /\ pc = "fill" =>
        op.kind = "clone" /\ op.dst.type = "sfs" /\ Count(op.dst) > op.count
        /\ IsRoot(0) /\ At(0).size >= 2

TInv == /\ VarTypes
        /\ pc = "idle" => op = NoOp
        /\ pc # "idle" => Ends /\ Counted /\ (PartCopy => EntriesOK)

Sized == ~Outsized /\ ~op.exact

\* Nothing is written where the copy has not come to, nor on the disk it reads.
SourceKept ==
    /\ op.sd \in Disks /\ op.sd # op.dd => disk[op.sd] = before[op.sd]
    /\ ~ToDisk => disk = before
Ahead ==
    pc = "copy" /\ ToDisk => \A b \in Sectors(op.dd) :
        b - op.to \notin 0 .. op.done - 1 => disk[op.dd][b] = before[op.dd][b]

\* A copy of a partition stays within the place of its entry, up to the grow within the
\* blocks of the source.
Around ==
    Sized =>
        /\ \A b \in Sectors(op.dd) \ (Place(Written) \cup {0}) :
              disk[op.dd][b] = before[op.dd][b]
        /\ pc \in {"copy", "fix", "fill"} => \A b \in Sectors(op.dd) :
              b - op.to \notin 0 .. op.count - 1 => disk[op.dd][b] = before[op.dd][b]

\* The root the fixups go by is that of the source.
Begins ==
    /\ pc \in {"copy", "fix"} /\ op.done > 0 => Same(0)
    /\ pc = "fill" => SourceBlock(0).kind = "root" /\ At(0).size = SourceBlock(0).size

TableKept ==
    /\ pc # "report" \/ op.done < op.count => disk[op.dd][0] = before[op.dd][0]
    /\ EntryFollowsCopy

KInv ==
    pc # "idle" => SourceKept /\ Ahead /\ (PartCopy => Around /\ Begins /\ TableKept)

Judged == PartCopy /\ WholeSource /\ ~op.exact /\ ~OnItself
Perfect == Judged /\ clean /\ op.zeroed = {}
Renamed ==
    op.kind = "clone" /\ SourceBlock(0).name < MaxName /\ Renamable =>
        At(0).name # SourceBlock(0).name
Stands ==
    /\ Mounts(op.dst.type, At(0), op.to, Count(op.dst))
    /\ op.dst.type = "sfs" => /\ op.to + Count(op.dst) <= Size[op.dd]
                              /\ Mounts("sfs", At(Count(op.dst) - 1), op.to, Count(op.dst))
Bodies == \A i \in 1 .. op.count - 1 : Same(i) \/ SourceBlock(i).kind = "root"

\* What has been copied, and what the fixups have made of it.
FInv ==
    /\ pc # "report" => ~op.ok
    /\ pc = "copy" => \A i \in 0 .. op.done - 1 : Same(i) \/ (PartCopy /\ OnItself)
    /\ pc = "fix" /\ ~OnItself => \A i \in 0 .. op.count - 1 : Same(i)
    /\ pc = "geometry" => \A i \in 0 .. op.count - 1 : Same(i)
    /\ pc \in {"fill", "name", "table"} \/ (pc = "report" /\ op.ok) => (Judged => Bodies)
    /\ pc = "report" /\ op.ok =>
         /\ op.done = op.count
         /\ ~PartCopy => \A i \in 0 .. op.count - 1 : Same(i) \/ (i = 0 /\ op.kind = "diskcopy")
    /\ pc = "fill" /\ Perfect =>
         /\ At(0) = [SourceBlock(0) EXCEPT !.at = op.to]
         /\ Mounts("sfs", At(op.count - 1), op.to, op.count)
    /\ pc = "name" /\ Perfect =>
         Stands /\ At(0).name = SourceBlock(0).name /\ (Renamable => Findable)
    /\ pc = "table" /\ Perfect => Stands /\ Renamed
    /\ pc = "report" /\ op.ok /\ Perfect => Stands /\ Renamed /\ op.dst \in Table(op.dd).parts

---------------------------------------------------------------------------
(* Entries and tables *)

\* Entries of cylinders of one size that share no cylinder share no sector.
LEMMA PlacesApart ==
    ASSUME NEW p \in Entries, NEW q \in Entries, Clear(p, q),
           p.cyl * p.unit = q.cyl * q.unit
    PROVE  Place(p) \cap Place(q) = {}
<1> DEFINE c == p.cyl * p.unit
<1>1. /\ c \in Nat /\ p.low \in Nat /\ q.low \in Nat /\ p.high + 1 \in Nat /\ q.high + 1 \in Nat
      /\ p.high \in Nat /\ q.high \in Nat
      /\ Base(p) = p.low * c /\ Base(p) + Count(p) = (p.high + 1) * c
      /\ Base(q) = q.low * c /\ Base(q) + Count(q) = (q.high + 1) * c
      /\ Base(p) \in Nat /\ Base(q) \in Nat /\ Count(p) \in Nat /\ Count(q) \in Nat
  BY Extent
<1>2. CASE p.high < q.low
  <2>1. p.high + 1 <= q.low
    BY <1>1, <1>2
  <2>2. Base(p) + Count(p) <= Base(q)
    BY <1>1, <2>1, Product
  <2> QED BY <1>1, <2>2 DEF Place
<1>3. CASE q.high < p.low
  <2>1. q.high + 1 <= p.low
    BY <1>1, <1>3
  <2>2. Base(q) + Count(q) <= Base(p)
    BY <1>1, <2>1, Product
  <2> QED BY <1>1, <2>2 DEF Place
<1> QED BY <1>2, <1>3 DEF Clear

LEMMA LayoutParts ==
    ASSUME NEW t \in Layouts
    PROVE  /\ t.kind = "rdb" /\ t.parts \subseteq Entries /\ t.fs \subseteq Types
           /\ t.lo \in Nat \ {0} /\ t.hi \in Nat /\ t.cyl \in Nat \ {0}
           /\ \A p, q \in t.parts : p = q \/ Clear(p, q)
           /\ \A p, q \in t.parts : p.low = q.low => p = q
<1>1. /\ t.kind = "rdb" /\ t.parts \subseteq Entries /\ t.fs \subseteq Types
      /\ t.lo \in Nat \ {0} /\ t.hi \in Nat /\ t.cyl \in Nat \ {0}
      /\ \A p, q \in t.parts : p = q \/ Clear(p, q)
  BY DEF Layouts, Clear
<1>2. \A p \in t.parts : p.low \in Nat /\ p.high \in Nat /\ p.low <= p.high
  BY <1>1, Extent
<1> QED BY <1>1, <1>2 DEF Clear

\* An entry that shares no cylinder with the others may take the place of one.
LEMMA Replaced ==
    ASSUME NEW t \in Layouts, NEW e, NEW n \in Entries,
           \A p \in t.parts \ {e} : Clear(p, n)
    PROVE  [t EXCEPT !.parts = (@ \ {e}) \cup {n}] \in Layouts
<1> DEFINE u == [t EXCEPT !.parts = (@ \ {e}) \cup {n}]
<1>1. t.parts \subseteq Entries /\ \A p, q \in t.parts : p = q \/ Clear(p, q)
  BY LayoutParts
<1>2. u \in [kind : {"rdb"}, parts : SUBSET Entries, lo : Nat \ {0}, hi : Nat, cyl : Nat \ {0},
             fs : SUBSET Types] /\ u.parts = (t.parts \ {e}) \cup {n}
  BY <1>1 DEF Layouts
<1>3. \A p, q \in u.parts : p = q \/ Clear(p, q)
  BY <1>1, <1>2 DEF Clear
<1> QED BY <1>2, <1>3 DEF Layouts, Clear

\* A fit leaves the others alone.
LEMMA FitIsClear ==
    ASSUME NEW t \in Layouts, NEW e, NEW n \in Entries,
           Fits(t, n.low, n.high, {e})
    PROVE  \A p \in t.parts \ {e} : Clear(p, n)
<1>1. \A p \in t.parts : p.low \in Nat /\ p.high \in Nat
  BY LayoutParts, Extent
<1> QED BY <1>1, Extent DEF Fits, Clear

---------------------------------------------------------------------------
(* The data *)

LEMMA BlockKinds == \A b \in Blocks : b.kind \in {"root", "data", "zero"}
BY DEF Blocks, Zero

LEMMA ZeroIsBlock == Zero \in Blocks
BY DEF Blocks

\* What a root may be changed to.
LEMMA Rerooted ==
    ASSUME NEW r \in Blocks, r.kind = "root", NEW n \in Nat, NEW m \in Nat
    PROVE  /\ r.type \in Types /\ r.size \in Nat /\ r.n \in Nat /\ r.at \in Nat
           /\ r.flag \in BOOLEAN /\ r.name \in 0 .. MaxName
           /\ [r EXCEPT !.at = n] \in Blocks /\ [r EXCEPT !.size = n] \in Blocks
           /\ [r EXCEPT !.n = m, !.size = n] \in Blocks /\ [r EXCEPT !.flag = FALSE] \in Blocks
           /\ [r EXCEPT !.size = n, !.flag = TRUE] \in Blocks
           /\ [r EXCEPT !.name = Min({@ + 1, MaxName})] \in Blocks
<1> DEFINE Roots == [kind : {"root"}, type : Types, vol : Volumes, n : Nat, size : Nat,
                     at : Nat, flag : BOOLEAN, name : 0 .. MaxName]
<1>1. r \in Roots
  BY DEF Blocks, Zero
<1>2. Roots \subseteq Blocks
  BY DEF Blocks
<1>3. r.type \in Types /\ r.size \in Nat /\ r.n \in Nat /\ r.at \in Nat
      /\ r.flag \in BOOLEAN /\ r.name \in 0 .. MaxName
  BY <1>1
<1>4. /\ [r EXCEPT !.at = n] \in Roots /\ [r EXCEPT !.size = n] \in Roots
      /\ [r EXCEPT !.n = m, !.size = n] \in Roots /\ [r EXCEPT !.flag = FALSE] \in Roots
      /\ [r EXCEPT !.size = n, !.flag = TRUE] \in Roots
  BY <1>1
<1>5. Min({r.name + 1, MaxName}) \in 0 .. MaxName
  <2>1. MaxName \in Nat
    BY ConstantsAssumption
  <2>2. Min({r.name + 1, MaxName}) = IF r.name + 1 <= MaxName THEN r.name + 1 ELSE MaxName
    BY <1>3, <2>1, MinOfTwo
  <2> QED BY <1>3, <2>1, <2>2
<1>6. [r EXCEPT !.name = Min({@ + 1, MaxName})] \in Roots
  <2> DEFINE k == Min({r.name + 1, MaxName})
  <2>1. k \in 0 .. MaxName
    BY <1>5
  <2> HIDE DEF k
  <2>2. [r EXCEPT !.name = k] \in Roots
    BY <1>1, <2>1
  <2> QED BY <2>2 DEF k
<1> QED BY <1>2, <1>3, <1>4, <1>6

LEMMA SectorsOf ==
    ASSUME NEW d \in Disks
    PROVE  Size[d] \in Nat \ {0} /\ Sectors(d) \subseteq Nat /\ 0 \in Sectors(d)
BY ConstantsAssumption DEF Sectors

\* A disk at any time, sector by sector.
LEMMA OnDisk ==
    ASSUME NEW D, Media(D), NEW d \in Disks, NEW b \in Sectors(d)
    PROVE  /\ D[d][b] \in Blocks \cup Layouts
           /\ b # 0 => D[d][b] \in Blocks
           /\ D[d][b].kind = "rdb" => b = 0 /\ D[d][b] \in Layouts
           /\ D[d][b].kind \in {"root", "zero"} => D[d][b] \in Blocks
<1>1. D[d][b] \in Blocks \cup Layouts /\ (b # 0 => D[d][b] \in Blocks)
  BY DEF Media
<1> QED BY <1>1, BlockKinds, LayoutParts

\* Sectors of a disk that change.
LEMMA Remade ==
    ASSUME NEW D, Media(D), NEW d \in Disks, NEW f \in [Sectors(d) -> Blocks \cup Layouts],
           \A b \in Sectors(d) \ {0} : f[b] \in Blocks
    PROVE  LET E == [D EXCEPT ![d] = f]
           IN Media(E) /\ E[d] = f /\ \A x \in Disks \ {d} : E[x] = D[x]
BY DEF Media

LEMMA Poke ==
    ASSUME NEW D, Media(D), NEW d \in Disks, NEW b \in Sectors(d), NEW r,
           r \in Blocks \/ (b = 0 /\ r \in Layouts)
    PROVE  LET E == [D EXCEPT ![d][b] = r]
           IN /\ Media(E) /\ \A x \in Disks \ {d} : E[x] = D[x]
              /\ \A y \in Sectors(d) : E[d][y] = IF y = b THEN r ELSE D[d][y]
<1> DEFINE f == [D[d] EXCEPT ![b] = r]
<1>1. D[d] \in [Sectors(d) -> Blocks \cup Layouts] /\ DOMAIN D = Disks
      /\ \A y \in Sectors(d) \ {0} : D[d][y] \in Blocks
  BY DEF Media
<1>2. f \in [Sectors(d) -> Blocks \cup Layouts]
      /\ \A y \in Sectors(d) : f[y] = IF y = b THEN r ELSE D[d][y]
  BY <1>1
<1>3. \A y \in Sectors(d) \ {0} : f[y] \in Blocks
  BY <1>1, <1>2
<1>4. [D EXCEPT ![d][b] = r] = [D EXCEPT ![d] = f]
  BY <1>1
<1> HIDE DEF f
<1> QED BY <1>2, <1>3, <1>4, Remade

LEMMA ChangeIs ==
    ASSUME NEW D, Media(D), op.dd \in Disks, NEW i, op.to + i \in Sectors(op.dd),
           NEW r \in Blocks
    PROVE  LET E == Change(D, i, r)
           IN /\ Media(E) /\ \A x \in Disks \ {op.dd} : E[x] = D[x]
              /\ \A y \in Sectors(op.dd) : E[op.dd][y] = IF y = op.to + i THEN r ELSE D[op.dd][y]
BY Poke DEF Change

LEMMA Appended ==
    ASSUME NEW S, NEW s \in Seq(S), NEW t \in Seq(S)
    PROVE  /\ Len(s \o t) = Len(s) + Len(t)
           /\ \A k \in 1 .. Len(s) + Len(t) :
                 (s \o t)[k] = IF k <= Len(s) THEN s[k] ELSE t[k - Len(s)]
OBVIOUS

---------------------------------------------------------------------------
(* The operation *)

\* What is known of a running operation.
LEMMA Running ==
    ASSUME TInv, pc # "idle"
    PROVE  /\ VarTypes /\ Ends /\ Counted /\ (PartCopy => EntriesOK)
           /\ op \in OpType /\ op.kind \in Kinds
           /\ op.from \in Nat /\ op.to \in Nat /\ op.count \in Nat /\ op.done \in Nat
           /\ op.done <= op.count
           /\ op.zeroed \in SUBSET Nat /\ op.zeroed \subseteq 0 .. op.done - 1
           /\ Media(disk) /\ Media(before)
           /\ FromDisk => op.sd \in Disks
           /\ ToDisk => op.dd \in Disks
           /\ PartCopy => FromDisk \/ op.kind = "restore"
           /\ PartCopy => ToDisk /\ op.to > 0
<1>1. /\ VarTypes /\ Ends /\ Counted /\ (PartCopy => EntriesOK)
      /\ Media(disk) /\ Media(before) /\ op.done <= op.count /\ op.zeroed \subseteq 0 .. op.done - 1
  BY DEF TInv, VarTypes, Counted
<1>2. op \in OpType
  BY <1>1 DEF VarTypes
<1>3. op.from \in Nat /\ op.to \in Nat /\ op.count \in Nat /\ op.done \in Nat
      /\ op.zeroed \in SUBSET Nat
  BY <1>2 DEF OpType
<1>4. /\ op.kind \in Kinds
      /\ FromDisk => op.sd \in Disks
      /\ ToDisk => op.dd \in Disks
      /\ PartCopy => FromDisk \/ op.kind = "restore"
      /\ PartCopy => ToDisk
  BY <1>1 DEF Ends, PartCopy, FromDisk, ToDisk
<1>5. PartCopy => op.to > 0
  <2> SUFFICES ASSUME PartCopy PROVE op.to > 0
    OBVIOUS
  <2>1. EntriesOK
    BY <1>1
  <2>2. op.to = Base(Written) /\ Written \in Entries
    BY <2>1 DEF EntriesOK, Written
  <2> QED BY <2>2, Extent
<1> QED BY <1>1, <1>2, <1>3, <1>4, <1>5

LEMMA BatchIs ==
    ASSUME TInv, pc # "idle", op.done < op.count
    PROVE  Batch \in 1 .. op.count - op.done
<1>1. op.count \in Nat /\ op.done \in Nat /\ Chunk \in Nat \ {0}
  BY Running, ConstantsAssumption
<1>2. Batch = IF Chunk <= op.count - op.done THEN Chunk ELSE op.count - op.done
  BY <1>1, MinOfTwo DEF Batch
<1> QED BY <1>1, <1>2

\* The batch fits where the room is as large.
LEMMA RoomIs ==
    ASSUME TInv, pc # "idle", op.done < op.count
    PROVE  /\ Room \in 0 .. Batch
           /\ ToDisk /\ Room > 0 => op.to + op.done + Room <= Size[op.dd]
<1>1. op.to \in Nat /\ op.done \in Nat /\ Batch \in Nat \ {0} /\ (ToDisk => op.dd \in Disks)
      /\ op.count \in Nat
  BY Running, BatchIs
<1> DEFINE left == Size[op.dd] - op.to - op.done
<1>2. CASE ToDisk
  <2>1. left \in Int
    BY <1>1, <1>2, SectorsOf
  <2>2. Min({Batch, left}) = IF Batch <= left THEN Batch ELSE left
    BY <1>1, <2>1, MinOfTwo
  <2>3. Min({Batch, left}) \in Int
    BY <1>1, <2>1, <2>2
  <2>4. Max({0, Min({Batch, left})}) = IF 0 >= Min({Batch, left}) THEN 0 ELSE Min({Batch, left})
    BY <2>3, MaxOfTwo
  <2>5. Room = Max({0, Min({Batch, left})})
    BY <1>2 DEF Room
  <2>6. Size[op.dd] \in Nat
    BY <1>1, <1>2, SectorsOf
  <2>7. Room > 0 => Room <= left
    BY <1>1, <2>1, <2>2, <2>3, <2>4, <2>5
  <2> QED BY <1>1, <1>2, <2>1, <2>2, <2>3, <2>4, <2>5, <2>6, <2>7
<1>3. CASE ~ToDisk
  BY <1>1, <1>3 DEF Room
<1> QED BY <1>2, <1>3

\* A block that is copied: that of the source, or zeros.
LEMMA BlockIs ==
    ASSUME TInv, pc # "idle", Present, op.done < op.count,
           NEW i \in op.done .. op.done + Batch - 1, NEW holes, Beyond \subseteq holes
    PROVE  /\ Block(i, holes) \in Blocks \cup Layouts
           /\ PartCopy \/ op.kind = "dump" \/ i > 0 => Block(i, holes) \in Blocks
           /\ FromDisk /\ i \notin holes =>
                /\ op.from + i \in Sectors(op.sd)
                /\ Block(i, holes) = disk[op.sd][op.from + i]
           /\ ~FromDisk /\ i \notin holes => Block(i, holes) = file.blocks[i + 1]
<1>1. /\ Batch \in 1 .. op.count - op.done /\ op.done \in Nat /\ op.count \in Nat
      /\ op.from \in Nat /\ i \in Nat /\ i < op.done + Batch
  BY Running, BatchIs
<1>2. CASE i \in holes
  BY <1>2, ZeroIsBlock DEF Block
<1>3. CASE i \notin holes /\ FromDisk
  <2>1. op.from + i \in Sectors(op.sd) /\ op.sd \in Disks
    BY <1>3, Running DEF Beyond
  <2>2. Block(i, holes) = disk[op.sd][op.from + i]
    BY <1>3 DEF Block
  <2>3. PartCopy \/ op.kind = "dump" => op.from > 0
    BY <1>3, Running DEF Ends, PartCopy, FromDisk
  <2>4. op.from + i \in Nat /\ (op.from > 0 \/ i > 0 => op.from + i # 0)
    BY <1>1
  <2>5. Media(disk)
    BY Running
  <2>6. /\ disk[op.sd][op.from + i] \in Blocks \cup Layouts
        /\ op.from + i # 0 => disk[op.sd][op.from + i] \in Blocks
    BY <2>1, <2>5, OnDisk
  <2>7. PartCopy \/ op.kind = "dump" \/ i > 0 => op.from + i # 0
    BY <2>3, <2>4
  <2> QED BY <1>3, <2>1, <2>2, <2>6, <2>7
<1>4. CASE i \notin holes /\ ~FromDisk
  <2>1. Block(i, holes) = file.blocks[i + 1]
    BY <1>4 DEF Block
  <2>2. Len(file.blocks) >= op.done + Batch
    BY <1>4 DEF Present
  <2>3. (op.kind = "restore" /\ file \in Dumps) \/ (op.kind = "imagein" /\ file \in Images)
    <3>1. Ends
      BY Running
    <3> QED BY <1>4, <3>1 DEF Ends, FromDisk
  <2>4. CASE op.kind = "restore" /\ file \in Dumps
    <3>1. file.blocks \in Seq(Blocks)
      BY <2>4 DEF Dumps
    <3>2. i + 1 \in 1 .. Len(file.blocks)
      BY <1>1, <2>2, <3>1
    <3>3. file.blocks[i + 1] \in Blocks
      BY <3>1, <3>2
    <3> QED BY <1>4, <2>1, <3>3
  <2>5. CASE op.kind = "imagein" /\ file \in Images
    <3>1. file.blocks \in Seq(Blocks \cup Layouts)
          /\ \A k \in 2 .. Len(file.blocks) : file.blocks[k] \in Blocks
      BY <2>5 DEF Images
    <3>2. i + 1 \in 1 .. Len(file.blocks)
      BY <1>1, <2>2, <3>1
    <3>3. file.blocks[i + 1] \in Blocks \cup Layouts
      BY <3>1, <3>2
    <3>4. i > 0 => i + 1 \in 2 .. Len(file.blocks)
      BY <1>1, <3>2
    <3>5. i > 0 => file.blocks[i + 1] \in Blocks
      BY <3>1, <3>4
    <3>6. ~PartCopy /\ op.kind # "dump"
      BY <2>5 DEF PartCopy
    <3> QED BY <1>4, <2>1, <3>3, <3>5, <3>6
  <2> QED BY <2>3, <2>4, <2>5
<1> QED BY <1>2, <1>3, <1>4

\* What the first n blocks of a batch change.
LEMMA Delivered ==
    ASSUME TInv, pc = "copy", Present, op.done < op.count, NEW n \in 0 .. Batch,
           NEW holes, Beyond \subseteq holes, Deliver(n, holes)
    PROVE  /\ ToDisk => /\ file' = file /\ Media(disk')
                        /\ \A x \in Disks \ {op.dd} : disk'[x] = disk[x]
                        /\ \A b \in Sectors(op.dd) : disk'[op.dd][b] =
                              IF b - op.to \in op.done .. op.done + n - 1
                              THEN Block(b - op.to, holes) ELSE disk[op.dd][b]
           /\ ~ToDisk => /\ disk' = disk
                         /\ op.kind = "dump" => file' \in Dumps /\ file'.count = file.count
                         /\ op.kind = "imageout" => file' \in Images
                         /\ Len(file'.blocks) = op.done + n
                         /\ \A i \in 0 .. op.done + n - 1 : file'.blocks[i + 1] =
                               IF i < op.done THEN file.blocks[i + 1] ELSE Block(i, holes)
<1>1. /\ Batch \in 1 .. op.count - op.done /\ op.done \in Nat /\ op.count \in Nat
      /\ op.to \in Nat /\ n \in Nat /\ Media(disk) /\ pc # "idle"
  BY Running, BatchIs
<1>2. ASSUME ToDisk
      PROVE  /\ file' = file /\ Media(disk')
             /\ \A x \in Disks \ {op.dd} : disk'[x] = disk[x]
             /\ \A b \in Sectors(op.dd) : disk'[op.dd][b] =
                   IF b - op.to \in op.done .. op.done + n - 1
                   THEN Block(b - op.to, holes) ELSE disk[op.dd][b]
  <2> DEFINE f == [b \in Sectors(op.dd) |->
                     IF b - op.to \in op.done .. op.done + n - 1
                     THEN Block(b - op.to, holes) ELSE disk[op.dd][b]]
  <2>1. op.dd \in Disks /\ Sectors(op.dd) \subseteq Nat
    BY <1>1, <1>2, Running, SectorsOf
  <2>2. file' = file /\ disk' = [disk EXCEPT ![op.dd] = f]
    BY <1>2 DEF Deliver
  <2>3. \A b \in Sectors(op.dd) : f[b] \in Blocks \cup Layouts /\ (b # 0 => f[b] \in Blocks)
    <3> SUFFICES ASSUME NEW b \in Sectors(op.dd)
                 PROVE  f[b] \in Blocks \cup Layouts /\ (b # 0 => f[b] \in Blocks)
      OBVIOUS
    <3>1. CASE b - op.to \in op.done .. op.done + n - 1
      <4>1. b - op.to \in op.done .. op.done + Batch - 1
        BY <1>1, <3>1
      <4>2. f[b] = Block(b - op.to, holes)
        BY <3>1
      <4>3. PartCopy \/ op.to = 0
        BY <1>1, <1>2, Running DEF Ends, PartCopy, ToDisk, Kinds
      <4>4. b # 0 => PartCopy \/ b - op.to > 0
        BY <2>1, <4>3
      <4> QED BY <1>1, <4>1, <4>2, <4>4, BlockIs
    <3>2. CASE b - op.to \notin op.done .. op.done + n - 1
      <4>1. f[b] = disk[op.dd][b]
        BY <3>2
      <4> QED BY <1>1, <2>1, <4>1, OnDisk
    <3> QED BY <3>1, <3>2
  <2>4. f \in [Sectors(op.dd) -> Blocks \cup Layouts]
    BY <2>3
  <2>5. \A b \in Sectors(op.dd) : f[b] = IF b - op.to \in op.done .. op.done + n - 1
                                        THEN Block(b - op.to, holes) ELSE disk[op.dd][b]
    OBVIOUS
  <2> HIDE DEF f
  <2>6. Media(disk') /\ disk'[op.dd] = f /\ \A x \in Disks \ {op.dd} : disk'[x] = disk[x]
    <3>1. \A b \in Sectors(op.dd) \ {0} : f[b] \in Blocks
      BY <2>3
    <3>2. /\ Media([disk EXCEPT ![op.dd] = f]) /\ [disk EXCEPT ![op.dd] = f][op.dd] = f
          /\ \A x \in Disks \ {op.dd} : [disk EXCEPT ![op.dd] = f][x] = disk[x]
      BY <1>1, <2>1, <2>4, <3>1, Remade
    <3> QED BY <2>2, <3>2
  <2> QED BY <2>2, <2>5, <2>6
<1>3. ASSUME ~ToDisk
      PROVE  /\ disk' = disk
             /\ op.kind = "dump" => file' \in Dumps /\ file'.count = file.count
             /\ op.kind = "imageout" => file' \in Images
             /\ Len(file'.blocks) = op.done + n
             /\ \A i \in 0 .. op.done + n - 1 : file'.blocks[i + 1] =
                   IF i < op.done THEN file.blocks[i + 1] ELSE Block(i, holes)
  <2> DEFINE more == [i \in 1 .. n |-> Block(op.done + i - 1, holes)]
  <2>1. disk' = disk /\ file' = [file EXCEPT !.blocks = @ \o more]
    BY <1>3 DEF Deliver
  <2>2. (op.kind = "dump" /\ file \in Dumps) \/ (op.kind = "imageout" /\ file \in Images)
    <3>1. Ends
      BY <1>1, Running
    <3> QED BY <1>3, <3>1 DEF Ends, ToDisk
  <2>3. Len(file.blocks) = op.done
    BY <1>1, <1>3, Running DEF Counted
  <2>4. \A i \in 1 .. n : op.done + i - 1 \in op.done .. op.done + Batch - 1
    BY <1>1
  <2>5. \A i \in 1 .. n : /\ more[i] \in Blocks \cup Layouts
                          /\ op.kind = "dump" \/ op.done + i - 1 > 0 => more[i] \in Blocks
    BY <1>1, <2>4, BlockIs
  <2>6. \A i \in 1 .. n : more[i] = Block(op.done + i - 1, holes)
    OBVIOUS
  <2>7. more \in Seq(Blocks \cup Layouts) /\ Len(more) = n
    BY <1>1, <2>5
  <2>8. op.kind = "dump" => more \in Seq(Blocks)
    <3>1. op.kind = "dump" => \A i \in 1 .. n : more[i] \in Blocks
      BY <2>5
    <3> QED BY <1>1, <3>1
  <2> HIDE DEF more
  <2>9. file.blocks \in Seq(Blocks \cup Layouts)
    <3>1. file \in Dumps => file.blocks \in Seq(Blocks)
      BY DEF Dumps
    <3>2. file \in Images => file.blocks \in Seq(Blocks \cup Layouts)
      BY DEF Images
    <3>3. \A z \in Seq(Blocks) : z \in Seq(Blocks \cup Layouts)
      OBVIOUS
    <3> QED BY <2>2, <3>1, <3>2, <3>3
  <2>10. file'.blocks = file.blocks \o more
    <3>1. CASE file \in Dumps
      BY <2>1, <3>1 DEF Dumps
    <3>2. CASE file \in Images
      BY <2>1, <3>2 DEF Images
    <3> QED BY <2>2, <3>1, <3>2
  <2>11. Len(file'.blocks) = op.done + n
    <3>1. more \in Seq(Blocks \cup Layouts) /\ file.blocks \in Seq(Blocks \cup Layouts)
      BY <2>7, <2>9
    <3>2. Len(file.blocks \o more) = Len(file.blocks) + Len(more)
      BY <3>1, Appended
    <3> QED BY <2>3, <2>7, <2>10, <3>2
  <2>12. \A k \in 1 .. op.done + n :
            file'.blocks[k] = IF k <= op.done THEN file.blocks[k] ELSE more[k - op.done]
    BY <2>3, <2>7, <2>9, <2>10, Appended
  <2>13. \A i \in 0 .. op.done + n - 1 : file'.blocks[i + 1] =
                IF i < op.done THEN file.blocks[i + 1] ELSE Block(i, holes)
    <3> SUFFICES ASSUME NEW i \in 0 .. op.done + n - 1
                 PROVE  file'.blocks[i + 1] =
                            IF i < op.done THEN file.blocks[i + 1] ELSE Block(i, holes)
      OBVIOUS
    <3>1. i + 1 \in 1 .. op.done + n /\ (i + 1 <= op.done <=> i < op.done)
      BY <1>1
    <3>2. CASE i < op.done
      BY <2>12, <3>1, <3>2
    <3>3. CASE ~(i < op.done)
      <4>1. (i + 1) - op.done \in 1 .. n /\ op.done + ((i + 1) - op.done) - 1 = i
        BY <1>1, <3>3
      <4>2. more[(i + 1) - op.done] = Block(i, holes)
        BY <2>6, <4>1
      <4>3. file'.blocks[i + 1] = more[(i + 1) - op.done]
        BY <2>12, <3>1, <3>3
      <4> QED BY <3>3, <4>2, <4>3
    <3> QED BY <3>2, <3>3
  <2>14. op.kind = "dump" => file' \in Dumps /\ file'.count = file.count
    <3> SUFFICES ASSUME op.kind = "dump" PROVE file' \in Dumps /\ file'.count = file.count
      OBVIOUS
    <3>1. file \in Dumps /\ file.blocks \in Seq(Blocks) /\ more \in Seq(Blocks)
      BY <2>2, <2>8 DEF Dumps
    <3>2. file.blocks \o more \in Seq(Blocks)
      BY <3>1
    <3> QED BY <2>1, <3>1, <3>2 DEF Dumps
  <2>15. op.kind = "imageout" => file' \in Images
    <3> SUFFICES ASSUME op.kind = "imageout" PROVE file' \in Images
      OBVIOUS
    <3>1. file \in Images /\ \A k \in 2 .. Len(file.blocks) : file.blocks[k] \in Blocks
      BY <2>2 DEF Images
    <3>2. file.blocks \o more \in Seq(Blocks \cup Layouts)
      BY <2>7, <2>9
    <3>3. \A k \in 2 .. op.done + n : file'.blocks[k] \in Blocks
      <4> SUFFICES ASSUME NEW k \in 2 .. op.done + n PROVE file'.blocks[k] \in Blocks
        OBVIOUS
      <4>1. CASE k <= op.done
        BY <1>1, <2>3, <2>12, <3>1, <4>1
      <4>2. CASE k > op.done
        <5>1. k - op.done \in 1 .. n /\ op.done + (k - op.done) - 1 > 0
          BY <1>1, <4>2
        <5> QED BY <1>1, <2>5, <2>12, <4>2, <5>1
      <4> QED BY <1>1, <4>1, <4>2
    <3> QED BY <2>1, <2>10, <2>11, <3>1, <3>2, <3>3 DEF Images
  <2> QED BY <2>1, <2>11, <2>13, <2>14, <2>15
<1> QED BY <1>2, <1>3

---------------------------------------------------------------------------
(* The types: where a copy begins *)

LEMMA NoOpType == NoOp \in OpType /\ NoOp.kind = "none" /\ NoOp.done = 0 /\ NoOp.count = 0
                  /\ NoOp.zeroed = {}
BY DEF NoOp, OpType

LEMMA TypeInit == ASSUME Init PROVE TInv
<1>1. Media(disk) /\ before = disk
  BY StartAssumption DEF Init, Media
<1>2. file = NoFile \/ file \in Dumps
  BY StartAssumption DEF Init
<1>3. /\ mem = NoMem /\ pc = "idle" /\ op = NoOp /\ clean = TRUE /\ ops = 0 /\ troubles = 0
      /\ MaxOps \in Nat /\ MaxTroubles \in Nat
  BY ConstantsAssumption DEF Init
<1>4. VarTypes
  BY <1>1, <1>2, <1>3, NoOpType DEF VarTypes, Pcs
<1> QED BY <1>3, <1>4 DEF TInv

LEMMA Begun ==
    ASSUME TInv, NEW o \in OpType, NEW t, Begin(o, t),
           t = NoMem \/ t \in [disk : Disks, tbl : Layouts],
           file' = NoFile \/ file' \in Dumps \/ file' \in Images
    PROVE  /\ VarTypes' /\ op' = o /\ mem' = t /\ pc' = "copy" /\ before' = disk
           /\ disk' = disk
<1>1. VarTypes /\ MaxOps \in Nat
  BY ConstantsAssumption DEF TInv
<1>2. /\ ops < MaxOps /\ ops' = ops + 1 /\ op' = o /\ mem' = t /\ pc' = "copy"
      /\ before' = disk /\ clean' = TRUE /\ disk' = disk /\ troubles' = troubles
  BY DEF Begin
<1>3. ops' \in 0 .. MaxOps
  BY <1>1, <1>2 DEF VarTypes
<1> QED BY <1>1, <1>2, <1>3 DEF VarTypes, Pcs

\* A copy that has just begun.
Fresh == pc' = "copy" /\ op'.done = 0 /\ op'.ok = FALSE /\ before' = disk /\ disk' = disk

\* The tables there are to choose from.
LEMMA TablesAre ==
    ASSUME TInv, NEW d \in Disks, NEW t \in Tables(d)
    PROVE  t \in Layouts
<1>1. VarTypes /\ NoFile \notin Disks /\ Media(disk)
  BY ConstantsAssumption DEF TInv, VarTypes
<1>2. CASE HasTable(d) /\ t = Table(d)
  <2>1. 0 \in Sectors(d)
    BY SectorsOf
  <2> QED BY <1>1, <1>2, <2>1, OnDisk DEF HasTable, Table
<1>3. CASE mem.disk = d /\ t = mem.tbl
  BY <1>1, <1>3 DEF VarTypes, NoMem
<1> QED BY <1>2, <1>3 DEF Tables

LEMMA DumpType == ASSUME TInv, NEW d \in Disks, Dump(d) PROVE TInv' /\ Fresh
<1>1. PICK t \in Tables(d) : \E e \in t.parts :
        /\ Begin([NoOp EXCEPT !.kind = "dump", !.sd = d, !.from = Base(e), !.count = Count(e)], mem)
        /\ file' = [kind |-> "dump", head |-> e, count |-> Count(e), blocks |-> <<>>]
  BY DEF Dump
<1>2. PICK e \in t.parts :
        /\ Begin([NoOp EXCEPT !.kind = "dump", !.sd = d, !.from = Base(e), !.count = Count(e)], mem)
        /\ file' = [kind |-> "dump", head |-> e, count |-> Count(e), blocks |-> <<>>]
  BY <1>1
<1>3. e \in Entries /\ Base(e) \in Nat \ {0} /\ Count(e) \in Nat
  BY TablesAre, LayoutParts, Extent
<1> DEFINE o == [NoOp EXCEPT !.kind = "dump", !.sd = d, !.from = Base(e), !.count = Count(e)]
<1>4. o \in OpType
  BY <1>3 DEF OpType, NoOp, Kinds
<1>5. /\ o.kind = "dump" /\ o.sd = d /\ o.from = Base(e) /\ o.count = Count(e) /\ o.to = 0
      /\ o.dd = NoFile /\ o.done = 0 /\ o.zeroed = {} /\ o.exact = FALSE /\ o.ok = FALSE
  BY DEF NoOp
<1> HIDE DEF o
<1>6. file' \in Dumps /\ Len(file'.blocks) = 0
  BY <1>2, <1>3 DEF Dumps
<1>7. mem = NoMem \/ mem \in [disk : Disks, tbl : Layouts]
  BY DEF TInv, VarTypes
<1>8. VarTypes' /\ op' = o /\ pc' = "copy" /\ before' = disk /\ disk' = disk
  BY <1>2, <1>4, <1>6, <1>7, Begun DEF o
<1>9. Ends'
  BY <1>3, <1>5, <1>6, <1>8, ConstantsAssumption DEF Ends, FromDisk, ToDisk, Kinds
<1>10. Counted' /\ ~PartCopy'
  BY <1>3, <1>5, <1>6, <1>8 DEF Counted, ToDisk, PartCopy
<1> QED BY <1>5, <1>8, <1>9, <1>10 DEF TInv, Fresh

LEMMA TargetIs ==
    ASSUME NEW e \in Entries, file \in Dumps
    PROVE  /\ Target(e) \in Entries /\ Target(e).low = e.low
           /\ Count(Target(e)) = Count(file.head) /\ Count(file.head) = file.count
<1>1. file.head \in Entries /\ file.count = Count(file.head)
  BY DEF Dumps
<1>2. /\ file.head.low \in Nat /\ file.head.high \in Nat /\ file.head.low <= file.head.high
      /\ e.low \in Nat \ {0}
  BY <1>1, Extent
<1> DEFINE h == file.head
           high == e.low + h.high - h.low
<1>3. high \in Nat /\ e.low <= high /\ (high - e.low) + 1 = (h.high - h.low) + 1
  BY <1>2
<1>4. Target(e) = [h EXCEPT !.low = e.low, !.high = high]
  BY DEF Target
<1> HIDE DEF high
<1>5. /\ Target(e) \in Entries /\ Target(e).low = e.low /\ Target(e).high = high
      /\ Target(e).cyl = h.cyl /\ Target(e).unit = h.unit
  BY <1>1, <1>2, <1>3, <1>4 DEF Entries
<1>6. (high - e.low) + 1 = high - e.low + 1 /\ (h.high - h.low) + 1 = h.high - h.low + 1
  OBVIOUS
<1> QED BY <1>1, <1>3, <1>5, <1>6 DEF Count

LEMMA RestoreType == ASSUME TInv, NEW d \in Disks, Restore(d) PROVE TInv' /\ Fresh
<1>1. PICK t \in Tables(d) : \E e \in t.parts :
        /\ file # NoFile /\ file.kind = "dump"
        /\ Fits(t, Target(e).low, Target(e).high, {e})
        /\ Begin([NoOp EXCEPT !.kind = "restore", !.dd = d, !.to = Base(Target(e)),
                              !.count = file.count, !.src = Target(e), !.dst = e],
                 [disk |-> d, tbl |-> t])
        /\ file' = file
  BY DEF Restore
<1>2. PICK e \in t.parts :
        /\ file # NoFile /\ file.kind = "dump"
        /\ Fits(t, Target(e).low, Target(e).high, {e})
        /\ Begin([NoOp EXCEPT !.kind = "restore", !.dd = d, !.to = Base(Target(e)),
                              !.count = file.count, !.src = Target(e), !.dst = e],
                 [disk |-> d, tbl |-> t])
        /\ file' = file
  BY <1>1
<1>3. t \in Layouts /\ e \in Entries
  BY TablesAre, LayoutParts
<1>4. file \in Dumps
  BY <1>2 DEF TInv, VarTypes, Images
<1> DEFINE n == Target(e)
<1>5. n \in Entries /\ n.low = e.low /\ Count(n) = file.count
      /\ Base(n) \in Nat \ {0} /\ Count(n) \in Nat
  BY <1>3, <1>4, TargetIs, Extent
<1>6. \A p \in t.parts \ {e} : Clear(p, n)
  BY <1>2, <1>3, <1>5, FitIsClear
<1> HIDE DEF n
<1> DEFINE o == [NoOp EXCEPT !.kind = "restore", !.dd = d, !.to = Base(n),
                             !.count = file.count, !.src = n, !.dst = e]
<1>7. o \in OpType
  BY <1>3, <1>5 DEF OpType, NoOp, Kinds
<1>8. /\ o.kind = "restore" /\ o.sd = NoFile /\ o.dd = d /\ o.from = 0 /\ o.to = Base(n)
      /\ o.count = file.count /\ o.src = n /\ o.dst = e /\ o.done = 0 /\ o.zeroed = {}
      /\ o.exact = FALSE /\ o.ok = FALSE /\ o.new = FALSE
  BY DEF NoOp
<1> HIDE DEF o
<1>9. [disk |-> d, tbl |-> t] \in [disk : Disks, tbl : Layouts]
  BY <1>3
<1>10. /\ VarTypes' /\ op' = o /\ pc' = "copy" /\ before' = disk /\ disk' = disk
      /\ mem' = [disk |-> d, tbl |-> t]
  BY <1>2, <1>4, <1>7, <1>9, Begun DEF o, n
<1>11. Ends'
  BY <1>2, <1>4, <1>8, <1>10, ConstantsAssumption DEF Ends, FromDisk, ToDisk, Kinds
<1>12. Counted'
  BY <1>5, <1>8, <1>10 DEF Counted, ToDisk
<1>13. EntriesOK'
  BY <1>2, <1>3, <1>5, <1>6, <1>8, <1>9, <1>10 DEF EntriesOK, Written
<1> QED BY <1>8, <1>10, <1>11, <1>12, <1>13 DEF TInv, Fresh

\* A clone between two entries of two tables.
LEMMA CloneBegun ==
    ASSUME TInv, NEW sd \in Disks, NEW dd \in Disks, NEW t \in Layouts, NEW s \in Entries,
           NEW e \in t.parts, Count(s) <= Count(e), NEW o \in OpType,
           /\ o.kind = "clone" /\ o.sd = sd /\ o.dd = dd /\ o.from = Base(s) /\ o.to = Base(e)
           /\ o.count = Count(s) /\ o.src = s /\ o.dst = e /\ o.done = 0 /\ o.zeroed = {}
           /\ o.exact = FALSE /\ o.ok = FALSE,
           o.new => Parts(dd) \subseteq t.parts \ {e},
           Begin(o, [disk |-> dd, tbl |-> t]), file' = file
    PROVE  TInv' /\ Fresh
<1>1. e \in Entries /\ (\A p \in t.parts : p = e \/ Clear(p, e))
  BY LayoutParts
<1>2. Base(s) \in Nat \ {0} /\ Base(e) \in Nat \ {0} /\ Count(s) \in Nat
  BY <1>1, Extent
<1>3. [disk |-> dd, tbl |-> t] \in [disk : Disks, tbl : Layouts]
  OBVIOUS
<1>4. file' = NoFile \/ file' \in Dumps \/ file' \in Images
  BY DEF TInv, VarTypes
<1>5. /\ VarTypes' /\ op' = o /\ pc' = "copy" /\ before' = disk /\ disk' = disk
      /\ mem' = [disk |-> dd, tbl |-> t]
  BY <1>3, <1>4, Begun
<1>6. Ends'
  BY <1>2, <1>5, ConstantsAssumption DEF Ends, FromDisk, ToDisk, Kinds
<1>7. Counted'
  BY <1>2, <1>5 DEF Counted, ToDisk
<1>8. Saved' = Parts(dd)
  BY <1>5, Begun DEF Saved, Parts, HasTable, Table, Begin
<1>9. EntriesOK'
  BY <1>1, <1>3, <1>5, <1>8 DEF EntriesOK, Written
<1> QED BY <1>5, <1>6, <1>7, <1>9 DEF TInv, Fresh

LEMMA CloneType ==
    ASSUME TInv, NEW sd \in Disks, NEW dd \in Disks, Clone(sd, dd)
    PROVE  TInv' /\ Fresh
<1> DEFINE o(s, e, fs) == [NoOp EXCEPT !.kind = "clone", !.sd = sd, !.dd = dd,
                              !.from = Base(s), !.to = Base(e), !.count = Count(s), !.src = s,
                              !.dst = e, !.fs = fs]
           body(t, u, s, e, fs) ==
               /\ s.unit = e.unit /\ Count(e) >= Count(s)
               /\ sd = dd => (u = t \/ t = Table(dd)) /\ (s.low # e.low \/ s.high # e.high)
               /\ Base(e) + Count(e) - 1 \in Sectors(dd)
               /\ Begin(o(s, e, fs), [disk |-> dd, tbl |-> t])
               /\ UNCHANGED file
<1>1. PICK t \in Tables(dd), u \in Tables(sd) :
        \E s \in u.parts, e \in t.parts, fs \in {{}, u.fs} : body(t, u, s, e, fs)
  BY DEF Clone
<1>2. PICK s \in u.parts, e \in t.parts, fs \in {{}, u.fs} : body(t, u, s, e, fs)
  BY <1>1
<1>3. t \in Layouts /\ u \in Layouts
  BY TablesAre
<1>4. s \in Entries /\ e \in Entries /\ fs \in SUBSET Types
  BY <1>3, LayoutParts
<1>5. Count(s) \in Nat /\ Count(e) \in Nat
  BY <1>4, Extent
<1>6. Count(s) <= Count(e) /\ Begin(o(s, e, fs), [disk |-> dd, tbl |-> t]) /\ file' = file
  BY <1>2, <1>5
<1> DEFINE w == o(s, e, fs)
<1>7. Base(s) \in Nat /\ Base(e) \in Nat
  BY <1>4, Extent
<1>8. w \in OpType
  BY <1>4, <1>5, <1>7 DEF OpType, NoOp, Kinds
<1>9. /\ w.kind = "clone" /\ w.sd = sd /\ w.dd = dd /\ w.from = Base(s) /\ w.to = Base(e)
      /\ w.count = Count(s) /\ w.src = s /\ w.dst = e /\ w.done = 0 /\ w.zeroed = {}
      /\ w.exact = FALSE /\ w.ok = FALSE /\ w.new = FALSE
  BY DEF NoOp
<1>10. Begin(w, [disk |-> dd, tbl |-> t])
  BY <1>6
<1> HIDE DEF w, o, body
<1> QED BY <1>3, <1>4, <1>6, <1>8, <1>9, <1>10, CloneBegun

\* The entry a clone makes for itself.
LEMMA MadeIs ==
    ASSUME NEW t \in Layouts, NEW s \in Entries, NEW low,
           LET span == (Count(s) + t.cyl * s.unit - 1) \div (t.cyl * s.unit)
           IN low \in Gap(t, span)
    PROVE  LET span == (Count(s) + t.cyl * s.unit - 1) \div (t.cyl * s.unit)
               e == Entry(low, low + span - 1, t.cyl, s.unit, s.type)
           IN /\ e \in Entries /\ Count(s) <= Count(e)
              /\ \A p \in t.parts : Clear(p, e)
<1> DEFINE c == t.cyl * s.unit
           span == (Count(s) + c - 1) \div c
           e == Entry(low, low + span - 1, t.cyl, s.unit, s.type)
<1>1. t.cyl \in Nat \ {0} /\ s.unit \in Nat \ {0} /\ s.type \in Types /\ t.lo \in Nat \ {0}
      /\ t.hi \in Nat
  BY LayoutParts DEF Entries
<1>2. c \in Nat \ {0}
  <2>1. c \in Nat /\ 1 * s.unit <= t.cyl * s.unit
    BY <1>1, Product
  <2> QED BY <1>1, <2>1
<1>3. Count(s) \in Nat \ {0}
  BY Extent
<1> HIDE DEF c
<1>4. span \in Nat \ {0} /\ span * c \in Nat /\ span * c >= Count(s)
  BY <1>2, <1>3, Ceiling
<1>5. low \in Gap(t, span)
  BY DEF c
<1> HIDE DEF span
<1>6. low \in Nat \ {0} /\ Fits(t, low, low + span - 1, {})
  BY <1>1, <1>5 DEF Gap
<1>7. /\ e.low = low /\ e.high = low + span - 1 /\ e.cyl = t.cyl /\ e.unit = s.unit
      /\ e.type = s.type
  BY DEF Entry
<1>8. low + span - 1 \in Nat /\ low <= low + span - 1 /\ (low + span - 1) - low + 1 = span
  BY <1>4, <1>6
<1>9. e \in Entries
  BY <1>1, <1>6, <1>8 DEF Entries, Entry
<1>10. Count(e) = span * c
  <2>1. Count(e) = (e.high - e.low + 1) * (e.cyl * e.unit)
    BY <1>9, Extent
  <2> QED BY <1>7, <1>8, <2>1 DEF c
<1>11. \A p \in t.parts : Clear(p, e)
  <2>1. \A p \in t.parts : ~(low <= p.high /\ p.low <= low + span - 1)
    BY <1>6 DEF Fits
  <2>2. \A p \in t.parts : p.low \in Nat /\ p.high \in Nat
    BY LayoutParts, Extent
  <2> QED BY <1>6, <1>7, <1>8, <2>1, <2>2 DEF Clear
<1> HIDE DEF e
<1> QED BY <1>4, <1>9, <1>10, <1>11 DEF e, span, c

LEMMA CloneNewType ==
    ASSUME TInv, NEW sd \in Disks, NEW dd \in Disks, CloneNew(sd, dd) PROVE TInv' /\ Fresh
<1> DEFINE t == Table(dd)
           span(s) == (Count(s) + t.cyl * s.unit - 1) \div (t.cyl * s.unit)
           made(s, low) == Entry(low, low + span(s) - 1, t.cyl, s.unit, s.type)
           o(s, fs, e) == [NoOp EXCEPT !.kind = "clone", !.sd = sd, !.dd = dd, !.from = Base(s),
                                       !.to = Base(e), !.count = Count(s), !.src = s, !.dst = e,
                                       !.fs = fs, !.new = TRUE]
<1> DEFINE body(s, fs, low) ==
               /\ \A x \in Gap(t, span(s)) : low <= x
               /\ Base(made(s, low)) + Count(made(s, low)) - 1 \in Sectors(dd)
               /\ Begin(o(s, fs, made(s, low)),
                        [disk |-> dd, tbl |-> [t EXCEPT !.parts = @ \cup {made(s, low)}]])
<1>1. HasTable(dd) /\ file' = file
  BY DEF CloneNew
<1>2. PICK u \in Tables(sd) : \E s \in u.parts, fs \in {{}, u.fs} :
        /\ Cardinality(t.parts) < MaxParts /\ \E low \in Gap(t, span(s)) : body(s, fs, low)
        /\ UNCHANGED file
  BY DEF CloneNew
<1>3. PICK s \in u.parts, fs \in {{}, u.fs} :
        /\ Cardinality(t.parts) < MaxParts /\ \E low \in Gap(t, span(s)) : body(s, fs, low)
        /\ UNCHANGED file
  BY <1>2
<1>4. PICK low \in Gap(t, span(s)) : body(s, fs, low)
  BY <1>3
<1>5. t \in Layouts /\ u \in Layouts
  <2>1. t \in Tables(dd)
    BY <1>1 DEF Tables
  <2> QED BY <2>1, TablesAre
<1>6. s \in Entries /\ fs \in SUBSET Types
  BY <1>5, LayoutParts
<1> DEFINE e == made(s, low)
<1>7. e \in Entries /\ Count(s) <= Count(e) /\ \A p \in t.parts : Clear(p, e)
  BY <1>5, <1>6, MadeIs
<1> DEFINE v == [t EXCEPT !.parts = @ \cup {e}]
<1>8. Begin(o(s, fs, e), [disk |-> dd, tbl |-> v])
  BY <1>4
<1> HIDE DEF e, t, span, made
<1>9. v \in Layouts /\ e \in v.parts /\ t.parts \subseteq v.parts \ {e}
  <2>1. t.parts \subseteq Entries /\ \A p, q \in t.parts : p = q \/ Clear(p, q)
    BY <1>5, LayoutParts
  <2>2. v \in [kind : {"rdb"}, parts : SUBSET Entries, lo : Nat \ {0}, hi : Nat,
               cyl : Nat \ {0}, fs : SUBSET Types] /\ v.parts = t.parts \cup {e}
    BY <1>5, <1>7, <2>1 DEF Layouts
  <2>3. \A p, q \in v.parts : p = q \/ Clear(p, q)
    BY <1>7, <2>1, <2>2 DEF Clear
  <2>4. e.low \in Nat /\ e.high \in Nat /\ e.low <= e.high
    BY <1>7, Extent
  <2>5. e \notin t.parts
    BY <1>7, <2>4 DEF Clear
  <2> QED BY <2>2, <2>3, <2>5 DEF Layouts, Clear
<1>10. Parts(dd) \subseteq v.parts \ {e}
  BY <1>1, <1>9 DEF Parts, t
<1> HIDE DEF v
<1> DEFINE w == o(s, fs, e)
<1>11. Base(s) \in Nat /\ Base(e) \in Nat /\ Count(s) \in Nat
  BY <1>6, <1>7, Extent
<1>12. w \in OpType
  BY <1>6, <1>7, <1>11 DEF OpType, NoOp, Kinds
<1>13. /\ w.kind = "clone" /\ w.sd = sd /\ w.dd = dd /\ w.from = Base(s) /\ w.to = Base(e)
       /\ w.count = Count(s) /\ w.src = s /\ w.dst = e /\ w.done = 0 /\ w.zeroed = {}
       /\ w.exact = FALSE /\ w.ok = FALSE
  BY DEF NoOp
<1>14. Begin(w, [disk |-> dd, tbl |-> v])
  BY <1>8
<1> HIDE DEF w, o
<1> QED BY <1>1, <1>6, <1>7, <1>9, <1>12, <1>13, <1>14, <1>10, CloneBegun

LEMMA ImageOutType == ASSUME TInv, NEW d \in Disks, ImageOut(d) PROVE TInv' /\ Fresh
<1> DEFINE o == [NoOp EXCEPT !.kind = "imageout", !.sd = d, !.count = Size[d]]
<1>1. /\ Begin(o, mem)
      /\ file' = [kind |-> "image", head |-> Zero, count |-> 0, blocks |-> <<>>]
  BY DEF ImageOut
<1>2. Size[d] \in Nat
  BY SectorsOf
<1>3. o \in OpType
  BY <1>2 DEF OpType, NoOp, Kinds
<1>4. /\ o.kind = "imageout" /\ o.sd = d /\ o.dd = NoFile /\ o.from = 0 /\ o.count = Size[d]
      /\ o.done = 0 /\ o.zeroed = {} /\ o.exact = FALSE /\ o.ok = FALSE
  BY DEF NoOp
<1> HIDE DEF o
<1>5. file' \in Images /\ Len(file'.blocks) = 0
  BY <1>1 DEF Images
<1>6. mem = NoMem \/ mem \in [disk : Disks, tbl : Layouts]
  BY DEF TInv, VarTypes
<1>7. VarTypes' /\ op' = o /\ pc' = "copy" /\ before' = disk /\ disk' = disk
  BY <1>1, <1>3, <1>5, <1>6, Begun
<1>8. Ends'
  BY <1>4, <1>5, <1>7, ConstantsAssumption DEF Ends, FromDisk, ToDisk, Kinds
<1>9. Counted' /\ ~PartCopy'
  BY <1>2, <1>4, <1>5, <1>7 DEF Counted, ToDisk, PartCopy
<1> QED BY <1>4, <1>7, <1>8, <1>9 DEF TInv, Fresh

LEMMA ImageInType == ASSUME TInv, NEW d \in Disks, ImageIn(d) PROVE TInv' /\ Fresh
<1> DEFINE o == [NoOp EXCEPT !.kind = "imagein", !.dd = d, !.count = Len(file.blocks)]
<1>1. file # NoFile /\ file.kind = "image" /\ Begin(o, mem) /\ file' = file
  BY DEF ImageIn
<1>2. file \in Images /\ Len(file.blocks) \in Nat
  <2>1. file \in Images
    BY <1>1 DEF TInv, VarTypes, Dumps
  <2>2. file.blocks \in Seq(Blocks \cup Layouts)
    BY <2>1 DEF Images
  <2> QED BY <2>1, <2>2
<1>3. o \in OpType
  BY <1>2 DEF OpType, NoOp, Kinds
<1>4. /\ o.kind = "imagein" /\ o.sd = NoFile /\ o.dd = d /\ o.to = 0
      /\ o.count = Len(file.blocks) /\ o.done = 0 /\ o.zeroed = {}
      /\ o.exact = FALSE /\ o.ok = FALSE
  BY DEF NoOp
<1> HIDE DEF o
<1>5. mem = NoMem \/ mem \in [disk : Disks, tbl : Layouts]
  BY DEF TInv, VarTypes
<1>6. VarTypes' /\ op' = o /\ pc' = "copy" /\ before' = disk /\ disk' = disk
  BY <1>1, <1>2, <1>3, <1>5, Begun
<1>7. Ends'
  BY <1>1, <1>2, <1>4, <1>6, ConstantsAssumption DEF Ends, FromDisk, ToDisk, Kinds
<1>8. Counted' /\ ~PartCopy'
  BY <1>2, <1>4, <1>6 DEF Counted, ToDisk, PartCopy
<1> QED BY <1>4, <1>6, <1>7, <1>8 DEF TInv, Fresh

LEMMA DiskCopyType ==
    ASSUME TInv, NEW sd \in Disks, NEW dd \in Disks, DiskCopy(sd, dd) PROVE TInv' /\ Fresh
<1> DEFINE o == [NoOp EXCEPT !.kind = "diskcopy", !.sd = sd, !.dd = dd, !.count = Size[sd]]
<1>1. sd # dd /\ Begin(o, mem) /\ file' = file
  BY DEF DiskCopy
<1>2. Size[sd] \in Nat
  BY SectorsOf
<1>3. o \in OpType
  BY <1>2 DEF OpType, NoOp, Kinds
<1>4. /\ o.kind = "diskcopy" /\ o.sd = sd /\ o.dd = dd /\ o.from = 0 /\ o.to = 0
      /\ o.count = Size[sd] /\ o.done = 0 /\ o.zeroed = {} /\ o.exact = FALSE /\ o.ok = FALSE
  BY DEF NoOp
<1> HIDE DEF o
<1>5. /\ mem = NoMem \/ mem \in [disk : Disks, tbl : Layouts]
      /\ file' = NoFile \/ file' \in Dumps \/ file' \in Images
  BY <1>1 DEF TInv, VarTypes
<1>6. VarTypes' /\ op' = o /\ pc' = "copy" /\ before' = disk /\ disk' = disk
  BY <1>1, <1>3, <1>5, Begun
<1>7. Ends'
  BY <1>1, <1>4, <1>6, ConstantsAssumption DEF Ends, FromDisk, ToDisk, Kinds
<1>8. Counted' /\ ~PartCopy'
  BY <1>2, <1>4, <1>6 DEF Counted, ToDisk, PartCopy
<1> QED BY <1>4, <1>6, <1>7, <1>8 DEF TInv, Fresh

---------------------------------------------------------------------------
(* The types: a copy goes on *)

\* What no step of a running operation changes.
Steady == /\ op'.kind = op.kind /\ op'.sd = op.sd /\ op'.dd = op.dd /\ op'.from = op.from
          /\ op'.to = op.to /\ op'.count = op.count /\ op'.src = op.src /\ op'.new = op.new
          /\ before' = before

LEMMA EndsStay ==
    ASSUME TInv, pc # "idle", Steady,
           \/ file' = file
           \/ op.kind = "dump" /\ file' \in Dumps
           \/ op.kind = "imageout" /\ file' \in Images
    PROVE  Ends'
<1>1. Ends
  BY Running
<1>2. FromDisk' = FromDisk /\ ToDisk' = ToDisk
  BY DEF Steady, FromDisk, ToDisk
<1> QED BY <1>1, <1>2 DEF Ends, Steady

LEMMA CountedStay ==
    ASSUME TInv, pc # "idle", Steady, op'.done = op.done, op'.zeroed = op.zeroed,
           pc' \in {"fix", "fill", "name", "table"} => PartCopy /\ op.done = op.count,
           pc' = "geometry" => op.kind = "diskcopy" /\ op.done = op.count,
           pc' \in {"fix", "fill"} => ~op'.exact,
           pc' # "copy"
    PROVE  Counted'
<1>1. Counted
  BY Running
<1>2. ToDisk' = ToDisk /\ PartCopy' = PartCopy
  BY DEF Steady, ToDisk, PartCopy
<1> QED BY <1>1, <1>2 DEF Counted, Steady

LEMMA EntriesStay ==
    ASSUME TInv, pc # "idle", Steady, op'.dst = op.dst, mem' = mem, pc' # "fill",
           pc' # "copy" /\ op'.done = op'.count => pc # "copy" /\ op.done = op.count
    PROVE  (PartCopy => EntriesOK)'
<1>1. PartCopy => EntriesOK
  BY Running
<1>2. PartCopy' = PartCopy /\ (PartCopy => Written' = Written)
  BY DEF Steady, PartCopy, Written
<1> QED BY <1>1, <1>2 DEF EntriesOK, Steady, Saved

LEMMA Reported ==
    ASSUME TInv, pc # "idle", NEW ok \in BOOLEAN, Report(ok), before' = before
    PROVE  /\ Steady /\ op'.done = op.done /\ op'.zeroed = op.zeroed /\ op'.dst = op.dst
           /\ op'.exact = op.exact /\ op'.ok = ok /\ op'.fs = op.fs
           /\ op' \in OpType /\ pc' = "report"
<1>1. op \in OpType /\ op' = [op EXCEPT !.ok = ok] /\ pc' = "report"
  BY Running DEF Report
<1>2. op' \in OpType
  BY <1>1 DEF OpType
<1>3. /\ op'.done = op.done /\ op'.zeroed = op.zeroed /\ op'.dst = op.dst
      /\ op'.exact = op.exact /\ op'.ok = ok /\ op'.fs = op.fs
      /\ op'.kind = op.kind /\ op'.sd = op.sd /\ op'.dd = op.dd /\ op'.from = op.from
      /\ op'.to = op.to /\ op'.count = op.count /\ op'.src = op.src /\ op'.new = op.new
  BY <1>1 DEF OpType
<1> QED BY <1>1, <1>2, <1>3 DEF Steady

\* The types once the variables that a step changes are known to have theirs.
LEMMA TypedAgain ==
    ASSUME TInv, Media(disk'), before' = before,
           file' = file \/ file' \in Dumps \/ file' \in Images,
           mem' = mem \/ mem' = NoMem \/ mem' \in [disk : Disks, tbl : Layouts],
           pc' \in Pcs, op' \in OpType, clean' \in {clean, FALSE}, ops' = ops,
           troubles' = troubles \/ Trouble
    PROVE  VarTypes'
<1>1. VarTypes /\ MaxTroubles \in Nat
  BY ConstantsAssumption DEF TInv
<1>2. troubles' \in 0 .. MaxTroubles
  BY <1>1 DEF VarTypes, Trouble
<1> QED BY <1>1, <1>2 DEF VarTypes

LEMMA ReportType ==
    ASSUME TInv, pc # "idle", NEW ok \in BOOLEAN, Report(ok), Rest, Media(disk'),
           \/ file' = file
           \/ op.kind = "dump" /\ file' \in Dumps
           \/ op.kind = "imageout" /\ file' \in Images,
           clean' \in {clean, FALSE}, troubles' = troubles \/ Trouble,
           pc # "copy" \/ op.done < op.count \/ ~PartCopy
    PROVE  TInv'
<1>1. mem' = mem /\ before' = before /\ ops' = ops
  BY DEF Rest
<1>2. /\ Steady /\ op'.done = op.done /\ op'.zeroed = op.zeroed /\ op'.dst = op.dst
      /\ op' \in OpType /\ pc' = "report"
  BY <1>1, Reported
<1>3. VarTypes'
  BY <1>1, <1>2, TypedAgain DEF Pcs
<1>4. Ends' /\ Counted'
  BY <1>2, EndsStay, CountedStay
<1>5. (PartCopy => EntriesOK)'
  <2>1. CASE PartCopy
    <3>1. op'.done = op'.count => pc # "copy" /\ op.done = op.count
      BY <1>2, <2>1, Running DEF Steady
    <3> QED BY <1>1, <1>2, <3>1, EntriesStay
  <2>2. CASE ~PartCopy
    BY <1>2, <2>2 DEF Steady, PartCopy
  <2> QED BY <2>1, <2>2
<1> QED BY <1>2, <1>3, <1>4, <1>5 DEF TInv

LEMMA Next1Is ==
    ASSUME TInv, Next1
    PROVE  /\ pc = "copy" /\ pc' = "copy" /\ op.done < op.count /\ Present /\ Room = Batch
           /\ Steady /\ Rest /\ clean' = clean
           /\ \E holes \in SUBSET (op.done .. op.done + Batch - 1) :
                /\ Beyond \subseteq holes /\ Deliver(Batch, holes)
                /\ holes = Beyond \/ (FromDisk /\ Trouble)
                /\ op'.done = op.done + Batch /\ op'.zeroed = op.zeroed \cup holes
           /\ op' \in OpType /\ op'.dst = op.dst /\ op'.exact = op.exact
           /\ troubles' = troubles \/ Trouble
<1>1. /\ pc = "copy" /\ pc' = "copy" /\ op.done < op.count /\ Present /\ Room = Batch /\ Rest
      /\ clean' = clean
  BY DEF Next1
<1>2. PICK holes \in SUBSET (op.done .. op.done + Batch - 1) :
        /\ Beyond \subseteq holes
        /\ IF holes = Beyond THEN UNCHANGED troubles ELSE FromDisk /\ Trouble
        /\ Deliver(Batch, holes)
        /\ op' = [op EXCEPT !.done = @ + Batch, !.zeroed = @ \cup holes]
  BY DEF Next1
<1>3. op \in OpType /\ op.done \in Nat /\ op.zeroed \in SUBSET Nat /\ Batch \in Nat
      /\ holes \in SUBSET Nat
  <2>1. op.done \in Nat /\ Batch \in Nat
    BY <1>1, Running, BatchIs
  <2> QED BY <1>1, <2>1, Running
<1>4. op' \in OpType
  <2> DEFINE x == op.done + Batch
             z == op.zeroed \cup holes
  <2>1. x \in Nat /\ z \in SUBSET Nat
    <3>1. x \in Nat
      BY <1>3
    <3>2. z \subseteq Nat
      BY <1>3
    <3> QED BY <3>1, <3>2
  <2>2. op' = [op EXCEPT !.done = x, !.zeroed = z]
    BY <1>2
  <2> HIDE DEF x, z
  <2> QED BY <1>3, <2>1, <2>2 DEF OpType
<1>5. /\ op'.done = op.done + Batch /\ op'.zeroed = op.zeroed \cup holes
      /\ op'.dst = op.dst /\ op'.exact = op.exact
      /\ op'.kind = op.kind /\ op'.sd = op.sd /\ op'.dd = op.dd /\ op'.from = op.from
      /\ op'.to = op.to /\ op'.count = op.count /\ op'.src = op.src /\ op'.new = op.new
  BY <1>2, <1>3 DEF OpType
<1> QED BY <1>1, <1>2, <1>4, <1>5 DEF Steady, Rest

LEMMA Next1Type == ASSUME TInv, Next1 PROVE TInv'
<1>1. /\ pc = "copy" /\ pc' = "copy" /\ op.done < op.count /\ Present /\ Room = Batch
      /\ Steady /\ Rest /\ clean' = clean
      /\ op' \in OpType /\ op'.dst = op.dst /\ op'.exact = op.exact
      /\ troubles' = troubles \/ Trouble
  BY Next1Is
<1>2. PICK holes \in SUBSET (op.done .. op.done + Batch - 1) :
        /\ Beyond \subseteq holes /\ Deliver(Batch, holes)
        /\ op'.done = op.done + Batch /\ op'.zeroed = op.zeroed \cup holes
  BY Next1Is
<1>3. /\ Batch \in 1 .. op.count - op.done /\ op.done \in Nat /\ op.count \in Nat /\ op.to \in Nat
      /\ op.zeroed \subseteq 0 .. op.done - 1 /\ Media(disk) /\ Ends /\ Counted
  BY <1>1, Running, BatchIs
<1>4. /\ ToDisk => file' = file /\ Media(disk')
      /\ ~ToDisk => /\ disk' = disk
                    /\ op.kind = "dump" => file' \in Dumps
                    /\ op.kind = "imageout" => file' \in Images
                    /\ Len(file'.blocks) = op.done + Batch
  BY <1>1, <1>2, <1>3, Delivered
<1>5. ToDisk \/ op.kind \in {"dump", "imageout"}
  BY DEF ToDisk
<1>6. mem' = mem /\ before' = before /\ ops' = ops
  BY <1>1 DEF Rest
<1>7. VarTypes'
  BY <1>1, <1>3, <1>4, <1>5, <1>6, TypedAgain DEF Pcs
<1>8. Ends'
  BY <1>1, <1>4, <1>5, EndsStay
<1>9. Counted'
  <2>1. ToDisk' = ToDisk
    BY <1>1 DEF Steady, ToDisk
  <2>2. op'.done <= op'.count /\ op'.zeroed \subseteq 0 .. op'.done - 1
    <3>1. op'.count = op.count /\ op'.done = op.done + Batch /\ op'.done <= op.count
      BY <1>1, <1>2, <1>3 DEF Steady
    <3>2. 0 .. op.done - 1 \subseteq 0 .. (op.done + Batch) - 1
          /\ op.done .. op.done + Batch - 1 \subseteq 0 .. (op.done + Batch) - 1
      BY <1>3
    <3>3. op'.zeroed \subseteq 0 .. (op.done + Batch) - 1
      BY <1>2, <1>3, <3>2
    <3> QED BY <3>1, <3>3
  <2>3. ToDisk => op.to + op.done + Batch <= Size[op.dd]
    BY <1>1, <1>3, RoomIs
  <2>4. (op.to + op.done) + Batch = op.to + (op.done + Batch)
    BY <1>3
  <2>5. ~op'.exact
    BY <1>1, <1>3 DEF Counted
  <2> QED BY <1>1, <1>2, <1>4, <2>1, <2>2, <2>3, <2>4, <2>5 DEF Counted, Steady
<1>10. (PartCopy => EntriesOK)'
  BY <1>1, <1>6, EntriesStay
<1> QED BY <1>1, <1>7, <1>8, <1>9, <1>10 DEF TInv

LEMMA ShortType == ASSUME TInv, Short PROVE TInv'
<1>1. /\ pc = "copy" /\ op.done < op.count /\ Report(FALSE) /\ disk' = disk /\ file' = file
      /\ clean' = clean /\ troubles' = troubles /\ Rest
  BY DEF Short, Calm
<1>2. Media(disk')
  BY <1>1 DEF TInv, VarTypes
<1> QED BY <1>1, <1>2, ReportType

\* What a failed batch leaves.
LEMMA FailIs ==
    ASSUME TInv, Fail
    PROVE  /\ pc = "copy" /\ op.done < op.count /\ Present /\ Report(FALSE) /\ Rest
           /\ clean' = clean /\ (troubles' = troubles \/ Trouble)
           /\ \E n \in 0 .. Batch : Deliver(n, Beyond)
<1>1. /\ pc = "copy" /\ op.done < op.count /\ Present /\ Report(FALSE) /\ Rest
      /\ clean' = clean
  BY DEF Fail
<1>2. Batch \in Nat /\ Room \in 0 .. Batch
  BY <1>1, BatchIs, RoomIs
<1>3. CASE Room = Batch /\ Trouble /\ \E n \in 0 .. Batch - 1 : Deliver(n, Beyond)
  <2>1. PICK n \in 0 .. Batch - 1 : Deliver(n, Beyond)
    BY <1>3
  <2>2. n \in 0 .. Batch
    BY <1>2
  <2> QED BY <1>1, <1>3, <2>1, <2>2
<1>4. CASE Room < Batch /\ op.kind # "imagein" /\ UNCHANGED troubles /\ Deliver(Room, Beyond)
  BY <1>1, <1>2, <1>4
<1> QED BY <1>1, <1>3, <1>4 DEF Fail

LEMMA FailType == ASSUME TInv, Fail PROVE TInv'
<1>1. /\ pc = "copy" /\ op.done < op.count /\ Present /\ Report(FALSE) /\ Rest
      /\ clean' = clean /\ (troubles' = troubles \/ Trouble)
  BY FailIs
<1>2. PICK n \in 0 .. Batch : Deliver(n, Beyond)
  BY FailIs
<1>3. /\ ToDisk => file' = file /\ Media(disk')
      /\ ~ToDisk => /\ disk' = disk
                    /\ op.kind = "dump" => file' \in Dumps
                    /\ op.kind = "imageout" => file' \in Images
  BY <1>1, <1>2, Delivered
<1>4. ToDisk \/ op.kind \in {"dump", "imageout"}
  BY DEF ToDisk
<1>5. Media(disk')
  BY <1>3 DEF TInv, VarTypes
<1> QED BY <1>1, <1>3, <1>4, <1>5, ReportType

LEMMA CancelType == ASSUME TInv, Cancel PROVE TInv'
<1>1. /\ pc = "copy" /\ Report(FALSE) /\ disk' = disk /\ file' = file /\ ~PartCopy
      /\ clean' = clean /\ troubles' = troubles /\ Rest
  BY DEF Cancel, Calm, PartCopy
<1>2. Media(disk')
  BY <1>1 DEF TInv, VarTypes
<1> QED BY <1>1, <1>2, ReportType

\* The entry that takes the place of the destination's.
LEMMA AdoptedIs ==
    ASSUME TInv, pc = "copy", PartCopy
    PROVE  /\ Adopted \in Entries /\ Adopted.low = op.dst.low /\ Adopted.type = op.src.type
           /\ op.kind = "restore" => Adopted = op.src
           /\ op.kind = "clone" => /\ Base(Adopted) = Base(op.dst) /\ Count(Adopted) = Count(op.dst)
                                   /\ Adopted.high = op.dst.high
                                   /\ Adopted.cyl = op.dst.cyl /\ Adopted.unit = op.dst.unit
<1>1. EntriesOK /\ op.src \in Entries /\ op.dst \in Entries
  BY Running DEF EntriesOK
<1>2. CASE op.kind = "restore"
  <2>1. Adopted = op.src
    BY <1>2 DEF Adopted
  <2> QED BY <1>1, <1>2, <2>1 DEF EntriesOK
<1>3. CASE op.kind = "clone"
  <2>1. Adopted = [op.dst EXCEPT !.type = op.src.type]
    BY <1>3 DEF Adopted
  <2>2. op.src.type \in Types
    BY <1>1, Extent
  <2>3. /\ Adopted \in Entries /\ Adopted.type = op.src.type /\ Adopted.low = op.dst.low
        /\ Adopted.high = op.dst.high /\ Adopted.cyl = op.dst.cyl /\ Adopted.unit = op.dst.unit
    BY <1>1, <2>1, <2>2 DEF Entries
  <2> QED BY <1>3, <2>3 DEF Base, Count
<1> QED BY <1>2, <1>3 DEF PartCopy

\* A table in which an entry took the place of the destination's.
LEMMA SwapIs ==
    ASSUME TInv, pc # "idle", PartCopy, NEW n \in Entries,
           \A p \in mem.tbl.parts \ {op.dst} : Clear(p, n),
           mem' = [mem EXCEPT !.tbl.parts = (@ \ {op.dst}) \cup {n}]
    PROVE  /\ mem' \in [disk : Disks, tbl : Layouts] /\ mem'.disk = mem.disk
           /\ mem'.tbl.parts = (mem.tbl.parts \ {op.dst}) \cup {n}
           /\ mem'.tbl = [mem.tbl EXCEPT !.parts = (@ \ {op.dst}) \cup {n}]
<1> DEFINE t == [mem.tbl EXCEPT !.parts = (@ \ {op.dst}) \cup {n}]
<1>1. mem \in [disk : Disks, tbl : Layouts]
  BY Running DEF EntriesOK
<1>2. t \in Layouts
  BY <1>1, Replaced
<1>3. t.parts = (mem.tbl.parts \ {op.dst}) \cup {n}
  BY <1>1 DEF Layouts
<1>4. mem' = [mem EXCEPT !.tbl = t]
  BY <1>1
<1> HIDE DEF t
<1>5. mem' \in [disk : Disks, tbl : Layouts] /\ mem'.disk = mem.disk /\ mem'.tbl = t
  BY <1>1, <1>2, <1>4
<1> QED BY <1>3, <1>5 DEF t

LEMMA CopiedType == ASSUME TInv, Copied PROVE TInv'
<1>1. /\ pc = "copy" /\ op.done = op.count /\ disk' = disk /\ file' = file /\ before' = before
      /\ ops' = ops /\ clean' = clean /\ troubles' = troubles
  BY DEF Copied, Calm
<1>2. Media(disk') /\ Ends /\ Counted /\ op \in OpType
  BY <1>1, Running
<1>3. CASE PartCopy
  <2>1. /\ pc' = "fix" /\ op' = [op EXCEPT !.dst = Adopted]
        /\ mem' = [mem EXCEPT !.tbl.parts = (@ \ {op.dst}) \cup {Adopted}]
    BY <1>3 DEF Copied, PartCopy
  <2>2. /\ Adopted \in Entries /\ Adopted.low = op.dst.low /\ Adopted.type = op.src.type
        /\ op.kind = "restore" => Adopted = op.src
        /\ op.kind = "clone" => /\ Base(Adopted) = Base(op.dst) /\ Count(Adopted) = Count(op.dst)
                                /\ Adopted.high = op.dst.high
    BY <1>1, <1>3, AdoptedIs
  <2>3. EntriesOK
    BY <1>1, <1>3, Running
  <2> HIDE DEF Adopted
  <2>4. op' \in OpType
    BY <1>2, <2>1, <2>2 DEF OpType
  <2>5. /\ Steady /\ op'.done = op.done /\ op'.zeroed = op.zeroed /\ op'.dst = Adopted
        /\ op'.exact = op.exact
    BY <1>1, <1>2, <2>1 DEF OpType, Steady
  <2>6. \A p \in mem.tbl.parts \ {op.dst} : Clear(p, Adopted)
    <3>1. CASE op.kind = "restore"
      BY <2>2, <2>3, <3>1 DEF EntriesOK, Written
    <3>2. CASE op.kind = "clone"
      BY <2>2, <2>3, <3>2 DEF EntriesOK, Written, Clear
    <3> QED BY <1>3, <3>1, <3>2 DEF PartCopy
  <2>7. /\ mem' \in [disk : Disks, tbl : Layouts] /\ mem'.disk = mem.disk
        /\ mem'.tbl.parts = (mem.tbl.parts \ {op.dst}) \cup {Adopted}
    BY <1>1, <1>3, <2>1, <2>2, <2>6, SwapIs
  <2>8. VarTypes'
    BY <1>1, <1>2, <2>1, <2>4, <2>7, TypedAgain DEF Pcs
  <2>9. Ends' /\ Counted'
    BY <1>1, <1>2, <1>3, <2>1, <2>5, EndsStay, CountedStay DEF Counted
  <2>10. EntriesOK'
    <3>1. Written' = Adopted /\ Base(Adopted) = op.to /\ op.count <= Count(Adopted)
      <4>1. CASE op.kind = "restore"
        <5>1. op.count = Count(op.src) /\ Count(op.src) \in Nat
          BY <2>3, Extent DEF EntriesOK
        <5> QED BY <2>2, <2>3, <2>5, <4>1, <5>1 DEF EntriesOK, Written, Steady
      <4>2. CASE op.kind = "clone"
        BY <2>2, <2>3, <2>5, <4>2 DEF EntriesOK, Written, Steady
      <4> QED BY <1>3, <4>1, <4>2 DEF PartCopy
    <3>2. \A p \in mem'.tbl.parts : p = op'.dst \/ Clear(p, Adopted)
      BY <2>5, <2>6, <2>7
    <3>3. op'.new => Saved' \subseteq mem'.tbl.parts \ {op'.dst}
      <4>1. Adopted.low \in Nat /\ Adopted.high \in Nat /\ Adopted.low <= Adopted.high
        BY <2>2, Extent
      <4>2. \A p \in mem.tbl.parts \ {op.dst} : p # Adopted
        BY <2>6, <4>1 DEF Clear
      <4>3. Saved' = Saved
        BY <2>5 DEF Steady, Saved
      <4> QED BY <2>3, <2>5, <2>7, <4>2, <4>3 DEF EntriesOK, Steady
    <3> QED BY <2>1, <2>2, <2>3, <2>5, <2>7, <3>1, <3>2, <3>3 DEF EntriesOK, Steady
  <2> QED BY <2>1, <2>8, <2>9, <2>10 DEF TInv
<1>4. CASE ~PartCopy /\ op.kind = "diskcopy"
  <2>1. pc' = "geometry" /\ op' = op /\ mem' = mem
    BY <1>4 DEF Copied, PartCopy, Go
  <2>2. Steady
    BY <1>1, <2>1 DEF Steady
  <2>3. VarTypes'
    BY <1>1, <1>2, <2>1, TypedAgain DEF Pcs
  <2>4. Ends' /\ Counted' /\ ~PartCopy'
    BY <1>1, <1>2, <1>4, <2>1, <2>2, EndsStay, CountedStay DEF PartCopy
  <2> QED BY <2>1, <2>3, <2>4 DEF TInv
<1>5. CASE ~PartCopy /\ op.kind # "diskcopy"
  <2>1. Report(TRUE) /\ Rest
    BY <1>1, <1>5 DEF Copied, PartCopy, Rest
  <2> QED BY <1>1, <1>2, <1>5, <2>1, ReportType
<1> QED BY <1>3, <1>4, <1>5

\* A root the operation meets at its destination.
LEMMA RootAt ==
    ASSUME TInv, pc # "idle", ToDisk, NEW i, IsRoot(i)
    PROVE  /\ op.to + i \in Sectors(op.dd) /\ At(i) \in Blocks
           /\ At(i).kind = "root" /\ At(i).type = op.dst.type
           /\ At(i).size \in Nat /\ At(i).at \in Nat /\ At(i).name \in 0 .. MaxName
<1>1. op.to + i \in Sectors(op.dd) /\ At(i).kind = "root" /\ At(i).type = op.dst.type
  BY DEF IsRoot
<1>2. Media(disk) /\ op.dd \in Disks
  BY Running
<1>3. At(i) \in Blocks
  BY <1>1, <1>2, OnDisk DEF At
<1> QED BY <1>1, <1>3, Rerooted

\* The destination's disk after one block, that of the root, has changed.
LEMMA RootChanged ==
    ASSUME TInv, pc # "idle", ToDisk, IsRoot(0), NEW r \in Blocks, disk' = Change(disk, 0, r)
    PROVE  /\ Media(disk') /\ \A x \in Disks \ {op.dd} : disk'[x] = disk[x]
           /\ \A y \in Sectors(op.dd) : disk'[op.dd][y] = IF y = op.to THEN r ELSE disk[op.dd][y]
<1>1. Media(disk) /\ op.dd \in Disks /\ op.to \in Nat
  BY Running
<1>2. op.to + 0 \in Sectors(op.dd) /\ op.to + 0 = op.to
  BY <1>1, RootAt
<1> QED BY <1>1, <1>2, ChangeIs

\* The steps that adapt the copy and leave the entry as it is.
LEMMA FixType ==
    ASSUME TInv, pc \in {"fix", "name", "table"}, Steady, op' \in OpType, op'.dst = op.dst,
           op'.done = op.done, op'.zeroed = op.zeroed, op'.exact = op.exact,
           file' = file, Media(disk'), mem' = mem, ops' = ops, clean' \in {clean, FALSE},
           troubles' = troubles \/ Trouble, pc' \in {"name", "table", "report"}
    PROVE  TInv'
<1>1. pc # "idle" /\ Counted
  BY Running
<1>2. PartCopy /\ op.done = op.count
  BY <1>1 DEF Counted
<1>3. VarTypes'
  BY TypedAgain DEF Pcs, Steady
<1>4. Ends' /\ Counted'
  BY <1>1, <1>2, EndsStay, CountedStay
<1>5. (PartCopy => EntriesOK)'
  <2>1. pc' # "fill" /\ pc # "copy"
    OBVIOUS
  <2> QED BY <1>1, <1>2, <2>1, EntriesStay
<1> QED BY <1>3, <1>4, <1>5 DEF TInv

LEMMA GoIs ==
    ASSUME TInv, pc # "idle", NEW s, Go(s), Rest
    PROVE  /\ Steady /\ op' \in OpType /\ op'.dst = op.dst /\ op'.done = op.done /\ op' = op
           /\ op'.zeroed = op.zeroed /\ op'.exact = op.exact /\ pc' = s
           /\ mem' = mem /\ ops' = ops
BY Running DEF Go, Rest, Steady

\* What FixSfs does.
LEMMA FixSfsIs ==
    ASSUME TInv, FixSfs
    PROVE  /\ pc = "fix" /\ op.dst.type = "sfs" /\ PartCopy /\ op.done = op.count
           /\ file' = file /\ clean' = clean /\ Rest /\ (troubles' = troubles \/ Trouble)
           /\ Media(disk') /\ \A x \in Disks \ {op.dd} : disk'[x] = disk[x]
           /\ \/ /\ IsRoot(0) /\ At(0).size >= 2 /\ Go(IF Larger THEN "fill" ELSE After)
                 /\ \A y \in Sectors(op.dd) : disk'[op.dd][y] =
                       IF y = op.to + EndRoot /\ IsRoot(EndRoot) THEN Placed(EndRoot)
                       ELSE IF y = op.to THEN Placed(0) ELSE disk[op.dd][y]
              \/ /\ Report(FALSE)
                 /\ \A y \in Sectors(op.dd) : y # op.to => disk'[op.dd][y] = disk[op.dd][y]
<1>1. /\ pc = "fix" /\ op.dst.type = "sfs" /\ file' = file /\ clean' = clean /\ Rest
      /\ pc # "idle"
  BY DEF FixSfs
<1>2. PartCopy /\ op.done = op.count
  BY <1>1, Running DEF Counted
<1>3. Media(disk) /\ op.dd \in Disks /\ op.to \in Nat /\ ToDisk
  BY <1>1, <1>2, Running
<1>4. \A i : IsRoot(i) => Placed(i) \in Blocks
  <2> SUFFICES ASSUME NEW i, IsRoot(i) PROVE Placed(i) \in Blocks
    OBVIOUS
  <2>1. At(i) \in Blocks /\ At(i).kind = "root"
    BY <1>1, <1>3, RootAt
  <2> QED BY <1>3, <2>1, Rerooted DEF Placed
<1>5. CASE /\ IsRoot(0) /\ At(0).size >= 2 /\ op.to + EndRoot \in Sectors(op.dd)
           /\ LET d == Change(disk, 0, Placed(0))
              IN disk' = IF IsRoot(EndRoot) THEN Change(d, EndRoot, Placed(EndRoot)) ELSE d
           /\ Go(IF Larger THEN "fill" ELSE After) /\ UNCHANGED troubles
  <2> DEFINE d == Change(disk, 0, Placed(0))
  <2>1. op.to + 0 \in Sectors(op.dd) /\ op.to + 0 = op.to
    BY <1>1, <1>3, <1>5, RootAt
  <2>2. /\ Media(d) /\ \A x \in Disks \ {op.dd} : d[x] = disk[x]
        /\ \A y \in Sectors(op.dd) : d[op.dd][y] = IF y = op.to THEN Placed(0) ELSE disk[op.dd][y]
    BY <1>3, <1>4, <1>5, <2>1, ChangeIs
  <2>3. disk' = IF IsRoot(EndRoot) THEN Change(d, EndRoot, Placed(EndRoot)) ELSE d
    BY <1>5
  <2> HIDE DEF d
  <2>4. CASE IsRoot(EndRoot)
    <3>1. op.to + EndRoot \in Sectors(op.dd)
      BY <1>1, <1>3, <2>4, RootAt
    <3>2. disk' = Change(d, EndRoot, Placed(EndRoot)) /\ Placed(EndRoot) \in Blocks
      BY <1>4, <2>3, <2>4
    <3>3. /\ Media(disk') /\ \A x \in Disks \ {op.dd} : disk'[x] = d[x]
          /\ \A y \in Sectors(op.dd) : disk'[op.dd][y] =
                IF y = op.to + EndRoot THEN Placed(EndRoot) ELSE d[op.dd][y]
      BY <1>3, <2>2, <3>1, <3>2, ChangeIs
    <3>4. \A y \in Sectors(op.dd) : disk'[op.dd][y] =
             IF y = op.to + EndRoot /\ IsRoot(EndRoot) THEN Placed(EndRoot)
             ELSE IF y = op.to THEN Placed(0) ELSE disk[op.dd][y]
      BY <2>2, <2>4, <3>3
    <3>5. \A x \in Disks \ {op.dd} : disk'[x] = disk[x]
      BY <2>2, <3>3
    <3> QED BY <1>1, <1>2, <1>5, <3>3, <3>4, <3>5
  <2>5. CASE ~IsRoot(EndRoot)
    BY <1>1, <1>2, <1>5, <2>2, <2>3, <2>5
  <2> QED BY <2>4, <2>5
<1>6. CASE Report(FALSE) /\ UNCHANGED <<disk, troubles>>
  BY <1>1, <1>2, <1>3, <1>6
<1>7. CASE /\ IsRoot(0) /\ (troubles' = troubles \/ Trouble) /\ Report(FALSE)
           /\ disk' \in {disk, Change(disk, 0, Placed(0))}
  <2>1. CASE disk' = disk
    BY <1>1, <1>2, <1>3, <1>7, <2>1
  <2>2. CASE disk' = Change(disk, 0, Placed(0))
    <3>1. /\ Media(disk') /\ \A x \in Disks \ {op.dd} : disk'[x] = disk[x]
          /\ \A y \in Sectors(op.dd) :
                disk'[op.dd][y] = IF y = op.to THEN Placed(0) ELSE disk[op.dd][y]
      BY <1>1, <1>3, <1>4, <1>7, <2>2, RootChanged
    <3> QED BY <1>1, <1>2, <1>7, <3>1
  <2> QED BY <1>7, <2>1, <2>2
<1> QED BY <1>5, <1>6, <1>7 DEF FixSfs

LEMMA FixSfsType == ASSUME TInv, FixSfs PROVE TInv'
<1>1. /\ pc = "fix" /\ op.dst.type = "sfs" /\ PartCopy /\ op.done = op.count
      /\ file' = file /\ clean' = clean /\ Rest /\ (troubles' = troubles \/ Trouble)
      /\ Media(disk') /\ pc # "idle"
  BY FixSfsIs
<1>2. CASE Report(FALSE)
  BY <1>1, <1>2, ReportType
<1>3. CASE /\ IsRoot(0) /\ At(0).size >= 2 /\ Go(IF Larger THEN "fill" ELSE After)
           /\ \A y \in Sectors(op.dd) : disk'[op.dd][y] =
                 IF y = op.to + EndRoot /\ IsRoot(EndRoot) THEN Placed(EndRoot)
                 ELSE IF y = op.to THEN Placed(0) ELSE disk[op.dd][y]
  <2>1. /\ Steady /\ op' \in OpType /\ op'.dst = op.dst /\ op'.done = op.done /\ op' = op
        /\ op'.zeroed = op.zeroed /\ op'.exact = op.exact
        /\ mem' = mem /\ ops' = ops /\ pc' = IF Larger THEN "fill" ELSE After
    BY <1>1, <1>3, GoIs
  <2>2. CASE ~Larger
    BY <1>1, <2>1, <2>2, FixType DEF After
  <2>3. CASE Larger
    <3>1. VarTypes'
      BY <1>1, <2>1, <2>3, TypedAgain DEF Pcs, Steady
    <3>2. Ends' /\ Counted'
      BY <1>1, <2>1, <2>3, Running, EndsStay, CountedStay DEF Counted
    <3>3. op.to + 0 \in Sectors(op.dd) /\ op.to + 0 = op.to /\ At(0) \in Blocks
          /\ At(0).kind = "root" /\ At(0).type = "sfs" /\ op.to \in Nat /\ At(0).size \in Nat
      BY <1>1, <1>3, Running, RootAt
    <3>4. EndRoot # 0 /\ op.to + EndRoot # op.to
      BY <1>3, <3>3 DEF EndRoot
    <3>5. At(0)' = Placed(0)
      BY <1>3, <2>1, <3>3, <3>4 DEF At
    <3>6. Placed(0).kind = "root" /\ Placed(0).type = "sfs" /\ Placed(0).size = At(0).size
      <4>1. At(0) \in [kind : {"root"}, type : Types, vol : Volumes, n : Nat, size : Nat,
                       at : Nat, flag : BOOLEAN, name : 0 .. MaxName]
        BY <3>3 DEF Blocks, Zero
      <4> QED BY <3>3, <4>1 DEF Placed
    <3>7. IsRoot(0)' /\ At(0)'.size >= 2
      BY <1>1, <1>3, <2>1, <3>3, <3>5, <3>6 DEF IsRoot
    <3>8. EntriesOK
      BY <1>1, Running
    <3>9. EntriesOK'
      <4>1. Written' = Written /\ Saved' = Saved
        BY <2>1 DEF Written, Saved, Steady
      <4> QED BY <1>1, <2>1, <2>3, <3>7, <3>8, <4>1 DEF EntriesOK, Larger
    <3> QED BY <2>1, <2>3, <3>1, <3>2, <3>9 DEF TInv
  <2> QED BY <2>2, <2>3
<1> QED BY <1>2, <1>3, FixSfsIs

LEMMA TrimmedIs ==
    ASSUME TInv, pc = "fill"
    PROVE  /\ Trimmed \in Entries /\ Trimmed.low = op.dst.low /\ Trimmed.high <= op.dst.high
           /\ Trimmed.cyl = op.dst.cyl /\ Trimmed.unit = op.dst.unit /\ Trimmed.type = op.dst.type
           /\ Base(Trimmed) = op.to
           /\ op.count <= Count(Trimmed) /\ Count(Trimmed) <= Count(op.dst)
<1>1. EntriesOK /\ op.kind = "clone" /\ op.dst \in Entries /\ op.count < Count(op.dst)
      /\ op.count \in Nat \ {0} /\ op.to = Base(op.dst)
  <2>1. EntriesOK /\ op.kind = "clone"
    BY Running DEF Counted, EntriesOK
  <2>2. op.src \in Entries /\ op.dst \in Entries
    BY <2>1 DEF EntriesOK
  <2>3. Count(op.src) \in Nat \ {0} /\ Count(op.dst) \in Nat
    BY <2>2, Extent
  <2> QED BY <2>1, <2>2, <2>3 DEF EntriesOK, Written
<1> DEFINE c == op.dst.cyl * op.dst.unit
           q == (op.count + c - 1) \div c
           h == Min({op.dst.high, op.dst.low + q - 1})
<1>2. c \in Nat \ {0} /\ op.dst.low \in Nat \ {0} /\ op.dst.high \in Nat
      /\ op.dst.low <= op.dst.high
  BY <1>1, Extent
<1>3. q \in Nat \ {0} /\ q * c \in Nat /\ q * c >= op.count
  BY <1>1, <1>2, Ceiling
<1>4. Trimmed = [op.dst EXCEPT !.high = h]
  <2>1. Trimmed = [op.dst EXCEPT !.high = Min({op.dst.high, op.dst.low + q - 1})]
    BY DEF Trimmed
  <2> QED BY <2>1
<1> HIDE DEF c
<1> HIDE DEF q
<1>5. h = IF op.dst.high <= op.dst.low + q - 1 THEN op.dst.high ELSE op.dst.low + q - 1
  BY <1>2, <1>3, MinOfTwo
<1> HIDE DEF h
<1>6. h \in Nat /\ op.dst.low <= h /\ h <= op.dst.high
  BY <1>2, <1>3, <1>5
<1>7. /\ Trimmed \in Entries /\ Trimmed.low = op.dst.low /\ Trimmed.high = h
      /\ Trimmed.cyl = op.dst.cyl /\ Trimmed.unit = op.dst.unit /\ Trimmed.type = op.dst.type
  BY <1>1, <1>4, <1>6 DEF Entries
<1>8. Base(Trimmed) = op.to
  BY <1>1, <1>7 DEF Base
<1>9. /\ Count(Trimmed) = (h - op.dst.low + 1) * c
      /\ Count(op.dst) = (op.dst.high - op.dst.low + 1) * c
  BY <1>1, <1>7, Extent DEF c
<1>10. Count(Trimmed) <= Count(op.dst)
  <2>1. h - op.dst.low + 1 \in Nat /\ op.dst.high - op.dst.low + 1 \in Nat
        /\ h - op.dst.low + 1 <= op.dst.high - op.dst.low + 1
    BY <1>2, <1>6
  <2> QED BY <1>2, <1>9, <2>1, Product
<1>11. op.count <= Count(Trimmed)
  <2>1. CASE op.dst.high <= op.dst.low + q - 1
    <3>1. h = op.dst.high
      BY <1>5, <2>1
    <3>2. Count(Trimmed) = Count(op.dst) /\ Count(op.dst) \in Nat
      BY <1>1, <1>9, <3>1, Extent
    <3> QED BY <1>1, <3>2
  <2>2. CASE ~(op.dst.high <= op.dst.low + q - 1)
    <3>1. h - op.dst.low + 1 = q
      BY <1>2, <1>3, <1>5, <2>2
    <3> QED BY <1>3, <1>9, <3>1
  <2> QED BY <2>1, <2>2
<1> QED BY <1>6, <1>7, <1>8, <1>10, <1>11

LEMMA NewTotalIs ==
    ASSUME NEW e \in Entries, At(0).size \in Nat \ {0}
    PROVE  /\ NewTotal(e) \in Nat /\ NewTotal(e) >= At(0).size
           /\ Count(e) > At(0).size => NewTotal(e) = Count(e)
<1>1. Count(e) \in Nat /\ e.low \in Nat /\ e.high \in Nat /\ e.low <= e.high
  BY Extent
<1> DEFINE n == e.high - e.low + 1
<1>2. n \in Nat /\ 1 <= n
  BY <1>1
<1>3. 1 * At(0).size <= n * At(0).size /\ n * At(0).size \in Nat
  BY <1>2, Product
<1>4. At(0).size * n = n * At(0).size
  BY <1>2
<1>5. NewTotal(e) = IF Count(e) > At(0).size THEN Count(e) ELSE At(0).size * n
  BY DEF NewTotal
<1> HIDE DEF n
<1> QED BY <1>1, <1>3, <1>4, <1>5

\* What FillSfs does.
LEMMA FillSfsIs ==
    ASSUME TInv, FillSfs
    PROVE  /\ pc = "fill" /\ PartCopy /\ op.kind = "clone" /\ op.done = op.count
           /\ op.dst.type = "sfs" /\ IsRoot(0) /\ At(0).size \in Nat /\ At(0).size >= 2
           /\ Steady /\ file' = file /\ clean' = clean /\ ops' = ops
           /\ troubles' = troubles \/ Trouble
           /\ op' \in OpType /\ op'.dst = Trimmed /\ op'.done = op.done /\ op'.ok = op.ok
           /\ op'.zeroed = op.zeroed /\ op'.exact = (Count(Trimmed) <= At(0).size)
           /\ mem' = [mem EXCEPT !.tbl.parts = (@ \ {op.dst}) \cup {Trimmed}]
           /\ Media(disk') /\ \A x \in Disks \ {op.dd} : disk'[x] = disk[x]
           /\ NewTotal(Trimmed) \in Nat /\ NewTotal(Trimmed) >= At(0).size
           /\ \/ /\ pc' = "name" /\ op.to + NewTotal(Trimmed) <= Size[op.dd]
                 /\ \A y \in Sectors(op.dd) : disk'[op.dd][y] =
                       IF y = op.to + EndRoot THEN Zero
                       ELSE IF y = op.to + NewTotal(Trimmed) - 1
                            THEN [At(0) EXCEPT !.n = NewTotal(Trimmed) - 1,
                                               !.size = NewTotal(Trimmed)]
                       ELSE IF y = op.to THEN [At(0) EXCEPT !.size = NewTotal(Trimmed)]
                       ELSE disk[op.dd][y]
              \/ pc' = "report" /\ disk' = disk
<1> DEFINE n == NewTotal(Trimmed)
           o == [op EXCEPT !.dst = Trimmed, !.exact = Count(Trimmed) <= At(0).size]
<1>1. /\ pc = "fill" /\ pc # "idle" /\ op.dst.type = "sfs" /\ file' = file /\ clean' = clean
      /\ ops' = ops /\ before' = before
      /\ mem' = [mem EXCEPT !.tbl.parts = (@ \ {op.dst}) \cup {Trimmed}]
  BY DEF FillSfs
<1>2. PartCopy /\ op.done = op.count /\ EntriesOK /\ ToDisk
  BY <1>1, Running DEF Counted
<1>3. op.kind = "clone" /\ IsRoot(0) /\ At(0).size >= 2
  BY <1>1, <1>2 DEF EntriesOK
<1>4. Media(disk) /\ op.dd \in Disks /\ op.to \in Nat /\ op.to > 0 /\ op \in OpType
  BY <1>1, <1>2, Running
<1>5. /\ op.to + 0 \in Sectors(op.dd) /\ At(0) \in Blocks /\ At(0).kind = "root"
      /\ At(0).size \in Nat
  BY <1>1, <1>2, <1>3, RootAt
<1>6. Trimmed \in Entries
  BY <1>1, TrimmedIs
<1>7. n \in Nat /\ n >= At(0).size
  BY <1>3, <1>5, <1>6, NewTotalIs
<1>8. (Count(Trimmed) <= At(0).size) \in BOOLEAN
  OBVIOUS
<1> HIDE DEF n
<1>9. o \in OpType
  BY <1>4, <1>6, <1>8 DEF OpType
<1>10. /\ o.dst = Trimmed /\ o.done = op.done /\ o.ok = op.ok
      /\ o.zeroed = op.zeroed /\ o.exact = (Count(Trimmed) <= At(0).size)
      /\ o.kind = op.kind /\ o.sd = op.sd /\ o.dd = op.dd /\ o.from = op.from
      /\ o.to = op.to /\ o.count = op.count /\ o.src = op.src /\ o.new = op.new
  BY <1>4 DEF OpType
<1>11. \/ /\ op.to + n <= Size[op.dd] /\ disk' = Grown(n)
          /\ pc' = "name" /\ op' = o /\ UNCHANGED troubles
       \/ /\ IF op.to + n <= Size[op.dd] THEN Trouble ELSE UNCHANGED troubles
          /\ pc' = "report" /\ op' = o /\ UNCHANGED disk
  BY DEF FillSfs, n
<1> HIDE DEF o
<1>12. op' = o /\ (troubles' = troubles \/ Trouble)
  BY <1>11
<1>13. Steady
  BY <1>1, <1>10, <1>12 DEF Steady
<1>14. CASE op.to + n <= Size[op.dd] /\ disk' = Grown(n) /\ pc' = "name"
  <2> DEFINE r == [At(0) EXCEPT !.size = n]
             s == [At(0) EXCEPT !.n = n - 1, !.size = n]
             d == Change(disk, 0, r)
             f == Change(d, n - 1, s)
  <2>1. n - 1 \in Nat
    BY <1>3, <1>5, <1>7
  <2>2. r \in Blocks /\ s \in Blocks
    BY <1>5, <1>7, <2>1, Rerooted
  <2>3. disk' = Change(f, EndRoot, Zero)
    BY <1>1, <1>14 DEF Grown
  <2> HIDE DEF r, s
  <2>4. /\ op.to + 0 = op.to /\ op.to + (n - 1) = op.to + n - 1
        /\ op.to + (n - 1) \in Sectors(op.dd) /\ op.to + EndRoot \in Sectors(op.dd)
    <3>1. Size[op.dd] \in Nat
      BY <1>4, SectorsOf
    <3> QED BY <1>3, <1>4, <1>5, <1>7, <1>14, <2>1, <3>1 DEF Sectors, EndRoot
  <2>5. /\ Media(d) /\ \A x \in Disks \ {op.dd} : d[x] = disk[x]
        /\ \A y \in Sectors(op.dd) : d[op.dd][y] = IF y = op.to THEN r ELSE disk[op.dd][y]
    <3>1. /\ Media(disk) /\ op.dd \in Disks /\ op.to + 0 \in Sectors(op.dd) /\ r \in Blocks
          /\ op.to + 0 = op.to
      BY <1>4, <1>5, <2>2, <2>4
    <3> HIDE DEF f
    <3> QED BY <3>1, ChangeIs
  <2> HIDE DEF d
  <2>6. /\ Media(f) /\ \A x \in Disks \ {op.dd} : f[x] = d[x]
        /\ \A y \in Sectors(op.dd) : f[op.dd][y] = IF y = op.to + (n - 1) THEN s ELSE d[op.dd][y]
    <3>1. /\ Media(d) /\ op.dd \in Disks /\ op.to + (n - 1) \in Sectors(op.dd) /\ s \in Blocks
          /\ f = Change(d, n - 1, s)
      BY <1>4, <2>2, <2>4, <2>5
    <3> HIDE DEF f
    <3> QED BY <3>1, ChangeIs
  <2> HIDE DEF f
  <2>7. /\ Media(disk') /\ \A x \in Disks \ {op.dd} : disk'[x] = f[x]
        /\ \A y \in Sectors(op.dd) :
              disk'[op.dd][y] = IF y = op.to + EndRoot THEN Zero ELSE f[op.dd][y]
    BY <1>4, <2>3, <2>4, <2>6, ZeroIsBlock, ChangeIs
  <2>8. \A y \in Sectors(op.dd) : disk'[op.dd][y] =
           IF y = op.to + EndRoot THEN Zero
           ELSE IF y = op.to + n - 1 THEN s ELSE IF y = op.to THEN r ELSE disk[op.dd][y]
    BY <2>4, <2>5, <2>6, <2>7
  <2>9. \A x \in Disks \ {op.dd} : disk'[x] = disk[x]
    BY <2>5, <2>6, <2>7
  <2> QED BY <1>1, <1>2, <1>3, <1>5, <1>7, <1>9, <1>10, <1>12, <1>13, <1>14, <2>7, <2>8, <2>9
          DEF n, r, s
<1>15. CASE pc' = "report" /\ UNCHANGED disk
  BY <1>1, <1>2, <1>3, <1>4, <1>5, <1>7, <1>9, <1>10, <1>12, <1>13, <1>15 DEF n
<1> QED BY <1>11, <1>14, <1>15

LEMMA FillSfsType == ASSUME TInv, FillSfs PROVE TInv'
<1>1. /\ pc = "fill" /\ pc # "idle" /\ PartCopy /\ op.kind = "clone" /\ op.done = op.count
      /\ Steady /\ file' = file /\ clean' = clean /\ ops' = ops
      /\ troubles' = troubles \/ Trouble
      /\ op' \in OpType /\ op'.dst = Trimmed /\ op'.done = op.done
      /\ op'.zeroed = op.zeroed
      /\ mem' = [mem EXCEPT !.tbl.parts = (@ \ {op.dst}) \cup {Trimmed}]
      /\ Media(disk') /\ pc' \in {"name", "report"}
  BY FillSfsIs
<1>2. /\ Trimmed \in Entries /\ Trimmed.low = op.dst.low /\ Trimmed.high <= op.dst.high
      /\ Trimmed.type = op.dst.type /\ Base(Trimmed) = op.to /\ op.count <= Count(Trimmed)
  BY <1>1, TrimmedIs
<1>3. EntriesOK /\ op.dst.low \in Nat /\ op.dst.high \in Nat /\ Trimmed.high \in Nat
      /\ Trimmed.low <= Trimmed.high
  <2>1. EntriesOK /\ op.dst \in Entries
    BY <1>1, Running DEF EntriesOK
  <2> QED BY <1>2, <2>1, Extent
<1>4. \A p \in mem.tbl.parts \ {op.dst} : Clear(p, Trimmed)
  <2>1. mem.tbl \in Layouts
    BY <1>3 DEF EntriesOK
  <2>2. \A p \in mem.tbl.parts : p.low \in Nat /\ p.high \in Nat
    BY <2>1, LayoutParts, Extent
  <2>3. \A p \in mem.tbl.parts : p = op.dst \/ Clear(p, op.dst)
    BY <1>1, <1>3 DEF EntriesOK, Written
  <2> QED BY <1>2, <1>3, <2>2, <2>3 DEF Clear
<1>5. /\ mem' \in [disk : Disks, tbl : Layouts] /\ mem'.disk = mem.disk
      /\ mem'.tbl.parts = (mem.tbl.parts \ {op.dst}) \cup {Trimmed}
  BY <1>1, <1>2, <1>4, SwapIs
<1> HIDE DEF Trimmed
<1>6. VarTypes'
  BY <1>1, <1>5, TypedAgain DEF Pcs, Steady
<1>7. Ends' /\ Counted'
  BY <1>1, EndsStay, CountedStay
<1>8. EntriesOK'
  <2>1. Written' = Trimmed
    BY <1>1 DEF Written, Steady
  <2>2. \A p \in mem'.tbl.parts : p = op'.dst \/ Clear(p, Trimmed)
    BY <1>1, <1>4, <1>5
  <2>3. op'.new => Saved' \subseteq mem'.tbl.parts \ {op'.dst}
    <3>1. \A p \in mem.tbl.parts \ {op.dst} : p # Trimmed
      BY <1>2, <1>3, <1>4 DEF Clear
    <3>2. Saved' = Saved
      BY <1>1 DEF Steady, Saved
    <3> QED BY <1>1, <1>3, <1>5, <3>1, <3>2 DEF EntriesOK, Steady
  <2>4. op.dst.type = op.src.type
    BY <1>1, <1>3 DEF EntriesOK
  <2> QED BY <1>1, <1>2, <1>3, <1>5, <2>1, <2>2, <2>3, <2>4 DEF EntriesOK, Steady
<1> QED BY <1>1, <1>6, <1>7, <1>8 DEF TInv

\* The steps that change no more than the root, and the entry not at all.
LEMMA RootStep ==
    ASSUME TInv, pc \in {"fix", "name"}, Rest, file' = file, clean' \in {clean, FALSE},
           troubles' = troubles \/ Trouble,
           \/ (\E s \in {"name", "table"} : Go(s)) \/ Report(FALSE),
           disk' = disk \/ (IsRoot(0) /\ \E r \in Blocks : disk' = Change(disk, 0, r))
    PROVE  /\ TInv' /\ Steady /\ op'.dst = op.dst /\ op'.zeroed = op.zeroed
           /\ op'.done = op.done /\ op'.exact = op.exact /\ mem' = mem
           /\ \A x \in Disks \ {op.dd} : disk'[x] = disk[x]
           /\ \A y \in Sectors(op.dd) \ {op.to} : disk'[op.dd][y] = disk[op.dd][y]
<1>1. pc # "idle" /\ PartCopy /\ ToDisk /\ Media(disk) /\ op.dd \in Disks
  BY Running DEF Counted
<1>2. /\ Media(disk') /\ \A x \in Disks \ {op.dd} : disk'[x] = disk[x]
      /\ \A y \in Sectors(op.dd) \ {op.to} : disk'[op.dd][y] = disk[op.dd][y]
  <2>1. CASE disk' = disk
    BY <1>1, <2>1
  <2>2. CASE IsRoot(0) /\ \E r \in Blocks : disk' = Change(disk, 0, r)
    BY <1>1, <2>2, RootChanged
  <2> QED BY <2>1, <2>2
<1>3. mem' = mem /\ before' = before /\ ops' = ops
  BY DEF Rest
<1>4. CASE \E s \in {"name", "table"} : Go(s)
  <2>1. /\ Steady /\ op' \in OpType /\ op'.dst = op.dst /\ op'.done = op.done
        /\ op'.zeroed = op.zeroed /\ op'.exact = op.exact /\ pc' \in {"name", "table"}
    BY <1>1, <1>4, GoIs
  <2> QED BY <1>2, <1>3, <2>1, FixType
<1>5. CASE Report(FALSE)
  <2>1. /\ Steady /\ op'.done = op.done /\ op'.zeroed = op.zeroed /\ op'.dst = op.dst
        /\ op'.exact = op.exact
    BY <1>1, <1>3, <1>5, Reported
  <2> QED BY <1>1, <1>2, <1>3, <1>5, <2>1, ReportType
<1> QED BY <1>4, <1>5

\* What FixFfs does.
LEMMA FixFfsIs ==
    ASSUME TInv, FixFfs
    PROVE  /\ pc = "fix" /\ op.dst.type = "ffs" /\ Rest /\ file' = file /\ clean' = clean
           /\ troubles' = troubles \/ Trouble
           /\ \/ ~Larger /\ Go(After) /\ disk' = disk
              \/ /\ Larger /\ IsRoot(0) /\ Go("name")
                 /\ disk' = Change(disk, 0, [At(0) EXCEPT !.size = Count(op.dst), !.flag = TRUE])
              \/ Larger /\ Report(FALSE) /\ disk' = disk
BY DEF FixFfs, Grown

LEMMA FixFfsType ==
    ASSUME TInv, FixFfs
    PROVE  /\ TInv' /\ Steady /\ op'.dst = op.dst /\ op'.zeroed = op.zeroed
           /\ op'.done = op.done /\ op'.exact = op.exact /\ mem' = mem
           /\ \A x \in Disks \ {op.dd} : disk'[x] = disk[x]
           /\ \A y \in Sectors(op.dd) \ {op.to} : disk'[op.dd][y] = disk[op.dd][y]
<1>1. /\ pc = "fix" /\ pc # "idle" /\ Rest /\ file' = file /\ clean' = clean
      /\ troubles' = troubles \/ Trouble
      /\ (\E s \in {"name", "table"} : Go(s)) \/ Report(FALSE)
  BY FixFfsIs DEF After
<1>2. Count(op.dst) \in Nat /\ ToDisk
  BY <1>1, Running, Extent DEF Counted, EntriesOK
<1>3. IsRoot(0) => [At(0) EXCEPT !.size = Count(op.dst), !.flag = TRUE] \in Blocks
  BY <1>1, <1>2, RootAt, Rerooted
<1>4. disk' = disk \/ (IsRoot(0) /\ \E r \in Blocks : disk' = Change(disk, 0, r))
  BY <1>3, FixFfsIs
<1> QED BY <1>1, <1>4, RootStep

\* What FixPfs does.
LEMMA FixPfsIs ==
    ASSUME TInv, FixPfs
    PROVE  /\ pc = "fix" /\ op.dst.type = "pfs" /\ Rest /\ file' = file /\ Go(After)
           /\ troubles' = troubles \/ Trouble
           /\ \/ /\ op.kind = "clone" /\ IsRoot(0) /\ clean' = clean
                 /\ disk' = Change(disk, 0, [At(0) EXCEPT !.flag = FALSE])
              \/ op.kind = "clone" /\ IsRoot(0) /\ clean' = FALSE /\ disk' = disk
              \/ (op.kind # "clone" \/ ~IsRoot(0)) /\ clean' = clean /\ disk' = disk
BY DEF FixPfs, Calm

LEMMA FixPfsType ==
    ASSUME TInv, FixPfs
    PROVE  /\ TInv' /\ Steady /\ op'.dst = op.dst /\ op'.zeroed = op.zeroed
           /\ op'.done = op.done /\ op'.exact = op.exact /\ mem' = mem
           /\ \A x \in Disks \ {op.dd} : disk'[x] = disk[x]
           /\ \A y \in Sectors(op.dd) \ {op.to} : disk'[op.dd][y] = disk[op.dd][y]
<1>1. /\ pc = "fix" /\ pc # "idle" /\ Rest /\ file' = file /\ clean' \in {clean, FALSE}
      /\ troubles' = troubles \/ Trouble
      /\ \E s \in {"name", "table"} : Go(s)
  BY FixPfsIs DEF After
<1>2. ToDisk
  BY <1>1, Running DEF Counted
<1>3. IsRoot(0) => [At(0) EXCEPT !.flag = FALSE] \in Blocks
  BY <1>1, <1>2, RootAt, Rerooted
<1>4. disk' = disk \/ (IsRoot(0) /\ \E r \in Blocks : disk' = Change(disk, 0, r))
  BY <1>3, FixPfsIs
<1> QED BY <1>1, <1>4, RootStep

\* What Rename does.
LEMMA RenameIs ==
    ASSUME TInv, Rename
    PROVE  /\ pc = "name" /\ Rest /\ file' = file /\ Go("table")
           /\ troubles' = troubles \/ Trouble
           /\ \/ /\ IsRoot(0) /\ Findable /\ clean' = clean
                 /\ disk' = Change(disk, 0, [At(0) EXCEPT !.name = Min({@ + 1, MaxName})])
              \/ IsRoot(0) /\ Findable /\ clean' = FALSE /\ disk' = disk
              \/ ~(IsRoot(0) /\ Findable) /\ clean' = clean /\ disk' = disk
BY DEF Rename, Calm

LEMMA RenameType ==
    ASSUME TInv, Rename
    PROVE  /\ TInv' /\ Steady /\ op'.dst = op.dst /\ op'.zeroed = op.zeroed
           /\ op'.done = op.done /\ op'.exact = op.exact /\ mem' = mem
           /\ \A x \in Disks \ {op.dd} : disk'[x] = disk[x]
           /\ \A y \in Sectors(op.dd) \ {op.to} : disk'[op.dd][y] = disk[op.dd][y]
<1>1. /\ pc = "name" /\ pc # "idle" /\ Rest /\ file' = file /\ clean' \in {clean, FALSE}
      /\ troubles' = troubles \/ Trouble
      /\ \E s \in {"name", "table"} : Go(s)
  BY RenameIs
<1>2. ToDisk
  BY <1>1, Running DEF Counted
<1>3. IsRoot(0) => [At(0) EXCEPT !.name = Min({@ + 1, MaxName})] \in Blocks
  BY <1>1, <1>2, RootAt, Rerooted
<1>4. disk' = disk \/ (IsRoot(0) /\ \E r \in Blocks : disk' = Change(disk, 0, r))
  BY <1>3, RenameIs
<1> QED BY <1>1, <1>4, RootStep

\* What TableWrite does.
LEMMA TableWriteIs ==
    ASSUME TInv, TableWrite
    PROVE  /\ pc = "table" /\ PartCopy /\ op.done = op.count
           /\ Steady /\ file' = file /\ clean' = clean /\ ops' = ops
           /\ mem' \in [disk : Disks, tbl : Layouts] /\ mem'.disk = mem.disk
           /\ mem'.tbl.parts = mem.tbl.parts
           /\ op' \in OpType /\ op'.dst = op.dst /\ op'.done = op.done
           /\ op'.zeroed = op.zeroed /\ op'.exact = op.exact /\ pc' = "report"
           /\ Media(disk') /\ \A x \in Disks \ {op.dd} : disk'[x] = disk[x]
           /\ \A y \in Sectors(op.dd) \ {0} : disk'[op.dd][y] = disk[op.dd][y]
           /\ \/ disk'[op.dd][0] = mem'.tbl /\ op'.ok = TRUE /\ troubles' = troubles
              \/ /\ op'.ok = FALSE /\ (troubles' = troubles \/ Trouble)
                 /\ disk'[op.dd][0] = disk[op.dd][0] \/ (disk'[op.dd][0] = mem'.tbl /\ Trouble)
<1> DEFINE t == [mem.tbl EXCEPT !.fs = Drivers]
<1>1. /\ pc = "table" /\ pc # "idle" /\ file' = file /\ clean' = clean /\ ops' = ops
      /\ before' = before /\ mem' = [mem EXCEPT !.tbl = t]
  BY DEF TableWrite
<1>2. PartCopy /\ op.done = op.count /\ EntriesOK /\ ToDisk /\ Media(disk) /\ op.dd \in Disks
  BY <1>1, Running DEF Counted
<1>3. mem \in [disk : Disks, tbl : Layouts] /\ op.src \in Entries
  BY <1>2 DEF EntriesOK
<1>4. Drivers \in SUBSET Types
  <2>1. mem.tbl.fs \in SUBSET Types /\ op.src.type \in Types
    BY <1>3, LayoutParts, Extent
  <2> QED BY <2>1 DEF Drivers
<1>5. t \in Layouts /\ t.parts = mem.tbl.parts
  <2> HIDE DEF Drivers
  <2>1. t.parts = mem.tbl.parts
    BY <1>3 DEF Layouts
  <2>2. t \in [kind : {"rdb"}, parts : SUBSET Entries, lo : Nat \ {0}, hi : Nat,
               cyl : Nat \ {0}, fs : SUBSET Types]
    BY <1>3, <1>4 DEF Layouts
  <2>3. \A p, q \in mem.tbl.parts : p = q \/ p.high < q.low \/ q.high < p.low
    BY <1>3 DEF Layouts
  <2> QED BY <2>1, <2>2, <2>3 DEF Layouts
<1>6. \/ Accepted(t) /\ disk' = [disk EXCEPT ![op.dd][0] = t] /\ Report(TRUE) /\ UNCHANGED troubles
      \/ ~Accepted(t) /\ Report(FALSE) /\ UNCHANGED <<disk, troubles>>
      \/ /\ Accepted(t) /\ Trouble /\ Report(FALSE)
         /\ disk' \in {disk, [disk EXCEPT ![op.dd][0] = t]}
  BY DEF TableWrite
<1> HIDE DEF t
<1>7. mem' \in [disk : Disks, tbl : Layouts] /\ mem'.disk = mem.disk /\ mem'.tbl = t
  BY <1>1, <1>3, <1>5
<1>8. 0 \in Sectors(op.dd)
  BY <1>2, SectorsOf
<1> DEFINE E == [disk EXCEPT ![op.dd][0] = t]
<1>9. /\ Media(E) /\ \A x \in Disks \ {op.dd} : E[x] = disk[x]
      /\ \A y \in Sectors(op.dd) : E[op.dd][y] = IF y = 0 THEN t ELSE disk[op.dd][y]
  BY <1>2, <1>5, <1>8, Poke
<1> HIDE DEF E
<1>10. CASE disk' = E /\ Report(TRUE) /\ UNCHANGED troubles
  <2>1. /\ Steady /\ op'.done = op.done /\ op'.zeroed = op.zeroed /\ op'.dst = op.dst
        /\ op'.exact = op.exact /\ op'.ok = TRUE /\ op' \in OpType /\ pc' = "report"
    BY <1>1, <1>10, Reported
  <2> QED BY <1>1, <1>2, <1>5, <1>7, <1>8, <1>9, <1>10, <2>1
<1>11. ASSUME Report(FALSE)
       PROVE  /\ Steady /\ op'.done = op.done /\ op'.zeroed = op.zeroed /\ op'.dst = op.dst
              /\ op'.exact = op.exact /\ op'.ok = FALSE /\ op' \in OpType /\ pc' = "report"
  BY <1>1, <1>11, Reported
<1>12. CASE Report(FALSE) /\ UNCHANGED <<disk, troubles>>
  BY <1>1, <1>2, <1>5, <1>7, <1>11, <1>12
<1>13. CASE Trouble /\ Report(FALSE) /\ disk' \in {disk, E}
  BY <1>1, <1>2, <1>5, <1>7, <1>8, <1>9, <1>11, <1>13
<1> QED BY <1>6, <1>10, <1>12, <1>13 DEF E

LEMMA TableWriteType == ASSUME TInv, TableWrite PROVE TInv'
<1>1. /\ pc = "table" /\ pc # "idle" /\ PartCopy /\ op.done = op.count
      /\ Steady /\ file' = file /\ clean' = clean /\ ops' = ops
      /\ mem' \in [disk : Disks, tbl : Layouts] /\ mem'.disk = mem.disk
      /\ mem'.tbl.parts = mem.tbl.parts
      /\ op' \in OpType /\ op'.dst = op.dst /\ op'.done = op.done
      /\ op'.zeroed = op.zeroed /\ op'.exact = op.exact /\ pc' = "report" /\ Media(disk')
      /\ troubles' = troubles \/ Trouble
  BY TableWriteIs
<1>2. VarTypes'
  BY <1>1, TypedAgain DEF Pcs, Steady
<1>3. Ends' /\ Counted'
  BY <1>1, EndsStay, CountedStay
<1>4. EntriesOK'
  <2>1. EntriesOK
    BY <1>1, Running
  <2>2. Written' = Written /\ Saved' = Saved
    BY <1>1 DEF Written, Saved, Steady
  <2> QED BY <1>1, <2>1, <2>2 DEF EntriesOK, Steady
<1> QED BY <1>1, <1>2, <1>3, <1>4 DEF TInv

\* What Geometry does.
LEMMA GeometryIs ==
    ASSUME TInv, Geometry
    PROVE  /\ pc = "geometry" /\ ~PartCopy /\ op.kind = "diskcopy" /\ op.done = op.count
           /\ Rest /\ Report(TRUE) /\ file' = file /\ clean' = clean /\ troubles' = troubles
           /\ Media(disk') /\ \A x \in Disks \ {op.dd} : disk'[x] = disk[x]
           /\ \A y \in Sectors(op.dd) \ {0} : disk'[op.dd][y] = disk[op.dd][y]
<1>1. /\ pc = "geometry" /\ pc # "idle" /\ Rest /\ Report(TRUE) /\ file' = file
      /\ clean' = clean /\ troubles' = troubles
  BY DEF Geometry, Calm, Report
<1>2. op.kind = "diskcopy" /\ op.done = op.count /\ ~PartCopy /\ ToDisk
  BY <1>1, Running DEF Counted, PartCopy, ToDisk
<1>3. Media(disk) /\ op.dd \in Disks /\ 0 \in Sectors(op.dd) /\ Size[op.dd] \in Nat
  BY <1>1, <1>2, Running, SectorsOf
<1> DEFINE cyls == Size[op.dd] \div Table(op.dd).cyl
           t == [Table(op.dd) EXCEPT !.hi = cyls - 1]
<1>4. CASE HasTable(op.dd) /\ cyls > Table(op.dd).hi + 1 /\ disk' = [disk EXCEPT ![op.dd][0] = t]
  <2>1. Table(op.dd) \in Layouts
    BY <1>3, <1>4, OnDisk DEF Table, HasTable
  <2>2. Table(op.dd).cyl \in Nat \ {0} /\ Table(op.dd).hi \in Nat
    BY <2>1, LayoutParts
  <2>3. cyls \in Int
    BY <1>3, <2>2
  <2> HIDE DEF cyls
  <2>4. cyls - 1 \in Nat
    BY <1>4, <2>2, <2>3
  <2>5. t \in Layouts
    BY <2>1, <2>4 DEF Layouts
  <2> HIDE DEF t
  <2>6. /\ Media(disk') /\ \A x \in Disks \ {op.dd} : disk'[x] = disk[x]
        /\ \A y \in Sectors(op.dd) : disk'[op.dd][y] = IF y = 0 THEN t ELSE disk[op.dd][y]
    <3> DEFINE E == [disk EXCEPT ![op.dd][0] = t]
    <3>1. /\ Media(E) /\ \A x \in Disks \ {op.dd} : E[x] = disk[x]
          /\ \A y \in Sectors(op.dd) : E[op.dd][y] = IF y = 0 THEN t ELSE disk[op.dd][y]
      BY <1>3, <2>5, Poke
    <3>2. disk' = E
      BY <1>4
    <3> HIDE DEF E
    <3> QED BY <3>1, <3>2
  <2> QED BY <1>1, <1>2, <2>6
<1>5. CASE UNCHANGED disk
  BY <1>1, <1>2, <1>3, <1>5
<1> QED BY <1>4, <1>5 DEF Geometry

LEMMA GeometryType == ASSUME TInv, Geometry PROVE TInv'
<1>1. /\ pc = "geometry" /\ pc # "idle" /\ Rest /\ Report(TRUE) /\ file' = file
      /\ clean' = clean /\ troubles' = troubles /\ Media(disk')
  BY GeometryIs
<1> QED BY <1>1, ReportType

LEMMA IdleType ==
    ASSUME TInv, pc' = "idle", op' = NoOp, mem' = NoMem \/ mem' = mem, disk' = disk,
           file' = file, before' = before, clean' = clean, ops' = ops,
           troubles' = troubles \/ Trouble
    PROVE  TInv'
<1>1. Media(disk')
  BY DEF TInv, VarTypes
<1>2. VarTypes'
  BY <1>1, NoOpType, TypedAgain DEF Pcs
<1> QED BY <1>2 DEF TInv

\* The steps of a copy.
Onward == Advance \/ Fail \/ Cancel \/ Crash

LEMMA TypeStep ==
    ASSUME TInv, [Next]_vars
    PROVE  TInv' /\ (Fresh \/ Onward \/ UNCHANGED vars)
<1>1. CASE UNCHANGED vars
  <2>1. /\ disk' = disk /\ file' = file /\ mem' = mem /\ pc' = pc /\ op' = op
        /\ before' = before /\ clean' = clean /\ ops' = ops /\ troubles' = troubles
    BY <1>1 DEF vars
  <2>2. VarTypes' = VarTypes /\ Ends' = Ends /\ Counted' = Counted
    BY <2>1 DEF VarTypes, Ends, Counted, FromDisk, ToDisk, PartCopy
  <2>3. (PartCopy => EntriesOK)' = (PartCopy => EntriesOK)
    BY <2>1 DEF PartCopy, EntriesOK, Written, Saved, IsRoot, At
  <2> QED BY <1>1, <2>1, <2>2, <2>3 DEF TInv
<1>2. ASSUME NEW d \in Disks, Dump(d) \/ Restore(d) \/ ImageOut(d) \/ ImageIn(d)
      PROVE  TInv' /\ Fresh
  BY <1>2, DumpType, RestoreType, ImageOutType, ImageInType
<1>3. ASSUME NEW s \in Disks, NEW d \in Disks, Clone(s, d) \/ CloneNew(s, d) \/ DiskCopy(s, d)
      PROVE  TInv' /\ Fresh
  BY <1>3, CloneType, CloneNewType, DiskCopyType
<1>4. CASE Next1 \/ Short \/ Copied \/ FixSfs \/ FillSfs \/ FixFfs \/ FixPfs \/ Rename
           \/ TableWrite \/ Geometry
  BY <1>4, Next1Type, ShortType, CopiedType, FixSfsType, FillSfsType, FixFfsType, FixPfsType,
     RenameType, TableWriteType, GeometryType DEF Onward, Advance
<1>5. CASE Close
  <2>1. mem' \in {NoMem, mem}
    BY <1>5 DEF Close
  <2> QED BY <1>5, <2>1, IdleType DEF Close, Onward, Advance
<1>6. CASE Fail \/ Cancel
  BY <1>6, FailType, CancelType DEF Onward
<1>7. CASE Crash
  BY <1>7, IdleType DEF Crash, Onward
<1> QED BY <1>1, <1>2, <1>3, <1>4, <1>5, <1>6, <1>7 DEF Next, Advance

---------------------------------------------------------------------------
(* The neighbours *)

\* Every other entry is clear of the one that is written: of the table the copy goes by, and
\* of the table on the disk where the two are in step.
LEMMA OthersClear ==
    ASSUME TInv, pc # "idle", PartCopy
    PROVE  \A p \in Others : p \in Entries /\ Clear(p, Written)
<1> DEFINE W == Written
<1>1. /\ EntriesOK /\ mem.tbl \in Layouts /\ op.dst \in mem.tbl.parts /\ W \in Entries
      /\ \A p \in mem.tbl.parts : p = op.dst \/ Clear(p, W)
      /\ op.new => Saved \subseteq mem.tbl.parts
  BY Running DEF EntriesOK, Written
<1>2. W.low = op.dst.low
  BY <1>1 DEF EntriesOK, Written, PartCopy
<1>3. W.low \in Nat /\ W.high \in Nat /\ W.low <= W.high
  BY <1>1, Extent
<1>4. /\ Saved \subseteq Entries
      /\ \A p, q \in Saved : p = q \/ Clear(p, q)
  <2>1. CASE before[op.dd][0].kind = "rdb"
    <3>1. Media(before) /\ op.dd \in Disks /\ 0 \in Sectors(op.dd)
      BY Running, SectorsOf
    <3>2. before[op.dd][0] \in Layouts /\ Saved = before[op.dd][0].parts
      BY <2>1, <3>1, OnDisk DEF Saved
    <3> QED BY <3>2, LayoutParts
  <2>2. CASE before[op.dd][0].kind # "rdb"
    BY <2>2 DEF Saved
  <2> QED BY <2>1, <2>2
<1> HIDE DEF W
<1>5. ASSUME NEW p \in mem.tbl.parts, p.low # op.dst.low
      PROVE  p \in Entries /\ Clear(p, W)
  BY <1>1, <1>5, LayoutParts
<1>6. ASSUME NEW p \in Saved, p.low # op.dst.low, InStep
      PROVE  p \in Entries /\ Clear(p, W)
  <2>1. CASE op.new
    BY <1>1, <1>5, <1>6, <2>1
  <2>2. CASE ~op.new
    <3>1. Lows(mem.tbl.parts) = Lows(Saved)
      BY <1>6, <2>2 DEF InStep
    <3>2. p \in Entries /\ p.low \in Nat /\ p.high \in Nat /\ p.low <= p.high
      BY <1>4, Extent
    <3>3. CASE p.low < W.low
      <4>1. op.dst.low \in Lows(Saved)
        BY <1>1, <3>1 DEF Lows
      <4>2. PICK q \in Saved : q.low = op.dst.low
        BY <4>1 DEF Lows
      <4>3. Clear(p, q)
        BY <1>4, <1>6, <4>2
      <4>4. q.low \in Nat /\ q.high \in Nat /\ q.low <= q.high
        BY <1>4, Extent
      <4> QED BY <1>2, <1>3, <3>2, <3>3, <4>2, <4>3, <4>4 DEF Clear
    <3>4. CASE p.low > W.low
      <4>1. p.low \in Lows(mem.tbl.parts)
        BY <3>1 DEF Lows
      <4>2. PICK r \in mem.tbl.parts : r.low = p.low
        BY <4>1 DEF Lows
      <4>3. Clear(r, W)
        BY <1>5, <1>6, <4>2
      <4>4. r.high \in Nat /\ r.low <= r.high
        BY <1>1, LayoutParts, Extent
      <4> QED BY <1>3, <3>2, <3>4, <4>2, <4>3, <4>4 DEF Clear
    <3> QED BY <1>2, <1>3, <1>6, <3>2, <3>3, <3>4
  <2> QED BY <2>1, <2>2
<1> QED BY <1>5, <1>6 DEF Others, W

\* Blocks that are within an entry.
LEMMA Within ==
    ASSUME NEW w \in Entries, NEW n \in Int, n <= Count(w), NEW b \in Nat,
           b - Base(w) \in 0 .. n - 1
    PROVE  b \in Place(w) /\ b # 0
<1>1. Base(w) \in Nat \ {0} /\ Count(w) \in Nat
  BY Extent
<1> QED BY <1>1 DEF Place

LEMMA Copyable ==
    ASSUME TInv, pc # "idle", PartCopy
    PROVE  /\ Written \in Entries /\ op.to = Base(Written) /\ op.count <= Count(Written)
           /\ op.count \in Nat \ {0} /\ op.to \in Nat \ {0}
           /\ \A b \in Sectors(op.dd) :
                 b - op.to \in 0 .. op.count - 1 => b \in Place(Written) /\ b # 0
           /\ op.to \in Place(Written)
<1>1. EntriesOK /\ op.src \in Entries /\ op.dst \in Entries /\ op.dd \in Disks
  BY Running DEF EntriesOK
<1>2. Count(op.src) \in Nat \ {0} /\ op.count = Count(op.src)
  BY <1>1, Extent DEF EntriesOK
<1>3. Written \in Entries /\ op.to = Base(Written) /\ op.count <= Count(Written)
  BY <1>1, <1>2 DEF EntriesOK, Written, PartCopy
<1>4. Base(Written) \in Nat \ {0} /\ Count(Written) \in Nat \ {0}
  BY <1>3, Extent
<1>5. \A b \in Sectors(op.dd) : b \in Nat
  BY <1>1, SectorsOf
<1>6. op.to \in Place(Written)
  BY <1>3, <1>4 DEF Place
<1> QED BY <1>2, <1>3, <1>4, <1>5, <1>6, Within

\* What does not change with a step that leaves the operation and the file as they are.
LEMMA SourceStays ==
    ASSUME Steady, file' = file
    PROVE  /\ \A i : SourceBlock(i)' = SourceBlock(i)
           /\ ToDisk' = ToDisk /\ FromDisk' = FromDisk /\ PartCopy' = PartCopy
           /\ OnItself' = OnItself
           /\ op'.done = op.done => Outsized' = Outsized
<1>1. \A i : SourceBlock(i)' = SourceBlock(i)
  BY DEF Steady, SourceBlock, FromDisk
<1>2. ToDisk' = ToDisk /\ FromDisk' = FromDisk /\ PartCopy' = PartCopy /\ OnItself' = OnItself
  BY DEF Steady, ToDisk, FromDisk, PartCopy, OnItself
<1>3. op'.done = op.done => Outsized' = Outsized
  BY <1>1 DEF Outsized, Steady
<1> QED BY <1>1, <1>2, <1>3

\* A step that writes nothing outside the blocks of the copy.
LEMMA AroundCopy ==
    ASSUME TInv', pc' # "idle", PartCopy',
           \A b \in Sectors(op'.dd) : b - op'.to \notin 0 .. op'.count - 1 =>
               disk'[op'.dd][b] = before'[op'.dd][b]
    PROVE  Around'
<1>1. \A b \in Sectors(op'.dd) \ (Place(Written') \cup {0}) : b - op'.to \notin 0 .. op'.count - 1
  <2>1. EntriesOK' /\ op'.src \in Entries /\ op'.dst \in Entries /\ op'.dd \in Disks
    BY DEF TInv, EntriesOK, Ends, PartCopy, ToDisk
  <2>2. Count(op'.src) \in Nat /\ op'.count = Count(op'.src)
    BY <2>1, Extent DEF EntriesOK
  <2>3. Written' \in Entries /\ op'.to = Base(Written') /\ op'.count <= Count(Written')
    BY <2>1, <2>2 DEF EntriesOK, Written, PartCopy
  <2>4. \A b \in Sectors(op'.dd) : b \in Nat
    BY <2>1, SectorsOf
  <2>5. op'.count \in Int
    BY <2>2
  <2> QED BY <2>3, <2>4, <2>5, Within
<1> QED BY <1>1 DEF Around

LEMMA KBegin ==
    ASSUME TInv', Fresh
    PROVE  KInv'
<1>1. pc' = "copy" /\ op'.done = 0 /\ before' = disk /\ disk' = disk
  BY DEF Fresh
<1>2. SourceKept' /\ Ahead'
  BY <1>1 DEF SourceKept, Ahead
<1>3. ASSUME PartCopy' PROVE Around' /\ Begins' /\ TableKept'
  <2>1. Around'
    BY <1>1, <1>3, AroundCopy
  <2>2. Begins'
    BY <1>1 DEF Begins
  <2>3. EntriesOK'
    BY <1>1, <1>3 DEF TInv
  <2>4. TableKept'
    BY <1>1, <2>3 DEF TableKept, EntryFollowsCopy, EntriesOK
  <2> QED BY <2>1, <2>2, <2>4
<1> QED BY <1>2, <1>3 DEF KInv

LEMMA TableSame ==
    ASSUME TInv', pc' # "idle", PartCopy', disk'[op'.dd][0] = before'[op'.dd][0]
    PROVE  TableKept'
<1>1. EntriesOK'
  BY DEF TInv
<1> QED BY <1>1 DEF TableKept, EntryFollowsCopy, EntriesOK

LEMMA SourceStaysKept ==
    ASSUME TInv, pc # "idle", SourceKept, Steady, ToDisk,
           \A x \in Disks \ {op.dd} : disk'[x] = disk[x]
    PROVE  SourceKept'
<1>1. ToDisk' = ToDisk
  BY DEF Steady, ToDisk
<1> QED BY <1>1 DEF SourceKept, Steady

\* What a batch, or part of it, leaves of the destination.
LEMMA BatchKeeps ==
    ASSUME TInv, KInv, pc = "copy", Present, op.done < op.count, NEW n \in 0 .. Batch,
           NEW holes, Beyond \subseteq holes, Deliver(n, holes), Steady
    PROVE  /\ SourceKept'
           /\ ToDisk => \A b \in Sectors(op.dd) :
                 b - op.to \notin 0 .. (op.done + n) - 1 => disk'[op.dd][b] = before[op.dd][b]
           /\ op.done + n <= op.count
<1>1. /\ pc # "idle" /\ SourceKept /\ Ahead /\ op.done \in Nat /\ op.to \in Nat /\ op.count \in Nat
      /\ Batch \in 1 .. op.count - op.done
  BY Running, BatchIs DEF KInv
<1>2. op.done + n <= op.count /\ n \in Nat
  BY <1>1
<1>3. CASE ToDisk
  <2>1. /\ \A x \in Disks \ {op.dd} : disk'[x] = disk[x]
        /\ \A b \in Sectors(op.dd) : disk'[op.dd][b] =
              IF b - op.to \in op.done .. op.done + n - 1
              THEN Block(b - op.to, holes) ELSE disk[op.dd][b]
    BY <1>3, Delivered
  <2>2. SourceKept'
    BY <1>1, <1>3, <2>1, SourceStaysKept
  <2>3. \A b \in Sectors(op.dd) :
           b - op.to \notin 0 .. (op.done + n) - 1 => disk'[op.dd][b] = before[op.dd][b]
    <3> SUFFICES ASSUME NEW b \in Sectors(op.dd), b - op.to \notin 0 .. (op.done + n) - 1
                 PROVE  disk'[op.dd][b] = before[op.dd][b]
      OBVIOUS
    <3>1. b \in Nat
      BY <1>1, <1>3, Running, SectorsOf
    <3>2. b - op.to \notin op.done .. op.done + n - 1 /\ b - op.to \notin 0 .. op.done - 1
      BY <1>1, <1>2, <3>1
    <3>3. disk'[op.dd][b] = disk[op.dd][b]
      BY <2>1, <3>2
    <3>4. disk[op.dd][b] = before[op.dd][b]
      BY <1>1, <1>3, <3>2 DEF Ahead
    <3> QED BY <3>3, <3>4
  <2> QED BY <1>2, <1>3, <2>2, <2>3
<1>4. CASE ~ToDisk
  <2>1. disk' = disk
    BY <1>4, Delivered
  <2>2. ToDisk' = ToDisk
    BY DEF Steady, ToDisk
  <2> QED BY <1>1, <1>2, <1>4, <2>1, <2>2 DEF SourceKept, Steady
<1> QED BY <1>3, <1>4

\* A block the copy has come to is the one of the source, as long as the source is.
LEMMA BlockIsSource ==
    ASSUME TInv, KInv, pc = "copy", Present, op.done < op.count,
           NEW i \in op.done .. op.done + Batch - 1, NEW holes, Beyond \subseteq holes,
           i \notin holes, op.sd # op.dd \/ (i = op.done /\ op.done = 0) \/ ~OnItself
    PROVE  Block(i, holes) = SourceBlock(i)
<1>1. /\ pc # "idle" /\ SourceKept /\ Ahead /\ op.done \in Nat /\ op.to \in Nat /\ op.count \in Nat
      /\ op.from \in Nat /\ Batch \in 1 .. op.count - op.done /\ i \in Nat /\ i < op.count
  BY Running, BatchIs DEF KInv
<1>2. CASE FromDisk
  <2>1. op.from + i \in Sectors(op.sd) /\ Block(i, holes) = disk[op.sd][op.from + i]
        /\ op.sd \in Disks
    BY <1>1, <1>2, BlockIs, Running
  <2>2. SourceBlock(i) = before[op.sd][op.from + i]
    BY <1>2, <2>1 DEF SourceBlock
  <2>3. CASE op.sd # op.dd
    BY <1>1, <2>1, <2>2, <2>3 DEF SourceKept
  <2>4. CASE op.sd = op.dd
    <3>1. ToDisk
      BY <1>1, <2>4, Running DEF Ends, ToDisk
    <3>2. (op.from + i) - op.to \notin 0 .. op.done - 1
      <4>1. CASE op.done = 0
        BY <1>1, <4>1
      <4>2. CASE ~OnItself
        <5>1. \A j \in 0 .. op.count - 1 : op.from + i # op.to + j
          BY <1>1, <2>4, <4>2 DEF OnItself
        <5> SUFFICES ASSUME (op.from + i) - op.to \in 0 .. op.done - 1 PROVE FALSE
          OBVIOUS
        <5> DEFINE j == (op.from + i) - op.to
        <5>2. j \in 0 .. op.count - 1 /\ op.from + i = op.to + j
          BY <1>1
        <5> QED BY <5>1, <5>2
      <4> QED BY <2>4, <4>1, <4>2
    <3>3. disk[op.dd][op.from + i] = before[op.dd][op.from + i]
      BY <1>1, <2>1, <2>4, <3>1, <3>2 DEF Ahead
    <3> QED BY <2>1, <2>2, <2>4, <3>3
  <2> QED BY <2>3, <2>4
<1>3. CASE ~FromDisk
  BY <1>1, <1>3, BlockIs DEF SourceBlock
<1> QED BY <1>2, <1>3

LEMMA KNext1 == ASSUME TInv, KInv, Next1 PROVE KInv'
<1>1. /\ pc = "copy" /\ pc' = "copy" /\ op.done < op.count /\ Present /\ Steady /\ TInv'
      /\ op'.dst = op.dst /\ op'.exact = op.exact
  BY Next1Is, Next1Type
<1>2. PICK holes \in SUBSET (op.done .. op.done + Batch - 1) :
        /\ Beyond \subseteq holes /\ Deliver(Batch, holes)
        /\ op'.done = op.done + Batch /\ op'.zeroed = op.zeroed \cup holes
  BY Next1Is
<1>3. /\ pc # "idle" /\ op.done \in Nat /\ op.to \in Nat /\ op.count \in Nat
      /\ Batch \in 1 .. op.count - op.done /\ op.zeroed \subseteq 0 .. op.done - 1
  BY <1>1, Running, BatchIs
<1>4. /\ SourceKept'
      /\ ToDisk => \A b \in Sectors(op.dd) :
            b - op.to \notin 0 .. (op.done + Batch) - 1 => disk'[op.dd][b] = before[op.dd][b]
      /\ op.done + Batch <= op.count
  <2>1. Batch \in 0 .. Batch
    BY <1>3
  <2> QED BY <1>1, <1>2, <2>1, BatchKeeps
<1>5. Ahead'
  <2>1. ToDisk' = ToDisk
    BY <1>1 DEF Steady, ToDisk
  <2> QED BY <1>1, <1>2, <1>4, <2>1 DEF Ahead, Steady
<1>6. ASSUME PartCopy' PROVE Around' /\ Begins' /\ TableKept'
  <2>1. PartCopy /\ ToDisk /\ op.to > 0 /\ op.dd \in Disks
    BY <1>1, <1>3, <1>6, Running DEF Steady, PartCopy
  <2>2. Sectors(op.dd) \subseteq Nat /\ 0 \in Sectors(op.dd)
    BY <2>1, SectorsOf
  <2>3. Around'
    <3>1. \A b \in Sectors(op.dd) : b - op.to \notin 0 .. op.count - 1 =>
             disk'[op.dd][b] = before[op.dd][b]
      <4>1. \A b \in Sectors(op.dd) : b - op.to \notin 0 .. op.count - 1 =>
               b - op.to \notin 0 .. (op.done + Batch) - 1
        BY <1>3, <1>4, <2>2
      <4> QED BY <1>4, <2>1, <4>1
    <3> QED BY <1>1, <1>6, <3>1, AroundCopy DEF Steady
  <2>4. TableKept'
    <3>1. 0 - op.to \notin 0 .. (op.done + Batch) - 1
      BY <1>3, <2>1
    <3>2. disk'[op.dd][0] = before[op.dd][0]
      BY <1>4, <2>1, <2>2, <3>1
    <3> QED BY <1>1, <1>6, <3>2, TableSame DEF Steady
  <2>5. Begins'
    <3>1. At(0)' = IF 0 \in op'.zeroed THEN Zero ELSE SourceBlock(0)
      <4>1. CASE op.done = 0
        <5>1. 0 \in op.done .. op.done + Batch - 1 /\ op.zeroed = {}
          BY <1>3, <4>1
        <5>2. op.to \in Sectors(op.dd)
          <6>1. op.to + op'.done <= Size[op.dd] /\ op'.done > 0
            <7>1. Counted' /\ ToDisk'
              BY <1>1, <2>1 DEF TInv, Steady, ToDisk
            <7> QED BY <1>1, <1>2, <1>3, <4>1, <7>1 DEF Counted, Steady
          <6> QED BY <1>2, <1>3, <2>1, <6>1, SectorsOf DEF Sectors
        <5>3. At(0)' = disk'[op.dd][op.to]
          BY <1>1, <1>3 DEF At, Steady
        <5>4. disk'[op.dd][op.to] = Block(0, holes)
          <6>1. \A b \in Sectors(op.dd) : disk'[op.dd][b] =
                   IF b - op.to \in op.done .. op.done + Batch - 1
                   THEN Block(b - op.to, holes) ELSE disk[op.dd][b]
            <7>1. Batch \in 0 .. Batch
              BY <1>3
            <7> QED BY <1>1, <1>2, <2>1, <7>1, Delivered
          <6>2. op.to - op.to = 0
            BY <1>3
          <6> QED BY <5>1, <5>2, <6>1, <6>2
        <5>5. CASE 0 \in holes
          BY <1>2, <5>3, <5>4, <5>5 DEF Block
        <5>6. CASE 0 \notin holes
          <6>1. Block(0, holes) = SourceBlock(0)
            BY <1>1, <1>2, <4>1, <5>1, <5>6, BlockIsSource
          <6> QED BY <1>2, <5>1, <5>3, <5>4, <5>6, <6>1
        <5> QED BY <5>5, <5>6
      <4>2. CASE op.done > 0
        <5>1. Same(0)
          BY <1>1, <2>1, <4>2 DEF KInv, Begins
        <5>2. 0 \notin holes
          BY <1>3, <4>2
        <5>3. op.to \in Sectors(op.dd) /\ op.to - op.to \notin op.done .. op.done + Batch - 1
          <6>1. op.to + op.done <= Size[op.dd]
            BY <1>3, <2>1, <4>2, Running DEF Counted
          <6> QED BY <1>3, <2>1, <4>2, <6>1, SectorsOf DEF Sectors
        <5>4. disk'[op.dd][op.to] = disk[op.dd][op.to]
          <6>1. \A b \in Sectors(op.dd) : disk'[op.dd][b] =
                   IF b - op.to \in op.done .. op.done + Batch - 1
                   THEN Block(b - op.to, holes) ELSE disk[op.dd][b]
            <7>1. Batch \in 0 .. Batch
              BY <1>3
            <7> QED BY <1>1, <1>2, <2>1, <7>1, Delivered
          <6> QED BY <5>3, <6>1
        <5>5. At(0)' = At(0)
          <6>1. op.to + 0 = op.to
            BY <1>3
          <6> QED BY <1>1, <5>4, <6>1 DEF At, Steady
        <5> QED BY <1>2, <2>1, <5>1, <5>2, <5>5 DEF Same, CopiedBlock
      <4> QED BY <1>3, <4>1, <4>2
    <3>2. file' = file
      <4>1. Batch \in 0 .. Batch
        BY <1>3
      <4> QED BY <1>1, <1>2, <2>1, <4>1, Delivered
    <3>3. SourceBlock(0)' = SourceBlock(0) /\ ToDisk'
      BY <1>1, <2>1, <3>2, SourceStays
    <3> QED BY <1>1, <3>1, <3>3 DEF Begins, Same, CopiedBlock
  <2> QED BY <2>3, <2>4, <2>5
<1> QED BY <1>4, <1>5, <1>6 DEF KInv

\* A copy that stops before it is complete.
LEMMA KStop ==
    ASSUME TInv, KInv, pc = "copy", TInv', pc' = "report", Steady, op'.done = op.done,
           SourceKept',
           PartCopy => \A b \in Sectors(op.dd) : b - op.to \notin 0 .. op.count - 1 =>
               disk'[op.dd][b] = before[op.dd][b]
    PROVE  KInv'
<1>1. ASSUME PartCopy' PROVE Around' /\ Begins' /\ TableKept'
  <2>1. PartCopy /\ op.to > 0 /\ op.dd \in Disks /\ op.to \in Nat /\ op.count \in Nat
    BY <1>1, Running DEF Steady, PartCopy
  <2>2. Around'
    BY <1>1, <2>1, AroundCopy DEF Steady
  <2>3. 0 - op.to \notin 0 .. op.count - 1 /\ 0 \in Sectors(op.dd)
    BY <2>1, SectorsOf
  <2>4. TableKept'
    BY <1>1, <2>1, <2>3, TableSame DEF Steady
  <2> QED BY <2>2, <2>4 DEF Begins
<1> QED BY <1>1 DEF KInv, Ahead

LEMMA KFail == ASSUME TInv, KInv, Fail PROVE KInv'
<1>1. /\ pc = "copy" /\ op.done < op.count /\ Present /\ Report(FALSE) /\ Rest /\ TInv'
      /\ pc # "idle"
  BY FailIs, FailType
<1>2. PICK n \in 0 .. Batch : Deliver(n, Beyond)
  BY FailIs
<1>3. Steady /\ op'.done = op.done /\ pc' = "report"
  BY <1>1, Reported DEF Rest
<1>4. /\ SourceKept'
      /\ ToDisk => \A b \in Sectors(op.dd) :
            b - op.to \notin 0 .. (op.done + n) - 1 => disk'[op.dd][b] = before[op.dd][b]
      /\ op.done + n <= op.count
  BY <1>1, <1>2, <1>3, BatchKeeps
<1>5. ASSUME PartCopy, NEW b \in Sectors(op.dd), b - op.to \notin 0 .. op.count - 1
      PROVE  disk'[op.dd][b] = before[op.dd][b]
  <2>1. ToDisk /\ op.dd \in Disks /\ op.to \in Nat /\ op.done \in Nat /\ op.count \in Nat
        /\ Batch \in 1 .. op.count - op.done
    BY <1>1, <1>5, Running, BatchIs
  <2>2. b \in Nat
    BY <2>1, SectorsOf
  <2>3. b - op.to \notin 0 .. (op.done + n) - 1
    BY <1>4, <1>5, <2>1, <2>2
  <2> QED BY <1>4, <2>1, <2>3
<1> QED BY <1>1, <1>3, <1>4, <1>5, KStop

\* A copy that is given up with the disks as they are.
LEMMA KGivenUp ==
    ASSUME TInv, KInv, pc = "copy", TInv', Report(FALSE), Rest, disk' = disk
    PROVE  KInv'
<1>1. Steady /\ op'.done = op.done /\ pc' = "report" /\ pc # "idle"
  BY Reported DEF Rest
<1>2. SourceKept /\ Ahead /\ op.done \in Nat /\ op.count \in Nat /\ op.done <= op.count
      /\ op.to \in Nat
  BY <1>1, Running DEF KInv
<1>3. SourceKept'
  <2>1. ToDisk' = ToDisk
    BY <1>1 DEF Steady, ToDisk
  <2> QED BY <1>1, <1>2, <2>1 DEF SourceKept, Steady
<1>4. ASSUME PartCopy, NEW b \in Sectors(op.dd), b - op.to \notin 0 .. op.count - 1
      PROVE  disk'[op.dd][b] = before[op.dd][b]
  <2>1. ToDisk /\ op.dd \in Disks
    BY <1>1, <1>4, Running
  <2>2. b \in Nat
    BY <2>1, SectorsOf
  <2>3. b - op.to \notin 0 .. op.done - 1
    BY <1>2, <1>4, <2>2
  <2> QED BY <1>2, <2>1, <2>3 DEF Ahead
<1> QED BY <1>1, <1>3, <1>4, KStop

LEMMA KCopied == ASSUME TInv, KInv, Copied PROVE KInv'
<1>1. /\ pc = "copy" /\ pc # "idle" /\ op.done = op.count /\ disk' = disk /\ file' = file
      /\ before' = before /\ TInv' /\ op \in OpType
  BY CopiedType, Running DEF Copied, Calm
<1>2. SourceKept /\ Ahead /\ (PartCopy => Around /\ Begins)
  BY <1>1 DEF KInv
<1>3. CASE PartCopy
  <2>1. pc' = "fix" /\ op' = [op EXCEPT !.dst = Adopted]
    BY <1>3 DEF Copied, PartCopy
  <2>2. /\ Adopted.low = op.dst.low
        /\ op.kind = "clone" => Base(Adopted) = Base(op.dst) /\ Count(Adopted) = Count(op.dst)
    BY <1>1, <1>3, AdoptedIs
  <2> HIDE DEF Adopted
  <2>3. /\ Steady /\ op'.done = op.done /\ op'.zeroed = op.zeroed /\ op'.exact = op.exact
        /\ op'.dst = Adopted
    BY <1>1, <2>1 DEF OpType, Steady
  <2>4. /\ \A i : SourceBlock(i)' = SourceBlock(i)
        /\ ToDisk' = ToDisk /\ PartCopy' = PartCopy /\ Outsized' = Outsized
    BY <1>1, <2>3, SourceStays
  <2>5. ToDisk /\ op.dd \in Disks /\ 0 \in Sectors(op.dd) /\ op.count \in Nat \ {0}
        /\ op.to \in Nat \ {0}
    BY <1>1, <1>3, Running, Copyable, SectorsOf
  <2>6. SourceKept' /\ Ahead'
    BY <1>1, <1>2, <2>1, <2>3, <2>4 DEF SourceKept, Ahead, Steady
  <2>7. Place(Written') = Place(Written)
    BY <1>3, <2>2, <2>3 DEF Written, Place, Steady, PartCopy
  <2>8. Around'
    BY <1>1, <1>2, <1>3, <2>3, <2>4, <2>7 DEF Around, Sized, Steady
  <2>9. At(0)' = At(0)
    BY <1>1, <2>3 DEF At, Steady
  <2>10. Begins'
    <3>1. Same(0)
      BY <1>1, <1>2, <1>3, <2>5 DEF Begins
    <3> QED BY <2>1, <2>3, <2>4, <2>5, <2>9, <3>1 DEF Begins, Same, CopiedBlock
  <2>11. disk[op.dd][0] = before[op.dd][0]
    <3>1. 0 - op.to \notin 0 .. op.done - 1
      BY <2>5
    <3> QED BY <1>1, <1>2, <2>5, <3>1 DEF Ahead
  <2>12. TableKept'
    BY <1>1, <1>3, <2>1, <2>3, <2>4, <2>11, TableSame DEF Steady
  <2> QED BY <2>6, <2>8, <2>10, <2>12 DEF KInv
<1>4. CASE ~PartCopy
  <2>1. Steady /\ pc' # "copy"
    <3>1. CASE op.kind = "diskcopy"
      BY <1>1, <1>4, <3>1 DEF Copied, PartCopy, Go, Steady
    <3>2. CASE op.kind # "diskcopy"
      <4>1. Report(TRUE)
        BY <1>4, <3>2 DEF Copied, PartCopy
      <4> QED BY <1>1, <4>1, Reported
    <3> QED BY <3>1, <3>2
  <2>2. ToDisk' = ToDisk /\ ~PartCopy'
    BY <1>4, <2>1 DEF Steady, ToDisk, PartCopy
  <2>3. SourceKept' /\ Ahead'
    BY <1>1, <1>2, <2>1, <2>2 DEF SourceKept, Ahead, Steady
  <2> QED BY <2>2, <2>3 DEF KInv
<1> QED BY <1>3, <1>4

\* The first block at the destination is the root of the source, if it is one at all.
LEMMA RootIsSource ==
    ASSUME TInv, KInv, pc = "fix", PartCopy, At(0).kind = "root"
    PROVE  At(0) = SourceBlock(0)
<1>1. op.done = op.count /\ op.count \in Nat \ {0} /\ ToDisk
  BY Running, Copyable DEF Counted
<1>2. Same(0)
  BY <1>1 DEF KInv, Begins
<1>3. Zero.kind = "zero"
  BY DEF Zero
<1> QED BY <1>1, <1>2, <1>3 DEF Same, CopiedBlock

\* A step that adapts the copy and leaves table and entry as they are.
LEMMA KFix ==
    ASSUME TInv, KInv, pc \in {"fix", "name"}, TInv', Steady, file' = file,
           pc' \in {"fill", "name", "table", "report"},
           op'.dst = op.dst, op'.done = op.done, op'.exact = op.exact,
           \A x \in Disks \ {op.dd} : disk'[x] = disk[x],
           disk'[op.dd][0] = disk[op.dd][0],
           Sized => \A b \in Sectors(op.dd) : b - op.to \notin 0 .. op.count - 1 =>
               disk'[op.dd][b] = disk[op.dd][b],
           pc' = "fill" => /\ pc = "fix" /\ At(0).kind = "root"
                           /\ At(0)'.size = At(0).size
    PROVE  KInv'
<1>1. pc # "idle" /\ PartCopy /\ ToDisk /\ op.dd \in Disks /\ SourceKept /\ Around /\ TableKept
  BY Running DEF KInv, Counted
<1>2. /\ \A i : SourceBlock(i)' = SourceBlock(i)
      /\ ToDisk' = ToDisk /\ PartCopy' = PartCopy /\ Outsized' = Outsized
      /\ Written' = Written
  BY SourceStays DEF Written, Steady
<1>3. SourceKept' /\ Ahead'
  BY <1>1, SourceStaysKept DEF Ahead
<1>4. Around'
  <2>1. \A b \in Sectors(op.dd) \ (Place(Written) \cup {0}) : b - op.to \notin 0 .. op.count - 1
    BY <1>1, Copyable
  <2> QED BY <1>1, <1>2, <2>1 DEF Around, Sized, Steady
<1>5. Begins'
  <2>1. pc' = "fill" => At(0) = SourceBlock(0)
    BY <1>1, RootIsSource
  <2> QED BY <1>2, <2>1 DEF Begins
<1>6. TableKept'
  <2>1. disk[op.dd][0] = before[op.dd][0]
    BY <1>1 DEF TableKept
  <2> QED BY <1>1, <1>2, <2>1, TableSame DEF Steady
<1> QED BY <1>3, <1>4, <1>5, <1>6 DEF KInv

LEMMA KFixSfs == ASSUME TInv, KInv, FixSfs PROVE KInv'
<1>1. /\ pc = "fix" /\ op.dst.type = "sfs" /\ PartCopy /\ op.done = op.count /\ TInv'
      /\ file' = file /\ Rest /\ \A x \in Disks \ {op.dd} : disk'[x] = disk[x]
      /\ pc # "idle"
  BY FixSfsIs, FixSfsType
<1>2. /\ op.to \in Nat \ {0} /\ op.count \in Nat \ {0} /\ op.dd \in Disks /\ ToDisk /\ EntriesOK
      /\ Sectors(op.dd) \subseteq Nat /\ 0 \in Sectors(op.dd)
  BY <1>1, Running, Copyable, SectorsOf
<1>3. CASE /\ IsRoot(0) /\ At(0).size >= 2 /\ Go(IF Larger THEN "fill" ELSE After)
           /\ \A y \in Sectors(op.dd) : disk'[op.dd][y] =
                 IF y = op.to + EndRoot /\ IsRoot(EndRoot) THEN Placed(EndRoot)
                 ELSE IF y = op.to THEN Placed(0) ELSE disk[op.dd][y]
  <2>1. /\ Steady /\ op'.dst = op.dst /\ op'.done = op.done
        /\ op'.exact = op.exact /\ pc' = IF Larger THEN "fill" ELSE After
    BY <1>1, <1>3, GoIs
  <2>2. /\ At(0).kind = "root" /\ At(0).size \in Nat /\ At(0).size >= 2 /\ At(0) \in Blocks
        /\ op.to \in Sectors(op.dd) /\ op.to + 0 = op.to
    BY <1>1, <1>2, <1>3, RootAt
  <2>3. EndRoot \in Nat \ {0}
    BY <2>2 DEF EndRoot
  <2>4. Sized => At(0).size <= op.count
    <3>1. At(0) = SourceBlock(0)
      BY <1>1, <2>2, RootIsSource
    <3>2. op.src.type = "sfs"
      BY <1>1, <1>2 DEF EntriesOK
    <3> QED BY <1>1, <1>2, <2>2, <3>1, <3>2 DEF Sized, Outsized
  <2>5. Sized => \A b \in Sectors(op.dd) : b - op.to \notin 0 .. op.count - 1 =>
                     disk'[op.dd][b] = disk[op.dd][b]
    <3> SUFFICES ASSUME Sized, NEW b \in Sectors(op.dd), b - op.to \notin 0 .. op.count - 1
                 PROVE  disk'[op.dd][b] = disk[op.dd][b]
      OBVIOUS
    <3>1. EndRoot \in 0 .. op.count - 1
      BY <1>2, <2>2, <2>4, EndRoot \in Nat, <2>3 DEF EndRoot
    <3>2. b # op.to /\ b # op.to + EndRoot
      BY <1>2, <3>1
    <3> QED BY <1>3, <3>2
  <2>6. disk'[op.dd][0] = disk[op.dd][0]
    <3>1. 0 # op.to /\ 0 # op.to + EndRoot
      BY <1>2, <2>3
    <3> QED BY <1>2, <1>3, <3>1
  <2>7. At(0)'.size = At(0).size
    <3>1. op.to # op.to + EndRoot
      BY <1>2, <2>3
    <3>2. At(0)' = Placed(0)
      BY <1>3, <2>1, <2>2, <3>1 DEF At, Steady
    <3>3. Placed(0).size = At(0).size
      <4>1. At(0) \in [kind : {"root"}, type : Types, vol : Volumes, n : Nat, size : Nat,
                       at : Nat, flag : BOOLEAN, name : 0 .. MaxName]
        BY <2>2 DEF Blocks, Zero
      <4> QED BY <4>1 DEF Placed
    <3> QED BY <3>2, <3>3
  <2>8. pc' \in {"fill", "name", "table", "report"}
    BY <2>1 DEF After
  <2> QED BY <1>1, <2>1, <2>2, <2>5, <2>6, <2>7, <2>8, KFix
<1>4. CASE /\ Report(FALSE)
           /\ \A y \in Sectors(op.dd) : y # op.to => disk'[op.dd][y] = disk[op.dd][y]
  <2>1. Steady /\ op'.done = op.done /\ op'.dst = op.dst /\ op'.exact = op.exact /\ pc' = "report"
    BY <1>1, <1>4, Reported DEF Rest
  <2>2. \A b \in Sectors(op.dd) : b - op.to \notin 0 .. op.count - 1 => b # op.to
    BY <1>2
  <2>3. disk'[op.dd][0] = disk[op.dd][0]
    BY <1>2, <1>4
  <2> QED BY <1>1, <1>4, <2>1, <2>2, <2>3, KFix
<1> QED BY <1>3, <1>4, FixSfsIs

\* The steps of the other file systems, and the new name.
LEMMA KRoot ==
    ASSUME TInv, KInv, TInv', Steady, file' = file, pc \in {"fix", "name"},
           pc' \in {"name", "table", "report"},
           op'.dst = op.dst, op'.done = op.done, op'.exact = op.exact,
           \A x \in Disks \ {op.dd} : disk'[x] = disk[x],
           \A y \in Sectors(op.dd) \ {op.to} : disk'[op.dd][y] = disk[op.dd][y]
    PROVE  KInv'
<1>1. /\ pc # "idle" /\ PartCopy
  BY Running DEF Counted
<1>2. op.to \in Nat \ {0} /\ op.count \in Nat \ {0} /\ op.dd \in Disks
  BY <1>1, Running, Copyable
<1>3. Sectors(op.dd) \subseteq Nat /\ 0 \in Sectors(op.dd)
  BY <1>2, SectorsOf
<1>4. \A b \in Sectors(op.dd) : b - op.to \notin 0 .. op.count - 1 => b # op.to
  BY <1>2
<1> QED BY <1>2, <1>3, <1>4, KFix

LEMMA KFillSfs == ASSUME TInv, KInv, FillSfs PROVE KInv'
<1>1. /\ pc = "fill" /\ pc # "idle" /\ PartCopy /\ op.kind = "clone" /\ op.done = op.count
      /\ op.dst.type = "sfs" /\ At(0).size \in Nat /\ At(0).size >= 2 /\ TInv'
      /\ Steady /\ file' = file
      /\ op'.dst = Trimmed /\ op'.done = op.done
      /\ op'.exact = (Count(Trimmed) <= At(0).size)
      /\ \A x \in Disks \ {op.dd} : disk'[x] = disk[x]
      /\ NewTotal(Trimmed) \in Nat /\ NewTotal(Trimmed) >= At(0).size
      /\ pc' \in {"name", "report"}
  BY FillSfsIs, FillSfsType
<1> DEFINE n == NewTotal(Trimmed)
<1>2. disk' = disk \/
        \A y \in Sectors(op.dd) : y # op.to + EndRoot /\ y # op.to + n - 1 /\ y # op.to =>
            disk'[op.dd][y] = disk[op.dd][y]
  BY FillSfsIs
<1>3. /\ Trimmed \in Entries /\ Base(Trimmed) = op.to
      /\ op.count <= Count(Trimmed) /\ Count(Trimmed) <= Count(op.dst)
  BY <1>1, TrimmedIs
<1>4. /\ SourceKept /\ Around /\ TableKept /\ op.to \in Nat \ {0} /\ op.count \in Nat \ {0}
      /\ op.dd \in Disks /\ ToDisk /\ ~op.exact
  BY <1>1, Running, Copyable DEF KInv, Counted
<1>5. Sectors(op.dd) \subseteq Nat /\ 0 \in Sectors(op.dd)
  BY <1>4, SectorsOf
<1>6. /\ ToDisk' = ToDisk /\ PartCopy' = PartCopy /\ Outsized' = Outsized /\ Written' = Trimmed
  BY <1>1, SourceStays DEF Written, Steady
<1>7. Count(Trimmed) \in Nat
  BY <1>3, Extent
<1>8. EndRoot \in Nat \ {0} /\ EndRoot < n /\ n - 1 \in Nat \ {0}
  BY <1>1 DEF EndRoot
<1>9. SourceKept' /\ Ahead'
  BY <1>1, <1>4, SourceStaysKept DEF Ahead
<1>10. Around'
  <2> SUFFICES ASSUME Sized', NEW b \in Sectors(op.dd), b \notin Place(Trimmed)
               PROVE  disk'[op.dd][b] = before[op.dd][b]
    BY <1>1, <1>6 DEF Around, Steady
  <2>1. Sized /\ Count(Trimmed) > At(0).size
    <3>1. ~op'.exact /\ ~Outsized
      BY <1>6 DEF Sized
    <3>2. ~(Count(Trimmed) <= At(0).size)
      BY <1>1, <3>1
    <3> QED BY <1>1, <1>4, <1>7, <3>1, <3>2 DEF Sized
  <2>2. n = Count(Trimmed)
    BY <1>1, <1>3, <2>1, NewTotalIs
  <2>3. b \in Nat /\ b - op.to \notin 0 .. n - 1
    BY <1>3, <1>4, <1>5, <1>7, <2>2 DEF Place
  <2>4. b - op.to \notin 0 .. op.count - 1
    BY <1>3, <1>4, <1>7, <2>2, <2>3
  <2>5. disk[op.dd][b] = before[op.dd][b]
    BY <1>1, <1>4, <2>1, <2>4 DEF Around
  <2>6. b # op.to + EndRoot /\ b # op.to + n - 1 /\ b # op.to
    <3>1. EndRoot \in 0 .. n - 1 /\ n - 1 \in 0 .. n - 1 /\ 0 \in 0 .. n - 1
      BY <1>1, <1>8
    <3> HIDE DEF n, EndRoot
    <3>2. b - op.to # EndRoot /\ b - op.to # n - 1 /\ b - op.to # 0
      BY <2>3, <3>1
    <3>3. EndRoot \in Int /\ n - 1 \in Int
      BY <1>8
    <3> QED BY <1>4, <2>3, <3>2, <3>3
  <2> QED BY <1>2, <2>5, <2>6
<1>11. TableKept'
  <2>1. disk[op.dd][0] = before[op.dd][0]
    BY <1>1, <1>4 DEF TableKept
  <2>2. 0 # op.to + EndRoot /\ 0 # op.to + n - 1 /\ 0 # op.to
    BY <1>4, <1>8
  <2>3. disk'[op.dd][0] = before[op.dd][0]
    BY <1>2, <1>5, <2>1, <2>2
  <2> QED BY <1>1, <1>6, <2>3, TableSame DEF Steady
<1>12. Begins'
  BY <1>1 DEF Begins
<1> QED BY <1>9, <1>10, <1>11, <1>12 DEF KInv

LEMMA KTableWrite == ASSUME TInv, KInv, TableWrite PROVE KInv'
<1>1. /\ pc = "table" /\ pc # "idle" /\ PartCopy /\ op.done = op.count /\ TInv'
      /\ Steady /\ file' = file
      /\ mem'.tbl.parts = mem.tbl.parts
      /\ op'.dst = op.dst /\ op'.done = op.done
      /\ op'.exact = op.exact /\ pc' = "report"
      /\ \A x \in Disks \ {op.dd} : disk'[x] = disk[x]
      /\ \A y \in Sectors(op.dd) \ {0} : disk'[op.dd][y] = disk[op.dd][y]
  BY TableWriteIs, TableWriteType
<1>2. /\ SourceKept /\ Around /\ TableKept /\ op.dd \in Disks /\ ToDisk /\ EntriesOK
  BY <1>1, Running DEF KInv
<1>3. /\ ToDisk' = ToDisk /\ PartCopy' = PartCopy /\ Outsized' = Outsized /\ Written' = Written
  BY <1>1, SourceStays DEF Written, Steady
<1>4. SourceKept' /\ Ahead' /\ Begins'
  BY <1>1, <1>2, SourceStaysKept DEF Ahead, Begins
<1>5. Around'
  BY <1>1, <1>2, <1>3 DEF Around, Sized, Steady
<1>6. TableKept'
  <2>1. disk[op.dd][0] = before[op.dd][0] /\ op.dst \in mem.tbl.parts
    BY <1>1, <1>2 DEF TableKept, EntriesOK
  <2>2. troubles \in Nat /\ (troubles' = troubles \/ Trouble => troubles' \in Nat)
    BY <1>1, ConstantsAssumption DEF TInv, VarTypes, Trouble
  <2>6. ASSUME disk'[op.dd][0] = mem'.tbl, op'.ok = TRUE \/ troubles' > 0
        PROVE  TableKept'
    <3>1. op'.dd = op.dd /\ op'.count = op.count
      BY <1>1 DEF Steady
    <3>2. op'.dst \in Table(op.dd)'.parts /\ op'.dst \in mem'.tbl.parts
      BY <1>1, <2>1, <2>6, <3>1 DEF Table
    <3>3. op'.done = op'.count /\ pc' = "report" /\ op.count \in Nat /\ ~(op'.done < op'.count)
      <4>1. op.count \in Nat
        BY <1>1, Running
      <4> QED BY <1>1, <3>1, <4>1
    <3>4. (pc # "report" \/ op.done < op.count => disk[op.dd][0] = before[op.dd][0])'
      BY <3>3
    <3>5. EntryFollowsCopy'
      BY <2>6, <3>2, <3>3 DEF EntryFollowsCopy
    <3> QED BY <3>4, <3>5 DEF TableKept
  <2>3. CASE disk'[op.dd][0] = mem'.tbl /\ op'.ok = TRUE
    BY <2>3, <2>6
  <2>4. CASE op'.ok = FALSE /\ disk'[op.dd][0] = mem'.tbl /\ Trouble
    <3>1. troubles' > 0
      BY <2>2, <2>4 DEF Trouble
    <3> QED BY <2>4, <2>6, <3>1
  <2>5. CASE disk'[op.dd][0] = disk[op.dd][0]
    <3>1. disk'[op'.dd][0] = before'[op'.dd][0]
      BY <1>1, <2>1, <2>5 DEF Steady
    <3> QED BY <1>1, <1>3, <3>1, TableSame
  <2> QED BY <2>3, <2>4, <2>5, TableWriteIs
<1> QED BY <1>4, <1>5, <1>6 DEF KInv

LEMMA KGeometry == ASSUME TInv, KInv, Geometry PROVE KInv'
<1>1. /\ pc = "geometry" /\ pc # "idle" /\ ~PartCopy /\ op.kind = "diskcopy" /\ Rest
      /\ Report(TRUE) /\ \A x \in Disks \ {op.dd} : disk'[x] = disk[x]
  BY GeometryIs
<1>2. Steady /\ pc' = "report" /\ ToDisk /\ SourceKept
  BY <1>1, Reported DEF Rest, ToDisk, KInv
<1>3. SourceKept' /\ Ahead' /\ ~PartCopy'
  BY <1>1, <1>2, SourceStaysKept DEF Ahead, PartCopy, Steady
<1> QED BY <1>3 DEF KInv

LEMMA KInit == ASSUME Init PROVE KInv
BY DEF Init, KInv

LEMMA KStep == ASSUME TInv, KInv, [Next]_vars PROVE KInv'
<1>1. TInv' /\ (Fresh \/ Onward \/ UNCHANGED vars)
  BY TypeStep
<1>2. CASE Fresh
  BY <1>1, <1>2, KBegin
<1>3. CASE UNCHANGED vars
  <2>1. /\ disk' = disk /\ file' = file /\ mem' = mem /\ pc' = pc /\ op' = op
        /\ before' = before /\ clean' = clean /\ ops' = ops /\ troubles' = troubles
    BY <1>3 DEF vars
  <2>2. SourceKept' = SourceKept /\ Ahead' = Ahead /\ PartCopy' = PartCopy
    BY <2>1 DEF SourceKept, Ahead, PartCopy, ToDisk
  <2>3. Around' = Around
    BY <2>1 DEF Around, Sized, Outsized, SourceBlock, FromDisk, Written
  <2>4. Begins' = Begins
    BY <2>1 DEF Begins, Same, CopiedBlock, SourceBlock, At, ToDisk, FromDisk
  <2>5. TableKept' = TableKept
    BY <2>1 DEF TableKept, EntryFollowsCopy, Table
  <2> QED BY <2>1, <2>2, <2>3, <2>4, <2>5 DEF KInv
<1>4. CASE Short
  BY <1>1, <1>4, KGivenUp DEF Short
<1>5. CASE Cancel
  BY <1>1, <1>5, KGivenUp DEF Cancel
<1>6. CASE Next1 \/ Copied \/ FixSfs \/ FillSfs \/ TableWrite \/ Geometry \/ Fail
  BY <1>6, KNext1, KCopied, KFixSfs, KFillSfs, KTableWrite, KGeometry, KFail
<1>7. CASE FixFfs \/ FixPfs \/ Rename
  <2>1. /\ Steady /\ op'.dst = op.dst /\ op'.done = op.done /\ op'.exact = op.exact
        /\ \A x \in Disks \ {op.dd} : disk'[x] = disk[x]
        /\ \A y \in Sectors(op.dd) \ {op.to} : disk'[op.dd][y] = disk[op.dd][y]
    BY <1>7, FixFfsType, FixPfsType, RenameType
  <2>2. pc \in {"fix", "name"} /\ file' = file /\ pc' \in {"name", "table", "report"}
    BY <1>7, FixFfsIs, FixPfsIs, RenameIs DEF Go, Report, After
  <2> QED BY <1>1, <2>1, <2>2, KRoot
<1>8. CASE Close \/ Crash
  BY <1>8 DEF Close, Crash, KInv
<1> QED BY <1>1, <1>2, <1>3, <1>4, <1>5, <1>6, <1>7, <1>8 DEF Onward, Advance

LEMMA ContainedHolds == ASSUME TInv, KInv PROVE Contained
<1>1. VarTypes /\ Media(disk)
  BY DEF TInv, VarTypes
<1>2. TypeOK
  <2>1. \A d \in Disks : DOMAIN disk[d] = Sectors(d)
    BY <1>1 DEF Media
  <2>2. \A d \in Disks : \A i \in Sectors(d) : disk[d][i].kind = "rdb" => i = 0
    BY <1>1, OnDisk
  <2>3. CASE pc = "idle"
    <3>1. op.done = 0 /\ op.count = 0 /\ op.zeroed = {}
      BY <2>3, NoOpType DEF TInv
    <3> QED BY <1>1, <2>1, <2>2, <2>3, <3>1 DEF TypeOK, VarTypes, Pcs
  <2>4. CASE pc # "idle"
    <3>1. /\ op.kind \in Kinds /\ op.done \in Nat /\ op.count \in Nat /\ op.done <= op.count
          /\ op.zeroed \subseteq 0 .. op.done - 1
      BY <2>4, Running
    <3>2. op.done \in 0 .. op.count /\ op.zeroed \subseteq 0 .. op.count - 1
      BY <3>1
    <3> QED BY <1>1, <2>1, <2>2, <3>1, <3>2 DEF TypeOK, VarTypes, Pcs
  <2> QED BY <2>3, <2>4
<1>3. NeighboursKept
  <2> SUFFICES ASSUME pc # "idle"
               PROVE  /\ op.sd \in Disks /\ op.sd # op.dd => disk[op.sd] = before[op.sd]
                      /\ (op.kind \in {"restore", "clone"} /\ Uniform /\ ~Outsized /\ ~op.exact) =>
                            \A p \in Others : Untouched(op.dd, p)
    BY DEF NeighboursKept
  <2>1. SourceKept
    BY DEF KInv
  <2>2. ASSUME PartCopy, Uniform, Sized, NEW p \in Others, NEW b \in Place(p) \cap Sectors(op.dd)
        PROVE  disk[op.dd][b] = before[op.dd][b]
    <3>1. p \in Entries /\ Clear(p, Written)
      BY <2>2, OthersClear
    <3>2. Written \in Entries
      BY <2>2, Copyable
    <3>3. p.cyl * p.unit = Written.cyl * Written.unit
      BY <2>2 DEF Uniform
    <3>4. b \notin Place(Written)
      BY <2>2, <3>1, <3>2, <3>3, PlacesApart
    <3>5. b # 0
      BY <2>2, <3>1, Extent DEF Place
    <3>6. Around
      BY <2>2 DEF KInv
    <3> QED BY <2>2, <3>4, <3>5, <3>6 DEF Around
  <2> QED BY <2>1, <2>2 DEF SourceKept, Untouched, PartCopy, Sized
<1>4. EntryFollowsCopy
  <2>1. CASE pc # "idle" /\ PartCopy
    BY <2>1 DEF KInv, TableKept
  <2>2. CASE ~(pc # "idle" /\ PartCopy)
    BY <2>2 DEF EntryFollowsCopy, PartCopy
  <2> QED BY <2>1, <2>2
<1> QED BY <1>2, <1>3, <1>4 DEF Contained

\* Whatever a copy does, and wherever it stops, it stays inside its target: no block of
\* another partition and none of the disk that is read changes, and the table follows the
\* copy (pc_copy_loop, PartClone_RestoreToPart, PartClone_PartToPart, the fixups and
\* RDB_Write).
THEOREM CopyContained == Spec => []Contained
<1>1. Init => TInv /\ KInv
  BY TypeInit, KInit
<1>2. TInv /\ KInv /\ [Next]_vars => (TInv /\ KInv)'
  BY TypeStep, KStep
<1>3. TInv /\ KInv => Contained
  BY ContainedHolds
<1> QED BY <1>1, <1>2, <1>3, PTL DEF Spec

---------------------------------------------------------------------------
(* A copy that reports success *)

\* Nothing is said of a copy that fails.
LEMMA Vacuous ==
    ASSUME pc' \in {"idle", "report"}, ~op'.ok
    PROVE  FInv'
BY DEF FInv

\* What a step that leaves a block alone leaves of its being the same.
LEMMA SameStays ==
    ASSUME Steady, ToDisk, file' = file, op'.zeroed = op.zeroed, NEW i,
           disk'[op.dd][op.to + i] = disk[op.dd][op.to + i]
    PROVE  Same(i)' = Same(i) /\ At(i)' = At(i)
<1>1. SourceBlock(i)' = SourceBlock(i) /\ ToDisk' = ToDisk
  BY SourceStays
<1>2. At(i)' = At(i)
  BY DEF At, Steady
<1>3. CopiedBlock(i)' = CopiedBlock(i)
  BY <1>1, <1>2 DEF CopiedBlock
<1> QED BY <1>1, <1>2, <1>3 DEF Same

LEMMA JudgedStays ==
    ASSUME TInv, pc # "idle", PartCopy, Steady, file' = file, op'.zeroed = op.zeroed
    PROVE  /\ PartCopy' /\ OnItself' = OnItself
           /\ Judged' => WholeSource /\ ~OnItself /\ ~op'.exact
           /\ Judged' /\ ~op.exact => Judged
           /\ Perfect' /\ ~op.exact /\ clean' \in {clean, FALSE} => Perfect /\ clean' = clean
<1>1. \A i : SourceBlock(i)' = SourceBlock(i)
  BY SourceStays
<1>2. PartCopy' /\ OnItself' = OnItself
  BY SourceStays
<1>3. op'.src = op.src /\ op'.count = op.count
  BY DEF Steady
<1>4. WholeSource' = WholeSource
  BY <1>1, <1>3 DEF WholeSource, Mounts
<1>5. clean \in BOOLEAN
  BY Running DEF VarTypes
<1> QED BY <1>2, <1>4, <1>5 DEF Judged, Perfect

\* The blocks of a copy that is complete are sectors of the destination.
LEMMA InCopy ==
    ASSUME TInv, pc # "idle", ToDisk, op.done = op.count, NEW i \in 0 .. op.count - 1
    PROVE  /\ op.to + i \in Sectors(op.dd) /\ (PartCopy => op.to + i # 0)
           /\ (i # 0 => op.to + i # op.to) /\ op.to + 0 = op.to /\ i \in Nat
<1>1. op.to \in Nat /\ op.count \in Nat /\ op.dd \in Disks /\ (PartCopy => op.to > 0) /\ i \in Nat
      /\ op.done > 0 /\ i < op.count
  BY Running
<1>2. op.to + op.count <= Size[op.dd]
  BY <1>1, Running DEF Counted
<1> QED BY <1>1, <1>2, SectorsOf DEF Sectors

LEMMA SourceIsBlock ==
    ASSUME TInv, pc \notin {"idle", "copy"}, PartCopy, NEW i \in 0 .. op.count - 1, Same(i),
           i \notin op.zeroed
    PROVE  At(i) = SourceBlock(i)
BY Running DEF Same, CopiedBlock

\* The root of a volume that mounts.
LEMMA WholeRoot ==
    ASSUME TInv, pc \notin {"idle", "copy"}, PartCopy, op.done = op.count, WholeSource
    PROVE  /\ op.count \in Nat \ {0} /\ op.dst.type = op.src.type
           /\ Mounts(op.dst.type, SourceBlock(0), SourceBlock(0).at, op.count)
           /\ op.dst.type = "sfs" =>
                /\ op.count - 1 \in 0 .. op.count - 1
                /\ Mounts("sfs", SourceBlock(op.count - 1), SourceBlock(0).at, op.count)
<1>1. op.count \in Nat \ {0} /\ EntriesOK
  BY Running, Copyable
<1>2. op.dst.type = op.src.type
  BY <1>1 DEF EntriesOK
<1> DEFINE roots == IF op.src.type = "sfs" THEN {0, op.count - 1} ELSE {0}
<1>3. \A i \in roots : Mounts(op.src.type, SourceBlock(i), SourceBlock(0).at, op.count)
  BY DEF WholeSource
<1>4. 0 \in roots /\ (op.src.type = "sfs" => op.count - 1 \in roots)
  OBVIOUS
<1> HIDE DEF roots
<1> QED BY <1>1, <1>2, <1>3, <1>4

LEMMA FBegin == ASSUME TInv', Fresh PROVE FInv'
<1>1. 0 .. op'.done - 1 = {}
  BY DEF Fresh
<1> QED BY <1>1 DEF FInv, Fresh

LEMMA FNext1 == ASSUME TInv, KInv, FInv, Next1 PROVE FInv'
<1>1. /\ pc = "copy" /\ pc' = "copy" /\ pc # "idle" /\ op.done < op.count /\ Present /\ Steady
      /\ before' = before /\ TInv'
  BY Next1Is, Next1Type DEF Rest
<1>2. PICK holes \in SUBSET (op.done .. op.done + Batch - 1) :
        /\ Beyond \subseteq holes /\ Deliver(Batch, holes)
        /\ op'.done = op.done + Batch /\ op'.zeroed = op.zeroed \cup holes
  BY Next1Is
<1>3. /\ op.done \in Nat /\ op.to \in Nat /\ op.count \in Nat
      /\ Batch \in 1 .. op.count - op.done /\ op.zeroed \subseteq 0 .. op.done - 1
      /\ Batch \in 0 .. Batch
  BY <1>1, Running, BatchIs
<1>4. ~op'.ok
  <2>1. ~op.ok
    BY <1>1 DEF FInv
  <2>2. op'.ok = op.ok
    BY <1>1, Running DEF Next1, OpType
  <2> QED BY <2>1, <2>2
<1>5. PartCopy' = PartCopy /\ OnItself' = OnItself /\ ToDisk' = ToDisk
  BY <1>1 DEF PartCopy, OnItself, ToDisk, Steady
<1>6. ASSUME NEW i \in 0 .. op.done + Batch - 1
      PROVE  /\ SourceBlock(i)' = SourceBlock(i)
             /\ CopiedBlock(i)' = IF i < op.done THEN CopiedBlock(i) ELSE Block(i, holes)
  <2>1. CASE ToDisk
    <3>1. /\ file' = file
          /\ \A b \in Sectors(op.dd) : disk'[op.dd][b] =
                IF b - op.to \in op.done .. op.done + Batch - 1
                THEN Block(b - op.to, holes) ELSE disk[op.dd][b]
      BY <1>1, <1>2, <1>3, <2>1, Delivered
    <3>2. SourceBlock(i)' = SourceBlock(i)
      BY <1>1, <3>1, SourceStays
    <3>3. op.to + (op.done + Batch) <= Size[op.dd] /\ op.dd \in Disks
      <4>1. Counted' /\ ToDisk' /\ op'.done > 0
        BY <1>1, <1>2, <1>3, <1>5, <2>1 DEF TInv
      <4> QED BY <1>1, <1>2, <2>1, <4>1, Running DEF Counted, Steady
    <3>4. op.to + i \in Sectors(op.dd) /\ (op.to + i) - op.to = i
      BY <1>3, <3>3, SectorsOf DEF Sectors
    <3>5. i \in op.done .. op.done + Batch - 1 <=> ~(i < op.done)
      BY <1>3
    <3>6. disk'[op.dd][op.to + i] = IF i < op.done THEN disk[op.dd][op.to + i] ELSE Block(i, holes)
      BY <3>1, <3>4, <3>5
    <3>7. CopiedBlock(i)' = disk'[op.dd][op.to + i] /\ CopiedBlock(i) = disk[op.dd][op.to + i]
      BY <1>1, <1>5, <2>1 DEF CopiedBlock, At, Steady
    <3> QED BY <3>2, <3>6, <3>7
  <2>2. CASE ~ToDisk
    <3>1. FromDisk /\ FromDisk'
      BY <1>1, <2>2 DEF ToDisk, FromDisk, Steady
    <3>2. SourceBlock(i)' = SourceBlock(i)
      BY <1>1, <3>1 DEF SourceBlock, Steady
    <3>3. \A j \in 0 .. op.done + Batch - 1 : file'.blocks[j + 1] =
             IF j < op.done THEN file.blocks[j + 1] ELSE Block(j, holes)
      BY <1>1, <1>2, <1>3, <2>2, Delivered
    <3> QED BY <1>5, <2>2, <3>2, <3>3 DEF CopiedBlock
  <2> QED BY <2>1, <2>2
<1>7. ASSUME NEW i \in 0 .. op.done + Batch - 1, ~(PartCopy /\ OnItself)
      PROVE  Same(i)'
  <2>1. CASE i < op.done
    <3>1. i \in 0 .. op.done - 1
      BY <1>3, <2>1
    <3>2. Same(i)
      BY <1>1, <1>7, <3>1 DEF FInv
    <3>3. i \notin holes
      BY <1>3, <2>1
    <3> QED BY <1>2, <1>6, <2>1, <3>2, <3>3 DEF Same
  <2>2. CASE ~(i < op.done)
    <3>1. i \in op.done .. op.done + Batch - 1 /\ i \notin op.zeroed
      BY <1>3, <2>2
    <3>2. CASE i \in holes
      <4>1. CopiedBlock(i)' = Zero
        BY <1>6, <2>2, <3>2 DEF Block
      <4> QED BY <1>2, <3>2, <4>1 DEF Same
    <3>3. CASE i \notin holes
      <4>1. op.sd # op.dd \/ ~OnItself
        BY <1>1, <1>7, Running DEF Ends, PartCopy
      <4>2. Block(i, holes) = SourceBlock(i)
        BY <1>1, <1>2, <3>1, <3>3, <4>1, BlockIsSource
      <4> QED BY <1>2, <1>6, <2>2, <3>1, <3>3, <4>2 DEF Same
    <3> QED BY <3>2, <3>3
  <2> QED BY <2>1, <2>2
<1>8. \A i \in 0 .. op'.done - 1 : Same(i)' \/ (PartCopy' /\ OnItself')
  <2> SUFFICES ASSUME NEW i \in 0 .. op'.done - 1, ~(PartCopy' /\ OnItself') PROVE Same(i)'
    OBVIOUS
  <2>1. i \in 0 .. op.done + Batch - 1
    BY <1>2, <1>3
  <2>2. ~(PartCopy /\ OnItself)
    BY <1>5
  <2> QED BY <1>7, <2>1, <2>2
<1> QED BY <1>1, <1>4, <1>8 DEF FInv

LEMMA FCopied == ASSUME TInv, KInv, FInv, Copied PROVE FInv'
<1>1. /\ pc = "copy" /\ pc # "idle" /\ op.done = op.count /\ disk' = disk /\ file' = file
      /\ before' = before /\ op \in OpType /\ ~op.ok
  BY Running DEF Copied, Calm, FInv
<1>2. \A i \in 0 .. op.count - 1 : Same(i) \/ (PartCopy /\ OnItself)
  BY <1>1 DEF FInv
<1>3. ASSUME Steady, op'.zeroed = op.zeroed, NEW i PROVE Same(i)' = Same(i)
  <2>1. SourceBlock(i)' = SourceBlock(i) /\ ToDisk' = ToDisk
    BY <1>1, <1>3, SourceStays
  <2>2. CopiedBlock(i)' = CopiedBlock(i)
    BY <1>1, <1>3, <2>1 DEF CopiedBlock, At, Steady
  <2> QED BY <1>3, <2>1, <2>2 DEF Same
<1>4. CASE PartCopy
  <2>1. pc' = "fix" /\ op' = [op EXCEPT !.dst = Adopted]
    BY <1>4 DEF Copied, PartCopy
  <2> HIDE DEF Adopted
  <2>2. Steady /\ op'.zeroed = op.zeroed /\ op'.ok = op.ok
    BY <1>1, <2>1 DEF OpType, Steady
  <2>3. OnItself' = OnItself /\ op'.count = op.count
    BY <2>2 DEF OnItself, Steady
  <2> QED BY <1>1, <1>2, <1>3, <2>1, <2>2, <2>3 DEF FInv
<1>5. CASE op.kind = "diskcopy"
  <2>1. pc' = "geometry" /\ op' = op
    BY <1>5 DEF Copied, Go
  <2>2. Steady
    BY <1>1, <2>1 DEF Steady
  <2>3. ~PartCopy
    BY <1>5 DEF PartCopy
  <2> QED BY <1>1, <1>2, <1>3, <2>1, <2>2, <2>3 DEF FInv
<1>6. CASE ~PartCopy /\ op.kind # "diskcopy"
  <2>1. Report(TRUE)
    BY <1>6 DEF Copied, PartCopy
  <2>2. /\ Steady /\ op'.zeroed = op.zeroed /\ op'.done = op.done /\ pc' = "report"
        /\ op'.count = op.count
    BY <1>1, <2>1, Reported DEF Steady
  <2>3. ~PartCopy'
    BY <1>6, <2>2 DEF PartCopy, Steady
  <2> QED BY <1>1, <1>2, <1>3, <1>6, <2>2, <2>3 DEF FInv, Judged, Perfect
<1> QED BY <1>4, <1>5, <1>6

LEMMA FGeometry == ASSUME TInv, FInv, Geometry PROVE FInv'
<1>1. /\ pc = "geometry" /\ pc # "idle" /\ ~PartCopy /\ op.kind = "diskcopy" /\ op.done = op.count
      /\ Rest /\ Report(TRUE) /\ file' = file
      /\ \A y \in Sectors(op.dd) \ {0} : disk'[op.dd][y] = disk[op.dd][y]
  BY GeometryIs
<1>2. /\ Steady /\ op'.zeroed = op.zeroed /\ op'.done = op.done /\ pc' = "report"
      /\ op'.count = op.count /\ op'.kind = op.kind
  BY <1>1, Reported DEF Rest, Steady
<1>3. ToDisk /\ ~PartCopy' /\ op.to = 0
  BY <1>1, <1>2, Running DEF ToDisk, PartCopy, Ends
<1>4. ASSUME NEW i \in 0 .. op.count - 1, i # 0 PROVE Same(i)'
  <2>1. op.to + i \in Sectors(op.dd) \ {0}
    BY <1>1, <1>3, <1>4, InCopy
  <2> QED BY <1>1, <1>2, <1>3, <2>1, SameStays DEF FInv
<1> QED BY <1>1, <1>2, <1>3, <1>4 DEF FInv, Judged, Perfect

\* What the fixups have to show of a copy, whole and in order, before they go on.
LEMMA FOnward ==
    ASSUME TInv, pc # "idle", PartCopy, ~op'.ok, pc' \in {"name", "table"},
           Judged' => Bodies',
           Perfect' => Stands',
           Perfect' /\ pc' = "name" =>
               At(0)'.name = SourceBlock(0)'.name /\ (Renamable' => Findable'),
           Perfect' /\ pc' = "table" => Renamed'
    PROVE  FInv'
BY DEF FInv

\* A whole copy at its new place, of as many blocks as its entry.
LEMMA WholeStands ==
    ASSUME TInv', pc' \notin {"idle", "copy"}, PartCopy', WholeSource', op'.done = op'.count,
           Count(op'.dst) = op'.count,
           Mounts(op'.dst.type, At(0)', op'.to, op'.count),
           op'.dst.type = "sfs" => Mounts("sfs", At(op.count - 1)', op'.to, op'.count),
           op'.count = op.count
    PROVE  Stands'
<1>1. op'.to + op'.count <= Size[op'.dd]
  <2>1. ToDisk' /\ op'.count \in Nat \ {0} /\ Counted'
    <3>1. EntriesOK' /\ Counted' /\ ToDisk'
      BY DEF TInv, PartCopy, ToDisk
    <3>2. op'.src \in Entries /\ op'.dst \in Entries
      BY <3>1 DEF EntriesOK
    <3> QED BY <3>1, <3>2, Extent
  <2> QED BY <2>1 DEF Counted
<1>2. At(Count(op.dst) - 1)' = At(op.count - 1)'
  BY DEF At
<1> QED BY <1>1, <1>2 DEF Stands

LEMMA RootFields ==
    ASSUME NEW r \in Blocks, r.kind = "root"
    PROVE  r \in [kind : {"root"}, type : Types, vol : Volumes, n : Nat, size : Nat, at : Nat,
                  flag : BOOLEAN, name : 0 .. MaxName]
BY DEF Blocks, Zero

\* The copy as the fixups find it.
LEMMA FixFinds ==
    ASSUME TInv, FInv, pc = "fix"
    PROVE  /\ pc # "idle" /\ PartCopy /\ ToDisk /\ op.done = op.count /\ ~op.ok /\ ~op.exact
           /\ op.count \in Nat \ {0} /\ op.to \in Nat \ {0} /\ op.dd \in Disks
           /\ ~OnItself => \A i \in 0 .. op.count - 1 : Same(i)
           /\ Perfect => /\ \A i \in 0 .. op.count - 1 : At(i) = SourceBlock(i)
                         /\ WholeSource
                         /\ Mounts(op.dst.type, At(0), At(0).at, op.count)
                         /\ op.dst.type = "sfs" =>
                              Mounts("sfs", At(op.count - 1), At(0).at, op.count)
                         /\ IsRoot(0) /\ (op.dst.type = "sfs" => IsRoot(op.count - 1))
<1>1. /\ pc # "idle" /\ PartCopy /\ ToDisk /\ op.done = op.count /\ ~op.ok /\ ~op.exact
      /\ op.dd \in Disks
  BY Running DEF Counted, FInv
<1>2. op.count \in Nat \ {0} /\ op.to \in Nat \ {0}
  BY <1>1, Copyable
<1>3. ~OnItself => \A i \in 0 .. op.count - 1 : Same(i)
  BY DEF FInv
<1>4. ASSUME Perfect
      PROVE  /\ \A i \in 0 .. op.count - 1 : At(i) = SourceBlock(i)
             /\ WholeSource
             /\ Mounts(op.dst.type, At(0), At(0).at, op.count)
             /\ op.dst.type = "sfs" => Mounts("sfs", At(op.count - 1), At(0).at, op.count)
             /\ IsRoot(0) /\ (op.dst.type = "sfs" => IsRoot(op.count - 1))
  <2>1. WholeSource /\ ~OnItself /\ op.zeroed = {}
    BY <1>4 DEF Perfect, Judged
  <2>2. \A i \in 0 .. op.count - 1 : At(i) = SourceBlock(i)
    BY <1>1, <1>3, <2>1, SourceIsBlock
  <2>3. 0 \in 0 .. op.count - 1 /\ op.count - 1 \in 0 .. op.count - 1
    BY <1>2
  <2>4. At(0) = SourceBlock(0) /\ At(op.count - 1) = SourceBlock(op.count - 1)
    BY <2>2, <2>3
  <2>5. /\ Mounts(op.dst.type, At(0), At(0).at, op.count)
        /\ op.dst.type = "sfs" => Mounts("sfs", At(op.count - 1), At(0).at, op.count)
    BY <1>1, <2>1, <2>4, WholeRoot
  <2>6. op.to + 0 \in Sectors(op.dd) /\ op.to + (op.count - 1) \in Sectors(op.dd)
    BY <1>1, <2>3, InCopy
  <2> QED BY <2>1, <2>2, <2>5, <2>6 DEF Mounts, IsRoot
<1> QED BY <1>1, <1>2, <1>3, <1>4

\* A fixup changes roots only.
LEMMA BodiesStay ==
    ASSUME TInv, pc # "idle", PartCopy, Steady, file' = file, op'.zeroed = op.zeroed,
           Judged' => \A i \in 1 .. op.count - 1 :
               \/ SourceBlock(i).kind = "root"
               \/ Same(i) /\ disk'[op.dd][op.to + i] = disk[op.dd][op.to + i]
    PROVE  Judged' => Bodies'
<1> SUFFICES ASSUME Judged', NEW i \in 1 .. op.count - 1
             PROVE  Same(i)' \/ SourceBlock(i)'.kind = "root"
  BY DEF Bodies, Steady
<1>1. ToDisk
  BY Running
<1>2. SourceBlock(i)' = SourceBlock(i)
  BY SourceStays
<1>3. CASE Same(i) /\ disk'[op.dd][op.to + i] = disk[op.dd][op.to + i]
  BY <1>1, <1>3, SameStays
<1> QED BY <1>2, <1>3

LEMMA FFixSfs == ASSUME TInv, KInv, FInv, FixSfs PROVE FInv'
<1>1. /\ pc = "fix" /\ op.dst.type = "sfs" /\ file' = file /\ clean' = clean /\ Rest /\ TInv'
      /\ pc # "idle" /\ PartCopy /\ ToDisk /\ op.done = op.count /\ ~op.ok /\ ~op.exact
      /\ op.count \in Nat \ {0} /\ op.to \in Nat \ {0} /\ op.dd \in Disks
  BY FixSfsIs, FixSfsType, FixFinds
<1>2. CASE Report(FALSE)
  BY <1>1, <1>2, Reported, Vacuous DEF Rest
<1>3. CASE /\ IsRoot(0) /\ At(0).size >= 2 /\ Go(IF Larger THEN "fill" ELSE After)
           /\ \A y \in Sectors(op.dd) : disk'[op.dd][y] =
                 IF y = op.to + EndRoot /\ IsRoot(EndRoot) THEN Placed(EndRoot)
                 ELSE IF y = op.to THEN Placed(0) ELSE disk[op.dd][y]
  <2>1. /\ Steady /\ op' = op /\ op'.zeroed = op.zeroed
        /\ pc' = IF Larger THEN "fill" ELSE After
    BY <1>1, <1>3, GoIs
  <2>2. At(0).size \in Nat /\ EndRoot \in Nat \ {0} /\ At(0) \in Blocks
        /\ At(0).kind = "root" /\ At(0).type = "sfs"
    BY <1>1, <1>3, RootAt DEF EndRoot
  <2>3. Judged' => Bodies'
    <3>1. ASSUME Judged', NEW i \in 1 .. op.count - 1
          PROVE  \/ SourceBlock(i).kind = "root"
                 \/ Same(i) /\ disk'[op.dd][op.to + i] = disk[op.dd][op.to + i]
      <4>1. i \in 0 .. op.count - 1 /\ i # 0
        BY <1>1
      <4>2. op.to + i \in Sectors(op.dd) /\ op.to + i # op.to /\ i \in Nat
        BY <1>1, <4>1, InCopy
      <4>3. Same(i)
        <5>1. ~OnItself
          BY <1>1, <2>1, <3>1, JudgedStays
        <5> QED BY <1>1, <4>1, <5>1, FixFinds
      <4>4. CASE i = EndRoot /\ IsRoot(EndRoot)
        <5>1. At(i).kind = "root" /\ Zero.kind = "zero"
          BY <4>4 DEF IsRoot, Zero
        <5> QED BY <1>1, <4>3, <5>1 DEF Same, CopiedBlock
      <4>5. CASE i # EndRoot \/ ~IsRoot(EndRoot)
        <5>1. op.to + i = op.to + EndRoot => i = EndRoot
          BY <1>1, <2>2, <4>2
        <5> QED BY <1>3, <4>2, <4>3, <4>5, <5>1
      <4> QED BY <4>4, <4>5
    <3> QED BY <1>1, <2>1, <3>1, BodiesStay
  <2>4. ASSUME Perfect'
        PROVE  /\ At(0)' = [SourceBlock(0)' EXCEPT !.at = op'.to]
               /\ Mounts("sfs", At(0)', op'.to, op'.count)
               /\ Mounts("sfs", At(op.count - 1)', op'.to, op'.count)
               /\ At(0)'.name = SourceBlock(0)'.name
               /\ WholeSource'
    <3>1. Perfect
      BY <1>1, <2>1, <2>4, JudgedStays
    <3>2. /\ \A i \in 0 .. op.count - 1 : At(i) = SourceBlock(i)
          /\ Mounts("sfs", At(0), At(0).at, op.count)
          /\ Mounts("sfs", At(op.count - 1), At(0).at, op.count)
          /\ IsRoot(0) /\ IsRoot(op.count - 1)
      BY <1>1, <3>1, FixFinds
    <3>3. EndRoot = op.count - 1 /\ op.count >= 2
      BY <1>3, <3>2 DEF Mounts, EndRoot
    <3>4. /\ op.to \in Sectors(op.dd) /\ op.to + EndRoot \in Sectors(op.dd) /\ op.to + 0 = op.to
          /\ op.to # op.to + EndRoot
      <4>1. op.count - 1 \in 0 .. op.count - 1 /\ op.count - 1 # 0 /\ 0 \in 0 .. op.count - 1
        BY <1>1, <3>3
      <4> QED BY <1>1, <3>3, <4>1, InCopy
    <3>5. At(0)' = Placed(0) /\ At(op.count - 1)' = Placed(EndRoot)
      BY <1>3, <2>1, <3>2, <3>3, <3>4 DEF At
    <3>6. SourceBlock(0)' = SourceBlock(0) /\ SourceBlock(0) = At(0)
      <4>1. 0 \in 0 .. op.count - 1
        BY <1>1
      <4> QED BY <1>1, <2>1, <3>2, <4>1, SourceStays
    <3>7. At(EndRoot) \in Blocks /\ At(EndRoot).kind = "root"
      BY <1>1, <3>2, <3>3, RootAt
    <3>8. /\ Placed(0).kind = "root" /\ Placed(0).type = At(0).type /\ Placed(0).at = op.to
          /\ Placed(0).size = At(0).size /\ Placed(0).name = At(0).name
      BY <2>2, RootFields DEF Placed
    <3>9. /\ Placed(EndRoot).kind = "root" /\ Placed(EndRoot).type = At(EndRoot).type
          /\ Placed(EndRoot).at = op.to /\ Placed(EndRoot).size = At(EndRoot).size
      BY <3>7, RootFields DEF Placed
    <3>10. Mounts("sfs", Placed(0), op.to, op.count)
      BY <3>2, <3>8 DEF Mounts
    <3>11. Mounts("sfs", Placed(EndRoot), op.to, op.count)
      BY <3>2, <3>3, <3>9 DEF Mounts
    <3>12. Placed(0) = [SourceBlock(0) EXCEPT !.at = op.to]
      BY <3>6 DEF Placed
    <3>13. WholeSource'
      BY <2>4 DEF Perfect, Judged
    <3> QED BY <2>1, <3>5, <3>6, <3>8, <3>10, <3>11, <3>12, <3>13
  <2>5. CASE Larger
    <3>1. pc' = "fill" /\ ~op'.ok
      BY <1>1, <2>1, <2>5
    <3> QED BY <2>3, <2>4, <3>1 DEF FInv
  <2>6. CASE ~Larger
    <3>1. pc' = After /\ After \in {"name", "table"} /\ ~op'.ok /\ PartCopy'
      BY <1>1, <2>1, <2>6, SourceStays DEF After
    <3>2. Count(op.dst) = op.count /\ (pc' = "table" => op.kind = "restore")
      <4>1. EntriesOK /\ op.src \in Entries /\ op.dst \in Entries
        BY <1>1, Running DEF EntriesOK
      <4>2. Count(op.dst) \in Nat
        BY <4>1, Extent
      <4> QED BY <1>1, <2>1, <2>6, <4>1, <4>2 DEF EntriesOK, Larger, PartCopy, After
    <3>3. Perfect' => Stands'
      <4> SUFFICES ASSUME Perfect' PROVE Stands'
        OBVIOUS
      <4>1. /\ Mounts("sfs", At(0)', op'.to, op'.count) /\ WholeSource'
            /\ Mounts("sfs", At(op.count - 1)', op'.to, op'.count)
        BY <2>4
      <4> QED BY <1>1, <2>1, <3>1, <3>2, <4>1, WholeStands
    <3>4. pc' = "table" => Renamed'
      BY <2>1, <3>2 DEF Renamed
    <3>5. Findable'
      BY <1>1, <2>1 DEF Findable
    <3> QED BY <1>1, <2>3, <2>4, <3>1, <3>3, <3>4, <3>5, FOnward
  <2> QED BY <2>5, <2>6
<1> QED BY <1>2, <1>3, FixSfsIs

\* The fixups of the other file systems change the root at most.
LEMMA FRoot ==
    ASSUME TInv, KInv, FInv, pc = "fix", TInv', Steady, file' = file, op' = op,
           op.dst.type # "sfs", pc' = After,
           \A y \in Sectors(op.dd) \ {op.to} : disk'[op.dd][y] = disk[op.dd][y],
           clean' \in {clean, FALSE},
           Perfect' => /\ Mounts(op.dst.type, At(0)', op.to, Count(op.dst))
                       /\ At(0)'.name = At(0).name
                       /\ op.dst.type = "ffs" => At(0)'.flag \/ (~Larger /\ At(0)' = At(0))
    PROVE  FInv'
<1>1. /\ pc # "idle" /\ PartCopy /\ ToDisk /\ op.done = op.count /\ ~op.ok /\ ~op.exact
      /\ op.count \in Nat \ {0} /\ op.to \in Nat \ {0} /\ op.dd \in Disks
  BY FixFinds
<1>2. Judged' => Bodies'
  <2>1. ASSUME Judged', NEW i \in 1 .. op.count - 1
        PROVE  Same(i) /\ disk'[op.dd][op.to + i] = disk[op.dd][op.to + i]
    <3>1. i \in 0 .. op.count - 1 /\ i # 0
      BY <1>1
    <3>2. op.to + i \in Sectors(op.dd) /\ op.to + i # op.to
      BY <1>1, <3>1, InCopy
    <3>3. ~OnItself
      BY <1>1, <2>1, JudgedStays
    <3> QED BY <1>1, <3>1, <3>2, <3>3, FixFinds
  <2> QED BY <1>1, <2>1, BodiesStay
<1>3. Perfect' => Stands' /\ At(0)'.name = SourceBlock(0)'.name /\ (Renamable' => Findable')
  <2> SUFFICES ASSUME Perfect'
               PROVE  Stands' /\ At(0)'.name = SourceBlock(0)'.name /\ (Renamable' => Findable')
    OBVIOUS
  <2>1. Perfect
    BY <1>1, JudgedStays
  <2>2. 0 \in 0 .. op.count - 1
    BY <1>1
  <2>3. At(0) = SourceBlock(0) /\ SourceBlock(0)' = SourceBlock(0)
    BY <1>1, <2>1, <2>2, FixFinds, SourceStays
  <2>4. Larger' = Larger
    BY DEF Larger
  <2>5. Renamable' => Findable'
    BY <2>3, <2>4 DEF Renamable, Findable
  <2> QED BY <2>3, <2>5 DEF Stands
<1>4. pc' \in {"name", "table"} /\ ~op'.ok
  BY <1>1 DEF After
<1>5. pc' = "table" => Renamed'
  BY DEF After, Renamed
<1> QED BY <1>1, <1>2, <1>3, <1>4, <1>5, FOnward

\* An entry that is no larger than the copy holds just as much.
LEMMA NotLarger ==
    ASSUME TInv, pc # "idle", PartCopy, op.done = op.count, pc # "copy",
           op.kind = "clone" => ~Larger
    PROVE  Count(op.dst) = op.count
<1>1. EntriesOK /\ op.src \in Entries /\ op.dst \in Entries
  BY Running DEF EntriesOK
<1>2. Count(op.dst) \in Nat /\ op.count \in Nat
  BY <1>1, Running, Extent
<1> QED BY <1>1, <1>2 DEF EntriesOK, Larger, PartCopy

LEMMA FFixFfs == ASSUME TInv, KInv, FInv, FixFfs PROVE FInv'
<1>1. /\ pc = "fix" /\ op.dst.type = "ffs" /\ Rest /\ file' = file /\ clean' = clean
      /\ TInv' /\ Steady
      /\ \A y \in Sectors(op.dd) \ {op.to} : disk'[op.dd][y] = disk[op.dd][y]
      /\ pc # "idle" /\ PartCopy /\ ToDisk /\ op.done = op.count /\ op'.zeroed = op.zeroed
      /\ ~op.exact /\ op.to \in Nat
  BY FixFfsIs, FixFfsType, FixFinds
<1>2. CASE Larger /\ Report(FALSE)
  BY <1>1, <1>2, Reported, Vacuous DEF Rest
<1>3. CASE ~Larger /\ Go(After) /\ disk' = disk
  <2>1. op' = op /\ pc' = After
    BY <1>1, <1>3, GoIs
  <2>2. At(0)' = At(0)
    BY <1>3, <2>1 DEF At
  <2>3. Perfect' => Mounts(op.dst.type, At(0)', op.to, Count(op.dst))
    <3>1. Perfect' => Perfect
      BY <1>1, <2>1, JudgedStays
    <3>2. Count(op.dst) = op.count
      BY <1>1, <1>3, NotLarger
    <3> QED BY <1>1, <2>2, <3>1, <3>2, FixFinds DEF Mounts
  <2> QED BY <1>1, <1>3, <2>1, <2>2, <2>3, FRoot
<1>4. CASE /\ Larger /\ IsRoot(0) /\ Go("name")
           /\ disk' = Change(disk, 0, [At(0) EXCEPT !.size = Count(op.dst), !.flag = TRUE])
  <2> DEFINE r == [At(0) EXCEPT !.size = Count(op.dst), !.flag = TRUE]
  <2>1. op' = op /\ pc' = After
    BY <1>1, <1>4, GoIs DEF After, Larger
  <2>2. At(0) \in Blocks /\ At(0).kind = "root" /\ op.to + 0 \in Sectors(op.dd)
        /\ op.to + 0 = op.to /\ At(0).type = "ffs"
    BY <1>1, <1>4, RootAt
  <2>3. Count(op.dst) \in Nat
    BY <1>1, Running, Extent DEF EntriesOK
  <2>4. r \in Blocks
    BY <2>2, <2>3, Rerooted
  <2>5. r.kind = "root" /\ r.type = "ffs" /\ r.size = Count(op.dst) /\ r.name = At(0).name
        /\ r.flag
    BY <2>2, RootFields
  <2>6. disk' = Change(disk, 0, r)
    BY <1>4
  <2> HIDE DEF r
  <2>7. disk'[op.dd][op.to] = r
    BY <1>1, <1>4, <2>2, <2>4, <2>6, RootChanged
  <2>8. At(0)' = r
    BY <2>1, <2>2, <2>7 DEF At
  <2>9. /\ Mounts(op.dst.type, At(0)', op.to, Count(op.dst)) /\ At(0)'.name = At(0).name
        /\ At(0)'.flag
    BY <1>1, <2>5, <2>8 DEF Mounts
  <2> QED BY <1>1, <2>1, <2>9, FRoot
<1> QED BY <1>2, <1>3, <1>4, FixFfsIs

LEMMA FFixPfs == ASSUME TInv, KInv, FInv, FixPfs PROVE FInv'
<1>1. /\ pc = "fix" /\ op.dst.type = "pfs" /\ Rest /\ file' = file /\ Go(After)
      /\ TInv' /\ Steady
      /\ \A y \in Sectors(op.dd) \ {op.to} : disk'[op.dd][y] = disk[op.dd][y]
      /\ pc # "idle" /\ PartCopy /\ ToDisk /\ op.done = op.count /\ ~op.exact /\ op.to \in Nat
  BY FixPfsIs, FixPfsType, FixFinds
<1>2. op' = op /\ pc' = After /\ op'.zeroed = op.zeroed
  BY <1>1, GoIs
<1>3. CASE /\ op.kind = "clone" /\ IsRoot(0) /\ clean' = clean
           /\ disk' = Change(disk, 0, [At(0) EXCEPT !.flag = FALSE])
  <2> DEFINE r == [At(0) EXCEPT !.flag = FALSE]
  <2>1. At(0) \in Blocks /\ At(0).kind = "root" /\ op.to + 0 \in Sectors(op.dd)
        /\ op.to + 0 = op.to /\ At(0).type = "pfs"
    BY <1>1, <1>3, RootAt
  <2>2. r \in Blocks
    BY <2>1, Rerooted
  <2>3. r.kind = "root" /\ r.type = "pfs" /\ r.flag = FALSE /\ r.name = At(0).name
    BY <2>1, RootFields
  <2>4. disk' = Change(disk, 0, r)
    BY <1>3
  <2> HIDE DEF r
  <2>5. disk'[op.dd][op.to] = r
    BY <1>1, <1>3, <2>1, <2>2, <2>4, RootChanged
  <2>6. At(0)' = r
    BY <1>2, <2>1, <2>5 DEF At
  <2>7. Mounts(op.dst.type, At(0)', op.to, Count(op.dst)) /\ At(0)'.name = At(0).name
    BY <1>1, <2>3, <2>6 DEF Mounts
  <2> QED BY <1>1, <1>2, <1>3, <2>7, FRoot
<1>4. CASE op.kind = "clone" /\ IsRoot(0) /\ clean' = FALSE /\ disk' = disk
  <2>1. ~Perfect'
    BY <1>4 DEF Perfect
  <2> QED BY <1>1, <1>2, <1>4, <2>1, FRoot
<1>5. CASE (op.kind # "clone" \/ ~IsRoot(0)) /\ clean' = clean /\ disk' = disk
  <2>1. At(0)' = At(0)
    BY <1>2, <1>5 DEF At
  <2>2. Perfect' => Mounts(op.dst.type, At(0)', op.to, Count(op.dst))
    <3> SUFFICES ASSUME Perfect' PROVE Mounts(op.dst.type, At(0)', op.to, Count(op.dst))
      OBVIOUS
    <3>1. Perfect
      BY <1>1, <1>2, <1>5, JudgedStays
    <3>2. IsRoot(0) /\ Mounts(op.dst.type, At(0), At(0).at, op.count)
      BY <1>1, <3>1, FixFinds
    <3>3. Count(op.dst) = op.count
      BY <1>1, <1>5, <3>2, NotLarger
    <3> QED BY <1>1, <2>1, <3>2, <3>3 DEF Mounts
  <2> QED BY <1>1, <1>2, <1>5, <2>1, <2>2, FRoot
<1> QED BY <1>3, <1>4, <1>5, FixPfsIs

\* The root of a volume is a block of it.
LEMMA SourceRoot ==
    ASSUME TInv, pc # "idle", op.kind = "clone", WholeSource
    PROVE  SourceBlock(0) \in Blocks /\ SourceBlock(0).kind = "root"
<1>1. SourceBlock(0).kind = "root"
  BY DEF WholeSource
<1>2. FromDisk /\ SourceBlock(0) # Zero
  BY <1>1 DEF Zero, FromDisk
<1>3. op.from + 0 \in Sectors(op.sd) /\ SourceBlock(0) = before[op.sd][op.from + 0]
  BY <1>2 DEF SourceBlock
<1> QED BY <1>1, <1>2, <1>3, Running, OnDisk

LEMMA FFillSfs == ASSUME TInv, KInv, FInv, FillSfs PROVE FInv'
<1> DEFINE n == NewTotal(Trimmed)
<1>1. /\ pc = "fill" /\ pc # "idle" /\ PartCopy /\ op.kind = "clone" /\ op.done = op.count
      /\ op.dst.type = "sfs" /\ IsRoot(0) /\ At(0).size \in Nat /\ At(0).size >= 2
      /\ Steady /\ file' = file /\ clean' = clean /\ TInv'
      /\ op'.dst = Trimmed /\ op'.ok = op.ok /\ op'.zeroed = op.zeroed
      /\ op'.exact = (Count(Trimmed) <= At(0).size)
      /\ n \in Nat /\ n >= At(0).size
  BY FillSfsIs, FillSfsType
<1>2. /\ ToDisk /\ ~op.ok /\ ~op.exact /\ op.count \in Nat \ {0} /\ op.to \in Nat \ {0}
      /\ op.dd \in Disks /\ PartCopy' /\ op'.to = op.to /\ op'.dd = op.dd /\ op'.count = op.count
  BY <1>1, Running, Copyable, SourceStays DEF Counted, FInv, Steady
<1>3. CASE pc' = "report" /\ disk' = disk
  BY <1>1, <1>2, <1>3, Vacuous
<1>4. CASE /\ pc' = "name" /\ op.to + n <= Size[op.dd]
           /\ \A y \in Sectors(op.dd) : disk'[op.dd][y] =
                 IF y = op.to + EndRoot THEN Zero
                 ELSE IF y = op.to + n - 1 THEN [At(0) EXCEPT !.n = n - 1, !.size = n]
                 ELSE IF y = op.to THEN [At(0) EXCEPT !.size = n]
                 ELSE disk[op.dd][y]
  <2>1. /\ At(0) \in Blocks /\ At(0).kind = "root" /\ op.to \in Sectors(op.dd)
        /\ op.to + 0 = op.to /\ At(0).type = "sfs"
    BY <1>1, <1>2, RootAt
  <2>2. ASSUME Judged'
        PROVE  /\ Judged /\ WholeSource /\ At(0).size = op.count /\ EndRoot = op.count - 1
               /\ n = Count(Trimmed) /\ n > op.count /\ SourceBlock(op.count - 1).kind = "root"
    <3>1. Judged /\ WholeSource /\ ~op'.exact
      BY <1>1, <1>2, <2>2, JudgedStays
    <3>2. /\ Mounts("sfs", SourceBlock(0), SourceBlock(0).at, op.count)
          /\ Mounts("sfs", SourceBlock(op.count - 1), SourceBlock(0).at, op.count)
      BY <1>1, <3>1, WholeRoot
    <3>3. At(0).size = SourceBlock(0).size
      BY <1>1 DEF KInv, Begins
    <3>4. At(0).size = op.count
      BY <3>2, <3>3 DEF Mounts
    <3>5. Trimmed \in Entries /\ Count(Trimmed) \in Nat
      BY <1>1, TrimmedIs, Extent
    <3>6. ~(Count(Trimmed) <= At(0).size)
      BY <1>1, <3>1
    <3>7. n = Count(Trimmed) /\ n > op.count
      BY <1>1, <1>2, <3>4, <3>5, <3>6, NewTotalIs
    <3> QED BY <3>1, <3>2, <3>4, <3>7 DEF Mounts, EndRoot
  <2>3. Judged' => Bodies'
    <3>1. ASSUME Judged', NEW i \in 1 .. op.count - 1
          PROVE  \/ SourceBlock(i).kind = "root"
                 \/ Same(i) /\ disk'[op.dd][op.to + i] = disk[op.dd][op.to + i]
      <4>1. Judged /\ EndRoot = op.count - 1 /\ n > op.count
            /\ SourceBlock(op.count - 1).kind = "root"
        BY <2>2, <3>1
      <4>2. Bodies
        BY <1>1, <4>1 DEF FInv
      <4>3. Same(i) \/ SourceBlock(i).kind = "root"
        BY <4>2 DEF Bodies
      <4>4. i \in 0 .. op.count - 1 /\ i # 0
        BY <1>2
      <4>5. op.to + i \in Sectors(op.dd) /\ op.to + i # op.to /\ i \in Nat
        BY <1>1, <1>2, <4>4, InCopy
      <4>6. CASE i = op.count - 1
        BY <4>1, <4>6
      <4>7. CASE i # op.count - 1
        <5>1. op.to + i # op.to + EndRoot /\ op.to + i # op.to + n - 1
          BY <1>1, <1>2, <4>1, <4>5, <4>7
        <5> HIDE DEF n
        <5> QED BY <1>4, <4>3, <4>5, <5>1
      <4> QED BY <4>6, <4>7
    <3> QED BY <1>1, <3>1, BodiesStay
  <2>4. ASSUME Perfect' PROVE Stands' /\ At(0)'.name = SourceBlock(0)'.name
    <3>1. Judged' /\ Perfect
      BY <1>1, <1>2, <2>4, JudgedStays DEF Perfect
    <3>2. /\ EndRoot = op.count - 1 /\ n = Count(Trimmed) /\ n > op.count
          /\ At(0).size = op.count
      BY <2>2, <3>1
    <3>3. At(0) = [SourceBlock(0) EXCEPT !.at = op.to]
      BY <1>1, <3>1 DEF FInv
    <3>4. op.to + (n - 1) \in Sectors(op.dd) /\ op.to + (n - 1) = op.to + n - 1
          /\ op.to + n - 1 # op.to + EndRoot /\ op.to # op.to + EndRoot /\ op.to # op.to + n - 1
      <4>1. Size[op.dd] \in Nat
        BY <1>2, SectorsOf
      <4> QED BY <1>1, <1>2, <1>4, <3>2, <4>1 DEF Sectors
    <3> DEFINE r == [At(0) EXCEPT !.size = n]
               s == [At(0) EXCEPT !.n = n - 1, !.size = n]
    <3>5. /\ r.kind = "root" /\ r.type = "sfs" /\ r.size = n /\ r.at = At(0).at
          /\ r.name = At(0).name
          /\ s.kind = "root" /\ s.type = "sfs" /\ s.size = n /\ s.at = At(0).at
      <4>1. n - 1 \in Nat
        BY <1>1
      <4> HIDE DEF n
      <4> QED BY <1>1, <2>1, <4>1, RootFields
    <3>6. disk'[op.dd][op.to] = r /\ disk'[op.dd][op.to + (n - 1)] = s
      <4> HIDE DEF n
      <4> QED BY <1>4, <2>1, <3>4
    <3>7. SourceBlock(0) \in [kind : {"root"}, type : Types, vol : Volumes, n : Nat, size : Nat,
                              at : Nat, flag : BOOLEAN, name : 0 .. MaxName]
      <4>1. SourceBlock(0) \in Blocks /\ SourceBlock(0).kind = "root"
        BY <1>1, <2>2, <3>1, SourceRoot
      <4> QED BY <4>1, RootFields
    <3>8. At(0).at = op.to /\ At(0).name = SourceBlock(0).name
      BY <3>3, <3>7
    <3> HIDE DEF r, s, n
    <3>9. At(0)' = r
      BY <1>2, <2>1, <3>6 DEF At
    <3>10. Mounts("sfs", r, op.to, n) /\ Mounts("sfs", s, op.to, n)
      BY <3>5, <3>8 DEF Mounts
    <3>11. SourceBlock(0)' = SourceBlock(0)
      BY <1>1, SourceStays
    <3>12. op'.dst.type = "sfs" /\ Count(op'.dst) = n
      BY <1>1, <3>2, TrimmedIs
    <3>13. At(Count(op.dst) - 1)' = s
      BY <1>2, <3>6, <3>12 DEF At
    <3>14. op'.to + Count(op'.dst) <= Size[op'.dd]
      BY <1>2, <1>4, <3>12
    <3>15. Stands'
      BY <1>2, <3>9, <3>10, <3>12, <3>13, <3>14 DEF Stands
    <3> QED BY <3>5, <3>8, <3>9, <3>11, <3>15
  <2>5. Findable'
    BY <1>1, TrimmedIs DEF Findable
  <2> QED BY <1>1, <1>2, <1>4, <2>3, <2>4, <2>5, FOnward
<1> QED BY <1>3, <1>4, FillSfsIs

\* What the steps after the fixups leave of the blocks.
LEMMA BodiesAgain ==
    ASSUME TInv, FInv, pc \in {"name", "table"}, Steady, file' = file, op'.zeroed = op.zeroed,
           op'.exact = op.exact,
           \A y \in Sectors(op.dd) \ {0, op.to} : disk'[op.dd][y] = disk[op.dd][y]
    PROVE  Judged' => Bodies'
<1>1. /\ pc # "idle" /\ PartCopy /\ op.done = op.count /\ ToDisk /\ op.count \in Nat \ {0}
  BY Running, Copyable DEF Counted
<1>2. ASSUME Judged', NEW i \in 1 .. op.count - 1
      PROVE  \/ SourceBlock(i).kind = "root"
             \/ Same(i) /\ disk'[op.dd][op.to + i] = disk[op.dd][op.to + i]
  <2>1. i \in 0 .. op.count - 1 /\ i # 0
    BY <1>1
  <2>2. op.to + i \in Sectors(op.dd) \ {0, op.to}
    BY <1>1, <2>1, InCopy
  <2>3. Judged
    BY <1>1, <1>2, JudgedStays DEF Judged
  <2>4. Bodies
    BY <2>3 DEF FInv
  <2> QED BY <2>2, <2>4 DEF Bodies
<1> QED BY <1>1, <1>2, BodiesStay

LEMMA FRename == ASSUME TInv, KInv, FInv, Rename PROVE FInv'
<1>1. /\ pc = "name" /\ Rest /\ file' = file /\ Go("table") /\ TInv' /\ Steady
      /\ \A x \in Disks \ {op.dd} : disk'[x] = disk[x]
      /\ \A y \in Sectors(op.dd) \ {op.to} : disk'[op.dd][y] = disk[op.dd][y]
  BY RenameIs, RenameType
<1>2. /\ pc # "idle" /\ PartCopy /\ ToDisk /\ op.done = op.count /\ ~op.ok /\ op.dd \in Disks
      /\ op.to \in Nat \ {0} /\ Sectors(op.dd) \subseteq Nat
  BY <1>1, Running, Copyable, SectorsOf DEF Counted, FInv
<1>3. op' = op /\ pc' = "table" /\ op'.zeroed = op.zeroed
  BY <1>1, <1>2, GoIs
<1>4. Judged' => Bodies'
  BY <1>1, <1>3, BodiesAgain
<1>5. ASSUME Perfect'
      PROVE  /\ Perfect /\ clean' = clean /\ clean /\ IsRoot(0)
             /\ Stands /\ At(0).name = SourceBlock(0).name /\ (Renamable => Findable)
  <2>1. Perfect /\ clean' = clean /\ clean
    <3>1. Judged' /\ Judged
      BY <1>1, <1>2, <1>3, <1>5, JudgedStays DEF Perfect, Judged
    <3>2. clean' \in {clean, FALSE} /\ clean'
      BY <1>5, RenameIs DEF Perfect
    <3> QED BY <1>3, <1>5, <3>1, <3>2 DEF Perfect
  <2>2. Stands /\ At(0).name = SourceBlock(0).name /\ (Renamable => Findable)
    BY <1>1, <2>1 DEF FInv
  <2>3. IsRoot(0)
    <3>1. op.count \in Nat \ {0} /\ op.to + 0 \in Sectors(op.dd)
      <4>1. op.count \in Nat \ {0}
        BY <1>2, Copyable
      <4>2. 0 \in 0 .. op.count - 1
        BY <4>1
      <4> QED BY <1>2, <4>1, <4>2, InCopy
    <3> QED BY <2>2, <3>1 DEF Stands, Mounts, IsRoot
  <2> QED BY <2>1, <2>2, <2>3
<1>6. SourceBlock(0)' = SourceBlock(0) /\ Renamable' = Renamable
  <2>1. SourceBlock(0)' = SourceBlock(0)
    BY <1>1, <1>2, SourceStays
  <2> QED BY <1>3, <2>1 DEF Renamable, Larger
<1>7. ASSUME Perfect', ~Findable PROVE Stands' /\ Renamed'
  <2>1. disk' = disk
    BY <1>7, RenameIs
  <2>2. \A i : At(i)' = At(i)
    BY <1>3, <2>1 DEF At
  <2>3. Stands'
    BY <1>3, <1>5, <1>7, <2>2 DEF Stands
  <2>4. ~Renamable'
    BY <1>5, <1>6, <1>7
  <2> QED BY <2>3, <2>4 DEF Renamed
<1>8. ASSUME Perfect', Findable PROVE Stands' /\ Renamed'
  <2>1. clean /\ clean' = clean
    BY <1>5, <1>8
  <2>2. Stands /\ At(0).name = SourceBlock(0).name
    BY <1>5, <1>8
  <2>3. IsRoot(0)
    BY <1>5, <1>8
  <2> DEFINE r == [At(0) EXCEPT !.name = Min({@ + 1, MaxName})]
  <2>4. At(0) \in Blocks /\ At(0).kind = "root" /\ op.to \in Sectors(op.dd) /\ op.to + 0 = op.to
        /\ At(0).name \in 0 .. MaxName
    BY <1>2, <2>3, RootAt
  <2>5. r \in Blocks
    BY <2>4, Rerooted
  <2>6. /\ r.kind = "root" /\ r.type = At(0).type /\ r.size = At(0).size /\ r.at = At(0).at
        /\ r.flag = At(0).flag /\ r.name = Min({At(0).name + 1, MaxName})
    BY <2>4, RootFields
  <2>7. At(0).name < MaxName => r.name # At(0).name
    <3>1. MaxName \in Nat
      BY ConstantsAssumption
    <3>2. r.name = IF At(0).name + 1 <= MaxName THEN At(0).name + 1 ELSE MaxName
      BY <2>4, <2>6, <3>1, MinOfTwo
    <3> QED BY <2>4, <3>1, <3>2
  <2>8. disk' = Change(disk, 0, r)
    BY <1>8, <2>1, <2>3, RenameIs
  <2> HIDE DEF r
  <2>9. \A y \in Sectors(op.dd) : disk'[op.dd][y] = IF y = op.to THEN r ELSE disk[op.dd][y]
    BY <1>2, <2>3, <2>5, <2>8, RootChanged
  <2>10. At(0)' = r
    BY <1>3, <2>4, <2>9 DEF At
  <2>11. \A n : Mounts(op.dst.type, At(0), op.to, n) => Mounts(op.dst.type, r, op.to, n)
    BY <2>6 DEF Mounts
  <2>12. ASSUME op.dst.type = "sfs"
         PROVE  Mounts("sfs", At(Count(op.dst) - 1)', op.to, Count(op.dst))
    <3>1. Mounts("sfs", At(Count(op.dst) - 1), op.to, Count(op.dst))
          /\ op.to + Count(op.dst) <= Size[op.dd]
      BY <2>2, <2>12 DEF Stands
    <3>2. Count(op.dst) \in Nat \ {0} /\ Size[op.dd] \in Nat
      BY <1>2, Running, SectorsOf, Extent DEF EntriesOK
    <3>3. op.to + (Count(op.dst) - 1) \in Sectors(op.dd)
      BY <1>2, <3>1, <3>2 DEF Sectors
    <3>4. At(Count(op.dst) - 1)' = disk'[op.dd][op.to + (Count(op.dst) - 1)]
      BY <1>3 DEF At
    <3>5. CASE Count(op.dst) - 1 = 0
      BY <2>4, <2>9, <2>11, <2>12, <3>1, <3>3, <3>4, <3>5
    <3>6. CASE Count(op.dst) - 1 # 0
      <4>1. op.to + (Count(op.dst) - 1) # op.to
        BY <1>2, <3>2, <3>6
      <4>2. At(Count(op.dst) - 1)' = At(Count(op.dst) - 1)
        BY <2>9, <3>3, <3>4, <4>1 DEF At
      <4> QED BY <3>1, <4>2
    <3> QED BY <3>5, <3>6
  <2>13. Stands'
    <3>1. Mounts(op.dst.type, r, op.to, Count(op.dst))
      BY <2>2, <2>11 DEF Stands
    <3>2. op.dst.type = "sfs" => op.to + Count(op.dst) <= Size[op.dd]
      BY <2>2 DEF Stands
    <3> QED BY <1>3, <2>10, <2>12, <3>1, <3>2 DEF Stands
  <2>14. Renamed'
    <3> QED BY <1>6, <2>2, <2>7, <2>10 DEF Renamed
  <2> QED BY <2>13, <2>14
<1>9. ~op'.ok
  BY <1>2, <1>3
<1> QED BY <1>2, <1>3, <1>4, <1>7, <1>8, <1>9, FOnward

LEMMA FTableWrite == ASSUME TInv, KInv, FInv, TableWrite PROVE FInv'
<1>1. /\ pc = "table" /\ pc # "idle" /\ PartCopy /\ op.done = op.count /\ TInv'
      /\ Steady /\ file' = file /\ clean' = clean
      /\ mem'.tbl.parts = mem.tbl.parts
      /\ op'.dst = op.dst /\ op'.done = op.done /\ op'.zeroed = op.zeroed
      /\ op'.exact = op.exact /\ pc' = "report"
      /\ \A y \in Sectors(op.dd) \ {0} : disk'[op.dd][y] = disk[op.dd][y]
  BY TableWriteIs, TableWriteType
<1>2. /\ ToDisk /\ op.dd \in Disks /\ op.to \in Nat \ {0} /\ op.count \in Nat \ {0} /\ EntriesOK
      /\ PartCopy' /\ op'.dd = op.dd /\ op'.to = op.to /\ op'.count = op.count
      /\ op'.kind = op.kind
  BY <1>1, Running, Copyable, SourceStays DEF Steady
<1>3. CASE op'.ok = FALSE
  BY <1>1, <1>3, Vacuous
<1>4. CASE disk'[op.dd][0] = mem'.tbl /\ op'.ok = TRUE
  <2>1. Judged' => Bodies'
    BY <1>1, BodiesAgain
  <2>2. ASSUME Perfect' PROVE Stands' /\ Renamed' /\ op'.dst \in Table(op.dd)'.parts
    <3>1. Perfect
      BY <1>1, <2>2, JudgedStays DEF Perfect, Judged
    <3>2. Stands /\ Renamed
      BY <1>1, <3>1 DEF FInv
    <3>3. \A i \in Nat : op.to + i \in Sectors(op.dd) => At(i)' = At(i)
      <4> SUFFICES ASSUME NEW i \in Nat, op.to + i \in Sectors(op.dd) PROVE At(i)' = At(i)
        OBVIOUS
      <4>1. op.to + i # 0
        BY <1>2
      <4> QED BY <1>1, <1>2, <4>1 DEF At
    <3>4. op.to + 0 \in Sectors(op.dd)
      <4>1. 0 \in 0 .. op.count - 1
        BY <1>2
      <4> QED BY <1>1, <1>2, <4>1, InCopy
    <3>5. At(0)' = At(0)
      BY <3>3, <3>4
    <3>6. op.dst.type = "sfs" => At(Count(op.dst) - 1)' = At(Count(op.dst) - 1)
      <4> SUFFICES ASSUME op.dst.type = "sfs"
                   PROVE  At(Count(op.dst) - 1)' = At(Count(op.dst) - 1)
        OBVIOUS
      <4>1. op.to + Count(op.dst) <= Size[op.dd]
        BY <3>2 DEF Stands
      <4>2. Count(op.dst) \in Nat \ {0} /\ Size[op.dd] \in Nat
        BY <1>2, SectorsOf, Extent DEF EntriesOK
      <4>3. op.to + (Count(op.dst) - 1) \in Sectors(op.dd) /\ op.to + (Count(op.dst) - 1) # 0
        BY <1>2, <4>1, <4>2 DEF Sectors
      <4> QED BY <1>1, <1>2, <4>3 DEF At
    <3>7. Stands'
      BY <1>1, <1>2, <3>2, <3>5, <3>6 DEF Stands
    <3>8. Renamed'
      <4>1. SourceBlock(0)' = SourceBlock(0)
        BY <1>1, SourceStays
      <4>2. Renamable' = Renamable
        BY <1>1, <1>2, <4>1 DEF Renamable, Larger
      <4> QED BY <1>2, <3>2, <3>5, <4>1, <4>2 DEF Renamed
    <3>9. op'.dst \in Table(op.dd)'.parts
      BY <1>1, <1>2, <1>4 DEF Table, EntriesOK
    <3> QED BY <3>7, <3>8, <3>9
  <2> QED BY <1>1, <1>2, <2>1, <2>2 DEF FInv
<1> QED BY <1>3, <1>4, TableWriteIs

LEMMA FInit == ASSUME Init PROVE FInv
BY DEF Init, FInv, NoOp

LEMMA FStep == ASSUME TInv, KInv, FInv, [Next]_vars PROVE FInv'
<1>1. TInv' /\ (Fresh \/ Onward \/ UNCHANGED vars)
  BY TypeStep
<1>2. CASE Fresh
  BY <1>1, <1>2, FBegin
<1>3. CASE UNCHANGED vars
  <2>1. /\ disk' = disk /\ file' = file /\ mem' = mem /\ pc' = pc /\ op' = op
        /\ before' = before /\ clean' = clean /\ ops' = ops /\ troubles' = troubles
    BY <1>3 DEF vars
  <2>2. /\ \A i : Same(i)' = Same(i) /\ At(i)' = At(i) /\ SourceBlock(i)' = SourceBlock(i)
        /\ PartCopy' = PartCopy /\ OnItself' = OnItself /\ WholeSource' = WholeSource
    BY <2>1 DEF Same, CopiedBlock, SourceBlock, At, ToDisk, FromDisk, PartCopy, OnItself,
                WholeSource
  <2>3. Judged' = Judged /\ Perfect' = Perfect /\ Bodies' = Bodies
    BY <2>1, <2>2 DEF Judged, Perfect, Bodies
  <2>4. Stands' = Stands /\ Renamed' = Renamed
    BY <2>1 DEF Stands, Renamed, Renamable, Larger, SourceBlock, At, FromDisk
  <2>5. /\ At(op.count - 1)' = At(op.count - 1) /\ Table(op.dd)' = Table(op.dd)
        /\ Renamable' = Renamable /\ Findable' = Findable
    BY <2>1 DEF At, Table, Renamable, Findable, Larger, SourceBlock, FromDisk
  <2> QED BY <2>1, <2>2, <2>3, <2>4, <2>5 DEF FInv
<1>4. CASE Short \/ Fail \/ Cancel
  <2>1. pc # "idle" /\ Report(FALSE) /\ before' = before
    BY <1>4, Running DEF Short, Fail, Cancel, Rest
  <2> QED BY <2>1, Reported, Vacuous
<1>5. CASE Next1 \/ Copied \/ FixSfs \/ FillSfs \/ FixFfs \/ FixPfs
  BY <1>5, FNext1, FCopied, FFixSfs, FFillSfs, FFixFfs, FFixPfs
<1>6. CASE Rename \/ TableWrite \/ Geometry
  BY <1>6, FRename, FTableWrite, FGeometry
<1>7. CASE Close \/ Crash
  BY <1>7, Vacuous DEF Close, Crash, NoOp
<1> QED BY <1>1, <1>2, <1>3, <1>4, <1>5, <1>6, <1>7 DEF Onward, Advance

LEMMA FaithfulHolds == ASSUME TInv, FInv PROVE Faithful
<1> SUFFICES ASSUME pc = "report", op.ok
             PROVE  /\ op.kind \notin {"clone", "restore"} =>
                        \A i \in 0 .. op.count - 1 : Same(i) \/ (i = 0 /\ op.kind = "diskcopy")
                    /\ PartCopy /\ WholeSource /\ ~op.exact /\ ~OnItself =>
                        /\ \A i \in 1 .. op.count - 1 : Same(i) \/ SourceBlock(i).kind = "root"
                        /\ clean /\ op.zeroed = {} => MountsCopy
  BY DEF Faithful, PartCopy
<1>1. op.done = op.count /\ pc # "idle"
  BY DEF FInv
<1>2. op.kind \notin {"clone", "restore"} =>
          \A i \in 0 .. op.count - 1 : Same(i) \/ (i = 0 /\ op.kind = "diskcopy")
  BY DEF FInv, PartCopy
<1>3. ASSUME PartCopy, WholeSource, ~op.exact, ~OnItself
      PROVE  /\ \A i \in 1 .. op.count - 1 : Same(i) \/ SourceBlock(i).kind = "root"
             /\ clean /\ op.zeroed = {} => MountsCopy
  <2>1. Judged
    BY <1>3 DEF Judged
  <2>2. Bodies
    BY <2>1 DEF FInv
  <2>3. ASSUME clean, op.zeroed = {} PROVE MountsCopy
    <3>1. Stands /\ Renamed /\ op.dst \in Table(op.dd).parts
      BY <2>1, <2>3 DEF FInv, Perfect
    <3>2. Base(op.dst) = op.to
      <4>1. EntriesOK
        BY <1>1, <1>3, Running
      <4> QED BY <1>1, <1>3, <4>1 DEF EntriesOK, Written, PartCopy
    <3> QED BY <3>1, <3>2 DEF MountsCopy, Stands, Renamed
  <2> QED BY <2>2, <2>3 DEF Bodies
<1> QED BY <1>2, <1>3

\* A copy that reports success holds every block of the source, zeros in place of those that
\* could not be read; and a volume that mounted mounts at its new place, by an entry of the
\* table that is on the disk and, if cloned, under a name of its own, where the boot block of
\* FFS says which sector has the name (pc_copy_loop,
\* pc_sfs_fixup, FFS_GrowPartition, SFS_GrowPartition, pc_pfs_clear_sizefield, pc_cl_name).
THEOREM CopyFaithful == Spec => []Faithful
<1>1. Init => TInv /\ KInv /\ FInv
  BY TypeInit, KInit, FInit
<1>2. TInv /\ KInv /\ FInv /\ [Next]_vars => (TInv /\ KInv /\ FInv)'
  BY TypeStep, KStep, FStep
<1>3. TInv /\ KInv /\ FInv => Faithful
  BY FaithfulHolds
<1> QED BY <1>1, <1>2, <1>3, PTL DEF Spec
=============================================================================
