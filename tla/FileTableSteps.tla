--------------------------- MODULE FileTableSteps ---------------------------
(***************************************************************************)
(* The inductive invariant of the open files, how references are counted,  *)
(* and its preservation by the calls that make, copy and drop descriptors. *)
(* FileTableProofs has the calls on pipes, fileclose and the theorems.     *)
(***************************************************************************)
EXTENDS FileTable, FiniteSetTheorems, WellFoundedInduction, TLAPS

End == {"read", "write"}
What == {NoFile, OnInode} \cup {PipeEnd(o, e) : o \in Page, e \in End}
Pc == {"user", "open", "pipe", "dup", "close", "last", "fork", "exit", "dead"}

TypeOK ==
  /\ ref \in [File -> Int]
  /\ what \in [File -> What]
  /\ ofile \in [Process -> [Fd -> File \cup {None}]]
  /\ open \in [Page -> SUBSET End]
  /\ inodes \in Int
  /\ pc \in [Process -> Pc]
  /\ held \in [Process -> Seq(File)]
  /\ last \in [Process -> What]
  /\ child \in [Process -> Process]
  /\ fd \in [Process -> 0..NOFILE]

\* How many files a process has in local variables, and which descriptors are
\* empty while dup and exit are under way.
ControlInv ==
  \A p \in Process :
    /\ pc[p] \in {"user", "dup", "fork", "exit", "dead"} => Len(held[p]) = 0
    /\ pc[p] = "open" => Len(held[p]) = 1
    /\ pc[p] \in {"pipe", "close"} => Len(held[p]) \in {1, 2}
    /\ pc[p] = "last" => Len(held[p]) \in {0, 1}
    /\ pc[p] \in {"user", "open", "pipe", "dead"} => fd[p] = 0
    /\ pc[p] \in {"exit", "close", "last"} => \A i \in Fd : i < fd[p] => ofile[p][i] = None
    /\ pc[p] = "dead" => \A i \in Fd : ofile[p][i] = None
    /\ pc[p] = "dup" => /\ fd[p] \in Fd /\ ofile[p][fd[p]] # None
                        /\ \E j \in Fd : j # fd[p] /\ ofile[p][j] = ofile[p][fd[p]]

\* A process has at most one child under construction, whose descriptors are
\* empty from the one fork is at.
ForkInv ==
  /\ \A p \in Process : child[p] # p =>
       /\ pc[p] = "fork" /\ pc[child[p]] = "fork"
       /\ child[child[p]] = child[p]
       /\ \A i \in Fd : i >= fd[p] => ofile[child[p]][i] = None
  /\ \A p, q \in Process : child[p] = child[q] /\ child[p] # p /\ child[q] # q => p = q

\* A file without references has no type, and the files sys_open and pipealloc
\* have just allocated are theirs alone.
FreshInv ==
  /\ \A f \in File : ref[f] = 0 => what[f] = NoFile
  /\ \A p \in Process : pc[p] \in {"open", "pipe"} => ref[held[p][1]] = 1
  /\ \A p \in Process : pc[p] = "pipe" /\ Len(held[p]) = 2 => ref[held[p][2]] = 1
  /\ \A p \in Process : pc[p] = "open" => what[held[p][1]] = NoFile
  /\ \A p \in Process : pc[p] = "pipe" /\ Len(held[p]) = 1 => what[held[p][1]] = NoFile
  /\ \A p \in Process : pc[p] = "pipe" /\ Len(held[p]) = 2 /\ what[held[p][1]] = NoFile => what[held[p][2]] = NoFile
  /\ \A p \in Process : pc[p] # "last" => last[p] = NoFile

\* An end of a pipe belongs to one file, or to one process that is closing it.
OneEnd ==
  \A o \in Page, e \in End :
    /\ \A f, g \in File : what[f] = PipeEnd(o, e) /\ what[g] = PipeEnd(o, e) => f = g
    /\ \A f \in File, p \in Process : what[f] = PipeEnd(o, e) => last[p] # PipeEnd(o, e)
    /\ \A p, q \in Process : last[p] = PipeEnd(o, e) /\ last[q] = PipeEnd(o, e) => p = q

FInv == TypeOK /\ ControlInv /\ ForkInv /\ RefCount /\ FreshInv /\ OneEnd /\ LastCloseOnce
-----------------------------------------------------------------------------
\* A nonempty set of naturals has a least element.
LEMMA Least ==
  ASSUME NEW T \in SUBSET Nat, T # {}
  PROVE  \E x \in T : \A y \in T : x <= y
<1>. DEFINE R == OpToRel(<, Nat)
<1>1. IsWellFoundedOn(R, Nat)
  BY NatLessThanWellFounded, Zenon
<1>2. \A x, y \in Nat : x < y => <<x, y>> \in R
  BY DEF OpToRel
<1>. HIDE DEF R
<1>3. \E x \in T : \A y \in T : ~ (<<y, x>> \in R)
  BY <1>1, WFMin, Zenon
<1>4. PICK x \in T : \A y \in T : ~ (<<y, x>> \in R)
  BY <1>3
<1>5. ASSUME NEW y \in T PROVE x <= y
  <2>1. x \in Nat /\ y \in Nat
    OBVIOUS
  <2>2. ~(y < x)
    BY <1>4, <1>2, <2>1, Zenon
  <2>. QED BY <2>1, <2>2
<1>. QED BY <1>5

\* filealloc and fdalloc take an element of what they search.
LEMMA FirstFacts ==
  ASSUME NEW T \in SUBSET Nat, T # {}
  PROVE  First(T) \in T
BY Least, Zenon DEF First

LEMMA ConstFacts ==
  /\ NFILE \in Nat /\ NOFILE \in Nat /\ NOFILE > 0
  /\ File \subseteq Nat /\ None \notin File /\ Fd \subseteq Nat
  /\ \A i \in Nat : i \in Fd <=> i < NOFILE
  /\ Fd \subseteq 0..NOFILE + 1
  /\ NOFILE \in 0..NOFILE + 1 /\ NOFILE + 1 \in 0..NOFILE + 1
BY FileAssumption DEF File, Fd, None

\* The kinds of a file differ, and a pipe's end determines the pipe and the end.
LEMMA WhatFacts ==
  /\ NoFile # OnInode /\ NoFile.type = "NONE" /\ OnInode.type = "INODE"
  /\ NoFile \in What /\ OnInode \in What
  /\ \A o \in Page, e \in End :
       /\ PipeEnd(o, e) \in What
       /\ PipeEnd(o, e) # NoFile /\ PipeEnd(o, e) # OnInode
       /\ PipeEnd(o, e).type = "PIPE" /\ PipeEnd(o, e).obj = o /\ PipeEnd(o, e).end = e
  /\ \A w \in What : w = NoFile \/ w = OnInode \/ \E o \in Page, e \in End : w = PipeEnd(o, e)
<1>1. /\ NoFile.type = "NONE" /\ OnInode.type = "INODE"
      /\ NoFile \in What /\ OnInode \in What
  BY DEF NoFile, OnInode, What
<1>2. ASSUME NEW o \in Page, NEW e \in End
      PROVE  PipeEnd(o, e) \in What
  BY DEF What
<1>3. ASSUME NEW o \in Page, NEW e \in End
      PROVE  PipeEnd(o, e).type = "PIPE" /\ PipeEnd(o, e).obj = o /\ PipeEnd(o, e).end = e
  BY DEF PipeEnd
<1>4. ASSUME NEW w \in What
      PROVE  w = NoFile \/ w = OnInode \/ \E o \in Page, e \in End : w = PipeEnd(o, e)
  BY DEF What
<1>5. NoFile # OnInode
  BY <1>1
<1>6. ASSUME NEW o \in Page, NEW e \in End
      PROVE  PipeEnd(o, e) # NoFile /\ PipeEnd(o, e) # OnInode
  BY <1>1, <1>3
<1>. QED BY <1>1, <1>2, <1>3, <1>4, <1>5, <1>6

LEMMA PipeEndFacts ==
  ASSUME NEW o \in Page, NEW e \in End
  PROVE  /\ PipeEnd(o, e) \in What
         /\ PipeEnd(o, e) # NoFile /\ PipeEnd(o, e) # OnInode
         /\ PipeEnd(o, e).type = "PIPE" /\ PipeEnd(o, e).obj = o /\ PipeEnd(o, e).end = e
BY WhatFacts, Zenon

LEMMA PipeEndInjective ==
  ASSUME NEW o \in Page, NEW e \in End, NEW o2 \in Page, NEW e2 \in End, PipeEnd(o, e) = PipeEnd(o2, e2)
  PROVE  o = o2 /\ e = e2
<1>1. /\ PipeEnd(o, e).obj = o /\ PipeEnd(o, e).end = e
      /\ PipeEnd(o2, e2).obj = o2 /\ PipeEnd(o2, e2).end = e2
  BY PipeEndFacts
<1>. QED BY <1>1

LEMMA WhatCases ==
  ASSUME NEW w \in What
  PROVE  w = NoFile \/ w = OnInode \/ \E o \in Page, e \in End : w = PipeEnd(o, e)
BY WhatFacts, Zenon

\* The slots that refer to f when they contain T.
RefsOf(T, f) == {s \in Slot : T[s] = f}
Count(T, f) == Cardinality(RefsOf(T, f))
Tables == [Slot -> File \cup {None}]

\* The slots are finitely many.
LEMMA SlotFinite == \A T, f : IsFiniteSet(RefsOf(T, f))
<1>1. IsFiniteSet(0..NOFILE + 1)
  BY ConstFacts, FS_Interval
<1>2. IsFiniteSet(Slot)
  BY <1>1, FileAssumption, FS_Product DEF Slot
<1>. SUFFICES ASSUME NEW T, NEW f PROVE IsFiniteSet(RefsOf(T, f))
  OBVIOUS
<1>3. RefsOf(T, f) \subseteq Slot
  BY DEF RefsOf
<1>. QED BY <1>2, <1>3, FS_Subset

\* Adding, removing and moving one reference.
LEMMA CardAdd ==
  ASSUME NEW R, IsFiniteSet(R), NEW x, x \notin R
  PROVE  Cardinality(R \cup {x}) = Cardinality(R) + 1
BY FS_AddElement

LEMMA CardRemove ==
  ASSUME NEW R, IsFiniteSet(R), NEW x \in R
  PROVE  Cardinality(R \ {x}) = Cardinality(R) - 1
BY FS_RemoveElement

LEMMA CardMove ==
  ASSUME NEW R, IsFiniteSet(R), NEW x \in R, NEW y, y \notin R
  PROVE  Cardinality((R \ {x}) \cup {y}) = Cardinality(R)
<1>1. IsFiniteSet(R \ {x}) /\ Cardinality(R \ {x}) = Cardinality(R) - 1
  BY FS_RemoveElement
<1>2. Cardinality((R \ {x}) \cup {y}) = Cardinality(R \ {x}) + 1
  BY <1>1, FS_AddElement
<1>3. Cardinality(R) \in Nat
  BY FS_CardinalityType
<1>. QED BY <1>1, <1>2, <1>3

\* The count of references after a slot gets a file, loses it, or hands it over.
LEMMA CountAdd ==
  ASSUME NEW T \in Tables, NEW x \in Slot, NEW f \in File, T[x] = None, NEW g \in File
  PROVE  LET T2 == [T EXCEPT ![x] = f]
         IN  T2 \in Tables /\ Count(T2, g) = IF g = f THEN Count(T, g) + 1 ELSE Count(T, g)
<1>. DEFINE T2 == [T EXCEPT ![x] = f]
<1>. SUFFICES T2 \in Tables /\ Count(T2, g) = IF g = f THEN Count(T, g) + 1 ELSE Count(T, g)
  OBVIOUS
<1>1. T2 \in Tables
  BY DEF Tables
<1>2. CASE g = f
  <2>1. RefsOf(T2, g) = RefsOf(T, g) \cup {x} /\ x \notin RefsOf(T, g)
    BY <1>2, ConstFacts DEF Tables, RefsOf
  <2>. HIDE DEF T2
  <2>2. IsFiniteSet(RefsOf(T, g))
    BY SlotFinite
  <2>. QED BY <1>1, <1>2, <2>1, <2>2, CardAdd DEF Count
<1>3. CASE g # f
  <2>1. RefsOf(T2, g) = RefsOf(T, g)
    BY <1>3, ConstFacts DEF Tables, RefsOf
  <2>. QED BY <1>1, <1>3, <2>1 DEF Count
<1>. QED BY <1>2, <1>3

\* T2 is T with one reference more, to f from slot x.
Added(T, T2, x, f) ==
  /\ T \in Tables /\ x \in Slot /\ f \in File /\ T[x] = None
  /\ T2 = [T EXCEPT ![x] = f]

LEMMA CountAdded ==
  ASSUME NEW T, NEW T2, NEW x, NEW f, Added(T, T2, x, f)
  PROVE  Count(T2, f) = Count(T, f) + 1 /\ \A g \in File : g # f => Count(T2, g) = Count(T, g)
<1>1. T \in Tables /\ x \in Slot /\ f \in File /\ T[x] = None /\ T2 = [T EXCEPT ![x] = f]
  BY DEF Added
<1>2. ASSUME NEW g \in File
      PROVE  Count([T EXCEPT ![x] = f], g) = IF g = f THEN Count(T, g) + 1 ELSE Count(T, g)
  BY <1>1, CountAdd
<1>. QED BY <1>1, <1>2

LEMMA CountRemove ==
  ASSUME NEW T \in Tables, NEW x \in Slot, NEW f \in File, T[x] = f, NEW g \in File
  PROVE  LET T2 == [T EXCEPT ![x] = None]
         IN  T2 \in Tables /\ Count(T2, g) = IF g = f THEN Count(T, g) - 1 ELSE Count(T, g)
<1>. DEFINE T2 == [T EXCEPT ![x] = None]
<1>. SUFFICES T2 \in Tables /\ Count(T2, g) = IF g = f THEN Count(T, g) - 1 ELSE Count(T, g)
  OBVIOUS
<1>1. T2 \in Tables
  BY DEF Tables
<1>2. CASE g = f
  <2>1. RefsOf(T2, g) = RefsOf(T, g) \ {x} /\ x \in RefsOf(T, g)
    BY <1>2, ConstFacts DEF Tables, RefsOf
  <2>. HIDE DEF T2
  <2>2. IsFiniteSet(RefsOf(T, g))
    BY SlotFinite
  <2>. QED BY <1>1, <1>2, <2>1, <2>2, CardRemove DEF Count
<1>3. CASE g # f
  <2>1. RefsOf(T2, g) = RefsOf(T, g)
    BY <1>3, ConstFacts DEF Tables, RefsOf
  <2>. QED BY <1>1, <1>3, <2>1 DEF Count
<1>. QED BY <1>2, <1>3

LEMMA CountMove ==
  ASSUME NEW T \in Tables, NEW T2 \in Tables, NEW x \in Slot, NEW y \in Slot, T[x] \in File, T[y] = None,
         \A s \in Slot : T2[s] = IF s = x THEN None ELSE IF s = y THEN T[x] ELSE T[s],
         NEW g \in File
  PROVE  Count(T2, g) = Count(T, g)
<1>1. x # y
  BY ConstFacts
<1>2. CASE g = T[x]
  <2>1. /\ RefsOf(T2, g) = (RefsOf(T, g) \ {x}) \cup {y}
        /\ x \in RefsOf(T, g) /\ y \notin RefsOf(T, g)
    BY <1>1, <1>2, ConstFacts DEF RefsOf
  <2>2. IsFiniteSet(RefsOf(T, g))
    BY SlotFinite
  <2>. QED BY <2>1, <2>2, CardMove DEF Count
<1>3. CASE g # T[x]
  <2>1. RefsOf(T2, g) = RefsOf(T, g)
    BY <1>1, <1>3, ConstFacts DEF RefsOf
  <2>. QED BY <2>1 DEF Count
<1>. QED BY <1>2, <1>3

\* A counted file has a reference, an uncounted one has none, and a file counted
\* once has only one.
LEMMA CountFacts ==
  ASSUME RefCount, NEW f \in File
  PROVE  /\ ref[f] = Count(Table, f)
         /\ ref[f] \in Nat
         /\ \A s \in Slot : Table[s] = f => ref[f] >= 1
         /\ \A s, t \in Slot : Table[s] = f /\ Table[t] = f /\ ref[f] = 1 => s = t
<1>. DEFINE R == RefsOf(Table, f)
<1>1. IsFiniteSet(R) /\ ref[f] = Cardinality(R)
  <2>1. R = {s \in Slot : Table[s] = f}
    BY DEF RefsOf
  <2>2. IsFiniteSet(R)
    BY SlotFinite
  <2>. HIDE DEF R
  <2>. QED BY <2>1, <2>2 DEF RefCount
<1>2. \A s \in Slot : s \in R <=> Table[s] = f
  BY DEF RefsOf
<1>3. ref[f] = Count(Table, f)
  BY <1>1 DEF Count
<1>. HIDE DEF R
<1>4. ref[f] \in Nat
  BY <1>1, FS_CardinalityType
<1>5. ref[f] = 0 => R = {}
  BY <1>1, FS_EmptySet, Zenon
<1>6. ref[f] = 1 => \E x : R = {x}
  BY <1>1, FS_Singleton, Zenon
<1>7. \A s \in Slot : Table[s] = f => ref[f] >= 1
  BY <1>2, <1>4, <1>5
<1>8. \A s, t \in Slot : Table[s] = f /\ Table[t] = f /\ ref[f] = 1 => s = t
  BY <1>2, <1>6
<1>. QED BY <1>3, <1>4, <1>7, <1>8

\* What the slots of a process contain.
SlotValues ==
  /\ Table \in Tables
  /\ \A p \in Process, i \in Fd :
       /\ <<p, i>> \in Slot
       /\ Table[<<p, i>>] = IF pc[p] = "dup" /\ fd[p] = i THEN None ELSE ofile[p][i]
  /\ \A p \in Process :
       /\ <<p, NOFILE>> \in Slot /\ <<p, NOFILE + 1>> \in Slot
       /\ Table[<<p, NOFILE>>] = IF Len(held[p]) > 0 THEN held[p][1] ELSE None
       /\ Table[<<p, NOFILE + 1>>] = IF Len(held[p]) > 1 THEN held[p][2] ELSE None

LEMMA TableFacts == TypeOK => SlotValues
<1>. SUFFICES ASSUME TypeOK PROVE SlotValues
  OBVIOUS
<1>. USE ConstFacts DEF TypeOK
<1>1. ASSUME NEW p \in Process, NEW i \in 0..NOFILE + 1
      PROVE  /\ <<p, i>> \in Slot
             /\ Table[<<p, i>>] = IF i < NOFILE
                                  THEN IF pc[p] = "dup" /\ fd[p] = i THEN None ELSE ofile[p][i]
                                  ELSE IF i - NOFILE < Len(held[p]) THEN held[p][i - NOFILE + 1] ELSE None
  BY DEF Slot, Table
<1>2. ASSUME NEW s \in Slot PROVE Table[s] \in File \cup {None}
  <2>1. PICK p \in Process, i \in 0..NOFILE + 1 : s = <<p, i>>
    BY DEF Slot
  <2>2. CASE i < NOFILE
    BY <1>1, <2>1, <2>2
  <2>3. CASE i >= NOFILE
    <3>1. held[p] \in Seq(File) /\ i - NOFILE \in Nat
      BY <2>3
    <3>2. Table[s] = IF i - NOFILE < Len(held[p]) THEN held[p][i - NOFILE + 1] ELSE None
      BY <1>1, <2>1, <2>3
    <3>. HIDE DEF TypeOK
    <3>. QED BY <3>1, <3>2
  <2>. QED BY <2>2, <2>3
<1>3. Table \in Tables
  BY <1>2 DEF Table, Tables
<1>4. ASSUME NEW p \in Process
      PROVE  /\ Table[<<p, NOFILE>>] = IF Len(held[p]) > 0 THEN held[p][1] ELSE None
             /\ Table[<<p, NOFILE + 1>>] = IF Len(held[p]) > 1 THEN held[p][2] ELSE None
             /\ <<p, NOFILE>> \in Slot /\ <<p, NOFILE + 1>> \in Slot
  BY <1>1
<1>5. ASSUME NEW p \in Process, NEW i \in Fd
      PROVE  /\ <<p, i>> \in Slot
             /\ Table[<<p, i>>] = IF pc[p] = "dup" /\ fd[p] = i THEN None ELSE ofile[p][i]
  <2>1. i \in 0..NOFILE + 1 /\ i < NOFILE
    OBVIOUS
  <2>. QED BY <1>1, <2>1, Zenon
<1>. HIDE DEF TypeOK
<1>. QED BY <1>3, <1>4, <1>5, Zenon DEF SlotValues

LEMMA TableFactsNext == TypeOK' => SlotValues'
BY TableFacts, PTL

LEMMA FdSlotNext ==
  ASSUME TypeOK', NEW p \in Process, NEW i \in Fd
  PROVE  Table'[<<p, i>>] = IF pc'[p] = "dup" /\ fd'[p] = i THEN None ELSE ofile'[p][i]
BY TableFactsNext DEF SlotValues

\* Two tables with the same files at the slots of every process are the same.
LEMMA TableExt ==
  ASSUME NEW T \in Tables, NEW T2 \in Tables,
         \A q \in Process, i \in Fd : T2[<<q, i>>] = T[<<q, i>>],
         \A q \in Process : T2[<<q, NOFILE>>] = T[<<q, NOFILE>>] /\ T2[<<q, NOFILE + 1>>] = T[<<q, NOFILE + 1>>]
  PROVE  T2 = T
<1>1. ASSUME NEW s \in Slot PROVE T2[s] = T[s]
  <2>1. PICK q \in Process, i \in 0..NOFILE + 1 : s = <<q, i>>
    BY DEF Slot
  <2>2. i \in Fd \/ i = NOFILE \/ i = NOFILE + 1
    BY ConstFacts
  <2>. QED BY <2>1, <2>2, Zenon
<1>. QED BY <1>1 DEF Tables

\* Files, pipes and inodes that an action leaves alone.
LEMMA EndsKept ==
  ASSUME FInv, UNCHANGED <<what, last, open, inodes>>
  PROVE  OneEnd' /\ LastCloseOnce'
BY DEF FInv, OneEnd, LastCloseOnce, EndOpen

\* An action that leaves the descriptors, the local variables and dup alone
\* leaves the references alone.
LEMMA TableKept ==
  ASSUME TypeOK, TypeOK', ofile' = ofile, held' = held,
         \A q \in Process : pc[q] = "dup" \/ pc'[q] = "dup" => pc'[q] = pc[q] /\ fd'[q] = fd[q]
  PROVE  Table' = Table
<1>1. SlotValues /\ SlotValues'
  BY TableFacts, TableFactsNext
<1>2. Table \in Tables /\ Table' \in Tables
  BY <1>1 DEF SlotValues
<1>3. ASSUME NEW q \in Process, NEW i \in Fd PROVE Table'[<<q, i>>] = Table[<<q, i>>]
  <2>1. /\ Table[<<q, i>>] = IF pc[q] = "dup" /\ fd[q] = i THEN None ELSE ofile[q][i]
        /\ Table'[<<q, i>>] = IF pc'[q] = "dup" /\ fd'[q] = i THEN None ELSE ofile'[q][i]
    BY <1>1 DEF SlotValues
  <2>. QED BY <2>1
<1>4. ASSUME NEW q \in Process
      PROVE  Table'[<<q, NOFILE>>] = Table[<<q, NOFILE>>] /\ Table'[<<q, NOFILE + 1>>] = Table[<<q, NOFILE + 1>>]
  BY <1>1 DEF SlotValues
<1>. QED BY <1>2, <1>3, <1>4, TableExt, Zenon

LEMMA RefsKept ==
  ASSUME RefCount, Table' = Table, ref' = ref
  PROVE  RefCount'
BY DEF RefCount

\* The files in local variables.
LEMMA HeldFacts ==
  ASSUME TypeOK, NEW p \in Process
  PROVE  /\ held[p] \in Seq(File) /\ Len(held[p]) \in Nat
         /\ <<p, NOFILE>> \in Slot /\ <<p, NOFILE + 1>> \in Slot
         /\ Len(held[p]) >= 1 => held[p][1] \in File /\ Table[<<p, NOFILE>>] = held[p][1]
         /\ Len(held[p]) >= 2 => held[p][2] \in File /\ Table[<<p, NOFILE + 1>>] = held[p][2]
<1>1. held[p] \in Seq(File)
  BY DEF TypeOK
<1>2. SlotValues
  BY TableFacts
<1>3. Len(held[p]) \in Nat
  BY <1>1
<1>. QED BY <1>1, <1>2, <1>3 DEF SlotValues

\* A file some other slot refers to is not one that open or pipealloc of q has
\* just allocated.
LEMMA NotFresh ==
  ASSUME FInv, NEW q \in Process, pc[q] \in {"open", "pipe"},
         NEW s \in Slot, s # <<q, NOFILE>>, s # <<q, NOFILE + 1>>, Table[s] \in File
  PROVE  /\ held[q][1] # Table[s]
         /\ Len(held[q]) = 2 => held[q][2] # Table[s]
<1>. DEFINE f == Table[s]
<1>1. /\ Len(held[q]) \in {1, 2}
      /\ ref[held[q][1]] = 1
      /\ Len(held[q]) = 2 => ref[held[q][2]] = 1
  BY DEF FInv, ControlInv, FreshInv, TypeOK
<1>2. /\ <<q, NOFILE>> \in Slot /\ <<q, NOFILE + 1>> \in Slot
      /\ Table[<<q, NOFILE>>] = held[q][1]
      /\ Len(held[q]) = 2 => Table[<<q, NOFILE + 1>>] = held[q][2]
  BY <1>1, HeldFacts DEF FInv
<1>3. \A t \in Slot : Table[t] = f /\ ref[f] = 1 => t = s
  BY CountFacts DEF FInv
<1>. QED BY <1>1, <1>2, <1>3, Zenon

\* filealloc finds a file nobody refers to.
LEMMA AllocFacts ==
  ASSUME FInv, NEW p \in Process, Filealloc(p)
  PROVE  \E f \in File :
           /\ ref[f] = 0 /\ what[f] = NoFile /\ \A s \in Slot : Table[s] # f
           /\ ref' = [ref EXCEPT ![f] = 1]
           /\ held' = [held EXCEPT ![p] = Append(@, f)]
<1>1. Free \in SUBSET Nat /\ Free # {}
  BY ConstFacts, Zenon DEF Free, Filealloc
<1>2. First(Free) \in Free
  BY <1>1, FirstFacts
<1>3. First(Free) \in File /\ ref[First(Free)] = 0
  BY <1>2 DEF Free
<1>4. what[First(Free)] = NoFile
  BY <1>3 DEF FInv, FreshInv
<1>5. \A s \in Slot : Table[s] # First(Free)
  BY <1>3, CountFacts DEF FInv
<1>. QED BY <1>3, <1>4, <1>5, Zenon DEF Filealloc

LEMMA RefCountNext ==
  ASSUME \A g \in File : ref'[g] = Count(Table', g)
  PROVE  RefCount'
BY DEF RefCount, Count, RefsOf

\* An action that moves one process on.
LEMMA ControlStep ==
  ASSUME ControlInv, NEW p \in Process,
         \A q \in Process : q # p => /\ pc'[q] = pc[q] /\ held'[q] = held[q]
                                     /\ fd'[q] = fd[q] /\ ofile'[q] = ofile[q],
         /\ pc'[p] \in {"user", "dup", "fork", "exit", "dead"} => Len(held'[p]) = 0
         /\ pc'[p] = "open" => Len(held'[p]) = 1
         /\ pc'[p] \in {"pipe", "close"} => Len(held'[p]) \in {1, 2}
         /\ pc'[p] = "last" => Len(held'[p]) \in {0, 1}
         /\ pc'[p] \in {"user", "open", "pipe", "dead"} => fd'[p] = 0
         /\ pc'[p] \in {"exit", "close", "last"} => \A i \in Fd : i < fd'[p] => ofile'[p][i] = None
         /\ pc'[p] = "dead" => \A i \in Fd : ofile'[p][i] = None
         /\ pc'[p] = "dup" => /\ fd'[p] \in Fd /\ ofile'[p][fd'[p]] # None
                              /\ \E j \in Fd : j # fd'[p] /\ ofile'[p][j] = ofile'[p][fd'[p]]
  PROVE  ControlInv'
BY DEF ControlInv

LEMMA ControlKept ==
  ASSUME ControlInv, ForkInv, UNCHANGED <<ofile, pc, held, child, fd>>
  PROVE  ControlInv' /\ ForkInv'
<1>1. ControlInv'
  BY DEF ControlInv
<1>2. ForkInv'
  BY DEF ForkInv
<1>. QED BY <1>1, <1>2

\* An action that leaves the files alone and allocates none.
LEMMA FreshSame ==
  ASSUME FreshInv, UNCHANGED <<ref, what, last>>,
         \A q \in Process : pc'[q] \in {"open", "pipe"} => pc'[q] = pc[q] /\ held'[q] = held[q],
         \A q \in Process : pc'[q] # "last" => pc[q] # "last"
  PROVE  FreshInv'
<1>1. ref' = ref /\ what' = what /\ last' = last
  OBVIOUS
<1>2. \A q \in Process : /\ pc'[q] = "open" => pc[q] = "open" /\ held'[q] = held[q]
                         /\ pc'[q] = "pipe" => pc[q] = "pipe" /\ held'[q] = held[q]
  OBVIOUS
<1>. QED BY <1>1, <1>2 DEF FreshInv

\* An action of fork, which moves the parent and the child on.
LEMMA ControlTwo ==
  ASSUME ControlInv, NEW p \in Process, NEW c \in Process,
         \A q \in Process : q # p /\ q # c => /\ pc'[q] = pc[q] /\ held'[q] = held[q]
                                              /\ fd'[q] = fd[q] /\ ofile'[q] = ofile[q],
         \A q \in {p, c} : Len(held'[q]) = 0 /\ (pc'[q] = "fork" \/ (pc'[q] = "user" /\ fd'[q] = 0))
  PROVE  ControlInv'
<1>1. ASSUME NEW q \in Process, q # p, q # c
      PROVE  /\ pc'[q] = pc[q] /\ held'[q] = held[q]
             /\ fd'[q] = fd[q] /\ ofile'[q] = ofile[q]
  BY <1>1
<1>2. ASSUME NEW q \in {p, c}
      PROVE  Len(held'[q]) = 0 /\ (pc'[q] = "fork" \/ (pc'[q] = "user" /\ fd'[q] = 0))
  OBVIOUS
<1>. QED BY <1>1, <1>2 DEF ControlInv

\* The filealloc of sys_open, and the two of pipealloc.
LEMMA AllocStep ==
  ASSUME FInv, NEW p \in Process, Filealloc(p), NEW new \in {"open", "pipe"},
         pc[p] = "user" \/ (pc[p] = "pipe" /\ Len(held[p]) = 1 /\ new = "pipe"),
         pc' = [pc EXCEPT ![p] = new],
         UNCHANGED <<what, ofile, open, inodes, last, child, fd>>
  PROVE  FInv'
<1>. USE ConstFacts
<1>1. PICK f \in File : /\ ref[f] = 0 /\ what[f] = NoFile /\ \A s \in Slot : Table[s] # f
                        /\ ref' = [ref EXCEPT ![f] = 1]
                        /\ held' = [held EXCEPT ![p] = Append(@, f)]
  BY AllocFacts
<1>. DEFINE n == Len(held[p])
<1>2. n \in {0, 1} /\ (n = 1 => pc[p] = "pipe" /\ new = "pipe") /\ (n = 0 => pc[p] = "user") /\ held[p] \in Seq(File)
  <2>1. pc[p] = "user" => Len(held[p]) = 0
    BY DEF FInv, ControlInv
  <2>2. held[p] \in Seq(File)
    BY DEF FInv, TypeOK
  <2>. QED BY <2>1, <2>2
<1>3. /\ held'[p] \in Seq(File) /\ Len(held'[p]) = n + 1 /\ held'[p][n + 1] = f
      /\ n = 1 => held'[p][1] = held[p][1]
      /\ \A q \in Process : q # p => held'[q] = held[q]
  BY <1>1, <1>2 DEF FInv, TypeOK
<1>4. TypeOK'
  BY <1>1, <1>3 DEF FInv, TypeOK, Pc
<1>5. ControlInv'
  <2>1. fd'[p] = 0 /\ pc'[p] = new /\ (new = "open" => Len(held'[p]) = 1) /\ Len(held'[p]) \in {1, 2}
    <3>1. fd[p] = 0
      BY DEF FInv, ControlInv
    <3>2. pc'[p] = new
      BY DEF FInv, TypeOK
    <3>3. CASE n = 0
      BY <1>3, <3>1, <3>2, <3>3
    <3>4. CASE n = 1
      BY <1>2, <1>3, <3>1, <3>2, <3>4
    <3>. QED BY <1>2, <3>3, <3>4
  <2>2. \A q \in Process : q # p => pc'[q] = pc[q] /\ held'[q] = held[q]
    BY <1>3 DEF FInv, TypeOK
  <2>. QED BY <2>1, <2>2, ControlStep DEF FInv
<1>6. ForkInv'
  BY DEF FInv, TypeOK, ForkInv
<1>7. Table' = [Table EXCEPT ![<<p, NOFILE + n>>] = f] /\ Table[<<p, NOFILE + n>>] = None /\ <<p, NOFILE + n>> \in Slot
  <2>1. SlotValues /\ SlotValues'
    BY <1>4, TableFacts, TableFactsNext DEF FInv
  <2>2. /\ Table \in Tables /\ Table' \in Tables
        /\ Table[<<p, NOFILE + n>>] = None /\ <<p, NOFILE + n>> \in Slot
    <3>0. /\ Table \in Tables /\ Table' \in Tables
          /\ <<p, NOFILE>> \in Slot /\ <<p, NOFILE + 1>> \in Slot
          /\ Table[<<p, NOFILE>>] = IF Len(held[p]) > 0 THEN held[p][1] ELSE None
          /\ Table[<<p, NOFILE + 1>>] = IF Len(held[p]) > 1 THEN held[p][2] ELSE None
      BY <2>1 DEF SlotValues
    <3>1. CASE n = 0
      BY <3>0, <3>1
    <3>2. CASE n = 1
      BY <3>0, <3>2
    <3>. QED BY <1>2, <3>1, <3>2
  <2>. DEFINE T == [Table EXCEPT ![<<p, NOFILE + n>>] = f]
  <2>3. T \in Tables
    BY <2>2 DEF Tables
  <2>4. ASSUME NEW q \in Process, NEW i \in Fd PROVE Table'[<<q, i>>] = T[<<q, i>>]
    <3>1. <<q, i>> # <<p, NOFILE + n>> /\ <<q, i>> \in Slot
      BY <1>2, <2>1 DEF SlotValues
    <3>2. T[<<q, i>>] = Table[<<q, i>>]
      BY <2>2, <3>1 DEF Tables
    <3>3. (pc[q] # "dup" /\ pc'[q] # "dup") \/ pc'[q] = pc[q]
      BY DEF FInv, TypeOK
    <3>. QED BY <2>1, <3>2, <3>3 DEF SlotValues
  <2>5. ASSUME NEW q \in Process
        PROVE  Table'[<<q, NOFILE>>] = T[<<q, NOFILE>>] /\ Table'[<<q, NOFILE + 1>>] = T[<<q, NOFILE + 1>>]
    <3>1. /\ Table'[<<q, NOFILE>>] = IF Len(held'[q]) > 0 THEN held'[q][1] ELSE None
          /\ Table'[<<q, NOFILE + 1>>] = IF Len(held'[q]) > 1 THEN held'[q][2] ELSE None
          /\ Table[<<q, NOFILE>>] = IF Len(held[q]) > 0 THEN held[q][1] ELSE None
          /\ Table[<<q, NOFILE + 1>>] = IF Len(held[q]) > 1 THEN held[q][2] ELSE None
          /\ <<q, NOFILE>> \in Slot /\ <<q, NOFILE + 1>> \in Slot
      BY <2>1 DEF SlotValues
    <3>2. \A x \in Slot : T[x] = IF x = <<p, NOFILE + n>> THEN f ELSE Table[x]
      BY <2>2 DEF Tables
    <3>3. CASE q # p
      BY <1>3, <3>1, <3>2, <3>3
    <3>4. CASE q = p /\ n = 0
      BY <1>3, <3>1, <3>2, <3>4
    <3>5. CASE q = p /\ n = 1
      BY <1>3, <3>1, <3>2, <3>5
    <3>. QED BY <1>2, <3>3, <3>4, <3>5
  <2>6. Table' = T
    BY <2>2, <2>3, <2>4, <2>5, TableExt, Zenon
  <2>. QED BY <2>2, <2>6
<1>8. RefCount'
  <2>1. Table \in Tables
    BY TableFacts DEF FInv, SlotValues
  <2>2. ASSUME NEW g \in File PROVE ref'[g] = Count(Table', g)
    <3>1. Count(Table', g) = IF g = f THEN Count(Table, g) + 1 ELSE Count(Table, g)
      BY <1>7, <2>1, CountAdd, ZenonT(40)
    <3>2. ref[g] = Count(Table, g) /\ ref[g] \in Nat
      BY CountFacts DEF FInv
    <3>. QED BY <1>1, <3>1, <3>2 DEF FInv, TypeOK
  <2>. QED BY <2>2, RefCountNext
<1>9. FreshInv'
  <2>1. \A q \in Process : /\ Len(held[q]) >= 1 => held[q][1] # f /\ held[q][1] \in File
                           /\ Len(held[q]) >= 2 => held[q][2] # f /\ held[q][2] \in File
    <3>1. ASSUME NEW q \in Process
          PROVE  /\ Len(held[q]) >= 1 => held[q][1] # f /\ held[q][1] \in File
                 /\ Len(held[q]) >= 2 => held[q][2] # f /\ held[q][2] \in File
      <4>1. /\ <<q, NOFILE>> \in Slot /\ <<q, NOFILE + 1>> \in Slot
            /\ Len(held[q]) >= 1 => held[q][1] \in File /\ Table[<<q, NOFILE>>] = held[q][1]
            /\ Len(held[q]) >= 2 => held[q][2] \in File /\ Table[<<q, NOFILE + 1>>] = held[q][2]
        BY HeldFacts, Zenon DEF FInv
      <4>. QED BY <1>1, <4>1, Zenon
    <3>. QED BY <3>1, Zenon
  <2>2. \A g \in File : g # f => ref'[g] = ref[g]
    BY <1>1 DEF FInv, TypeOK
  <2>3. ref'[f] = 1
    BY <1>1 DEF FInv, TypeOK
  <2>4. \A g \in File : ref'[g] = 0 => what[g] = NoFile
    BY <2>2, <2>3 DEF FInv, FreshInv
  <2>5. ASSUME NEW q \in Process
        PROVE  /\ pc'[q] \in {"open", "pipe"} => ref'[held'[q][1]] = 1
               /\ pc'[q] = "pipe" /\ Len(held'[q]) = 2 => ref'[held'[q][2]] = 1
               /\ pc'[q] = "open" => what[held'[q][1]] = NoFile
               /\ pc'[q] = "pipe" /\ Len(held'[q]) = 1 => what[held'[q][1]] = NoFile
               /\ pc'[q] = "pipe" /\ Len(held'[q]) = 2 /\ what[held'[q][1]] = NoFile => what[held'[q][2]] = NoFile
               /\ pc'[q] # "last" => last[q] = NoFile
    <3>1. CASE q # p
      <4>1. pc'[q] = pc[q] /\ held'[q] = held[q]
        BY <1>3, <3>1, Zenon DEF FInv, TypeOK
      <4>2. pc[q] \in {"open", "pipe"} => Len(held[q]) >= 1
        <5>1. (pc[q] = "open" => Len(held[q]) = 1) /\ (pc[q] = "pipe" => Len(held[q]) \in {1, 2})
          BY Zenon DEF FInv, ControlInv
        <5>2. \A x \in {1, 2} : x >= 1
          OBVIOUS
        <5>. QED BY <5>1, <5>2, Zenon
      <4>3. /\ pc[q] \in {"open", "pipe"} => ref'[held[q][1]] = ref[held[q][1]]
            /\ pc[q] = "pipe" /\ Len(held[q]) = 2 => ref'[held[q][2]] = ref[held[q][2]]
        <5>1. Len(held[q]) = 2 => Len(held[q]) >= 2
          OBVIOUS
        <5>. QED BY <2>1, <2>2, <4>2, <5>1, Zenon
      <4>. QED BY <4>1, <4>3, ZenonT(40) DEF FInv, FreshInv
    <3>2. CASE q = p
      <4>1. pc'[p] = new /\ last[p] = NoFile
        BY DEF FInv, TypeOK, FreshInv
      <4>2. CASE n = 0
        <5>1. Len(held'[p]) = 1 /\ held'[p][1] = f
          BY <1>3, <4>2
        <5>2. Len(held'[p]) # 2
          BY <5>1
        <5>. QED BY <1>1, <2>3, <3>2, <4>1, <5>1, <5>2, ZenonT(40)
      <4>3. CASE n = 1
        <5>1. ref[held[p][1]] = 1 /\ held[p][1] # f /\ held[p][1] \in File
          BY <1>2, <2>1, <4>3 DEF FInv, FreshInv
        <5>2. Len(held'[p]) = 2 /\ held'[p][1] = held[p][1] /\ held'[p][2] = f
          BY <1>3, <4>3
        <5>3. pc'[p] = "pipe" /\ Len(held'[p]) # 1
          BY <1>2, <4>1, <4>3, <5>2
        <5>4. ref'[held'[p][1]] = 1 /\ ref'[held'[p][2]] = 1 /\ what[held'[p][2]] = NoFile
          BY <1>1, <2>2, <2>3, <5>1, <5>2, Zenon
        <5>. QED BY <3>2, <4>1, <5>2, <5>3, <5>4, ZenonT(40)
      <4>. QED BY <1>2, <4>2, <4>3
    <3>. QED BY <3>1, <3>2, Zenon
  <2>. QED BY <2>4, <2>5 DEF FreshInv
<1>10. OneEnd' /\ LastCloseOnce'
  BY EndsKept
<1>. QED BY <1>4, <1>5, <1>6, <1>8, <1>9, <1>10 DEF FInv

LEMMA OpenAllocFInv ==
  ASSUME FInv, NEW p \in Process, OpenAlloc(p)
  PROVE  FInv'
BY AllocStep, Zenon DEF OpenAlloc

LEMMA PipeAllocFInv ==
  ASSUME FInv, NEW p \in Process, PipeAlloc(p)
  PROVE  FInv'
BY AllocStep, Zenon DEF PipeAlloc

LEMMA OpenNoFdFInv ==
  ASSUME FInv, NEW p \in Process, OpenNoFd(p)
  PROVE  FInv'
<1>. USE ConstFacts DEF FInv, TypeOK, file
<1>1. TypeOK'
  BY DEF OpenNoFd, CloseHeld, Pc
<1>2. ControlInv'
  BY DEF OpenNoFd, CloseHeld, ControlInv
<1>3. ForkInv'
  BY DEF OpenNoFd, CloseHeld, ForkInv, ControlInv
<1>4. Table' = Table
  BY <1>1, TableKept, Zenon DEF OpenNoFd, CloseHeld
<1>5. RefCount'
  BY <1>4, RefsKept DEF OpenNoFd, CloseHeld
<1>6. FreshInv'
  BY DEF OpenNoFd, CloseHeld, FreshInv
<1>7. OneEnd' /\ LastCloseOnce'
  BY EndsKept DEF OpenNoFd, CloseHeld
<1>. HIDE DEF TypeOK, FInv
<1>. QED BY <1>1, <1>2, <1>3, <1>5, <1>6, <1>7 DEF FInv

LEMMA PipeBadFInv ==
  ASSUME FInv, NEW p \in Process, PipeBad(p)
  PROVE  FInv'
<1>. USE ConstFacts DEF FInv, TypeOK, file
<1>1. TypeOK'
  BY DEF PipeBad, CloseHeld, Ready, Pc
<1>2. ControlInv'
  BY DEF PipeBad, CloseHeld, Ready, ControlInv
<1>3. ForkInv'
  BY DEF PipeBad, CloseHeld, Ready, ForkInv, ControlInv
<1>4. Table' = Table
  BY <1>1, TableKept, Zenon DEF PipeBad, CloseHeld, Ready
<1>5. RefCount'
  BY <1>4, RefsKept DEF PipeBad, CloseHeld, Ready
<1>6. FreshInv'
  BY DEF PipeBad, CloseHeld, Ready, FreshInv
<1>7. OneEnd' /\ LastCloseOnce'
  BY EndsKept DEF PipeBad, CloseHeld, Ready
<1>. HIDE DEF TypeOK, FInv
<1>. QED BY <1>1, <1>2, <1>3, <1>5, <1>6, <1>7 DEF FInv

LEMMA PipeNoFdsFInv ==
  ASSUME FInv, NEW p \in Process, PipeNoFds(p)
  PROVE  FInv'
<1>. USE ConstFacts DEF FInv, TypeOK, file
<1>1. TypeOK'
  BY DEF PipeNoFds, CloseHeld, Made, Pc
<1>2. ControlInv'
  BY SMTT(40) DEF PipeNoFds, CloseHeld, Made, ControlInv
<1>3. ForkInv'
  BY DEF PipeNoFds, CloseHeld, Made, ForkInv, ControlInv
<1>4. Table' = Table
  BY <1>1, TableKept, Zenon DEF PipeNoFds, CloseHeld, Made
<1>5. RefCount'
  BY <1>4, RefsKept DEF PipeNoFds, CloseHeld, Made
<1>6. FreshInv'
  BY DEF PipeNoFds, CloseHeld, Made, FreshInv
<1>7. OneEnd' /\ LastCloseOnce'
  BY EndsKept DEF PipeNoFds, CloseHeld, Made
<1>. HIDE DEF TypeOK, FInv
<1>. QED BY <1>1, <1>2, <1>3, <1>5, <1>6, <1>7 DEF FInv

LEMMA ForkFInv ==
  ASSUME FInv, NEW p \in Process, NEW c \in Process, Fork(p, c)
  PROVE  FInv'
<1>. USE ConstFacts DEF FInv, TypeOK, file
<1>1. TypeOK'
  BY DEF Fork, Pc
<1>2. ControlInv'
  BY DEF Fork, ControlInv
<1>3. ForkInv'
  <2>1. /\ pc[p] = "user" /\ pc[c] = "dead" /\ child[p] = p /\ child[c] = c /\ p # c
        /\ \A i \in Fd : ofile[c][i] = None
        /\ UNCHANGED ofile
    BY DEF Fork, ForkInv, ControlInv
  <2>2. /\ \A q \in Process : pc'[q] = IF q = p \/ q = c THEN "fork" ELSE pc[q]
        /\ \A q \in Process : child'[q] = IF q = p THEN c ELSE child[q]
        /\ \A q \in Process : q # p /\ q # c => fd'[q] = fd[q]
    BY DEF Fork
  <2>3. \A q \in Process : child[q] # q => /\ child[q] # p /\ child[q] # c /\ q # p /\ q # c /\ child[q] \in Process
                                           /\ pc[q] = "fork" /\ pc[child[q]] = "fork" /\ child[child[q]] = child[q]
                                           /\ \A i \in Fd : i >= fd[q] => ofile[child[q]][i] = None
    BY <2>1 DEF ForkInv
  <2>. HIDE DEF TypeOK, FInv
  <2>4. ASSUME NEW q \in Process, child'[q] # q
        PROVE  /\ pc'[q] = "fork" /\ pc'[child'[q]] = "fork"
               /\ child'[child'[q]] = child'[q]
               /\ \A i \in Fd : i >= fd'[q] => ofile'[child'[q]][i] = None
    <3>1. CASE q = p
      BY <2>1, <2>2, <3>1, Zenon
    <3>2. CASE q # p
      <4>1. child'[q] = child[q] /\ child[q] # q
        BY <2>2, <2>4, <3>2, Zenon
      <4>2. /\ child[q] \in Process /\ child[q] # p /\ child[q] # c /\ q # c
            /\ pc[q] = "fork" /\ pc[child[q]] = "fork" /\ child[child[q]] = child[q]
            /\ \A i \in Fd : i >= fd[q] => ofile[child[q]][i] = None
        BY <2>3, <4>1, ZenonT(40)
      <4>. DEFINE d == child[q]
      <4>. HIDE DEF d
      <4>3. pc'[q] = pc[q] /\ fd'[q] = fd[q]
        BY <2>2, <3>2, <4>2
      <4>4. pc'[d] = pc[d] /\ child'[d] = child[d]
        BY <2>2, <4>2 DEF d
      <4>. QED BY <2>1, <4>1, <4>2, <4>3, <4>4, Zenon DEF d
    <3>. QED BY <3>1, <3>2, Zenon
  <2>5. ASSUME NEW q \in Process, NEW r \in Process, child'[q] = child'[r], child'[q] # q, child'[r] # r
        PROVE  q = r
    <3>1. \A u, v \in Process : child[u] = child[v] /\ child[u] # u /\ child[v] # v => u = v
      BY Zenon DEF FInv, ForkInv
    <3>2. \A u \in Process : u # p => child'[u] = child[u]
      BY <2>2
    <3>3. child'[p] = c
      BY <2>2
    <3>4. CASE q # p /\ r # p
      BY <2>5, <3>1, <3>2, <3>4, Zenon
    <3>5. ASSUME NEW u \in Process, u # p, child'[u] # u PROVE child'[u] # c
      BY <2>3, <3>2, <3>5, Zenon
    <3>6. CASE q = p \/ r = p
      BY <2>5, <3>3, <3>5, <3>6
    <3>. QED BY <3>4, <3>6
  <2>. QED BY <2>4, <2>5, Zenon DEF ForkInv
<1>4. Table' = Table
  <2>1. \A q \in Process : pc[q] = "dup" \/ pc'[q] = "dup" => pc'[q] = pc[q] /\ fd'[q] = fd[q]
    BY DEF Fork
  <2>2. UNCHANGED <<ofile, held>>
    BY DEF Fork
  <2>. HIDE DEF TypeOK
  <2>. QED BY <1>1, <2>1, <2>2, TableKept
<1>5. RefCount'
  BY <1>4, RefsKept DEF Fork
<1>6. FreshInv'
  BY Zenon DEF Fork, FreshInv
<1>7. OneEnd' /\ LastCloseOnce'
  BY EndsKept DEF Fork
<1>. HIDE DEF TypeOK, FInv
<1>. QED BY <1>1, <1>2, <1>3, <1>5, <1>6, <1>7 DEF FInv

LEMMA ForkRunFInv ==
  ASSUME FInv, NEW p \in Process, ForkRun(p)
  PROVE  FInv'
<1>. USE ConstFacts DEF FInv, file
<1>. DEFINE c == child[p]
<1>0. /\ c \in Process /\ c # p /\ pc[p] = "fork" /\ pc[c] = "fork" /\ child[c] = c
      /\ Len(held[p]) = 0 /\ Len(held[c]) = 0
  BY DEF ForkRun, ForkInv, TypeOK, ControlInv
<1>a. /\ \A q \in Process : pc'[q] = IF q = p \/ q = c THEN "user" ELSE pc[q]
      /\ \A q \in Process : child'[q] = IF q = p THEN p ELSE child[q]
      /\ \A q \in Process : fd'[q] = IF q = p \/ q = c THEN 0 ELSE fd[q]
  BY <1>0 DEF ForkRun, TypeOK
<1>1. TypeOK'
  <2>1. 0 \in 0..NOFILE /\ "user" \in Pc
    BY DEF Pc
  <2>. QED BY <2>1, <1>0, Zenon DEF TypeOK, ForkRun
<1>. HIDE DEF c
<1>b. UNCHANGED <<file, ofile, open, inodes, held, last>>
  BY DEF ForkRun
<1>2. ControlInv'
  <2>1. \A q \in Process : q # p /\ q # c => /\ pc'[q] = pc[q] /\ held'[q] = held[q]
                                             /\ fd'[q] = fd[q] /\ ofile'[q] = ofile[q]
    BY <1>a, <1>b, Zenon
  <2>2. \A q \in {p, c} : Len(held'[q]) = 0 /\ pc'[q] = "user" /\ fd'[q] = 0
    BY <1>0, <1>a, <1>b, Zenon
  <2>. QED BY <1>0, <2>1, <2>2, ControlTwo, Zenon
<1>3. ForkInv'
  <2>1. ASSUME NEW q \in Process, child'[q] # q
        PROVE  /\ pc'[q] = "fork" /\ pc'[child'[q]] = "fork"
               /\ child'[child'[q]] = child'[q]
               /\ \A i \in Fd : i >= fd'[q] => ofile'[child'[q]][i] = None
    <3>1. q # p /\ q # c /\ child'[q] = child[q] /\ child[q] \in Process
      BY <1>0, <1>a, <2>1 DEF TypeOK
    <3>2. child[q] # p /\ child[q] # c
      BY <1>0, <2>1, <3>1, Zenon DEF ForkInv, c
    <3>3. /\ pc'[q] = pc[q] /\ pc'[child[q]] = pc[child[q]] /\ child'[child[q]] = child[child[q]]
          /\ fd'[q] = fd[q] /\ ofile' = ofile
      BY <1>a, <1>b, <3>1, <3>2, Zenon
    <3>4. /\ child[q] # q /\ pc[q] = "fork" /\ pc[child[q]] = "fork" /\ child[child[q]] = child[q]
          /\ \A i \in Fd : i >= fd[q] => ofile[child[q]][i] = None
      BY <2>1, <3>1 DEF ForkInv
    <3>. QED BY <3>1, <3>3, <3>4, ZenonT(40)
  <2>2. ASSUME NEW q \in Process, NEW r \in Process, child'[q] = child'[r], child'[q] # q, child'[r] # r
        PROVE  q = r
    <3>1. q # p /\ r # p /\ child'[q] = child[q] /\ child'[r] = child[r]
      BY <1>a, <2>2
    <3>. QED BY <2>2, <3>1, Zenon DEF ForkInv
  <2>. QED BY <2>1, <2>2, Zenon DEF ForkInv
<1>4. Table' = Table
  BY <1>0, <1>1, <1>a, <1>b, TableKept
<1>5. RefCount'
  BY <1>4, <1>b, RefsKept
<1>6. FreshInv'
  <2>1. \A q \in Process : (pc'[q] \in {"open", "pipe"} => pc'[q] = pc[q]) /\ (pc'[q] # "last" => pc[q] # "last")
    BY <1>0, <1>a
  <2>. QED BY <1>b, <2>1, Zenon DEF FreshInv
<1>7. OneEnd' /\ LastCloseOnce'
  BY <1>b, EndsKept
<1>. QED BY <1>1, <1>2, <1>3, <1>5, <1>6, <1>7

LEMMA ExitFInv ==
  ASSUME FInv, NEW p \in Process, Exit(p)
  PROVE  FInv'
<1>. USE ConstFacts DEF FInv, TypeOK, file
<1>1. TypeOK'
  BY DEF Exit, Pc
<1>2. ControlInv'
  BY DEF Exit, ControlInv
<1>3. ForkInv'
  BY DEF Exit, ForkInv, ControlInv
<1>4. Table' = Table
  BY <1>1, TableKept, Zenon DEF Exit
<1>5. RefCount'
  BY <1>4, RefsKept DEF Exit
<1>6. FreshInv'
  BY Zenon DEF Exit, FreshInv
<1>7. OneEnd' /\ LastCloseOnce'
  BY EndsKept DEF Exit
<1>. HIDE DEF TypeOK, FInv
<1>. QED BY <1>1, <1>2, <1>3, <1>5, <1>6, <1>7 DEF FInv

LEMMA ReapedFInv ==
  ASSUME FInv, NEW p \in Process, Reaped(p)
  PROVE  FInv'
<1>. USE ConstFacts DEF FInv, TypeOK, file
<1>1. TypeOK'
  BY DEF Reaped, Pc
<1>2. ControlInv'
  <2>1. /\ pc[p] = "exit" /\ Len(held[p]) = 0 /\ UNCHANGED <<ofile, held>>
        /\ \A i \in Fd : i < NOFILE => ofile[p][i] = None
    BY DEF Reaped, ControlInv
  <2>2. \A i \in Fd : ofile[p][i] = None
    BY <2>1
  <2>3. /\ \A q \in Process : q # p => pc'[q] = pc[q] /\ fd'[q] = fd[q]
        /\ pc'[p] = "dead" /\ fd'[p] = 0
    BY DEF Reaped
  <2>. HIDE DEF FInv, TypeOK
  <2>. QED BY <2>1, <2>2, <2>3, ControlStep DEF FInv
<1>3. ForkInv'
  BY Zenon DEF Reaped, ForkInv, ControlInv
<1>4. Table' = Table
  BY <1>1, TableKept, Zenon DEF Reaped
<1>5. RefCount'
  BY <1>4, RefsKept DEF Reaped
<1>6. FreshInv'
  BY Zenon DEF Reaped, FreshInv
<1>7. OneEnd' /\ LastCloseOnce'
  BY EndsKept DEF Reaped
<1>. HIDE DEF TypeOK, FInv
<1>. QED BY <1>1, <1>2, <1>3, <1>5, <1>6, <1>7 DEF FInv

-----------------------------------------------------------------------------
Ofiles == [Process -> [Fd -> File \cup {None}]]

\* The table after an action that changes the slots of process p only.
LEMMA TableAt ==
  ASSUME TypeOK, TypeOK', NEW p \in Process, NEW T \in Tables,
         \A q \in Process : q # p => ofile'[q] = ofile[q] /\ held'[q] = held[q],
         \A q \in Process : q # p /\ (pc[q] = "dup" \/ pc'[q] = "dup") => pc'[q] = pc[q] /\ fd'[q] = fd[q],
         \A q \in Process, i \in Nat : q # p /\ <<q, i>> \in Slot => T[<<q, i>>] = Table[<<q, i>>],
         \A i \in Fd : T[<<p, i>>] = IF pc'[p] = "dup" /\ fd'[p] = i THEN None ELSE ofile'[p][i],
         T[<<p, NOFILE>>] = IF Len(held'[p]) > 0 THEN held'[p][1] ELSE None,
         T[<<p, NOFILE + 1>>] = IF Len(held'[p]) > 1 THEN held'[p][2] ELSE None
  PROVE  Table' = T
<1>. USE ConstFacts
<1>1. SlotValues /\ SlotValues'
  BY TableFacts, TableFactsNext
<1>2. Table' \in Tables
  BY <1>1, Zenon DEF SlotValues
<1>3. ASSUME NEW q \in Process, NEW i \in Fd PROVE Table'[<<q, i>>] = T[<<q, i>>]
  <2>1. /\ <<q, i>> \in Slot /\ i \in Nat
        /\ Table[<<q, i>>] = IF pc[q] = "dup" /\ fd[q] = i THEN None ELSE ofile[q][i]
    BY <1>1, SMTT(40) DEF SlotValues
  <2>2. Table'[<<q, i>>] = IF pc'[q] = "dup" /\ fd'[q] = i THEN None ELSE ofile'[q][i]
    BY FdSlotNext, Zenon
  <2>3. CASE q # p
    <3>1. /\ ofile'[q] = ofile[q] /\ T[<<q, i>>] = Table[<<q, i>>]
          /\ pc[q] = "dup" \/ pc'[q] = "dup" => pc'[q] = pc[q] /\ fd'[q] = fd[q]
      BY <2>1, <2>3, Zenon
    <3>. QED BY <2>1, <2>2, <3>1, Zenon
  <2>4. CASE q = p
    BY <2>2, <2>4, ZenonT(40)
  <2>. QED BY <2>3, <2>4, ZenonT(40)
<1>4. ASSUME NEW q \in Process
      PROVE  Table'[<<q, NOFILE>>] = T[<<q, NOFILE>>] /\ Table'[<<q, NOFILE + 1>>] = T[<<q, NOFILE + 1>>]
  <2>1. /\ <<q, NOFILE>> \in Slot /\ <<q, NOFILE + 1>> \in Slot /\ NOFILE \in Nat /\ NOFILE + 1 \in Nat
        /\ Table[<<q, NOFILE>>] = IF Len(held[q]) > 0 THEN held[q][1] ELSE None
        /\ Table[<<q, NOFILE + 1>>] = IF Len(held[q]) > 1 THEN held[q][2] ELSE None
    BY <1>1, SMTT(40) DEF SlotValues
  <2>2. /\ Table'[<<q, NOFILE>>] = IF Len(held'[q]) > 0 THEN held'[q][1] ELSE None
        /\ Table'[<<q, NOFILE + 1>>] = IF Len(held'[q]) > 1 THEN held'[q][2] ELSE None
    BY <1>1, Zenon DEF SlotValues
  <2>3. CASE q # p
    <3>1. held'[q] = held[q] /\ T[<<q, NOFILE>>] = Table[<<q, NOFILE>>] /\ T[<<q, NOFILE + 1>>] = Table[<<q, NOFILE + 1>>]
      BY <2>1, <2>3, Zenon
    <3>. QED BY <2>1, <2>2, <3>1, ZenonT(40)
  <2>4. CASE q = p
    BY <2>2, <2>4, Zenon
  <2>. QED BY <2>3, <2>4
<1>. QED BY <1>2, <1>3, <1>4, TableExt, Zenon

\* The same for a process that ends up in none of the calls.
LEMMA TableIdle ==
  ASSUME TypeOK, TypeOK', NEW p \in Process, NEW T \in Tables,
         \A q \in Process : q # p => ofile'[q] = ofile[q] /\ held'[q] = held[q],
         \A q \in Process : q # p /\ (pc[q] = "dup" \/ pc'[q] = "dup") => pc'[q] = pc[q] /\ fd'[q] = fd[q],
         pc'[p] # "dup", Len(held'[p]) = 0,
         \A q \in Process, i \in Nat : q # p /\ <<q, i>> \in Slot => T[<<q, i>>] = Table[<<q, i>>],
         \A i \in Fd : T[<<p, i>>] = ofile'[p][i],
         T[<<p, NOFILE>>] = None, T[<<p, NOFILE + 1>>] = None
  PROVE  Table' = T
<1>1. ~(Len(held'[p]) > 0) /\ ~(Len(held'[p]) > 1)
  BY SMTT(40)
<1>2. \A i \in Fd : T[<<p, i>>] = IF pc'[p] = "dup" /\ fd'[p] = i THEN None ELSE ofile'[p][i]
  BY Zenon
<1>3. /\ T[<<p, NOFILE>>] = IF Len(held'[p]) > 0 THEN held'[p][1] ELSE None
      /\ T[<<p, NOFILE + 1>>] = IF Len(held'[p]) > 1 THEN held'[p][2] ELSE None
  BY <1>1, Zenon
<1>. QED BY <1>2, <1>3, TableAt, Zenon

\* The same for a process that is left with one file to close.
LEMMA TableOne ==
  ASSUME TypeOK, TypeOK', NEW p \in Process, NEW T \in Tables,
         \A q \in Process : q # p => ofile'[q] = ofile[q] /\ held'[q] = held[q],
         \A q \in Process : q # p /\ (pc[q] = "dup" \/ pc'[q] = "dup") => pc'[q] = pc[q] /\ fd'[q] = fd[q],
         pc'[p] # "dup", Len(held'[p]) = 1,
         \A q \in Process, i \in Nat : q # p /\ <<q, i>> \in Slot => T[<<q, i>>] = Table[<<q, i>>],
         \A i \in Fd : T[<<p, i>>] = ofile'[p][i],
         T[<<p, NOFILE>>] = held'[p][1], T[<<p, NOFILE + 1>>] = None
  PROVE  Table' = T
<1>1. Len(held'[p]) > 0 /\ ~(Len(held'[p]) > 1)
  OBVIOUS
<1>2. \A i \in Fd : T[<<p, i>>] = IF pc'[p] = "dup" /\ fd'[p] = i THEN None ELSE ofile'[p][i]
  BY Zenon
<1>3. /\ T[<<p, NOFILE>>] = IF Len(held'[p]) > 0 THEN held'[p][1] ELSE None
      /\ T[<<p, NOFILE + 1>>] = IF Len(held'[p]) > 1 THEN held'[p][2] ELSE None
  BY <1>1, Zenon
<1>. QED BY <1>2, <1>3, TableAt, Zenon

\* A reference that goes from one slot to another is counted as before.
LEMMA RefsMoved ==
  ASSUME RefCount, Table \in Tables, Table' \in Tables,
         NEW x \in Slot, NEW y \in Slot, Table[x] \in File, Table[y] = None,
         \A s \in Slot : Table'[s] = IF s = x THEN None ELSE IF s = y THEN Table[x] ELSE Table[s],
         ref' = ref
  PROVE  RefCount'
<1>. DEFINE T == Table
            T2 == Table'
<1>0. /\ T \in Tables /\ T2 \in Tables /\ T[x] \in File /\ T[y] = None
      /\ \A s \in Slot : T2[s] = IF s = x THEN None ELSE IF s = y THEN T[x] ELSE T[s]
  OBVIOUS
<1>1. ASSUME NEW g \in File PROVE ref'[g] = Count(Table', g)
  <2>1. Count(T2, g) = Count(T, g)
    <3>. HIDE DEF T, T2
    <3>. QED BY <1>0, CountMove
  <2>2. ref[g] = Count(Table, g)
    BY CountFacts
  <2>. QED BY <2>1, <2>2
<1>. QED BY <1>1, RefCountNext, Zenon

\* The slots of p differ from each other and from those of the others.
LEMMA SlotsDiffer ==
  /\ \A p \in Process : <<p, NOFILE>> \in Slot /\ <<p, NOFILE + 1>> \in Slot
  /\ \A p \in Process, i \in Fd : <<p, i>> \in Slot
  /\ \A p, q, i, j : <<p, i>> = <<q, j>> <=> p = q /\ i = j
  /\ NOFILE \notin Fd /\ NOFILE + 1 \notin Fd /\ NOFILE # NOFILE + 1
BY ConstFacts DEF Slot

\* Processes outside fork do not disturb it.
LEMMA ForkKept ==
  ASSUME ForkInv, TypeOK, NEW p \in Process, pc[p] # "fork", child' = child,
         \A q \in Process : q # p => pc'[q] = pc[q] /\ fd'[q] = fd[q] /\ ofile'[q] = ofile[q]
  PROVE  ForkInv'
<1>1. child[p] = p /\ \A q \in Process : child[q] # q => q # p /\ child[q] # p /\ child[q] \in Process
  BY Zenon DEF ForkInv, TypeOK
<1>. QED BY <1>1 DEF ForkInv

\* fdalloc finds an empty descriptor.
LEMMA FdFacts ==
  ASSUME TypeOK, NEW p \in Process, FreeFds(p) # {}
  PROVE  First(FreeFds(p)) \in Fd /\ ofile[p][First(FreeFds(p))] = None
<1>1. FreeFds(p) \in SUBSET Nat
  BY ConstFacts, Zenon DEF FreeFds
<1>2. First(FreeFds(p)) \in FreeFds(p)
  BY <1>1, FirstFacts
<1>. QED BY <1>2 DEF FreeFds

\* The slots of a process with nothing in local variables and outside dup.
LEMMA IdleSlots ==
  ASSUME TypeOK, NEW p \in Process, Len(held[p]) = 0
  PROVE  /\ Table[<<p, NOFILE>>] = None /\ Table[<<p, NOFILE + 1>>] = None
         /\ pc[p] # "dup" => \A i \in Fd : Table[<<p, i>>] = ofile[p][i]
<1>1. SlotValues
  BY TableFacts
<1>2. /\ Table[<<p, NOFILE>>] = IF Len(held[p]) > 0 THEN held[p][1] ELSE None
      /\ Table[<<p, NOFILE + 1>>] = IF Len(held[p]) > 1 THEN held[p][2] ELSE None
  BY <1>1 DEF SlotValues
<1>3. ~(0 > 0) /\ ~(0 > 1)
  OBVIOUS
<1>. QED BY <1>1, <1>2, <1>3, Zenon DEF SlotValues

\* What slot i of p contains when a reference goes from its slot a to its slot b.
Moved(p, a, b, i) == IF i = a THEN None ELSE IF i = b THEN Table[<<p, a>>] ELSE Table[<<p, i>>]

\* A step moves the reference in slot a of p to the empty slot b of p.
Moves(p, a, b) ==
  /\ Table[<<p, a>>] \in File /\ Table[<<p, b>>] = None /\ ref' = ref
  /\ \A q \in Process : q # p => /\ ofile'[q] = ofile[q] /\ held'[q] = held[q]
                                  /\ pc'[q] = pc[q] /\ fd'[q] = fd[q]
  /\ \A i \in Fd : Moved(p, a, b, i) = IF pc'[p] = "dup" /\ fd'[p] = i THEN None ELSE ofile'[p][i]
  /\ Moved(p, a, b, NOFILE) = IF Len(held'[p]) > 0 THEN held'[p][1] ELSE None
  /\ Moved(p, a, b, NOFILE + 1) = IF Len(held'[p]) > 1 THEN held'[p][2] ELSE None

\* OpenFd, CloseFd, DupFd and ExitFd move one reference between slots of p.
LEMMA MoveStep ==
  ASSUME FInv, TypeOK', NEW p \in Process, NEW a \in 0..NOFILE + 1, NEW b \in 0..NOFILE + 1,
         Moves(p, a, b)
  PROVE  RefCount'
<1>. USE DEF Moves
<1>. DEFINE x == <<p, a>>
            y == <<p, b>>
            T == [s \in Slot |-> IF s = x THEN None ELSE IF s = y THEN Table[x] ELSE Table[s]]
<1>0. x \in Slot /\ y \in Slot
  BY DEF Slot
<1>1. Table \in Tables
  BY TableFacts DEF FInv, SlotValues
<1>2. T \in Tables /\ \A s \in Slot : T[s] = IF s = x THEN None ELSE IF s = y THEN Table[x] ELSE Table[s]
  BY <1>0, <1>1 DEF Tables
<1>. HIDE DEF T
<1>3. ASSUME NEW q \in Process, NEW i \in Nat, q # p, <<q, i>> \in Slot
      PROVE  T[<<q, i>>] = Table[<<q, i>>]
  BY <1>2, <1>3
<1>4. ASSUME NEW i, <<p, i>> \in Slot
      PROVE  T[<<p, i>>] = Moved(p, a, b, i)
  BY <1>2, <1>4 DEF Moved
<1>5. /\ \A i \in Fd : T[<<p, i>>] = IF pc'[p] = "dup" /\ fd'[p] = i THEN None ELSE ofile'[p][i]
      /\ T[<<p, NOFILE>>] = IF Len(held'[p]) > 0 THEN held'[p][1] ELSE None
      /\ T[<<p, NOFILE + 1>>] = IF Len(held'[p]) > 1 THEN held'[p][2] ELSE None
  BY <1>4, SlotsDiffer, Zenon
<1>6. Table' = T
  BY <1>2, <1>3, <1>5, TableAt, ZenonT(40) DEF FInv
<1>. HIDE DEF x, y
<1>7. Table[x] \in File /\ Table[y] = None
  BY Zenon DEF x, y
<1>. QED BY <1>0, <1>1, <1>2, <1>6, <1>7, RefsMoved, ZenonT(40) DEF FInv

\* close and exit take a file out of a descriptor to close it; fd[p] becomes k.
LEMMA CloseStep ==
  ASSUME FInv, NEW p \in Process, NEW i \in Fd, NEW k \in 0..NOFILE,
         pc[p] \in {"user", "exit"}, ofile[p][i] \in File,
         ofile' = [ofile EXCEPT ![p][i] = None], held' = [held EXCEPT ![p] = <<ofile[p][i]>>],
         pc' = [pc EXCEPT ![p] = "close"], fd' = [fd EXCEPT ![p] = k],
         \A j \in Fd : j < k => j = i \/ ofile[p][j] = None,
         UNCHANGED <<ref, what, open, inodes, last, child>>
  PROVE  FInv'
<1>. USE ConstFacts DEF FInv
<1>. DEFINE f == ofile[p][i]
<1>1. f \in File /\ Len(held[p]) = 0
  BY DEF ControlInv
<1>2. /\ ofile' \in Ofiles
      /\ \A q \in Process : q # p => ofile'[q] = ofile[q]
      /\ \A j \in Fd : ofile'[p][j] = IF j = i THEN None ELSE ofile[p][j]
  <2>1. ofile \in Ofiles
    BY DEF TypeOK, Ofiles
  <2>. HIDE DEF FInv
  <2>. QED BY <2>1 DEF Ofiles
<1>. HIDE DEF f
<1>3. \A q \in Process : q # p => pc'[q] = pc[q] /\ held'[q] = held[q] /\ fd'[q] = fd[q]
  BY DEF TypeOK
<1>4. /\ pc'[p] = "close" /\ held'[p] = <<f>> /\ fd'[p] = k
      /\ Len(held'[p]) = 1 /\ held'[p][1] = f
  BY DEF f, TypeOK
<1>5. TypeOK'
  <2>1. "close" \in Pc /\ <<f>> \in Seq(File)
    BY <1>1 DEF Pc
  <2>. QED BY <1>2, <2>1, Zenon DEF TypeOK, Ofiles, f
<1>6. ControlInv'
  BY <1>2, <1>3, <1>4, ControlStep, SMTT(40)
<1>7. ForkInv'
  BY <1>2, <1>3, ForkKept
<1>8. RefCount'
  <2>1. /\ Table[<<p, NOFILE>>] = None /\ Table[<<p, NOFILE + 1>>] = None
        /\ \A j \in Fd : Table[<<p, j>>] = ofile[p][j]
    BY <1>1, IdleSlots, Zenon
  <2>2. Table[<<p, i>>] = f
    BY <2>1 DEF f
  <2>3. ASSUME NEW j \in Fd PROVE Moved(p, i, NOFILE, j) = ofile'[p][j]
    BY <1>2, <2>1, SlotsDiffer DEF Moved
  <2>4. Moved(p, i, NOFILE, NOFILE) = f
    BY <2>2, SlotsDiffer DEF Moved
  <2>5. Moved(p, i, NOFILE, NOFILE + 1) = None
    BY <2>1, SlotsDiffer DEF Moved
  <2>6. i \in 0..NOFILE + 1 /\ NOFILE \in 0..NOFILE + 1 /\ Table[<<p, i>>] \in File
    BY <1>1, <2>2
  <2>7. \A q \in Process : q # p => /\ ofile'[q] = ofile[q] /\ held'[q] = held[q]
                                    /\ pc'[q] = pc[q] /\ fd'[q] = fd[q]
    BY <1>2, <1>3, ZenonT(40)
  <2>8. \A j \in Fd : Moved(p, i, NOFILE, j) = IF pc'[p] = "dup" /\ fd'[p] = j THEN None ELSE ofile'[p][j]
    BY <1>4, <2>3
  <2>9. /\ Moved(p, i, NOFILE, NOFILE) = IF Len(held'[p]) > 0 THEN held'[p][1] ELSE None
        /\ Moved(p, i, NOFILE, NOFILE + 1) = IF Len(held'[p]) > 1 THEN held'[p][2] ELSE None
    BY <1>4, <2>4, <2>5
  <2>10. ref' = ref /\ Table[<<p, NOFILE>>] = None
    BY <2>1
  <2>. HIDE DEF FInv
  <2>11. Moves(p, i, NOFILE)
    BY <2>6, <2>7, <2>8, <2>9, <2>10, Zenon DEF Moves
  <2>. QED BY <1>5, <2>6, <2>11, MoveStep, Zenon
<1>9. FreshInv'
  <2>1. last[p] = NoFile
    BY DEF FreshInv
  <2>2. /\ \A q \in Process : pc'[q] \in {"open", "pipe"} => pc'[q] = pc[q] /\ held'[q] = held[q]
        /\ \A q \in Process : pc'[q] # "last" => pc[q] # "last"
    BY <1>3, <1>4
  <2>. QED BY <2>2, FreshSame, ZenonT(40)
<1>10. OneEnd' /\ LastCloseOnce'
  BY EndsKept
<1>. QED BY <1>5, <1>6, <1>7, <1>8, <1>9, <1>10

LEMMA CloseFdFInv ==
  ASSUME FInv, NEW p \in Process, NEW i \in Fd, CloseFd(p, i)
  PROVE  FInv'
<1>1. fd' = [fd EXCEPT ![p] = 0] /\ ofile[p][i] \in File /\ pc[p] = "user"
  BY ConstFacts DEF CloseFd, FInv, TypeOK, ControlInv
<1>2. 0 \in 0..NOFILE /\ \A j \in Fd : ~(j < 0)
  BY ConstFacts
<1>. QED BY <1>1, <1>2, CloseStep, Zenon DEF CloseFd, file

LEMMA ExitFdFInv ==
  ASSUME FInv, NEW p \in Process, ExitFd(p)
  PROVE  FInv'
<1>. USE ConstFacts DEF FInv, file
<1>. DEFINE i == fd[p]
<1>1. /\ pc[p] = "exit" /\ i \in Fd /\ ofile[p][i] \in File \cup {None} /\ Len(held[p]) = 0
      /\ \A j \in Fd : j < i => ofile[p][j] = None
      /\ UNCHANGED <<ref, what, open, inodes, last, child>>
      /\ fd' = [fd EXCEPT ![p] = i + 1] /\ i + 1 \in 0..NOFILE
  BY DEF ExitFd, TypeOK, ControlInv
<1>2. \A q \in Process : fd'[q] = IF q = p THEN i + 1 ELSE fd[q]
  BY <1>1 DEF TypeOK
<1>3. \A j \in Fd : j < i + 1 => j = i \/ ofile[p][j] = None
  <2>. HIDE DEF i, FInv
  <2>1. i \in Nat
    BY <1>1, Zenon
  <2>2. \A j \in Nat : j < i + 1 => j = i \/ j < i
    BY <2>1
  <2>. QED BY <1>1, <2>2, Zenon
<1>4. CASE ofile[p][i] = None
  <2>1. UNCHANGED <<ofile, held, pc>>
    BY <1>4 DEF ExitFd
  <2>2. TypeOK'
    BY <1>1, <2>1 DEF TypeOK
  <2>. HIDE DEF i
  <2>3. ControlInv'
    <3>1. \A q \in Process : q # p => /\ pc'[q] = pc[q] /\ held'[q] = held[q]
                                      /\ fd'[q] = fd[q] /\ ofile'[q] = ofile[q]
      BY <1>2, <2>1, Zenon
    <3>2. pc'[p] = "exit" /\ Len(held'[p]) = 0 /\ fd'[p] = i + 1
      BY <1>1, <1>2, <2>1, Zenon
    <3>3. \A j \in Fd : j < fd'[p] => ofile'[p][j] = None
      BY <1>3, <1>4, <2>1, <3>2, ZenonT(40)
    <3>. QED
      BY <3>1, <3>2, <3>3, ControlStep, ZenonT(40)
  <2>4. ForkInv'
    BY <1>1, <1>2, <2>1, ForkKept
  <2>5. Table' = Table
    BY <1>1, <1>2, <2>1, <2>2, TableKept
  <2>6. RefCount'
    BY <1>1, <2>5, RefsKept
  <2>7. FreshInv'
    BY <1>1, <2>1, Zenon DEF FreshInv
  <2>8. OneEnd' /\ LastCloseOnce'
    BY <1>1, EndsKept, Zenon
  <2>. QED BY <2>2, <2>3, <2>4, <2>6, <2>7, <2>8
<1>5. CASE ofile[p][i] # None
  <2>1. /\ ofile' = [ofile EXCEPT ![p][i] = None] /\ held' = [held EXCEPT ![p] = <<ofile[p][i]>>]
        /\ pc' = [pc EXCEPT ![p] = "close"]
    BY <1>5 DEF ExitFd
  <2>. HIDE DEF i, FInv
  <2>2. i \in Fd /\ ofile[p][i] \in File /\ i + 1 \in 0..NOFILE
    BY <1>1, <1>5
  <2>. QED BY <1>1, <1>3, <2>1, <2>2, CloseStep, ZenonT(40)
<1>. QED BY <1>4, <1>5, ZenonT(40)

LEMMA DupFdFInv ==
  ASSUME FInv, NEW p \in Process, NEW i \in Fd, DupFd(p, i)
  PROVE  FInv'
<1>. USE ConstFacts DEF FInv, file
<1>. DEFINE f == ofile[p][i]
            k == First(FreeFds(p))
<1>1. /\ pc[p] = "user" /\ f \in File /\ Len(held[p]) = 0
      /\ UNCHANGED <<ref, what, open, inodes, held, last, child>>
  BY DEF DupFd, TypeOK, ControlInv
<1>0. k \in Fd /\ ofile[p][k] = None /\ k # i
  BY <1>1, FdFacts DEF DupFd
<1>2. /\ ofile' \in Ofiles
      /\ \A q \in Process : q # p => ofile'[q] = ofile[q]
      /\ \A j \in Fd : ofile'[p][j] = IF j = k THEN f ELSE ofile[p][j]
  <2>1. ofile \in Ofiles /\ ofile' = [ofile EXCEPT ![p][k] = f]
    BY DEF DupFd, TypeOK, Ofiles
  <2>. HIDE DEF k, f, FInv
  <2>. QED BY <1>0, <1>1, <2>1 DEF Ofiles
<1>. HIDE DEF k
<1>3. \A q \in Process : /\ pc'[q] = IF q = p THEN "dup" ELSE pc[q]
                         /\ fd'[q] = IF q = p THEN i ELSE fd[q]
  BY DEF DupFd, TypeOK
<1>4. TypeOK'
  <2>1. "dup" \in Pc /\ i \in 0..NOFILE
    BY DEF Pc
  <2>. QED BY <1>1, <1>2, <2>1, Zenon DEF TypeOK, DupFd, Ofiles
<1>5. ControlInv'
  <2>1. ofile'[p][i] = f /\ ofile'[p][k] = f
    BY <1>0, <1>2
  <2>2. \A q \in Process : q # p => /\ pc'[q] = pc[q] /\ held'[q] = held[q]
                                    /\ fd'[q] = fd[q] /\ ofile'[q] = ofile[q]
    BY <1>1, <1>2, <1>3
  <2>3. /\ pc'[p] = "dup" /\ Len(held'[p]) = 0 /\ fd'[p] = i
        /\ fd'[p] \in Fd /\ ofile'[p][fd'[p]] # None /\ ofile'[p][k] = ofile'[p][fd'[p]] /\ k # fd'[p]
    BY <1>0, <1>1, <1>3, <2>1
  <2>4. ControlInv /\ k \in Fd
    BY <1>0
  <2>. HIDE DEF FInv, f
  <2>. QED BY <2>2, <2>3, <2>4, ControlStep, ZenonT(40)
<1>6. ForkInv'
  BY <1>1, <1>2, <1>3, ForkKept
<1>7. RefCount'
  <2>1. /\ Table[<<p, NOFILE>>] = None /\ Table[<<p, NOFILE + 1>>] = None
        /\ \A j \in Fd : Table[<<p, j>>] = ofile[p][j]
    BY <1>1, IdleSlots, ZenonT(40)
  <2>2. Table[<<p, i>>] = f /\ Table[<<p, k>>] = None
    BY <1>0, <2>1
  <2>. HIDE DEF f
  <2>3. ASSUME NEW j \in Fd PROVE Moved(p, i, k, j) = IF j = i THEN None ELSE ofile'[p][j]
    BY <1>0, <1>2, <2>1, <2>2 DEF Moved
  <2>4. Moved(p, i, k, NOFILE) = None /\ Moved(p, i, k, NOFILE + 1) = None
    BY <1>0, <2>1, SlotsDiffer, ZenonT(40) DEF Moved
  <2>5. pc'[p] = "dup" /\ fd'[p] = i /\ Len(held'[p]) = 0
    BY <1>1, <1>3, Zenon
  <2>6. i \in 0..NOFILE + 1 /\ k \in 0..NOFILE + 1 /\ Table[<<p, i>>] \in File
    BY <1>0, <1>1, <2>2
  <2>7. \A q \in Process : q # p => /\ ofile'[q] = ofile[q] /\ held'[q] = held[q]
                                    /\ pc'[q] = pc[q] /\ fd'[q] = fd[q]
    BY <1>1, <1>2, <1>3
  <2>8. \A j \in Fd : Moved(p, i, k, j) = IF pc'[p] = "dup" /\ fd'[p] = j THEN None ELSE ofile'[p][j]
    BY <2>3, <2>5, ZenonT(40)
  <2>9. /\ Moved(p, i, k, NOFILE) = IF Len(held'[p]) > 0 THEN held'[p][1] ELSE None
        /\ Moved(p, i, k, NOFILE + 1) = IF Len(held'[p]) > 1 THEN held'[p][2] ELSE None
    BY <2>4, <2>5
  <2>10. ref' = ref
    BY <1>1
  <2>. HIDE DEF FInv
  <2>11. Moves(p, i, k)
    BY <2>2, <2>6, <2>7, <2>8, <2>9, <2>10, ZenonT(40) DEF Moves
  <2>. QED BY <1>4, <2>6, <2>11, MoveStep, Zenon
<1>8. FreshInv'
  <2>1. /\ \A q \in Process : pc'[q] \in {"open", "pipe"} => pc'[q] = pc[q] /\ held'[q] = held[q]
        /\ \A q \in Process : pc'[q] # "last" => pc[q] # "last"
    BY <1>1, <1>3
  <2>2. UNCHANGED <<ref, what, last>>
    BY <1>1
  <2>. QED BY <2>1, <2>2, FreshSame, ZenonT(40)
<1>9. OneEnd' /\ LastCloseOnce'
  BY <1>1, EndsKept
<1>. QED BY <1>4, <1>5, <1>6, <1>7, <1>8, <1>9

\* Files are finitely many.
LEMMA FilesFinite ==
  /\ \A w : IsFiniteSet({f \in File : what[f] = w})
  /\ \A w : IsFiniteSet({p \in Process : last[p] = w})
<1>1. IsFiniteSet(File)
  BY ConstFacts, FS_Interval DEF File
<1>. QED BY <1>1, FileAssumption, FS_Subset

\* The local variables of a process with one or two files.
LEMMA HeldOne ==
  ASSUME TypeOK, NEW p \in Process, Len(held[p]) = 1
  PROVE  held[p][1] \in File /\ Table[<<p, NOFILE>>] = held[p][1] /\ Table[<<p, NOFILE + 1>>] = None
<1>1. 1 >= 1 /\ ~(1 > 1)
  OBVIOUS
<1>2. SlotValues
  BY TableFacts
<1>3. Table[<<p, NOFILE + 1>>] = IF Len(held[p]) > 1 THEN held[p][2] ELSE None
  BY <1>2, Zenon DEF SlotValues
<1>. QED BY <1>1, <1>3, HeldFacts, Zenon

LEMMA HeldTwo ==
  ASSUME TypeOK, NEW p \in Process, Len(held[p]) = 2
  PROVE  /\ held[p][1] \in File /\ Table[<<p, NOFILE>>] = held[p][1]
         /\ held[p][2] \in File /\ Table[<<p, NOFILE + 1>>] = held[p][2]
<1>1. 2 >= 1 /\ 2 >= 2
  OBVIOUS
<1>. QED BY <1>1, HeldFacts, Zenon

\* An action of p on a file that a slot of p refers to leaves the files of open
\* and pipealloc of the others alone.
LEMMA FreshKept ==
  ASSUME FInv, NEW p \in Process, NEW f \in File, NEW i, <<p, i>> \in Slot, Table[<<p, i>>] = f,
         \A g \in File : g # f => ref'[g] = ref[g] /\ what'[g] = what[g],
         \A q \in Process : q # p => pc'[q] = pc[q] /\ held'[q] = held[q] /\ last'[q] = last[q],
         ref'[f] = 0 => what'[f] = NoFile,
         pc'[p] \notin {"open", "pipe"}, pc'[p] # "last" => last'[p] = NoFile
  PROVE  FreshInv'
<1>1. ASSUME NEW q \in Process, q # p, pc[q] \in {"open", "pipe"}
      PROVE  /\ held[q][1] # f /\ held[q][1] \in File
             /\ Len(held[q]) = 2 => held[q][2] # f /\ held[q][2] \in File
  <2>1. <<p, i>> # <<q, NOFILE>> /\ <<p, i>> # <<q, NOFILE + 1>>
    BY <1>1, SlotsDiffer, Zenon
  <2>2. held[q][1] # f /\ (Len(held[q]) = 2 => held[q][2] # f)
    BY <1>1, <2>1, NotFresh, Zenon
  <2>3. Len(held[q]) \in {1, 2}
    BY <1>1, ZenonT(40) DEF FInv, ControlInv
  <2>. QED BY <2>2, <2>3, HeldOne, HeldTwo, Zenon DEF FInv
<1>2. \A g \in File : ref'[g] = 0 => what'[g] = NoFile
  BY DEF FInv, FreshInv
<1>3. ASSUME NEW q \in Process
      PROVE  /\ pc'[q] \in {"open", "pipe"} => ref'[held'[q][1]] = 1
             /\ pc'[q] = "pipe" /\ Len(held'[q]) = 2 => ref'[held'[q][2]] = 1
             /\ pc'[q] = "open" => what'[held'[q][1]] = NoFile
             /\ pc'[q] = "pipe" /\ Len(held'[q]) = 1 => what'[held'[q][1]] = NoFile
             /\ pc'[q] = "pipe" /\ Len(held'[q]) = 2 /\ what'[held'[q][1]] = NoFile => what'[held'[q][2]] = NoFile
             /\ pc'[q] # "last" => last'[q] = NoFile
  <2>1. CASE q = p
    BY <2>1, Zenon
  <2>2. CASE q # p /\ pc[q] \in {"open", "pipe"}
    <3>1. /\ ref'[held[q][1]] = ref[held[q][1]] /\ what'[held[q][1]] = what[held[q][1]]
          /\ Len(held[q]) = 2 => ref'[held[q][2]] = ref[held[q][2]] /\ what'[held[q][2]] = what[held[q][2]]
      BY <1>1, <2>2, Zenon
    <3>2. /\ pc'[q] = pc[q] /\ held'[q] = held[q] /\ last'[q] = last[q]
          /\ pc[q] # "last" => last[q] = NoFile
      BY <2>2, ZenonT(40) DEF FInv, FreshInv
    <3>3. /\ ref[held[q][1]] = 1
          /\ pc[q] = "pipe" /\ Len(held[q]) = 2 => ref[held[q][2]] = 1
          /\ pc[q] = "open" => what[held[q][1]] = NoFile
          /\ pc[q] = "pipe" /\ Len(held[q]) = 1 => what[held[q][1]] = NoFile
          /\ pc[q] = "pipe" /\ Len(held[q]) = 2 /\ what[held[q][1]] = NoFile => what[held[q][2]] = NoFile
      BY <2>2 DEF FInv, FreshInv
    <3>. QED BY <3>1, <3>2, <3>3, Zenon
  <2>3. CASE q # p /\ pc[q] \notin {"open", "pipe"}
    BY <2>3, Zenon DEF FInv, FreshInv
  <2>. QED BY <2>1, <2>2, <2>3, Zenon
<1>. QED BY <1>2, <1>3, Zenon DEF FreshInv

LEMMA OpenFdFInv ==
  ASSUME FInv, NEW p \in Process, OpenFd(p)
  PROVE  FInv'
<1>. USE ConstFacts DEF FInv, file
<1>. DEFINE f == held[p][1]
            k == First(FreeFds(p))
<1>1. /\ pc[p] = "open" /\ Len(held[p]) = 1 /\ fd[p] = 0
      /\ ref[f] = 1 /\ what[f] = NoFile /\ last[p] = NoFile
      /\ UNCHANGED <<ref, open, last, child, fd>>
      /\ what' = [what EXCEPT ![f] = OnInode] /\ inodes' = inodes + 1
  BY Zenon DEF OpenFd, ControlInv, FreshInv
<1>2. f \in File /\ Table[<<p, NOFILE>>] = f /\ Table[<<p, NOFILE + 1>>] = None
  BY <1>1, HeldOne, Zenon
<1>3. k \in Fd /\ ofile[p][k] = None
  BY FdFacts DEF OpenFd
<1>4. ofile' = [ofile EXCEPT ![p][k] = f]
  BY DEF OpenFd
<1>. HIDE DEF k
<1>5. /\ ofile' \in Ofiles
      /\ \A q \in Process : q # p => ofile'[q] = ofile[q]
      /\ \A j \in Fd : ofile'[p][j] = IF j = k THEN f ELSE ofile[p][j]
  <2>1. ofile \in Ofiles
    BY DEF TypeOK, Ofiles
  <2>. HIDE DEF f, FInv
  <2>. QED BY <1>2, <1>3, <1>4, <2>1 DEF Ofiles
<1>6. /\ \A q \in Process : q # p => pc'[q] = pc[q] /\ held'[q] = held[q]
      /\ pc'[p] = "user" /\ Len(held'[p]) = 0
  BY DEF OpenFd, TypeOK
<1>7. TypeOK'
  <2>1. "user" \in Pc /\ <<>> \in Seq(File)
    BY DEF Pc
  <2>2. OnInode \in What
    BY WhatFacts, Zenon
  <2>3. /\ pc' = [pc EXCEPT ![p] = "user"]
        /\ held' = [held EXCEPT ![p] = <<>>]
    BY DEF OpenFd
  <2>. HIDE DEF f
  <2>4. inodes' \in Int
    BY <1>1 DEF TypeOK
  <2>5. what' \in [File -> What]
    BY <1>1, <2>2, Zenon DEF TypeOK
  <2>6. pc' \in [Process -> Pc] /\ held' \in [Process -> Seq(File)]
    BY <2>1, <2>3, Zenon DEF TypeOK
  <2>. QED BY <1>1, <1>5, <2>4, <2>5, <2>6, ZenonT(40) DEF TypeOK, Ofiles
<1>8. ControlInv'
  <2>. HIDE DEF f
  <2>. QED BY <1>1, <1>5, <1>6, ControlStep, Zenon
<1>9. ForkInv'
  BY <1>1, <1>5, <1>6, ForkKept, ZenonT(40)
<1>. HIDE DEF f
<1>10. RefCount'
  <2>1. SlotValues
    BY TableFacts
  <2>2. \A j \in Fd : Table[<<p, j>>] = IF pc[p] = "dup" /\ fd[p] = j THEN None ELSE ofile[p][j]
    BY <2>1, Zenon DEF SlotValues
  <2>3. \A j \in Fd : Table[<<p, j>>] = ofile[p][j]
    <3>. HIDE DEF FInv
    <3>. QED BY <1>1, <2>2, Zenon
  <2>4. ASSUME NEW j \in Fd PROVE Moved(p, NOFILE, k, j) = ofile'[p][j]
    BY <1>2, <1>3, <1>5, <2>3, SlotsDiffer, Zenon DEF Moved
  <2>5. Moved(p, NOFILE, k, NOFILE) = None /\ Moved(p, NOFILE, k, NOFILE + 1) = None
    BY <1>2, <1>3, SlotsDiffer, Zenon DEF Moved
  <2>6. Table[<<p, k>>] = None
    BY <1>3, <2>3
  <2>7. NOFILE \in 0..NOFILE + 1 /\ k \in 0..NOFILE + 1 /\ Table[<<p, NOFILE>>] \in File /\ ref' = ref
    BY <1>1, <1>2, <1>3
  <2>8. \A q \in Process : q # p => /\ ofile'[q] = ofile[q] /\ held'[q] = held[q]
                                    /\ pc'[q] = pc[q] /\ fd'[q] = fd[q]
    BY <1>1, <1>5, <1>6
  <2>9. \A j \in Fd : Moved(p, NOFILE, k, j) = IF pc'[p] = "dup" /\ fd'[p] = j THEN None ELSE ofile'[p][j]
    BY <1>6, <2>4, ZenonT(40)
  <2>10. /\ Moved(p, NOFILE, k, NOFILE) = IF Len(held'[p]) > 0 THEN held'[p][1] ELSE None
         /\ Moved(p, NOFILE, k, NOFILE + 1) = IF Len(held'[p]) > 1 THEN held'[p][2] ELSE None
    BY <1>6, <2>5
  <2>. HIDE DEF FInv
  <2>11. Moves(p, NOFILE, k)
    BY <2>6, <2>7, <2>8, <2>9, <2>10, ZenonT(40) DEF Moves
  <2>. QED BY <1>7, <2>7, <2>11, MoveStep, ZenonT(40)
<1>11. \A g \in File : what'[g] = IF g = f THEN OnInode ELSE what[g]
  BY <1>1, <1>2, Zenon DEF TypeOK
<1>12. FreshInv'
  <2>1. <<p, NOFILE>> \in Slot
    BY SlotsDiffer, Zenon
  <2>2. \A g \in File : g # f => ref'[g] = ref[g] /\ what'[g] = what[g]
    BY <1>1, <1>11
  <2>3. ref'[f] # 0 /\ pc'[p] \notin {"open", "pipe"} /\ last'[p] = NoFile
    BY <1>1, <1>6
  <2>4. \A q \in Process : q # p => pc'[q] = pc[q] /\ held'[q] = held[q] /\ last'[q] = last[q]
    BY <1>1, <1>6
  <2>. HIDE DEF FInv
  <2>. QED BY <1>2, <2>1, <2>2, <2>3, <2>4, FreshKept, ZenonT(40)
<1>13. OneEnd'
  <2>1. ASSUME NEW o \in Page, NEW e \in End
        PROVE  \A g \in File : what'[g] = PipeEnd(o, e) => what[g] = PipeEnd(o, e)
    <3>1. PipeEnd(o, e) # OnInode
      BY PipeEndFacts
    <3>. QED BY <1>11, <3>1
  <2>2. last' = last
    BY <1>1, Zenon
  <2>. QED BY <2>1, <2>2, ZenonT(40) DEF OneEnd
<1>14. LastCloseOnce'
  <2>1. ASSUME NEW o \in Page, NEW e \in {"read", "write"}
        PROVE  e \in open'[o] <=> EndOpen(o, e)'
    <3>1. PipeEnd(o, e) # OnInode /\ PipeEnd(o, e) # NoFile
      BY WhatFacts DEF End
    <3>2. EndOpen(o, e)' <=> EndOpen(o, e)
      BY <1>1, <1>2, <1>11, <3>1, SMTT(40) DEF EndOpen
    <3>. QED BY <1>1, <3>2 DEF LastCloseOnce
  <2>2. Cardinality({g \in File : what'[g] = OnInode}) = Cardinality({g \in File : what[g] = OnInode}) + 1
    <3>. DEFINE R == {g \in File : what[g] = OnInode}
    <3>1. {g \in File : what'[g] = OnInode} = R \cup {f} /\ f \notin R
      BY <1>1, <1>2, <1>11, WhatFacts, SMTT(40)
    <3>2. IsFiniteSet(R)
      BY FilesFinite, Zenon
    <3>. HIDE DEF R
    <3>3. Cardinality(R \cup {f}) = Cardinality(R) + 1
      BY <3>1, <3>2, CardAdd
    <3>. QED BY <3>1, <3>3 DEF R
  <2>3. Cardinality({g \in File : what[g] = OnInode}) \in Nat /\ Cardinality({q \in Process : last[q] = OnInode}) \in Nat
    BY FilesFinite, FS_CardinalityType, ZenonT(40)
  <2>4. inodes' = Cardinality({g \in File : what'[g] = OnInode}) + Cardinality({q \in Process : last'[q] = OnInode})
    <3>. DEFINE A == Cardinality({g \in File : what[g] = OnInode})
                A2 == Cardinality({g \in File : what'[g] = OnInode})
                B == Cardinality({q \in Process : last[q] = OnInode})
    <3>1. inodes = A + B /\ A2 = A + 1 /\ A \in Nat /\ B \in Nat
      BY <2>2, <2>3 DEF LastCloseOnce
    <3>2. Cardinality({q \in Process : last'[q] = OnInode}) = B
      BY <1>1, Zenon
    <3>. HIDE DEF A, A2, B
    <3>. QED BY <1>1, <3>1, <3>2 DEF A2
  <2>. QED BY <2>1, <2>4 DEF LastCloseOnce
<1>. QED BY <1>7, <1>8, <1>9, <1>10, <1>12, <1>13, <1>14

LEMMA DupRefFInv ==
  ASSUME FInv, NEW p \in Process, DupRef(p)
  PROVE  FInv'
<1>. USE ConstFacts DEF FInv, file
<1>. DEFINE i == fd[p]
            f == ofile[p][i]
<1>1. /\ pc[p] = "dup" /\ i \in Fd /\ f \in File /\ Len(held[p]) = 0 /\ last[p] = NoFile
      /\ UNCHANGED <<what, ofile, open, inodes, held, last, child>>
      /\ ref' = [ref EXCEPT ![f] = @ + 1]
  <2>1. /\ pc[p] = "dup"
        /\ UNCHANGED <<what, ofile, open, inodes, held, last, child>>
        /\ ref' = [ref EXCEPT ![f] = @ + 1]
    BY DEF DupRef
  <2>2. i \in Fd /\ f # None /\ Len(held[p]) = 0
    BY <2>1, Zenon DEF ControlInv
  <2>3. last[p] = NoFile
    BY <2>1, Zenon DEF FreshInv
  <2>4. f \in File
    <3>1. ofile \in [Process -> [Fd -> File \cup {None}]]
      BY DEF TypeOK
    <3>. QED BY <2>2, <3>1, Zenon
  <2>. QED BY <2>1, <2>2, <2>3, <2>4, ZenonT(40)
<1>2. PICK j \in Fd : j # i /\ ofile[p][j] = f
  BY <1>1, Zenon DEF ControlInv
<1>3. \A q \in Process : /\ pc'[q] = IF q = p THEN "user" ELSE pc[q]
                         /\ fd'[q] = IF q = p THEN 0 ELSE fd[q]
  BY DEF DupRef, TypeOK
<1>4. TypeOK'
  <2>1. "user" \in Pc /\ 0 \in 0..NOFILE
    BY DEF Pc
  <2>2. ref' \in [File -> Int]
    <3>. HIDE DEF f
    <3>. QED BY <1>1 DEF TypeOK
  <2>. QED BY <1>1, <2>1, <2>2, Zenon DEF TypeOK, DupRef
<1>5. SlotValues
  BY TableFacts
<1>6. Table \in Tables /\ Table[<<p, i>>] = None /\ <<p, i>> \in Slot
  BY <1>1, <1>5, Zenon DEF SlotValues
<1>7. \A k \in Fd : k # i => Table[<<p, k>>] = ofile[p][k] /\ <<p, k>> \in Slot
  BY <1>5, Zenon DEF SlotValues
<1>8. Table[<<p, NOFILE>>] = None /\ Table[<<p, NOFILE + 1>>] = None
  BY <1>1, IdleSlots, Zenon
<1>. HIDE DEF f
<1>9. ControlInv'
  BY <1>1, <1>3, ControlStep, Zenon
<1>10. ForkInv'
  BY <1>1, <1>3, ForkKept, Zenon
<1>11. RefCount'
  <2>. DEFINE T == [Table EXCEPT ![<<p, i>>] = f]
  <2>1. T \in Tables /\ \A s \in Slot : T[s] = IF s = <<p, i>> THEN f ELSE Table[s]
    BY <1>1, <1>6 DEF Tables
  <2>2. \A g \in File : Count(T, g) = IF g = f THEN Count(Table, g) + 1 ELSE Count(Table, g)
    <3>. DEFINE x == <<p, i>>
    <3>1. Added(Table, T, x, f)
      BY <1>1, <1>6 DEF Added
    <3>. HIDE DEF x, T
    <3>. HIDE DEF FInv
    <3>3. Count(T, f) = Count(Table, f) + 1 /\ \A g \in File : g # f => Count(T, g) = Count(Table, g)
      BY <3>1, CountAdded
    <3>. QED BY <3>3
  <2>. HIDE DEF T
  <2>3. Table' = T
    <3>1. ASSUME NEW q \in Process, NEW k \in Nat, q # p, <<q, k>> \in Slot
          PROVE  T[<<q, k>>] = Table[<<q, k>>]
      BY <2>1, <3>1
    <3>2. ASSUME NEW k \in Fd PROVE T[<<p, k>>] = ofile[p][k]
      BY <1>1, <1>6, <1>7, <2>1, SlotsDiffer, ZenonT(40) DEF f
    <3>3. T[<<p, NOFILE>>] = None /\ T[<<p, NOFILE + 1>>] = None
      BY <1>1, <1>8, <2>1, SlotsDiffer
    <3>4. /\ pc'[p] # "dup" /\ Len(held'[p]) = 0 /\ TypeOK
          /\ \A q \in Process : q # p => ofile'[q] = ofile[q] /\ held'[q] = held[q]
          /\ \A q \in Process : q # p /\ (pc[q] = "dup" \/ pc'[q] = "dup") => pc'[q] = pc[q] /\ fd'[q] = fd[q]
          /\ \A k \in Fd : T[<<p, k>>] = ofile'[p][k]
      BY <1>1, <1>3, <3>2, ZenonT(40)
    <3>. HIDE DEF i, FInv
    <3>. QED BY <1>4, <2>1, <3>1, <3>3, <3>4, TableIdle, ZenonT(40)
  <2>4. ASSUME NEW g \in File PROVE ref'[g] = Count(Table', g)
    <3>1. ref[g] = Count(Table, g) /\ ref[g] \in Nat
      BY CountFacts
    <3>. QED BY <1>1, <2>2, <2>3, <3>1 DEF TypeOK
  <2>. QED BY <2>4, RefCountNext, Zenon
<1>12. FreshInv'
  <2>1. ref[f] \in Nat
    BY <1>1, CountFacts, ZenonT(40)
  <2>2. (\A g \in File : g # f => ref'[g] = ref[g]) /\ ref'[f] # 0
    BY <1>1, <2>1 DEF TypeOK
  <2>3. Table[<<p, j>>] = f /\ <<p, j>> \in Slot
    BY <1>2, <1>7, Zenon
  <2>. HIDE DEF i
  <2>. QED BY <1>1, <1>3, <2>2, <2>3, FreshKept, SMTT(40)
<1>13. OneEnd' /\ LastCloseOnce'
  BY <1>1, EndsKept, Zenon
<1>. QED BY <1>4, <1>9, <1>10, <1>11, <1>12, <1>13
=============================================================================
