-------------------------- MODULE FileTableProofs --------------------------
(***************************************************************************)
(* Reference counts of open files are exact, and pipeclose and iput are    *)
(* called once per file, for every number of processes, files, descriptors *)
(* and pipes.                                                              *)
(***************************************************************************)
EXTENDS FileTableSteps

LEMMA ForkDupFInv ==
  ASSUME FInv, NEW p \in Process, ForkDup(p)
  PROVE  FInv'
<1>. USE ConstFacts DEF FInv, file
<1>. DEFINE i == fd[p]
            f == ofile[p][i]
            c == child[p]
<1>1. /\ pc[p] = "fork" /\ i \in Fd /\ f \in File \cup {None} /\ c \in Process /\ c # p
      /\ pc[c] = "fork" /\ child[c] = c /\ ofile[c][i] = None
      /\ Len(held[p]) = 0 /\ Len(held[c]) = 0 /\ last[p] = NoFile
      /\ \A j \in Fd : j >= i => ofile[c][j] = None
      /\ \A q \in Process : child[q] # q /\ q # p => child[q] # c /\ child[q] \in Process /\ q # c
      /\ UNCHANGED <<what, open, inodes, pc, held, last, child>>
  <2>1. /\ pc[p] = "fork" /\ c # p /\ i < NOFILE
        /\ UNCHANGED <<what, open, inodes, pc, held, last, child>>
    BY DEF ForkDup
  <2>2. i \in Fd
    BY <2>1 DEF TypeOK
  <2>3. c \in Process /\ f \in File \cup {None}
    <3>1. ofile \in [Process -> [Fd -> File \cup {None}]] /\ child \in [Process -> Process]
      BY DEF TypeOK
    <3>. QED BY <2>2, <3>1, Zenon
  <2>4. /\ pc[c] = "fork" /\ child[c] = c
        /\ \A j \in Fd : j >= i => ofile[c][j] = None
    BY <2>1, Zenon DEF ForkInv
  <2>5. ofile[c][i] = None
    <3>1. i >= i
      <4>. HIDE DEF i, FInv
      <4>1. i \in Nat
        BY <2>2, Zenon
      <4>. QED BY <4>1
    <3>. QED BY <2>2, <2>4, <3>1, Zenon
  <2>6. Len(held[p]) = 0 /\ Len(held[c]) = 0
    BY <2>1, <2>3, <2>4, Zenon DEF ControlInv
  <2>7. last[p] = NoFile
    BY <2>1, Zenon DEF FreshInv
  <2>8. \A q \in Process : child[q] # q /\ q # p => child[q] # c /\ child[q] \in Process /\ q # c
    <3>1. child \in [Process -> Process]
      BY DEF TypeOK
    <3>. QED BY <2>1, <2>3, <2>4, <3>1, Zenon DEF ForkInv
  <2>. QED BY <2>1, <2>2, <2>3, <2>4, <2>5, <2>6, <2>7, <2>8, Zenon
<1>2. /\ \A q \in Process : fd'[q] = IF q = p THEN i + 1 ELSE fd[q]
      /\ fd' \in [Process -> 0..NOFILE]
  BY <1>1 DEF ForkDup, TypeOK
<1>3. /\ f = None => UNCHANGED <<ref, ofile>>
      /\ f # None => ref' = [ref EXCEPT ![f] = @ + 1] /\ ofile' = [ofile EXCEPT ![c][i] = f]
  BY DEF ForkDup
<1>. HIDE DEF f, c
<1>4. /\ ofile' \in Ofiles
      /\ \A q \in Process : q # c => ofile'[q] = ofile[q]
      /\ \A j \in Fd : ofile'[c][j] = IF j = i THEN f ELSE ofile[c][j]
  <2>1. CASE f = None
    BY <1>1, <1>3, <2>1 DEF TypeOK, Ofiles
  <2>2. CASE f # None
    <3>1. ofile' = [ofile EXCEPT ![c][i] = f] /\ ofile \in Ofiles
      BY <1>3, <2>2 DEF TypeOK, Ofiles
    <3>2. c \in Process /\ i \in Fd /\ f \in File \cup {None}
      BY <1>1
    <3>. HIDE DEF i, FInv
    <3>. QED BY <3>1, <3>2 DEF Ofiles
  <2>. QED BY <2>1, <2>2, Zenon
<1>5. /\ ref' \in [File -> Int]
      /\ \A g \in File : ref'[g] = IF g = f THEN ref[g] + 1 ELSE ref[g]
  BY <1>1, <1>3 DEF TypeOK
<1>6. TypeOK'
  BY <1>1, <1>2, <1>4, <1>5, Zenon DEF TypeOK, Ofiles
<1>7. i \in Nat /\ \A j \in Nat : j >= i + 1 => j >= i /\ j # i
  <2>. HIDE DEF i, FInv
  <2>1. i \in Nat
    BY <1>1, Zenon
  <2>. QED BY <2>1
<1>8. f # None => Table[<<p, i>>] = f /\ <<p, i>> \in Slot
  <2>1. SlotValues
    BY TableFacts
  <2>. QED BY <1>1, <2>1, Zenon DEF SlotValues, f
<1>. HIDE DEF i
<1>9. ControlInv'
  <2>1. \A q \in Process : q # p /\ q # c => /\ pc'[q] = pc[q] /\ held'[q] = held[q]
                                             /\ fd'[q] = fd[q] /\ ofile'[q] = ofile[q]
    BY <1>1, <1>2, <1>4, Zenon
  <2>2. \A q \in {p, c} : Len(held'[q]) = 0 /\ (pc'[q] = "fork" \/ (pc'[q] = "user" /\ fd'[q] = 0))
    BY <1>1, Zenon
  <2>3. ControlInv /\ c \in Process
    BY <1>1, Zenon
  <2>. HIDE DEF FInv
  <2>. QED BY <2>1, <2>2, <2>3, ControlTwo, Zenon
<1>10. ForkInv'
  <2>1. ASSUME NEW q \in Process, child[q] # q
        PROVE  /\ pc[q] = "fork" /\ pc[child[q]] = "fork"
               /\ child[child[q]] = child[q]
               /\ \A j \in Fd : j >= fd'[q] => ofile'[child[q]][j] = None
    <3>1. CASE q = p
      <4>1. ASSUME NEW j \in Fd, j >= fd'[p] PROVE ofile'[c][j] = None
        <5>1. j >= i /\ j # i
          BY <1>2, <1>7, <4>1
        <5>. QED BY <1>1, <1>4, <5>1, Zenon
      <4>. QED BY <1>1, <3>1, <4>1, Zenon DEF c
    <3>2. CASE q # p
      <4>1. child[q] # c /\ child[q] \in Process /\ fd'[q] = fd[q] /\ ofile'[child[q]] = ofile[child[q]]
        BY <1>1, <1>2, <1>4, <2>1, <3>2, Zenon
      <4>. QED BY <2>1, <4>1 DEF ForkInv
    <3>. QED BY <3>1, <3>2, Zenon
  <2>. QED BY <1>1, <2>1, Zenon DEF ForkInv
<1>11. RefCount'
  <2>1. CASE f = None
    <3>1. Table' = Table
      BY <1>1, <1>2, <1>3, <1>6, <2>1, TableKept
    <3>. QED BY <1>3, <2>1, <3>1, RefsKept
  <2>2. CASE f # None
    <3>0. f \in File
      BY <1>1, <2>2
    <3>1. /\ Table[<<c, NOFILE>>] = None /\ Table[<<c, NOFILE + 1>>] = None
          /\ \A j \in Fd : Table[<<c, j>>] = ofile[c][j]
      BY <1>1, IdleSlots
    <3>2. Table \in Tables /\ Table[<<c, i>>] = None /\ <<c, i>> \in Slot
      BY <1>1, <3>1, SlotsDiffer, TableFacts, Zenon DEF SlotValues
    <3>. DEFINE T == [Table EXCEPT ![<<c, i>>] = f]
    <3>3. T \in Tables /\ \A s \in Slot : T[s] = IF s = <<c, i>> THEN f ELSE Table[s]
      BY <3>0, <3>2 DEF Tables
    <3>4. \A g \in File : Count(T, g) = IF g = f THEN Count(Table, g) + 1 ELSE Count(Table, g)
      <4>. DEFINE x == <<c, i>>
      <4>1. Added(Table, T, x, f)
        BY <3>0, <3>2 DEF Added
      <4>. HIDE DEF x, T
      <4>2. Count(T, f) = Count(Table, f) + 1 /\ \A g \in File : g # f => Count(T, g) = Count(Table, g)
        BY <4>1, CountAdded
      <4>. QED BY <4>2
    <3>. HIDE DEF T
    <3>5. Table' = T
      <4>1. ASSUME NEW q \in Process, NEW k \in Nat, q # c, <<q, k>> \in Slot
            PROVE  T[<<q, k>>] = Table[<<q, k>>]
        BY <3>3, <4>1
      <4>2. ASSUME NEW k \in Fd PROVE T[<<c, k>>] = ofile'[c][k]
        BY <1>1, <1>4, <3>1, <3>3, SlotsDiffer, Zenon
      <4>3. T[<<c, NOFILE>>] = None /\ T[<<c, NOFILE + 1>>] = None
        BY <1>1, <3>1, <3>3, SlotsDiffer, Zenon
      <4>4. \A q \in Process : q # c => ofile'[q] = ofile[q] /\ held'[q] = held[q]
        BY <1>1, <1>4, Zenon
      <4>5. \A q \in Process : q # c /\ (pc[q] = "dup" \/ pc'[q] = "dup") => pc'[q] = pc[q] /\ fd'[q] = fd[q]
        BY <1>1, <1>2
      <4>6. c \in Process /\ pc'[c] # "dup" /\ Len(held'[c]) = 0 /\ TypeOK
        BY <1>1
      <4>. HIDE DEF FInv
      <4>. QED BY <1>6, <3>3, <4>1, <4>2, <4>3, <4>4, <4>5, <4>6, TableIdle, Zenon
    <3>6. ASSUME NEW g \in File PROVE ref'[g] = Count(Table', g)
      <4>1. ref[g] = Count(Table, g) /\ ref[g] \in Nat
        BY CountFacts
      <4>. QED BY <1>5, <3>4, <3>5, <4>1
    <3>. QED BY <3>6, RefCountNext, Zenon
  <2>. QED BY <2>1, <2>2
<1>12. FreshInv'
  <2>1. CASE f = None
    <3>1. UNCHANGED <<ref, what, pc, held, last>>
      BY <1>1, <1>3, <2>1
    <3>. QED BY <3>1, Zenon DEF FreshInv
  <2>2. CASE f # None
    <3>0. f \in File
      BY <1>1, <2>2
    <3>1. ref[f] \in Nat
      BY <3>0, CountFacts
    <3>2. (\A g \in File : g # f => ref'[g] = ref[g] /\ what'[g] = what[g]) /\ ref'[f] # 0
      BY <1>1, <1>5, <3>0, <3>1
    <3>3. /\ \A q \in Process : q # p => pc'[q] = pc[q] /\ held'[q] = held[q] /\ last'[q] = last[q]
          /\ pc'[p] \notin {"open", "pipe"} /\ last'[p] = NoFile
      BY <1>1
    <3>4. Table[<<p, i>>] = f /\ <<p, i>> \in Slot
      BY <1>8, <2>2
    <3>. HIDE DEF FInv
    <3>. QED BY <3>0, <3>2, <3>3, <3>4, FreshKept, Zenon
  <2>. QED BY <2>1, <2>2
<1>13. OneEnd' /\ LastCloseOnce'
  BY <1>1, EndsKept
<1>. QED BY <1>6, <1>9, <1>10, <1>11, <1>12, <1>13

\* sys_pipe finds two different empty descriptors.
LEMMA TwoFds ==
  ASSUME TypeOK, NEW p \in Process, Cardinality(FreeFds(p)) >= 2
  PROVE  LET fd0 == First(FreeFds(p))
             fd1 == First(FreeFds(p) \ {fd0})
         IN  /\ fd0 \in Fd /\ ofile[p][fd0] = None
             /\ fd1 \in Fd /\ ofile[p][fd1] = None /\ fd0 # fd1
<1>. DEFINE S == FreeFds(p)
            fd0 == First(S)
            fd1 == First(S \ {fd0})
<1>0. S \in SUBSET Nat /\ S \subseteq Fd /\ \A i \in S : ofile[p][i] = None
  BY ConstFacts, Zenon DEF FreeFds
<1>. HIDE DEF S
<1>1. S # {}
  <2>1. CASE S = {}
    <3>1. Cardinality(S) = 0
      BY <2>1, FS_EmptySet
    <3>. QED BY <3>1 DEF S
  <2>. QED BY <2>1
<1>2. fd0 \in S
  BY <1>0, <1>1, FirstFacts
<1>. HIDE DEF fd0
<1>3. S \ {fd0} # {}
  <2>1. CASE S \ {fd0} = {}
    <3>1. S = {fd0}
      BY <1>2, <2>1
    <3>2. Cardinality(S) = 1
      BY <3>1, FS_Singleton
    <3>. QED BY <3>2 DEF S
  <2>. QED BY <2>1
<1>4. fd1 \in S \ {fd0}
  <2>1. S \ {fd0} \in SUBSET Nat
    BY <1>0, Zenon
  <2>. QED BY <1>3, <2>1, FirstFacts
<1>. QED BY <1>0, <1>2, <1>4 DEF fd0, S

LEMMA PipeFdsFInv ==
  ASSUME FInv, NEW p \in Process, PipeFds(p)
  PROVE  FInv'
<1>. USE ConstFacts DEF FInv, file
<1>. DEFINE f0 == held[p][1]
            f1 == held[p][2]
            fd0 == First(FreeFds(p))
            fd1 == First(FreeFds(p) \ {fd0})
            o0 == [ofile EXCEPT ![p][fd0] = f0]
<1>1. /\ pc[p] = "pipe" /\ Len(held[p]) = 2 /\ fd[p] = 0 /\ last[p] = NoFile
      /\ UNCHANGED <<ref, what, open, inodes, last, child, fd>>
  BY DEF PipeFds, Made, ControlInv, FreshInv
<1>2. /\ f0 \in File /\ Table[<<p, NOFILE>>] = f0
      /\ f1 \in File /\ Table[<<p, NOFILE + 1>>] = f1
  BY <1>1, HeldTwo
<1>3. fd0 \in Fd /\ ofile[p][fd0] = None /\ fd1 \in Fd /\ ofile[p][fd1] = None /\ fd0 # fd1
  BY TwoFds DEF PipeFds
<1>4. ofile' = [o0 EXCEPT ![p][fd1] = f1]
  BY DEF PipeFds
<1>. HIDE DEF fd0, fd1, f0, f1
<1>5. /\ ofile' \in Ofiles
      /\ \A q \in Process : q # p => ofile'[q] = ofile[q]
      /\ \A j \in Fd : ofile'[p][j] = IF j = fd1 THEN f1 ELSE IF j = fd0 THEN f0 ELSE ofile[p][j]
  <2>1. /\ o0 \in Ofiles
        /\ \A q \in Process : q # p => o0[q] = ofile[q]
        /\ \A j \in Fd : o0[p][j] = IF j = fd0 THEN f0 ELSE ofile[p][j]
    <3>1. ofile \in Ofiles
      BY DEF TypeOK, Ofiles
    <3>. HIDE DEF FInv
    <3>. QED BY <1>2, <1>3, <3>1 DEF Ofiles
  <2>. HIDE DEF o0
  <2>2. /\ ofile' \in Ofiles
        /\ \A q \in Process : q # p => ofile'[q] = o0[q]
        /\ \A j \in Fd : ofile'[p][j] = IF j = fd1 THEN f1 ELSE o0[p][j]
    <3>. HIDE DEF FInv
    <3>. QED BY <1>2, <1>3, <1>4, <2>1 DEF Ofiles
  <2>. QED BY <2>1, <2>2
<1>. HIDE DEF o0
<1>6. /\ \A q \in Process : q # p => pc'[q] = pc[q] /\ held'[q] = held[q]
      /\ pc'[p] = "user" /\ Len(held'[p]) = 0
  BY DEF PipeFds, TypeOK
<1>7. TypeOK'
  <2>1. "user" \in Pc /\ <<>> \in Seq(File)
    BY DEF Pc
  <2>2. held' = [held EXCEPT ![p] = <<>>] /\ pc' = [pc EXCEPT ![p] = "user"]
    BY DEF PipeFds
  <2>. QED BY <1>1, <1>5, <2>1, <2>2 DEF TypeOK, Ofiles
<1>8. ControlInv'
  BY <1>1, <1>5, <1>6, ControlStep
<1>9. ForkInv'
  BY <1>1, <1>5, <1>6, ForkKept
<1>10. RefCount'
  <2>. DEFINE x0 == <<p, NOFILE>>
              y0 == <<p, fd0>>
              x1 == <<p, NOFILE + 1>>
              y1 == <<p, fd1>>
              T1 == [s \in Slot |-> IF s = x0 THEN None ELSE IF s = y0 THEN Table[x0] ELSE Table[s]]
              T2 == [s \in Slot |-> IF s = x1 THEN None ELSE IF s = y1 THEN T1[x1] ELSE T1[s]]
  <2>1. SlotValues
    BY TableFacts
  <2>2. /\ x0 \in Slot /\ y0 \in Slot /\ x1 \in Slot /\ y1 \in Slot
        /\ x0 # x1 /\ x0 # y0 /\ x0 # y1 /\ x1 # y0 /\ x1 # y1 /\ y0 # y1
    <3>1. x0 \in Slot /\ y0 \in Slot /\ x1 \in Slot /\ y1 \in Slot
      BY <1>3, SlotsDiffer, Zenon
    <3>2. x0 # x1 /\ x0 # y0 /\ x0 # y1 /\ x1 # y0 /\ x1 # y1 /\ y0 # y1
      BY <1>3, SlotsDiffer
    <3>. QED BY <3>1, <3>2, Zenon
  <2>3. Table \in Tables /\ \A j \in Fd : Table[<<p, j>>] = ofile[p][j]
    BY <1>1, <2>1, Zenon DEF SlotValues
  <2>4. Table[x0] = f0 /\ Table[x1] = f1 /\ Table[y0] = None /\ Table[y1] = None
    BY <1>2, <1>3, <2>3
  <2>. HIDE DEF x0, y0, x1, y1
  <2>5. T1 \in Tables /\ \A s \in Slot : T1[s] = IF s = x0 THEN None ELSE IF s = y0 THEN Table[x0] ELSE Table[s]
    BY <1>2, <2>3, <2>4 DEF Tables
  <2>. HIDE DEF T1
  <2>6. T1[x1] = f1 /\ T1[y1] = None
    BY <2>2, <2>4, <2>5
  <2>7. T2 \in Tables /\ \A s \in Slot : T2[s] = IF s = x1 THEN None ELSE IF s = y1 THEN T1[x1] ELSE T1[s]
    BY <1>2, <2>5, <2>6 DEF Tables
  <2>. HIDE DEF T2
  <2>8. \A s \in Slot : T2[s] = IF s = x0 \/ s = x1 THEN None
                                ELSE IF s = y0 THEN f0 ELSE IF s = y1 THEN f1 ELSE Table[s]
    BY <2>2, <2>4, <2>5, <2>6, <2>7
  <2>9. Table' = T2
    <3>1. ASSUME NEW q \in Process, NEW k \in Nat, q # p, <<q, k>> \in Slot
          PROVE  T2[<<q, k>>] = Table[<<q, k>>]
      <4>1. <<q, k>> # x0 /\ <<q, k>> # x1 /\ <<q, k>> # y0 /\ <<q, k>> # y1
        BY <3>1, SlotsDiffer, Zenon DEF x0, x1, y0, y1
      <4>. QED BY <2>8, <3>1, <4>1
    <3>2. ASSUME NEW k \in Fd PROVE T2[<<p, k>>] = ofile'[p][k]
      <4>1. /\ <<p, k>> \in Slot /\ <<p, k>> # x0 /\ <<p, k>> # x1
            /\ <<p, k>> = y0 <=> k = fd0
            /\ <<p, k>> = y1 <=> k = fd1
        BY SlotsDiffer, Zenon DEF x0, x1, y0, y1
      <4>. QED BY <1>3, <1>5, <2>3, <2>8, <4>1, Zenon
    <3>3. T2[<<p, NOFILE>>] = None /\ T2[<<p, NOFILE + 1>>] = None
      BY <2>2, <2>8 DEF x0, x1
    <3>4. /\ pc'[p] # "dup" /\ TypeOK
          /\ \A q \in Process : q # p => ofile'[q] = ofile[q] /\ held'[q] = held[q]
          /\ \A q \in Process : q # p /\ (pc[q] = "dup" \/ pc'[q] = "dup") => pc'[q] = pc[q] /\ fd'[q] = fd[q]
      BY <1>1, <1>5, <1>6
    <3>. HIDE DEF FInv
    <3>. QED BY <1>6, <1>7, <2>7, <3>1, <3>2, <3>3, <3>4, TableIdle, Zenon
  <2>10. ASSUME NEW g \in File PROVE ref'[g] = Count(Table', g)
    <3>1. Count(T1, g) = Count(Table, g)
      <4>. DEFINE T == Table
      <4>1. T \in Tables /\ T[x0] \in File /\ T[y0] = None
        BY <1>2, <2>3, <2>4
      <4>2. \A s \in Slot : T1[s] = IF s = x0 THEN None ELSE IF s = y0 THEN T[x0] ELSE T[s]
        BY <2>5
      <4>3. Count(T1, g) = Count(T, g)
        <5>. HIDE DEF T
        <5>. QED BY <2>2, <2>5, <4>1, <4>2, CountMove
      <4>. QED BY <4>3
    <3>2. Count(T2, g) = Count(T1, g)
      BY <1>2, <2>2, <2>5, <2>6, <2>7, CountMove
    <3>3. ref[g] = Count(Table, g)
      BY CountFacts
    <3>. QED BY <1>1, <2>9, <3>1, <3>2, <3>3
  <2>. QED BY <2>10, RefCountNext, Zenon
<1>11. FreshInv'
  BY <1>1, <1>6 DEF FreshInv
<1>12. OneEnd' /\ LastCloseOnce'
  BY <1>1, EndsKept
<1>. QED BY <1>7, <1>8, <1>9, <1>10, <1>11, <1>12

LEMMA PipeMakeFInv ==
  ASSUME FInv, NEW p \in Process, NEW o \in Page, PipeMake(p, o)
  PROVE  FInv'
<1>. USE ConstFacts DEF FInv
<1>. DEFINE f0 == held[p][1]
            f1 == held[p][2]
            r == PipeEnd(o, "read")
            w == PipeEnd(o, "write")
<1>1. /\ pc[p] = "pipe" /\ Len(held[p]) = 2
      /\ what[f0] = NoFile /\ what[f1] = NoFile /\ ref[f0] = 1 /\ ref[f1] = 1
      /\ open[o] = {} /\ open' = [open EXCEPT ![o] = {"read", "write"}]
      /\ what' = [what EXCEPT ![f0] = r, ![f1] = w]
      /\ UNCHANGED <<ref, ofile, inodes, pc, held, last, child, fd>>
  BY DEF PipeMake, Ready, FreshInv
<1>2. /\ f0 \in File /\ Table[<<p, NOFILE>>] = f0
      /\ f1 \in File /\ Table[<<p, NOFILE + 1>>] = f1
  BY <1>1, HeldTwo
<1>3. f0 # f1
  <2>1. <<p, NOFILE>> # <<p, NOFILE + 1>> /\ <<p, NOFILE>> \in Slot /\ <<p, NOFILE + 1>> \in Slot
    BY SlotsDiffer, Zenon
  <2>2. \A s, t \in Slot : Table[s] = f0 /\ Table[t] = f0 => s = t
    <3>1. f0 \in File /\ ref[f0] = 1
      BY <1>1, <1>2
    <3>. HIDE DEF f0
    <3>. QED BY <3>1, CountFacts
  <2>. QED BY <1>2, <2>1, <2>2
<1>. HIDE DEF f0, f1, r, w
<1>4. /\ r \in What /\ w \in What /\ r # w /\ r # NoFile /\ w # NoFile /\ r # OnInode /\ w # OnInode
      /\ \A o2 \in Page, e \in End : r = PipeEnd(o2, e) <=> o2 = o /\ e = "read"
      /\ \A o2 \in Page, e \in End : w = PipeEnd(o2, e) <=> o2 = o /\ e = "write"
  <2>1. "read" \in End /\ "write" \in End /\ "read" # "write"
    BY DEF End
  <2>2. r \in What /\ w \in What /\ r # NoFile /\ w # NoFile /\ r # OnInode /\ w # OnInode
    <3>1. r \in What /\ r # NoFile /\ r # OnInode
      BY <2>1, PipeEndFacts DEF r
    <3>2. w \in What /\ w # NoFile /\ w # OnInode
      BY <2>1, PipeEndFacts DEF w
    <3>. QED BY <3>1, <3>2
  <2>3. ASSUME NEW o2 \in Page, NEW e \in End
        PROVE  /\ r = PipeEnd(o2, e) <=> o2 = o /\ e = "read"
               /\ w = PipeEnd(o2, e) <=> o2 = o /\ e = "write"
    <3>1. r = PipeEnd(o2, e) => o2 = o /\ e = "read"
      BY <2>1, PipeEndInjective, Zenon DEF r
    <3>2. w = PipeEnd(o2, e) => o2 = o /\ e = "write"
      BY <2>1, PipeEndInjective, Zenon DEF w
    <3>. QED BY <3>1, <3>2, Zenon DEF r, w
  <2>4. r # w
    BY <2>1, PipeEndInjective, Zenon DEF r, w
  <2>. QED BY <2>2, <2>3, <2>4, Zenon
<1>5. /\ \A g \in File : what'[g] = IF g = f0 THEN r ELSE IF g = f1 THEN w ELSE what[g]
      /\ what' \in [File -> What]
  BY <1>1, <1>2, <1>3, <1>4, Zenon DEF TypeOK
<1>6. /\ open' \in [Page -> SUBSET End]
      /\ \A o2 \in Page : open'[o2] = IF o2 = o THEN {"read", "write"} ELSE open[o2]
  BY <1>1 DEF TypeOK, End
<1>7. TypeOK'
  BY <1>1, <1>5, <1>6, Zenon DEF TypeOK
<1>8. ControlInv' /\ ForkInv'
  BY <1>1, ControlKept
<1>9. RefCount'
  <2>1. Table' = Table
    BY <1>1, <1>7, TableKept
  <2>. QED BY <1>1, <2>1, RefsKept
<1>10. FreshInv'
  <2>1. ASSUME NEW q \in Process, q # p, pc[q] \in {"open", "pipe"}
        PROVE  /\ held[q][1] \notin {f0, f1} /\ held[q][1] \in File
               /\ Len(held[q]) = 2 => held[q][2] \notin {f0, f1} /\ held[q][2] \in File
    <3>1. /\ <<p, NOFILE>> \in Slot /\ <<p, NOFILE>> # <<q, NOFILE>> /\ <<p, NOFILE>> # <<q, NOFILE + 1>>
          /\ <<p, NOFILE + 1>> \in Slot /\ <<p, NOFILE + 1>> # <<q, NOFILE>> /\ <<p, NOFILE + 1>> # <<q, NOFILE + 1>>
      BY <2>1, SlotsDiffer, Zenon
    <3>2. held[q][1] # f0 /\ (Len(held[q]) = 2 => held[q][2] # f0)
      BY <1>2, <2>1, <3>1, NotFresh
    <3>3. held[q][1] # f1 /\ (Len(held[q]) = 2 => held[q][2] # f1)
      BY <1>2, <2>1, <3>1, NotFresh
    <3>4. Len(held[q]) \in {1, 2}
      BY <2>1 DEF ControlInv
    <3>. QED BY <3>2, <3>3, <3>4, HeldOne, HeldTwo, Zenon
  <2>2. ASSUME NEW g \in File, ref[g] = 0 PROVE what'[g] = NoFile
    <3>1. g # f0 /\ g # f1 /\ what[g] = NoFile
      BY <1>1, <2>2 DEF FreshInv
    <3>. QED BY <1>5, <3>1
  <2>3. ASSUME NEW q \in Process
        PROVE  /\ pc[q] = "open" => what'[held[q][1]] = NoFile
               /\ pc[q] = "pipe" /\ Len(held[q]) = 1 => what'[held[q][1]] = NoFile
               /\ pc[q] = "pipe" /\ Len(held[q]) = 2 /\ what'[held[q][1]] = NoFile => what'[held[q][2]] = NoFile
    <3>1. CASE q = p
      <4>1. what'[held[p][1]] # NoFile
        BY <1>2, <1>4, <1>5 DEF f0
      <4>2. pc[q] = "pipe" /\ Len(held[q]) = 2 /\ what'[held[q][1]] # NoFile
        BY <1>1, <3>1, <4>1, Zenon
      <4>3. pc[q] # "open" /\ Len(held[q]) # 1
        BY <4>2
      <4>. QED BY <4>2, <4>3, Zenon
    <3>2. CASE q # p /\ pc[q] \in {"open", "pipe"}
      <4>1. /\ what'[held[q][1]] = what[held[q][1]]
            /\ Len(held[q]) = 2 => what'[held[q][2]] = what[held[q][2]]
        BY <1>5, <2>1, <3>2, Zenon
      <4>. QED BY <3>2, <4>1, Zenon DEF FreshInv
    <3>3. CASE pc[q] \notin {"open", "pipe"}
      BY <3>3
    <3>. QED BY <3>1, <3>2, <3>3
  <2>4. /\ ref' = ref /\ pc' = pc /\ held' = held /\ last' = last
        /\ \A q \in Process : pc[q] \in {"open", "pipe"} => ref[held[q][1]] = 1
        /\ \A q \in Process : pc[q] = "pipe" /\ Len(held[q]) = 2 => ref[held[q][2]] = 1
        /\ \A q \in Process : pc[q] # "last" => last[q] = NoFile
    BY <1>1, Zenon DEF FreshInv
  <2>. HIDE DEF FInv
  <2>. QED BY <2>2, <2>3, <2>4, Zenon DEF FreshInv
<1>11. /\ \A g \in File : what[g] # r /\ what[g] # w
       /\ \A q \in Process : last[q] # r /\ last[q] # w
  <2>1. ~EndOpen(o, "read") /\ ~EndOpen(o, "write")
    BY <1>1 DEF LastCloseOnce
  <2>. QED BY <2>1, Zenon DEF EndOpen, r, w
<1>12. OneEnd'
  <2>. SUFFICES ASSUME NEW o2 \in Page, NEW e \in End
                PROVE  /\ \A f, g \in File : what'[f] = PipeEnd(o2, e) /\ what'[g] = PipeEnd(o2, e) => f = g
                       /\ \A f \in File, q \in Process : what'[f] = PipeEnd(o2, e) => last[q] # PipeEnd(o2, e)
                       /\ \A q, q2 \in Process : last[q] = PipeEnd(o2, e) /\ last[q2] = PipeEnd(o2, e) => q = q2
    BY <1>1, Zenon DEF OneEnd
  <2>. DEFINE x == PipeEnd(o2, e)
  <2>1. /\ \A f, g \in File : what[f] = x /\ what[g] = x => f = g
        /\ \A f \in File, q \in Process : what[f] = x => last[q] # x
        /\ \A q, q2 \in Process : last[q] = x /\ last[q2] = x => q = q2
    BY Zenon DEF OneEnd
  <2>. HIDE DEF x
  <2>2. /\ \A f, g \in File : what'[f] = x /\ what'[g] = x => f = g
        /\ \A f \in File, q \in Process : what'[f] = x => last[q] # x
    BY <1>3, <1>4, <1>5, <1>11, <2>1
  <2>. QED BY <2>1, <2>2 DEF x
<1>13. LastCloseOnce'
  <2>1. ASSUME NEW o2 \in Page, NEW e \in {"read", "write"}
        PROVE  e \in open'[o2] <=> EndOpen(o2, e)'
    <3>0. e \in End
      BY DEF End
    <3>1. CASE o2 = o
      <4>1. PipeEnd(o2, e) = r \/ PipeEnd(o2, e) = w
        BY <3>1 DEF r, w
      <4>2. EndOpen(o2, e)'
        BY <1>2, <1>3, <1>5, <4>1, Zenon DEF EndOpen
      <4>. QED BY <1>6, <3>1, <4>2
    <3>2. CASE o2 # o
      <4>1. PipeEnd(o2, e) # r /\ PipeEnd(o2, e) # w /\ PipeEnd(o2, e) # NoFile
        <5>1. PipeEnd(o2, e) # NoFile
          BY <3>0, PipeEndFacts, Zenon
        <5>2. PipeEnd(o2, e) # r /\ PipeEnd(o2, e) # w
          BY <1>4, <3>0, <3>2
        <5>. QED BY <5>1, <5>2
      <4>2. \A g \in File : what'[g] = PipeEnd(o2, e) <=> what[g] = PipeEnd(o2, e)
        BY <1>1, <1>5, <4>1
      <4>3. EndOpen(o2, e)' <=> EndOpen(o2, e)
        BY <1>1, <4>2, Zenon DEF EndOpen
      <4>. QED BY <1>6, <3>2, <4>3 DEF LastCloseOnce
    <3>. QED BY <3>1, <3>2
  <2>2. {g \in File : what'[g] = OnInode} = {g \in File : what[g] = OnInode}
    <3>1. NoFile # OnInode
      BY WhatFacts, Zenon
    <3>2. \A g \in File : what'[g] = OnInode <=> what[g] = OnInode
      BY <1>1, <1>4, <1>5, <3>1
    <3>. QED BY <3>2, Zenon
  <2>. QED BY <1>1, <2>1, <2>2, Zenon DEF LastCloseOnce
<1>. QED BY <1>7, <1>8, <1>9, <1>10, <1>12, <1>13

\* The rest of fileclose, on the copy of a file that may have had a pipe or an inode.
LEMMA FilecloseLastFInv ==
  ASSUME FInv, NEW p \in Process, FilecloseLast(p)
  PROVE  FInv'
<1>. USE ConstFacts DEF FInv, file
<1>. DEFINE n == Len(held[p])
<1>1. /\ pc[p] = "last" /\ n \in {0, 1} /\ \A i \in Fd : i < fd[p] => ofile[p][i] = None
      /\ UNCHANGED <<ref, what, ofile, held, child, fd>>
      /\ last' = [last EXCEPT ![p] = NoFile]
      /\ open' = IF last[p].type = "PIPE" THEN [open EXCEPT ![last[p].obj] = @ \ {last[p].end}] ELSE open
      /\ inodes' = IF last[p].type = "INODE" THEN inodes - 1 ELSE inodes
  BY DEF FilecloseLast, ControlInv
<1>2. \A q \in Process : last'[q] = IF q = p THEN NoFile ELSE last[q]
  BY <1>1 DEF TypeOK
<1>3. /\ \A q \in Process : q # p => pc'[q] = pc[q]
      /\ \/ pc'[p] = "close" /\ Len(held[p]) = 1
         \/ pc'[p] = "exit" /\ Len(held[p]) = 0
         \/ pc'[p] = "user" /\ Len(held[p]) = 0 /\ fd[p] = 0
      /\ pc' \in [Process -> Pc]
  <2>1. held[p] \in Seq(File) /\ fd[p] \in Nat
    BY DEF TypeOK
  <2>2. pc' = [pc EXCEPT ![p] = IF held[p] # <<>> THEN "close" ELSE IF fd[p] > 0 THEN "exit" ELSE "user"]
    BY DEF FilecloseLast, Closed
  <2>3. held[p] = <<>> <=> Len(held[p]) = 0
    BY <2>1
  <2>4. (~(fd[p] > 0) => fd[p] = 0) /\ 0 # 1
    BY <2>1
  <2>. QED BY <1>1, <2>2, <2>3, <2>4 DEF TypeOK, Pc
<1>4. \/ last[p] = NoFile
      \/ last[p] = OnInode
      \/ \E o \in Page, e \in End : last[p] = PipeEnd(o, e)
  <2>1. last[p] \in What
    BY Zenon DEF TypeOK
  <2>. QED BY <2>1, WhatCases, Zenon
<1>5. open' \in [Page -> SUBSET End] /\ inodes' \in Int
  <2>1. inodes' \in Int
    BY <1>1 DEF TypeOK
  <2>2. CASE last[p] = NoFile \/ last[p] = OnInode
    <3>1. last[p].type # "PIPE"
      BY <2>2, WhatFacts
    <3>. QED BY <1>1, <2>1, <3>1 DEF TypeOK
  <2>3. ASSUME NEW o \in Page, NEW e \in End, last[p] = PipeEnd(o, e) PROVE open' \in [Page -> SUBSET End]
    <3>1. last[p].type = "PIPE" /\ last[p].obj = o /\ last[p].end = e
      BY <2>3, PipeEndFacts
    <3>. QED BY <1>1, <3>1 DEF TypeOK
  <2>. QED BY <1>4, <2>1, <2>2, <2>3
<1>6. TypeOK'
  <2>1. NoFile \in What
    BY WhatFacts, Zenon
  <2>2. last' \in [Process -> What]
    BY <1>1, <2>1 DEF TypeOK
  <2>. QED BY <1>1, <1>3, <1>5, <2>2, Zenon DEF TypeOK
<1>7. ControlInv'
  BY <1>1, <1>3, ControlStep, Zenon
<1>8. ForkInv'
  BY <1>1, <1>3, ForkKept
<1>9. RefCount'
  <2>1. \A q \in Process : pc[q] = "dup" \/ pc'[q] = "dup" => pc'[q] = pc[q] /\ fd'[q] = fd[q]
    BY <1>1, <1>3
  <2>2. Table' = Table
    BY <1>1, <1>6, <2>1, TableKept
  <2>. QED BY <1>1, <2>2, RefsKept
<1>10. FreshInv'
  <2>1. \A q \in Process : pc'[q] \in {"open", "pipe"} => pc'[q] = pc[q]
    BY <1>3
  <2>2. \A q \in Process : pc'[q] # "last" => last'[q] = NoFile
    BY <1>2, <1>3, Zenon DEF FreshInv
  <2>3. ref' = ref /\ what' = what /\ held' = held
    BY <1>1, Zenon
  <2>. QED BY <2>1, <2>2, <2>3, Zenon DEF FreshInv
<1>11. OneEnd'
  <2>1. \A o \in Page, e \in End : PipeEnd(o, e) # NoFile
    BY PipeEndFacts, Zenon
  <2>. SUFFICES ASSUME NEW o \in Page, NEW e \in End
                PROVE  /\ \A f, g \in File : what'[f] = PipeEnd(o, e) /\ what'[g] = PipeEnd(o, e) => f = g
                       /\ \A f \in File, q \in Process : what'[f] = PipeEnd(o, e) => last'[q] # PipeEnd(o, e)
                       /\ \A q, q2 \in Process : last'[q] = PipeEnd(o, e) /\ last'[q2] = PipeEnd(o, e) => q = q2
    BY Zenon DEF OneEnd
  <2>. DEFINE x == PipeEnd(o, e)
  <2>2. /\ \A f, g \in File : what[f] = x /\ what[g] = x => f = g
        /\ \A f \in File, q \in Process : what[f] = x => last[q] # x
        /\ \A q, q2 \in Process : last[q] = x /\ last[q2] = x => q = q2
    BY Zenon DEF OneEnd
  <2>3. x # NoFile
    BY <2>1
  <2>. HIDE DEF x
  <2>4. /\ \A f, g \in File : what'[f] = x /\ what'[g] = x => f = g
        /\ \A f \in File, q \in Process : what'[f] = x => last'[q] # x
        /\ \A q, q2 \in Process : last'[q] = x /\ last'[q2] = x => q = q2
    <3>1. \A q \in Process : last'[q] = x => last[q] = x
      BY <1>2, <2>3
    <3>2. what' = what
      BY <1>1, Zenon
    <3>. HIDE DEF FInv
    <3>. QED BY <2>2, <3>1, <3>2, Zenon
  <2>. QED BY <2>4, Zenon DEF x
<1>12. LastCloseOnce'
  <2>. DEFINE A == Cardinality({g \in File : what[g] = OnInode})
              B == Cardinality({q \in Process : last[q] = OnInode})
              B2 == Cardinality({q \in Process : last'[q] = OnInode})
  <2>0. NoFile # OnInode /\ A \in Nat /\ B \in Nat /\ inodes = A + B
    <3>1. NoFile # OnInode
      BY WhatFacts, Zenon
    <3>2. A \in Nat /\ B \in Nat
      BY FilesFinite, FS_CardinalityType, Zenon
    <3>3. inodes = A + B
      BY Zenon DEF LastCloseOnce
    <3>. QED BY <3>1, <3>2, <3>3
  <2>1. ASSUME last[p] # OnInode PROVE B2 = B
    <3>1. \A q \in Process : last'[q] = OnInode <=> last[q] = OnInode
      BY <1>2, <2>0, <2>1
    <3>. QED BY <3>1, Zenon
  <2>2. ASSUME last[p] = OnInode PROVE B2 = B - 1
    <3>. DEFINE R == {q \in Process : last[q] = OnInode}
    <3>1. {q \in Process : last'[q] = OnInode} = R \ {p} /\ p \in R
      BY <1>2, <2>0, <2>2
    <3>2. IsFiniteSet(R)
      BY FilesFinite, Zenon
    <3>. HIDE DEF R
    <3>3. Cardinality(R \ {p}) = Cardinality(R) - 1
      BY <3>1, <3>2, CardRemove
    <3>. QED BY <3>1, <3>3, Zenon DEF R
  <2>3. inodes' = A + B2 /\ (last[p].type # "PIPE" => open' = open)
    <3>. HIDE DEF A, B, B2
    <3>1. CASE last[p] = OnInode
      <4>1. last[p].type = "INODE"
        BY <3>1, WhatFacts, Zenon
      <4>. QED BY <1>1, <2>0, <2>2, <3>1, <4>1
    <3>2. CASE last[p] # OnInode
      <4>1. last[p].type # "INODE"
        <5>1. NoFile.type # "INODE" /\ \A o \in Page, e \in End : PipeEnd(o, e).type # "INODE"
          BY WhatFacts
        <5>. QED BY <1>4, <3>2, <5>1, Zenon
      <4>. QED BY <1>1, <2>0, <2>1, <3>2, <4>1
    <3>. QED BY <3>1, <3>2
  <2>4. ASSUME NEW o \in Page, NEW e \in {"read", "write"}
        PROVE  e \in open'[o] <=> EndOpen(o, e)'
    <3>. DEFINE x == PipeEnd(o, e)
    <3>0. e \in End /\ x # NoFile /\ x # OnInode
      <4>1. e \in End
        BY DEF End
      <4>. QED BY <4>1, PipeEndFacts
    <3>1. EndOpen(o, e) <=> (\E f \in File : what[f] = x) \/ (\E q \in Process : last[q] = x)
      BY Zenon DEF EndOpen
    <3>2. EndOpen(o, e)' <=> (\E f \in File : what[f] = x) \/ (\E q \in Process : last'[q] = x)
      BY <1>1, Zenon DEF EndOpen
    <3>3. e \in open[o] <=> EndOpen(o, e)
      BY Zenon DEF LastCloseOnce
    <3>4. CASE last[p] = x
      <4>1. last[p].type = "PIPE" /\ last[p].obj = o /\ last[p].end = e
        BY <3>0, <3>4, PipeEndFacts
      <4>2. e \notin open'[o]
        BY <1>1, <4>1 DEF TypeOK
      <4>3. (\A f \in File : what[f] # x) /\ \A q \in Process : q # p => last[q] # x
        BY <3>0, <3>4, Zenon DEF OneEnd
      <4>. HIDE DEF x
      <4>. QED BY <1>2, <3>0, <3>2, <4>2, <4>3, Zenon
    <3>5. CASE last[p] # x
      <4>1. \A q \in Process : last'[q] = x <=> last[q] = x
        BY <1>2, <3>0, <3>5
      <4>2. e \in open'[o] <=> e \in open[o]
        <5>1. CASE last[p] = NoFile \/ last[p] = OnInode
          <6>1. last[p].type # "PIPE"
            BY <5>1, WhatFacts
          <6>. QED BY <1>1, <6>1
        <5>2. ASSUME NEW o2 \in Page, NEW e2 \in End, last[p] = PipeEnd(o2, e2) PROVE e \in open'[o] <=> e \in open[o]
          <6>1. last[p].type = "PIPE" /\ last[p].obj = o2 /\ last[p].end = e2
            BY <5>2, PipeEndFacts
          <6>2. o # o2 \/ e # e2
            BY <3>5, <5>2
          <6>. QED BY <1>1, <6>1, <6>2 DEF TypeOK
        <5>. QED BY <1>4, <5>1, <5>2, Zenon
      <4>. HIDE DEF x
      <4>. QED BY <3>1, <3>2, <3>3, <4>1, <4>2, Zenon
    <3>. QED BY <3>4, <3>5
  <2>. QED BY <1>1, <2>3, <2>4, Zenon DEF LastCloseOnce
<1>. QED BY <1>6, <1>7, <1>8, <1>9, <1>10, <1>11, <1>12

\* fileclose hands the pipe or the inode of a file over to its local copy.
LEMMA EndsHandedOver ==
  ASSUME FInv, NEW p \in Process, NEW f \in File, last[p] = NoFile, UNCHANGED <<open, inodes>>,
         \A g \in File : what'[g] = IF g = f THEN NoFile ELSE what[g],
         \A q \in Process : last'[q] = IF q = p THEN what[f] ELSE last[q]
  PROVE  OneEnd' /\ LastCloseOnce'
<1>. USE DEF FInv
<1>1. OneEnd'
  <2>. SUFFICES ASSUME NEW o \in Page, NEW e \in End
                PROVE  /\ \A g, h \in File : what'[g] = PipeEnd(o, e) /\ what'[h] = PipeEnd(o, e) => g = h
                       /\ \A g \in File, q \in Process : what'[g] = PipeEnd(o, e) => last'[q] # PipeEnd(o, e)
                       /\ \A q, q2 \in Process : last'[q] = PipeEnd(o, e) /\ last'[q2] = PipeEnd(o, e) => q = q2
    BY Zenon DEF OneEnd
  <2>. DEFINE x == PipeEnd(o, e)
  <2>1. /\ \A g, h \in File : what[g] = x /\ what[h] = x => g = h
        /\ \A g \in File, q \in Process : what[g] = x => last[q] # x
        /\ \A q, q2 \in Process : last[q] = x /\ last[q2] = x => q = q2
    BY Zenon DEF OneEnd
  <2>2. x # NoFile
    BY PipeEndFacts
  <2>. HIDE DEF x, FInv
  <2>3. /\ \A g, h \in File : what'[g] = x /\ what'[h] = x => g = h
        /\ \A g \in File, q \in Process : what'[g] = x => last'[q] # x
        /\ \A q, q2 \in Process : last'[q] = x /\ last'[q2] = x => q = q2
    BY <2>1, <2>2
  <2>. QED BY <2>3 DEF x
<1>2. ASSUME NEW o \in Page, NEW e \in {"read", "write"}
      PROVE  e \in open'[o] <=> EndOpen(o, e)'
  <2>. DEFINE x == PipeEnd(o, e)
  <2>1. x # NoFile
    BY PipeEndFacts DEF End
  <2>2. EndOpen(o, e) <=> (\E g \in File : what[g] = x) \/ (\E q \in Process : last[q] = x)
    BY Zenon DEF EndOpen
  <2>3. EndOpen(o, e)' <=> (\E g \in File : what'[g] = x) \/ (\E q \in Process : last'[q] = x)
    BY Zenon DEF EndOpen
  <2>4. e \in open[o] <=> EndOpen(o, e)
    BY Zenon DEF LastCloseOnce
  <2>. HIDE DEF x, FInv
  <2>5. (\E g \in File : what[g] = x) \/ (\E q \in Process : last[q] = x)
        <=> (\E g \in File : what'[g] = x) \/ (\E q \in Process : last'[q] = x)
    BY <2>1
  <2>. QED BY <2>2, <2>3, <2>4, <2>5
<1>3. inodes' = Cardinality({g \in File : what'[g] = OnInode}) + Cardinality({q \in Process : last'[q] = OnInode})
  <2>. DEFINE A == {g \in File : what[g] = OnInode}
              B == {q \in Process : last[q] = OnInode}
              A2 == {g \in File : what'[g] = OnInode}
              B2 == {q \in Process : last'[q] = OnInode}
  <2>0. inodes = Cardinality(A) + Cardinality(B)
    BY Zenon DEF LastCloseOnce
  <2>1. NoFile # OnInode
    BY WhatFacts, Zenon
  <2>2. IsFiniteSet(A) /\ IsFiniteSet(B)
    BY FilesFinite, Zenon
  <2>3. CASE what[f] = OnInode
    <3>1. A2 = A \ {f} /\ f \in A /\ B2 = B \cup {p} /\ p \notin B
      BY <2>1, <2>3
    <3>. HIDE DEF A, B, A2, B2, FInv
    <3>2. Cardinality(A2) = Cardinality(A) - 1 /\ Cardinality(B2) = Cardinality(B) + 1
      BY <2>2, <3>1, CardRemove, CardAdd
    <3>3. Cardinality(A) \in Nat /\ Cardinality(B) \in Nat
      BY <2>2, FS_CardinalityType
    <3>4. inodes' = Cardinality(A2) + Cardinality(B2)
      BY <2>0, <3>2, <3>3
    <3>. QED BY <3>4 DEF A2, B2
  <2>4. CASE what[f] # OnInode
    <3>1. A2 = A /\ B2 = B
      BY <2>1, <2>4
    <3>. HIDE DEF A, B, A2, B2, FInv
    <3>2. inodes' = Cardinality(A2) + Cardinality(B2)
      BY <2>0, <3>1
    <3>. QED BY <3>2 DEF A2, B2
  <2>. QED BY <2>3, <2>4
<1>. QED BY <1>1, <1>2, <1>3, Zenon DEF LastCloseOnce

\* fileclose takes one reference away.
LEMMA FilecloseRefs ==
  ASSUME FInv, TypeOK', NEW p \in Process, pc[p] = "close", pc'[p] # "dup", UNCHANGED <<ofile, fd>>,
         held' = [held EXCEPT ![p] = Tail(@)], ref' = [ref EXCEPT ![held[p][1]] = @ - 1],
         \A q \in Process : q # p => pc'[q] = pc[q]
  PROVE  RefCount'
<1>. USE ConstFacts DEF FInv
<1>. DEFINE n == Len(held[p])
            f == held[p][1]
            x == <<p, NOFILE>>
            y == <<p, NOFILE + 1>>
            T1 == [Table EXCEPT ![x] = None]
            T2 == [s \in Slot |-> IF s = y THEN None ELSE IF s = x THEN T1[y] ELSE T1[s]]
<1>1. n \in {1, 2} /\ held[p] \in Seq(File)
  BY DEF ControlInv, TypeOK
<1>2. f \in File /\ Table[x] = f /\ (n = 1 => Table[y] = None) /\ (n = 2 => held[p][2] \in File /\ Table[y] = held[p][2])
  BY <1>1, HeldOne, HeldTwo, Zenon
<1>3. /\ n = 2 => held'[p][1] = held[p][2]
      /\ n = 1 => Len(held'[p]) = 0
      /\ n = 2 => Len(held'[p]) = 1
      /\ \A q \in Process : q # p => held'[q] = held[q]
  BY <1>1 DEF TypeOK
<1>4. SlotValues
  BY TableFacts
<1>5. Table \in Tables /\ \A j \in Fd : Table[<<p, j>>] = ofile[p][j]
  BY <1>4, Zenon DEF SlotValues
<1>6. x \in Slot /\ y \in Slot /\ x # y
  BY SlotsDiffer, Zenon
<1>7. /\ \A g \in File : Count(T1, g) = IF g = f THEN Count(Table, g) - 1 ELSE Count(Table, g)
      /\ T1 \in Tables /\ \A s \in Slot : T1[s] = IF s = x THEN None ELSE Table[s]
  <2>1. \A g \in File : Count(T1, g) = IF g = f THEN Count(Table, g) - 1 ELSE Count(Table, g)
    BY <1>2, <1>5, <1>6, CountRemove, Zenon
  <2>2. T1 \in Tables /\ \A s \in Slot : T1[s] = IF s = x THEN None ELSE Table[s]
    BY <1>5, <1>6 DEF Tables
  <2>. QED BY <2>1, <2>2, Zenon
<1>. HIDE DEF T1
<1>8. \A g \in File : ref[g] = Count(Table, g) /\ ref[g] \in Nat
  BY CountFacts
<1>9. \A g \in File : ref'[g] = Count(T1, g)
  <2>. HIDE DEF f
  <2>1. \A g \in File : ref'[g] = IF g = f THEN ref[g] - 1 ELSE ref[g]
    BY <1>2 DEF TypeOK, f
  <2>. QED BY <1>7, <1>8, <2>1
<1>. HIDE DEF f
<1>10. /\ \A q \in Process : q # p => ofile'[q] = ofile[q] /\ held'[q] = held[q]
       /\ \A q \in Process : q # p /\ (pc[q] = "dup" \/ pc'[q] = "dup") => pc'[q] = pc[q] /\ fd'[q] = fd[q]
  BY <1>3
<1>11. CASE n = 1
  <2>1. Table' = T1
    <3>1. ASSUME NEW q \in Process, NEW k \in Nat, q # p, <<q, k>> \in Slot
          PROVE  T1[<<q, k>>] = Table[<<q, k>>]
      BY <1>7, <3>1
    <3>2. ASSUME NEW k \in Fd PROVE T1[<<p, k>>] = ofile'[p][k]
      BY <1>5, <1>7, SlotsDiffer, Zenon
    <3>3. T1[<<p, NOFILE>>] = None /\ T1[<<p, NOFILE + 1>>] = None
      BY <1>2, <1>6, <1>7, <1>11
    <3>4. Len(held'[p]) = 0 /\ TypeOK
      BY <1>3, <1>11
    <3>. HIDE DEF FInv
    <3>. QED BY <1>7, <1>10, <3>1, <3>2, <3>3, <3>4, TableIdle, Zenon
  <2>. QED BY <1>9, <2>1, RefCountNext
<1>12. CASE n = 2
  <2>1. T1[y] = held[p][2] /\ held[p][2] \in File /\ T1[x] = None
    BY <1>2, <1>6, <1>7, <1>12
  <2>2. T2 \in Tables /\ \A s \in Slot : T2[s] = IF s = y THEN None ELSE IF s = x THEN T1[y] ELSE T1[s]
    BY <1>6, <1>7, <2>1, Zenon DEF Tables
  <2>. HIDE DEF T2
  <2>3. Table' = T2
    <3>1. ASSUME NEW q \in Process, NEW k \in Nat, q # p, <<q, k>> \in Slot
          PROVE  T2[<<q, k>>] = Table[<<q, k>>]
      BY <1>7, <2>2, <3>1, Zenon
    <3>2. ASSUME NEW k \in Fd PROVE T2[<<p, k>>] = ofile'[p][k]
      BY <1>5, <1>7, <2>2, SlotsDiffer, Zenon
    <3>3. T2[<<p, NOFILE>>] = held'[p][1] /\ T2[<<p, NOFILE + 1>>] = None
      BY <1>3, <1>6, <1>12, <2>1, <2>2, Zenon
    <3>4. Len(held'[p]) = 1 /\ TypeOK
      BY <1>3, <1>12
    <3>. HIDE DEF FInv
    <3>. QED BY <1>10, <2>2, <3>1, <3>2, <3>3, <3>4, TableOne, Zenon
  <2>4. \A g \in File : Count(T2, g) = Count(T1, g)
    <3>1. T1 \in Tables /\ T1[y] \in File
      BY <1>7, <2>1
    <3>. HIDE DEF x, y, FInv
    <3>. QED BY <1>6, <2>1, <2>2, <3>1, CountMove
  <2>. QED BY <1>9, <2>3, <2>4, RefCountNext, Zenon
<1>. QED BY <1>1, <1>11, <1>12

LEMMA TailFacts ==
  ASSUME NEW S, NEW s \in Seq(S), Len(s) \in {1, 2}
  PROVE  /\ Len(Tail(s)) = Len(s) - 1 /\ Tail(s) \in Seq(S)
         /\ Tail(s) = <<>> <=> Len(s) = 1
<1>1. s # <<>>
  OBVIOUS
<1>2. Tail(s) \in Seq(S) /\ Len(Tail(s)) = Len(s) - 1
  BY <1>1
<1>3. \A t \in Seq(S) : t = <<>> <=> Len(t) = 0
  OBVIOUS
<1>4. Len(s) - 1 = 0 <=> Len(s) = 1
  OBVIOUS
<1>. QED BY <1>2, <1>3, <1>4, Zenon

LEMMA FilecloseFInv ==
  ASSUME FInv, NEW p \in Process, Fileclose(p)
  PROVE  FInv'
<1>. USE ConstFacts DEF FInv, file
<1>. DEFINE n == Len(held[p])
            f == held[p][1]
<1>1. /\ pc[p] = "close" /\ n \in {1, 2} /\ held[p] \in Seq(File) /\ last[p] = NoFile
      /\ \A i \in Fd : i < fd[p] => ofile[p][i] = None
      /\ UNCHANGED <<ofile, open, inodes, child, fd>>
  BY Zenon DEF Fileclose, ControlInv, TypeOK, FreshInv
<1>2. f \in File /\ Table[<<p, NOFILE>>] = f /\ <<p, NOFILE>> \in Slot
  BY <1>1, HeldOne, HeldTwo, SlotsDiffer, Zenon
<1>3. ref[f] \in Nat /\ ref[f] >= 1
  BY <1>2, CountFacts
<1>4. Head(held[p]) = f
  OBVIOUS
<1>5. /\ ref' = [ref EXCEPT ![f] = @ - 1] /\ held' = [held EXCEPT ![p] = Tail(@)]
      /\ ref[f] > 1 => Closed(p, Tail(held[p])) /\ UNCHANGED <<what, last>>
      /\ ~(ref[f] > 1) => /\ last' = [last EXCEPT ![p] = what[f]] /\ what' = [what EXCEPT ![f] = NoFile]
                          /\ pc' = [pc EXCEPT ![p] = "last"]
  BY <1>4 DEF Fileclose
<1>6. /\ Len(held'[p]) = n - 1 /\ Tail(held[p]) \in Seq(File) /\ (Tail(held[p]) = <<>> <=> n = 1)
      /\ \A q \in Process : q # p => held'[q] = held[q]
      /\ held' \in [Process -> Seq(File)]
  <2>1. Len(Tail(held[p])) = n - 1 /\ Tail(held[p]) \in Seq(File) /\ (Tail(held[p]) = <<>> <=> n = 1)
    BY <1>1, TailFacts
  <2>3. held'[p] = Tail(held[p]) /\ \A q \in Process : q # p => held'[q] = held[q]
    BY <1>5 DEF TypeOK
  <2>4. held' \in [Process -> Seq(File)]
    BY <1>5, <2>1 DEF TypeOK
  <2>. QED BY <2>1, <2>3, <2>4
<1>7. /\ pc' \in [Process -> Pc]
      /\ \A q \in Process : q # p => pc'[q] = pc[q]
      /\ \/ pc'[p] = "last" /\ ~(ref[f] > 1)
         \/ pc'[p] = "close" /\ n = 2 /\ ref[f] > 1
         \/ pc'[p] = "exit" /\ n = 1 /\ ref[f] > 1
         \/ pc'[p] = "user" /\ n = 1 /\ fd[p] = 0 /\ ref[f] > 1
  <2>1. CASE ~(ref[f] > 1)
    BY <1>5, <2>1, Zenon DEF TypeOK, Pc
  <2>2. CASE ref[f] > 1
    <3>1. pc' = [pc EXCEPT ![p] = IF Tail(held[p]) # <<>> THEN "close"
                                  ELSE IF fd[p] > 0 THEN "exit" ELSE "user"]
      BY <1>5, <2>2 DEF Closed
    <3>2. fd[p] \in Nat /\ (~(fd[p] > 0) => fd[p] = 0)
      BY DEF TypeOK
    <3>3. Tail(held[p]) # <<>> => n = 2
      BY <1>1, <1>6, Zenon
    <3>4. Tail(held[p]) = <<>> => n = 1
      BY <1>6
    <3>. HIDE DEF f, n
    <3>. QED BY <2>2, <3>1, <3>2, <3>3, <3>4 DEF TypeOK, Pc
  <2>. QED BY <2>1, <2>2, Zenon
<1>. HIDE DEF f
<1>8. /\ \A g \in File : ref'[g] = IF g = f THEN ref[g] - 1 ELSE ref[g]
      /\ ref' \in [File -> Int]
  <2>1. ref \in [File -> Int] /\ ref' = [ref EXCEPT ![f] = @ - 1]
    BY <1>5 DEF TypeOK
  <2>. HIDE DEF FInv
  <2>. QED BY <1>2, <2>1
<1>9. /\ \A g \in File : what'[g] = IF g = f /\ ~(ref[f] > 1) THEN NoFile ELSE what[g]
      /\ \A q \in Process : last'[q] = IF q = p /\ ~(ref[f] > 1) THEN what[f] ELSE last[q]
      /\ what' \in [File -> What] /\ last' \in [Process -> What]
  <2>1. NoFile \in What /\ what[f] \in What
    BY <1>2, WhatFacts, Zenon DEF TypeOK
  <2>2. CASE ref[f] > 1
    BY <1>5, <2>2 DEF TypeOK
  <2>3. CASE ~(ref[f] > 1)
    <3>1. last' = [last EXCEPT ![p] = what[f]] /\ what' = [what EXCEPT ![f] = NoFile]
      BY <1>5, <2>3
    <3>. QED BY <1>2, <2>1, <2>3, <3>1, Zenon DEF TypeOK
  <2>. QED BY <2>2, <2>3
<1>10. TypeOK'
  BY <1>1, <1>6, <1>7, <1>8, <1>9, Zenon DEF TypeOK
<1>11. ControlInv'
  <2>1. n = 1 => Len(held'[p]) = 0
    BY <1>6
  <2>2. n = 2 => Len(held'[p]) = 1
    BY <1>6
  <2>. HIDE DEF n
  <2>3. \A q \in Process : q # p => /\ pc'[q] = pc[q] /\ held'[q] = held[q]
                                    /\ fd'[q] = fd[q] /\ ofile'[q] = ofile[q]
    BY <1>1, <1>6, <1>7, Zenon
  <2>4. \A i \in Fd : i < fd'[p] => ofile'[p][i] = None
    BY <1>1
  <2>5. \/ pc'[p] = "last" /\ Len(held'[p]) \in {0, 1}
        \/ pc'[p] = "close" /\ Len(held'[p]) = 1
        \/ pc'[p] = "exit" /\ Len(held'[p]) = 0
        \/ pc'[p] = "user" /\ Len(held'[p]) = 0 /\ fd'[p] = 0
    BY <1>1, <1>7, <2>1, <2>2
  <2>. QED BY <2>3, <2>4, <2>5, ControlStep
<1>12. ForkInv'
  BY <1>1, <1>7, ForkKept
<1>13. RefCount'
  <2>1. pc'[p] # "dup"
    BY <1>7
  <2>. HIDE DEF FInv
  <2>. QED BY <1>1, <1>5, <1>7, <1>10, <2>1, FilecloseRefs, Zenon DEF f
<1>14. FreshInv'
  <2>1. \A g \in File : g # f => ref'[g] = ref[g] /\ what'[g] = what[g]
    BY <1>8, <1>9, Zenon
  <2>2. \A q \in Process : q # p => pc'[q] = pc[q] /\ held'[q] = held[q] /\ last'[q] = last[q]
    BY <1>6, <1>7, <1>9, Zenon
  <2>3. ref'[f] = 0 => what'[f] = NoFile
    <3>1. ref'[f] = ref[f] - 1 /\ (~(ref[f] > 1) => what'[f] = NoFile)
      BY <1>2, <1>8, <1>9, Zenon
    <3>2. ref[f] - 1 = 0 => ~(ref[f] > 1)
      BY <1>3
    <3>. QED BY <3>1, <3>2, Zenon
  <2>4. pc'[p] \notin {"open", "pipe"} /\ (pc'[p] # "last" => last'[p] = NoFile)
    BY <1>1, <1>7, <1>9, Zenon
  <2>. HIDE DEF FInv
  <2>. QED BY <1>2, <2>1, <2>2, <2>3, <2>4, FreshKept, Zenon
<1>15. OneEnd' /\ LastCloseOnce'
  <2>1. CASE ref[f] > 1
    BY <1>1, <1>5, <2>1, EndsKept, Zenon
  <2>2. CASE ~(ref[f] > 1)
    <3>1. /\ \A g \in File : what'[g] = IF g = f THEN NoFile ELSE what[g]
          /\ \A q \in Process : last'[q] = IF q = p THEN what[f] ELSE last[q]
      BY <1>9, <2>2, Zenon
    <3>. QED BY <1>1, <1>2, <3>1, EndsHandedOver
  <2>. QED BY <2>1, <2>2
<1>. QED BY <1>10, <1>11, <1>12, <1>13, <1>14, <1>15

-----------------------------------------------------------------------------
LEMMA InitFInv == Init => FInv
<1>. SUFFICES ASSUME Init PROVE FInv
  OBVIOUS
<1>. USE ConstFacts DEF Init
<1>1. TypeOK
  <2>1. NoFile \in What /\ init \in Process
    BY WhatFacts, FileAssumption, Zenon
  <2>2. <<>> \in Seq(File)
    OBVIOUS
  <2>. QED BY <2>1, <2>2 DEF TypeOK, Pc
<1>2. ControlInv /\ ForkInv
  BY DEF ControlInv, ForkInv
<1>3. RefCount
  <2>1. SlotValues
    BY <1>1, TableFacts
  <2>2. ASSUME NEW q \in Process, NEW i \in 0..NOFILE + 1 PROVE Table[<<q, i>>] = None
    <3>1. Len(held[q]) = 0 /\ pc[q] # "dup" /\ \A j \in Fd : ofile[q][j] = None
      OBVIOUS
    <3>2. i \in Fd \/ i = NOFILE \/ i = NOFILE + 1
      OBVIOUS
    <3>. QED BY <1>1, <3>1, <3>2, IdleSlots, Zenon
  <2>3. \A s \in Slot : Table[s] = None
    BY <2>2 DEF Slot
  <2>4. ASSUME NEW f \in File PROVE ref[f] = Cardinality({s \in Slot : Table[s] = f})
    <3>1. {s \in Slot : Table[s] = f} = {}
      BY <2>3
    <3>2. ref[f] = 0
      OBVIOUS
    <3>. QED BY <3>1, <3>2, FS_EmptySet, Zenon
  <2>. QED BY <2>4 DEF RefCount
<1>4. FreshInv
  BY DEF FreshInv
<1>5. OneEnd
  BY PipeEndFacts DEF OneEnd
<1>6. LastCloseOnce
  <2>1. ASSUME NEW o \in Page, NEW e \in {"read", "write"} PROVE e \notin open[o] /\ ~EndOpen(o, e)
    <3>1. PipeEnd(o, e) # NoFile
      BY PipeEndFacts DEF End
    <3>. QED BY <3>1 DEF EndOpen
  <2>2. NoFile # OnInode
    BY WhatFacts, Zenon
  <2>3. {f \in File : what[f] = OnInode} = {} /\ {p \in Process : last[p] = OnInode} = {}
    BY <2>2
  <2>4. inodes = Cardinality({f \in File : what[f] = OnInode}) + Cardinality({p \in Process : last[p] = OnInode})
    <3>1. Cardinality({f \in File : what[f] = OnInode}) = 0 /\ Cardinality({p \in Process : last[p] = OnInode}) = 0
      BY <2>3, FS_EmptySet, Zenon
    <3>2. inodes = 0
      OBVIOUS
    <3>. QED BY <3>1, <3>2
  <2>. QED BY <2>1, <2>4 DEF LastCloseOnce
<1>. QED BY <1>1, <1>2, <1>3, <1>4, <1>5, <1>6 DEF FInv

LEMMA StutterFInv == FInv /\ UNCHANGED vars => FInv'
<1>. SUFFICES ASSUME FInv, UNCHANGED vars PROVE FInv'
  OBVIOUS
<1>. USE DEF FInv, vars, file
<1>1. TypeOK'
  BY DEF TypeOK
<1>2. ControlInv' /\ ForkInv'
  BY ControlKept
<1>3. FreshInv'
  BY Zenon DEF FreshInv
<1>4. RefCount'
  <2>1. Table' = Table
    BY <1>1, TableKept
  <2>. QED BY <2>1, RefsKept
<1>5. OneEnd' /\ LastCloseOnce'
  BY EndsKept
<1>. QED BY <1>1, <1>2, <1>3, <1>4, <1>5

LEMMA NextFInv == FInv /\ Next => FInv'
<1>. SUFFICES ASSUME FInv, Next PROVE FInv'
  OBVIOUS
<1>1. PICK p \in Process :
        \/ OpenAlloc(p) \/ OpenFd(p) \/ OpenNoFd(p)
        \/ PipeAlloc(p) \/ PipeBad(p) \/ PipeFds(p) \/ PipeNoFds(p)
        \/ \E o \in Page : PipeMake(p, o)
        \/ \E i \in Fd : DupFd(p, i) \/ CloseFd(p, i)
        \/ DupRef(p)
        \/ Fileclose(p) \/ FilecloseLast(p)
        \/ \E c \in Process : Fork(p, c)
        \/ ForkDup(p) \/ ForkRun(p)
        \/ Exit(p) \/ ExitFd(p) \/ Reaped(p)
  BY Zenon DEF Next
<1>. QED
  BY <1>1, OpenAllocFInv, OpenFdFInv, OpenNoFdFInv, PipeAllocFInv, PipeBadFInv, PipeFdsFInv, PipeNoFdsFInv,
     PipeMakeFInv, DupFdFInv, CloseFdFInv, DupRefFInv, FilecloseFInv, FilecloseLastFInv, ForkFInv, ForkDupFInv,
     ForkRunFInv, ExitFInv, ExitFdFInv, ReapedFInv, Zenon

\* The inductive invariant of the file table.
THEOREM FileTableInv == Spec => []FInv
<1>1. FInv /\ [Next]_vars => FInv'
  BY NextFInv, StutterFInv
<1>. QED BY <1>1, InitFInv, PTL DEF Spec

\* file.h:3, file.c: f->ref is the number of descriptors and local variables
\* that refer to the file, for any number of processes and files.
THEOREM FileRefCount == Spec => []RefCount
<1>1. FInv => RefCount
  BY DEF FInv
<1>. QED BY <1>1, FileTableInv, PTL

\* file.c:63-78: pipeclose and iput are called once for each file, by the process
\* that gave up its last reference.
THEOREM FileLastCloseOnce == Spec => []LastCloseOnce
<1>1. FInv => LastCloseOnce
  BY DEF FInv
<1>. QED BY <1>1, FileTableInv, PTL

\* The calls of fileclose, and of filedup from sys_dup and fork, are made on files
\* with a reference: where file.c:47 and file.c:61 would panic.
NoFilePanic ==
  \A p \in Process :
    /\ pc[p] = "close" => ref[Head(held[p])] >= 1
    /\ pc[p] = "dup" => ref[ofile[p][fd[p]]] >= 1
    /\ pc[p] = "fork" /\ child[p] # p /\ fd[p] < NOFILE /\ ofile[p][fd[p]] # None
         => ref[ofile[p][fd[p]]] >= 1

\* Neither panic("filedup") nor panic("fileclose") is reachable, and no file is
\* freed while a process is about to use its reference.
THEOREM FileNoPanic == Spec => []NoFilePanic
<1>1. FInv => NoFilePanic
  <2>. SUFFICES ASSUME FInv, NEW p \in Process
                PROVE  /\ pc[p] = "close" => ref[Head(held[p])] >= 1
                       /\ pc[p] = "dup" => ref[ofile[p][fd[p]]] >= 1
                       /\ pc[p] = "fork" /\ child[p] # p /\ fd[p] < NOFILE /\ ofile[p][fd[p]] # None
                            => ref[ofile[p][fd[p]]] >= 1
    BY Zenon DEF NoFilePanic
  <2>. USE ConstFacts
  <2>0. SlotValues
    BY TableFacts DEF FInv
  <2>1. CASE pc[p] = "close"
    <3>1. Len(held[p]) \in {1, 2} /\ held[p] \in Seq(File)
      BY <2>1 DEF FInv, ControlInv, TypeOK
    <3>2. held[p][1] \in File /\ Table[<<p, NOFILE>>] = held[p][1] /\ <<p, NOFILE>> \in Slot
      BY <3>1, HeldOne, HeldTwo, SlotsDiffer, Zenon DEF FInv
    <3>3. Head(held[p]) = held[p][1]
      BY <3>1
    <3>4. ref[held[p][1]] >= 1
      BY <3>2, CountFacts, Zenon DEF FInv
    <3>. QED BY <2>1, <3>3, <3>4, Zenon
  <2>2. CASE pc[p] = "dup"
    <3>1. PICK j \in Fd : j # fd[p] /\ ofile[p][j] = ofile[p][fd[p]]
      BY <2>2 DEF FInv, ControlInv
    <3>2. ofile[p][fd[p]] \in File
      BY <2>2 DEF FInv, ControlInv, TypeOK
    <3>3. Table[<<p, j>>] = ofile[p][fd[p]] /\ <<p, j>> \in Slot
      BY <2>0, <3>1, Zenon DEF SlotValues
    <3>4. ref[ofile[p][fd[p]]] >= 1
      BY <3>2, <3>3, CountFacts, Zenon DEF FInv
    <3>. QED BY <2>2, <3>4
  <2>3. CASE pc[p] = "fork" /\ child[p] # p /\ fd[p] < NOFILE /\ ofile[p][fd[p]] # None
    <3>1. fd[p] \in Fd /\ ofile[p][fd[p]] \in File
      BY <2>3 DEF FInv, TypeOK
    <3>2. Table[<<p, fd[p]>>] = ofile[p][fd[p]] /\ <<p, fd[p]>> \in Slot
      BY <2>0, <2>3, <3>1, Zenon DEF SlotValues
    <3>3. ref[ofile[p][fd[p]]] >= 1
      BY <3>1, <3>2, CountFacts DEF FInv
    <3>. QED BY <2>3, <3>3, Zenon
  <2>. QED BY <2>1, <2>2, <2>3, Zenon
<1>. QED BY <1>1, FileTableInv, PTL
=============================================================================
