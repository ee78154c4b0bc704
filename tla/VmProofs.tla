------------------------------ MODULE VmProofs ------------------------------
EXTENDS Vm, TLAPS

-----------------------------------------------------------------------------
(* The inductive invariant. *)

Pc == {"user", "fault", "setupkvm", "allocuvm", "map", "copyuvm", "copymap", "bad"}

TypeOK ==
  /\ free \subseteq Page
  /\ own \in [Slot -> [Place -> Page \cup {None}]]
  /\ state \in [Slot -> {"UNUSED", "EMBRYO", "RUNNING", "ZOMBIE"}]
  /\ sz \in [Slot -> 0..MaxSz]
  /\ pc \in [Slot -> Pc]
  /\ call \in [Slot -> {"none", "fork", "sbrk", "exec", "stack"}]
  /\ child \in [Slot -> Slot]
  /\ i \in [Slot -> Nat] /\ to \in [Slot -> 0..MaxSz]
  /\ holes \in BOOLEAN
  /\ status \in {"up", "panic", "undefined"}

\* Where a process is in its calls, and how far it has got.
CallOK(p) ==
  /\ state[p] # "RUNNING" => pc[p] = "user"
  /\ pc[p] \in {"user", "fault"} => call[p] = "none"
  /\ pc[p] = "setupkvm" => call[p] \in {"fork", "exec"} /\ i[p] \in 0..2
  /\ pc[p] \in {"copyuvm", "copymap"} => call[p] = "fork" /\ i[p] <= sz[p]
  /\ pc[p] = "copymap" => i[p] < sz[p]
  /\ pc[p] \in {"allocuvm", "map"} => call[p] \in {"sbrk", "exec", "stack"} /\ i[p] <= to[p]
  /\ pc[p] = "map" => i[p] < to[p]
  /\ pc[p] = "bad" => call[p] \in {"fork", "exec", "stack"}
  /\ call[p] = "sbrk" => pc[p] \in {"allocuvm", "map"} /\ sz[p] <= i[p]
  /\ call[p] = "exec" => to[p] <= MaxSz - 2
  /\ call[p] = "stack" => to[p] >= 2

\* What a process has besides the address space it runs in: a page in hand while
\* it maps one, and nothing under construction but in fork and exec.
PlaceOK(p) ==
  /\ own[p][Mem] # None <=> pc[p] \in {"map", "copymap"}
  /\ pc[p] \in {"user", "fault"} \/ call[p] = "sbrk" => \A x \in All("new") : own[p][x] = None
  /\ pc[p] = "setupkvm" => \A x \in Freed("new") : own[p][x] = None
  /\ pc[p] \in {"copyuvm", "copymap"} => \A v \in Vpn : v >= i[p] => own[p][Pte("new", v)] = None

\* Memory is mapped in s exactly below n.
Exact(p, s, n) == \A v \in Vpn : own[p][Pte(s, v)] # None <=> v < n

\* A page of memory has a page table; without a failed mappages the memory of a
\* process is mapped up to its size, or up to where the call in progress has got.
MapOK(p) ==
  /\ \A s \in Space, v \in Vpn : own[p][Pte(s, v)] # None => own[p][Pt(s, v)] # None
  /\ ~holes /\ state[p] = "RUNNING" =>
       /\ pc[p] # "fault" /\ call[p] # "sbrk" => Exact(p, "cur", sz[p])
       /\ call[p] = "sbrk" => Exact(p, "cur", i[p])
       /\ pc[p] \in {"copyuvm", "copymap"} => Exact(p, "new", i[p])
       /\ pc[p] \in {"allocuvm", "map"} /\ call[p] # "sbrk" => Exact(p, "new", i[p])

\* A slot that is not in use has no pages, one that fork fills a kernel stack
\* only, and it belongs to that fork.
SlotInv ==
  /\ \A c \in Slot : state[c] = "UNUSED" => \A x \in Place : own[c][x] = None
  /\ \A c \in Slot : state[c] = "EMBRYO" =>
       own[c][Kstack] # None /\ \A x \in Place : x # Kstack => own[c][x] = None
  /\ \A p \in Slot : call[p] = "fork" => state[child[p]] = "EMBRYO"
  /\ \A p, q \in Slot : call[p] = "fork" /\ call[q] = "fork" /\ child[p] = child[q] => p = q

SlotOK(p) == CallOK(p) /\ PlaceOK(p) /\ MapOK(p)

VInv ==
  /\ TypeOK /\ OwnedOnce /\ SlotInv
  /\ \A p \in Slot : SlotOK(p)
  /\ ~holes => status # "panic"

-----------------------------------------------------------------------------
(* Places. *)

LEMMA ConstFacts ==
  /\ None \notin Page /\ NPTE \in Nat \ {0} /\ MaxSz \in Nat \ {0} /\ initproc \in Slot
  /\ \A v \in Nat : v \in Vpn <=> v < MaxSz
  /\ Vpn \subseteq Nat
  /\ Images \subseteq 1..MaxSz - 2
BY VmAssumption DEF None, Page, Vpn

\* The place in the address space under construction that becomes x.
New(x) == <<"new", x[2], x[3]>>

Leaky == {Mem} \cup (Space \X {"pml4", "pdpt"} \X {0})

LEMMA PlaceFacts ==
  /\ Kstack \in Place /\ Mem \in Place /\ Kstack # Mem
  /\ \A s \in Space : /\ All(s) \subseteq Place /\ Freed(s) \subseteq All(s)
                      /\ Kstack \notin All(s) /\ Mem \notin All(s)
                      /\ Pgdir(s) \in Freed(s)
                      /\ \A x \in All(s) : x \in Freed(s) \/ x \in Leaky
  /\ \A x \in Place : x \in All("cur") \/ x \in All("new") \/ x = Kstack \/ x = Mem
  /\ \A x \in All("cur") : x \notin All("new")
  /\ Mem \in Leaky /\ Kstack \notin Leaky
<1>. USE DEF Kstack, Mem, Pgdir, Pt, Pte, Space
<1>1. ASSUME NEW s \in Space, NEW v \in Vpn
      PROVE  Pt(s, v) \in Place /\ Pte(s, v) \in Place
  BY DEF Place, Table
<1>2. ASSUME NEW s \in Space PROVE All(s) \subseteq Place
  <2>1. {Pt(s, v) : v \in Vpn} \subseteq Place /\ {Pte(s, v) : v \in Vpn} \subseteq Place
    BY <1>1, Zenon
  <2>2. {Pgdir(s), <<s, "pml4", 0>>, <<s, "pdpt", 0>>} \subseteq Place
    BY DEF Place
  <2>. QED BY <2>1, <2>2 DEF All, Freed
<1>3. Kstack \in Place /\ Mem \in Place /\ Kstack # Mem
  BY DEF Place
<1>4. ASSUME NEW s \in Space
      PROVE  /\ Freed(s) \subseteq All(s) /\ Kstack \notin All(s) /\ Mem \notin All(s)
             /\ Pgdir(s) \in Freed(s)
             /\ \A x \in All(s) : x \in Freed(s) \/ x \in Leaky
  BY DEF All, Freed, Leaky
<1>5. ASSUME NEW x \in Place
      PROVE  x \in All("cur") \/ x \in All("new") \/ x = Kstack \/ x = Mem
  <2>1. CASE x \in Space \X {"pml4", "pdpt", "pgdir"} \X {0}
    BY <2>1 DEF All, Freed
  <2>2. CASE x \in Space \X {"pt"} \X Table
    BY <2>2 DEF All, Freed, Table
  <2>3. CASE x \in Space \X {"pte"} \X Vpn
    BY <2>3 DEF All, Freed
  <2>4. CASE x \in {"proc"} \X {"kstack", "mem"} \X {0}
    BY <2>4
  <2>. QED BY <2>1, <2>2, <2>3, <2>4 DEF Place
<1>6. ASSUME NEW x \in All("cur") PROVE x \notin All("new")
  BY DEF All, Freed
<1>7. Mem \in Leaky /\ Kstack \notin Leaky
  BY DEF Leaky
<1>. QED BY <1>2, <1>3, <1>4, <1>5, <1>6, <1>7

LEMMA PageTables ==
  ASSUME NEW s \in Space, NEW v \in Vpn
  PROVE  /\ Pt(s, v) \in Freed(s) /\ Pte(s, v) \in Freed(s)
         /\ Pt(s, v) \in Place /\ Pte(s, v) \in Place
         /\ \A t \in Space, u \in Vpn : /\ Pt(s, v) # Pte(t, u)
                                        /\ Pte(s, v) = Pte(t, u) => s = t /\ u = v
         /\ Pt(s, v) \notin Leaky /\ Pte(s, v) \notin Leaky
         /\ Pt(s, v) # Kstack /\ Pte(s, v) # Kstack /\ Pt(s, v) # Mem /\ Pte(s, v) # Mem
         /\ Pgdir(s) # Pt(s, v) /\ Pgdir(s) # Pte(s, v)
<1>. USE DEF Kstack, Mem, Pgdir, Pt, Pte, Space
<1>1. Pt(s, v) \in Freed(s) /\ Pte(s, v) \in Freed(s)
  BY DEF Freed
<1>2. Pt(s, v) \in Place /\ Pte(s, v) \in Place
  BY DEF Place, Table
<1>3. ASSUME NEW t \in Space, NEW u \in Vpn
      PROVE  Pt(s, v) # Pte(t, u) /\ (Pte(s, v) = Pte(t, u) => s = t /\ u = v)
  OBVIOUS
<1>4. Pt(s, v) \notin Leaky /\ Pte(s, v) \notin Leaky
  BY DEF Leaky
<1>. QED BY <1>1, <1>2, <1>3, <1>4

LEMMA NewFacts ==
  /\ \A x \in All("cur") : New(x) \in All("new")
  /\ \A x, y \in All("cur") : New(x) = New(y) => x = y
  /\ \A y \in All("new") : \E x \in All("cur") : y = New(x)
  /\ \A x \in All("cur") : x \in Leaky <=> New(x) \in Leaky
  /\ \A v \in Vpn : New(Pte("cur", v)) = Pte("new", v) /\ New(Pt("cur", v)) = Pt("new", v)
<1>. USE DEF Pgdir, Pt, Pte, New
<1>1. ASSUME NEW x \in All("cur") PROVE New(x) \in All("new") /\ (x \in Leaky <=> New(x) \in Leaky)
  BY DEF All, Freed, Leaky, Space, Mem
<1>2. ASSUME NEW x \in All("cur"), NEW y \in All("cur"), New(x) = New(y) PROVE x = y
  BY <1>2 DEF All, Freed
<1>3. ASSUME NEW y \in All("new") PROVE \E x \in All("cur") : y = New(x)
  <2>. DEFINE x == <<"cur", y[2], y[3]>>
  <2>1. x \in All("cur") /\ y = New(x)
    BY DEF All, Freed
  <2>. QED BY <2>1
<1>. QED BY <1>1, <1>2, <1>3

-----------------------------------------------------------------------------
(* What the actions do with pages. *)

Owns == [Slot -> [Place -> Page \cup {None}]]
PagesOK == free \subseteq Page /\ own \in Owns /\ OwnedOnce

\* A step loses no page but from the places freevm and mappages forget.
Kept ==
  /\ \A g \in free : g \in free' \/ \E q \in Slot, y \in Place : own'[q][y] = g
  /\ \A q \in Slot, y \in Place : own[q][y] # None /\ y \notin Leaky =>
       own[q][y] \in free' \/ \E r \in Slot, z \in Place : own'[r][z] = own[q][y]

LEMMA Once ==
  ASSUME PagesOK, NEW p \in Slot, NEW x \in Place, NEW q \in Slot, NEW y \in Place,
         own[p][x] # None, own[q][y] = own[p][x]
  PROVE  p = q /\ x = y /\ own[p][x] \notin free
BY DEF PagesOK, OwnedOnce

LEMMA PagesSame ==
  ASSUME PagesOK, free' = free, own' = own
  PROVE  PagesOK' /\ Kept
<1>1. PagesOK'
  BY DEF PagesOK, OwnedOnce
<1>2. Kept
  BY DEF Kept
<1>. QED BY <1>1, <1>2

LEMMA TopFree ==
  ASSUME PagesOK, free # {}
  PROVE  Top \in free /\ Top \in Page /\ Top # None
BY ConstFacts DEF PagesOK, Top

\* One place of one process changes.
LEMMA OwnAt ==
  ASSUME PagesOK, NEW p \in Slot, NEW x \in Place, NEW g \in Page \cup {None},
         own' = [own EXCEPT ![p][x] = g]
  PROVE  /\ own' \in Owns
         /\ \A q \in Slot, y \in Place : own'[q][y] = IF q = p /\ y = x THEN g ELSE own[q][y]
<1>1. own \in Owns
  BY DEF PagesOK
<1>. QED BY <1>1 DEF Owns

\* All places of one process change.
LEMMA OwnOf ==
  ASSUME PagesOK, NEW p \in Slot, NEW o \in [Place -> Page \cup {None}],
         own' = [own EXCEPT ![p] = o]
  PROVE  /\ own' \in Owns
         /\ \A q \in Slot, y \in Place : own'[q][y] = IF q = p THEN o[y] ELSE own[q][y]
<1>1. own \in Owns
  BY DEF PagesOK
<1>. QED BY <1>1 DEF Owns

LEMMA KallocStep ==
  ASSUME PagesOK, NEW p \in Slot, NEW x \in Place, Kalloc(p, x), own[p][x] = None \/ x \in Leaky
  PROVE  /\ PagesOK' /\ Kept
         /\ Top \in Page /\ Top # None
         /\ \A q \in Slot, y \in Place : own'[q][y] = IF q = p /\ y = x THEN Top ELSE own[q][y]
         /\ \A q \in Slot : q # p => own'[q] = own[q]
<1>1. Top \in free /\ Top \in Page /\ Top # None
  BY TopFree DEF Kalloc
<1>. DEFINE g == Top
<1>2. free' = free \ {g} /\ own' = [own EXCEPT ![p][x] = g] /\ g \in free /\ g \in Page /\ g # None
      /\ g \in Page \cup {None}
  BY <1>1 DEF Kalloc
<1>. HIDE DEF g
<1>3. /\ own' \in Owns
      /\ \A q \in Slot, y \in Place : own'[q][y] = IF q = p /\ y = x THEN g ELSE own[q][y]
  BY <1>2, OwnAt, ZenonT(40)
<1>4. free' \subseteq Page
  BY <1>2 DEF PagesOK
<1>5. OwnedOnce'
  BY <1>2, <1>3 DEF PagesOK, OwnedOnce
<1>6. Kept
  <2>1. own'[p][x] = g
    BY <1>3
  <2>2. \A h \in free : h \in free' \/ h = g
    BY <1>2
  <2>3. \A q \in Slot, y \in Place : own[q][y] # None /\ y \notin Leaky => own'[q][y] = own[q][y]
    BY <1>3
  <2>. QED BY <2>1, <2>2, <2>3, Zenon DEF Kept
<1>7. \A q \in Slot : q # p => own'[q] = own[q]
  BY <1>2 DEF PagesOK, Owns
<1>. QED BY <1>1, <1>3, <1>4, <1>5, <1>6, <1>7 DEF PagesOK, g

\* Pages go to the free list, or are forgotten.
LEMMA PagesFreed ==
  ASSUME PagesOK, own' \in Owns, NEW B, free' = free \cup B,
         \A q \in Slot, y \in Place :
           \/ own'[q][y] = own[q][y]
           \/ own'[q][y] = None /\ (own[q][y] \in B \/ own[q][y] = None \/ y \in Leaky),
         \A g \in B : \E q \in Slot, y \in Place : own[q][y] = g /\ g # None /\ own'[q][y] = None
  PROVE  PagesOK' /\ Kept
<1>1. B \subseteq Page
  BY DEF PagesOK, Owns
<1>2. free' \subseteq Page
  BY <1>1 DEF PagesOK
<1>3. OwnedOnce'
  <2>1. ASSUME NEW q \in Slot, NEW y \in Place, own'[q][y] # None
        PROVE  own'[q][y] = own[q][y] /\ own'[q][y] \notin free'
    <3>1. own'[q][y] = own[q][y]
      BY <2>1, Zenon
    <3>2. own[q][y] \notin free
      BY <2>1, <3>1 DEF PagesOK, OwnedOnce
    <3>3. own[q][y] \notin B
      <4>. SUFFICES ASSUME own[q][y] \in B PROVE FALSE
        OBVIOUS
      <4>1. PICK r \in Slot, z \in Place : own[r][z] = own[q][y] /\ own'[r][z] = None
        OBVIOUS
      <4>2. q = r /\ y = z
        BY <2>1, <3>1, <4>1, Once
      <4>. QED BY <2>1, <4>1, <4>2
    <3>. QED BY <3>1, <3>2, <3>3
  <2>2. ASSUME NEW q \in Slot, NEW y \in Place, NEW r \in Slot, NEW z \in Place,
               own'[q][y] # None, own'[r][z] = own'[q][y]
        PROVE  q = r /\ y = z
    <3>1. own'[q][y] = own[q][y] /\ own'[r][z] = own[r][z]
      BY <2>1, <2>2
    <3>. QED BY <2>2, <3>1, Once
  <2>. QED BY <2>1, <2>2 DEF OwnedOnce
<1>4. Kept
  BY Zenon DEF Kept
<1>. QED BY <1>2, <1>3, <1>4 DEF PagesOK

\* The address space p has built becomes the one d runs in, whose pages are freed.
LEMMA SpaceMoved ==
  ASSUME PagesOK, own' \in Owns, NEW p \in Slot, NEW d \in Slot,
         free' = free \cup Pages(own[d], Freed("cur")),
         \A q \in Slot, y \in Place :
           own'[q][y] = IF q = d /\ y \in All("cur") THEN own[p][New(y)]
                        ELSE IF q = p /\ y \in All("new") THEN None ELSE own[q][y]
  PROVE  PagesOK' /\ Kept
<1>. USE PlaceFacts
<1>. DEFINE B == Pages(own[d], Freed("cur"))
<1>0. "cur" \in Space /\ "new" \in Space
  BY DEF Space
<1>1. \A g \in B : \E z \in All("cur") : own[d][z] = g /\ g # None
  BY <1>0 DEF Pages
<1>2. \A z \in Freed("cur") : own[d][z] # None => own[d][z] \in B
  BY DEF Pages
<1>3. B \subseteq Page
  BY <1>0, <1>1 DEF PagesOK, Owns
<1>. HIDE DEF B
<1>4. free' \subseteq Page /\ free' = free \cup B
  BY <1>3 DEF PagesOK, B
\* Where the page at place y of q was.
<1>5. ASSUME NEW q \in Slot, NEW y \in Place, q = d, y \in All("cur")
      PROVE  own'[q][y] = own[p][New(y)] /\ New(y) \in All("new") /\ New(y) \in Place
  BY <1>0, <1>5, NewFacts
<1>6. ASSUME NEW q \in Slot, NEW y \in Place, ~(q = d /\ y \in All("cur")), own'[q][y] # None
      PROVE  own'[q][y] = own[q][y] /\ ~(q = p /\ y \in All("new"))
  BY <1>6
<1>7. ASSUME NEW q \in Slot, NEW y \in Place, own'[q][y] # None
      PROVE  own'[q][y] \notin free /\ own'[q][y] \notin B
  <2>1. CASE q = d /\ y \in All("cur")
    <3>1. own'[q][y] = own[p][New(y)] /\ New(y) \in All("new") /\ New(y) \in Place
      BY <1>5, <2>1
    <3>2. New(y) \notin All("cur")
      BY <3>1
    <3>3. own[p][New(y)] \notin free
      BY <1>7, <3>1, Once
    <3>4. own[p][New(y)] \notin B
      <4>. SUFFICES ASSUME own[p][New(y)] \in B PROVE FALSE
        OBVIOUS
      <4>1. PICK z \in All("cur") : own[d][z] = own[p][New(y)]
        BY <1>1
      <4>2. z \in Place
        BY <1>0
      <4>3. New(y) = z
        BY <1>7, <3>1, <4>1, <4>2, Once
      <4>. QED BY <3>2, <4>3
    <3>. QED BY <3>1, <3>3, <3>4
  <2>2. CASE ~(q = d /\ y \in All("cur"))
    <3>1. own'[q][y] = own[q][y]
      BY <1>6, <1>7, <2>2
    <3>2. own[q][y] \notin free
      BY <1>7, <3>1 DEF PagesOK, OwnedOnce
    <3>3. own[q][y] \notin B
      <4>. SUFFICES ASSUME own[q][y] \in B PROVE FALSE
        OBVIOUS
      <4>1. PICK z \in All("cur") : own[d][z] = own[q][y]
        BY <1>1
      <4>2. z \in Place
        BY <1>0
      <4>3. d = q /\ z = y
        BY <1>7, <3>1, <4>1, <4>2, Once
      <4>. QED BY <2>2, <4>3
    <3>. QED BY <3>1, <3>2, <3>3
  <2>. QED BY <2>1, <2>2
<1>8. ASSUME NEW q \in Slot, NEW y \in Place, NEW r \in Slot, NEW z \in Place,
             own'[q][y] # None, own'[r][z] = own'[q][y]
      PROVE  q = r /\ y = z
  <2>1. CASE (q = d /\ y \in All("cur")) /\ (r = d /\ z \in All("cur"))
    <3>1. New(y) = New(z)
      BY <1>5, <1>8, <2>1, Once
    <3>. QED BY <2>1, <3>1, NewFacts
  <2>2. CASE (q = d /\ y \in All("cur")) /\ ~(r = d /\ z \in All("cur"))
    <3>1. own'[q][y] = own[p][New(y)] /\ New(y) \in All("new") /\ New(y) \in Place
      BY <1>5, <2>2
    <3>2. own'[r][z] = own[r][z] /\ ~(r = p /\ z \in All("new"))
      BY <1>6, <1>8, <2>2
    <3>3. p = r /\ New(y) = z
      BY <1>8, <3>1, <3>2, Once
    <3>. QED BY <3>1, <3>2, <3>3
  <2>3. CASE ~(q = d /\ y \in All("cur")) /\ (r = d /\ z \in All("cur"))
    <3>1. own'[r][z] = own[p][New(z)] /\ New(z) \in All("new") /\ New(z) \in Place
      BY <1>5, <2>3
    <3>2. own'[q][y] = own[q][y] /\ ~(q = p /\ y \in All("new"))
      BY <1>6, <1>8, <2>3
    <3>3. own[q][y] # None /\ own[p][New(z)] = own[q][y]
      BY <1>8, <3>1, <3>2, Zenon
    <3>4. p = q /\ New(z) = y
      BY <3>1, <3>3, Once
    <3>. QED BY <3>1, <3>2, <3>4
  <2>4. CASE ~(q = d /\ y \in All("cur")) /\ ~(r = d /\ z \in All("cur"))
    <3>1. own'[q][y] = own[q][y] /\ own'[r][z] = own[r][z]
      BY <1>6, <1>8, <2>4, Zenon
    <3>. QED BY <1>8, <3>1, Once
  <2>. QED BY <2>1, <2>2, <2>3, <2>4
<1>9. OwnedOnce'
  BY <1>4, <1>7, <1>8 DEF OwnedOnce
<1>10. Kept
  <2>1. ASSUME NEW q \in Slot, NEW y \in Place, own[q][y] # None, y \notin Leaky
        PROVE  own[q][y] \in free' \/ \E r \in Slot, z \in Place : own'[r][z] = own[q][y]
    <3>1. CASE q = d /\ y \in All("cur")
      BY <1>0, <1>2, <1>4, <2>1, <3>1
    <3>2. CASE q = p /\ y \in All("new") /\ ~(q = d /\ y \in All("cur"))
      <4>1. PICK x \in All("cur") : y = New(x)
        BY <3>2, NewFacts
      <4>2. own'[d][x] = own[q][y] /\ x \in Place
        BY <1>0, <3>2, <4>1
      <4>. QED BY <4>2
    <3>3. CASE ~(q = d /\ y \in All("cur")) /\ ~(q = p /\ y \in All("new"))
      <4>1. own'[q][y] = own[q][y]
        BY <3>3
      <4>. QED BY <4>1
    <3>. QED BY <3>1, <3>2, <3>3
  <2>. QED BY <1>4, <2>1, Zenon DEF Kept
<1>. QED BY <1>4, <1>9, <1>10 DEF PagesOK

\* mappages moves the page in hand into its entry; walkpgdir may take a page.
LEMMA PagesMapped ==
  ASSUME PagesOK, NEW p \in Slot, NEW s \in Space, i[p] \in Vpn, Mapped(p, s),
         own[p][Pte(s, i[p])] = None
  PROVE  /\ PagesOK' /\ Kept
         /\ own'[p][Pt(s, i[p])] # None
         /\ own'[p][Pte(s, i[p])] = own[p][Mem]
         /\ own'[p][Mem] = None
         /\ \A y \in Place : y \notin {Pt(s, i[p]), Pte(s, i[p]), Mem} => own'[p][y] = own[p][y]
         /\ \A q \in Slot : q # p => own'[q] = own[q]
<1>. DEFINE x == Pt(s, i[p])
            e == Pte(s, i[p])
            m == Mem
            t == IF own[p][x] = None THEN Top ELSE own[p][x]
            g == own[p][m]
            o == [own[p] EXCEPT ![x] = t, ![e] = g, ![m] = None]
<1>1. x \in Place /\ e \in Place /\ m \in Place /\ x # e /\ x # m /\ e # m
  BY PlaceFacts, PageTables, Zenon
<1>2. own' = [own EXCEPT ![p] = o] /\ free' = free \ {t} /\ own[p][e] = None
  BY DEF Mapped
<1>3. own \in Owns /\ free \subseteq Page /\ own[p] \in [Place -> Page \cup {None}]
  BY DEF PagesOK, Owns
<1>4. t \in Page /\ t # None /\ (t \in free \/ t = own[p][x]) /\ (own[p][x] # None => t = own[p][x])
  <2>1. CASE own[p][x] = None
    BY <2>1, TopFree DEF Mapped
  <2>2. CASE own[p][x] # None
    BY <1>1, <1>3, <2>2
  <2>. QED BY <2>1, <2>2, Zenon
<1>. HIDE DEF x, e, m, t
<1>5. g \in Page \cup {None}
  BY <1>1, <1>3
<1>. HIDE DEF g
<1>6. o \in [Place -> Page \cup {None}]
  BY <1>3, <1>4, <1>5, Zenon
<1>7. o[x] = t /\ o[e] = g /\ o[m] = None /\ \A y \in Place : y \notin {x, e, m} => o[y] = own[p][y]
  BY <1>1, <1>3
<1>. HIDE DEF o
<1>8. own' \in Owns /\ \A q \in Slot, y \in Place : own'[q][y] = IF q = p THEN o[y] ELSE own[q][y]
  BY <1>2, <1>6, OwnOf, Zenon
<1>9. \A q \in Slot : q # p => own'[q] = own[q]
  BY <1>2, <1>3 DEF Owns
<1>10. \A q \in Slot, y \in Place : own'[q][y] # None =>
         \/ q = p /\ y = x /\ own'[q][y] = t
         \/ q = p /\ y = e /\ own'[q][y] = own[p][m]
         \/ ~(q = p /\ y \in {x, e, m}) /\ own'[q][y] = own[q][y]
  BY <1>1, <1>7, <1>8 DEF g
<1>11. free' \subseteq Page
  BY <1>2, <1>3
<1>12. OwnedOnce'
  <2>1. ASSUME NEW q \in Slot, NEW y \in Place, own'[q][y] # None
        PROVE  own'[q][y] \notin free'
    BY <1>1, <1>2, <1>10, <2>1 DEF PagesOK, OwnedOnce
  <2>2. ASSUME NEW q \in Slot, NEW y \in Place, NEW r \in Slot, NEW z \in Place,
               own'[q][y] # None, own'[r][z] = own'[q][y]
        PROVE  q = r /\ y = z
    <3>1. \A u \in Slot, v \in Place : own[u][v] # None /\ own[u][v] = t => u = p /\ v = x
      <4>1. ASSUME NEW u \in Slot, NEW v \in Place, own[u][v] # None, own[u][v] = t
            PROVE  u = p /\ v = x
        <5>1. own[u][v] \notin free
          BY <4>1, Once
        <5>2. own[p][x] = own[u][v]
          BY <1>4, <4>1, <5>1
        <5>. QED BY <1>1, <4>1, <5>2, Once
      <4>. QED BY <4>1
    <3>2. \A u \in Slot, v \in Place : own[u][v] # None /\ own[u][v] = own[p][m] => u = p /\ v = m
      BY <1>1, Zenon DEF PagesOK, OwnedOnce
    <3>3. own[q][y] # None /\ own[r][z] = own[q][y] => q = r /\ y = z
      BY Zenon DEF PagesOK, OwnedOnce
    <3>. QED BY <1>1, <1>10, <2>2, <3>1, <3>2, <3>3
  <2>. QED BY <2>1, <2>2 DEF OwnedOnce
<1>13. Kept
  <2>1. own'[p][x] = t /\ own'[p][e] = own[p][m]
    BY <1>1, <1>7, <1>8 DEF g
  <2>2. ASSUME NEW h \in free PROVE h \in free' \/ \E q \in Slot, y \in Place : own'[q][y] = h
    BY <1>1, <1>2, <2>1
  <2>3. ASSUME NEW q \in Slot, NEW y \in Place, own[q][y] # None
        PROVE  \E r \in Slot, z \in Place : own'[r][z] = own[q][y]
    <3>1. CASE q = p /\ y = x
      BY <1>1, <1>4, <2>1, <2>3, <3>1
    <3>2. CASE q = p /\ y = e
      BY <1>2, <2>3, <3>2
    <3>3. CASE q = p /\ y = m
      BY <1>1, <2>1, <3>3
    <3>4. CASE ~(q = p /\ y \in {x, e, m})
      BY <1>7, <1>8, <3>4
    <3>. QED BY <3>1, <3>2, <3>3, <3>4
  <2>. QED BY <2>2, <2>3, Zenon DEF Kept
<1>. QED BY <1>1, <1>4, <1>7, <1>8, <1>9, <1>11, <1>12, <1>13 DEF PagesOK, x, e, m, g

\* Pages of one process are freed; those it forgets are in leaky places.
LEMMA FreePages ==
  ASSUME PagesOK, NEW p \in Slot, NEW X, NEW Y, X \subseteq Y, Y \subseteq Place,
         \A y \in Y : y \in X \/ y \in Leaky,
         free' = free \cup Pages(own[p], X), own' = [own EXCEPT ![p] = Without(@, Y)]
  PROVE  /\ PagesOK' /\ Kept
         /\ \A y \in Place : own'[p][y] = IF y \in Y THEN None ELSE own[p][y]
         /\ \A q \in Slot : q # p => own'[q] = own[q]
<1>. DEFINE o == Without(own[p], Y)
            B == Pages(own[p], X)
<1>1. own \in Owns /\ own[p] \in [Place -> Page \cup {None}]
  BY DEF PagesOK, Owns
<1>2. o \in [Place -> Page \cup {None}] /\ \A y \in Place : o[y] = IF y \in Y THEN None ELSE own[p][y]
  BY <1>1 DEF Without
<1>3. own' = [own EXCEPT ![p] = o]
  OBVIOUS
<1>4. \A q \in Slot : q # p => own'[q] = own[q]
  BY <1>1 DEF Owns
<1>. HIDE DEF o
<1>5. own' \in Owns /\ \A q \in Slot, y \in Place : own'[q][y] = IF q = p THEN o[y] ELSE own[q][y]
  BY <1>2, <1>3, OwnOf, Zenon
<1>6. \A x \in X : own[p][x] \in B \/ own[p][x] = None
  BY DEF Pages
<1>7. \A g \in B : \E x \in X : own[p][x] = g /\ g # None
  BY DEF Pages
<1>8. free' = free \cup B
  OBVIOUS
<1>. HIDE DEF B
<1>9. ASSUME NEW q \in Slot, NEW y \in Place
      PROVE  \/ own'[q][y] = own[q][y]
             \/ own'[q][y] = None /\ (own[q][y] \in B \/ own[q][y] = None \/ y \in Leaky)
  BY <1>2, <1>5, <1>6
<1>10. ASSUME NEW g \in B
       PROVE  \E q \in Slot, y \in Place : own[q][y] = g /\ g # None /\ own'[q][y] = None
  <2>1. PICK x \in X : own[p][x] = g /\ g # None
    BY <1>7
  <2>2. x \in Place /\ own'[p][x] = None
    BY <1>2, <1>5
  <2>. QED BY <2>1, <2>2
<1>11. PagesOK' /\ Kept
  BY <1>5, <1>8, <1>9, <1>10, PagesFreed, Zenon
<1>. QED BY <1>2, <1>4, <1>5, <1>11

-----------------------------------------------------------------------------
(* What deallocuvm finds. *)

LEMMA DivMod ==
  ASSUME NEW a \in Nat, NEW v \in Nat, NEW m \in Nat \ {0}, a <= v
  PROVE  a \div m < v \div m \/ v % m >= a % m
<1>. DEFINE d == a \div m
            r == a % m
            e == v \div m
            t == v % m
<1>1. /\ d \in Int /\ e \in Int /\ r \in 0..m - 1 /\ t \in 0..m - 1
      /\ a = m * d + r /\ v = m * e + t
  OBVIOUS
<1>. HIDE DEF d, r, e, t
<1>2. CASE d < e
  BY <1>2 DEF d, e
<1>3. CASE d = e
  BY <1>1, <1>3 DEF r, t
<1>4. CASE d >= e + 1
  <2>1. m * d >= m * (e + 1)
    BY <1>1, <1>4
  <2>2. m * (e + 1) = m * e + m
    BY <1>1
  <2>. QED BY <1>1, <2>1, <2>2
<1>. QED BY <1>1, <1>2, <1>3, <1>4

LEMMA VisitedPlaces ==
  ASSUME NEW o, NEW s \in Space, NEW a, NEW b
  PROVE  \A x \in Visited(o, s, a, b) : \E v \in Vpn : x = Pte(s, v) /\ a <= v /\ v < b
BY DEF Visited

\* deallocuvm finds every entry when none is missing from where it starts.
LEMMA VisitedAll ==
  ASSUME NEW p \in Slot, NEW s \in Space, NEW a \in 0..MaxSz, NEW b \in 0..MaxSz,
         NEW n \in 0..MaxSz, Exact(p, s, n), n <= b, MapOK(p),
         NEW v \in Vpn, a <= v, v < n
  PROVE  Pte(s, v) \in Visited(own[p], s, a, b)
<1>1. /\ a \in Nat /\ v \in Nat /\ b \in Nat /\ n \in Nat /\ NPTE \in Nat \ {0} /\ a \in Vpn
  BY ConstFacts DEF Vpn
<1>2. a \div NPTE < v \div NPTE \/ v % NPTE >= a % NPTE
  BY <1>1, DivMod
<1>. DEFINE found(u) == own[p][Pt(s, u)] # None
<1>3. found(a) /\ found(v)
  BY <1>1 DEF MapOK, Exact
<1>. HIDE DEF found
<1>4. a \in a..v /\ v < b
  BY <1>1
<1>. DEFINE P(w) == /\ a <= w /\ w < b /\ found(w)
                    /\ w % NPTE >= a % NPTE \/ \E u \in a..w : u \div NPTE < w \div NPTE /\ found(u)
<1>5. P(v)
  BY <1>2, <1>3, <1>4, Zenon
<1>6. Visited(own[p], s, a, b) = {Pte(s, w) : w \in {w \in Vpn : P(w)}}
  BY DEF Visited, found
<1>. HIDE DEF P
<1>. QED BY <1>5, <1>6

-----------------------------------------------------------------------------
(* Steps of one process. *)

SameSlot(q) ==
  /\ own'[q] = own[q] /\ state'[q] = state[q] /\ sz'[q] = sz[q] /\ pc'[q] = pc[q]
  /\ call'[q] = call[q] /\ child'[q] = child[q] /\ i'[q] = i[q] /\ to'[q] = to[q]

LEMMA Other ==
  ASSUME NEW q \in Slot, SlotOK(q), SameSlot(q), holes => holes'
  PROVE  SlotOK(q)'
<1>1. CallOK(q)'
  BY DEF SlotOK, CallOK, SameSlot
<1>2. PlaceOK(q)'
  BY Zenon DEF SlotOK, PlaceOK, SameSlot
<1>3. MapOK(q)'
  BY Zenon DEF SlotOK, MapOK, Exact, SameSlot
<1>. QED BY <1>1, <1>2, <1>3 DEF SlotOK

LEMMA LocalStep ==
  ASSUME VInv, NEW p \in Slot, state[p] = "RUNNING", state'[p] \in {"RUNNING", "ZOMBIE"},
         \A q \in Slot : q # p => SameSlot(q),
         call'[p] = "fork" => call[p] = "fork" /\ child'[p] = child[p],
         TypeOK', OwnedOnce', SlotOK(p)', holes => holes', ~holes' => status' # "panic"
  PROVE  VInv'
<1>1. ASSUME NEW q \in Slot PROVE SlotOK(q)'
  BY Other DEF VInv
<1>2. SlotInv'
  <2>. USE DEF VInv, SlotInv, SameSlot
  <2>1. ASSUME NEW c \in Slot, state'[c] = "UNUSED" PROVE \A x \in Place : own'[c][x] = None
    BY <2>1
  <2>2. ASSUME NEW c \in Slot, state'[c] = "EMBRYO"
        PROVE  own'[c][Kstack] # None /\ \A x \in Place : x # Kstack => own'[c][x] = None
    BY <2>2
  <2>3. \A q \in Slot : call'[q] = "fork" => call[q] = "fork" /\ child'[q] = child[q]
    OBVIOUS
  <2>4. ASSUME NEW q \in Slot, call'[q] = "fork" PROVE state'[child'[q]] = "EMBRYO"
    <3>1. child[q] \in Slot /\ state[child[q]] = "EMBRYO" /\ child'[q] = child[q]
      BY <2>3, <2>4 DEF TypeOK
    <3>. QED BY <3>1
  <2>5. ASSUME NEW q \in Slot, NEW r \in Slot, call'[q] = "fork", call'[r] = "fork",
               child'[q] = child'[r]
        PROVE  q = r
    BY <2>3, <2>5
  <2>. QED BY <2>1, <2>2, <2>4, <2>5, Zenon
<1>. QED BY <1>1, <1>2 DEF VInv

LEMMA StopStep ==
  ASSUME VInv, NEW x \in {"panic", "undefined"}, Stop(x), ~holes => x # "panic"
  PROVE  VInv' /\ Kept
<1>1. TypeOK' /\ (~holes' => status' # "panic")
  BY DEF VInv, TypeOK, Stop, table, locals
<1>2. PagesOK
  BY DEF VInv, TypeOK, PagesOK, Owns
<1>3. Kept /\ OwnedOnce'
  BY <1>2, PagesSame DEF Stop, PagesOK
<1>4. SlotInv'
  BY Zenon DEF VInv, SlotInv, Stop, table, locals
<1>5. ASSUME NEW q \in Slot PROVE SlotOK(q)'
  <2>1. SlotOK(q) /\ SameSlot(q) /\ (holes => holes')
    BY DEF VInv, SameSlot, Stop, table, locals
  <2>. QED BY <2>1, Other
<1>. QED BY <1>1, <1>3, <1>4, <1>5 DEF VInv

LEMMA InvPages == VInv => PagesOK
BY DEF VInv, TypeOK, PagesOK, Owns

-----------------------------------------------------------------------------
(* setupkvm and allocuvm. *)

LEMMA SetupkvmStep ==
  ASSUME VInv, NEW p \in Slot, Setupkvm(p)
  PROVE  VInv' /\ Kept
<1>. DEFINE x == <<"new", Level[i[p] + 1], 0>>
<1>1. CASE free = {} /\ Stop("undefined")
  BY <1>1, StopStep
<1>2. CASE ~(free = {} /\ Stop("undefined"))
  <2>1. /\ state[p] = "RUNNING" /\ pc[p] = "setupkvm" /\ status = "up" /\ SlotOK(p) /\ TypeOK
        /\ call[p] \in {"fork", "exec"} /\ i[p] \in 0..2 /\ PagesOK
        /\ \A z \in Freed("new") : own[p][z] = None
    BY InvPages, Zenon DEF VInv, SlotOK, CallOK, PlaceOK, Setupkvm, At
  <2>2. /\ Kalloc(p, x) /\ UNCHANGED <<state, sz, call, child, to, holes, status>>
        /\ IF i[p] < 2
           THEN i' = [i EXCEPT ![p] = @ + 1] /\ UNCHANGED pc
           ELSE /\ i' = [i EXCEPT ![p] = 0]
                /\ pc' = [pc EXCEPT ![p] = IF call[p] = "fork" THEN "copyuvm" ELSE "allocuvm"]
    BY <1>2 DEF Setupkvm, Goto, table
  <2>3. /\ x \in Place /\ x # Mem /\ x # Kstack /\ x \notin All("cur")
        /\ (i[p] < 2 => x \in Leaky /\ x \notin Freed("new"))
        /\ (i[p] = 2 => x = Pgdir("new") /\ x \in Freed("new"))
        /\ \A s \in Space, v \in Vpn : x # Pte(s, v) /\ x # Pt(s, v)
    BY <2>1 DEF Level, Place, Space, Mem, Kstack, Leaky, Freed, All, Pgdir, Pt, Pte
  <2>. HIDE DEF x
  <2>4. own[p][x] = None \/ x \in Leaky
    BY <2>1, <2>3
  <2>5. /\ PagesOK' /\ Kept /\ Top # None
        /\ \A q \in Slot, y \in Place : own'[q][y] = IF q = p /\ y = x THEN Top ELSE own[q][y]
        /\ \A q \in Slot : q # p => own'[q] = own[q]
    BY <2>1, <2>2, <2>3, <2>4, KallocStep, Zenon
  <2>6. /\ \A y \in Place : y # x => own'[p][y] = own[p][y]
    BY <2>5
  <2>7. \/ i[p] < 2 /\ i'[p] = i[p] + 1 /\ pc'[p] = "setupkvm"
        \/ i[p] = 2 /\ i'[p] = 0 /\ pc'[p] = "copyuvm" /\ call[p] = "fork"
        \/ i[p] = 2 /\ i'[p] = 0 /\ pc'[p] = "allocuvm" /\ call[p] = "exec"
    BY <2>1, <2>2 DEF TypeOK
  <2>8. \A q \in Slot : q # p => SameSlot(q)
    BY <2>1, <2>2, <2>5, Zenon DEF TypeOK, SameSlot
  <2>9. TypeOK'
    <3>1. i' \in [Slot -> Nat] /\ pc' \in [Slot -> Pc]
      <4>1. CASE i[p] < 2
        BY <2>1, <2>2, <4>1 DEF TypeOK
      <4>2. CASE ~(i[p] < 2)
        <5>1. (IF call[p] = "fork" THEN "copyuvm" ELSE "allocuvm") \in Pc
          BY DEF Pc
        <5>2. i' = [i EXCEPT ![p] = 0] /\ i \in [Slot -> Nat] /\ pc \in [Slot -> Pc]
              /\ pc' = [pc EXCEPT ![p] = IF call[p] = "fork" THEN "copyuvm" ELSE "allocuvm"]
          BY <2>1, <2>2, <4>2, Zenon DEF TypeOK
        <5>. QED BY <5>1, <5>2
      <4>. QED BY <4>1, <4>2
    <3>. QED BY <2>1, <2>2, <2>5, <3>1 DEF TypeOK, PagesOK, Owns
  <2>10. CallOK(p)'
    BY <2>1, <2>2, <2>7 DEF SlotOK, CallOK, TypeOK
  <2>11. PlaceOK(p)'
    <3>1. own'[p][Mem] = None
      BY <2>1, <2>3, <2>6, PlaceFacts, Zenon DEF SlotOK, PlaceOK
    <3>2. pc'[p] = "setupkvm" => \A z \in Freed("new") : own'[p][z] = None
      BY <2>1, <2>3, <2>6, <2>7, PlaceFacts, Zenon DEF Space
    <3>3. \A v \in Vpn : own'[p][Pte("new", v)] = None
      BY <2>1, <2>3, <2>6, PageTables, Zenon DEF Space
    <3>. QED BY <2>1, <2>2, <2>7, <3>1, <3>2, <3>3, Zenon DEF PlaceOK
  <2>12. MapOK(p)'
    <3>1. \A s \in Space, v \in Vpn : /\ own'[p][Pte(s, v)] = own[p][Pte(s, v)]
                                      /\ own'[p][Pt(s, v)] = own[p][Pt(s, v)]
      BY <2>3, <2>6, PageTables
    <3>2. \A v \in Vpn : own[p][Pte("new", v)] = None /\ v >= 0
      BY <2>1, PageTables DEF Space, Vpn
    <3>3. \A s \in Space, v \in Vpn : own'[p][Pte(s, v)] # None => own'[p][Pt(s, v)] # None
      BY <2>1, <3>1, Zenon DEF SlotOK, MapOK
    <3>4. ~holes => Exact(p, "cur", sz[p])
      BY <2>1, Zenon DEF SlotOK, MapOK
    <3>5. \A v \in Vpn : own'[p][Pte("cur", v)] = own[p][Pte("cur", v)]
      BY <3>1 DEF Space
    <3>6. ~holes => Exact(p, "cur", sz[p])'
      BY <2>2, <3>4, <3>5 DEF Exact
    <3>7. \A v \in Vpn : own'[p][Pte("new", v)] = None /\ ~(v < 0)
      BY <3>1, <3>2 DEF Space, Vpn
    <3>8. i'[p] = 0 => Exact(p, "new", i[p])'
      BY <3>7 DEF Exact
    <3>. QED BY <2>1, <2>2, <2>7, <3>3, <3>6, <3>8, Zenon DEF MapOK
  <2>. QED BY <2>1, <2>2, <2>5, <2>8, <2>9, <2>10, <2>11, <2>12, LocalStep, Zenon DEF SlotOK, PagesOK, VInv
<1>. QED BY <1>1, <1>2

\* A step that leaves p's memory and its progress as they are.
LEMMA MapKept ==
  ASSUME NEW p \in Slot, MapOK(p), state[p] = "RUNNING", pc[p] # "fault",
         holes' = holes, sz'[p] = sz[p],
         \A s \in Space, v \in Vpn : /\ own'[p][Pte(s, v)] = own[p][Pte(s, v)]
                                      /\ own'[p][Pt(s, v)] = own[p][Pt(s, v)],
         call'[p] = "sbrk" <=> call[p] = "sbrk",
         call'[p] = "sbrk" => i'[p] = i[p],
         pc'[p] \in {"copyuvm", "copymap"} => pc[p] \in {"copyuvm", "copymap"} /\ i'[p] = i[p],
         pc'[p] \in {"allocuvm", "map"} => pc[p] \in {"allocuvm", "map"} /\ i'[p] = i[p]
  PROVE  MapOK(p)'
<1>1. "cur" \in Space /\ "new" \in Space
  BY DEF Space
<1>2. \A s \in Space, v \in Vpn : own'[p][Pte(s, v)] # None => own'[p][Pt(s, v)] # None
  BY Zenon DEF MapOK
<1>3. ASSUME NEW s \in Space, NEW n, Exact(p, s, n)
      PROVE  \A v \in Vpn : own'[p][Pte(s, v)] # None <=> v < n
  BY <1>3, Zenon DEF Exact
<1>4. ASSUME ~holes, call'[p] # "sbrk" PROVE Exact(p, "cur", sz[p])'
  <2>1. Exact(p, "cur", sz[p])
    BY <1>4, Zenon DEF MapOK
  <2>. QED BY <1>1, <1>3, <2>1, Zenon DEF Exact
<1>5. ASSUME ~holes, call'[p] = "sbrk" PROVE Exact(p, "cur", i[p])'
  <2>1. Exact(p, "cur", i[p]) /\ i'[p] = i[p]
    BY <1>5, Zenon DEF MapOK
  <2>. QED BY <1>1, <1>3, <2>1, Zenon DEF Exact
<1>6. ASSUME ~holes, \/ pc'[p] \in {"copyuvm", "copymap"}
                     \/ pc'[p] \in {"allocuvm", "map"} /\ call'[p] # "sbrk"
      PROVE  Exact(p, "new", i[p])'
  <2>1. Exact(p, "new", i[p]) /\ i'[p] = i[p]
    BY <1>6, Zenon DEF MapOK
  <2>. QED BY <1>1, <1>3, <2>1, Zenon DEF Exact
<1>. QED BY <1>2, <1>4, <1>5, <1>6, Zenon DEF MapOK

LEMMA AllocuvmStep ==
  ASSUME VInv, NEW p \in Slot, Allocuvm(p)
  PROVE  VInv' /\ Kept
<1>1. /\ state[p] = "RUNNING" /\ pc[p] = "allocuvm" /\ status = "up" /\ SlotOK(p) /\ TypeOK
      /\ i[p] < to[p] /\ PagesOK
  BY InvPages DEF VInv, Allocuvm, At
<1>2. /\ Kalloc(p, Mem) /\ UNCHANGED <<state, sz, call, child, i, to, holes, status>>
      /\ pc' = [pc EXCEPT ![p] = "map"]
  BY DEF Allocuvm, Goto, table, locals
<1>3. /\ PagesOK' /\ Kept /\ Top # None
      /\ \A q \in Slot, y \in Place : own'[q][y] = IF q = p /\ y = Mem THEN Top ELSE own[q][y]
      /\ \A q \in Slot : q # p => own'[q] = own[q]
  BY <1>1, <1>2, PlaceFacts, KallocStep
<1>4. own'[p][Mem] # None /\ \A y \in Place : y # Mem => own'[p][y] = own[p][y]
  BY <1>3, PlaceFacts
<1>5. pc'[p] = "map" /\ \A q \in Slot : q # p => SameSlot(q)
  BY <1>1, <1>2, <1>3 DEF TypeOK, SameSlot
<1>6. TypeOK'
  <2>1. pc' \in [Slot -> Pc]
    BY <1>1, <1>2 DEF TypeOK, Pc
  <2>. QED BY <1>1, <1>2, <1>3, <2>1, Zenon DEF TypeOK, PagesOK, Owns
<1>7. CallOK(p)'
  BY <1>1, <1>2, <1>5 DEF SlotOK, CallOK, TypeOK
<1>8. PlaceOK(p)'
  <2>1. \A x \in All("new") : own'[p][x] = own[p][x]
    BY <1>4, PlaceFacts DEF Space
  <2>. QED BY <1>1, <1>2, <1>4, <1>5, <2>1, Zenon DEF SlotOK, PlaceOK
<1>9. MapOK(p)'
  <2>1. \A s \in Space, v \in Vpn : /\ own'[p][Pte(s, v)] = own[p][Pte(s, v)]
                                    /\ own'[p][Pt(s, v)] = own[p][Pt(s, v)]
    BY <1>4, PageTables
  <2>2. MapOK(p) /\ sz' = sz /\ i' = i /\ call' = call /\ holes' = holes
    BY <1>1, <1>2, Zenon DEF SlotOK
  <2>. QED BY <1>1, <1>5, <2>1, <2>2, MapKept, Zenon
<1>. QED BY <1>1, <1>2, <1>3, <1>5, <1>6, <1>7, <1>8, <1>9, LocalStep, Zenon DEF SlotOK, PagesOK, VInv

\* A call in setupkvm or allocuvm.
LEMMA CallSetup ==
  ASSUME NEW p \in Slot, state'[p] = "RUNNING", pc'[p] = "setupkvm", call'[p] \in {"fork", "exec"},
         i'[p] \in 0..2, call'[p] = "exec" => to'[p] <= MaxSz - 2
  PROVE  CallOK(p)'
BY Zenon DEF CallOK

LEMMA CallAlloc ==
  ASSUME NEW p \in Slot, state'[p] = "RUNNING", pc'[p] = "allocuvm",
         call'[p] \in {"sbrk", "exec", "stack"}, i'[p] <= to'[p],
         call'[p] = "sbrk" => sz'[p] <= i'[p],
         call'[p] = "exec" => to'[p] <= MaxSz - 2, call'[p] = "stack" => to'[p] >= 2
  PROVE  CallOK(p)'
BY Zenon DEF CallOK

\* A page whose mappages has failed is forgotten.
LEMMA Forget ==
  ASSUME PagesOK, NEW p \in Slot, own' = [own EXCEPT ![p][Mem] = None], free' = free
  PROVE  /\ PagesOK' /\ Kept
         /\ own'[p][Mem] = None
         /\ \A y \in Place : y # Mem => own'[p][y] = own[p][y]
         /\ \A q \in Slot : q # p => own'[q] = own[q]
<1>1. Mem \in Place /\ Mem \in Leaky /\ None \in Page \cup {None}
  BY PlaceFacts
<1>2. /\ own' \in Owns
      /\ \A q \in Slot, y \in Place : own'[q][y] = IF q = p /\ y = Mem THEN None ELSE own[q][y]
  BY <1>1, OwnAt, Zenon
<1>3. PagesOK' /\ Kept
  <2>. DEFINE B == {}
  <2>1. free' = free \cup B
    OBVIOUS
  <2>2. \A q \in Slot, y \in Place :
           \/ own'[q][y] = own[q][y]
           \/ own'[q][y] = None /\ (own[q][y] \in B \/ own[q][y] = None \/ y \in Leaky)
    BY <1>1, <1>2
  <2>3. \A g \in B : \E q \in Slot, y \in Place : own[q][y] = g /\ g # None /\ own'[q][y] = None
    OBVIOUS
  <2>. HIDE DEF B
  <2>. QED BY <1>2, <2>1, <2>2, <2>3, PagesFreed, Zenon
<1>4. \A q \in Slot : q # p => own'[q] = own[q]
  BY DEF PagesOK, Owns
<1>. QED BY <1>1, <1>2, <1>3, <1>4

LEMMA MapFacts ==
  ASSUME PagesOK, NEW p \in Slot, NEW s \in Space, i[p] \in Vpn, Mapped(p, s),
         own[p][Pte(s, i[p])] = None, own[p][Mem] # None, MapOK(p)
  PROVE  /\ \A t \in Space, v \in Vpn : own'[p][Pte(t, v)] # None => own'[p][Pt(t, v)] # None
         /\ Exact(p, s, i[p]) => \A v \in Vpn : own'[p][Pte(s, v)] # None <=> v < i[p] + 1
         /\ \A t \in Space : \A x \in All(t) : t # s => own'[p][x] = own[p][x]
         /\ \A v \in Vpn : v # i[p] => own'[p][Pte(s, v)] = own[p][Pte(s, v)]
<1>1. /\ own'[p][Pt(s, i[p])] # None
      /\ own'[p][Pte(s, i[p])] = own[p][Mem]
      /\ \A y \in Place : y \notin {Pt(s, i[p]), Pte(s, i[p]), Mem} => own'[p][y] = own[p][y]
  BY PagesMapped, Zenon
<1>. DEFINE x == Pt(s, i[p])
            e == Pte(s, i[p])
<1>2. /\ x \in Freed(s) /\ e \in Freed(s)
      /\ \A t \in Space, u \in Vpn : x # Pte(t, u) /\ (e = Pte(t, u) => s = t /\ u = i[p])
  BY PageTables
<1>3. \A t \in Space, u \in Vpn : /\ Pte(t, u) \in Place /\ Pt(t, u) \in Place
                                  /\ Pte(t, u) # Mem /\ Pt(t, u) # Mem /\ Pt(t, u) # e
  <2>1. s \in Space /\ i[p] \in Vpn
    OBVIOUS
  <2>2. ASSUME NEW t \in Space, NEW u \in Vpn
        PROVE  /\ Pte(t, u) \in Place /\ Pt(t, u) \in Place
               /\ Pte(t, u) # Mem /\ Pt(t, u) # Mem /\ Pt(t, u) # e
    <3>1. /\ Pte(t, u) \in Place /\ Pt(t, u) \in Place
          /\ Pte(t, u) # Mem /\ Pt(t, u) # Mem
      BY PageTables, Zenon
    <3>2. \A r \in Space, v \in Vpn : Pt(t, u) # Pte(r, v)
      BY PageTables
    <3>. QED BY <2>1, <3>1, <3>2, Zenon
  <2>. QED BY <2>2, Zenon
<1>4. \A t \in Space : \A y \in All(t) : t # s => y \in Place /\ y # Mem /\ y \notin All(s)
  BY PlaceFacts DEF Space
<1>5. \A t \in Space : \A y \in All(t) : t # s => own'[p][y] = own[p][y]
  <2>1. x \in All(s) /\ e \in All(s)
    BY <1>2, PlaceFacts
  <2>. QED BY <1>1, <1>4, <2>1, Zenon
<1>6. \A t \in Space, v \in Vpn :
        /\ ~(t = s /\ v = i[p]) => own'[p][Pte(t, v)] = own[p][Pte(t, v)]
        /\ own'[p][Pt(t, v)] = own[p][Pt(t, v)] \/ own'[p][Pt(t, v)] # None
  BY <1>1, <1>2, <1>3, Zenon
<1>7. ASSUME NEW t \in Space, NEW v \in Vpn, own'[p][Pte(t, v)] # None PROVE own'[p][Pt(t, v)] # None
  <2>1. CASE t = s /\ v = i[p]
    BY <1>1, <2>1, Zenon
  <2>2. CASE ~(t = s /\ v = i[p])
    BY <1>6, <1>7, <2>2, Zenon DEF MapOK
  <2>. QED BY <2>1, <2>2, Zenon
<1>8. \A v \in Vpn : v # i[p] => own'[p][Pte(s, v)] = own[p][Pte(s, v)]
  BY <1>6, Zenon
<1>9. ASSUME Exact(p, s, i[p]), NEW v \in Vpn PROVE own'[p][Pte(s, v)] # None <=> v < i[p] + 1
  <2>1. CASE v = i[p]
    <3>1. v < i[p] + 1
      BY <2>1 DEF Vpn
    <3>. QED BY <1>1, <2>1, <3>1, Zenon
  <2>2. CASE v # i[p]
    <3>1. v < i[p] + 1 <=> v < i[p]
      BY <2>2 DEF Vpn
    <3>. QED BY <1>8, <1>9, <2>2, <3>1, Zenon DEF Exact
  <2>. QED BY <2>1, <2>2, Zenon
<1>. QED BY <1>5, <1>7, <1>8, <1>9, Zenon

LEMMA AllocMapStep ==
  ASSUME VInv, NEW p \in Slot, AllocMap(p)
  PROVE  VInv' /\ Kept
<1>. DEFINE s == Builds(p)
<1>1. /\ state[p] = "RUNNING" /\ pc[p] = "map" /\ status = "up" /\ SlotOK(p) /\ TypeOK
      /\ i[p] < to[p] /\ PagesOK /\ call[p] \in {"sbrk", "exec", "stack"}
      /\ own[p][Mem] # None /\ MapOK(p)
  BY InvPages, Zenon DEF VInv, AllocMap, At, SlotOK, CallOK, PlaceOK
<1>2. i[p] \in Vpn
  BY <1>1, ConstFacts DEF TypeOK
<1>3. /\ s \in Space /\ (call[p] = "sbrk" => s = "cur") /\ (call[p] # "sbrk" => s = "new")
      /\ ~holes => Exact(p, s, i[p])
  BY <1>1, Zenon DEF Builds, Space, MapOK
<1>4. \/ own[p][Pte(s, i[p])] # None /\ Stop("panic")
      \/ /\ own[p][Pte(s, i[p])] = None
         /\ \/ Mapped(p, s) /\ UNCHANGED holes
            \/ own' = [own EXCEPT ![p][Mem] = None] /\ holes' = TRUE /\ UNCHANGED free
         /\ i' = [i EXCEPT ![p] = @ + 1]
         /\ pc' = [pc EXCEPT ![p] = "allocuvm"]
         /\ UNCHANGED <<state, sz, call, child, to, status>>
  BY DEF AllocMap, Goto, table
<1>. HIDE DEF s
<1>5. CASE own[p][Pte(s, i[p])] # None /\ Stop("panic")
  <2>1. holes
    BY <1>1, <1>2, <1>3, <1>5 DEF Exact, TypeOK
  <2>. QED BY <1>5, <2>1, StopStep
<1>6. CASE ~(own[p][Pte(s, i[p])] # None /\ Stop("panic"))
  <2>1. /\ own[p][Pte(s, i[p])] = None
        /\ i' = [i EXCEPT ![p] = @ + 1] /\ pc' = [pc EXCEPT ![p] = "allocuvm"]
        /\ UNCHANGED <<state, sz, call, child, to, status>>
    BY <1>4, <1>6
  <2>2. i'[p] = i[p] + 1 /\ pc'[p] = "allocuvm" /\ i' \in [Slot -> Nat] /\ pc' \in [Slot -> Pc]
    BY <1>1, <2>1 DEF TypeOK, Pc
  <2>3. CallOK(p)'
    <3>1. /\ state'[p] = "RUNNING" /\ call'[p] = call[p] /\ to'[p] = to[p] /\ sz'[p] = sz[p]
          /\ call[p] \in {"sbrk", "exec", "stack"}
      BY <1>1, <2>1
    <3>2. /\ call[p] = "sbrk" => sz[p] <= i[p]
          /\ call[p] = "exec" => to[p] <= MaxSz - 2
          /\ call[p] = "stack" => to[p] >= 2
      BY <1>1, Zenon DEF SlotOK, CallOK
    <3>3. i[p] \in Nat /\ to[p] \in Nat /\ sz[p] \in Nat /\ i[p] < to[p]
      BY <1>1, ConstFacts DEF TypeOK
    <3>4. i[p] + 1 <= to[p] /\ (sz[p] <= i[p] => sz[p] <= i[p] + 1)
      BY <3>3
    <3>. QED BY <2>2, <3>1, <3>2, <3>4, CallAlloc, Zenon
  <2>4. \A q \in Slot : q # p /\ own'[q] = own[q] => SameSlot(q)
    BY <1>1, <2>1, Zenon DEF TypeOK, SameSlot
  <2>5. CASE Mapped(p, s) /\ UNCHANGED holes
    <3>1. /\ PagesOK' /\ Kept /\ own'[p][Mem] = None
          /\ \A q \in Slot : q # p => own'[q] = own[q]
      BY <1>1, <1>2, <1>3, <2>1, <2>5, PagesMapped, Zenon
    <3>2. /\ \A t \in Space, v \in Vpn : own'[p][Pte(t, v)] # None => own'[p][Pt(t, v)] # None
          /\ Exact(p, s, i[p]) => \A v \in Vpn : own'[p][Pte(s, v)] # None <=> v < i[p] + 1
          /\ \A t \in Space : \A x \in All(t) : t # s => own'[p][x] = own[p][x]
      BY <1>1, <1>2, <1>3, <2>1, <2>5, MapFacts, Zenon
    <3>3. TypeOK'
      BY <1>1, <2>1, <2>2, <2>5, <3>1, Zenon DEF TypeOK, PagesOK, Owns
    <3>4. PlaceOK(p)'
      <4>1. call[p] = "sbrk" => \A x \in All("new") : own'[p][x] = None
        BY <1>1, <1>3, <3>2 DEF SlotOK, PlaceOK, Space
      <4>. QED BY <2>1, <2>2, <3>1, <4>1, Zenon DEF PlaceOK
    <3>5. MapOK(p)'
      <4>1. ~holes => \A v \in Vpn : own'[p][Pte(s, v)] # None <=> v < i'[p]
        BY <1>3, <2>2, <3>2
      <4>2. ~holes /\ call[p] # "sbrk" => Exact(p, "cur", sz[p])'
        <5>. SUFFICES ASSUME ~holes, call[p] # "sbrk" PROVE Exact(p, "cur", sz[p])'
          OBVIOUS
        <5>1. Exact(p, "cur", sz[p])
          BY <1>1 DEF MapOK
        <5>2. \A v \in Vpn : own'[p][Pte("cur", v)] = own[p][Pte("cur", v)]
          BY <1>3, <3>2, PageTables, PlaceFacts, Zenon DEF Space
        <5>. QED BY <2>1, <5>1, <5>2, Zenon DEF Exact
      <4>3. ~holes => /\ call[p] = "sbrk" => Exact(p, "cur", i[p])'
                      /\ call[p] # "sbrk" => Exact(p, "new", i[p])'
        BY <1>3, <4>1, Zenon DEF Exact
      <4>. QED BY <2>1, <2>2, <2>5, <3>2, <4>2, <4>3, Zenon DEF MapOK
    <3>. QED BY <1>1, <2>1, <2>3, <2>4, <2>5, <3>1, <3>3, <3>4, <3>5, LocalStep, Zenon DEF SlotOK, PagesOK, VInv
  <2>6. CASE own' = [own EXCEPT ![p][Mem] = None] /\ holes' = TRUE /\ UNCHANGED free
    <3>1. /\ PagesOK' /\ Kept /\ own'[p][Mem] = None
          /\ \A y \in Place : y # Mem => own'[p][y] = own[p][y]
          /\ \A q \in Slot : q # p => own'[q] = own[q]
      BY <1>1, <2>6, Forget, Zenon
    <3>2. TypeOK'
      BY <1>1, <2>1, <2>2, <2>6, <3>1, Zenon DEF TypeOK, PagesOK, Owns
    <3>3. PlaceOK(p)'
      <4>1. \A x \in All("new") : own'[p][x] = own[p][x]
        BY <3>1, PlaceFacts DEF Space
      <4>. QED BY <1>1, <2>1, <2>2, <3>1, <4>1, Zenon DEF SlotOK, PlaceOK
    <3>4. MapOK(p)'
      <4>1. \A t \in Space, v \in Vpn : own'[p][Pte(t, v)] # None => own'[p][Pt(t, v)] # None
        <5>1. \A t \in Space, v \in Vpn : /\ Pte(t, v) \in Place /\ Pte(t, v) # Mem
                                          /\ Pt(t, v) \in Place /\ Pt(t, v) # Mem
          BY PageTables
        <5>. QED BY <1>1, <3>1, <5>1, Zenon DEF MapOK
      <4>. QED BY <2>6, <4>1 DEF MapOK
    <3>. QED BY <1>1, <2>1, <2>3, <2>4, <2>6, <3>1, <3>2, <3>3, <3>4, LocalStep DEF SlotOK, PagesOK, VInv
  <2>. QED BY <1>4, <1>6, <2>5, <2>6, Zenon
<1>. QED BY <1>5, <1>6, Zenon

\* Back to user space with nothing under construction.
LEMMA ReturnFacts ==
  ASSUME TypeOK, NEW p \in Slot, Return(p)
  PROVE  /\ pc'[p] = "user" /\ call'[p] = "none" /\ child'[p] = p /\ i'[p] = 0 /\ to'[p] = 0
         /\ pc' \in [Slot -> Pc] /\ child' \in [Slot -> Slot]
         /\ call' \in [Slot -> {"none", "fork", "sbrk", "exec", "stack"}]
         /\ i' \in [Slot -> Nat] /\ to' \in [Slot -> 0..MaxSz]
         /\ \A q \in Slot : q # p => /\ pc'[q] = pc[q] /\ call'[q] = call[q] /\ child'[q] = child[q]
                                     /\ i'[q] = i[q] /\ to'[q] = to[q]
<1>1. "user" \in Pc /\ 0 \in 0..MaxSz
  BY ConstFacts DEF Pc
<1>. QED BY <1>1 DEF TypeOK, Return

\* A process in user space.
LEMMA UserSlot ==
  ASSUME NEW p \in Slot, pc'[p] = "user", call'[p] = "none",
         own'[p][Mem] = None, \A x \in All("new") : own'[p][x] = None,
         \A s \in Space, v \in Vpn : own'[p][Pte(s, v)] # None => own'[p][Pt(s, v)] # None,
         ~holes' /\ state'[p] = "RUNNING" => Exact(p, "cur", sz[p])'
  PROVE  SlotOK(p)'
<1>1. CallOK(p)'
  BY Zenon DEF CallOK
<1>2. PlaceOK(p)'
  BY DEF PlaceOK
<1>3. MapOK(p)'
  BY DEF MapOK
<1>. QED BY <1>1, <1>2, <1>3 DEF SlotOK

\* deallocuvm leaves what is below the size it goes down to.
LEMMA Shortened ==
  ASSUME NEW p \in Slot, MapOK(p), NEW a \in 0..MaxSz, NEW b \in 0..MaxSz, NEW n \in 0..MaxSz,
         Exact(p, "cur", n), a <= n, n <= b,
         NEW X, X = Visited(own[p], "cur", a, b),
         \A y \in Place : own'[p][y] = IF y \in X THEN None ELSE own[p][y]
  PROVE  \A v \in Vpn : own'[p][Pte("cur", v)] # None <=> v < a
<1>1. "cur" \in Space /\ MaxSz \in Nat
  BY ConstFacts DEF Space
<1>2. ASSUME NEW v \in Vpn, a <= v, v < n PROVE Pte("cur", v) \in X
  BY <1>1, <1>2, VisitedAll
<1>3. ASSUME NEW v \in Vpn, v < a PROVE Pte("cur", v) \notin X
  <2>1. \A u \in Vpn : Pte("cur", v) = Pte("cur", u) => u = v
    BY <1>1, PageTables
  <2>2. \A x \in X : \E u \in Vpn : x = Pte("cur", u) /\ a <= u /\ u < b
    BY <1>1, VisitedPlaces
  <2>. QED BY <1>1, <1>3, <2>1, <2>2 DEF Vpn
<1>4. ASSUME NEW v \in Vpn PROVE own'[p][Pte("cur", v)] # None <=> v < a
  <2>1. own'[p][Pte("cur", v)] = IF Pte("cur", v) \in X THEN None ELSE own[p][Pte("cur", v)]
    BY <1>1, PageTables
  <2>2. own[p][Pte("cur", v)] # None <=> v < n
    BY DEF Exact
  <2>3. v \in Nat /\ a \in Nat /\ n \in Nat
    BY <1>1 DEF Vpn
  <2>4. CASE v < a
    BY <1>3, <2>1, <2>2, <2>3, <2>4
  <2>5. CASE a <= v /\ v < n
    BY <1>2, <2>1, <2>3, <2>5
  <2>6. CASE n <= v
    BY <2>1, <2>2, <2>3, <2>6
  <2>. QED BY <2>3, <2>4, <2>5, <2>6
<1>. QED BY <1>4

LEMMA AllocFailStep ==
  ASSUME VInv, NEW p \in Slot, AllocFail(p)
  PROVE  VInv' /\ Kept
<1>. DEFINE X == Visited(own[p], Builds(p), Oldsz(p), to[p])
<1>1. /\ state[p] = "RUNNING" /\ pc[p] = "allocuvm" /\ status = "up" /\ SlotOK(p) /\ TypeOK
      /\ i[p] < to[p] /\ PagesOK /\ call[p] \in {"sbrk", "exec", "stack"}
      /\ own[p][Mem] = None /\ MapOK(p) /\ CallOK(p) /\ PlaceOK(p)
  BY InvPages, Zenon DEF VInv, AllocFail, At, SlotOK, CallOK, PlaceOK
<1>2. /\ free' = free \cup Pages(own[p], X) /\ own' = [own EXCEPT ![p] = Without(@, X)]
      /\ UNCHANGED <<state, sz, holes, status>>
      /\ \/ call[p] = "sbrk" /\ Return(p)
         \/ call[p] # "sbrk" /\ pc' = [pc EXCEPT ![p] = "bad"] /\ UNCHANGED <<call, child, i, to>>
  BY Zenon DEF AllocFail, Goto, table, locals
<1>3. Builds(p) \in Space
  BY DEF Builds, Space
<1>4. \A x \in X : \E v \in Vpn : x = Pte(Builds(p), v) /\ Oldsz(p) <= v
  BY <1>3, VisitedPlaces, SMTT(40)
<1>5. call[p] = "sbrk" => X = Visited(own[p], "cur", sz[p], to[p]) /\ Builds(p) = "cur" /\ Oldsz(p) = sz[p]
  BY DEF Builds, Oldsz
<1>6. call[p] # "sbrk" => Builds(p) = "new"
  BY DEF Builds
<1>. HIDE DEF X
<1>7. X \subseteq Place /\ (\A y \in X : y \in X \/ y \in Leaky) /\ X \subseteq X
  BY <1>3, <1>4, PageTables
<1>8. /\ PagesOK' /\ Kept
      /\ \A y \in Place : own'[p][y] = IF y \in X THEN None ELSE own[p][y]
      /\ \A q \in Slot : q # p => own'[q] = own[q]
  BY <1>1, <1>2, <1>7, FreePages, Zenon
<1>9. own'[p][Mem] = None
  BY <1>1, <1>8, PlaceFacts, Zenon
<1>10. \A s \in Space, v \in Vpn : own'[p][Pte(s, v)] # None => own'[p][Pt(s, v)] # None
  <2>1. \A s \in Space, v \in Vpn : Pt(s, v) \notin X /\ Pt(s, v) \in Place /\ Pte(s, v) \in Place
    BY <1>3, <1>4, PageTables
  <2>. QED BY <1>1, <1>8, <2>1, Zenon DEF MapOK
<1>11. CASE call[p] = "sbrk" /\ Return(p)
  <2>1. /\ pc'[p] = "user" /\ call'[p] = "none"
        /\ TypeOK' /\ \A q \in Slot : q # p => SameSlot(q)
    <3>1. TypeOK'
      BY <1>1, <1>2, <1>8, <1>11, ReturnFacts, Zenon DEF TypeOK, PagesOK, Owns
    <3>2. /\ pc'[p] = "user" /\ call'[p] = "none"
          /\ \A q \in Slot : q # p => /\ pc'[q] = pc[q] /\ call'[q] = call[q] /\ child'[q] = child[q]
                                      /\ i'[q] = i[q] /\ to'[q] = to[q]
      BY <1>1, <1>11, ReturnFacts
    <3>3. state' = state /\ sz' = sz
      BY <1>2
    <3>. QED BY <1>8, <3>1, <3>2, <3>3, Zenon DEF SameSlot
  <2>2. \A x \in All("new") : own'[p][x] = None
    BY <1>1, <1>8, <1>11, PlaceFacts, Zenon DEF PlaceOK, Space
  <2>3. ASSUME ~holes' PROVE Exact(p, "cur", sz[p])'
    <3>1. Exact(p, "cur", i[p]) /\ i[p] <= to[p] /\ sz[p] <= i[p] /\ i[p] \in 0..MaxSz
          /\ sz[p] \in 0..MaxSz /\ to[p] \in 0..MaxSz /\ "cur" \in Space
      <4>1. Exact(p, "cur", i[p])
        BY <1>1, <1>2, <1>11, <2>3, Zenon DEF MapOK
      <4>2. sz[p] <= i[p] /\ i[p] \in Nat /\ to[p] \in 0..MaxSz /\ sz[p] \in 0..MaxSz
        BY <1>1, <1>11 DEF CallOK, TypeOK
      <4>3. i[p] < to[p]
        BY <1>1, Zenon
      <4>. QED BY <4>1, <4>2, <4>3, ConstFacts DEF Space
    <3>2. \A v \in Vpn : own'[p][Pte("cur", v)] # None <=> v < sz[p]
      BY <1>1, <1>5, <1>8, <1>11, <3>1, Shortened, Zenon
    <3>. QED BY <1>2, <3>2, Zenon DEF Exact
  <2>4. SlotOK(p)'
    BY <1>9, <1>10, <2>1, <2>2, <2>3, UserSlot, Zenon
  <2>. QED BY <1>1, <1>2, <1>8, <2>1, <2>4, LocalStep, Zenon DEF PagesOK, VInv
<1>12. CASE call[p] # "sbrk" /\ pc' = [pc EXCEPT ![p] = "bad"] /\ UNCHANGED <<call, child, i, to>>
  <2>1. /\ pc'[p] = "bad" /\ pc' \in [Slot -> Pc] /\ \A q \in Slot : q # p => SameSlot(q)
    BY <1>1, <1>2, <1>8, <1>12 DEF TypeOK, Pc, SameSlot
  <2>2. TypeOK'
    BY <1>1, <1>2, <1>8, <1>12, <2>1, Zenon DEF TypeOK, PagesOK, Owns
  <2>3. CallOK(p)'
    BY <1>1, <1>2, <1>12, <2>1, Zenon DEF CallOK
  <2>4. PlaceOK(p)'
    BY <1>9, <1>12, <2>1, Zenon DEF PlaceOK
  <2>5. \A v \in Vpn : own'[p][Pte("cur", v)] = own[p][Pte("cur", v)]
    <3>1. \A v, u \in Vpn : Pte("cur", v) # Pte("new", u) /\ Pte("cur", v) \in Place
      BY PageTables DEF Space
    <3>. QED BY <1>4, <1>6, <1>8, <1>12, <3>1, Zenon
  <2>6. MapOK(p)'
    BY <1>1, <1>2, <1>10, <1>12, <2>1, <2>5, Zenon DEF MapOK, Exact
  <2>. QED BY <1>1, <1>2, <1>8, <1>12, <2>1, <2>2, <2>3, <2>4, <2>6, LocalStep, Zenon DEF SlotOK, PagesOK, VInv
<1>. QED BY <1>2, <1>11, <1>12

-----------------------------------------------------------------------------
(* copyuvm. *)

LEMMA CopyuvmStep ==
  ASSUME VInv, NEW p \in Slot, Copyuvm(p)
  PROVE  VInv' /\ Kept
<1>1. /\ state[p] = "RUNNING" /\ pc[p] = "copyuvm" /\ status = "up" /\ SlotOK(p) /\ TypeOK
      /\ i[p] < sz[p] /\ PagesOK /\ call[p] = "fork"
      /\ own[p][Mem] = None /\ MapOK(p) /\ CallOK(p) /\ PlaceOK(p)
  BY InvPages, Zenon DEF VInv, Copyuvm, At, SlotOK, CallOK, PlaceOK
<1>2. \/ own[p][Pte("cur", i[p])] = None /\ Stop("panic")
      \/ /\ \/ Kalloc(p, Mem) /\ pc' = [pc EXCEPT ![p] = "copymap"]
            \/ pc' = [pc EXCEPT ![p] = "bad"] /\ UNCHANGED <<free, own>>
         /\ UNCHANGED <<state, sz, call, child, i, to, holes, status>>
  BY Zenon DEF Copyuvm, Goto, table, locals
<1>3. i[p] \in Vpn
  BY <1>1, ConstFacts DEF TypeOK
<1>4. CASE own[p][Pte("cur", i[p])] = None /\ Stop("panic")
  <2>1. holes
    BY <1>1, <1>3, <1>4, Zenon DEF MapOK, Exact
  <2>. QED BY <1>4, <2>1, StopStep, Zenon
<1>5. CASE /\ Kalloc(p, Mem) /\ pc' = [pc EXCEPT ![p] = "copymap"]
           /\ UNCHANGED <<state, sz, call, child, i, to, holes, status>>
  <2>1. /\ PagesOK' /\ Kept /\ Top # None
        /\ \A q \in Slot, y \in Place : own'[q][y] = IF q = p /\ y = Mem THEN Top ELSE own[q][y]
        /\ \A q \in Slot : q # p => own'[q] = own[q]
    <3>1. PagesOK /\ own[p][Mem] = None /\ Mem \in Place /\ Kalloc(p, Mem)
      BY <1>1, <1>5, PlaceFacts, Zenon
    <3>. QED BY <3>1, KallocStep, Zenon
  <2>2. own'[p][Mem] # None /\ \A y \in Place : y # Mem => own'[p][y] = own[p][y]
    BY <2>1, PlaceFacts
  <2>3. pc'[p] = "copymap" /\ pc' \in [Slot -> Pc] /\ \A q \in Slot : q # p => SameSlot(q)
    BY <1>1, <1>5, <2>1, Zenon DEF TypeOK, Pc, SameSlot
  <2>4. TypeOK'
    BY <1>1, <1>5, <2>1, <2>3, Zenon DEF TypeOK, PagesOK, Owns
  <2>5. CallOK(p)'
    BY <1>1, <1>5, <2>3, Zenon DEF CallOK
  <2>6. \A s \in Space, v \in Vpn : /\ own'[p][Pte(s, v)] = own[p][Pte(s, v)]
                                    /\ own'[p][Pt(s, v)] = own[p][Pt(s, v)]
    BY <2>2, PageTables
  <2>7. PlaceOK(p)'
    BY <1>1, <1>5, <2>2, <2>3, <2>6, Zenon DEF PlaceOK, Space
  <2>8. MapOK(p)'
    <3>1. sz' = sz /\ i' = i /\ call' = call /\ holes' = holes
      BY <1>5, Zenon
    <3>. QED BY <1>1, <2>3, <2>6, <3>1, MapKept, Zenon
  <2>. QED BY <1>1, <1>5, <2>1, <2>3, <2>4, <2>5, <2>7, <2>8, LocalStep, Zenon DEF SlotOK, PagesOK, VInv
<1>6. CASE /\ pc' = [pc EXCEPT ![p] = "bad"] /\ UNCHANGED <<free, own>>
           /\ UNCHANGED <<state, sz, call, child, i, to, holes, status>>
  <2>1. PagesOK' /\ Kept
    BY <1>1, <1>6, PagesSame, Zenon
  <2>2. pc'[p] = "bad" /\ pc' \in [Slot -> Pc] /\ \A q \in Slot : q # p => SameSlot(q)
    BY <1>1, <1>6 DEF TypeOK, Pc, SameSlot
  <2>3. TypeOK'
    BY <1>1, <1>6, <2>1, <2>2, Zenon DEF TypeOK
  <2>4. SlotOK(p)'
    BY <1>1, <1>6, <2>2, Zenon DEF SlotOK, CallOK, PlaceOK, MapOK, Exact
  <2>. QED BY <1>1, <1>6, <2>1, <2>2, <2>3, <2>4, LocalStep, Zenon DEF PagesOK, VInv
<1>. QED BY <1>2, <1>4, <1>5, <1>6, Zenon

LEMMA CopyMapStep ==
  ASSUME VInv, NEW p \in Slot, CopyMap(p)
  PROVE  VInv' /\ Kept
<1>1. /\ state[p] = "RUNNING" /\ pc[p] = "copymap" /\ status = "up" /\ SlotOK(p) /\ TypeOK
      /\ i[p] < sz[p] /\ PagesOK /\ call[p] = "fork"
      /\ own[p][Mem] # None /\ MapOK(p) /\ CallOK(p) /\ PlaceOK(p)
  BY InvPages, Zenon DEF VInv, CopyMap, At, SlotOK, CallOK, PlaceOK
<1>2. /\ \/ Mapped(p, "new") /\ i' = [i EXCEPT ![p] = @ + 1] /\ pc' = [pc EXCEPT ![p] = "copyuvm"]
         \/ own' = [own EXCEPT ![p][Mem] = None] /\ pc' = [pc EXCEPT ![p] = "bad"] /\ UNCHANGED <<free, i>>
      /\ UNCHANGED <<state, sz, call, child, to, holes, status>>
  BY DEF CopyMap, Goto, table
<1>3. i[p] \in Vpn /\ i[p] \in Nat /\ sz[p] \in Nat
  BY <1>1, ConstFacts DEF TypeOK
<1>4. own[p][Pte("new", i[p])] = None
  <2>1. \A v \in Vpn : v >= i[p] => own[p][Pte("new", v)] = None
    BY <1>1, Zenon DEF PlaceOK
  <2>. QED BY <1>3, <2>1
<1>5. CASE Mapped(p, "new") /\ i' = [i EXCEPT ![p] = @ + 1] /\ pc' = [pc EXCEPT ![p] = "copyuvm"]
  <2>0. "new" \in Space
    BY DEF Space
  <2>1. /\ PagesOK' /\ Kept /\ own'[p][Mem] = None
        /\ \A q \in Slot : q # p => own'[q] = own[q]
    BY <1>1, <1>3, <1>4, <1>5, <2>0, PagesMapped, Zenon
  <2>2. /\ \A t \in Space, v \in Vpn : own'[p][Pte(t, v)] # None => own'[p][Pt(t, v)] # None
        /\ Exact(p, "new", i[p]) => \A v \in Vpn : own'[p][Pte("new", v)] # None <=> v < i[p] + 1
        /\ \A t \in Space : \A x \in All(t) : t # "new" => own'[p][x] = own[p][x]
        /\ \A v \in Vpn : v # i[p] => own'[p][Pte("new", v)] = own[p][Pte("new", v)]
    BY <1>1, <1>3, <1>4, <1>5, <2>0, MapFacts, Zenon
  <2>3. /\ pc'[p] = "copyuvm" /\ i'[p] = i[p] + 1 /\ pc' \in [Slot -> Pc] /\ i' \in [Slot -> Nat]
        /\ \A q \in Slot : q # p => SameSlot(q)
    BY <1>1, <1>2, <1>5, <2>1 DEF TypeOK, Pc, SameSlot
  <2>4. TypeOK'
    BY <1>1, <1>2, <2>1, <2>3 DEF TypeOK, PagesOK, Owns
  <2>5. CallOK(p)'
    BY <1>1, <1>2, <1>3, <2>3 DEF CallOK
  <2>6. PlaceOK(p)'
    <3>1. \A v \in Vpn : v >= i[p] + 1 => own'[p][Pte("new", v)] = None
      <4>1. \A v \in Vpn : v >= i[p] => own[p][Pte("new", v)] = None
        BY <1>1, Zenon DEF PlaceOK
      <4>2. \A v \in Vpn : v >= i[p] + 1 => v >= i[p] /\ v # i[p]
        BY <1>3 DEF Vpn
      <4>. QED BY <2>2, <4>1, <4>2, Zenon
    <3>. QED BY <1>1, <1>2, <2>1, <2>3, <3>1 DEF PlaceOK
  <2>7. MapOK(p)'
    <3>1. \A v \in Vpn : own'[p][Pte("cur", v)] = own[p][Pte("cur", v)]
      BY <2>2, PageTables, PlaceFacts, Zenon DEF Space
    <3>2. ~holes => Exact(p, "cur", sz[p])'
      BY <1>1, <1>2, <3>1 DEF MapOK, Exact
    <3>3. ~holes => Exact(p, "new", i[p])'
      BY <1>1, <2>2, <2>3, Zenon DEF MapOK, Exact
    <3>. QED BY <1>1, <1>2, <2>2, <2>3, <3>2, <3>3, Zenon DEF MapOK
  <2>. QED BY <1>1, <1>2, <2>1, <2>3, <2>4, <2>5, <2>6, <2>7, LocalStep DEF SlotOK, PagesOK, VInv
<1>6. CASE own' = [own EXCEPT ![p][Mem] = None] /\ pc' = [pc EXCEPT ![p] = "bad"] /\ UNCHANGED <<free, i>>
  <2>1. /\ PagesOK' /\ Kept /\ own'[p][Mem] = None
        /\ \A y \in Place : y # Mem => own'[p][y] = own[p][y]
        /\ \A q \in Slot : q # p => own'[q] = own[q]
    BY <1>1, <1>6, Forget, Zenon
  <2>2. pc'[p] = "bad" /\ pc' \in [Slot -> Pc] /\ \A q \in Slot : q # p => SameSlot(q)
    BY <1>1, <1>2, <1>6, <2>1, Zenon DEF TypeOK, Pc, SameSlot
  <2>3. TypeOK'
    BY <1>1, <1>2, <1>6, <2>1, <2>2, Zenon DEF TypeOK, PagesOK, Owns
  <2>4. \A s \in Space, v \in Vpn : /\ own'[p][Pte(s, v)] = own[p][Pte(s, v)]
                                    /\ own'[p][Pt(s, v)] = own[p][Pt(s, v)]
    BY <2>1, PageTables, Zenon
  <2>5. CallOK(p)' /\ PlaceOK(p)'
    BY <1>1, <1>2, <1>6, <2>1, <2>2, Zenon DEF CallOK, PlaceOK
  <2>6. MapOK(p)'
    BY <1>1, <1>2, <2>2, <2>4, SMTT(40) DEF MapOK, Exact, Space
  <2>. QED BY <1>1, <1>2, <2>1, <2>2, <2>3, <2>5, <2>6, LocalStep, Zenon DEF SlotOK, PagesOK, VInv
<1>. QED BY <1>2, <1>5, <1>6

-----------------------------------------------------------------------------
(* sbrk, exec, exit. *)

LEMMA GrowStep ==
  ASSUME VInv, NEW p \in Slot, NEW n \in 0..MaxSz, n > 0, Grow(p, n)
  PROVE  VInv' /\ Kept
<1>1. /\ state[p] = "RUNNING" /\ pc[p] = "user" /\ status = "up" /\ SlotOK(p) /\ TypeOK
      /\ PagesOK /\ call[p] = "none" /\ sz[p] + n <= MaxSz
      /\ MapOK(p) /\ CallOK(p) /\ PlaceOK(p)
  BY InvPages, Zenon DEF VInv, Grow, At, SlotOK, CallOK
<1>2. /\ call' = [call EXCEPT ![p] = "sbrk"] /\ i' = [i EXCEPT ![p] = sz[p]]
      /\ to' = [to EXCEPT ![p] = sz[p] + n] /\ pc' = [pc EXCEPT ![p] = "allocuvm"]
      /\ UNCHANGED <<free, own, state, sz, child, holes, status>>
  BY DEF Grow, Goto, table
<1>3. PagesOK' /\ Kept
  BY <1>1, <1>2, PagesSame, Zenon
<1>4. sz[p] \in 0..MaxSz /\ sz[p] \in Nat /\ n \in Nat /\ sz[p] + n \in 0..MaxSz
  BY <1>1, ConstFacts DEF TypeOK
<1>5. /\ pc'[p] = "allocuvm" /\ call'[p] = "sbrk" /\ i'[p] = sz[p] /\ to'[p] = sz[p] + n
      /\ \A q \in Slot : q # p => SameSlot(q)
  BY <1>1, <1>2 DEF TypeOK, SameSlot
<1>6. TypeOK'
  <2>1. pc' \in [Slot -> Pc]
    BY <1>1, <1>2 DEF TypeOK, Pc
  <2>. QED BY <1>1, <1>2, <1>4, <2>1, Zenon DEF TypeOK
<1>7. CallOK(p)'
  <2>1. state'[p] = "RUNNING" /\ sz'[p] = sz[p]
    BY <1>1, <1>2, Zenon
  <2>2. sz[p] <= sz[p] + n /\ sz[p] <= sz[p]
    BY <1>4
  <2>. QED BY <1>5, <2>1, <2>2, CallAlloc, Zenon
<1>8. PlaceOK(p)'
  BY <1>1, <1>2, <1>5, Zenon DEF PlaceOK
<1>9. MapOK(p)'
  BY <1>1, <1>2, <1>5, Zenon DEF MapOK, Exact
<1>. QED BY <1>1, <1>2, <1>3, <1>5, <1>6, <1>7, <1>8, <1>9, LocalStep, Zenon DEF SlotOK, PagesOK, VInv

LEMMA GrowDoneStep ==
  ASSUME VInv, NEW p \in Slot, GrowDone(p)
  PROVE  VInv' /\ Kept
<1>1. /\ state[p] = "RUNNING" /\ pc[p] = "allocuvm" /\ status = "up" /\ SlotOK(p) /\ TypeOK
      /\ PagesOK /\ call[p] = "sbrk" /\ i[p] = to[p]
      /\ MapOK(p) /\ CallOK(p) /\ PlaceOK(p)
  BY InvPages, Zenon DEF VInv, GrowDone, At, SlotOK
<1>2. sz' = [sz EXCEPT ![p] = to[p]] /\ Return(p) /\ UNCHANGED <<free, own, state, holes, status>>
  BY DEF GrowDone
<1>3. PagesOK' /\ Kept
  BY <1>1, <1>2, PagesSame, Zenon
<1>4. /\ pc'[p] = "user" /\ call'[p] = "none" /\ sz'[p] = to[p]
      /\ \A q \in Slot : q # p => SameSlot(q)
  BY <1>1, <1>2, ReturnFacts, SMTT(40) DEF SameSlot, TypeOK
<1>5. TypeOK'
  <2>1. sz' \in [Slot -> 0..MaxSz]
    BY <1>1, <1>2 DEF TypeOK
  <2>. QED BY <1>1, <1>2, <2>1, ReturnFacts, Zenon DEF TypeOK
<1>6. SlotOK(p)'
  <2>1. own'[p][Mem] = None /\ \A x \in All("new") : own'[p][x] = None
    BY <1>1, <1>2, Zenon DEF PlaceOK
  <2>2. \A s \in Space, v \in Vpn : own'[p][Pte(s, v)] # None => own'[p][Pt(s, v)] # None
    BY <1>1, <1>2, Zenon DEF MapOK
  <2>3. ~holes' => Exact(p, "cur", sz[p])'
    BY <1>1, <1>2, <1>4, Zenon DEF MapOK, Exact
  <2>. QED BY <1>4, <2>1, <2>2, <2>3, UserSlot, Zenon
<1>. QED BY <1>1, <1>2, <1>3, <1>4, <1>5, <1>6, LocalStep, Zenon DEF PagesOK, VInv

LEMMA ShrinkStep ==
  ASSUME VInv, NEW p \in Slot, NEW n \in 0..MaxSz, Shrink(p, n)
  PROVE  VInv' /\ Kept
<1>. DEFINE X == Visited(own[p], "cur", n, sz[p])
<1>1. /\ state[p] = "RUNNING" /\ pc[p] = "user" /\ status = "up" /\ SlotOK(p) /\ TypeOK
      /\ PagesOK /\ call[p] = "none" /\ n < sz[p]
      /\ MapOK(p) /\ CallOK(p) /\ PlaceOK(p)
  BY InvPages, Zenon DEF VInv, Shrink, At, SlotOK, CallOK
<1>2. /\ free' = free \cup Pages(own[p], X) /\ own' = [own EXCEPT ![p] = Without(@, X)]
      /\ sz' = IF n = 0 THEN sz ELSE [sz EXCEPT ![p] = n]
      /\ pc' = [pc EXCEPT ![p] = IF n = 0 THEN "fault" ELSE "user"]
      /\ UNCHANGED <<state, call, child, i, to, holes, status>>
  BY DEF Shrink, Goto, locals
<1>3. "cur" \in Space
  BY DEF Space
<1>4. \A x \in X : \E v \in Vpn : x = Pte("cur", v)
  <2>1. \A x \in X : \E v \in Vpn : x = Pte("cur", v) /\ n <= v /\ v < sz[p]
    BY <1>3, VisitedPlaces, Zenon
  <2>. QED BY <2>1, Zenon
<1>5. X = Visited(own[p], "cur", n, sz[p])
  OBVIOUS
<1>. HIDE DEF X
<1>6. X \subseteq Place /\ (\A y \in X : y \in X \/ y \in Leaky) /\ X \subseteq X
  BY <1>3, <1>4, PageTables
<1>7. /\ PagesOK' /\ Kept
      /\ \A y \in Place : own'[p][y] = IF y \in X THEN None ELSE own[p][y]
      /\ \A q \in Slot : q # p => own'[q] = own[q]
  BY <1>1, <1>2, <1>6, FreePages, Zenon
<1>8. sz[p] \in 0..MaxSz /\ sz[p] \in Nat /\ n \in Nat
  BY <1>1, ConstFacts DEF TypeOK
<1>9. /\ sz' \in [Slot -> 0..MaxSz] /\ sz'[p] = IF n = 0 THEN sz[p] ELSE n
      /\ \A q \in Slot : q # p => sz'[q] = sz[q]
  BY <1>1, <1>2 DEF TypeOK
<1>10. /\ pc' \in [Slot -> Pc] /\ pc'[p] = IF n = 0 THEN "fault" ELSE "user"
       /\ \A q \in Slot : q # p => pc'[q] = pc[q]
  <2>1. (IF n = 0 THEN "fault" ELSE "user") \in Pc
    BY DEF Pc
  <2>. QED BY <1>1, <1>2, <2>1, Zenon DEF TypeOK
<1>11. TypeOK' /\ \A q \in Slot : q # p => SameSlot(q)
  <2>1. TypeOK'
    BY <1>1, <1>2, <1>7, <1>9, <1>10, Zenon DEF TypeOK, PagesOK, Owns
  <2>. QED BY <1>2, <1>7, <1>9, <1>10, <2>1, Zenon DEF SameSlot
<1>12. CallOK(p)'
  BY <1>1, <1>2, <1>10, Zenon DEF CallOK
<1>13. PlaceOK(p)'
  <2>1. Mem \notin X /\ Mem \in Place
    BY <1>3, <1>4, PageTables, PlaceFacts
  <2>2. own'[p][Mem] = None
    BY <1>1, <1>7, <2>1 DEF PlaceOK
  <2>3. \A x \in All("new") : own'[p][x] = None
    <3>1. \A x \in All("new") : x \in Place /\ own[p][x] = None
      BY <1>1, PlaceFacts, Zenon DEF PlaceOK, Space
    <3>. QED BY <1>7, <3>1
  <2>. QED BY <1>10, <2>2, <2>3, Zenon DEF PlaceOK
<1>14. MapOK(p)'
  <2>1. \A s \in Space, v \in Vpn : own'[p][Pte(s, v)] # None => own'[p][Pt(s, v)] # None
    <3>1. \A s \in Space, v \in Vpn : Pt(s, v) \notin X /\ Pt(s, v) \in Place /\ Pte(s, v) \in Place
      BY <1>3, <1>4, PageTables
    <3>. QED BY <1>1, <1>7, <3>1, Zenon DEF MapOK
  <2>2. ~holes /\ n # 0 => Exact(p, "cur", sz[p])'
    <3>. SUFFICES ASSUME ~holes, n # 0 PROVE Exact(p, "cur", sz[p])'
      OBVIOUS
    <3>1. Exact(p, "cur", sz[p])
      BY <1>1, Zenon DEF MapOK
    <3>2. n <= sz[p] /\ sz[p] <= sz[p]
      BY <1>1, <1>8
    <3>0. \A y \in Place : own'[p][y] = IF y \in X THEN None ELSE own[p][y]
      BY <1>7
    <3>4. MapOK(p) /\ sz[p] \in 0..MaxSz
      BY <1>1, <1>8
    <3>3. \A v \in Vpn : own'[p][Pte("cur", v)] # None <=> v < n
      BY <1>5, <3>0, <3>1, <3>2, <3>4, Shortened, Zenon
    <3>. QED BY <1>9, <3>3, Zenon DEF Exact
  <2>. QED BY <1>1, <1>2, <1>10, <2>1, <2>2, Zenon DEF MapOK
<1>. QED BY <1>1, <1>2, <1>7, <1>11, <1>12, <1>13, <1>14, LocalStep, Zenon DEF SlotOK, PagesOK, VInv

LEMMA ExecStep ==
  ASSUME VInv, NEW p \in Slot, NEW n \in Images, Exec(p, n)
  PROVE  VInv' /\ Kept
<1>1. /\ state[p] = "RUNNING" /\ pc[p] = "user" /\ status = "up" /\ SlotOK(p) /\ TypeOK
      /\ PagesOK /\ call[p] = "none"
      /\ MapOK(p) /\ CallOK(p) /\ PlaceOK(p)
  BY InvPages, Zenon DEF VInv, Exec, At, SlotOK, CallOK
<1>2. /\ call' = [call EXCEPT ![p] = "exec"] /\ i' = [i EXCEPT ![p] = 0]
      /\ to' = [to EXCEPT ![p] = n] /\ pc' = [pc EXCEPT ![p] = "setupkvm"]
      /\ UNCHANGED <<free, own, state, sz, child, holes, status>>
  BY DEF Exec, Goto, table
<1>3. PagesOK' /\ Kept
  BY <1>1, <1>2, PagesSame
<1>4. n \in 0..MaxSz /\ n <= MaxSz - 2
  BY ConstFacts
<1>5. /\ pc'[p] = "setupkvm" /\ call'[p] = "exec" /\ i'[p] = 0 /\ to'[p] = n
      /\ \A q \in Slot : q # p => SameSlot(q)
  BY <1>1, <1>2 DEF TypeOK, SameSlot
<1>6. TypeOK'
  <2>1. pc' \in [Slot -> Pc]
    BY <1>1, <1>2 DEF TypeOK, Pc
  <2>. QED BY <1>1, <1>2, <1>4, <2>1, Zenon DEF TypeOK
<1>7. CallOK(p)'
  <2>1. state'[p] = "RUNNING" /\ 0 \in 0..2
    BY <1>1, <1>2
  <2>. QED BY <1>4, <1>5, <2>1, CallSetup, Zenon
<1>8. PlaceOK(p)'
  BY <1>1, <1>2, <1>5, PlaceFacts, Zenon DEF PlaceOK, Space
<1>9. MapOK(p)'
  BY <1>1, <1>2, <1>5, Zenon DEF MapOK, Exact
<1>. QED BY <1>1, <1>2, <1>3, <1>5, <1>6, <1>7, <1>8, <1>9, LocalStep, Zenon DEF SlotOK, PagesOK, VInv

LEMMA LoaduvmStep ==
  ASSUME VInv, NEW p \in Slot, NEW k \in 0..MaxSz, Loaduvm(p, k)
  PROVE  VInv' /\ Kept
<1>1. /\ state[p] = "RUNNING" /\ pc[p] = "allocuvm" /\ status = "up" /\ SlotOK(p) /\ TypeOK
      /\ PagesOK /\ call[p] = "exec" /\ i[p] = to[p] /\ k <= to[p]
      /\ MapOK(p) /\ CallOK(p) /\ PlaceOK(p)
  BY InvPages, Zenon DEF VInv, Loaduvm, At, SlotOK
<1>2. to[p] \in 0..MaxSz /\ MaxSz \in Nat /\ to[p] <= MaxSz - 2
  BY <1>1, ConstFacts DEF TypeOK, CallOK
<1>3. CASE \E v \in 0..k - 1 :
             /\ own[p][Pte("new", v)] = None
             /\ Stop(IF own[p][Pt("new", v)] = None THEN "panic" ELSE "undefined")
  <2>1. PICK v \in 0..k - 1 : /\ own[p][Pte("new", v)] = None
                              /\ Stop(IF own[p][Pt("new", v)] = None THEN "panic" ELSE "undefined")
    BY <1>3
  <2>2. v \in Vpn /\ v < i[p]
    BY <1>1, <1>2, ConstFacts
  <2>3. holes
    BY <1>1, <2>1, <2>2, Zenon DEF MapOK, Exact
  <2>4. Stop("panic") \/ Stop("undefined")
    BY <2>1
  <2>. QED BY <2>3, <2>4, StopStep
<1>4. CASE ~\E v \in 0..k - 1 :
             /\ own[p][Pte("new", v)] = None
             /\ Stop(IF own[p][Pt("new", v)] = None THEN "panic" ELSE "undefined")
  <2>1. /\ call' = [call EXCEPT ![p] = "stack"] /\ to' = [to EXCEPT ![p] = @ + 2]
        /\ UNCHANGED <<free, own, state, sz, pc, child, i, holes, status>>
    BY <1>4, Zenon DEF Loaduvm, table
  <2>2. PagesOK' /\ Kept
    BY <1>1, <2>1, PagesSame, Zenon
  <2>3. /\ call'[p] = "stack" /\ to'[p] = to[p] + 2 /\ \A q \in Slot : q # p => SameSlot(q)
    BY <1>1, <2>1 DEF TypeOK, SameSlot
  <2>4. TypeOK'
    <3>1. to[p] + 2 \in 0..MaxSz
      BY <1>2
    <3>. QED BY <1>1, <2>1, <3>1 DEF TypeOK
  <2>5. CallOK(p)'
    <3>1. state'[p] = "RUNNING" /\ pc'[p] = "allocuvm" /\ i'[p] = to[p]
      BY <1>1, <2>1, Zenon
    <3>2. to[p] <= to[p] + 2 /\ to[p] + 2 >= 2
      BY <1>2
    <3>. QED BY <2>3, <3>1, <3>2, CallAlloc, Zenon
  <2>6. PlaceOK(p)' /\ MapOK(p)'
    BY <1>1, <2>1, <2>3, Zenon DEF PlaceOK, MapOK, Exact
  <2>. QED BY <1>1, <2>1, <2>2, <2>3, <2>4, <2>5, <2>6, LocalStep, Zenon DEF SlotOK, PagesOK, VInv
<1>. QED BY <1>3, <1>4

LEMMA ExecBadStep ==
  ASSUME VInv, NEW p \in Slot, ExecBad(p)
  PROVE  VInv' /\ Kept
<1>1. /\ state[p] = "RUNNING" /\ pc[p] = "allocuvm" /\ status = "up" /\ SlotOK(p) /\ TypeOK
      /\ PagesOK /\ call[p] \in {"exec", "stack"}
      /\ MapOK(p) /\ CallOK(p) /\ PlaceOK(p)
  BY InvPages, Zenon DEF VInv, ExecBad, At, SlotOK
<1>2. /\ pc' = [pc EXCEPT ![p] = "bad"]
      /\ UNCHANGED <<free, own, state, sz, call, child, i, to, holes, status>>
  BY Zenon DEF ExecBad, Goto, table, locals
<1>3. PagesOK' /\ Kept
  BY <1>1, <1>2, PagesSame
<1>4. pc'[p] = "bad" /\ pc' \in [Slot -> Pc] /\ \A q \in Slot : q # p => SameSlot(q)
  BY <1>1, <1>2 DEF TypeOK, Pc, SameSlot
<1>5. TypeOK'
  BY <1>1, <1>2, <1>4, Zenon DEF TypeOK
<1>6. SlotOK(p)'
  BY <1>1, <1>2, <1>4, Zenon DEF SlotOK, CallOK, PlaceOK, MapOK, Exact
<1>. QED BY <1>1, <1>2, <1>3, <1>4, <1>5, <1>6, LocalStep, Zenon DEF PagesOK, VInv

LEMMA ExitStep ==
  ASSUME VInv, NEW p \in Slot, Exit(p)
  PROVE  VInv' /\ Kept
<1>1. /\ state[p] = "RUNNING" /\ pc[p] \in {"user", "fault"} /\ status = "up" /\ SlotOK(p) /\ TypeOK
      /\ PagesOK /\ call[p] = "none"
      /\ MapOK(p) /\ CallOK(p) /\ PlaceOK(p)
  BY InvPages, Zenon DEF VInv, Exit, At, SlotOK, CallOK
<1>2. /\ state' = [state EXCEPT ![p] = "ZOMBIE"] /\ pc' = [pc EXCEPT ![p] = "user"]
      /\ UNCHANGED <<free, own, sz, call, child, i, to, holes, status>>
  BY DEF Exit, Goto, locals
<1>3. PagesOK' /\ Kept
  BY <1>1, <1>2, PagesSame
<1>4. /\ pc'[p] = "user" /\ state'[p] = "ZOMBIE" /\ pc' \in [Slot -> Pc]
      /\ \A q \in Slot : q # p => SameSlot(q)
  BY <1>1, <1>2 DEF TypeOK, Pc, SameSlot
<1>5. TypeOK'
  BY <1>1, <1>2, <1>4, Zenon DEF TypeOK
<1>6. SlotOK(p)'
  BY <1>1, <1>2, <1>4, Zenon DEF SlotOK, CallOK, PlaceOK, MapOK
<1>. QED BY <1>1, <1>2, <1>3, <1>4, <1>5, <1>6, LocalStep, Zenon DEF PagesOK, VInv

LEMMA ExecDoneStep ==
  ASSUME VInv, NEW p \in Slot, ExecDone(p)
  PROVE  VInv' /\ Kept
<1>1. /\ state[p] = "RUNNING" /\ pc[p] = "allocuvm" /\ status = "up" /\ SlotOK(p) /\ TypeOK
      /\ PagesOK /\ call[p] = "stack" /\ i[p] = to[p]
      /\ MapOK(p) /\ CallOK(p) /\ PlaceOK(p)
  BY InvPages DEF VInv, ExecDone, At, SlotOK
<1>2. CASE ~GuardTable(p) /\ Stop("panic")
  <2>1. to[p] - 2 \in Vpn /\ to[p] - 2 < i[p]
    BY <1>1, ConstFacts DEF TypeOK, CallOK
  <2>2. holes
    BY <1>1, <1>2, <2>1, Zenon DEF GuardTable, MapOK, Exact, Space
  <2>. QED BY <1>2, <2>2, StopStep
<1>3. CASE Stop("undefined")
  BY <1>3, StopStep
<1>4. CASE ~(~GuardTable(p) /\ Stop("panic")) /\ ~Stop("undefined")
  <2>. DEFINE o == [x \in Place |-> IF x \in All("cur") THEN own[p][New(x)]
                                    ELSE IF x \in All("new") THEN None ELSE own[p][x]]
  <2>1. /\ free' = free \cup Pages(own[p], Freed("cur")) /\ own' = [own EXCEPT ![p] = o]
        /\ sz' = [sz EXCEPT ![p] = to[p]] /\ Return(p) /\ UNCHANGED <<state, holes, status>>
    BY <1>4 DEF ExecDone, New
  <2>2. \A x \in All("cur") : New(x) \in All("new") /\ New(x) \in Place /\ x \in Place
    BY NewFacts, PlaceFacts DEF Space
  <2>3. o \in [Place -> Page \cup {None}]
    <3>1. own[p] \in [Place -> Page \cup {None}]
      BY <1>1 DEF TypeOK
    <3>. QED BY <2>2, <3>1
  <2>4. \A y \in Place : o[y] = IF y \in All("cur") THEN own[p][New(y)]
                                ELSE IF y \in All("new") THEN None ELSE own[p][y]
    OBVIOUS
  <2>. HIDE DEF o
  <2>5. /\ own' \in Owns
        /\ \A q \in Slot, y \in Place : own'[q][y] = IF q = p THEN o[y] ELSE own[q][y]
    BY <1>1, <2>1, <2>3, OwnOf, Zenon
  <2>6. \A q \in Slot, y \in Place :
           own'[q][y] = IF q = p /\ y \in All("cur") THEN own[p][New(y)]
                        ELSE IF q = p /\ y \in All("new") THEN None ELSE own[q][y]
    BY <2>4, <2>5, Zenon
  <2>7. PagesOK' /\ Kept
    BY <1>1, <2>1, <2>5, <2>6, SpaceMoved, Zenon
  <2>8. /\ pc'[p] = "user" /\ call'[p] = "none" /\ sz'[p] = to[p]
        /\ \A q \in Slot : q # p => SameSlot(q)
    <3>1. \A q \in Slot : q # p => own'[q] = own[q]
      BY <1>1, <2>1 DEF TypeOK
    <3>2. /\ pc'[p] = "user" /\ call'[p] = "none"
          /\ \A q \in Slot : q # p => /\ pc'[q] = pc[q] /\ call'[q] = call[q] /\ child'[q] = child[q]
                                      /\ i'[q] = i[q] /\ to'[q] = to[q]
      BY <1>1, <2>1, ReturnFacts, Zenon
    <3>3. sz'[p] = to[p] /\ state' = state /\ \A q \in Slot : q # p => sz'[q] = sz[q]
      BY <1>1, <2>1 DEF TypeOK
    <3>. QED BY <3>1, <3>2, <3>3, Zenon DEF SameSlot
  <2>9. TypeOK'
    <3>1. sz' \in [Slot -> 0..MaxSz]
      BY <1>1, <2>1 DEF TypeOK
    <3>. QED BY <1>1, <2>1, <2>7, <3>1, ReturnFacts, Zenon DEF TypeOK, PagesOK, Owns
  <2>10. SlotOK(p)'
    <3>1. own'[p][Mem] = None /\ \A x \in All("new") : own'[p][x] = None
      <4>1. Mem \in Place /\ Mem \notin All("cur") /\ Mem \notin All("new")
            /\ \A x \in All("new") : x \in Place /\ x \notin All("cur")
        BY PlaceFacts DEF Space
      <4>2. own[p][Mem] = None
        BY <1>1 DEF PlaceOK
      <4>. QED BY <2>6, <4>1, <4>2, Zenon
    <3>2. \A v \in Vpn : /\ own'[p][Pte("cur", v)] = own[p][Pte("new", v)]
                         /\ own'[p][Pt("cur", v)] = own[p][Pt("new", v)]
                         /\ own'[p][Pte("new", v)] = None
      <4>1. \A v \in Vpn : /\ Pte("cur", v) \in All("cur") /\ Pt("cur", v) \in All("cur")
                           /\ Pte("new", v) \in All("new")
                           /\ Pte("cur", v) \in Place /\ Pt("cur", v) \in Place
        BY PageTables, PlaceFacts DEF Space
      <4>. QED BY <2>6, <3>1, <4>1, NewFacts, Zenon
    <3>3. \A s \in Space, v \in Vpn : own'[p][Pte(s, v)] # None => own'[p][Pt(s, v)] # None
      BY <1>1, <3>2, Zenon DEF MapOK, Space
    <3>4. ~holes' => Exact(p, "cur", sz[p])'
      BY <1>1, <2>1, <2>8, <3>2, Zenon DEF MapOK, Exact
    <3>. QED BY <2>8, <3>1, <3>3, <3>4, UserSlot, Zenon
  <2>. QED BY <1>1, <2>1, <2>7, <2>8, <2>9, <2>10, LocalStep, Zenon DEF PagesOK, VInv
<1>. QED BY <1>2, <1>3, <1>4

-----------------------------------------------------------------------------
(* fork and wait, which work on two slots. *)

\* A slot not in use is in no call, and fork gives it nothing but a kernel stack.
LEMMA IdleSlot ==
  ASSUME VInv, NEW c \in Slot, state[c] # "RUNNING"
  PROVE  /\ pc[c] = "user" /\ call[c] = "none" /\ own[c][Mem] = None
         /\ \A x \in All("new") : own[c][x] = None
BY Zenon DEF VInv, SlotOK, CallOK, PlaceOK

LEMMA ForkStep ==
  ASSUME VInv, NEW p \in Slot, NEW c \in Slot, Fork(p, c)
  PROVE  VInv' /\ Kept
<1>1. /\ state[p] = "RUNNING" /\ pc[p] = "user" /\ status = "up" /\ SlotOK(p) /\ TypeOK
      /\ PagesOK /\ call[p] = "none" /\ state[c] = "UNUSED" /\ c # p
      /\ MapOK(p) /\ CallOK(p) /\ PlaceOK(p)
  BY InvPages, Zenon DEF VInv, Fork, At, SlotOK, CallOK
<1>2. /\ Kalloc(c, Kstack) /\ state' = [state EXCEPT ![c] = "EMBRYO"]
      /\ call' = [call EXCEPT ![p] = "fork"] /\ child' = [child EXCEPT ![p] = c]
      /\ i' = [i EXCEPT ![p] = 0] /\ pc' = [pc EXCEPT ![p] = "setupkvm"]
      /\ UNCHANGED <<sz, to, holes, status>>
  BY DEF Fork, Goto
<1>3. \A x \in Place : own[c][x] = None
  BY <1>1, Zenon DEF VInv, SlotInv
<1>4. /\ PagesOK' /\ Kept /\ Top # None
      /\ \A q \in Slot, y \in Place : own'[q][y] = IF q = c /\ y = Kstack THEN Top ELSE own[q][y]
      /\ \A q \in Slot : q # c => own'[q] = own[q]
  <2>1. PagesOK /\ own[c][Kstack] = None /\ Kstack \in Place /\ Kalloc(c, Kstack)
    BY <1>1, <1>2, <1>3, PlaceFacts
  <2>. QED BY <2>1, KallocStep
<1>5. own'[c][Kstack] # None /\ \A x \in Place : x # Kstack => own'[c][x] = None
  BY <1>3, <1>4, PlaceFacts, Zenon
<1>6. /\ pc'[p] = "setupkvm" /\ call'[p] = "fork" /\ child'[p] = c /\ i'[p] = 0
      /\ state'[p] = "RUNNING" /\ own'[p] = own[p]
      /\ state'[c] = "EMBRYO" /\ pc'[c] = "user" /\ call'[c] = "none"
      /\ \A q \in Slot : q # p /\ q # c => SameSlot(q)
      /\ \A q \in Slot : q # p => call'[q] = call[q] /\ child'[q] = child[q]
      /\ \A q \in Slot : q # c => state'[q] = state[q]
  <2>1. pc[c] = "user" /\ call[c] = "none"
    BY <1>1, IdleSlot
  <2>2. /\ state \in [Slot -> {"UNUSED", "EMBRYO", "RUNNING", "ZOMBIE"}] /\ pc \in [Slot -> Pc]
        /\ call \in [Slot -> {"none", "fork", "sbrk", "exec", "stack"}]
        /\ child \in [Slot -> Slot] /\ i \in [Slot -> Nat]
    BY <1>1 DEF TypeOK
  <2>3. /\ state'[c] = "EMBRYO" /\ \A q \in Slot : q # c => state'[q] = state[q]
        /\ pc'[p] = "setupkvm" /\ \A q \in Slot : q # p => pc'[q] = pc[q]
    BY <1>2, <2>2
  <2>4. /\ call'[p] = "fork" /\ \A q \in Slot : q # p => call'[q] = call[q]
        /\ child'[p] = c /\ \A q \in Slot : q # p => child'[q] = child[q]
        /\ i'[p] = 0 /\ \A q \in Slot : q # p => i'[q] = i[q]
    BY <1>2, <2>2
  <2>5. sz' = sz /\ to' = to
    BY <1>2
  <2>6. \A q \in Slot : q # p /\ q # c => SameSlot(q)
    BY <1>4, <2>3, <2>4, <2>5, Zenon DEF SameSlot
  <2>. QED BY <1>1, <1>4, <2>1, <2>3, <2>4, <2>6, Zenon
<1>7. TypeOK'
  <2>1. pc' \in [Slot -> Pc]
    BY <1>1, <1>2 DEF TypeOK, Pc
  <2>. QED BY <1>1, <1>2, <1>4, <2>1, Zenon DEF TypeOK, PagesOK, Owns
<1>8. SlotInv'
  <2>0. /\ \A q \in Slot : state[q] = "UNUSED" => \A x \in Place : own[q][x] = None
        /\ \A q \in Slot : state[q] = "EMBRYO" =>
             own[q][Kstack] # None /\ \A x \in Place : x # Kstack => own[q][x] = None
        /\ \A q, r \in Slot : call[q] = "fork" /\ call[r] = "fork" /\ child[q] = child[r] => q = r
    BY Zenon DEF VInv, SlotInv
  <2>1. ASSUME NEW q \in Slot, state'[q] = "UNUSED" PROVE \A x \in Place : own'[q][x] = None
    <3>1. q # c
      BY <1>6, <2>1, Zenon
    <3>2. state[q] = "UNUSED" /\ own'[q] = own[q]
      BY <1>4, <1>6, <2>1, <3>1, Zenon
    <3>. QED BY <2>0, <3>2, Zenon
  <2>2. ASSUME NEW q \in Slot, state'[q] = "EMBRYO"
        PROVE  own'[q][Kstack] # None /\ \A x \in Place : x # Kstack => own'[q][x] = None
    <3>1. CASE q = c
      BY <1>5, <3>1, Zenon
    <3>2. CASE q # c
      <4>1. state[q] = "EMBRYO" /\ own'[q] = own[q]
        BY <1>4, <1>6, <2>2, <3>2, Zenon
      <4>. QED BY <2>0, <4>1, Zenon
    <3>. QED BY <3>1, <3>2, Zenon
  <2>3. ASSUME NEW q \in Slot, q # p, call'[q] = "fork"
        PROVE  call[q] = "fork" /\ child'[q] = child[q] /\ child[q] \in Slot /\ child[q] # c
               /\ state[child[q]] = "EMBRYO"
    BY <1>1, <1>6, <2>3, Zenon DEF VInv, SlotInv, TypeOK
  <2>4. ASSUME NEW q \in Slot, call'[q] = "fork" PROVE state'[child'[q]] = "EMBRYO"
    <3>1. CASE q = p
      BY <1>6, <3>1, Zenon
    <3>2. CASE q # p
      <4>1. PICK d \in Slot : d = child[q] /\ d # c /\ child'[q] = d /\ state[d] = "EMBRYO"
        BY <2>3, <2>4, <3>2, Zenon
      <4>2. state'[d] = "EMBRYO"
        BY <1>6, <4>1, Zenon
      <4>. QED BY <4>1, <4>2, Zenon
    <3>. QED BY <3>1, <3>2
  <2>5. ASSUME NEW q \in Slot, NEW r \in Slot, call'[q] = "fork", call'[r] = "fork",
               child'[q] = child'[r]
        PROVE  q = r
    <3>1. \A d \in Slot : d # p /\ call'[d] = "fork" =>
            call[d] = "fork" /\ child'[d] = child[d] /\ child'[d] # c
      BY <2>3, Zenon
    <3>2. q = p <=> r = p
      BY <1>6, <2>5, <3>1, Zenon
    <3>3. CASE q # p /\ r # p
      <4>1. call[q] = "fork" /\ call[r] = "fork" /\ child[q] = child[r]
        BY <2>5, <3>1, <3>3, Zenon
      <4>. QED BY <2>0, <4>1, Zenon
    <3>. QED BY <3>2, <3>3, Zenon
  <2>. QED BY <2>1, <2>2, <2>4, <2>5 DEF SlotInv
<1>9. SlotOK(p)'
  <2>1. CallOK(p)'
    <3>1. call'[p] \in {"fork", "exec"} /\ call'[p] # "exec"
      BY <1>6, Zenon
    <3>0. i'[p] = 0
      BY <1>6, Zenon
    <3>2. i'[p] \in 0..2
      BY <3>0
    <3>. QED BY <1>6, <3>1, <3>2, CallSetup, Zenon
  <2>2. PlaceOK(p)'
    BY <1>1, <1>6, PlaceFacts, Zenon DEF PlaceOK, Space
  <2>3. MapOK(p)'
    <3>1. own'[p] = own[p] /\ sz' = sz /\ holes' = holes
      BY <1>2, <1>6, Zenon
    <3>. QED BY <1>1, <1>6, <3>1, MapKept, Zenon
  <2>. QED BY <2>1, <2>2, <2>3 DEF SlotOK
<1>10. SlotOK(c)'
  <2>1. own'[c][Mem] = None /\ \A x \in All("new") : own'[c][x] = None
    BY <1>5, PlaceFacts DEF Space
  <2>2. \A s \in Space, v \in Vpn : own'[c][Pte(s, v)] = None
    BY <1>5, PageTables
  <2>. QED BY <1>6, <2>1, <2>2, UserSlot, Zenon
<1>11. ASSUME NEW q \in Slot PROVE SlotOK(q)'
  BY <1>2, <1>6, <1>9, <1>10, Other, Zenon DEF VInv
<1>. QED BY <1>1, <1>2, <1>4, <1>7, <1>8, <1>11 DEF VInv, PagesOK

\* p has finished with slot c, which nobody else fills.
DoneWith(p, c) ==
  /\ state[p] = "RUNNING" /\ c # p /\ call'[p] # "fork"
  /\ \A q \in Slot : q # c => state'[q] = state[q]
  /\ \A q \in Slot : q # p => call'[q] = call[q] /\ child'[q] = child[q]
  /\ \A q \in Slot : q # p /\ q # c => own'[q] = own[q]
  /\ \A q \in Slot : q # p /\ call[q] = "fork" => child[q] # c
  /\ state'[c] \in {"UNUSED", "RUNNING"}
  /\ state'[c] = "UNUSED" => \A x \in Place : own'[c][x] = None

LEMMA SlotDone ==
  ASSUME VInv, NEW p \in Slot, NEW c \in Slot, DoneWith(p, c)
  PROVE  SlotInv'
<1>. USE DEF DoneWith
<1>0. /\ \A q \in Slot : state[q] = "UNUSED" => \A x \in Place : own[q][x] = None
      /\ \A q \in Slot : state[q] = "EMBRYO" =>
           own[q][Kstack] # None /\ \A x \in Place : x # Kstack => own[q][x] = None
      /\ \A q, r \in Slot : call[q] = "fork" /\ call[r] = "fork" /\ child[q] = child[r] => q = r
  BY Zenon DEF VInv, SlotInv
<1>1. ASSUME NEW q \in Slot, state'[q] = "UNUSED" PROVE \A x \in Place : own'[q][x] = None
  <2>1. CASE q = c
    BY <1>1, <2>1, Zenon
  <2>2. CASE q # c
    <3>1. state[q] = "UNUSED" /\ q # p
      BY <1>1, <2>2, Zenon
    <3>2. own'[q] = own[q]
      BY <2>2, <3>1, Zenon
    <3>3. \A x \in Place : own[q][x] = None
      BY <1>0, <3>1, Zenon
    <3>. QED BY <3>2, <3>3, Zenon
  <2>. QED BY <2>1, <2>2, Zenon
<1>2. ASSUME NEW q \in Slot, state'[q] = "EMBRYO"
      PROVE  own'[q][Kstack] # None /\ \A x \in Place : x # Kstack => own'[q][x] = None
  <2>1. q # c
    BY <1>2, Zenon
  <2>2. state[q] = "EMBRYO" /\ q # p
    BY <1>2, <2>1, Zenon
  <2>3. own'[q] = own[q]
    BY <2>1, <2>2, Zenon
  <2>4. own[q][Kstack] # None /\ \A x \in Place : x # Kstack => own[q][x] = None
    BY <1>0, <2>2, Zenon
  <2>. QED BY <2>3, <2>4, Zenon
<1>3. ASSUME NEW q \in Slot, call'[q] = "fork"
      PROVE  /\ call[q] = "fork" /\ child'[q] = child[q] /\ child[q] \in Slot /\ child[q] # c
             /\ state[child[q]] = "EMBRYO"
  BY <1>3, Zenon DEF VInv, SlotInv, TypeOK
<1>4. ASSUME NEW q \in Slot, call'[q] = "fork" PROVE state'[child'[q]] = "EMBRYO"
  <2>1. PICK d \in Slot : d = child[q] /\ d # c /\ child'[q] = d /\ state[d] = "EMBRYO"
    BY <1>3, <1>4, Zenon
  <2>2. state'[d] = "EMBRYO"
    BY <2>1, Zenon
  <2>. QED BY <2>1, <2>2, Zenon
<1>5. ASSUME NEW q \in Slot, NEW r \in Slot, call'[q] = "fork", call'[r] = "fork",
             child'[q] = child'[r]
      PROVE  q = r
  <2>1. call[q] = "fork" /\ child'[q] = child[q]
    BY <1>3, <1>5, Zenon
  <2>2. call[r] = "fork" /\ child'[r] = child[r]
    BY <1>3, <1>5, Zenon
  <2>3. child[q] = child[r]
    BY <1>5, <2>1, <2>2, Zenon
  <2>. QED BY <1>0, <2>1, <2>2, <2>3, Zenon
<1>. QED BY <1>1, <1>2, <1>4, <1>5, Zenon DEF SlotInv

LEMMA ForkDoneStep ==
  ASSUME VInv, NEW p \in Slot, ForkDone(p)
  PROVE  VInv' /\ Kept
<1>0. PICK c \in Slot : c = child[p]
  BY DEF VInv, TypeOK
<1>. DEFINE o == [x \in Place |-> IF x \in All("cur") THEN own[p][New(x)] ELSE own[c][x]]
            w == Without(own[p], All("new"))
<1>1. /\ state[p] = "RUNNING" /\ pc[p] = "copyuvm" /\ status = "up" /\ SlotOK(p) /\ TypeOK
      /\ PagesOK /\ call[p] = "fork" /\ i[p] = sz[p]
      /\ MapOK(p) /\ CallOK(p) /\ PlaceOK(p)
  BY InvPages, Zenon DEF VInv, ForkDone, At, SlotOK, CallOK
<1>2. /\ c \in Slot /\ c # p /\ state[c] = "EMBRYO"
      /\ \A x \in Place : x # Kstack => own[c][x] = None
      /\ \A q \in Slot : q # p /\ call[q] = "fork" => child[q] # c
  BY <1>0, <1>1, Zenon DEF VInv, SlotInv, TypeOK
<1>3. /\ own' = [own EXCEPT ![p] = w, ![c] = o]
      /\ state' = [state EXCEPT ![c] = "RUNNING"] /\ sz' = [sz EXCEPT ![c] = sz[p]]
      /\ Return(p) /\ UNCHANGED <<free, holes, status>>
  BY <1>0, <1>1, <1>2 DEF ForkDone, New, TypeOK
<1>4. \A x \in All("cur") : New(x) \in All("new") /\ New(x) \in Place /\ x \in Place /\ x # Kstack
  BY NewFacts, PlaceFacts DEF Space
<1>5. o \in [Place -> Page \cup {None}] /\ w \in [Place -> Page \cup {None}]
  <2>1. own[p] \in [Place -> Page \cup {None}] /\ own[c] \in [Place -> Page \cup {None}]
    BY <1>1, <1>2 DEF TypeOK
  <2>. QED BY <1>4, <2>1 DEF Without
<1>6. /\ \A y \in Place : o[y] = IF y \in All("cur") THEN own[p][New(y)] ELSE own[c][y]
      /\ \A y \in Place : w[y] = IF y \in All("new") THEN None ELSE own[p][y]
  BY DEF Without
<1>. HIDE DEF o, w
<1>7. /\ own' \in Owns /\ own'[p] = w /\ own'[c] = o
      /\ \A q \in Slot : q # p /\ q # c => own'[q] = own[q]
  BY <1>1, <1>2, <1>3, <1>5 DEF TypeOK, Owns
<1>8. ASSUME NEW q \in Slot, NEW y \in Place
      PROVE  own'[q][y] = IF q = c /\ y \in All("cur") THEN own[p][New(y)]
                          ELSE IF q = p /\ y \in All("new") THEN None ELSE own[q][y]
  BY <1>2, <1>6, <1>7, Zenon
<1>9. free' = free \cup Pages(own[c], Freed("cur"))
  <2>1. \A x \in Freed("cur") : own[c][x] = None
    BY <1>2, <1>4, PlaceFacts, Zenon DEF Space
  <2>2. Pages(own[c], Freed("cur")) = {}
    BY <2>1 DEF Pages
  <2>. QED BY <1>3, <2>2
<1>10. PagesOK' /\ Kept
  BY <1>1, <1>2, <1>7, <1>8, <1>9, SpaceMoved, Zenon
<1>11. /\ pc'[p] = "user" /\ call'[p] = "none" /\ sz'[p] = sz[p] /\ state'[p] = "RUNNING"
       /\ pc'[c] = "user" /\ call'[c] = "none" /\ sz'[c] = sz[p] /\ state'[c] = "RUNNING"
       /\ \A q \in Slot : q # p /\ q # c => SameSlot(q)
       /\ \A q \in Slot : q # p => call'[q] = call[q] /\ child'[q] = child[q]
       /\ \A q \in Slot : q # c => state'[q] = state[q]
  <2>1. /\ sz'[p] = sz[p] /\ sz'[c] = sz[p] /\ state'[p] = "RUNNING" /\ state'[c] = "RUNNING"
        /\ \A q \in Slot : q # c => state'[q] = state[q] /\ sz'[q] = sz[q]
    BY <1>1, <1>2, <1>3 DEF TypeOK
  <2>2. pc[c] = "user" /\ call[c] = "none"
    BY <1>2, IdleSlot
  <2>3. /\ pc'[p] = "user" /\ call'[p] = "none"
        /\ \A q \in Slot : q # p => /\ pc'[q] = pc[q] /\ call'[q] = call[q] /\ child'[q] = child[q]
                                    /\ i'[q] = i[q] /\ to'[q] = to[q]
    BY <1>1, <1>3, ReturnFacts
  <2>4. \A q \in Slot : q # p /\ q # c => SameSlot(q)
    BY <1>7, <2>1, <2>3, Zenon DEF SameSlot
  <2>. QED BY <1>2, <2>1, <2>2, <2>3, <2>4, Zenon
<1>12. TypeOK'
  <2>1. sz' \in [Slot -> 0..MaxSz] /\ state' \in [Slot -> {"UNUSED", "EMBRYO", "RUNNING", "ZOMBIE"}]
    BY <1>1, <1>2, <1>3 DEF TypeOK
  <2>. QED BY <1>1, <1>3, <1>10, <2>1, ReturnFacts, Zenon DEF TypeOK, PagesOK, Owns
<1>13. SlotInv'
  <2>1. DoneWith(p, c)
    BY <1>1, <1>2, <1>7, <1>11, Zenon DEF DoneWith
  <2>. QED BY <2>1, SlotDone, Zenon
<1>14. \A v \in Vpn : /\ own'[c][Pte("cur", v)] = own[p][Pte("new", v)]
                      /\ own'[c][Pt("cur", v)] = own[p][Pt("new", v)]
                      /\ own'[c][Pte("new", v)] = None
                      /\ own'[p][Pte("new", v)] = None
                      /\ own'[p][Pte("cur", v)] = own[p][Pte("cur", v)]
                      /\ own'[p][Pt("cur", v)] = own[p][Pt("cur", v)]
  <2>1. \A v \in Vpn : /\ Pte("cur", v) \in All("cur") /\ Pt("cur", v) \in All("cur")
                       /\ Pte("new", v) \in All("new") /\ Pte("new", v) \notin All("cur")
                       /\ Pte("cur", v) \notin All("new") /\ Pt("cur", v) \notin All("new")
                       /\ Pte("cur", v) \in Place /\ Pt("cur", v) \in Place /\ Pte("new", v) \in Place
                       /\ Pte("new", v) # Kstack
    BY PageTables, PlaceFacts, Zenon DEF Space
  <2>2. \A v \in Vpn : New(Pte("cur", v)) = Pte("new", v) /\ New(Pt("cur", v)) = Pt("new", v)
    BY NewFacts, Zenon
  <2>. QED BY <1>2, <1>6, <1>7, <2>1, <2>2, ZenonT(40)
<1>15. SlotOK(p)'
  <2>1. own'[p][Mem] = None /\ \A x \in All("new") : own'[p][x] = None
    <3>1. Mem \in Place /\ Mem \notin All("new") /\ \A x \in All("new") : x \in Place
      BY PlaceFacts DEF Space
    <3>. QED BY <1>1, <1>6, <1>7, <3>1, Zenon DEF PlaceOK
  <2>2. \A s \in Space, v \in Vpn : own'[p][Pte(s, v)] # None => own'[p][Pt(s, v)] # None
    BY <1>1, <1>14, Zenon DEF MapOK, Space
  <2>3. ~holes' => Exact(p, "cur", sz[p])'
    <3>1. ~holes => Exact(p, "cur", sz[p])
      BY <1>1, Zenon DEF MapOK
    <3>. QED BY <1>3, <1>11, <1>14, <3>1, Zenon DEF Exact
  <2>. QED BY <1>11, <2>1, <2>2, <2>3, UserSlot, Zenon
<1>16. SlotOK(c)'
  <2>1. own'[c][Mem] = None /\ \A x \in All("new") : own'[c][x] = None
    <3>1. /\ Mem \in Place /\ Mem \notin All("cur") /\ Mem # Kstack
          /\ \A x \in All("new") : x \in Place /\ x \notin All("cur") /\ x # Kstack
      BY PlaceFacts DEF Space
    <3>. QED BY <1>2, <1>6, <1>7, <3>1, Zenon
  <2>2. \A s \in Space, v \in Vpn : own'[c][Pte(s, v)] # None => own'[c][Pt(s, v)] # None
    BY <1>1, <1>14, Zenon DEF MapOK, Space
  <2>3. ~holes' => Exact(c, "cur", sz[c])'
    <3>1. ~holes => Exact(p, "new", sz[p])
      BY <1>1, Zenon DEF MapOK
    <3>2. ~holes => \A v \in Vpn : own'[c][Pte("cur", v)] # None <=> v < sz'[c]
      BY <1>11, <1>14, <3>1, Zenon DEF Exact
    <3>. QED BY <1>3, <3>2, Zenon DEF Exact
  <2>. QED BY <1>2, <1>11, <2>1, <2>2, <2>3, UserSlot, Zenon
<1>17. ASSUME NEW q \in Slot PROVE SlotOK(q)'
  BY <1>3, <1>11, <1>15, <1>16, Other DEF VInv
<1>. QED BY <1>1, <1>3, <1>10, <1>12, <1>13, <1>17 DEF VInv, PagesOK

LEMMA WaitStep ==
  ASSUME VInv, NEW p \in Slot, NEW c \in Slot, Wait(p, c)
  PROVE  VInv' /\ Kept
<1>. DEFINE X == Freed("cur") \cup {Kstack}
            Y == All("cur") \cup {Kstack}
<1>1. /\ state[p] = "RUNNING" /\ pc[p] = "user" /\ status = "up" /\ TypeOK
      /\ PagesOK /\ call[p] = "none" /\ state[c] = "ZOMBIE" /\ c # p /\ SlotOK(c)
  BY InvPages, Zenon DEF VInv, Wait, At, SlotOK, CallOK
<1>2. /\ free' = free \cup Pages(own[c], X) /\ own' = [own EXCEPT ![c] = Without(@, Y)]
      /\ state' = [state EXCEPT ![c] = "UNUSED"]
      /\ UNCHANGED <<sz, pc, call, child, i, to, holes, status>>
  BY DEF Wait, locals
<1>3. /\ X \subseteq Y /\ Y \subseteq Place /\ \A y \in Y : y \in X \/ y \in Leaky
  BY PlaceFacts DEF Space
<1>4. \A y \in Place : y \in Y \/ own[c][y] = None
  BY <1>1, IdleSlot, PlaceFacts, Zenon
<1>. HIDE DEF X, Y
<1>5. /\ PagesOK' /\ Kept
      /\ \A y \in Place : own'[c][y] = IF y \in Y THEN None ELSE own[c][y]
      /\ \A q \in Slot : q # c => own'[q] = own[q]
  BY <1>1, <1>2, <1>3, FreePages, Zenon
<1>6. \A y \in Place : own'[c][y] = None
  BY <1>4, <1>5, Zenon
<1>7. /\ state'[c] = "UNUSED" /\ \A q \in Slot : q # c => state'[q] = state[q] /\ SameSlot(q)
  BY <1>1, <1>2, <1>5, Zenon DEF TypeOK, SameSlot
<1>8. TypeOK'
  BY <1>1, <1>2, <1>5, Zenon DEF TypeOK, PagesOK, Owns
<1>9. SlotInv'
  <2>1. \A q \in Slot : q # p /\ call[q] = "fork" => child[q] # c
    BY <1>1, Zenon DEF VInv, SlotInv
  <2>2. /\ call'[p] # "fork"
        /\ \A q \in Slot : q # p => call'[q] = call[q] /\ child'[q] = child[q]
    BY <1>1, <1>2, Zenon
  <2>3. /\ state'[c] \in {"UNUSED", "RUNNING"} /\ \A q \in Slot : q # c => state'[q] = state[q]
        /\ \A q \in Slot : q # p /\ q # c => own'[q] = own[q]
    BY <1>5, <1>7, Zenon
  <2>4. state[p] = "RUNNING" /\ c # p
    BY <1>1, Zenon
  <2>5. state'[c] = "UNUSED" => \A x \in Place : own'[c][x] = None
    BY <1>6, Zenon
  <2>6. DoneWith(p, c)
    BY <2>1, <2>2, <2>3, <2>4, <2>5, Zenon DEF DoneWith
  <2>. QED BY <2>6, SlotDone, Zenon
<1>10. SlotOK(c)'
  <2>1. own'[c][Mem] = None /\ \A x \in All("new") : own'[c][x] = None
    BY <1>6, PlaceFacts DEF Space
  <2>2. \A s \in Space, v \in Vpn : own'[c][Pte(s, v)] = None
    BY <1>6, PageTables
  <2>. QED BY <1>1, <1>2, <1>7, <2>1, <2>2, IdleSlot, UserSlot, Zenon
<1>11. ASSUME NEW q \in Slot PROVE SlotOK(q)'
  BY <1>2, <1>7, <1>10, Other DEF VInv
<1>. QED BY <1>1, <1>2, <1>5, <1>8, <1>9, <1>11, Zenon DEF VInv, PagesOK

LEMMA BadStep ==
  ASSUME VInv, NEW p \in Slot, Bad(p)
  PROVE  VInv' /\ Kept
<1>0. PICK c \in Slot : c = child[p]
  BY DEF VInv, TypeOK
<1>. DEFINE fork == call[p] = "fork"
            B == Pages(own[p], Freed("new")) \cup (IF fork THEN {own[c][Kstack]} ELSE {})
            w == Without(own[p], All("new"))
            e == Without(own[c], {Kstack})
<1>1. /\ state[p] = "RUNNING" /\ pc[p] = "bad" /\ status = "up" /\ SlotOK(p) /\ TypeOK
      /\ PagesOK /\ call[p] # "sbrk"
      /\ MapOK(p) /\ CallOK(p) /\ PlaceOK(p)
  BY InvPages, Zenon DEF VInv, Bad, At, SlotOK, CallOK
<1>2. fork => /\ c # p /\ state[c] = "EMBRYO" /\ own[c][Kstack] # None
              /\ \A x \in Place : x # Kstack => own[c][x] = None
              /\ \A q \in Slot : q # p /\ call[q] = "fork" => child[q] # c
  BY <1>0, <1>1, Zenon DEF VInv, SlotInv
<1>3. /\ free' = free \cup B
      /\ own' = [q \in Slot |-> IF q = p THEN w ELSE IF fork /\ q = c THEN e ELSE own[q]]
      /\ state' = IF fork THEN [state EXCEPT ![c] = "UNUSED"] ELSE state
      /\ Return(p) /\ UNCHANGED <<sz, holes, status>>
  BY <1>0, Zenon DEF Bad
<1>4. /\ \A y \in Place : w[y] = IF y \in All("new") THEN None ELSE own[p][y]
      /\ \A y \in Place : e[y] = IF y = Kstack THEN None ELSE own[c][y]
  BY DEF Without
<1>5. e \in [Place -> Page \cup {None}] /\ w \in [Place -> Page \cup {None}]
  <2>1. own[p] \in [Place -> Page \cup {None}] /\ own[c] \in [Place -> Page \cup {None}]
    BY <1>1 DEF TypeOK
  <2>. QED BY <2>1 DEF Without
<1>6. /\ \A g \in B : \/ g # None /\ \E x \in Freed("new") : own[p][x] = g
                      \/ fork /\ g = own[c][Kstack]
      /\ \A x \in Freed("new") : own[p][x] # None => own[p][x] \in B
      /\ fork => own[c][Kstack] \in B
  BY DEF Pages
<1>. HIDE DEF B, w, e
<1>7. /\ own' \in Owns /\ own'[p] = w /\ (fork => own'[c] = e)
      /\ \A q \in Slot : q # p /\ ~(fork /\ q = c) => own'[q] = own[q]
  <2>1. own \in [Slot -> [Place -> Page \cup {None}]]
    BY <1>1 DEF TypeOK
  <2>2. own' \in Owns
    BY <1>3, <1>5, <2>1 DEF Owns
  <2>. QED BY <1>2, <1>3, <2>2, Zenon
<1>8. PagesOK' /\ Kept
  <2>1. ASSUME NEW q \in Slot, NEW y \in Place
        PROVE  \/ own'[q][y] = own[q][y]
               \/ own'[q][y] = None /\ (own[q][y] \in B \/ own[q][y] = None \/ y \in Leaky)
    <3>1. CASE q = p
      <4>1. y \in All("new") => y \in Freed("new") \/ y \in Leaky
        BY PlaceFacts DEF Space
      <4>. QED BY <1>4, <1>6, <1>7, <3>1, <4>1, Zenon
    <3>2. CASE fork /\ q = c /\ q # p
      BY <1>4, <1>6, <1>7, <3>2, Zenon
    <3>3. CASE q # p /\ ~(fork /\ q = c)
      BY <1>7, <3>3, Zenon
    <3>. QED BY <3>1, <3>2, <3>3, Zenon
  <2>2. ASSUME NEW g \in B
        PROVE  \E q \in Slot, y \in Place : own[q][y] = g /\ g # None /\ own'[q][y] = None
    <3>1. CASE fork /\ g = own[c][Kstack]
      <4>1. own'[c][Kstack] = None /\ g # None /\ Kstack \in Place
        BY <1>2, <1>4, <1>7, <3>1, PlaceFacts, Zenon
      <4>. QED BY <3>1, <4>1
    <3>2. CASE g # None /\ \E x \in Freed("new") : own[p][x] = g
      <4>1. PICK x \in Freed("new") : own[p][x] = g
        BY <3>2
      <4>2. x \in Place /\ x \in All("new")
        BY PlaceFacts DEF Space
      <4>3. own'[p][x] = None
        BY <1>4, <1>7, <4>2, Zenon
      <4>. QED BY <3>2, <4>1, <4>2, <4>3, Zenon
    <3>. QED BY <1>6, <3>1, <3>2
  <2>. QED BY <1>1, <1>3, <1>7, <2>1, <2>2, PagesFreed, Zenon
<1>9. /\ pc'[p] = "user" /\ call'[p] = "none" /\ sz'[p] = sz[p] /\ state'[p] = "RUNNING"
      /\ \A q \in Slot : q # p /\ ~(fork /\ q = c) => SameSlot(q)
      /\ \A q \in Slot : q # p => call'[q] = call[q] /\ child'[q] = child[q] /\ pc'[q] = pc[q]
      /\ \A q \in Slot : ~(fork /\ q = c) => state'[q] = state[q]
      /\ fork => state'[c] = "UNUSED"
  <2>1. /\ \A q \in Slot : ~(fork /\ q = c) => state'[q] = state[q]
        /\ fork => state'[c] = "UNUSED"
    BY <1>1, <1>3 DEF TypeOK
  <2>2. /\ pc'[p] = "user" /\ call'[p] = "none"
        /\ \A q \in Slot : q # p => /\ pc'[q] = pc[q] /\ call'[q] = call[q] /\ child'[q] = child[q]
                                    /\ i'[q] = i[q] /\ to'[q] = to[q]
    BY <1>1, <1>3, ReturnFacts, Zenon
  <2>3. sz' = sz /\ state[p] = "RUNNING" /\ ~(fork /\ p = c)
    BY <1>1, <1>2, <1>3, Zenon
  <2>4. \A q \in Slot : q # p /\ ~(fork /\ q = c) => SameSlot(q)
    BY <1>7, <2>1, <2>2, <2>3, Zenon DEF SameSlot
  <2>. QED BY <2>1, <2>2, <2>3, <2>4, Zenon
<1>10. TypeOK'
  <2>1. state' \in [Slot -> {"UNUSED", "EMBRYO", "RUNNING", "ZOMBIE"}]
    BY <1>1, <1>3 DEF TypeOK
  <2>. QED BY <1>1, <1>3, <1>8, <2>1, ReturnFacts, Zenon DEF TypeOK, PagesOK, Owns
<1>11. SlotOK(p)'
  <2>1. own'[p][Mem] = None /\ \A x \in All("new") : own'[p][x] = None
    <3>1. Mem \in Place /\ Mem \notin All("new") /\ \A x \in All("new") : x \in Place
      BY PlaceFacts DEF Space
    <3>. QED BY <1>1, <1>4, <1>7, <3>1, Zenon DEF PlaceOK
  <2>2. \A v \in Vpn : /\ own'[p][Pte("new", v)] = None
                       /\ own'[p][Pte("cur", v)] = own[p][Pte("cur", v)]
                       /\ own'[p][Pt("cur", v)] = own[p][Pt("cur", v)]
    <3>1. \A v \in Vpn : /\ Pte("new", v) \in All("new") /\ Pte("new", v) \in Place
                         /\ Pte("cur", v) \notin All("new") /\ Pt("cur", v) \notin All("new")
                         /\ Pte("cur", v) \in Place /\ Pt("cur", v) \in Place
      BY PageTables, PlaceFacts, Zenon DEF Space
    <3>. QED BY <1>4, <1>7, <3>1, Zenon
  <2>3. \A s \in Space, v \in Vpn : own'[p][Pte(s, v)] # None => own'[p][Pt(s, v)] # None
    BY <1>1, <2>2, Zenon DEF MapOK, Space
  <2>4. ~holes' => Exact(p, "cur", sz[p])'
    BY <1>1, <1>3, <1>9, <2>2, Zenon DEF MapOK, Exact
  <2>. QED BY <1>9, <2>1, <2>3, <2>4, UserSlot, Zenon
<1>12. CASE fork
  <2>1. \A x \in Place : own'[c][x] = None
    BY <1>2, <1>4, <1>7, <1>12, Zenon
  <2>2. SlotInv'
    <3>1. DoneWith(p, c)
      BY <1>1, <1>2, <1>7, <1>9, <1>12, <2>1, Zenon DEF DoneWith
    <3>. QED BY <3>1, SlotDone, Zenon
  <2>3. SlotOK(c)'
    <3>1. own'[c][Mem] = None /\ \A x \in All("new") : own'[c][x] = None
      BY <2>1, PlaceFacts DEF Space
    <3>2. \A s \in Space, v \in Vpn : own'[c][Pte(s, v)] = None
      BY <2>1, PageTables
    <3>3. pc'[c] = "user" /\ call'[c] = "none" /\ state'[c] = "UNUSED"
      BY <1>2, <1>9, <1>12, IdleSlot, Zenon
    <3>. QED BY <3>1, <3>2, <3>3, UserSlot, Zenon
  <2>4. ASSUME NEW q \in Slot PROVE SlotOK(q)'
    BY <1>3, <1>9, <1>11, <2>3, Other, Zenon DEF VInv
  <2>. QED BY <1>1, <1>3, <1>8, <1>10, <2>2, <2>4, Zenon DEF VInv, PagesOK
<1>13. CASE ~fork
  BY <1>1, <1>3, <1>8, <1>9, <1>10, <1>11, <1>13, LocalStep, Zenon DEF PagesOK, VInv
<1>. QED BY <1>12, <1>13

-----------------------------------------------------------------------------
(* The first state, and the theorems. *)

\* userinit's pages are six different ones, none of them free.
LEMMA FirstPages ==
  /\ \A x \in Place : FirstProcess(x) \in Page \cup {None} /\ FirstProcess(x) <= 6
  /\ \A x, y \in Place : FirstProcess(x) # None /\ FirstProcess(x) = FirstProcess(y) => x = y
  /\ FirstProcess(Mem) = None
  /\ \A x \in All("new") : FirstProcess(x) = None
  /\ \A v \in Vpn : FirstProcess(Pte("new", v)) = None
  /\ \A v \in Vpn : FirstProcess(Pte("cur", v)) # None <=> v = 0
  /\ \A v \in Vpn : v = 0 => FirstProcess(Pt("cur", v)) # None
<1>. USE DEF Kstack, Pgdir, Pt, Pte, Mem, None
<1>0. NPTE \in Nat \ {0} /\ 0 \div NPTE = 0
  BY ConstFacts
<1>1. ASSUME NEW x \in Place
      PROVE  /\ FirstProcess(x) = 0 \/ FirstProcess(x) \in 1..6
             /\ FirstProcess(x) = 1 <=> x = Kstack
             /\ FirstProcess(x) = 2 <=> x = <<"cur", "pml4", 0>>
             /\ FirstProcess(x) = 3 <=> x = <<"cur", "pdpt", 0>>
             /\ FirstProcess(x) = 4 <=> x = Pgdir("cur")
             /\ FirstProcess(x) = 5 <=> x = Pt("cur", 0)
             /\ FirstProcess(x) = 6 <=> x = Pte("cur", 0)
  BY <1>0 DEF FirstProcess
<1>2. \A x \in Place : FirstProcess(x) \in Page \cup {None} /\ FirstProcess(x) <= 6
  BY <1>1, VmAssumption DEF Page
<1>3. ASSUME NEW x \in Place, NEW y \in Place, FirstProcess(x) # None, FirstProcess(x) = FirstProcess(y)
      PROVE  x = y
  <2>1. \E k \in 1..6 : FirstProcess(x) = k /\ FirstProcess(y) = k
    BY <1>1, <1>3
  <2>. HIDE DEF Kstack, Pgdir, Pt, Pte
  <2>. QED BY <1>1, <2>1
<1>4. FirstProcess(Mem) = None
  BY DEF FirstProcess
<1>5. ASSUME NEW x \in All("new") PROVE FirstProcess(x) = None
  BY DEF FirstProcess, All, Freed
<1>6. \A v \in Vpn : FirstProcess(Pte("new", v)) = None
  BY DEF FirstProcess
<1>7. \A v \in Vpn : FirstProcess(Pte("cur", v)) # None <=> v = 0
  BY DEF FirstProcess
<1>8. \A v \in Vpn : v = 0 => FirstProcess(Pt("cur", v)) # None
  BY <1>0 DEF FirstProcess
<1>. QED BY <1>2, <1>3, <1>4, <1>5, <1>6, <1>7, <1>8

LEMMA InitInv == Init => VInv
<1>. SUFFICES ASSUME Init PROVE VInv
  OBVIOUS
<1>1. /\ \A x \in Place : own[initproc][x] = FirstProcess(x)
      /\ \A q \in Slot, x \in Place : q # initproc => own[q][x] = None
      /\ own \in [Slot -> [Place -> Page \cup {None}]]
  BY FirstPages, ConstFacts, Zenon DEF Init
<1>2. free = 7..NPAGE + 6 /\ NPAGE \in Nat /\ 1 \in 0..MaxSz /\ 0 \in 0..MaxSz /\ MaxSz \in Nat
  BY ConstFacts, VmAssumption DEF Init
<1>3. TypeOK
  <2>1. free \subseteq Page /\ "user" \in Pc
    BY <1>2 DEF Page, Pc
  <2>2. /\ state \in [Slot -> {"UNUSED", "EMBRYO", "RUNNING", "ZOMBIE"}] /\ sz \in [Slot -> 0..MaxSz]
        /\ pc \in [Slot -> Pc] /\ child \in [Slot -> Slot]
    BY <1>2, <2>1 DEF Init
  <2>. QED BY <1>1, <1>2, <2>1, <2>2, Zenon DEF TypeOK, Init
<1>4. OwnedOnce
  <2>1. \A q \in Slot, x \in Place : own[q][x] # None => q = initproc /\ own[q][x] = FirstProcess(x)
    BY <1>1
  <2>2. \A x \in Place : FirstProcess(x) \notin free
    BY <1>2, FirstPages DEF Page, None
  <2>. QED BY <2>1, <2>2, FirstPages, SMTT(40) DEF OwnedOnce
<1>5. /\ \A q \in Slot : /\ pc[q] = "user" /\ call[q] = "none"
                         /\ state[q] = "RUNNING" <=> q = initproc
                         /\ state[q] \in {"UNUSED", "RUNNING"}
      /\ sz[initproc] = 1 /\ holes = FALSE /\ status = "up"
  BY ConstFacts DEF Init
<1>6. SlotInv
  BY <1>1, <1>5, Zenon DEF SlotInv
<1>7. ASSUME NEW q \in Slot PROVE SlotOK(q)
  <2>1. CallOK(q)
    BY <1>5, Zenon DEF CallOK
  <2>2. own[q][Mem] = None /\ \A x \in All("new") : own[q][x] = None
    BY <1>1, FirstPages, PlaceFacts, Zenon DEF Space
  <2>3. PlaceOK(q)
    BY <1>5, <2>2, Zenon DEF PlaceOK
  <2>4. CASE q = initproc
    <3>1. \A v \in Vpn : /\ own[q][Pte("new", v)] = None /\ (own[q][Pte("cur", v)] # None <=> v = 0)
                         /\ v = 0 => own[q][Pt("cur", v)] # None
      BY <1>1, <2>4, FirstPages, PageTables, Zenon DEF Space
    <3>2. Exact(q, "cur", sz[q])
      BY <1>2, <1>5, <2>4, <3>1 DEF Exact, Vpn
    <3>3. MapOK(q)
      BY <1>5, <3>1, <3>2, Zenon DEF MapOK, Space
    <3>. QED BY <2>1, <2>3, <3>3 DEF SlotOK
  <2>5. CASE q # initproc
    <3>1. MapOK(q)
      BY <1>1, <1>5, <2>5, PageTables, Zenon DEF MapOK
    <3>. QED BY <2>1, <2>3, <3>1 DEF SlotOK
  <2>. QED BY <2>4, <2>5
<1>. QED BY <1>3, <1>4, <1>5, <1>6, <1>7 DEF VInv

LEMMA NextInv ==
  ASSUME VInv, [Next]_vars
  PROVE  VInv' /\ Kept
<1>1. ASSUME NEW p \in Slot, Step(p) PROVE VInv' /\ Kept
  <2>1. CASE Setupkvm(p) \/ Allocuvm(p) \/ AllocMap(p) \/ AllocFail(p)
    BY <2>1, SetupkvmStep, AllocuvmStep, AllocMapStep, AllocFailStep
  <2>2. CASE Copyuvm(p) \/ CopyMap(p) \/ ForkDone(p) \/ Bad(p)
    BY <2>2, CopyuvmStep, CopyMapStep, ForkDoneStep, BadStep
  <2>3. CASE GrowDone(p) \/ ExecBad(p) \/ ExecDone(p)
    BY <2>3, GrowDoneStep, ExecBadStep, ExecDoneStep
  <2>4. CASE \E k \in 0..MaxSz : Loaduvm(p, k)
    BY <2>4, LoaduvmStep
  <2>. QED BY <1>1, <2>1, <2>2, <2>3, <2>4 DEF Step
<1>2. CASE \E p \in Slot : Exit(p)
  BY <1>2, ExitStep
<1>3. CASE \E p, q \in Slot : Fork(p, q) \/ Wait(p, q)
  BY <1>3, ForkStep, WaitStep
<1>4. CASE \E p \in Slot \ {initproc}, n \in 0..MaxSz : (n > 0 /\ Grow(p, n)) \/ Shrink(p, n)
  BY <1>4, GrowStep, ShrinkStep
<1>5. CASE \E p \in Slot, n \in Images : Exec(p, n)
  BY <1>5, ExecStep
<1>6. CASE UNCHANGED vars
  <2>1. /\ UNCHANGED <<free, own, state, sz, pc, call, child, i, to, holes, status>>
    BY <1>6 DEF vars
  <2>2. Kept /\ OwnedOnce'
    BY <2>1, InvPages, PagesSame DEF PagesOK
  <2>3. TypeOK' /\ (~holes' => status' # "panic")
    BY <2>1 DEF VInv, TypeOK
  <2>4. SlotInv'
    BY <2>1, Zenon DEF VInv, SlotInv
  <2>5. ASSUME NEW q \in Slot PROVE SlotOK(q)'
    <3>1. SlotOK(q) /\ SameSlot(q) /\ (holes => holes')
      BY <2>1, Zenon DEF VInv, SameSlot
    <3>. QED BY <3>1, Other
  <2>. QED BY <2>2, <2>3, <2>4, <2>5 DEF VInv
<1>7. CASE Halted
  BY <1>6, <1>7 DEF Halted
<1>. QED BY <1>1, <1>2, <1>3, <1>4, <1>5, <1>6, <1>7 DEF Next

\* The pages of every process are where the code thinks they are: types, places,
\* the slots fork fills, and how far each call has mapped memory.
THEOREM VmInv == Spec => []VInv
<1>1. Init => VInv
  BY InitInv
<1>2. VInv /\ [Next]_vars => VInv'
  BY NextInv
<1>. QED BY <1>1, <1>2, PTL DEF Spec

\* For every number of processes and of pages, however kalloc fails: no page is
\* freed twice, handed out while in use, or mapped in two places.
THEOREM VmOwnedOnce == Spec => []OwnedOnce
<1>1. VInv => OwnedOnce
  BY DEF VInv
<1>. QED BY <1>1, VmInv, PTL

\* Until allocuvm ignores a failed mappages, the memory of a process in user
\* space is mapped exactly up to sz, and no assertion of copyuvm, loaduvm,
\* clearpteu or mappages fails.
THEOREM VmSizeIsMapped == Spec => []SizeIsMapped
<1>1. VInv => SizeIsMapped
  <2>. SUFFICES ASSUME VInv, ~holes PROVE SizeIsMapped
    BY DEF SizeIsMapped
  <2>1. ASSUME NEW p \in Slot, state[p] = "RUNNING", pc[p] = "user" PROVE Exact(p, "cur", sz[p])
    BY <2>1, Zenon DEF VInv, SlotOK, CallOK, MapOK
  <2>. QED BY <2>1, Zenon DEF VInv, SizeIsMapped, Exact
<1>. QED BY <1>1, VmInv, PTL

\* No step loses a page, but for the pml4 and the pdpt freevm does not free and
\* the page whose mappages fails.
THEOREM VmLostOnly == Spec => LostOnly
<1>1. ASSUME VInv, [Next]_vars
      PROVE  Lost' \ Lost \subseteq
               UNION {Pages(own[p], {Mem} \cup (Space \X {"pml4", "pdpt"} \X {0})) : p \in Slot}
  <2>1. Kept
    BY <1>1, NextInv
  <2>. SUFFICES ASSUME NEW g \in Lost', g \notin Lost
                PROVE  \E p \in Slot : g \in Pages(own[p], Leaky)
    BY Zenon DEF Leaky
  <2>2. /\ g \in Page /\ g \notin free' /\ g # None
        /\ \A q \in Slot, y \in Place : own'[q][y] # g
    BY ConstFacts DEF Lost, Used, Pages
  <2>3. g \notin free
    BY <2>1, <2>2 DEF Kept
  <2>4. PICK q \in Slot, y \in Place : own[q][y] = g
    BY <2>2, <2>3 DEF Lost, Used, Pages
  <2>5. y \in Leaky
    BY <2>1, <2>2, <2>4 DEF Kept
  <2>. QED BY <2>2, <2>4, <2>5 DEF Pages
<1>. QED BY <1>1, VmInv, PTL DEF Spec, LostOnly
=============================================================================
