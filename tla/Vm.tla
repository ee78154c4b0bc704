--------------------------------- MODULE Vm ---------------------------------
(***************************************************************************)
(* Where the pages of kernel/kalloc.c go: the address spaces of            *)
(* kernel/vm.c and kernel/vm64.c (the x86-64 build) under fork, sbrk,      *)
(* exec, exit and wait, with kalloc failing at any of its calls.           *)
(*                                                                         *)
(* Processes run on several processors and share the free list only, so a  *)
(* step is one call of kalloc and what follows it up to the next.  kfree   *)
(* does not fail and nobody waits for a page: freeing is one step.  Sizes  *)
(* and addresses are counted in pages.                                     *)
(***************************************************************************)
EXTENDS Integers, FiniteSets

CONSTANTS Slot, initproc,
          NPAGE,     \* pages of physical memory after those of userinit
          NPTE,      \* NPTENTRIES
          MaxSz,     \* bound on the size of a process
          Images     \* sizes of programs that can be loaded

ASSUME VmAssumption ==
  /\ initproc \in Slot /\ NPAGE \in Nat /\ NPTE \in Nat \ {0} /\ MaxSz \in Nat \ {0}
  /\ Images \subseteq 1..MaxSz - 2

VARIABLES free,      \* kmem.freelist
          own,       \* the page at each place of a process, or None
          state, sz,
          pc, call, child, i, to,   \* where a process is, and its variables
          holes,     \* whether allocuvm ignored a failed mappages
          status

vars == <<free, own, state, sz, pc, call, child, i, to, holes, status>>
table == <<state, sz>>
locals == <<call, child, i, to>>

None == 0
Page == 1..NPAGE + 6
Vpn == 0..MaxSz - 1
Table == {v \div NPTE : v \in Vpn}

\* Places that hold a page: the four levels of the address space a process
\* runs in and of the one it is building, its kernel stack, and a page that was
\* allocated and not yet mapped.
Space == {"cur", "new"}
Place == (Space \X {"pml4", "pdpt", "pgdir"} \X {0}) \cup (Space \X {"pt"} \X Table)
         \cup (Space \X {"pte"} \X Vpn) \cup ({"proc"} \X {"kstack", "mem"} \X {0})
Kstack == <<"proc", "kstack", 0>>
Mem == <<"proc", "mem", 0>>
Level == <<"pml4", "pdpt", "pgdir">>
Pgdir(s) == <<s, "pgdir", 0>>
Pt(s, v) == <<s, "pt", v \div NPTE>>
Pte(s, v) == <<s, "pte", v>>

\* The pages of the first process: setupkvm, inituvm and its kernel stack.
FirstProcess(x) ==
  CASE x = Kstack -> 1
    [] x = <<"cur", "pml4", 0>> -> 2
    [] x = <<"cur", "pdpt", 0>> -> 3
    [] x = Pgdir("cur") -> 4
    [] x = Pt("cur", 0) -> 5
    [] x = Pte("cur", 0) -> 6
    [] OTHER -> None

\* userinit has made the first process, with one page of memory.
Init ==
  /\ own = [p \in Slot |-> [x \in Place |-> IF p = initproc THEN FirstProcess(x) ELSE None]]
  /\ free = 7..NPAGE + 6
  /\ state = [p \in Slot |-> IF p = initproc THEN "RUNNING" ELSE "UNUSED"]
  /\ sz = [p \in Slot |-> IF p = initproc THEN 1 ELSE 0]
  /\ pc = [p \in Slot |-> "user"]
  /\ call = [p \in Slot |-> "none"]
  /\ child = [p \in Slot |-> p]
  /\ i = [p \in Slot |-> 0] /\ to = [p \in Slot |-> 0]
  /\ holes = FALSE
  /\ status = "up"

-----------------------------------------------------------------------------
(* kalloc, kfree *)

\* kalloc returns some free page; which one is of no importance.
Top == CHOOSE x \in free : TRUE

Kalloc(p, x) ==
  /\ free # {}
  /\ free' = free \ {Top}
  /\ own' = [own EXCEPT ![p][x] = Top]

\* What process o has after the pages at the places X are gone from it.
Without(o, X) == [x \in Place |-> IF x \in X THEN None ELSE o[x]]

Pages(o, X) == {o[x] : x \in X} \ {None}

\* The places of address space s whose pages deallocuvm and freevm free: the
\* pml4 and the pdpt are not among them.
Freed(s) == {Pgdir(s)} \cup {Pt(s, v) : v \in Vpn} \cup {Pte(s, v) : v \in Vpn}
All(s) == Freed(s) \cup {<<s, "pml4", 0>>, <<s, "pdpt", 0>>}

\* Where deallocuvm finds an entry when it goes from a up to the size b.  Over a
\* missing page table it goes on NPTE pages further: it comes to the next table
\* at the index it had, and looks at all entries of a table only after one that
\* was there.
Visited(o, s, a, b) ==
  LET found(v) == o[Pt(s, v)] # None
  IN {Pte(s, v) : v \in {v \in Vpn :
        /\ a <= v /\ v < b /\ found(v)
        /\ v % NPTE >= a % NPTE \/ \E u \in a..v : u \div NPTE < v \div NPTE /\ found(u)}}

At(p, x) == status = "up" /\ state[p] = "RUNNING" /\ pc[p] = x

Goto(p, x) == pc' = [pc EXCEPT ![p] = x]

\* Back to user space.
Return(p) ==
  /\ pc' = [pc EXCEPT ![p] = "user"]
  /\ call' = [call EXCEPT ![p] = "none"] /\ child' = [child EXCEPT ![p] = p]
  /\ i' = [i EXCEPT ![p] = 0] /\ to' = [to EXCEPT ![p] = 0]

Stop(x) == status' = x /\ UNCHANGED <<free, own, table, pc, locals, holes>>

-----------------------------------------------------------------------------
(* setupkvm, mappages, allocuvm *)

\* setupkvm does not test what its three calls of kalloc return: without a page
\* it clears and fills whatever is mapped at address 0.
Setupkvm(p) ==
  /\ At(p, "setupkvm")
  /\ \/ /\ free = {} /\ Stop("undefined")
     \/ /\ Kalloc(p, <<"new", Level[i[p] + 1], 0>>)
        /\ IF i[p] < 2
           THEN i' = [i EXCEPT ![p] = @ + 1] /\ UNCHANGED pc
           ELSE i' = [i EXCEPT ![p] = 0] /\ Goto(p, IF call[p] = "fork" THEN "copyuvm" ELSE "allocuvm")
        /\ UNCHANGED <<table, call, child, to, holes, status>>

\* The address space allocuvm works on, and the size it started from.
Builds(p) == IF call[p] = "sbrk" THEN "cur" ELSE "new"

Oldsz(p) == CASE call[p] = "sbrk" -> sz[p] [] call[p] = "exec" -> 0 [] OTHER -> to[p] - 2

\* mappages for the page in hand at address i, in space s; a missing page table
\* is allocated by walkpgdir.
Mapped(p, s) ==
  LET o == own[p]
      x == Pt(s, i[p])
      t == IF o[x] = None THEN Top ELSE o[x]
  IN /\ o[x] = None => free # {}
     /\ own' = [own EXCEPT ![p] = [o EXCEPT ![x] = t, ![Pte(s, i[p])] = o[Mem], ![Mem] = None]]
     /\ free' = free \ {t}

NoTable(p, s) == own[p][Pt(s, i[p])] = None /\ free = {}

\* The loop of allocuvm: a page ...
Allocuvm(p) ==
  /\ At(p, "allocuvm")
  /\ i[p] < to[p]
  /\ Kalloc(p, Mem)
  /\ Goto(p, "map")
  /\ UNCHANGED <<table, locals, holes, status>>

\* ... which mappages maps, or panics ("remap"); when mappages fails the page is
\* forgotten and the loop goes on.
AllocMap(p) ==
  /\ At(p, "map")
  /\ \/ /\ ~NoTable(p, Builds(p)) /\ own[p][Pte(Builds(p), i[p])] # None
        /\ Stop("panic")
     \/ /\ own[p][Pte(Builds(p), i[p])] = None
        /\ \/ Mapped(p, Builds(p)) /\ UNCHANGED holes
           \/ /\ NoTable(p, Builds(p))
              /\ own' = [own EXCEPT ![p][Mem] = None]
              /\ holes' = TRUE
              /\ UNCHANGED free
        /\ i' = [i EXCEPT ![p] = @ + 1]
        /\ Goto(p, "allocuvm")
        /\ UNCHANGED <<table, call, child, to, status>>

\* Mutant: allocuvm does not take back what it has added.
AllocFailKeep(p) ==
  /\ At(p, "allocuvm")
  /\ i[p] < to[p]
  /\ free = {}
  /\ IF call[p] = "sbrk" THEN Return(p) ELSE Goto(p, "bad") /\ UNCHANGED locals
  /\ UNCHANGED <<free, own, table, holes, status>>

\* Without a page allocuvm takes back what it has added.
AllocFail(p) ==
  /\ At(p, "allocuvm")
  /\ i[p] < to[p]
  /\ free = {}
  /\ LET X == Visited(own[p], Builds(p), Oldsz(p), to[p]) IN
       /\ free' = free \cup Pages(own[p], X)
       /\ own' = [own EXCEPT ![p] = Without(@, X)]
  /\ IF call[p] = "sbrk" THEN Return(p) ELSE Goto(p, "bad") /\ UNCHANGED locals
  /\ UNCHANGED <<table, holes, status>>

-----------------------------------------------------------------------------
(* fork *)

\* allocproc takes a slot and a kernel stack; without one fork fails.
Fork(p, c) ==
  /\ At(p, "user")
  /\ state[c] = "UNUSED"
  /\ Kalloc(c, Kstack)
  /\ state' = [state EXCEPT ![c] = "EMBRYO"]
  /\ call' = [call EXCEPT ![p] = "fork"]
  /\ child' = [child EXCEPT ![p] = c]
  /\ i' = [i EXCEPT ![p] = 0]
  /\ Goto(p, "setupkvm")
  /\ UNCHANGED <<sz, to, holes, status>>

\* The loop of copyuvm: the next page of the parent, which must be mapped.
Copyuvm(p) ==
  /\ At(p, "copyuvm")
  /\ i[p] < sz[p]
  /\ \/ /\ own[p][Pte("cur", i[p])] = None
        /\ Stop("panic")
     \/ /\ own[p][Pte("cur", i[p])] # None
        /\ \/ Kalloc(p, Mem) /\ Goto(p, "copymap")
           \/ free = {} /\ Goto(p, "bad") /\ UNCHANGED <<free, own>>
        /\ UNCHANGED <<table, locals, holes, status>>

\* The copy is mapped, or forgotten when there is no page for the page table.
CopyMap(p) ==
  /\ At(p, "copymap")
  /\ \/ /\ Mapped(p, "new")
        /\ i' = [i EXCEPT ![p] = @ + 1]
        /\ Goto(p, "copyuvm")
     \/ /\ NoTable(p, "new")
        /\ own' = [own EXCEPT ![p][Mem] = None]
        /\ Goto(p, "bad")
        /\ UNCHANGED <<free, i>>
  /\ UNCHANGED <<table, call, child, to, holes, status>>

\* The child gets the address space and runs.
ForkDone(p) ==
  /\ At(p, "copyuvm")
  /\ i[p] = sz[p]
  /\ LET c == child[p] IN
       /\ own' = [own EXCEPT ![p] = Without(@, All("new")),
                             ![c] = [x \in Place |-> IF x \in All("cur") THEN own[p][<<"new", x[2], x[3]>>] ELSE @[x]]]
       /\ state' = [state EXCEPT ![c] = "RUNNING"]
       /\ sz' = [sz EXCEPT ![c] = sz[p]]
  /\ Return(p)
  /\ UNCHANGED <<free, holes, status>>

\* Mutant: a failed fork forgets the kernel stack.
BadKeepStack(p) ==
  /\ At(p, "bad")
  /\ LET c == child[p]
         fork == call[p] = "fork"
     IN /\ free' = free \cup Pages(own[p], Freed("new"))
        /\ own' = [q \in Slot |-> IF q = p THEN Without(own[p], All("new"))
                                  ELSE IF fork /\ q = c THEN Without(own[c], {Kstack}) ELSE own[q]]
        /\ state' = IF fork THEN [state EXCEPT ![c] = "UNUSED"] ELSE state
  /\ Return(p)
  /\ UNCHANGED <<sz, holes, status>>

\* copyuvm or exec gives up: freevm; fork also frees the kernel stack.
Bad(p) ==
  /\ At(p, "bad")
  /\ LET c == child[p]
         fork == call[p] = "fork"
     IN /\ free' = free \cup Pages(own[p], Freed("new")) \cup (IF fork THEN {own[c][Kstack]} ELSE {})
        /\ own' = [q \in Slot |-> IF q = p THEN Without(own[p], All("new"))
                                  ELSE IF fork /\ q = c THEN Without(own[c], {Kstack}) ELSE own[q]]
        /\ state' = IF fork THEN [state EXCEPT ![c] = "UNUSED"] ELSE state
  /\ Return(p)
  /\ UNCHANGED <<sz, holes, status>>

-----------------------------------------------------------------------------
(* sbrk, exec, exit, wait *)

\* growproc(n), n > 0.
Grow(p, n) ==
  /\ At(p, "user")
  /\ sz[p] + n <= MaxSz
  /\ call' = [call EXCEPT ![p] = "sbrk"]
  /\ i' = [i EXCEPT ![p] = sz[p]]
  /\ to' = [to EXCEPT ![p] = sz[p] + n]
  /\ Goto(p, "allocuvm")
  /\ UNCHANGED <<free, own, table, child, holes, status>>

GrowDone(p) ==
  /\ At(p, "allocuvm")
  /\ call[p] = "sbrk" /\ i[p] = to[p]
  /\ sz' = [sz EXCEPT ![p] = to[p]]
  /\ Return(p)
  /\ UNCHANGED <<free, own, state, holes, status>>

\* Mutant: deallocuvm does not clear the entries.
ShrinkKeepPte(p, n) ==
  /\ At(p, "user")
  /\ n < sz[p]
  /\ free' = free \cup Pages(own[p], Visited(own[p], "cur", n, sz[p]))
  /\ sz' = IF n = 0 THEN sz ELSE [sz EXCEPT ![p] = n]
  /\ Goto(p, IF n = 0 THEN "fault" ELSE "user")
  /\ UNCHANGED <<own, state, locals, holes, status>>

\* growproc(n), n < 0.  Down to 0 it takes the new size for an error and leaves
\* sz alone, but the memory is gone: the process faults in user space.
Shrink(p, n) ==
  /\ At(p, "user")
  /\ n < sz[p]
  /\ LET X == Visited(own[p], "cur", n, sz[p]) IN
       /\ free' = free \cup Pages(own[p], X)
       /\ own' = [own EXCEPT ![p] = Without(@, X)]
  /\ sz' = IF n = 0 THEN sz ELSE [sz EXCEPT ![p] = n]
  /\ Goto(p, IF n = 0 THEN "fault" ELSE "user")
  /\ UNCHANGED <<state, locals, holes, status>>

\* exec of a program of n pages.
Exec(p, n) ==
  /\ At(p, "user")
  /\ call' = [call EXCEPT ![p] = "exec"]
  /\ i' = [i EXCEPT ![p] = 0]
  /\ to' = [to EXCEPT ![p] = n]
  /\ Goto(p, "setupkvm")
  /\ UNCHANGED <<free, own, table, child, holes, status>>

\* loaduvm fills the first k pages; a page that is not mapped is an assertion
\* when its page table is missing, and page 0 of the memory otherwise.  Then
\* exec adds two pages for the guard and the stack.
Loaduvm(p, k) ==
  /\ At(p, "allocuvm")
  /\ call[p] = "exec" /\ i[p] = to[p] /\ k <= to[p]
  /\ \/ \E v \in 0..k - 1 :
          /\ own[p][Pte("new", v)] = None
          /\ \A u \in 0..v - 1 : own[p][Pte("new", u)] # None
          /\ Stop(IF own[p][Pt("new", v)] = None THEN "panic" ELSE "undefined")
     \/ /\ \A v \in 0..k - 1 : own[p][Pte("new", v)] # None
        /\ call' = [call EXCEPT ![p] = "stack"]
        /\ to' = [to EXCEPT ![p] = @ + 2]
        /\ UNCHANGED <<free, own, table, pc, child, i, holes, status>>

\* clearpteu on the guard page; its assertion.
GuardTable(p) == own[p][Pt("new", to[p] - 2)] # None

\* uva2ka on the page of the stack: without a page table it reads through a
\* null pointer, for a page that is not present it returns 0.
StackTable(p) == own[p][Pt("new", to[p] - 1)] # None
Uva2ka(p) == own[p][Pte("new", to[p] - 1)]

\* A damaged file or too many arguments; copyout to a stack that is not mapped.
ExecBad(p) ==
  /\ At(p, "allocuvm")
  /\ call[p] \in {"exec", "stack"} /\ i[p] = to[p]
  /\ call[p] = "stack" => GuardTable(p) /\ StackTable(p)
  /\ Goto(p, "bad")
  /\ UNCHANGED <<free, own, table, locals, holes, status>>

\* The new address space replaces the old one, which is freed.
ExecDone(p) ==
  /\ At(p, "allocuvm")
  /\ call[p] = "stack" /\ i[p] = to[p]
  /\ \/ ~GuardTable(p) /\ Stop("panic")
     \/ GuardTable(p) /\ ~StackTable(p) /\ Stop("undefined")
     \/ /\ GuardTable(p) /\ StackTable(p) /\ Uva2ka(p) # None
        /\ free' = free \cup Pages(own[p], Freed("cur"))
        /\ own' = [own EXCEPT ![p] = [x \in Place |-> IF x \in All("cur") THEN @[<<"new", x[2], x[3]>>]
                                                     ELSE IF x \in All("new") THEN None ELSE @[x]]]
        /\ sz' = [sz EXCEPT ![p] = to[p]]
        /\ Return(p)
        /\ UNCHANGED <<state, holes, status>>

Exit(p) ==
  /\ At(p, "user") \/ At(p, "fault")
  /\ p # initproc
  /\ state' = [state EXCEPT ![p] = "ZOMBIE"]
  /\ Goto(p, "user")
  /\ UNCHANGED <<free, own, sz, locals, holes, status>>

\* wait() frees the kernel stack and the address space of a zombie.
Wait(p, q) ==
  /\ At(p, "user")
  /\ state[q] = "ZOMBIE"
  /\ free' = free \cup Pages(own[q], Freed("cur") \cup {Kstack})
  /\ own' = [own EXCEPT ![q] = Without(@, All("cur") \cup {Kstack})]
  /\ state' = [state EXCEPT ![q] = "UNUSED"]
  /\ UNCHANGED <<sz, pc, locals, holes, status>>

Halted == status # "up" /\ UNCHANGED vars

Step(p) ==
  \/ Setupkvm(p) \/ Allocuvm(p) \/ AllocMap(p) \/ AllocFail(p)
  \/ Copyuvm(p) \/ CopyMap(p) \/ ForkDone(p) \/ Bad(p)
  \/ GrowDone(p) \/ ExecBad(p) \/ ExecDone(p)
  \/ \E k \in 0..MaxSz : Loaduvm(p, k)

Next ==
  \/ \E p \in Slot : Step(p) \/ Exit(p)
  \/ \E p, q \in Slot : Fork(p, q) \/ Wait(p, q)
  \/ \E p \in Slot \ {initproc}, n \in 0..MaxSz : (n > 0 /\ Grow(p, n)) \/ Shrink(p, n)
  \/ \E p \in Slot, n \in Images : Exec(p, n)
  \/ Halted

Spec == Init /\ [][Next]_vars
-----------------------------------------------------------------------------
\* A page is in one place: never on the free list and in use, in two address
\* spaces, or in two places of one (kalloc.c: no page is freed twice, and none
\* is handed out while it is used).
OwnedOnce ==
  \A p \in Slot, x \in Place : own[p][x] # None =>
    /\ own[p][x] \notin free
    /\ \A q \in Slot, y \in Place : own[q][y] = own[p][x] => p = q /\ x = y

Used == UNION {Pages(own[p], Place) : p \in Slot}
Lost == Page \ (free \cup Used)

\* No failure path of fork, sbrk or exec, and no exit, loses a page, but for two
\* kinds: freevm does not free the pml4 and the pdpt, and a page whose mappages
\* fails is forgotten.
LostOnly ==
  [][Lost' \ Lost \subseteq
       UNION {Pages(own[p], {Mem} \cup (Space \X {"pml4", "pdpt"} \X {0})) : p \in Slot}]_vars

\* As long as allocuvm has not ignored a failure of mappages, every page below
\* sz is mapped and none above, so that the assertions of copyuvm, loaduvm,
\* clearpteu and mappages hold.
SizeIsMapped ==
  ~holes =>
    /\ status # "panic"
    /\ \A p \in Slot : state[p] = "RUNNING" /\ pc[p] = "user" =>
         \A v \in Vpn : own[p][Pte("cur", v)] # None <=> v < sz[p]
=============================================================================
