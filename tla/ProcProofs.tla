----------------------------- MODULE ProcProofs -----------------------------
(***************************************************************************)
(* Proofs about Proc, for every number of slots, processors, pids and for  *)
(* every set of arguments of kill and sleep.                               *)
(***************************************************************************)
EXTENDS Proc, TLAPS

Forking == {"kstack", "copyuvm", "publish"}

\* proc[c] is set exactly while c runs a process.
CpuInv == \A c \in Cpu : proc[c] # None <=> spc[c] = "run"

\* Who holds ptable.lock: the scheduler in its pass, or the process that has
\* just been, or is about to be, switched.
LockInv ==
  \A c \in Cpu :
    lock = c <=> \/ spc[c] = "scan"
                 \/ spc[c] = "run" /\ ctx[proc[c]] \in {"sched", "saved"}

OneCpu == \A c, d \in Cpu : proc[c] = proc[d] /\ proc[c] # None => c = d

\* The state of the process a processor is executing.
StateInv ==
  \A c \in Cpu : proc[c] # None =>
    /\ ctx[proc[c]] # "sched" => state[proc[c]] = "RUNNING"
    /\ ctx[proc[c]] = "sched" => state[proc[c]] \in {"RUNNABLE", "SLEEPING", "ZOMBIE"}

KstackInv == \A p \in Slot : state[p] \notin {"UNUSED", "EMBRYO"} => kstack[p]

\* A process that does not run has its context saved, or is on its way out.
CtxInv ==
  \A p \in Slot : state[p] \in {"RUNNABLE", "SLEEPING", "ZOMBIE"} =>
    ctx[p] = "saved" \/ (ctx[p] = "sched" /\ \E c \in Cpu : proc[c] = p)

\* The slot fork() is filling belongs to that fork alone.
ForkInv ==
  /\ \A p \in Slot : pc[p] \in Forking =>
       /\ child[p] \in Slot /\ state[child[p]] = "EMBRYO"
       /\ pc[p] # "kstack" => kstack[child[p]] /\ ctx[child[p]] = "saved"
  /\ \A p, q \in Slot :
       pc[p] \in Forking /\ pc[q] \in Forking /\ child[p] = child[q] => p = q

\* An interrupt is taken only outside the critical sections of ptable.lock.
IrqInv ==
  \A c \in Cpu : irq[c] # "none" =>
    \/ spc[c] \in {"top", "halt", "acquire"}
    \/ spc[c] = "run" /\ ctx[proc[c]] = "none"

\* Who holds tickslock: the tick, or sys_sleep in its loop.
TickInv ==
  \A c \in Cpu : tickslock = c =>
    \/ irq[c] = "wakeup"
    \/ /\ irq[c] = "none" /\ spc[c] = "run" /\ ctx[proc[c]] = "none"
       /\ pc[proc[c]] \in {"ticks", "dosleep"}

IInv ==
  /\ TypeOK /\ CpuInv /\ LockInv /\ OneCpu /\ StateInv /\ KstackInv
  /\ CtxInv /\ ForkInv /\ IrqInv /\ TickInv

-----------------------------------------------------------------------------
\* The null pointer is neither a slot nor a processor, and slot 1 exists.
LEMMA NoneFacts == None \notin Slot /\ None \notin Cpu /\ initproc \in Slot
BY NprocAssumption, NcpuAssumption DEF None, Slot, Cpu, initproc

\* Some sleepers of st have become runnable in su, and nothing else changed.
Woken(st, su) ==
  \A q \in Slot : su[q] = st[q] \/ (st[q] = "SLEEPING" /\ su[q] = "RUNNABLE")

\* wakeup1() only makes sleepers runnable.
LEMMA Wakeup1Facts ==
  ASSUME NEW st \in [Slot -> States], NEW x
  PROVE  wakeup1(st, x) \in [Slot -> States] /\ Woken(st, wakeup1(st, x))
BY DEF wakeup1, Woken, States

\* So does the loop of exit() over the abandoned children.
LEMMA AbandonFacts ==
  ASSUME NEW st \in [Slot -> States], NEW p \in Slot
  PROVE  Abandon(st, p) \in [Slot -> States] /\ Woken(st, Abandon(st, p))
<1>1. CASE \E q \in Orphans(p) : st[q] = "ZOMBIE"
  BY <1>1, Wakeup1Facts DEF Abandon
<1>2. CASE ~ \E q \in Orphans(p) : st[q] = "ZOMBIE"
  BY <1>2 DEF Abandon, Woken
<1>. QED
  BY <1>1, <1>2

\* The states after exit(): a zombie, and perhaps some woken sleepers.
LEMMA ExitStates ==
  ASSUME state \in [Slot -> States], NEW p \in Slot,
         state' = [Abandon(wakeup1(state, parent[p]), p) EXCEPT ![p] = "ZOMBIE"]
  PROVE  /\ state' \in [Slot -> States] /\ state'[p] = "ZOMBIE"
         /\ \A q \in Slot \ {p} :
              state'[q] = state[q] \/ (state[q] = "SLEEPING" /\ state'[q] = "RUNNABLE")
<1>. DEFINE w == wakeup1(state, parent[p])
            a == Abandon(w, p)
<1>1. w \in [Slot -> States] /\ Woken(state, w)
  BY Wakeup1Facts
<1>2. a \in [Slot -> States] /\ Woken(w, a)
  BY <1>1, AbandonFacts
<1>3. state' = [a EXCEPT ![p] = "ZOMBIE"]
  OBVIOUS
<1>. HIDE DEF w, a
<1>. QED
  BY <1>1, <1>2, <1>3, ZenonT(30) DEF Woken, States

\* SchedHlt preserves the inductive invariant.
LEMMA SchedHltInv ==
  ASSUME IInv, NEW c \in Cpu, SchedHlt(c)
  PROVE  IInv'
<1>. USE NoneFacts DEF IInv, TypeOK, SchedHlt, table, cpus
<1>1. TypeOK'
  BY BoundAssumption, SMTT(30) DEF States, Contexts, Positions, CpuInv, ForkInv, Forking
<1>2. CpuInv' /\ LockInv' /\ OneCpu'
  BY SMTT(30) DEF CpuInv, LockInv, OneCpu, StateInv, CtxInv, ForkInv, Forking, IrqInv, TickInv
<1>3. StateInv' /\ KstackInv' /\ CtxInv'
  BY SMTT(30) DEF CpuInv, LockInv, OneCpu, StateInv, KstackInv, CtxInv, ForkInv, Forking, IrqInv
<1>4. ForkInv'
  BY SMTT(30) DEF CpuInv, OneCpu, StateInv, LockInv, ForkInv, Forking, IrqInv
<1>5. IrqInv' /\ TickInv'
  BY SMTT(30) DEF CpuInv, LockInv, OneCpu, StateInv, IrqInv, TickInv, ForkInv, Forking, Contexts
<1>. HIDE DEF TypeOK, SchedHlt, table, cpus
<1>. QED
  BY <1>1, <1>2, <1>3, <1>4, <1>5

\* SchedAcquire preserves the inductive invariant.
LEMMA SchedAcquireInv ==
  ASSUME IInv, NEW c \in Cpu, SchedAcquire(c)
  PROVE  IInv'
<1>. USE NoneFacts DEF IInv, TypeOK, SchedAcquire, table, cpus
<1>1. TypeOK'
  <2>1. cursor' \in [Cpu -> 1..(NPROC + 1)]
    BY NprocAssumption DEF Slot
  <2>. QED
    BY <2>1 DEF States
<1>2. CpuInv' /\ LockInv' /\ OneCpu'
  BY SMTT(30) DEF CpuInv, LockInv, OneCpu, StateInv, CtxInv, ForkInv, Forking, IrqInv, TickInv
<1>3. StateInv' /\ KstackInv' /\ CtxInv'
  BY SMTT(30) DEF CpuInv, LockInv, OneCpu, StateInv, KstackInv, CtxInv, ForkInv, Forking, IrqInv
<1>4. ForkInv'
  BY SMTT(30) DEF CpuInv, OneCpu, StateInv, LockInv, ForkInv, Forking, IrqInv
<1>5. IrqInv' /\ TickInv'
  BY SMTT(30) DEF CpuInv, LockInv, OneCpu, StateInv, IrqInv, TickInv, ForkInv, Forking, Contexts
<1>. HIDE DEF TypeOK, SchedAcquire, table, cpus
<1>. QED
  BY <1>1, <1>2, <1>3, <1>4, <1>5

\* SchedSwtch preserves the inductive invariant.
LEMMA SchedSwtchInv ==
  ASSUME IInv, NEW c \in Cpu, NEW p \in Slot, SchedSwtch(c, p)
  PROVE  IInv'
<1>. USE NoneFacts DEF IInv, TypeOK, SchedSwtch, table, cpus
<1>a. spc[c] = "scan" /\ state[p] = "RUNNABLE"
  BY DEF Candidates
<1>1. TypeOK'
  <2>1. cursor' \in [Cpu -> 1..(NPROC + 1)]
    BY NprocAssumption DEF Slot
  <2>. QED
    BY <2>1 DEF States
<1>2. CpuInv' /\ LockInv' /\ OneCpu'
  BY <1>a, SMTT(30) DEF CpuInv, LockInv, OneCpu, StateInv, CtxInv, ForkInv, Forking, IrqInv, TickInv
<1>3. StateInv' /\ KstackInv' /\ CtxInv'
  BY <1>a, SMTT(30) DEF CpuInv, LockInv, OneCpu, StateInv, KstackInv, CtxInv, ForkInv, Forking, IrqInv
<1>4. ForkInv'
  BY <1>a, SMTT(30) DEF CpuInv, OneCpu, StateInv, LockInv, ForkInv, Forking, IrqInv
<1>5. IrqInv' /\ TickInv'
  BY <1>a, SMTT(30) DEF CpuInv, LockInv, OneCpu, StateInv, IrqInv, TickInv, ForkInv, Forking, Contexts
<1>. HIDE DEF TypeOK, SchedSwtch, table, cpus
<1>. QED
  BY <1>1, <1>2, <1>3, <1>4, <1>5

\* SchedEnd preserves the inductive invariant.
LEMMA SchedEndInv ==
  ASSUME IInv, NEW c \in Cpu, SchedEnd(c)
  PROVE  IInv'
<1>. USE NoneFacts DEF IInv, TypeOK, SchedEnd, Candidates, table, cpus
<1>1. TypeOK'
  <2>1. cursor' \in [Cpu -> 1..(NPROC + 1)]
    BY NprocAssumption DEF Slot
  <2>. QED
    BY <2>1 DEF States
<1>2. CpuInv' /\ LockInv' /\ OneCpu'
  BY SMTT(30) DEF CpuInv, LockInv, OneCpu, StateInv, CtxInv, ForkInv, Forking, IrqInv, TickInv
<1>3. StateInv' /\ KstackInv' /\ CtxInv'
  BY SMTT(30) DEF CpuInv, LockInv, OneCpu, StateInv, KstackInv, CtxInv, ForkInv, Forking, IrqInv
<1>4. ForkInv'
  BY SMTT(30) DEF CpuInv, OneCpu, StateInv, LockInv, ForkInv, Forking, IrqInv
<1>5. IrqInv' /\ TickInv'
  BY SMTT(30) DEF CpuInv, LockInv, OneCpu, StateInv, IrqInv, TickInv, ForkInv, Forking, Contexts
<1>. HIDE DEF TypeOK, SchedEnd, Candidates, table, cpus
<1>. QED
  BY <1>1, <1>2, <1>3, <1>4, <1>5

\* SwtchOut preserves the inductive invariant.
LEMMA SwtchOutInv ==
  ASSUME IInv, NEW c \in Cpu, SwtchOut(c)
  PROVE  IInv'
<1>. USE NoneFacts DEF IInv, TypeOK, SwtchOut, table, cpus
<1>1. TypeOK'
  BY BoundAssumption, SMTT(30) DEF States, Contexts, Positions, CpuInv, ForkInv, Forking
<1>2. CpuInv' /\ LockInv' /\ OneCpu'
  BY SMTT(30) DEF CpuInv, LockInv, OneCpu, StateInv, CtxInv, ForkInv, Forking, IrqInv, TickInv
<1>3. StateInv' /\ KstackInv' /\ CtxInv'
  BY SMTT(30) DEF CpuInv, LockInv, OneCpu, StateInv, KstackInv, CtxInv, ForkInv, Forking, IrqInv
<1>4. ForkInv'
  BY SMTT(30) DEF CpuInv, OneCpu, StateInv, LockInv, ForkInv, Forking, IrqInv
<1>5. IrqInv' /\ TickInv'
  BY SMTT(30) DEF CpuInv, LockInv, OneCpu, StateInv, IrqInv, TickInv, ForkInv, Forking, Contexts
<1>. HIDE DEF TypeOK, SwtchOut, table, cpus
<1>. QED
  BY <1>1, <1>2, <1>3, <1>4, <1>5

\* TrapKilled preserves the inductive invariant.
LEMMA TrapKilledInv ==
  ASSUME IInv, NEW c \in Cpu, NEW p \in Slot, TrapKilled(c, p)
  PROVE  IInv'
<1>. USE NoneFacts DEF IInv, TypeOK, TrapKilled, Executes, table, cpus
<1>1. TypeOK'
  BY BoundAssumption, SMTT(30) DEF States, Contexts, Positions, CpuInv, ForkInv, Forking
<1>2. CpuInv' /\ LockInv' /\ OneCpu'
  BY SMTT(30) DEF CpuInv, LockInv, OneCpu, StateInv, CtxInv, ForkInv, Forking, IrqInv, TickInv
<1>3. StateInv' /\ KstackInv' /\ CtxInv'
  BY SMTT(30) DEF CpuInv, LockInv, OneCpu, StateInv, KstackInv, CtxInv, ForkInv, Forking, IrqInv
<1>4. ForkInv'
  BY SMTT(30) DEF CpuInv, OneCpu, StateInv, LockInv, ForkInv, Forking, IrqInv
<1>5. IrqInv' /\ TickInv'
  BY SMTT(30) DEF CpuInv, LockInv, OneCpu, StateInv, IrqInv, TickInv, ForkInv, Forking, Contexts
<1>. HIDE DEF TypeOK, TrapKilled, Executes, table, cpus
<1>. QED
  BY <1>1, <1>2, <1>3, <1>4, <1>5

\* TrapFault preserves the inductive invariant.
LEMMA TrapFaultInv ==
  ASSUME IInv, NEW c \in Cpu, NEW p \in Slot, TrapFault(c, p)
  PROVE  IInv'
<1>. USE NoneFacts DEF IInv, TypeOK, TrapFault, Executes, table, cpus
<1>1. TypeOK'
  BY BoundAssumption, SMTT(30) DEF States, Contexts, Positions, CpuInv, ForkInv, Forking
<1>2. CpuInv' /\ LockInv' /\ OneCpu'
  BY SMTT(30) DEF CpuInv, LockInv, OneCpu, StateInv, CtxInv, ForkInv, Forking, IrqInv, TickInv
<1>3. StateInv' /\ KstackInv' /\ CtxInv'
  BY SMTT(30) DEF CpuInv, LockInv, OneCpu, StateInv, KstackInv, CtxInv, ForkInv, Forking, IrqInv
<1>4. ForkInv'
  BY SMTT(30) DEF CpuInv, OneCpu, StateInv, LockInv, ForkInv, Forking, IrqInv
<1>5. IrqInv' /\ TickInv'
  BY SMTT(30) DEF CpuInv, LockInv, OneCpu, StateInv, IrqInv, TickInv, ForkInv, Forking, Contexts
<1>. HIDE DEF TypeOK, TrapFault, Executes, table, cpus
<1>. QED
  BY <1>1, <1>2, <1>3, <1>4, <1>5

\* ForkAlloc preserves the inductive invariant.
LEMMA ForkAllocInv ==
  ASSUME IInv, NEW c \in Cpu, NEW p \in Slot, NEW s \in Slot, ForkAlloc(c, p, s)
  PROVE  IInv'
<1>. USE NoneFacts DEF IInv, TypeOK, ForkAlloc, Calls, Executes, table, cpus
<1>1. TypeOK'
  BY BoundAssumption, SMTT(30) DEF States, Contexts, Positions, CpuInv, ForkInv, Forking
<1>2. CpuInv' /\ LockInv' /\ OneCpu'
  BY SMTT(30) DEF CpuInv, LockInv, OneCpu, StateInv, CtxInv, ForkInv, Forking, IrqInv, TickInv
<1>3. StateInv' /\ KstackInv' /\ CtxInv'
  BY SMTT(30) DEF CpuInv, LockInv, OneCpu, StateInv, KstackInv, CtxInv, ForkInv, Forking, IrqInv
<1>4. ForkInv'
  BY SMTT(30) DEF CpuInv, OneCpu, StateInv, LockInv, ForkInv, Forking, IrqInv
<1>5. IrqInv' /\ TickInv'
  BY SMTT(30) DEF CpuInv, LockInv, OneCpu, StateInv, IrqInv, TickInv, ForkInv, Forking, Contexts
<1>. HIDE DEF TypeOK, ForkAlloc, Calls, Executes, table, cpus
<1>. QED
  BY <1>1, <1>2, <1>3, <1>4, <1>5

\* ForkKstack preserves the inductive invariant.
LEMMA ForkKstackInv ==
  ASSUME IInv, NEW c \in Cpu, NEW p \in Slot, ForkKstack(c, p)
  PROVE  IInv'
<1>. USE NoneFacts DEF IInv, TypeOK, ForkKstack, Executes, table, cpus
<1>1. TypeOK'
  BY BoundAssumption, SMTT(30) DEF States, Contexts, Positions, CpuInv, ForkInv, Forking
<1>2. CpuInv' /\ LockInv' /\ OneCpu'
  BY SMTT(30) DEF CpuInv, LockInv, OneCpu, StateInv, CtxInv, ForkInv, Forking, IrqInv, TickInv
<1>3. StateInv' /\ KstackInv' /\ CtxInv'
  BY SMTT(30) DEF CpuInv, LockInv, OneCpu, StateInv, KstackInv, CtxInv, ForkInv, Forking, IrqInv
<1>4. ForkInv'
  BY SMTT(30) DEF CpuInv, OneCpu, StateInv, LockInv, ForkInv, Forking, IrqInv
<1>5. IrqInv' /\ TickInv'
  BY SMTT(30) DEF CpuInv, LockInv, OneCpu, StateInv, IrqInv, TickInv, ForkInv, Forking, Contexts
<1>. HIDE DEF TypeOK, ForkKstack, Executes, table, cpus
<1>. QED
  BY <1>1, <1>2, <1>3, <1>4, <1>5

\* ForkNoKstack preserves the inductive invariant.
LEMMA ForkNoKstackInv ==
  ASSUME IInv, NEW c \in Cpu, NEW p \in Slot, ForkNoKstack(c, p)
  PROVE  IInv'
<1>. USE NoneFacts DEF IInv, TypeOK, ForkNoKstack, Executes, SyscallEnd, table, cpus
<1>1. TypeOK'
  BY BoundAssumption, SMTT(30) DEF States, Contexts, Positions, CpuInv, ForkInv, Forking
<1>2. CpuInv' /\ LockInv' /\ OneCpu'
  BY SMTT(30) DEF CpuInv, LockInv, OneCpu, StateInv, CtxInv, ForkInv, Forking, IrqInv, TickInv
<1>3. StateInv' /\ KstackInv' /\ CtxInv'
  BY SMTT(30) DEF CpuInv, LockInv, OneCpu, StateInv, KstackInv, CtxInv, ForkInv, Forking, IrqInv
<1>4. ForkInv'
  BY SMTT(30) DEF CpuInv, OneCpu, StateInv, LockInv, ForkInv, Forking, IrqInv
<1>5. IrqInv' /\ TickInv'
  BY SMTT(30) DEF CpuInv, LockInv, OneCpu, StateInv, IrqInv, TickInv, ForkInv, Forking, Contexts
<1>. HIDE DEF TypeOK, ForkNoKstack, Executes, SyscallEnd, table, cpus
<1>. QED
  BY <1>1, <1>2, <1>3, <1>4, <1>5

\* ForkCopy preserves the inductive invariant.
LEMMA ForkCopyInv ==
  ASSUME IInv, NEW c \in Cpu, NEW p \in Slot, ForkCopy(c, p)
  PROVE  IInv'
<1>. USE NoneFacts DEF IInv, TypeOK, ForkCopy, Executes, table, cpus
<1>1. TypeOK'
  BY BoundAssumption, SMTT(30) DEF States, Contexts, Positions, CpuInv, ForkInv, Forking
<1>2. CpuInv' /\ LockInv' /\ OneCpu'
  BY SMTT(30) DEF CpuInv, LockInv, OneCpu, StateInv, CtxInv, ForkInv, Forking, IrqInv, TickInv
<1>3. StateInv' /\ KstackInv' /\ CtxInv'
  BY SMTT(30) DEF CpuInv, LockInv, OneCpu, StateInv, KstackInv, CtxInv, ForkInv, Forking, IrqInv
<1>4. ForkInv'
  BY SMTT(30) DEF CpuInv, OneCpu, StateInv, LockInv, ForkInv, Forking, IrqInv
<1>5. IrqInv' /\ TickInv'
  BY SMTT(30) DEF CpuInv, LockInv, OneCpu, StateInv, IrqInv, TickInv, ForkInv, Forking, Contexts
<1>. HIDE DEF TypeOK, ForkCopy, Executes, table, cpus
<1>. QED
  BY <1>1, <1>2, <1>3, <1>4, <1>5

\* ForkNoCopy preserves the inductive invariant.
LEMMA ForkNoCopyInv ==
  ASSUME IInv, NEW c \in Cpu, NEW p \in Slot, ForkNoCopy(c, p)
  PROVE  IInv'
<1>. USE NoneFacts DEF IInv, TypeOK, ForkNoCopy, Executes, SyscallEnd, table, cpus
<1>1. TypeOK'
  BY BoundAssumption, SMTT(30) DEF States, Contexts, Positions, CpuInv, ForkInv, Forking
<1>2. CpuInv' /\ LockInv' /\ OneCpu'
  BY SMTT(30) DEF CpuInv, LockInv, OneCpu, StateInv, CtxInv, ForkInv, Forking, IrqInv, TickInv
<1>3. StateInv' /\ KstackInv' /\ CtxInv'
  BY SMTT(30) DEF CpuInv, LockInv, OneCpu, StateInv, KstackInv, CtxInv, ForkInv, Forking, IrqInv
<1>4. ForkInv'
  BY SMTT(30) DEF CpuInv, OneCpu, StateInv, LockInv, ForkInv, Forking, IrqInv
<1>5. IrqInv' /\ TickInv'
  BY SMTT(30) DEF CpuInv, LockInv, OneCpu, StateInv, IrqInv, TickInv, ForkInv, Forking, Contexts
<1>. HIDE DEF TypeOK, ForkNoCopy, Executes, SyscallEnd, table, cpus
<1>. QED
  BY <1>1, <1>2, <1>3, <1>4, <1>5

\* ForkPublish preserves the inductive invariant.
LEMMA ForkPublishInv ==
  ASSUME IInv, NEW c \in Cpu, NEW p \in Slot, ForkPublish(c, p)
  PROVE  IInv'
<1>. USE NoneFacts DEF IInv, TypeOK, ForkPublish, Executes, SyscallEnd, table, cpus
<1>1. TypeOK'
  BY BoundAssumption, SMTT(30) DEF States, Contexts, Positions, CpuInv, ForkInv, Forking
<1>2. CpuInv' /\ LockInv' /\ OneCpu'
  BY SMTT(30) DEF CpuInv, LockInv, OneCpu, StateInv, CtxInv, ForkInv, Forking, IrqInv, TickInv
<1>3. StateInv' /\ KstackInv' /\ CtxInv'
  BY SMTT(30) DEF CpuInv, LockInv, OneCpu, StateInv, KstackInv, CtxInv, ForkInv, Forking, IrqInv
<1>4. ForkInv'
  BY SMTT(30) DEF CpuInv, OneCpu, StateInv, LockInv, ForkInv, Forking, IrqInv
<1>5. IrqInv' /\ TickInv'
  BY SMTT(30) DEF CpuInv, LockInv, OneCpu, StateInv, IrqInv, TickInv, ForkInv, Forking, Contexts
<1>. HIDE DEF TypeOK, ForkPublish, Executes, SyscallEnd, table, cpus
<1>. QED
  BY <1>1, <1>2, <1>3, <1>4, <1>5

\* KillMark preserves the inductive invariant.
LEMMA KillMarkInv ==
  ASSUME IInv, NEW c \in Cpu, NEW p \in Slot, NEW k \in KillPids, NEW t \in Slot, KillMark(c, p, k, t)
  PROVE  IInv'
<1>. USE NoneFacts DEF IInv, TypeOK, KillMark, Calls, Executes, SyscallEnd, table, cpus
<1>1. TypeOK'
  BY BoundAssumption, SMTT(30) DEF States, Contexts, Positions, CpuInv, ForkInv, Forking
<1>2. CpuInv' /\ LockInv' /\ OneCpu'
  BY SMTT(30) DEF CpuInv, LockInv, OneCpu, StateInv, CtxInv, ForkInv, Forking, IrqInv, TickInv
<1>3. StateInv' /\ KstackInv' /\ CtxInv'
  BY SMTT(30) DEF CpuInv, LockInv, OneCpu, StateInv, KstackInv, CtxInv, ForkInv, Forking, IrqInv
<1>4. ForkInv'
  BY SMTT(30) DEF CpuInv, OneCpu, StateInv, LockInv, ForkInv, Forking, IrqInv
<1>5. IrqInv' /\ TickInv'
  BY SMTT(30) DEF CpuInv, LockInv, OneCpu, StateInv, IrqInv, TickInv, ForkInv, Forking, Contexts
<1>. HIDE DEF TypeOK, KillMark, Calls, Executes, SyscallEnd, table, cpus
<1>. QED
  BY <1>1, <1>2, <1>3, <1>4, <1>5

\* ExitCall preserves the inductive invariant.
LEMMA ExitCallInv ==
  ASSUME IInv, NEW c \in Cpu, NEW p \in Slot, ExitCall(c, p)
  PROVE  IInv'
<1>. USE NoneFacts DEF IInv, TypeOK, ExitCall, Calls, Executes, table, cpus
<1>1. TypeOK'
  BY BoundAssumption, SMTT(30) DEF States, Contexts, Positions, CpuInv, ForkInv, Forking
<1>2. CpuInv' /\ LockInv' /\ OneCpu'
  BY SMTT(30) DEF CpuInv, LockInv, OneCpu, StateInv, CtxInv, ForkInv, Forking, IrqInv, TickInv
<1>3. StateInv' /\ KstackInv' /\ CtxInv'
  BY SMTT(30) DEF CpuInv, LockInv, OneCpu, StateInv, KstackInv, CtxInv, ForkInv, Forking, IrqInv
<1>4. ForkInv'
  BY SMTT(30) DEF CpuInv, OneCpu, StateInv, LockInv, ForkInv, Forking, IrqInv
<1>5. IrqInv' /\ TickInv'
  BY SMTT(30) DEF CpuInv, LockInv, OneCpu, StateInv, IrqInv, TickInv, ForkInv, Forking, Contexts
<1>. HIDE DEF TypeOK, ExitCall, Calls, Executes, table, cpus
<1>. QED
  BY <1>1, <1>2, <1>3, <1>4, <1>5

\* ExitClose preserves the inductive invariant.
LEMMA ExitCloseInv ==
  ASSUME IInv, NEW c \in Cpu, NEW p \in Slot, ExitClose(c, p)
  PROVE  IInv'
<1>. USE NoneFacts DEF IInv, TypeOK, ExitClose, Executes, table, cpus
<1>1. TypeOK'
  BY BoundAssumption, SMTT(30) DEF States, Contexts, Positions, CpuInv, ForkInv, Forking
<1>2. CpuInv' /\ LockInv' /\ OneCpu'
  BY SMTT(30) DEF CpuInv, LockInv, OneCpu, StateInv, CtxInv, ForkInv, Forking, IrqInv, TickInv
<1>3. StateInv' /\ KstackInv' /\ CtxInv'
  BY SMTT(30) DEF CpuInv, LockInv, OneCpu, StateInv, KstackInv, CtxInv, ForkInv, Forking, IrqInv
<1>4. ForkInv'
  BY SMTT(30) DEF CpuInv, OneCpu, StateInv, LockInv, ForkInv, Forking, IrqInv
<1>5. IrqInv' /\ TickInv'
  BY SMTT(30) DEF CpuInv, LockInv, OneCpu, StateInv, IrqInv, TickInv, ForkInv, Forking, Contexts
<1>. HIDE DEF TypeOK, ExitClose, Executes, table, cpus
<1>. QED
  BY <1>1, <1>2, <1>3, <1>4, <1>5

\* ExitZombie preserves the inductive invariant.
LEMMA ExitZombieInv ==
  ASSUME IInv, NEW c \in Cpu, NEW p \in Slot, ExitZombie(c, p)
  PROVE  IInv'
<1>. USE NoneFacts DEF IInv, TypeOK, ExitZombie, Executes, table, cpus
<1>a. /\ state' \in [Slot -> States] /\ state'[p] = "ZOMBIE"
      /\ \A q \in Slot \ {p} :
           state'[q] = state[q] \/ (state[q] = "SLEEPING" /\ state'[q] = "RUNNABLE")
  BY ExitStates, ZenonT(30)
<1>1. TypeOK'
  BY <1>a, BoundAssumption, SMTT(30) DEF States, Contexts, Positions, CpuInv, ForkInv, Forking
<1>2. CpuInv' /\ LockInv' /\ OneCpu'
  BY <1>a, SMTT(30) DEF CpuInv, LockInv, OneCpu, StateInv, CtxInv, ForkInv, Forking, IrqInv, TickInv
<1>3. StateInv' /\ KstackInv' /\ CtxInv'
  <2>1. StateInv'
    BY <1>a, SMTT(30) DEF CpuInv, OneCpu, StateInv
  <2>2. KstackInv'
    BY <1>a, SMTT(30) DEF KstackInv, StateInv
  <2>3. CtxInv'
    BY <1>a, SMTT(30) DEF CtxInv
  <2>. QED
    BY <2>1, <2>2, <2>3
<1>4. ForkInv'
  BY <1>a, SMTT(30) DEF CpuInv, OneCpu, StateInv, LockInv, ForkInv, Forking, IrqInv
<1>5. IrqInv' /\ TickInv'
  BY <1>a, SMTT(30) DEF CpuInv, LockInv, OneCpu, StateInv, IrqInv, TickInv, ForkInv, Forking, Contexts
<1>. HIDE DEF TypeOK, ExitZombie, Executes, table, cpus
<1>. QED
  BY <1>1, <1>2, <1>3, <1>4, <1>5

\* WaitReap preserves the inductive invariant.
LEMMA WaitReapInv ==
  ASSUME IInv, NEW c \in Cpu, NEW p \in Slot, NEW z \in Slot, WaitReap(c, p, z)
  PROVE  IInv'
<1>. USE NoneFacts DEF IInv, TypeOK, WaitReap, InWait, Calls, Executes, SyscallEnd, table, cpus
<1>1. TypeOK'
  BY BoundAssumption, SMTT(30) DEF States, Contexts, Positions, CpuInv, ForkInv, Forking
<1>2. CpuInv' /\ LockInv' /\ OneCpu'
  BY SMTT(30) DEF CpuInv, LockInv, OneCpu, StateInv, CtxInv, ForkInv, Forking, IrqInv, TickInv
<1>3. StateInv' /\ KstackInv' /\ CtxInv'
  BY SMTT(30) DEF CpuInv, LockInv, OneCpu, StateInv, KstackInv, CtxInv, ForkInv, Forking, IrqInv
<1>4. ForkInv'
  <2>1. \A q \in Slot : pc'[q] \in Forking => pc'[q] = pc[q] /\ child[q] # z
    BY SMTT(30) DEF ForkInv, Forking
  <2>2. \A q \in Slot : pc'[q] \in Forking => child[q] # p
    BY SMTT(30) DEF ForkInv, StateInv, Forking
  <2>. QED
    BY <2>1, <2>2, SMTT(30) DEF ForkInv
<1>5. IrqInv' /\ TickInv'
  BY SMTT(30) DEF CpuInv, LockInv, OneCpu, StateInv, IrqInv, TickInv, ForkInv, Forking, Contexts
<1>. HIDE DEF TypeOK, WaitReap, InWait, Calls, Executes, SyscallEnd, table, cpus
<1>. QED
  BY <1>1, <1>2, <1>3, <1>4, <1>5

\* WaitFail preserves the inductive invariant.
LEMMA WaitFailInv ==
  ASSUME IInv, NEW c \in Cpu, NEW p \in Slot, WaitFail(c, p)
  PROVE  IInv'
<1>. USE NoneFacts DEF IInv, TypeOK, WaitFail, InWait, Calls, Executes, SyscallEnd, table, cpus
<1>1. TypeOK'
  BY BoundAssumption, SMTT(30) DEF States, Contexts, Positions, CpuInv, ForkInv, Forking
<1>2. CpuInv' /\ LockInv' /\ OneCpu'
  BY SMTT(30) DEF CpuInv, LockInv, OneCpu, StateInv, CtxInv, ForkInv, Forking, IrqInv, TickInv
<1>3. StateInv' /\ KstackInv' /\ CtxInv'
  BY SMTT(30) DEF CpuInv, LockInv, OneCpu, StateInv, KstackInv, CtxInv, ForkInv, Forking, IrqInv
<1>4. ForkInv'
  BY SMTT(30) DEF CpuInv, OneCpu, StateInv, LockInv, ForkInv, Forking, IrqInv
<1>5. IrqInv' /\ TickInv'
  BY SMTT(30) DEF CpuInv, LockInv, OneCpu, StateInv, IrqInv, TickInv, ForkInv, Forking, Contexts
<1>. HIDE DEF TypeOK, WaitFail, InWait, Calls, Executes, SyscallEnd, table, cpus
<1>. QED
  BY <1>1, <1>2, <1>3, <1>4, <1>5

\* WaitSleep preserves the inductive invariant.
LEMMA WaitSleepInv ==
  ASSUME IInv, NEW c \in Cpu, NEW p \in Slot, WaitSleep(c, p)
  PROVE  IInv'
<1>. USE NoneFacts DEF IInv, TypeOK, WaitSleep, InWait, Calls, Executes, table, cpus
<1>1. TypeOK'
  BY BoundAssumption, SMTT(30) DEF States, Contexts, Positions, CpuInv, ForkInv, Forking
<1>2. CpuInv' /\ LockInv' /\ OneCpu'
  BY SMTT(30) DEF CpuInv, LockInv, OneCpu, StateInv, CtxInv, ForkInv, Forking, IrqInv, TickInv
<1>3. StateInv' /\ KstackInv' /\ CtxInv'
  BY SMTT(30) DEF CpuInv, LockInv, OneCpu, StateInv, KstackInv, CtxInv, ForkInv, Forking, IrqInv
<1>4. ForkInv'
  BY SMTT(30) DEF CpuInv, OneCpu, StateInv, LockInv, ForkInv, Forking, IrqInv
<1>5. IrqInv' /\ TickInv'
  BY SMTT(30) DEF CpuInv, LockInv, OneCpu, StateInv, IrqInv, TickInv, ForkInv, Forking, Contexts
<1>. HIDE DEF TypeOK, WaitSleep, InWait, Calls, Executes, table, cpus
<1>. QED
  BY <1>1, <1>2, <1>3, <1>4, <1>5

\* SleepCall preserves the inductive invariant.
LEMMA SleepCallInv ==
  ASSUME IInv, NEW c \in Cpu, NEW p \in Slot, NEW n \in SleepArgs, SleepCall(c, p, n)
  PROVE  IInv'
<1>. USE NoneFacts DEF IInv, TypeOK, SleepCall, Calls, Executes, table, cpus
<1>1. TypeOK'
  BY BoundAssumption, SMTT(30) DEF States, Contexts, Positions, CpuInv, ForkInv, Forking
<1>2. CpuInv' /\ LockInv' /\ OneCpu'
  BY SMTT(30) DEF CpuInv, LockInv, OneCpu, StateInv, CtxInv, ForkInv, Forking, IrqInv, TickInv
<1>3. StateInv' /\ KstackInv' /\ CtxInv'
  BY SMTT(30) DEF CpuInv, LockInv, OneCpu, StateInv, KstackInv, CtxInv, ForkInv, Forking, IrqInv
<1>4. ForkInv'
  BY SMTT(30) DEF CpuInv, OneCpu, StateInv, LockInv, ForkInv, Forking, IrqInv
<1>5. IrqInv' /\ TickInv'
  BY SMTT(30) DEF CpuInv, LockInv, OneCpu, StateInv, IrqInv, TickInv, ForkInv, Forking, Contexts
<1>. HIDE DEF TypeOK, SleepCall, Calls, Executes, table, cpus
<1>. QED
  BY <1>1, <1>2, <1>3, <1>4, <1>5

\* SleepTest preserves the inductive invariant.
LEMMA SleepTestInv ==
  ASSUME IInv, NEW c \in Cpu, NEW p \in Slot, SleepTest(c, p)
  PROVE  IInv'
<1>. USE NoneFacts DEF IInv, TypeOK, SleepTest, Executes, SyscallEnd, table, cpus
<1>1. TypeOK'
  BY BoundAssumption, SMTT(30) DEF States, Contexts, Positions, CpuInv, ForkInv, Forking
<1>2. CpuInv' /\ LockInv' /\ OneCpu'
  BY SMTT(30) DEF CpuInv, LockInv, OneCpu, StateInv, CtxInv, ForkInv, Forking, IrqInv, TickInv
<1>3. StateInv' /\ KstackInv' /\ CtxInv'
  BY SMTT(30) DEF CpuInv, LockInv, OneCpu, StateInv, KstackInv, CtxInv, ForkInv, Forking, IrqInv
<1>4. ForkInv'
  BY SMTT(30) DEF CpuInv, OneCpu, StateInv, LockInv, ForkInv, Forking, IrqInv
<1>5. IrqInv' /\ TickInv'
  BY SMTT(30) DEF CpuInv, LockInv, OneCpu, StateInv, IrqInv, TickInv, ForkInv, Forking, Contexts
<1>. HIDE DEF TypeOK, SleepTest, Executes, SyscallEnd, table, cpus
<1>. QED
  BY <1>1, <1>2, <1>3, <1>4, <1>5

\* SleepSched preserves the inductive invariant.
LEMMA SleepSchedInv ==
  ASSUME IInv, NEW c \in Cpu, NEW p \in Slot, SleepSched(c, p)
  PROVE  IInv'
<1>. USE NoneFacts DEF IInv, TypeOK, SleepSched, Executes, table, cpus
<1>1. TypeOK'
  BY BoundAssumption, SMTT(30) DEF States, Contexts, Positions, CpuInv, ForkInv, Forking
<1>2. CpuInv' /\ LockInv' /\ OneCpu'
  BY SMTT(30) DEF CpuInv, LockInv, OneCpu, StateInv, CtxInv, ForkInv, Forking, IrqInv, TickInv
<1>3. StateInv' /\ KstackInv' /\ CtxInv'
  BY SMTT(30) DEF CpuInv, LockInv, OneCpu, StateInv, KstackInv, CtxInv, ForkInv, Forking, IrqInv
<1>4. ForkInv'
  BY SMTT(30) DEF CpuInv, OneCpu, StateInv, LockInv, ForkInv, Forking, IrqInv
<1>5. IrqInv' /\ TickInv'
  BY SMTT(30) DEF CpuInv, LockInv, OneCpu, StateInv, IrqInv, TickInv, ForkInv, Forking, Contexts
<1>. HIDE DEF TypeOK, SleepSched, Executes, table, cpus
<1>. QED
  BY <1>1, <1>2, <1>3, <1>4, <1>5

\* SleepReacquire preserves the inductive invariant.
LEMMA SleepReacquireInv ==
  ASSUME IInv, NEW c \in Cpu, NEW p \in Slot, SleepReacquire(c, p)
  PROVE  IInv'
<1>. USE NoneFacts DEF IInv, TypeOK, SleepReacquire, Executes, table, cpus
<1>1. TypeOK'
  BY BoundAssumption, SMTT(30) DEF States, Contexts, Positions, CpuInv, ForkInv, Forking
<1>2. CpuInv' /\ LockInv' /\ OneCpu'
  BY SMTT(30) DEF CpuInv, LockInv, OneCpu, StateInv, CtxInv, ForkInv, Forking, IrqInv, TickInv
<1>3. StateInv' /\ KstackInv' /\ CtxInv'
  BY SMTT(30) DEF CpuInv, LockInv, OneCpu, StateInv, KstackInv, CtxInv, ForkInv, Forking, IrqInv
<1>4. ForkInv'
  BY SMTT(30) DEF CpuInv, OneCpu, StateInv, LockInv, ForkInv, Forking, IrqInv
<1>5. IrqInv' /\ TickInv'
  BY SMTT(30) DEF CpuInv, LockInv, OneCpu, StateInv, IrqInv, TickInv, ForkInv, Forking, Contexts
<1>. HIDE DEF TypeOK, SleepReacquire, Executes, table, cpus
<1>. QED
  BY <1>1, <1>2, <1>3, <1>4, <1>5

\* SwtchIn preserves the inductive invariant.
LEMMA SwtchInInv ==
  ASSUME IInv, NEW c \in Cpu, NEW p \in Slot, SwtchIn(c, p)
  PROVE  IInv'
<1>. USE NoneFacts DEF IInv, TypeOK, SwtchIn, SyscallEnd, table, cpus
<1>1. TypeOK'
  BY BoundAssumption, SMTT(30) DEF States, Contexts, Positions, CpuInv, ForkInv, Forking
<1>2. CpuInv' /\ LockInv' /\ OneCpu'
  BY SMTT(30) DEF CpuInv, LockInv, OneCpu, StateInv, CtxInv, ForkInv, Forking, IrqInv, TickInv
<1>3. StateInv' /\ KstackInv' /\ CtxInv'
  BY SMTT(30) DEF CpuInv, LockInv, OneCpu, StateInv, KstackInv, CtxInv, ForkInv, Forking, IrqInv
<1>4. ForkInv'
  BY SMTT(30) DEF CpuInv, OneCpu, StateInv, LockInv, ForkInv, Forking, IrqInv
<1>5. IrqInv' /\ TickInv'
  BY SMTT(30) DEF CpuInv, LockInv, OneCpu, StateInv, IrqInv, TickInv, ForkInv, Forking, Contexts
<1>. HIDE DEF TypeOK, SwtchIn, SyscallEnd, table, cpus
<1>. QED
  BY <1>1, <1>2, <1>3, <1>4, <1>5

\* TimerIrq preserves the inductive invariant.
LEMMA TimerIrqInv ==
  ASSUME IInv, NEW c \in Cpu, TimerIrq(c)
  PROVE  IInv'
<1>. USE NoneFacts DEF IInv, TypeOK, TimerIrq, Interruptible, table, cpus
<1>1. TypeOK'
  BY BoundAssumption, SMTT(30) DEF States, Contexts, Positions, CpuInv, ForkInv, Forking
<1>2. CpuInv' /\ LockInv' /\ OneCpu'
  BY SMTT(30) DEF CpuInv, LockInv, OneCpu, StateInv, CtxInv, ForkInv, Forking, IrqInv, TickInv
<1>3. StateInv' /\ KstackInv' /\ CtxInv'
  BY SMTT(30) DEF CpuInv, LockInv, OneCpu, StateInv, KstackInv, CtxInv, ForkInv, Forking, IrqInv
<1>4. ForkInv'
  BY SMTT(30) DEF CpuInv, OneCpu, StateInv, LockInv, ForkInv, Forking, IrqInv
<1>5. IrqInv' /\ TickInv'
  BY SMTT(30) DEF CpuInv, LockInv, OneCpu, StateInv, IrqInv, TickInv, ForkInv, Forking, Contexts
<1>. HIDE DEF TypeOK, TimerIrq, Interruptible, table, cpus
<1>. QED
  BY <1>1, <1>2, <1>3, <1>4, <1>5

\* TimerTick preserves the inductive invariant.
LEMMA TimerTickInv ==
  ASSUME IInv, NEW c \in Cpu, TimerTick(c)
  PROVE  IInv'
<1>. USE NoneFacts DEF IInv, TypeOK, TimerTick, table, cpus
<1>1. TypeOK'
  BY BoundAssumption, SMTT(30) DEF States, Contexts, Positions, CpuInv, ForkInv, Forking
<1>2. CpuInv' /\ LockInv' /\ OneCpu'
  BY SMTT(30) DEF CpuInv, LockInv, OneCpu, StateInv, CtxInv, ForkInv, Forking, IrqInv, TickInv
<1>3. StateInv' /\ KstackInv' /\ CtxInv'
  BY SMTT(30) DEF CpuInv, LockInv, OneCpu, StateInv, KstackInv, CtxInv, ForkInv, Forking, IrqInv
<1>4. ForkInv'
  BY SMTT(30) DEF CpuInv, OneCpu, StateInv, LockInv, ForkInv, Forking, IrqInv
<1>5. IrqInv' /\ TickInv'
  BY SMTT(30) DEF CpuInv, LockInv, OneCpu, StateInv, IrqInv, TickInv, ForkInv, Forking, Contexts
<1>. HIDE DEF TypeOK, TimerTick, table, cpus
<1>. QED
  BY <1>1, <1>2, <1>3, <1>4, <1>5

\* TimerWakeup preserves the inductive invariant.
LEMMA TimerWakeupInv ==
  ASSUME IInv, NEW c \in Cpu, TimerWakeup(c)
  PROVE  IInv'
<1>. USE NoneFacts DEF IInv, TypeOK, TimerWakeup, wakeup1, table, cpus
<1>1. TypeOK'
  BY BoundAssumption, SMTT(30) DEF States, Contexts, Positions, CpuInv, ForkInv, Forking
<1>2. CpuInv' /\ LockInv' /\ OneCpu'
  BY SMTT(30) DEF CpuInv, LockInv, OneCpu, StateInv, CtxInv, ForkInv, Forking, IrqInv, TickInv
<1>3. StateInv' /\ KstackInv' /\ CtxInv'
  BY SMTT(30) DEF CpuInv, LockInv, OneCpu, StateInv, KstackInv, CtxInv, ForkInv, Forking, IrqInv
<1>4. ForkInv'
  BY SMTT(30) DEF CpuInv, OneCpu, StateInv, LockInv, ForkInv, Forking, IrqInv
<1>5. IrqInv' /\ TickInv'
  BY SMTT(30) DEF CpuInv, LockInv, OneCpu, StateInv, IrqInv, TickInv, ForkInv, Forking, Contexts
<1>. HIDE DEF TypeOK, TimerWakeup, wakeup1, table, cpus
<1>. QED
  BY <1>1, <1>2, <1>3, <1>4, <1>5

\* TimerIdle preserves the inductive invariant.
LEMMA TimerIdleInv ==
  ASSUME IInv, NEW c \in Cpu, TimerIdle(c)
  PROVE  IInv'
<1>. USE NoneFacts DEF IInv, TypeOK, TimerIdle, table, cpus
<1>1. TypeOK'
  BY BoundAssumption, SMTT(30) DEF States, Contexts, Positions, CpuInv, ForkInv, Forking
<1>2. CpuInv' /\ LockInv' /\ OneCpu'
  BY SMTT(30) DEF CpuInv, LockInv, OneCpu, StateInv, CtxInv, ForkInv, Forking, IrqInv, TickInv
<1>3. StateInv' /\ KstackInv' /\ CtxInv'
  BY SMTT(30) DEF CpuInv, LockInv, OneCpu, StateInv, KstackInv, CtxInv, ForkInv, Forking, IrqInv
<1>4. ForkInv'
  BY SMTT(30) DEF CpuInv, OneCpu, StateInv, LockInv, ForkInv, Forking, IrqInv
<1>5. IrqInv' /\ TickInv'
  BY SMTT(30) DEF CpuInv, LockInv, OneCpu, StateInv, IrqInv, TickInv, ForkInv, Forking, Contexts
<1>. HIDE DEF TypeOK, TimerIdle, table, cpus
<1>. QED
  BY <1>1, <1>2, <1>3, <1>4, <1>5

\* TimerExit preserves the inductive invariant.
LEMMA TimerExitInv ==
  ASSUME IInv, NEW c \in Cpu, NEW p \in Slot, TimerExit(c, p)
  PROVE  IInv'
<1>. USE NoneFacts DEF IInv, TypeOK, TimerExit, table, cpus
<1>1. TypeOK'
  BY BoundAssumption, SMTT(30) DEF States, Contexts, Positions, CpuInv, ForkInv, Forking
<1>2. CpuInv' /\ LockInv' /\ OneCpu'
  BY SMTT(30) DEF CpuInv, LockInv, OneCpu, StateInv, CtxInv, ForkInv, Forking, IrqInv, TickInv
<1>3. StateInv' /\ KstackInv' /\ CtxInv'
  BY SMTT(30) DEF CpuInv, LockInv, OneCpu, StateInv, KstackInv, CtxInv, ForkInv, Forking, IrqInv
<1>4. ForkInv'
  BY SMTT(30) DEF CpuInv, OneCpu, StateInv, LockInv, ForkInv, Forking, IrqInv
<1>5. IrqInv' /\ TickInv'
  BY SMTT(30) DEF CpuInv, LockInv, OneCpu, StateInv, IrqInv, TickInv, ForkInv, Forking, Contexts
<1>. HIDE DEF TypeOK, TimerExit, table, cpus
<1>. QED
  BY <1>1, <1>2, <1>3, <1>4, <1>5

\* TimerYield preserves the inductive invariant.
LEMMA TimerYieldInv ==
  ASSUME IInv, NEW c \in Cpu, NEW p \in Slot, TimerYield(c, p)
  PROVE  IInv'
<1>. USE NoneFacts DEF IInv, TypeOK, TimerYield, table, cpus
<1>1. TypeOK'
  BY BoundAssumption, SMTT(30) DEF States, Contexts, Positions, CpuInv, ForkInv, Forking
<1>2. CpuInv' /\ LockInv' /\ OneCpu'
  BY SMTT(30) DEF CpuInv, LockInv, OneCpu, StateInv, CtxInv, ForkInv, Forking, IrqInv, TickInv
<1>3. StateInv' /\ KstackInv' /\ CtxInv'
  BY SMTT(30) DEF CpuInv, LockInv, OneCpu, StateInv, KstackInv, CtxInv, ForkInv, Forking, IrqInv
<1>4. ForkInv'
  BY SMTT(30) DEF CpuInv, OneCpu, StateInv, LockInv, ForkInv, Forking, IrqInv
<1>5. IrqInv' /\ TickInv'
  BY SMTT(30) DEF CpuInv, LockInv, OneCpu, StateInv, IrqInv, TickInv, ForkInv, Forking, Contexts
<1>. HIDE DEF TypeOK, TimerYield, table, cpus
<1>. QED
  BY <1>1, <1>2, <1>3, <1>4, <1>5

\* The initial state satisfies the inductive invariant.
LEMMA InitIInv == Init => IInv
<1>. SUFFICES ASSUME Init PROVE IInv
  OBVIOUS
<1>. USE NoneFacts DEF Init
<1>1. TypeOK
  BY NprocAssumption DEF TypeOK, States, Contexts, Positions, Slot, initproc
<1>2. CpuInv /\ LockInv /\ OneCpu /\ StateInv /\ KstackInv
  BY ZenonT(30) DEF CpuInv, LockInv, OneCpu, StateInv, KstackInv
<1>3. CtxInv /\ ForkInv /\ IrqInv /\ TickInv
  BY SMTT(30) DEF CtxInv, ForkInv, IrqInv, TickInv, Forking
<1>. QED
  BY <1>1, <1>2, <1>3 DEF IInv

\* Every step preserves it.
LEMMA NextIInv == IInv /\ [Next]_vars => IInv'
<1>. SUFFICES ASSUME IInv, [Next]_vars PROVE IInv'
  OBVIOUS
<1>1. CASE UNCHANGED vars
  <2>1. TypeOK'
    BY <1>1 DEF vars, IInv, TypeOK
  <2>2. CpuInv' /\ LockInv'
    BY <1>1, ZenonT(30) DEF vars, IInv, CpuInv, LockInv
  <2>3. OneCpu' /\ StateInv'
    BY <1>1, ZenonT(30) DEF vars, IInv, OneCpu, StateInv
  <2>4. KstackInv' /\ TickInv'
    BY <1>1, ZenonT(30) DEF vars, IInv, KstackInv, TickInv
  <2>5. CtxInv'
    BY <1>1 DEF vars, IInv, CtxInv
  <2>6. ForkInv'
    BY <1>1 DEF vars, IInv, ForkInv
  <2>7. IrqInv'
    BY <1>1 DEF vars, IInv, IrqInv
  <2>. QED
    BY <2>1, <2>2, <2>3, <2>4, <2>5, <2>6, <2>7 DEF IInv
<1>2. ASSUME NEW c \in Cpu, Scheduler(c) PROVE IInv'
  BY <1>2, SchedHltInv, SchedAcquireInv, SchedSwtchInv, SchedEndInv, SwtchOutInv
     DEF Scheduler
<1>3. ASSUME NEW c \in Cpu, TimerIrq(c) PROVE IInv'
  BY <1>3, TimerIrqInv
<1>4. ASSUME NEW c \in Cpu, TimerStep(c) PROVE IInv'
  BY <1>4, TimerTickInv, TimerWakeupInv, TimerIdleInv, TimerExitInv, TimerYieldInv
     DEF TimerStep
<1>5. ASSUME NEW c \in Cpu, NEW p \in Slot, Wait(c, p) PROVE IInv'
  BY <1>5, WaitReapInv, WaitFailInv, WaitSleepInv DEF Wait
<1>6. ASSUME NEW c \in Cpu, NEW p \in Slot, UserStep(c, p) PROVE IInv'
  BY <1>5, <1>6, TrapFaultInv, ExitCallInv, ForkAllocInv, KillMarkInv, SleepCallInv
     DEF UserStep
<1>7. ASSUME NEW c \in Cpu, NEW p \in Slot, KernelStep(c, p) PROVE IInv'
  BY <1>7, TrapKilledInv, ForkKstackInv, ForkNoKstackInv, ForkCopyInv, ForkNoCopyInv,
     ForkPublishInv, ExitCloseInv, ExitZombieInv, SleepTestInv, SleepSchedInv,
     SleepReacquireInv
     DEF KernelStep
<1>8. ASSUME NEW c \in Cpu, NEW p \in Slot, Resume(c, p) PROVE IInv'
  BY <1>5, <1>8, SwtchInInv DEF Resume
<1>. QED
  BY <1>1, <1>2, <1>3, <1>4, <1>6, <1>7, <1>8 DEF Next

\* The inductive invariant holds in every reachable state.
THEOREM Invariance == Spec => []IInv
BY InitIInv, NextIInv, PTL DEF Spec

\* Every variable of the process table and of the scheduler keeps its type.
THEOREM TypeCorrect == Spec => []TypeOK
<1>1. IInv => TypeOK
  BY DEF IInv
<1>. QED
  BY <1>1, Invariance, PTL

\* For any number of processors and slots, the hand-over of ptable.lock across
\* swtch keeps every kernel stack in the hands of one processor, and allocated
\* for as long as that processor uses it (sched() and scheduler() in proc.c).
THEOREM StackSafety == Spec => []StackExclusive
<1>1. IInv => StackExclusive
  BY NoneFacts DEF IInv, TypeOK, StackExclusive, OneCpu, StateInv, KstackInv
<1>. QED
  BY <1>1, Invariance, PTL

\* The panics of sched() in proc.c cannot be reached from any of its callers.
THEOREM SchedSafety == Spec => []SchedAsserts
<1>1. IInv => SchedAsserts
  BY NoneFacts DEF IInv, TypeOK, SchedAsserts, CpuInv, LockInv, StateInv, TickInv, IrqInv
<1>. QED
  BY <1>1, Invariance, PTL

-----------------------------------------------------------------------------
(***************************************************************************)
(* Relative to that invariant: every process has a parent that can wait    *)
(* for it, and no sleeper misses its wakeup.                               *)
(***************************************************************************)
Alive == {"SLEEPING", "RUNNABLE", "RUNNING"}
Sleeping == {"ticks", "dosleep"}   \* sys_sleep() in its loop

\* init never exits and is nobody's child.
InitInv ==
  state[initproc] \in Alive /\ parent[initproc] = None /\ pc[initproc] # "exiting"

NotOwnParent == \A p \in Slot : parent[p] # p

\* The child that fork() is about to publish is attached to the forking process.
PublishInv == \A p \in Slot : pc[p] = "publish" => parent[child[p]] = p

FamilyInv == InitInv /\ NotOwnParent /\ PublishInv /\ ParentAlive

\* sys_sleep() holds tickslock from the test of the time left to the call of
\* sched(): no tick comes in between.
TickHeldInv ==
  \A p \in Slot : pc[p] \in Sleeping =>
    /\ tickslock \in Cpu /\ proc[tickslock] = p /\ ctx[p] = "none"
    /\ irq[tickslock] = "none"
    /\ pc[p] = "dosleep" => left[p] > 0

\* Only the first processor counts ticks, and it wakes sleepers under tickslock.
TickCpuInv ==
  \A c \in Cpu : /\ irq[c] \in {"tick", "wakeup"} => c = 1
                 /\ irq[c] = "wakeup" => tickslock = c

SleepInv == TickHeldInv /\ TickCpuInv

-----------------------------------------------------------------------------
\* What a step must keep for the families to stay as they are.
FamilyKept ==
  /\ parent' = parent /\ child' = child
  /\ \A q \in Slot : /\ state'[q] = state[q] \/ {state[q], state'[q]} \subseteq Alive
                     /\ pc'[q] = pc[q] \/ pc'[q] \notin {"exiting", "publish"}

\* What a step must keep for no sleeper to miss a wakeup.
SleepersKept ==
  /\ \A q \in Slot :
       /\ state'[q] = "SLEEPING" => /\ state[q] = "SLEEPING" /\ chan'[q] = chan[q]
                                    /\ (killed'[q] => killed[q]) /\ left'[q] = left[q]
       /\ state'[q] = "ZOMBIE" => state[q] = "ZOMBIE" /\ parent'[q] = parent[q]
  /\ irq[1] = "wakeup" => irq'[1] = "wakeup"

\* Steps that keep the families keep the invariant about them.
LEMMA FamilyFrame ==
  ASSUME IInv, FamilyInv, FamilyKept
  PROVE  FamilyInv'
<1>. USE NoneFacts DEF FamilyKept, Alive
<1>1. InitInv'
  BY DEF FamilyInv, InitInv, initproc
<1>2. NotOwnParent'
  BY DEF FamilyInv, NotOwnParent
<1>3. PublishInv'
  BY DEF FamilyInv, PublishInv
<1>4. ParentAlive'
  <2>. SUFFICES ASSUME NEW p \in Slot \ {initproc},
                       state'[p] \in {"SLEEPING", "RUNNABLE", "RUNNING", "ZOMBIE"}
                PROVE  parent'[p] # None /\ state'[parent'[p]] \in Alive
    BY DEF ParentAlive
  <2>1. state[p] \in {"SLEEPING", "RUNNABLE", "RUNNING", "ZOMBIE"} /\ parent'[p] = parent[p]
    OBVIOUS
  <2>2. parent[p] # None /\ state[parent[p]] \in Alive
    BY <2>1 DEF FamilyInv, ParentAlive
  <2>3. parent[p] \in Slot
    BY <2>2 DEF IInv, TypeOK
  <2>4. state'[parent[p]] \in Alive
    BY <2>2, <2>3
  <2>. QED
    BY <2>1, <2>2, <2>4
<1>. QED
  BY <1>1, <1>2, <1>3, <1>4 DEF FamilyInv

\* Steps that keep the sleepers make none of them miss its wakeup.
LEMMA SleepersFrame ==
  ASSUME NoMissedWakeup, SleepersKept
  PROVE  NoMissedWakeup'
<1>. SUFFICES ASSUME NEW x \in Slot, state'[x] = "SLEEPING"
              PROVE  /\ chan'[x] = x => /\ ~killed'[x]
                                        /\ \A q \in Slot : parent'[q] = x => state'[q] # "ZOMBIE"
                     /\ chan'[x] = Ticks /\ left'[x] = 0 => irq'[1] = "wakeup"
  BY DEF NoMissedWakeup
<1>1. /\ state[x] = "SLEEPING" /\ chan'[x] = chan[x] /\ (killed'[x] => killed[x])
      /\ left'[x] = left[x] /\ (irq[1] = "wakeup" => irq'[1] = "wakeup")
      /\ \A q \in Slot : state'[q] = "ZOMBIE" => state[q] = "ZOMBIE" /\ parent'[q] = parent[q]
  BY Zenon DEF SleepersKept
<1>2. /\ chan[x] = x => ~killed[x] /\ \A q \in Slot : parent[q] = x => state[q] # "ZOMBIE"
      /\ chan[x] = Ticks /\ left[x] = 0 => irq[1] = "wakeup"
  BY <1>1, Zenon DEF NoMissedWakeup
<1>. QED
  BY <1>1, <1>2, ZenonT(40)

-----------------------------------------------------------------------------
\* The actions of Next, one by one.
Step(c, p) ==
  \/ SchedHlt(c)
  \/ SchedAcquire(c)
  \/ SchedSwtch(c, p)
  \/ SchedEnd(c)
  \/ SwtchOut(c)
  \/ TrapKilled(c, p)
  \/ TrapFault(c, p)
  \/ \E s \in Slot : ForkAlloc(c, p, s)
  \/ ForkKstack(c, p)
  \/ ForkNoKstack(c, p)
  \/ ForkCopy(c, p)
  \/ ForkNoCopy(c, p)
  \/ ForkPublish(c, p)
  \/ \E k \in KillPids, t \in Slot : KillMark(c, p, k, t)
  \/ ExitCall(c, p)
  \/ ExitClose(c, p)
  \/ ExitZombie(c, p)
  \/ \E z \in Slot : WaitReap(c, p, z)
  \/ WaitFail(c, p)
  \/ WaitSleep(c, p)
  \/ \E n \in SleepArgs : SleepCall(c, p, n)
  \/ SleepTest(c, p)
  \/ SleepSched(c, p)
  \/ SleepReacquire(c, p)
  \/ SwtchIn(c, p)
  \/ TimerIrq(c)
  \/ TimerTick(c)
  \/ TimerWakeup(c)
  \/ TimerIdle(c)
  \/ TimerExit(c, p)
  \/ TimerYield(c, p)

\* Next takes one of them.
LEMMA NextSteps == Next => \E c \in Cpu, p \in Slot : Step(c, p)
<1>. SUFFICES ASSUME NEW c \in Cpu,
                     \/ Scheduler(c) \/ TimerIrq(c) \/ TimerStep(c)
                     \/ \E p \in Slot : UserStep(c, p) \/ KernelStep(c, p) \/ Resume(c, p)
              PROVE  \E p \in Slot : Step(c, p)
  BY DEF Next
<1>1. CASE Scheduler(c)
  BY <1>1, NoneFacts DEF Scheduler, Step
<1>2. CASE TimerIrq(c) \/ TimerStep(c)
  BY <1>2, NoneFacts DEF TimerStep, Step
<1>3. ASSUME NEW p \in Slot, UserStep(c, p) PROVE Step(c, p)
  BY <1>3 DEF UserStep, Wait, Step
<1>4. ASSUME NEW p \in Slot, KernelStep(c, p) PROVE Step(c, p)
  BY <1>4 DEF KernelStep, Step
<1>5. ASSUME NEW p \in Slot, Resume(c, p) PROVE Step(c, p)
  BY <1>5 DEF Resume, Wait, Step
<1>. QED
  BY <1>1, <1>2, <1>3, <1>4, <1>5

\* The slot that fork() fills is not the parent of anybody, nor initproc, nor
\* the forking process.
LEMMA EmbryoFacts ==
  ASSUME IInv, FamilyInv, NEW c \in Cpu, NEW p \in Slot, Executes(c, p), pc[p] \in Forking
  PROVE  /\ child[p] \in Slot /\ child[p] \notin {p, initproc}
         /\ state[p] = "RUNNING" /\ state[child[p]] = "EMBRYO"
         /\ \A q \in Slot \ {p} : pc[q] = "publish" => child[q] # child[p]
BY NoneFacts, SMTT(30)
   DEF IInv, TypeOK, Executes, StateInv, ForkInv, Forking, FamilyInv, InitInv, Alive

\* fork() keeps the invariant of the families when it takes a slot.
LEMMA ForkAllocFamily ==
  ASSUME IInv, FamilyInv, NEW c \in Cpu, NEW p \in Slot, NEW s \in Slot, ForkAlloc(c, p, s)
  PROVE  FamilyInv'
<1>. USE NoneFacts DEF IInv, TypeOK, FamilyInv, ForkAlloc, Calls, Executes, Alive
<1>1. InitInv'
  BY DEF InitInv, initproc
<1>2. NotOwnParent'
  BY DEF NotOwnParent
<1>3. PublishInv'
  BY DEF PublishInv
<1>4. ParentAlive'
  BY SMTT(30) DEF ParentAlive
<1>. HIDE DEF IInv, TypeOK, ForkAlloc, Calls, Executes
<1>. QED
  BY <1>1, <1>2, <1>3, <1>4

\* fork() keeps the invariant of the families when it gives the slot back.
LEMMA ForkFailFamily ==
  ASSUME IInv, FamilyInv, NEW c \in Cpu, NEW p \in Slot,
         ForkNoKstack(c, p) \/ ForkNoCopy(c, p)
  PROVE  FamilyInv'
<1>0. Executes(c, p) /\ pc[p] \in Forking
  BY DEF ForkNoKstack, ForkNoCopy, Forking
<1>a. /\ child[p] \in Slot /\ child[p] \notin {p, initproc} /\ state[child[p]] = "EMBRYO"
  BY <1>0, EmbryoFacts
<1>b. /\ parent' = parent /\ state' = [state EXCEPT ![child[p]] = "UNUSED"]
      /\ child' = [child EXCEPT ![p] = None]
      /\ pc' = [pc EXCEPT ![p] = SyscallEnd(p, killed)]
  BY DEF ForkNoKstack, ForkNoCopy
<1>. USE <1>a, <1>b, NoneFacts DEF IInv, TypeOK, FamilyInv, SyscallEnd, Alive
<1>1. InitInv'
  BY DEF InitInv, initproc
<1>2. NotOwnParent'
  BY DEF NotOwnParent
<1>3. PublishInv'
  BY DEF PublishInv
<1>4. ParentAlive'
  BY SMTT(30) DEF ParentAlive
<1>. HIDE DEF IInv, TypeOK, SyscallEnd
<1>. QED
  BY <1>1, <1>2, <1>3, <1>4

\* fork() keeps the invariant of the families when it attaches the child.
LEMMA ForkCopyFamily ==
  ASSUME IInv, FamilyInv, NEW c \in Cpu, NEW p \in Slot, ForkCopy(c, p)
  PROVE  FamilyInv'
<1>a. /\ child[p] \in Slot /\ child[p] \notin {p, initproc} /\ state[child[p]] = "EMBRYO"
      /\ \A q \in Slot \ {p} : pc[q] = "publish" => child[q] # child[p]
  BY EmbryoFacts DEF ForkCopy, Forking
<1>. USE <1>a, NoneFacts DEF IInv, TypeOK, FamilyInv, ForkCopy, Alive
<1>1. InitInv'
  BY DEF InitInv, initproc
<1>2. NotOwnParent'
  BY DEF NotOwnParent
<1>3. PublishInv'
  BY DEF PublishInv, ForkInv, Forking
<1>4. ParentAlive'
  <2>1. /\ parent' = [parent EXCEPT ![child[p]] = p]
        /\ state' = state /\ parent \in [Slot -> Slot \cup {None}] /\ p # None
    OBVIOUS
  <2>2. ParentAlive /\ child[p] \in Slot /\ state[child[p]] = "EMBRYO"
    OBVIOUS
  <2>. HIDE DEF IInv, TypeOK, ForkCopy, FamilyInv
  <2>3. \A q \in Slot : q # child[p] => parent'[q] = parent[q]
    BY <2>1, Zenon
  <2>. QED
    BY <2>1, <2>2, <2>3, Zenon DEF ParentAlive
<1>. HIDE DEF IInv, TypeOK, ForkCopy
<1>. QED
  BY <1>1, <1>2, <1>3, <1>4

\* The child that fork() publishes has a running parent.
LEMMA ForkPublishFamily ==
  ASSUME IInv, FamilyInv, NEW c \in Cpu, NEW p \in Slot, ForkPublish(c, p)
  PROVE  FamilyInv'
<1>a. /\ child[p] \in Slot /\ child[p] \notin {p, initproc}
      /\ state[p] = "RUNNING" /\ state[child[p]] = "EMBRYO"
  BY EmbryoFacts DEF ForkPublish, Forking
<1>. USE <1>a, NoneFacts DEF IInv, TypeOK, FamilyInv, ForkPublish, SyscallEnd, Alive
<1>1. InitInv'
  BY DEF InitInv, initproc
<1>2. NotOwnParent'
  BY DEF NotOwnParent
<1>3. PublishInv'
  BY DEF PublishInv
<1>4. ParentAlive'
  <2>1. parent[child[p]] = p
    BY DEF PublishInv
  <2>. QED
    BY <2>1, SMTT(30) DEF ParentAlive
<1>. HIDE DEF IInv, TypeOK, ForkPublish, SyscallEnd
<1>. QED
  BY <1>1, <1>2, <1>3, <1>4

\* init does not start to exit.
LEMMA ExitCloseFamily ==
  ASSUME IInv, FamilyInv, NEW c \in Cpu, NEW p \in Slot, ExitClose(c, p)
  PROVE  FamilyInv'
<1>. USE NoneFacts DEF IInv, TypeOK, FamilyInv, ExitClose
<1>1. InitInv'
  BY DEF InitInv, initproc
<1>2. NotOwnParent' /\ PublishInv'
  BY DEF NotOwnParent, PublishInv
<1>3. ParentAlive'
  BY DEF ParentAlive
<1>. HIDE DEF IInv, TypeOK, ExitClose
<1>. QED
  BY <1>1, <1>2, <1>3

\* exit() hands its children to init, which is alive, and keeps its own parent.
LEMMA ExitZombieFamily ==
  ASSUME IInv, FamilyInv, NEW c \in Cpu, NEW p \in Slot, ExitZombie(c, p)
  PROVE  FamilyInv'
<1>a. /\ state'[p] = "ZOMBIE"
      /\ \A q \in Slot \ {p} :
           state'[q] = state[q] \/ (state[q] = "SLEEPING" /\ state'[q] = "RUNNABLE")
  BY ExitStates DEF IInv, TypeOK, ExitZombie
<1>b. /\ p # initproc /\ state[p] = "RUNNING" /\ pc' = pc /\ child' = child
      /\ parent' = [q \in Slot |-> IF parent[q] = p THEN initproc ELSE parent[q]]
  BY NoneFacts DEF ExitZombie, Executes, FamilyInv, InitInv, IInv, TypeOK, StateInv
<1>. USE <1>a, <1>b, NoneFacts DEF IInv, TypeOK, FamilyInv, Alive
<1>1. InitInv'
  BY DEF InitInv, initproc
<1>2. NotOwnParent'
  BY DEF NotOwnParent, InitInv
<1>3. PublishInv'
  <2>1. pc[p] = "exiting"
    BY DEF ExitZombie
  <2>. QED
    BY <2>1 DEF PublishInv, ForkInv, Forking
<1>4. ParentAlive /\ InitInv /\ parent \in [Slot -> Slot \cup {None}]
  OBVIOUS
<1>. HIDE DEF IInv, TypeOK, FamilyInv
<1>5. ParentAlive'
  <2>. SUFFICES ASSUME NEW q \in Slot \ {initproc},
                       state'[q] \in {"SLEEPING", "RUNNABLE", "RUNNING", "ZOMBIE"}
                PROVE  parent'[q] # None /\ state'[parent'[q]] \in {"SLEEPING", "RUNNABLE", "RUNNING"}
    BY DEF ParentAlive
  <2>1. parent'[q] = IF parent[q] = p THEN initproc ELSE parent[q]
    BY <1>b
  <2>2. CASE parent[q] = p
    BY <1>1, <2>1, <2>2, NoneFacts, Zenon DEF InitInv
  <2>3. CASE parent[q] # p
    <3>1. state[q] \in {"SLEEPING", "RUNNABLE", "RUNNING", "ZOMBIE"}
      BY <1>a, <1>b, Zenon
    <3>2. PICK x \in Slot \ {p} : x = parent[q] /\ state[x] \in {"SLEEPING", "RUNNABLE", "RUNNING"}
      BY <1>4, <2>3, <3>1, Zenon DEF ParentAlive
    <3>3. state'[x] \in {"SLEEPING", "RUNNABLE", "RUNNING"}
      BY <1>a, <3>2, ZenonT(40)
    <3>. QED
      BY <2>1, <2>3, <3>2, <3>3, NoneFacts, Zenon
  <2>. QED
    BY <2>2, <2>3
<1>. QED
  BY <1>1, <1>2, <1>3, <1>5 DEF FamilyInv

\* A zombie that wait() frees has no children.
LEMMA WaitReapFamily ==
  ASSUME IInv, FamilyInv, NEW c \in Cpu, NEW p \in Slot, NEW z \in Slot, WaitReap(c, p, z)
  PROVE  FamilyInv'
<1>. USE NoneFacts DEF IInv, TypeOK, FamilyInv, WaitReap, SyscallEnd, Alive
<1>1. InitInv'
  BY DEF InitInv, initproc
<1>2. NotOwnParent'
  BY DEF NotOwnParent
<1>3. PublishInv'
  BY DEF PublishInv, ForkInv, Forking
<1>4. /\ ParentAlive /\ parent \in [Slot -> Slot \cup {None}] /\ state \in [Slot -> States]
      /\ state' = [state EXCEPT ![z] = "UNUSED"] /\ parent' = [parent EXCEPT ![z] = None]
      /\ state[z] = "ZOMBIE"
  OBVIOUS
<1>. HIDE DEF IInv, TypeOK, FamilyInv, WaitReap, SyscallEnd
<1>5. ParentAlive'
  BY <1>4, SMTT(30) DEF ParentAlive
<1>. QED
  BY <1>1, <1>2, <1>3, <1>5 DEF FamilyInv

\* Every action keeps the invariant of the families; only fork(), exit() and the
\* wait() that reaps change them.
LEMMA FamilySteps ==
  ASSUME IInv, FamilyInv, NEW c \in Cpu, NEW p \in Slot, Step(c, p)
  PROVE  FamilyInv'
<1>. USE DEF FamilyKept
<1>a. state \in [Slot -> States] /\ pc \in [Slot -> Positions]
  BY DEF IInv, TypeOK
<1>b. /\ StateInv /\ CpuInv /\ IrqInv
      /\ proc \in [Cpu -> Slot \cup {None}] /\ ctx \in [Slot -> Contexts]
  BY DEF IInv, TypeOK
<1>1. ASSUME SchedHlt(c) PROVE FamilyKept
  BY <1>1, <1>a, Zenon DEF SchedHlt, table
<1>2. ASSUME SchedAcquire(c) PROVE FamilyKept
  BY <1>2, <1>a, Zenon DEF SchedAcquire, table
<1>3. ASSUME SchedSwtch(c, p) PROVE FamilyKept
  BY <1>3, <1>a, Zenon DEF SchedSwtch, Candidates, Alive
<1>4. ASSUME SchedEnd(c) PROVE FamilyKept
  BY <1>4, <1>a, Zenon DEF SchedEnd, table
<1>5. ASSUME SwtchOut(c) PROVE FamilyKept
  BY <1>5, <1>a, Zenon DEF SwtchOut, table
<1>6. ASSUME TrapKilled(c, p) PROVE FamilyKept
  BY <1>6, <1>a, Zenon DEF TrapKilled, table
<1>7. ASSUME TrapFault(c, p) PROVE FamilyKept
  BY <1>7, <1>a, Zenon DEF TrapFault, table
<1>8. ASSUME ForkKstack(c, p) PROVE FamilyKept
  BY <1>8, <1>a, Zenon DEF ForkKstack
<1>9. ASSUME NEW k \in KillPids, NEW t \in Slot, KillMark(c, p, k, t) PROVE FamilyKept
  BY <1>9, <1>a, Zenon DEF KillMark, SyscallEnd, table, Alive
<1>10. ASSUME ExitCall(c, p) PROVE FamilyKept
  BY <1>10, <1>a, Zenon DEF ExitCall, table
<1>11. ASSUME WaitFail(c, p) PROVE FamilyKept
  BY <1>11, <1>a, Zenon DEF WaitFail, SyscallEnd, table
<1>12. ASSUME WaitSleep(c, p) PROVE FamilyKept
  BY <1>12, <1>a, <1>b, NoneFacts, Zenon DEF WaitSleep, InWait, Calls, Executes, table, Alive, StateInv
<1>13. ASSUME NEW n \in SleepArgs, SleepCall(c, p, n) PROVE FamilyKept
  BY <1>13, <1>a, Zenon DEF SleepCall, table
<1>14. ASSUME SleepTest(c, p) PROVE FamilyKept
  BY <1>14, <1>a, Zenon DEF SleepTest, SyscallEnd, table
<1>15. ASSUME SleepSched(c, p) PROVE FamilyKept
  BY <1>15, <1>a, <1>b, NoneFacts, Zenon DEF SleepSched, Executes, table, Alive, StateInv
<1>16. ASSUME SleepReacquire(c, p) PROVE FamilyKept
  BY <1>16, <1>a, Zenon DEF SleepReacquire, table
<1>17. ASSUME SwtchIn(c, p) PROVE FamilyKept
  BY <1>17, <1>a, Zenon DEF SwtchIn, SyscallEnd, table
<1>18. ASSUME TimerIrq(c) PROVE FamilyKept
  BY <1>18, <1>a, Zenon DEF TimerIrq, table
<1>19. ASSUME TimerTick(c) PROVE FamilyKept
  BY <1>19, <1>a, Zenon DEF TimerTick, table
<1>20. ASSUME TimerWakeup(c) PROVE FamilyKept
  BY <1>20, <1>a, Zenon DEF TimerWakeup, wakeup1, table, Alive
<1>21. ASSUME TimerIdle(c) PROVE FamilyKept
  BY <1>21, <1>a, Zenon DEF TimerIdle, table
<1>22. ASSUME TimerExit(c, p) PROVE FamilyKept
  BY <1>22, <1>a, Zenon DEF TimerExit, table
<1>23. ASSUME TimerYield(c, p) PROVE FamilyKept
  BY <1>23, <1>a, <1>b, NoneFacts, Zenon DEF TimerYield, table, Alive, StateInv, CpuInv, IrqInv
<1>. HIDE DEF FamilyKept
<1>. QED
  BY <1>1, <1>2, <1>3, <1>4, <1>5, <1>6, <1>7, <1>8, <1>9, <1>10, <1>11, <1>12, <1>13, <1>14,
     <1>15, <1>16, <1>17, <1>18, <1>19, <1>20, <1>21, <1>22, <1>23, FamilyFrame,
     ForkAllocFamily, ForkFailFamily, ForkCopyFamily, ForkPublishFamily, ExitCloseFamily,
     ExitZombieFamily, WaitReapFamily DEF Step

\* The families start well: init is alone.
LEMMA InitFamily == Init => FamilyInv
BY NoneFacts, NprocAssumption
   DEF Init, FamilyInv, InitInv, NotOwnParent, PublishInv, ParentAlive, Alive, Slot,
       initproc, None

\* Every step keeps the invariant of the families.
LEMMA NextFamily == IInv /\ FamilyInv /\ [Next]_vars => FamilyInv'
<1>. SUFFICES ASSUME IInv, FamilyInv, [Next]_vars PROVE FamilyInv'
  OBVIOUS
<1>1. CASE UNCHANGED vars
  BY <1>1, FamilyFrame DEF vars, FamilyKept
<1>. QED
  BY <1>1, NextSteps, FamilySteps

\* The invariant of the families holds in every reachable state.
THEOREM Families == Spec => []FamilyInv
BY Invariance, InitFamily, NextFamily, PTL DEF Spec

\* For any number of slots and processors, every process but init has a parent
\* that can wait() for it: exit() leaves no child to a ZOMBIE or UNUSED slot,
\* although fork() attaches children without ptable.lock (proc.c).
THEOREM ParentSafety == Spec => []ParentAlive
<1>1. FamilyInv => ParentAlive
  BY DEF FamilyInv
<1>. QED
  BY <1>1, Families, PTL

-----------------------------------------------------------------------------
\* Every action keeps the discipline of tickslock.
LEMMA SleepInvSteps ==
  ASSUME IInv, SleepInv, NEW c \in Cpu, NEW p \in Slot, Step(c, p)
  PROVE  SleepInv'
<1>. USE DEF SleepInv, TickHeldInv, TickCpuInv, Sleeping
<1>a. /\ pc \in [Slot -> Positions] /\ ctx \in [Slot -> Contexts] /\ left \in [Slot -> Nat]
      /\ proc \in [Cpu -> Slot \cup {None}] /\ tickslock \in Cpu \cup {None}
      /\ irq \in [Cpu -> {"none", "tick", "wakeup", "return"}]
  BY DEF IInv, TypeOK
<1>b. CpuInv /\ OneCpu /\ spc \in [Cpu -> {"top", "halt", "acquire", "scan", "run"}]
  BY DEF IInv, TypeOK
<1>1. ASSUME SchedHlt(c) PROVE SleepInv'
  BY <1>1, <1>a, Zenon DEF SchedHlt
<1>2. ASSUME SchedAcquire(c) PROVE SleepInv'
  BY <1>2, <1>a, Zenon DEF SchedAcquire
<1>3. ASSUME SchedSwtch(c, p) PROVE SleepInv'
  <2>1. /\ proc' = [proc EXCEPT ![c] = p] /\ proc[c] = None
        /\ pc' = pc /\ ctx' = ctx /\ irq' = irq /\ left' = left /\ tickslock' = tickslock
    BY <1>3, <1>b, ZenonT(40) DEF SchedSwtch, CpuInv
  <2>2. \A d \in Cpu : proc[d] # None => proc'[d] = proc[d]
    BY <1>a, <2>1
  <2>3. ASSUME NEW q \in Slot, pc[q] \in Sleeping PROVE proc'[tickslock] = q
    BY <2>2, <2>3, NoneFacts, ZenonT(40)
  <2>. QED
    BY <2>1, <2>3, Zenon
<1>4. ASSUME SchedEnd(c) PROVE SleepInv'
  BY <1>4, <1>a, Zenon DEF SchedEnd
<1>5. ASSUME SwtchOut(c) PROVE SleepInv'
  BY <1>5, <1>a, ZenonT(40) DEF SwtchOut
<1>6. ASSUME TrapKilled(c, p) PROVE SleepInv'
  BY <1>6, <1>a, ZenonT(40) DEF TrapKilled, cpus
<1>7. ASSUME TrapFault(c, p) PROVE SleepInv'
  BY <1>7, <1>a, ZenonT(40) DEF TrapFault, cpus
<1>8. ASSUME NEW s \in Slot, ForkAlloc(c, p, s) PROVE SleepInv'
  BY <1>8, <1>a, ZenonT(40) DEF ForkAlloc, cpus
<1>9. ASSUME ForkKstack(c, p) PROVE SleepInv'
  BY <1>9, <1>a, ZenonT(40) DEF ForkKstack, cpus
<1>10. ASSUME ForkNoKstack(c, p) PROVE SleepInv'
  BY <1>10, <1>a, ZenonT(40) DEF ForkNoKstack, SyscallEnd, cpus
<1>11. ASSUME ForkCopy(c, p) PROVE SleepInv'
  BY <1>11, <1>a, ZenonT(40) DEF ForkCopy, cpus
<1>12. ASSUME ForkNoCopy(c, p) PROVE SleepInv'
  BY <1>12, <1>a, ZenonT(40) DEF ForkNoCopy, SyscallEnd, cpus
<1>13. ASSUME ForkPublish(c, p) PROVE SleepInv'
  BY <1>13, <1>a, ZenonT(40) DEF ForkPublish, SyscallEnd, cpus
<1>14. ASSUME NEW k \in KillPids, NEW t \in Slot, KillMark(c, p, k, t) PROVE SleepInv'
  BY <1>14, <1>a, ZenonT(40) DEF KillMark, SyscallEnd, cpus
<1>15. ASSUME ExitCall(c, p) PROVE SleepInv'
  BY <1>15, <1>a, Zenon DEF ExitCall, cpus
<1>16. ASSUME ExitClose(c, p) PROVE SleepInv'
  BY <1>16, <1>a, ZenonT(40) DEF ExitClose, cpus
<1>17. ASSUME ExitZombie(c, p) PROVE SleepInv'
  BY <1>17, <1>a, Zenon DEF ExitZombie, cpus
<1>18. ASSUME NEW z \in Slot, WaitReap(c, p, z) PROVE SleepInv'
  BY <1>18, <1>a, Zenon DEF WaitReap, SyscallEnd, cpus
<1>19. ASSUME WaitFail(c, p) PROVE SleepInv'
  BY <1>19, <1>a, Zenon DEF WaitFail, SyscallEnd, cpus
<1>20. ASSUME WaitSleep(c, p) PROVE SleepInv'
  BY <1>20, <1>a, Zenon DEF WaitSleep, InWait, Calls, cpus
<1>21. ASSUME NEW n \in SleepArgs, SleepCall(c, p, n) PROVE SleepInv'
  BY <1>21, <1>a, NoneFacts, ZenonT(40) DEF SleepCall, Calls, Executes, cpus
<1>22. ASSUME SleepTest(c, p) PROVE SleepInv'
  <2>1. /\ pc[p] \in Sleeping /\ proc' = proc /\ ctx' = ctx /\ irq' = irq
        /\ \/ left[p] > 0 /\ pc' = [pc EXCEPT ![p] = "dosleep"] /\ left' = left /\ tickslock' = tickslock
           \/ /\ pc' = [pc EXCEPT ![p] = SyscallEnd(p, killed)] /\ tickslock' = None
              /\ left' = [left EXCEPT ![p] = 0]
    BY <1>22, Zenon DEF SleepTest, cpus
  <2>2. CASE left[p] > 0 /\ pc' = [pc EXCEPT ![p] = "dosleep"] /\ left' = left /\ tickslock' = tickslock
    BY <1>a, <2>1, <2>2, ZenonT(40)
  <2>3. CASE pc' = [pc EXCEPT ![p] = SyscallEnd(p, killed)] /\ tickslock' = None
    <3>1. proc[tickslock] = p /\ irq[tickslock] = "none"
      BY <2>1, Zenon
    <3>2. \A d \in Cpu : irq[d] # "wakeup"
      BY <3>1, Zenon
    <3>3. \A q \in Slot : pc'[q] \notin Sleeping
      BY <1>a, <2>3, <3>1, Zenon DEF SyscallEnd
    <3>. QED
      BY <2>1, <3>2, <3>3, Zenon
  <2>. QED
    BY <2>1, <2>2, <2>3
<1>23. ASSUME SleepSched(c, p) PROVE SleepInv'
  BY <1>23, <1>a, ZenonT(40) DEF SleepSched
<1>24. ASSUME SleepReacquire(c, p) PROVE SleepInv'
  BY <1>24, <1>a, NoneFacts, ZenonT(40) DEF SleepReacquire, Executes, cpus
<1>25. ASSUME SwtchIn(c, p) PROVE SleepInv'
  BY <1>25, <1>a, ZenonT(40) DEF SwtchIn, SyscallEnd, cpus
<1>26. ASSUME TimerIrq(c) PROVE SleepInv'
  BY <1>26, <1>a, Zenon DEF TimerIrq, Interruptible, cpus
<1>27. ASSUME TimerTick(c) PROVE SleepInv'
  BY <1>27, <1>a, NoneFacts, ZenonT(40) DEF TimerTick
<1>28. ASSUME TimerWakeup(c) PROVE SleepInv'
  BY <1>28, <1>a, Zenon DEF TimerWakeup, wakeup1
<1>29. ASSUME TimerIdle(c) PROVE SleepInv'
  BY <1>29, <1>a, ZenonT(40) DEF TimerIdle
<1>30. ASSUME TimerExit(c, p) PROVE SleepInv'
  BY <1>30, <1>a, ZenonT(40) DEF TimerExit, cpus
<1>31. ASSUME TimerYield(c, p) PROVE SleepInv'
  <2>1. /\ irq[c] = "return" /\ proc[c] = p /\ ctx' = [ctx EXCEPT ![p] = "sched"]
        /\ irq' = [irq EXCEPT ![c] = "none"]
        /\ pc' = pc /\ left' = left /\ tickslock' = tickslock /\ proc' = proc
    BY <1>31, Zenon DEF TimerYield, cpus
  <2>2. ASSUME NEW q \in Slot, pc[q] \in Sleeping PROVE q # p /\ tickslock # c
    BY <1>b, <2>1, <2>2, NoneFacts, ZenonT(40) DEF OneCpu
  <2>3. \A q \in Slot : q # p => ctx'[q] = ctx[q]
    BY <1>a, <2>1, Zenon
  <2>4. irq'[c] = "none" /\ \A d \in Cpu : d # c => irq'[d] = irq[d]
    BY <1>a, <2>1, ZenonT(40)
  <2>5. TickCpuInv'
    BY <2>1, <2>4, Zenon
  <2>6. TickHeldInv'
    <3>. SUFFICES ASSUME NEW q \in Slot, pc'[q] \in Sleeping
                  PROVE  /\ tickslock' \in Cpu /\ proc'[tickslock'] = q /\ ctx'[q] = "none"
                         /\ irq'[tickslock'] = "none"
                         /\ pc'[q] = "dosleep" => left'[q] > 0
      BY Zenon
    <3>1. pc[q] \in Sleeping
      BY <2>1, Zenon
    <3>2. /\ tickslock \in Cpu /\ proc[tickslock] = q /\ ctx[q] = "none"
          /\ irq[tickslock] = "none"
          /\ pc[q] = "dosleep" => left[q] > 0
      BY <3>1, Zenon
    <3>3. q # p /\ tickslock # c
      BY <2>2, <3>1, Zenon
    <3>4. ctx'[q] = "none" /\ irq'[tickslock] = "none"
      BY <2>3, <2>4, <3>2, <3>3, Zenon
    <3>. HIDE DEF Sleeping, SleepInv, TickHeldInv, TickCpuInv
    <3>. QED
      BY <2>1, <3>2, <3>4, Zenon
  <2>. QED
    BY <2>5, <2>6
<1>. HIDE DEF SleepInv, TickHeldInv, TickCpuInv, Sleeping
<1>. QED
  BY <1>1, <1>2, <1>3, <1>4, <1>5, <1>6, <1>7, <1>8, <1>9, <1>10, <1>11, <1>12, <1>13, <1>14,
     <1>15, <1>16, <1>17, <1>18, <1>19, <1>20, <1>21, <1>22, <1>23, <1>24, <1>25, <1>26, <1>27,
     <1>28, <1>29, <1>30, <1>31 DEF Step

\* tickslock starts free and no interrupt is being handled.
LEMMA InitSleep == Init => SleepInv /\ NoMissedWakeup
<1>. SUFFICES ASSUME Init PROVE SleepInv /\ NoMissedWakeup
  OBVIOUS
<1>1. \A q \in Slot : pc[q] \notin Sleeping /\ state[q] # "SLEEPING"
  BY DEF Init, Sleeping
<1>2. \A c \in Cpu : irq[c] = "none"
  BY DEF Init
<1>. QED
  BY <1>1, <1>2, Zenon DEF SleepInv, TickHeldInv, TickCpuInv, NoMissedWakeup

\* Every step keeps the discipline of tickslock.
LEMMA NextSleep == IInv /\ SleepInv /\ [Next]_vars => SleepInv'
<1>. SUFFICES ASSUME IInv, SleepInv, [Next]_vars PROVE SleepInv'
  OBVIOUS
<1>1. CASE UNCHANGED vars
  BY <1>1 DEF vars, SleepInv, TickHeldInv, TickCpuInv
<1>. QED
  BY <1>1, NextSteps, SleepInvSteps

-----------------------------------------------------------------------------
\* &ticks is the address of no process, and the first processor exists.
LEMMA TicksFacts == Ticks \notin Slot /\ Ticks # None /\ 1 \in Cpu
BY NprocAssumption, NcpuAssumption DEF Ticks, Slot, None, Cpu

LEMMA IrqAt ==
  ASSUME NEW c \in Cpu, irq \in [Cpu -> {"none", "tick", "wakeup", "return"}], NEW x,
         irq' = [irq EXCEPT ![c] = x], irq[c] # "wakeup"
  PROVE  irq[1] = "wakeup" => irq'[1] = "wakeup"
BY TicksFacts

\* wait() goes to sleep with nothing to reap, and not killed.
LEMMA WaitSleepWakeup ==
  ASSUME IInv, NoMissedWakeup, NEW c \in Cpu, NEW p \in Slot, WaitSleep(c, p)
  PROVE  NoMissedWakeup'
<1>1. /\ state \in [Slot -> States] /\ chan \in [Slot -> Slot \cup {None, Ticks}]
      /\ chan' = [chan EXCEPT ![p] = p] /\ state' = [state EXCEPT ![p] = "SLEEPING"]
      /\ parent' = parent /\ killed' = killed /\ left' = left /\ irq' = irq
      /\ ~killed[p] /\ \A q \in Slot : parent[q] = p => state[q] # "ZOMBIE"
  BY Zenon DEF WaitSleep, NoZombieChild, IInv, TypeOK, table
<1>. QED
  BY <1>1, TicksFacts, ZenonT(40) DEF NoMissedWakeup

\* sys_sleep() goes to sleep with time left: tickslock has kept the ticks out.
LEMMA SleepSchedWakeup ==
  ASSUME IInv, SleepInv, NoMissedWakeup, NEW c \in Cpu, NEW p \in Slot, SleepSched(c, p)
  PROVE  NoMissedWakeup'
<1>1. left[p] > 0
  BY DEF SleepSched, SleepInv, TickHeldInv, Sleeping
<1>2. /\ state \in [Slot -> States] /\ chan \in [Slot -> Slot \cup {None, Ticks}]
      /\ chan' = [chan EXCEPT ![p] = Ticks] /\ state' = [state EXCEPT ![p] = "SLEEPING"]
      /\ parent' = parent /\ killed' = killed /\ left' = left /\ irq' = irq
  BY Zenon DEF SleepSched, IInv, TypeOK, table
<1>3. /\ chan'[p] = Ticks /\ \A q \in Slot : q # p => chan'[q] = chan[q] /\ state'[q] = state[q]
      /\ \A q \in Slot : state'[q] = "ZOMBIE" => state[q] = "ZOMBIE"
  BY <1>2, Zenon
<1>4. Ticks # p /\ left[p] # 0
  BY <1>1, TicksFacts
<1>. SUFFICES ASSUME NEW x \in Slot, state'[x] = "SLEEPING"
              PROVE  /\ chan'[x] = x => /\ ~killed'[x]
                                        /\ \A q \in Slot : parent'[q] = x => state'[q] # "ZOMBIE"
                     /\ chan'[x] = Ticks /\ left'[x] = 0 => irq'[1] = "wakeup"
  BY DEF NoMissedWakeup
<1>5. CASE x = p
  BY <1>2, <1>3, <1>4, <1>5, Zenon
<1>6. CASE x # p
  <2>1. state[x] = "SLEEPING" /\ chan'[x] = chan[x]
    BY <1>3, <1>6, Zenon
  <2>. QED
    BY <1>2, <1>3, <2>1, ZenonT(40) DEF NoMissedWakeup
<1>. QED
  BY <1>5, <1>6

\* The tick that ends a sleep is followed by its wakeup.
LEMMA TimerTickWakeup ==
  ASSUME IInv, SleepInv, NoMissedWakeup, NEW c \in Cpu, TimerTick(c)
  PROVE  NoMissedWakeup'
<1>1. /\ irq \in [Cpu -> {"none", "tick", "wakeup", "return"}] /\ irq' = [irq EXCEPT ![c] = "wakeup"]
      /\ state' = state /\ chan' = chan /\ parent' = parent /\ killed' = killed
  BY Zenon DEF TimerTick, IInv, TypeOK, table
<1>2. c = 1
  BY Zenon DEF TimerTick, SleepInv, TickCpuInv
<1>3. irq'[1] = "wakeup"
  BY <1>1, <1>2
<1>. QED
  BY <1>1, <1>3, Zenon DEF NoMissedWakeup

\* wakeup(&ticks) leaves nobody asleep on &ticks.
LEMMA TimerWakeupWakeup ==
  ASSUME IInv, NoMissedWakeup, NEW c \in Cpu, TimerWakeup(c)
  PROVE  NoMissedWakeup'
<1>1. /\ state' = [q \in Slot |-> IF state[q] = "SLEEPING" /\ chan[q] = Ticks THEN "RUNNABLE" ELSE state[q]]
      /\ chan' = chan /\ parent' = parent /\ killed' = killed /\ left' = left
  BY Zenon DEF TimerWakeup, wakeup1, table
<1>2. \A q \in Slot : /\ state'[q] = "SLEEPING" => state[q] = "SLEEPING" /\ chan[q] # Ticks
                      /\ state'[q] = "ZOMBIE" => state[q] = "ZOMBIE"
  BY <1>1
<1>. QED
  BY <1>1, <1>2, Zenon DEF NoMissedWakeup

\* Whoever still sleeps after exit() is not the parent of the new zombie, and
\* not init if init has inherited one.
LEMMA ExitWakes ==
  ASSUME IInv, FamilyInv, NEW c \in Cpu, NEW p \in Slot, ExitZombie(c, p),
         NEW x \in Slot, state'[x] = "SLEEPING", chan[x] = x
  PROVE  /\ state[x] = "SLEEPING" /\ x # p /\ x # parent[p]
         /\ x = initproc => \A q \in Slot : parent[q] = p => state[q] # "ZOMBIE"
<1>. DEFINE w == wakeup1(state, parent[p])
            a == Abandon(w, p)
<1>0. state \in [Slot -> States]
  BY DEF IInv, TypeOK
<1>1. w \in [Slot -> States] /\ Woken(state, w)
  BY <1>0, Wakeup1Facts
<1>2. a \in [Slot -> States] /\ Woken(w, a)
  BY <1>1, AbandonFacts
<1>3. state' = [a EXCEPT ![p] = "ZOMBIE"]
  BY DEF ExitZombie
<1>4. x # p /\ a[x] = "SLEEPING" /\ w[x] = "SLEEPING" /\ state[x] = "SLEEPING"
  <2>. HIDE DEF w, a
  <2>. QED
    BY <1>0, <1>1, <1>2, <1>3 DEF Woken, States
<1>5. x # parent[p]
  BY <1>4 DEF wakeup1
<1>6. ASSUME x = initproc, NEW q \in Slot, parent[q] = p, state[q] = "ZOMBIE" PROVE FALSE
  <2>1. w[q] = "ZOMBIE"
    BY <1>6 DEF wakeup1
  <2>2. a = wakeup1(w, initproc)
    BY <1>6, <2>1 DEF Abandon, Orphans
  <2>. HIDE DEF w, a
  <2>. QED
    BY <1>4, <1>6, <2>2 DEF wakeup1
<1>. QED
  BY <1>4, <1>5, <1>6

\* exit() wakes the parent of the new zombie, and init if it inherits a zombie.
LEMMA ExitZombieWakeup ==
  ASSUME IInv, FamilyInv, NoMissedWakeup, NEW c \in Cpu, NEW p \in Slot, ExitZombie(c, p)
  PROVE  NoMissedWakeup'
<1>a. /\ \A q \in Slot \ {p} :
           state'[q] = state[q] \/ (state[q] = "SLEEPING" /\ state'[q] = "RUNNABLE")
      /\ state'[p] = "ZOMBIE"
  BY ExitStates DEF IInv, TypeOK, ExitZombie
<1>b. /\ parent' = [q \in Slot |-> IF parent[q] = p THEN initproc ELSE parent[q]]
      /\ parent[p] # p
      /\ chan' = chan /\ killed' = killed /\ left' = left /\ irq' = irq
  BY DEF ExitZombie, FamilyInv, NotOwnParent
<1>. SUFFICES ASSUME NEW x \in Slot, state'[x] = "SLEEPING"
              PROVE  /\ chan'[x] = x => /\ ~killed'[x]
                                        /\ \A q \in Slot : parent'[q] = x => state'[q] # "ZOMBIE"
                     /\ chan'[x] = Ticks /\ left'[x] = 0 => irq'[1] = "wakeup"
  BY DEF NoMissedWakeup
<1>1. state[x] = "SLEEPING"
  BY <1>a
<1>2. ASSUME chan[x] = x, NEW q \in Slot, parent'[q] = x PROVE state'[q] # "ZOMBIE"
  <2>1. /\ x # p /\ x # parent[p]
        /\ x = initproc => \A r \in Slot : parent[r] = p => state[r] # "ZOMBIE"
    BY <1>2, ExitWakes
  <2>2. CASE q = p
    BY <1>2, <1>b, <2>1, <2>2
  <2>3. CASE q # p /\ parent[q] = p
    BY <1>2, <1>a, <1>b, <2>1, <2>3
  <2>4. CASE q # p /\ parent[q] # p
    BY <1>1, <1>2, <1>a, <1>b, <2>4 DEF NoMissedWakeup
  <2>. QED
    BY <2>2, <2>3, <2>4
<1>. QED
  BY <1>1, <1>2, <1>b DEF NoMissedWakeup

\* No action makes a sleeper miss its wakeup; only exit(), the two ways to fall
\* asleep and the tick concern the sleepers.
LEMMA WakeupSteps ==
  ASSUME IInv, FamilyInv, SleepInv, NoMissedWakeup, NEW c \in Cpu, NEW p \in Slot, Step(c, p)
  PROVE  NoMissedWakeup'
<1>. USE DEF SleepersKept
<1>a. /\ state \in [Slot -> States] /\ chan \in [Slot -> Slot \cup {None, Ticks}]
      /\ parent \in [Slot -> Slot \cup {None}] /\ killed \in [Slot -> BOOLEAN]
      /\ left \in [Slot -> Nat] /\ irq \in [Cpu -> {"none", "tick", "wakeup", "return"}]
  BY DEF IInv, TypeOK
<1>b. /\ StateInv /\ ForkInv
      /\ proc \in [Cpu -> Slot \cup {None}] /\ ctx \in [Slot -> Contexts]
      /\ pc \in [Slot -> Positions] /\ child \in [Slot -> Slot \cup {None}]
  BY DEF IInv, TypeOK
<1>1. ASSUME SchedHlt(c) PROVE SleepersKept
  BY <1>1, <1>a, Zenon DEF SchedHlt, table
<1>2. ASSUME SchedAcquire(c) PROVE SleepersKept
  BY <1>2, <1>a, Zenon DEF SchedAcquire, table
<1>3. ASSUME SchedSwtch(c, p) PROVE SleepersKept
  BY <1>3, <1>a, Zenon DEF SchedSwtch
<1>4. ASSUME SchedEnd(c) PROVE SleepersKept
  BY <1>4, <1>a, Zenon DEF SchedEnd, table
<1>5. ASSUME SwtchOut(c) PROVE SleepersKept
  BY <1>5, <1>a, Zenon DEF SwtchOut, table
<1>6. ASSUME TrapKilled(c, p) PROVE SleepersKept
  BY <1>6, <1>a, Zenon DEF TrapKilled, table
<1>7. ASSUME TrapFault(c, p) PROVE SleepersKept
  BY <1>7, <1>a, <1>b, NoneFacts, Zenon DEF TrapFault, Executes, table, StateInv
<1>8. ASSUME NEW s \in Slot, ForkAlloc(c, p, s) PROVE SleepersKept
  BY <1>8, <1>a, Zenon DEF ForkAlloc
<1>9. ASSUME ForkKstack(c, p) PROVE SleepersKept
  BY <1>9, <1>a, Zenon DEF ForkKstack
<1>10. ASSUME ForkNoKstack(c, p) PROVE SleepersKept
  BY <1>10, <1>a, Zenon DEF ForkNoKstack
<1>11. ASSUME ForkCopy(c, p) PROVE SleepersKept
  BY <1>11, <1>a, <1>b, Zenon DEF ForkCopy, ForkInv, Forking
<1>12. ASSUME ForkNoCopy(c, p) PROVE SleepersKept
  BY <1>12, <1>a, Zenon DEF ForkNoCopy
<1>13. ASSUME ForkPublish(c, p) PROVE SleepersKept
  BY <1>13, <1>a, Zenon DEF ForkPublish
<1>14. ASSUME NEW k \in KillPids, NEW t \in Slot, KillMark(c, p, k, t) PROVE SleepersKept
  BY <1>14, <1>a, Zenon DEF KillMark, table
<1>15. ASSUME ExitCall(c, p) PROVE SleepersKept
  BY <1>15, <1>a, Zenon DEF ExitCall, table
<1>16. ASSUME ExitClose(c, p) PROVE SleepersKept
  BY <1>16, <1>a, Zenon DEF ExitClose
<1>17. ASSUME NEW z \in Slot, WaitReap(c, p, z) PROVE SleepersKept
  <2>1. state[p] = "RUNNING"
    BY <1>17, <1>b, NoneFacts, Zenon DEF WaitReap, InWait, Calls, Executes, StateInv
  <2>2. /\ state' = [state EXCEPT ![z] = "UNUSED"] /\ parent' = [parent EXCEPT ![z] = None]
        /\ killed' = [killed EXCEPT ![z] = FALSE] /\ chan' = [chan EXCEPT ![p] = None]
        /\ left' = left /\ irq' = irq
    BY <1>17, Zenon DEF WaitReap
  <2>3. state'[z] = "UNUSED" /\ \A q \in Slot : q # z => /\ state'[q] = state[q] /\ killed'[q] = killed[q]
                                                       /\ parent'[q] = parent[q]
    BY <1>a, <2>2, Zenon
  <2>4. \A q \in Slot : q # p => chan'[q] = chan[q]
    BY <1>a, <2>2, Zenon
  <2>. QED
    BY <2>1, <2>2, <2>3, <2>4, ZenonT(40)
<1>18. ASSUME WaitFail(c, p) PROVE SleepersKept
  BY <1>18, <1>a, <1>b, NoneFacts, ZenonT(40) DEF WaitFail, InWait, Calls, Executes, table, StateInv
<1>19. ASSUME NEW n \in SleepArgs, SleepCall(c, p, n) PROVE SleepersKept
  BY <1>19, <1>a, <1>b, NoneFacts, Zenon DEF SleepCall, Calls, Executes, table, StateInv
<1>20. ASSUME SleepTest(c, p) PROVE SleepersKept
  BY <1>20, <1>a, <1>b, NoneFacts, Zenon DEF SleepTest, Executes, table, StateInv
<1>21. ASSUME SleepReacquire(c, p) PROVE SleepersKept
  BY <1>21, <1>a, Zenon DEF SleepReacquire, table
<1>22. ASSUME SwtchIn(c, p) PROVE SleepersKept
  BY <1>22, <1>a, <1>b, NoneFacts, Zenon DEF SwtchIn, table, StateInv
<1>23. ASSUME TimerIrq(c) PROVE SleepersKept
  <2>1. irq[1] = "wakeup" => irq'[1] = "wakeup"
    BY <1>23, <1>a, IrqAt, Zenon DEF TimerIrq, Interruptible
  <2>. QED
    BY <1>23, <2>1, Zenon DEF TimerIrq, table
<1>24. ASSUME TimerIdle(c) PROVE SleepersKept
  <2>1. irq[1] = "wakeup" => irq'[1] = "wakeup"
    BY <1>24, <1>a, IrqAt, Zenon DEF TimerIdle
  <2>. QED
    BY <1>24, <1>a, <2>1, Zenon DEF TimerIdle, table
<1>25. ASSUME TimerExit(c, p) PROVE SleepersKept
  <2>1. irq[1] = "wakeup" => irq'[1] = "wakeup"
    BY <1>25, <1>a, IrqAt, Zenon DEF TimerExit
  <2>. QED
    BY <1>25, <1>a, <2>1, Zenon DEF TimerExit, table
<1>26. ASSUME TimerYield(c, p) PROVE SleepersKept
  <2>1. irq[1] = "wakeup" => irq'[1] = "wakeup"
    BY <1>26, <1>a, IrqAt, Zenon DEF TimerYield
  <2>. QED
    BY <1>26, <1>a, <2>1, Zenon DEF TimerYield, table
<1>. HIDE DEF SleepersKept
<1>. QED
  BY <1>1, <1>2, <1>3, <1>4, <1>5, <1>6, <1>7, <1>8, <1>9, <1>10, <1>11, <1>12, <1>13, <1>14,
     <1>15, <1>16, <1>17, <1>18, <1>19, <1>20, <1>21, <1>22, <1>23, <1>24, <1>25, <1>26,
     SleepersFrame, WaitSleepWakeup, SleepSchedWakeup, TimerTickWakeup, TimerWakeupWakeup,
     ExitZombieWakeup DEF Step

\* No step makes a sleeper miss its wakeup.
LEMMA NextWakeup ==
  IInv /\ FamilyInv /\ SleepInv /\ NoMissedWakeup /\ [Next]_vars => NoMissedWakeup'
<1>. SUFFICES ASSUME IInv, FamilyInv, SleepInv, NoMissedWakeup, [Next]_vars
              PROVE  NoMissedWakeup'
  OBVIOUS
<1>1. CASE UNCHANGED vars
  BY <1>1 DEF vars, NoMissedWakeup
<1>. QED
  BY <1>1, NextSteps, WakeupSteps

\* For any number of slots and processors and any arguments of sleep and kill,
\* no sleeper misses its wakeup: wait() and sys_sleep() test and fall asleep
\* under the lock that exit(), kill() and the timer interrupt need to wake
\* them (sleep(), wakeup1() and exit() in proc.c, trap() in trap.c).
THEOREM WakeupSafety == Spec => []NoMissedWakeup
<1>1. Spec => []SleepInv
  BY Invariance, InitSleep, NextSleep, PTL DEF Spec
<1>. QED
  BY <1>1, Invariance, Families, InitSleep, NextWakeup, PTL DEF Spec
=============================================================================
