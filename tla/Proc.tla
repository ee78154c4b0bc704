-------------------------------- MODULE Proc --------------------------------
(***************************************************************************)
(* The process table, the per-CPU scheduler and the timer interrupt of the *)
(* kernel: fork, exit, wait, kill, sleep/wakeup, yield and sys_sleep, run  *)
(* by NCPU processors that share ptable.lock (kernel/proc.c,               *)
(* kernel/trap.c, kernel/sysproc.c).                                       *)
(*                                                                         *)
(* A step is a stretch of code that no other processor can see the inside  *)
(* of: a critical section of ptable.lock, or the code between two of them. *)
(* ptable.lock is a variable because it is held ACROSS a context switch:   *)
(* a process acquires it, the scheduler it switches to releases it, and    *)
(* the other way round.  A processor keeps using the kernel stack of       *)
(* proc[c] until SwtchOut, after the process has already changed its state.*)
(***************************************************************************)
EXTENDS Integers

CONSTANTS NPROC,     \* slots of ptable.proc
          NCPU,      \* processors; processor 1 is the one with cpu->id == 0
          MaxPid,    \* bound on nextpid, so that fork does not run for ever
          KillPids,  \* the arguments user code passes to kill
          SleepArgs  \* the arguments user code passes to sleep

ASSUME NprocAssumption == NPROC \in Nat \ {0}
ASSUME NcpuAssumption == NCPU \in Nat \ {0}
ASSUME BoundAssumption == MaxPid \in Nat /\ KillPids \subseteq Nat /\ SleepArgs \subseteq Nat

Slot == 1..NPROC
Cpu == 1..NCPU
None == 0                 \* the null pointer, and the holder of a free lock
Ticks == NPROC + 1        \* the channel &ticks; a process pointer is its slot
initproc == 1

VARIABLES
  state, pid, parent, chan, killed, inuse, kstack,  \* struct proc, per slot
  nextpid,
  ctx,      \* "none": executing; "sched": about to swtch; "saved": in p->context
  pc,       \* where the kernel thread of a slot is
  child,    \* fork's np
  left,     \* sys_sleep: n - (ticks - ticks0), not below 0
  lock,     \* the processor holding ptable.lock
  tickslock,
  proc,     \* per CPU: the current process, whose kernel stack it uses
  spc,      \* per CPU: the position in scheduler()
  cursor,   \* per CPU: p in scheduler()
  irq       \* per CPU: the position in the timer case of trap()

table == <<pid, parent, inuse, kstack, nextpid, child>>
cpus == <<proc, spc, cursor>>
vars == <<state, pid, parent, chan, killed, inuse, kstack, nextpid, ctx, pc,
          child, left, lock, tickslock, proc, spc, cursor, irq>>

States == {"UNUSED", "EMBRYO", "SLEEPING", "RUNNABLE", "RUNNING", "ZOMBIE"}
Contexts == {"none", "sched", "saved"}
Positions == {"user", "forkret", "kstack", "copyuvm", "publish", "exit",
              "exiting", "waited", "ticks", "dosleep", "slept", "reacquire"}

TypeOK ==
  /\ state \in [Slot -> States]
  /\ pid \in [Slot -> Nat]
  /\ parent \in [Slot -> Slot \cup {None}]
  /\ chan \in [Slot -> Slot \cup {None, Ticks}]
  /\ killed \in [Slot -> BOOLEAN] /\ inuse \in [Slot -> BOOLEAN]
  /\ kstack \in [Slot -> BOOLEAN]
  /\ nextpid \in Nat
  /\ ctx \in [Slot -> Contexts]
  /\ pc \in [Slot -> Positions]
  /\ child \in [Slot -> Slot \cup {None}]
  /\ left \in [Slot -> Nat]
  /\ lock \in Cpu \cup {None} /\ tickslock \in Cpu \cup {None}
  /\ proc \in [Cpu -> Slot \cup {None}]
  /\ spc \in [Cpu -> {"top", "halt", "acquire", "scan", "run"}]
  /\ cursor \in [Cpu -> 1..(NPROC + 1)]
  /\ irq \in [Cpu -> {"none", "tick", "wakeup", "return"}]

\* userinit(): slot 1 is initproc, RUNNABLE, to start in forkret.
Init ==
  /\ state = [p \in Slot |-> IF p = initproc THEN "RUNNABLE" ELSE "UNUSED"]
  /\ pid = [p \in Slot |-> IF p = initproc THEN 1 ELSE 0]
  /\ nextpid = 2
  /\ parent = [p \in Slot |-> None] /\ chan = [p \in Slot |-> None]
  /\ killed = [p \in Slot |-> FALSE] /\ inuse = [p \in Slot |-> FALSE]
  /\ kstack = [p \in Slot |-> p = initproc]
  /\ ctx = [p \in Slot |-> IF p = initproc THEN "saved" ELSE "none"]
  /\ pc = [p \in Slot |-> IF p = initproc THEN "forkret" ELSE "user"]
  /\ child = [p \in Slot |-> None] /\ left = [p \in Slot |-> 0]
  /\ lock = None /\ tickslock = None
  /\ proc = [c \in Cpu |-> None] /\ spc = [c \in Cpu |-> "acquire"]
  /\ cursor = [c \in Cpu |-> 1] /\ irq = [c \in Cpu |-> "none"]

-----------------------------------------------------------------------------
(* scheduler() on processor c *)

\* sti; p == &ptable.proc[NPROC] after every pass, so the processor halts.
SchedHlt(c) ==
  /\ spc[c] = "top" /\ irq[c] = "none"
  /\ spc' = [spc EXCEPT ![c] = "halt"]
  /\ UNCHANGED <<state, table, chan, killed, ctx, pc, left, lock, tickslock, proc, cursor, irq>>

SchedAcquire(c) ==
  /\ spc[c] = "acquire" /\ irq[c] = "none" /\ lock = None
  /\ lock' = c
  /\ spc' = [spc EXCEPT ![c] = "scan"] /\ cursor' = [cursor EXCEPT ![c] = 1]
  /\ UNCHANGED <<state, table, chan, killed, ctx, pc, left, tickslock, proc, irq>>

\* The next RUNNABLE slots of the pass: the scan picks the first of them.
Candidates(c) == {p \in Slot : p >= cursor[c] /\ state[p] = "RUNNABLE"}
\* Mutant: every choice starts again at the first slot of the table.
SchedSwtchRestart(c, p) ==
  /\ spc[c] = "scan" /\ p \in Candidates(c) /\ \A q \in Candidates(c) : p <= q
  /\ proc' = [proc EXCEPT ![c] = p]
  /\ state' = [state EXCEPT ![p] = "RUNNING"]
  /\ inuse' = [inuse EXCEPT ![p] = TRUE]
  /\ spc' = [spc EXCEPT ![c] = "run"] /\ cursor' = [cursor EXCEPT ![c] = 1]
  /\ UNCHANGED <<pid, parent, kstack, nextpid, child, chan, killed, ctx, pc, left,
                 lock, tickslock, irq>>

\* Choose p and swtch to it, still holding ptable.lock.
SchedSwtch(c, p) ==
  /\ spc[c] = "scan" /\ p \in Candidates(c) /\ \A q \in Candidates(c) : p <= q
  /\ proc' = [proc EXCEPT ![c] = p]
  /\ state' = [state EXCEPT ![p] = "RUNNING"]
  /\ inuse' = [inuse EXCEPT ![p] = TRUE]
  /\ spc' = [spc EXCEPT ![c] = "run"] /\ cursor' = [cursor EXCEPT ![c] = p + 1]
  /\ UNCHANGED <<pid, parent, kstack, nextpid, child, chan, killed, ctx, pc, left,
                 lock, tickslock, irq>>
SchedEnd(c) ==
  /\ spc[c] = "scan" /\ Candidates(c) = {}
  /\ lock' = None
  /\ spc' = [spc EXCEPT ![c] = "top"] /\ cursor' = [cursor EXCEPT ![c] = NPROC + 1]
  /\ UNCHANGED <<state, table, chan, killed, ctx, pc, left, tickslock, proc, irq>>

\* swtch(&proc->context, cpu->scheduler) in sched(), then proc = 0.
SwtchOut(c) ==
  /\ spc[c] = "run" /\ ctx[proc[c]] = "sched"
  /\ ctx' = [ctx EXCEPT ![proc[c]] = "saved"]
  /\ proc' = [proc EXCEPT ![c] = None] /\ spc' = [spc EXCEPT ![c] = "scan"]
  /\ UNCHANGED <<state, table, chan, killed, pc, left, lock, tickslock, cursor, irq>>

-----------------------------------------------------------------------------
(* The process p that processor c executes *)

Executes(c, p) ==
  /\ spc[c] = "run" /\ proc[c] = p /\ irq[c] = "none" /\ ctx[p] = "none"

\* Where a system call of p returns to (trap(), the test after syscall()).
SyscallEnd(p, k) == IF k[p] THEN "exit" ELSE "user"

\* User code of p about to make a system call that trap() lets through.
Calls(c, p) == Executes(c, p) /\ pc[p] = "user" /\ ~killed[p]

\* trap() finds p killed on its way into a system call.
TrapKilled(c, p) ==
  /\ Executes(c, p) /\ pc[p] = "user" /\ killed[p]
  /\ pc' = [pc EXCEPT ![p] = "exit"]
  /\ UNCHANGED <<state, table, chan, killed, ctx, left, lock, tickslock, cpus, irq>>

\* trap(), default case: the process faults in user space.
TrapFault(c, p) ==
  /\ Executes(c, p) /\ pc[p] = "user" /\ p # initproc
  /\ killed' = [killed EXCEPT ![p] = TRUE]
  /\ pc' = [pc EXCEPT ![p] = "exit"]
  /\ UNCHANGED <<state, table, chan, ctx, left, lock, tickslock, cpus, irq>>

\* allocproc(), the part under ptable.lock: the first UNUSED slot.
ForkAlloc(c, p, s) ==
  /\ Calls(c, p) /\ lock = None /\ nextpid <= MaxPid
  /\ state[s] = "UNUSED" /\ \A q \in Slot : state[q] = "UNUSED" => s <= q
  /\ state' = [state EXCEPT ![s] = "EMBRYO"]
  /\ pid' = [pid EXCEPT ![s] = nextpid] /\ nextpid' = nextpid + 1
  /\ child' = [child EXCEPT ![p] = s] /\ pc' = [pc EXCEPT ![p] = "kstack"]
  /\ UNCHANGED <<parent, inuse, kstack, chan, killed, ctx, left, lock, tickslock, cpus, irq>>

\* allocproc(): kalloc() for the kernel stack succeeds, the context is built.
ForkKstack(c, p) ==
  /\ Executes(c, p) /\ pc[p] = "kstack"
  /\ kstack' = [kstack EXCEPT ![child[p]] = TRUE]
  /\ ctx' = [ctx EXCEPT ![child[p]] = "saved"]
  /\ pc' = [pc EXCEPT ![p] = "copyuvm", ![child[p]] = "forkret"]
  /\ UNCHANGED <<state, pid, parent, inuse, nextpid, child, chan, killed, left, lock,
                 tickslock, cpus, irq>>

\* kalloc() fails: the slot is given back without ptable.lock, its pid stays.
ForkNoKstack(c, p) ==
  /\ Executes(c, p) /\ pc[p] = "kstack"
  /\ state' = [state EXCEPT ![child[p]] = "UNUSED"]
  /\ child' = [child EXCEPT ![p] = None]
  /\ pc' = [pc EXCEPT ![p] = SyscallEnd(p, killed)]
  /\ UNCHANGED <<pid, parent, inuse, kstack, nextpid, chan, killed, ctx, left, lock,
                 tickslock, cpus, irq>>

\* copyuvm() succeeds; the child gets its parent.
ForkCopy(c, p) ==
  /\ Executes(c, p) /\ pc[p] = "copyuvm"
  /\ parent' = [parent EXCEPT ![child[p]] = p]
  /\ pc' = [pc EXCEPT ![p] = "publish"]
  /\ UNCHANGED <<state, pid, inuse, kstack, nextpid, child, chan, killed, ctx, left, lock,
                 tickslock, cpus, irq>>

\* copyuvm() fails: the stack is freed and the slot given back, unlocked.
ForkNoCopy(c, p) ==
  /\ Executes(c, p) /\ pc[p] = "copyuvm"
  /\ kstack' = [kstack EXCEPT ![child[p]] = FALSE]
  /\ state' = [state EXCEPT ![child[p]] = "UNUSED"]
  /\ child' = [child EXCEPT ![p] = None]
  /\ pc' = [pc EXCEPT ![p] = SyscallEnd(p, killed)]
  /\ UNCHANGED <<pid, parent, inuse, nextpid, chan, killed, ctx, left, lock, tickslock,
                 cpus, irq>>

\* np->state = RUNNABLE, without ptable.lock.
ForkPublish(c, p) ==
  /\ Executes(c, p) /\ pc[p] = "publish"
  /\ state' = [state EXCEPT ![child[p]] = "RUNNABLE"]
  /\ child' = [child EXCEPT ![p] = None]
  /\ pc' = [pc EXCEPT ![p] = SyscallEnd(p, killed)]
  /\ UNCHANGED <<pid, parent, inuse, kstack, nextpid, chan, killed, ctx, left, lock,
                 tickslock, cpus, irq>>
\* Mutant: kill() does not wake its victim.
KillMarkNoWake(c, p, k, t) ==
  /\ Calls(c, p) /\ lock = None
  /\ pid[t] = k /\ \A q \in Slot : pid[q] = k => t <= q
  /\ killed' = [killed EXCEPT ![t] = TRUE]
  /\ pc' = [pc EXCEPT ![p] = SyscallEnd(p, killed')]
  /\ UNCHANGED <<state, table, chan, ctx, left, lock, tickslock, cpus, irq>>

\* kill(k): the first slot whose pid is k, whatever its state.
KillMark(c, p, k, t) ==
  /\ Calls(c, p) /\ lock = None
  /\ pid[t] = k /\ \A q \in Slot : pid[q] = k => t <= q
  /\ killed' = [killed EXCEPT ![t] = TRUE]
  /\ state' = [state EXCEPT ![t] = IF @ = "SLEEPING" THEN "RUNNABLE" ELSE @]
  /\ pc' = [pc EXCEPT ![p] = SyscallEnd(p, killed')]
  /\ UNCHANGED <<table, chan, ctx, left, lock, tickslock, cpus, irq>>

\* wakeup1(x) on the state function st.
wakeup1(st, x) ==
  [p \in Slot |-> IF st[p] = "SLEEPING" /\ chan[p] = x THEN "RUNNABLE" ELSE st[p]]

ExitCall(c, p) ==
  /\ Calls(c, p) /\ p # initproc
  /\ pc' = [pc EXCEPT ![p] = "exit"]
  /\ UNCHANGED <<state, table, chan, killed, ctx, left, lock, tickslock, cpus, irq>>

\* exit() up to acquire: files and cwd are closed, inuse is cleared.
ExitClose(c, p) ==
  /\ Executes(c, p) /\ pc[p] = "exit" /\ p # initproc
  /\ inuse' = [inuse EXCEPT ![p] = FALSE]
  /\ pc' = [pc EXCEPT ![p] = "exiting"]
  /\ UNCHANGED <<state, pid, parent, kstack, nextpid, child, chan, killed, ctx, left, lock,
                 tickslock, cpus, irq>>

\* exit()'s loop: children go to init, which is woken if one is a zombie.
Orphans(p) == {q \in Slot : parent[q] = p}
Abandon(st, p) ==
  IF \E q \in Orphans(p) : st[q] = "ZOMBIE" THEN wakeup1(st, initproc) ELSE st
\* Mutant: exit() keeps its children.
ExitZombieKeep(c, p) ==
  /\ Executes(c, p) /\ pc[p] = "exiting" /\ lock = None
  /\ lock' = c
  /\ state' = [wakeup1(state, parent[p]) EXCEPT ![p] = "ZOMBIE"]
  /\ ctx' = [ctx EXCEPT ![p] = "sched"]
  /\ UNCHANGED <<table, chan, killed, pc, left, tickslock, cpus, irq>>

\* Mutant: exit() does not wake its parent.
ExitZombieSilent(c, p) ==
  /\ Executes(c, p) /\ pc[p] = "exiting" /\ lock = None
  /\ lock' = c
  /\ state' = [Abandon(state, p) EXCEPT ![p] = "ZOMBIE"]
  /\ parent' = [q \in Slot |-> IF parent[q] = p THEN initproc ELSE parent[q]]
  /\ ctx' = [ctx EXCEPT ![p] = "sched"]
  /\ UNCHANGED <<pid, inuse, kstack, nextpid, child, chan, killed, pc, left, tickslock,
                 cpus, irq>>

\* exit() from acquire to sched().
ExitZombie(c, p) ==
  /\ Executes(c, p) /\ pc[p] = "exiting" /\ lock = None
  /\ lock' = c
  /\ state' = [Abandon(wakeup1(state, parent[p]), p) EXCEPT ![p] = "ZOMBIE"]
  /\ parent' = [q \in Slot |-> IF parent[q] = p THEN initproc ELSE parent[q]]
  /\ ctx' = [ctx EXCEPT ![p] = "sched"]
  /\ UNCHANGED <<pid, inuse, kstack, nextpid, child, chan, killed, pc, left, tickslock,
                 cpus, irq>>

\* In wait(): entered with ptable.lock free, or back from sleep() holding it.
InWait(c, p) ==
  \/ Calls(c, p) /\ lock = None
  \/ spc[c] = "run" /\ proc[c] = p /\ pc[p] = "waited" /\ ctx[p] = "saved"

\* wait() finds a zombie child z and frees it.
WaitReap(c, p, z) ==
  /\ InWait(c, p)
  /\ parent[z] = p /\ state[z] = "ZOMBIE"
  /\ \A q \in Slot : parent[q] = p /\ state[q] = "ZOMBIE" => z <= q
  /\ state' = [state EXCEPT ![z] = "UNUSED"]
  /\ pid' = [pid EXCEPT ![z] = 0] /\ parent' = [parent EXCEPT ![z] = None]
  /\ kstack' = [kstack EXCEPT ![z] = FALSE] /\ killed' = [killed EXCEPT ![z] = FALSE]
  /\ ctx' = [ctx EXCEPT ![p] = "none"] /\ chan' = [chan EXCEPT ![p] = None]
  /\ pc' = [pc EXCEPT ![p] = SyscallEnd(p, killed)]
  /\ lock' = None
  /\ UNCHANGED <<inuse, nextpid, child, left, tickslock, cpus, irq>>

NoZombieChild(p) == \A q \in Slot : parent[q] = p => state[q] # "ZOMBIE"

\* wait() returns -1: no children, or killed.
WaitFail(c, p) ==
  /\ InWait(c, p) /\ NoZombieChild(p)
  /\ killed[p] \/ \A q \in Slot : parent[q] # p
  /\ ctx' = [ctx EXCEPT ![p] = "none"] /\ chan' = [chan EXCEPT ![p] = None]
  /\ pc' = [pc EXCEPT ![p] = SyscallEnd(p, killed)]
  /\ lock' = None
  /\ UNCHANGED <<state, table, killed, left, tickslock, cpus, irq>>

\* wait() sleeps: sleep(proc, &ptable.lock).
WaitSleep(c, p) ==
  /\ InWait(c, p) /\ NoZombieChild(p)
  /\ ~killed[p] /\ \E q \in Slot : parent[q] = p
  /\ chan' = [chan EXCEPT ![p] = p] /\ state' = [state EXCEPT ![p] = "SLEEPING"]
  /\ ctx' = [ctx EXCEPT ![p] = "sched"] /\ pc' = [pc EXCEPT ![p] = "waited"]
  /\ lock' = c
  /\ UNCHANGED <<table, killed, left, tickslock, cpus, irq>>

\* sys_sleep(n): acquire(&tickslock), ticks0 = ticks.
SleepCall(c, p, n) ==
  /\ Calls(c, p) /\ tickslock = None
  /\ tickslock' = c
  /\ left' = [left EXCEPT ![p] = n] /\ pc' = [pc EXCEPT ![p] = "ticks"]
  /\ UNCHANGED <<state, table, chan, killed, ctx, lock, cpus, irq>>
\* Mutant: tickslock is released before ptable.lock is acquired.
SleepTestRelease(c, p) ==
  /\ Executes(c, p) /\ pc[p] = "ticks"
  /\ tickslock' = None
  /\ IF left[p] > 0 /\ ~killed[p]
     THEN pc' = [pc EXCEPT ![p] = "dosleep"] /\ UNCHANGED left
     ELSE pc' = [pc EXCEPT ![p] = SyscallEnd(p, killed)] /\ left' = [left EXCEPT ![p] = 0]
  /\ UNCHANGED <<state, table, chan, killed, ctx, lock, cpus, irq>>

\* sys_sleep's loop, up to the call of sleep().
SleepTest(c, p) ==
  /\ Executes(c, p) /\ pc[p] = "ticks"
  /\ IF left[p] > 0 /\ ~killed[p]
     THEN pc' = [pc EXCEPT ![p] = "dosleep"] /\ UNCHANGED <<left, tickslock>>
     ELSE /\ pc' = [pc EXCEPT ![p] = SyscallEnd(p, killed)]
          /\ left' = [left EXCEPT ![p] = 0] /\ tickslock' = None
  /\ UNCHANGED <<state, table, chan, killed, ctx, lock, cpus, irq>>
\* sleep(&ticks, &tickslock) up to sched().
SleepSched(c, p) ==
  /\ Executes(c, p) /\ pc[p] = "dosleep" /\ lock = None
  /\ lock' = c /\ tickslock' = None
  /\ chan' = [chan EXCEPT ![p] = Ticks] /\ state' = [state EXCEPT ![p] = "SLEEPING"]
  /\ ctx' = [ctx EXCEPT ![p] = "sched"] /\ pc' = [pc EXCEPT ![p] = "slept"]
  /\ UNCHANGED <<table, killed, left, cpus, irq>>

\* sleep() reacquires lk.
SleepReacquire(c, p) ==
  /\ Executes(c, p) /\ pc[p] = "reacquire" /\ tickslock = None
  /\ tickslock' = c
  /\ pc' = [pc EXCEPT ![p] = "ticks"]
  /\ UNCHANGED <<state, table, chan, killed, ctx, left, lock, cpus, irq>>

\* swtch returned into p: the release(&ptable.lock) of forkret, of yield (and
\* the rest of trap()), or of sleep.  InWait covers the return into wait().
SwtchIn(c, p) ==
  /\ spc[c] = "run" /\ proc[c] = p /\ ctx[p] = "saved" /\ pc[p] # "waited"
  /\ lock' = None
  /\ ctx' = [ctx EXCEPT ![p] = "none"]
  /\ chan' = [chan EXCEPT ![p] = IF pc[p] = "slept" THEN None ELSE @]
  /\ pc' = [pc EXCEPT ![p] = CASE @ = "forkret" -> "user"
                               [] @ = "slept" -> "reacquire"
                               [] @ = "user" -> SyscallEnd(p, killed)
                               [] OTHER -> @]
  /\ UNCHANGED <<state, table, killed, left, tickslock, cpus, irq>>

-----------------------------------------------------------------------------
(* The timer interrupt on processor c: trap(), T_IRQ0 + IRQ_TIMER *)

\* Interrupts are on: user code, or kernel code outside every critical section.
Interruptible(c) ==
  /\ irq[c] = "none" /\ lock # c /\ tickslock # c
  /\ spc[c] \in {"top", "halt", "acquire", "run"}

TimerIrq(c) ==
  /\ Interruptible(c)
  /\ irq' = [irq EXCEPT ![c] = IF c = 1 THEN "tick" ELSE "return"]
  /\ UNCHANGED <<state, table, chan, killed, ctx, pc, left, lock, tickslock, cpus>>

\* acquire(&tickslock); ticks++
TimerTick(c) ==
  /\ irq[c] = "tick" /\ tickslock = None
  /\ tickslock' = c
  /\ left' = [p \in Slot |-> IF left[p] > 0 THEN left[p] - 1 ELSE 0]
  /\ irq' = [irq EXCEPT ![c] = "wakeup"]
  /\ UNCHANGED <<state, table, chan, killed, ctx, pc, lock, cpus>>

\* wakeup(&ticks); release(&tickslock)
TimerWakeup(c) ==
  /\ irq[c] = "wakeup" /\ lock = None
  /\ state' = wakeup1(state, Ticks)
  /\ tickslock' = None
  /\ irq' = [irq EXCEPT ![c] = "return"]
  /\ UNCHANGED <<table, chan, killed, ctx, pc, left, lock, cpus>>

\* Back to scheduler(), which leaves hlt.
TimerIdle(c) ==
  /\ irq[c] = "return" /\ proc[c] = None
  /\ spc' = [spc EXCEPT ![c] = IF @ = "halt" THEN "acquire" ELSE @]
  /\ irq' = [irq EXCEPT ![c] = "none"]
  /\ UNCHANGED <<state, table, chan, killed, ctx, pc, left, lock, tickslock, proc, cursor>>

\* The killed test of trap() before yield().
TimerExit(c, p) ==
  /\ irq[c] = "return" /\ proc[c] = p /\ killed[p] /\ pc[p] = "user"
  /\ pc' = [pc EXCEPT ![p] = "exit"]
  /\ irq' = [irq EXCEPT ![c] = "none"]
  /\ UNCHANGED <<state, table, chan, killed, ctx, left, lock, tickslock, cpus>>
\* Mutant: yield() releases ptable.lock before it switches stacks.
TimerYieldRelease(c, p) ==
  /\ irq[c] = "return" /\ proc[c] = p /\ ~(killed[p] /\ pc[p] = "user")
  /\ lock = None
  /\ state' = [state EXCEPT ![p] = "RUNNABLE"]
  /\ ctx' = [ctx EXCEPT ![p] = "sched"]
  /\ irq' = [irq EXCEPT ![c] = "none"]
  /\ UNCHANGED <<table, chan, killed, pc, left, lock, tickslock, cpus>>

\* yield() up to sched().
TimerYield(c, p) ==
  /\ irq[c] = "return" /\ proc[c] = p /\ ~(killed[p] /\ pc[p] = "user")
  /\ lock = None
  /\ lock' = c
  /\ state' = [state EXCEPT ![p] = "RUNNABLE"]
  /\ ctx' = [ctx EXCEPT ![p] = "sched"]
  /\ irq' = [irq EXCEPT ![c] = "none"]
  /\ UNCHANGED <<table, chan, killed, pc, left, tickslock, cpus>>

-----------------------------------------------------------------------------
Scheduler(c) ==
  \/ SchedHlt(c) \/ SchedAcquire(c) \/ SchedEnd(c) \/ SwtchOut(c)
  \/ \E p \in Slot : SchedSwtch(c, p)

Wait(c, p) ==
  WaitFail(c, p) \/ WaitSleep(c, p) \/ \E z \in Slot : WaitReap(c, p, z)

\* The system calls and traps user code of p may make; init.c calls no sleep.
UserStep(c, p) ==
  \/ TrapFault(c, p) \/ ExitCall(c, p)
  \/ \E s \in Slot : ForkAlloc(c, p, s)
  \/ \E k \in KillPids, t \in Slot : KillMark(c, p, k, t)
  \/ Calls(c, p) /\ Wait(c, p)
  \/ p # initproc /\ \E n \in SleepArgs : SleepCall(c, p, n)

\* The kernel code of p that runs on its own once p executes.
KernelStep(c, p) ==
  \/ TrapKilled(c, p)
  \/ ForkKstack(c, p) \/ ForkNoKstack(c, p) \/ ForkCopy(c, p) \/ ForkNoCopy(c, p)
  \/ ForkPublish(c, p) \/ ExitClose(c, p) \/ ExitZombie(c, p)
  \/ SleepTest(c, p) \/ SleepSched(c, p) \/ SleepReacquire(c, p)

\* The code of p that swtch returns into, up to the release of ptable.lock.
Resume(c, p) == SwtchIn(c, p) \/ (pc[p] = "waited" /\ Wait(c, p))

TimerStep(c) ==
  \/ TimerTick(c) \/ TimerWakeup(c) \/ TimerIdle(c)
  \/ \E p \in Slot : TimerExit(c, p) \/ TimerYield(c, p)

Next ==
  \E c \in Cpu : \/ Scheduler(c) \/ TimerIrq(c) \/ TimerStep(c)
                 \/ \E p \in Slot : UserStep(c, p) \/ KernelStep(c, p) \/ Resume(c, p)

Spec == Init /\ [][Next]_vars

-----------------------------------------------------------------------------
(* Properties *)

\* ptable.lock, held from the change of p->state to the end of swtch in sched()
\* and scheduler(), keeps one processor per process: no two processors ever
\* execute on the kernel stack of the same slot, and wait() never frees the
\* stack a processor is still using.
StackExclusive ==
  /\ \A c, d \in Cpu : proc[c] = proc[d] /\ proc[c] # None => c = d
  /\ \A c \in Cpu : proc[c] # None => kstack[proc[c]]

\* No sleeper misses its wakeup.  A process asleep in wait() has nothing to
\* reap, every exit() and every hand-over of a zombie to init having woken the
\* parent; it is not killed, which wait() tests under ptable.lock; and a process
\* asleep in sys_sleep() whose time is over sleeps only while the timer
\* interrupt is between ticks++ and wakeup(&ticks).
NoMissedWakeup ==
  \A p \in Slot : state[p] = "SLEEPING" =>
    /\ chan[p] = p => ~killed[p] /\ \A q \in Slot : parent[q] = p => state[q] # "ZOMBIE"
    /\ chan[p] = Ticks /\ left[p] = 0 => irq[1] = "wakeup"

\* Every process but init has a parent that can still wait() for it: exit()
\* leaves no child behind a ZOMBIE or an UNUSED slot, although fork() attaches
\* children without ptable.lock.
ParentAlive ==
  \A p \in Slot \ {initproc} :
    state[p] \in {"SLEEPING", "RUNNABLE", "RUNNING", "ZOMBIE"} =>
      /\ parent[p] # None
      /\ state[parent[p]] \in {"SLEEPING", "RUNNABLE", "RUNNING"}

\* The panics of sched() are never reached, whichever path entered it (exit,
\* yield, wait, sys_sleep): ptable.lock is held, it is the only lock held, and
\* the process has left the RUNNING state.
SchedAsserts ==
  \A c \in Cpu :
    spc[c] = "run" /\ ctx[proc[c]] = "sched" =>
      lock = c /\ tickslock # c /\ state[proc[c]] # "RUNNING"

-----------------------------------------------------------------------------
(* Liveness.  With ptable.lock held interrupts are off, so a processor goes  *)
(* on by itself: weak fairness.  A pending interrupt is delivered when       *)
(* interrupts come back on, and a processor executes instructions between    *)
(* two interrupts: strong fairness for the timer and the code it interrupts. *)
(* User code need not make any system call, except init, whose loop is       *)
(* wait() (user/init.c).                                                     *)
Fairness ==
  \A c \in Cpu :
    /\ SF_vars(Scheduler(c)) /\ SF_vars(TimerIrq(c)) /\ SF_vars(TimerStep(c))
    /\ WF_vars(\E p \in Slot : Resume(c, p))
    /\ \A p \in Slot : SF_vars(KernelStep(c, p))
    /\ SF_vars(Calls(c, initproc) /\ Wait(c, initproc))

FairSpec == Spec /\ Fairness

\* Every RUNNABLE process gets a processor: a pass of scheduler() goes on from
\* the process that ran last, and starts again only at the end of the table.
NoStarvation ==
  \A p \in Slot : state[p] = "RUNNABLE" ~> state[p] = "RUNNING"

\* A killed process reaches exit(), wherever kill() caught it: in user space, on
\* its way through a system call, or asleep in wait() or sys_sleep().
KilledDies ==
  \A p \in Slot \ {initproc} :
    (killed[p] /\ state[p] \in {"RUNNABLE", "RUNNING", "SLEEPING"}) ~> state[p] = "ZOMBIE"

\* init reaps every zombie that is, or becomes, its child.
OrphanReaped ==
  \A p \in Slot :
    (state[p] = "ZOMBIE" /\ parent[p] = initproc) ~> state[p] = "UNUSED"
=============================================================================
