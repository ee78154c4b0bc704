-------------------------------- MODULE Smp ---------------------------------
(***************************************************************************)
(* Several processors in one kernel: the boot of the first (main.c), the   *)
(* start of the others through one parameter block below 0x7000            *)
(* (startothers, lapicstartap, entryother.S, entry64.S), the page          *)
(* allocator that takes no lock until kinit2 says so (kalloc.c), and then  *)
(* scheduler, system calls and interrupts taking the spin locks of         *)
(* Spinlock on every processor.                                            *)
(*                                                                         *)
(* A thread is the boot and scheduler thread of a processor or a process.  *)
(* What it has still to do is a sequence of steps, code[t]: a call puts    *)
(* its steps in front, and so does an interrupt.  A process whose sequence *)
(* is empty is in user mode.  run[h] is the thread that processor h        *)
(* executes, so swtch() is an assignment to run[h].                        *)
(***************************************************************************)
EXTENDS Spinlock, Sequences, FiniteSets, SequencesExt

CONSTANTS
  Cpu,       \* the processors, each named by its APIC id
  Bsp,       \* the one the firmware starts
  Off,       \* what a processor runs before it is started
  NPROC,     \* slots of the process table
  Firmware   \* what the ACPI and MP tables may say

Proc == 1..NPROC
Lock == {"cons", "kmem", "ptable", "tickslock", "idelock"}

\* Firmware that is right about the machine: a table that is used lists
\* processors that exist, each once, the first processor among them.
ASSUME SmpAssumption ==
  /\ Bsp \in Cpu /\ Off \notin Cpu /\ NPROC \in Nat \ {0}
  /\ \A f \in Firmware : \A i \in 1..Len(f.madt) : f.madt[i].apicid \in Cpu

VARIABLES
  cpus,      \* the APIC ids in the order of cpus[]; its length is ncpu
  cpu,       \* the thread-local cpu of every processor, NoCpu before seginit
  started,   \* cpu->started of every struct cpu
  param,     \* the stack in the parameter block at 0x7000 - 16
  stack,     \* the stack every processor runs its scheduler on
  use_lock,  \* kmem.use_lock
  locking,   \* cons.locking
  run, code,
  save,      \* intena, the local variable of a process's call of sched()
  state,     \* proc->state; a sleeper's is the lock it slept with
  panicked   \* the panic that stopped the kernel, or "no"

bootvars == <<cpus, cpu, started, param, stack, use_lock, locking>>
vars == <<locked, lcpu, ncli, intena, eflags, cpus, cpu, started, param, stack,
          use_lock, locking, run, code, save, state, panicked>>

-----------------------------------------------------------------------------
(* The code of the threads.                                                *)

Acquire(l) == <<<<"acquire", l>>>>
Release(l) == <<<<"release", l>>>>

\* kalloc() and kfree() alike: lock, change the head of the list, unlock.
Kalloc == <<<<"klock", "kmem">>, <<"freelist">>, <<"kunlock", "kmem">>>>

seginit == Kalloc \o Kalloc \o <<<<"cpu">>>>

kinit2 == Kalloc \o <<<<"use_lock">>>>

scheduler == <<<<"sti">>>> \o Acquire("ptable") \o <<<<"scan", 1>>>>

\* Mutant: the processor does not say that it has started.
mpmainSilent == <<<<"cprintf">>>> \o scheduler
mpmain == <<<<"cprintf">>, <<"started">>>> \o scheduler

mpenter == <<<<"entry">>>> \o seginit \o mpmain

allocproc == Acquire("ptable") \o <<<<"allocproc">>>>

\* Mutant: kinit2() comes before startothers().
mainKinit2First ==
  Kalloc \o <<<<"cprintf">>, <<"tables">>>> \o seginit
    \o <<<<"cprintf">>, <<"locking">>>> \o kinit2 \o <<<<"startothers", 0>>>>
    \o allocproc \o mpmain
main ==
  Kalloc \o <<<<"cprintf">>, <<"tables">>>> \o seginit
    \o <<<<"cprintf">>, <<"locking">>, <<"startothers", 0>>>> \o kinit2
    \o allocproc \o mpmain

Sched == <<<<"sched">>, <<"resume">>>>

yield == Acquire("ptable") \o <<<<"runnable">>>> \o Sched \o Release("ptable")

sleep(l) == Acquire("ptable") \o Release(l) \o <<<<"asleep", l>>>> \o Sched
              \o Release("ptable") \o Acquire(l)

\* iderw() and sys_sleep(): sleep under the device's lock until the interrupt
\* handler has made the condition true, as it may be already (sleep(0)).
WaitFor(l) == Acquire(l) \o <<<<"until", l>>>> \o Release(l)

forkret(p) == Release("ptable") \o (IF p = 1 THEN WaitFor("idelock") ELSE <<>>)
                \o <<<<"trapret">>>>

\* Mutant: the handler takes ptable.lock before the device's lock.
InterruptPtableFirst(l) ==
  Acquire("ptable") \o Acquire(l) \o <<<<"wakeup", l>>>> \o Release(l)
    \o Release("ptable")
\* The handler of a device: wakeup() under the device's lock.
Interrupt(l) ==
  Acquire(l) \o Acquire("ptable") \o <<<<"wakeup", l>>>> \o Release("ptable")
    \o Release(l)

\* What a system call does here.  Bound: iderw() is called by the first process
\* alone, in forkret(); with the disk's lock in the place of tickslock, its
\* steps are those of sys_sleep().
Calls == {Kalloc, allocproc, WaitFor("tickslock")}

-----------------------------------------------------------------------------
(* The tables that name the processors.                                    *)

\* acpi_config_smp(): the enabled entries in the order of the MADT.
acpi_config_smp(madt) ==
  [i \in 1..Len(SelectSeq(madt, LAMBDA e : e.enabled)) |->
     SelectSeq(madt, LAMBDA e : e.enabled)[i].apicid]

\* mpinit(): the processor entries of the MP table, the others stepped over.
mpinit(conf) ==
  LET procs == SelectSeq(conf, LAMBDA e : e.type = "MPPROC")
  IN  [i \in 1..Len(procs) |-> procs[i].apicid]

tables(f) == IF acpi_config_smp(f.madt) # <<>> THEN acpi_config_smp(f.madt)
             ELSE mpinit(f.mp)

ncpu == Len(cpus)

\* Mutant: the search stops before the last entry of cpus[].
cpunumShort(h) == IF \E n \in 1..(ncpu - 1) : cpus[n] = h
                  THEN (CHOOSE n \in 1..ncpu : cpus[n] = h) - 1 ELSE 0
\* The first struct cpu with this APIC id, number 0 when there is none.
cpunum(h) == IF \E n \in 1..ncpu : cpus[n] = h
             THEN (CHOOSE n \in 1..ncpu :
                     cpus[n] = h /\ \A m \in 1..(n - 1) : cpus[m] # h) - 1
             ELSE 0

-----------------------------------------------------------------------------
(* Steps.                                                                  *)

MaxCpu == 0..(Cardinality(Cpu) - 1)

Init ==
  /\ initlock(Lock)
  /\ ncli = [c \in MaxCpu |-> 0] /\ intena = [c \in MaxCpu |-> FALSE]
  /\ eflags = [h \in Cpu |-> FALSE]
  /\ cpus = <<>> /\ cpu = [h \in Cpu |-> NoCpu]
  /\ started = [c \in MaxCpu |-> FALSE]
  /\ param = 0 /\ stack = [h \in Cpu |-> IF h = Bsp THEN 0 ELSE NoCpu]
  /\ use_lock = FALSE /\ locking = FALSE
  /\ run = [h \in Cpu |-> IF h = Bsp THEN h ELSE Off]
  /\ code = [t \in Cpu \union Proc |-> IF t = Bsp THEN main ELSE <<>>]
  /\ save = [p \in Proc |-> FALSE] /\ state = [p \in Proc |-> "UNUSED"]
  /\ panicked = "no"

\* Processor h is about to take the step called name, with argument Arg(h).
At(h, name) == /\ panicked = "no" /\ run[h] # Off
               /\ code[run[h]] # <<>> /\ Head(code[run[h]])[1] = name
Arg(h) == Head(code[run[h]])[2]

\* The step is replaced by what it calls.
Then(h, calls) == code' = [code EXCEPT ![run[h]] = calls \o Tail(@)]

Panic(why) ==
  /\ panicked' = why
  /\ UNCHANGED <<lockvars, bootvars, run, code, save, state>>

Kept == UNCHANGED <<run, save, state, panicked>>

CallsAcquire(h) == At(h, "acquire") \/ (At(h, "klock") /\ use_lock)

\* acquire() enters pushcli(), which reads the interrupt flag into a local
\* variable of the thread, kept here as the last element of its next step.  With
\* interrupts off nothing comes between this and cli(): one step then.
ReadFlag(h) ==
  /\ CallsAcquire(h) /\ readeflags(h)
  /\ Then(h, <<<<"cli", Arg(h), readeflags(h)>>>>)
  /\ UNCHANGED <<lockvars, bootvars>> /\ Kept
FlagRead(h) == IF At(h, "cli") THEN Head(code[run[h]])[3] ELSE readeflags(h)

\* acquire() from cli() to its loop.  The thread-local cpu is unusable before
\* seginit.
AcquireStart(h) ==
  /\ At(h, "cli") \/ (CallsAcquire(h) /\ ~readeflags(h))
  /\ IF cpu[h] = NoCpu THEN Panic("no cpu")
     ELSE IF holding(Arg(h), cpu[h]) THEN Panic("acquire")
     ELSE /\ pushcli(h, cpu[h], FlagRead(h)) /\ Then(h, <<<<"xchg", Arg(h)>>>>)
          /\ UNCHANGED <<locked, lcpu, bootvars>> /\ Kept

AcquireTake(h) ==
  /\ At(h, "xchg") /\ xchg(Arg(h), cpu[h]) /\ Then(h, <<>>)
  /\ UNCHANGED <<ncli, intena, eflags, bootvars>> /\ Kept

ReleaseLock(h) ==
  /\ At(h, "release") \/ (At(h, "kunlock") /\ use_lock)
  /\ IF cpu[h] = NoCpu \/ ~holding(Arg(h), cpu[h]) THEN Panic("release")
     ELSE IF popcliPanics(h, cpu[h]) THEN Panic("popcli")
     ELSE /\ release(Arg(h), h, cpu[h]) /\ Then(h, <<>>)
          /\ UNCHANGED bootvars /\ Kept

\* The free list is changed.  if(kmem.use_lock) is tested before and after;
\* while it is off the two calls are passed over.
Freelist(h) ==
  /\ \/ At(h, "freelist")
     \/ ~use_lock /\ (At(h, "klock") \/ At(h, "kunlock"))
  /\ Then(h, <<>>) /\ UNCHANGED <<lockvars, bootvars>> /\ Kept

cprintf(h) ==
  /\ At(h, "cprintf")
  /\ Then(h, IF locking THEN Acquire("cons") \o Release("cons") ELSE <<>>)
  /\ UNCHANGED <<lockvars, bootvars>> /\ Kept

acpiinit(h) ==
  /\ At(h, "tables") /\ \E f \in Firmware : cpus' = tables(f)
  /\ Then(h, <<>>)
  /\ UNCHANGED <<lockvars, cpu, started, param, stack, use_lock, locking>> /\ Kept

\* The end of seginit(): FS points to the new page, cpu to cpus[cpunum()].
SetCpu(h) ==
  /\ At(h, "cpu") /\ cpu' = [cpu EXCEPT ![h] = cpunum(h)] /\ Then(h, <<>>)
  /\ UNCHANGED <<lockvars, cpus, started, param, stack, use_lock, locking>> /\ Kept

consoleinit(h) ==
  /\ At(h, "locking") /\ locking' = TRUE /\ Then(h, <<>>)
  /\ UNCHANGED <<lockvars, cpus, cpu, started, param, stack, use_lock>> /\ Kept

UseLock(h) ==
  /\ At(h, "use_lock") /\ use_lock' = TRUE /\ Then(h, <<>>)
  /\ UNCHANGED <<lockvars, cpus, cpu, started, param, stack, locking>> /\ Kept

\* One round of the loop over cpus[] in startothers().
startothers(h) ==
  /\ At(h, "startothers")
  /\ Then(h, IF Arg(h) = ncpu THEN <<>>
             ELSE IF Arg(h) = cpunum(h) THEN <<<<"startothers", Arg(h) + 1>>>>
             ELSE Kalloc \o <<<<"startap", Arg(h)>>, <<"wait", Arg(h)>>,
                              <<"startothers", Arg(h) + 1>>>>)
  /\ UNCHANGED <<lockvars, bootvars>> /\ Kept

\* The stack goes to the parameter block, then INIT and STARTUP reach the
\* processor; the second STARTUP finds it running and is ignored.  A stack
\* is named by the struct cpu it was allocated for.
lapicstartap(h) ==
  /\ At(h, "startap") /\ param' = Arg(h) + 1
  /\ LET ap == cpus[Arg(h) + 1]
     IN  IF run[ap] = Off
         THEN /\ run' = [run EXCEPT ![ap] = ap]
              /\ code' = [code EXCEPT ![h] = Tail(@), ![ap] = mpenter]
         ELSE Then(h, <<>>) /\ UNCHANGED run
  /\ UNCHANGED <<lockvars, cpus, cpu, started, stack, use_lock, locking,
                  save, state, panicked>>

\* Mutant: startothers() does not wait for cpu->started.
WaitNever(h) ==
  /\ At(h, "wait") /\ Then(h, <<>>) /\ UNCHANGED <<lockvars, bootvars>> /\ Kept
WaitStarted(h) ==
  /\ At(h, "wait") /\ started[Arg(h)] /\ Then(h, <<>>)
  /\ UNCHANGED <<lockvars, bootvars>> /\ Kept

\* entry64mp: the stack pointer is loaded from the parameter block.
Entry(h) ==
  /\ At(h, "entry") /\ stack' = [stack EXCEPT ![h] = param] /\ Then(h, <<>>)
  /\ UNCHANGED <<lockvars, cpus, cpu, started, param, use_lock, locking>> /\ Kept

Started(h) ==
  /\ At(h, "started") /\ started' = [started EXCEPT ![cpu[h]] = TRUE]
  /\ Then(h, <<>>)
  /\ UNCHANGED <<lockvars, cpus, cpu, param, stack, use_lock, locking>> /\ Kept

\* The interrupt flag set by sti, or by the iret that ends a trap.
SetIF(h) ==
  /\ \E name \in {"sti", "iret", "trapret"} : At(h, name)
  /\ eflags' = [eflags EXCEPT ![h] = TRUE] /\ Then(h, <<>>)
  /\ UNCHANGED <<locked, lcpu, ncli, intena, bootvars>> /\ Kept

\* The loop over the process table, from slot Arg(h) on.
Scan(h) ==
  /\ At(h, "scan")
  /\ LET ready == {p \in Proc : p >= Arg(h) /\ state[p] = "RUNNABLE"}
         first == CHOOSE p \in ready : \A q \in ready : p <= q
     IN  IF ready = {}
         THEN /\ Then(h, Release("ptable") \o <<<<"sti">>, <<"hlt">>>> \o Tail(scheduler))
              /\ UNCHANGED <<run, state>>
         ELSE /\ run' = [run EXCEPT ![h] = first]
              /\ state' = [state EXCEPT ![first] = "RUNNING"]
              /\ Then(h, <<<<"scan", first + 1>>>>)
  /\ UNCHANGED <<lockvars, bootvars, save, panicked>>

sched(h) ==
  /\ At(h, "sched")
  /\ LET p == run[h]
     IN  IF ~holding("ptable", cpu[h]) THEN Panic("sched ptable.lock")
         ELSE IF ncli[cpu[h]] # 1 THEN Panic("sched locks")
         ELSE IF state[p] = "RUNNING" THEN Panic("sched running")
         ELSE IF eflags[h] THEN Panic("sched interruptible")
         ELSE /\ save' = [save EXCEPT ![p] = intena[cpu[h]]]
              /\ run' = [run EXCEPT ![h] = h] /\ Then(h, <<>>)
              /\ UNCHANGED <<lockvars, bootvars, state, panicked>>

\* Mutant: sched() does not put cpu->intena back.
ResumeOnly(h) ==
  /\ At(h, "resume") /\ Then(h, <<>>) /\ UNCHANGED <<lockvars, bootvars>> /\ Kept
\* sched() after swtch() has come back, on whatever processor.
Resume(h) ==
  /\ At(h, "resume")
  /\ intena' = [intena EXCEPT ![cpu[h]] = save[run[h]]]
  /\ save' = [save EXCEPT ![run[h]] = FALSE] /\ Then(h, <<>>)
  /\ UNCHANGED <<locked, lcpu, ncli, eflags, bootvars, run, state, panicked>>

\* The assignments to proc->state, and the wakeup of all sleepers of a lock.
SetState(h) ==
  /\ \/ At(h, "runnable") /\ state' = [state EXCEPT ![run[h]] = "RUNNABLE"]
     \/ At(h, "publish") /\ state' = [state EXCEPT ![Arg(h)] = "RUNNABLE"]
     \/ At(h, "asleep") /\ state' = [state EXCEPT ![run[h]] = Arg(h)]
     \/ /\ At(h, "wakeup")
        /\ state' = [p \in Proc |-> IF state[p] = Arg(h) THEN "RUNNABLE" ELSE state[p]]
  /\ Then(h, <<>>) /\ UNCHANGED <<lockvars, bootvars, run, save, panicked>>

\* The while loop around sleep(): its condition may or may not hold.
Until(h) ==
  /\ At(h, "until")
  /\ Then(h, <<>>) \/ Then(h, sleep(Arg(h)) \o <<<<"until", Arg(h)>>>>)
  /\ UNCHANGED <<lockvars, bootvars>> /\ Kept

\* The rest of allocproc() and of its callers userinit() and fork(): a slot
\* is taken under the lock, filled without it, and made RUNNABLE.
Allocproc(h) ==
  /\ At(h, "allocproc")
  /\ LET free == {p \in Proc : state[p] = "UNUSED"}
         new == CHOOSE p \in free : \A q \in free : p <= q
     IN  IF free = {} THEN Then(h, Release("ptable")) /\ UNCHANGED state
         ELSE /\ state' = [state EXCEPT ![new] = "EMBRYO"]
              /\ code' = [code EXCEPT
                   ![run[h]] = Release("ptable") \o Kalloc \o <<<<"publish", new>>>>
                                 \o Tail(@),
                   ![new] = forkret(new)]
  /\ UNCHANGED <<lockvars, bootvars, run, save, panicked>>

\* A process in user mode makes a system call.  Vector 64 is a trap gate:
\* interrupts stay on.
Syscall(h) ==
  /\ panicked = "no" /\ run[h] \in Proc /\ code[run[h]] = <<>>
  /\ \E call \in Calls : code' = [code EXCEPT ![run[h]] = call]
  /\ UNCHANGED <<lockvars, bootvars>> /\ Kept

\* trap() on the timer, or on the disk that ideinit() routes to the last
\* processor, on top of whatever runs.  All vectors but 64 are interrupt
\* gates.  A halted processor goes on behind its hlt.
Trap(h) ==
  /\ panicked = "no" /\ eflags[h]
  /\ LET idle == run[h] \notin Proc
         below == IF At(h, "hlt") THEN Tail(code[run[h]]) ELSE code[run[h]]
         timer == (IF cpu[h] = 0 THEN Interrupt("tickslock") ELSE <<>>)
                    \o (IF idle THEN <<>> ELSE yield)
         disk == IF cpu[h] + 1 >= ncpu THEN {Interrupt("idelock")} ELSE {}
     IN  \E handler \in {timer} \union disk :
           code' = [code EXCEPT ![run[h]] = handler \o <<<<"iret">>>> \o below]
  /\ eflags' = [eflags EXCEPT ![h] = FALSE]
  /\ UNCHANGED <<locked, lcpu, ncli, intena, bootvars>> /\ Kept

Step(h) ==
  \/ ReadFlag(h) \/ AcquireStart(h) \/ AcquireTake(h) \/ ReleaseLock(h)
  \/ Freelist(h) \/ cprintf(h) \/ acpiinit(h) \/ SetCpu(h) \/ consoleinit(h) \/ UseLock(h)
  \/ startothers(h) \/ lapicstartap(h) \/ WaitStarted(h) \/ Entry(h) \/ Started(h)
  \/ SetIF(h) \/ Scan(h) \/ sched(h) \/ Resume(h) \/ SetState(h) \/ Until(h)
  \/ Allocproc(h)

Next == \E h \in Cpu : Step(h) \/ Syscall(h) \/ Trap(h)

\* Every processor the tables name has set cpu->started, and main() has turned
\* the lock of the page allocator on.
Booted == use_lock /\ \A c \in 0..(ncpu - 1) : c # cpunum(Bsp) => started[c]

\* While the machine boots, a processor that can go on does.  Calls and
\* interrupts need not come.
Fairness == \A h \in Cpu : WF_vars(~Booted /\ Step(h))

Spec == Init /\ [][Next]_vars /\ Fairness

-----------------------------------------------------------------------------
(* Properties.                                                             *)

\* No panic of acquire(), release(), popcli() or sched() is reached, and no
\* lock is taken by a processor whose thread-local cpu is not yet set up: the
\* allocations in seginit() come while kmem.use_lock is still off.
NoLockPanic == panicked = "no"

\* The free list of kalloc.c is never in two processors' hands at once, with
\* the lock or, while the machine boots, without it.
FreelistExclusive ==
  \A g, h \in Cpu : At(g, "freelist") /\ At(h, "freelist") => g = h

\* Processors never spin on each other in a circle: some processor of every
\* set of spinning ones waits for a lock whose holder is outside the set.
NoSpinCycle ==
  \A S \in SUBSET {h \in Cpu : At(h, "xchg")} \ {{}} :
    \E h \in S : \A g \in S : ~holding(Arg(h), cpu[g])

Pending(h, name) == \E i \in 1..Len(code[run[h]]) : code[run[h]][i][1] = name

\* A process keeps its own interrupt flag across sched(), whichever processor
\* resumes it: outside critical sections a system call runs with interrupts
\* on and an interrupt handler with interrupts off.  So the flag that pushcli()
\* has read is still the thread's flag when cli() comes, even if the thread was
\* preempted in between and resumed by another processor: pushcli() never
\* records a wrong flag.
FlagOfThread ==
  \A h \in Cpu : panicked = "no" =>
    /\ run[h] \in Proc /\ ncli[cpu[h]] = 0 =>
         /\ Pending(h, "iret") => ~eflags[h]
         /\ ~Pending(h, "iret") /\ ~Pending(h, "trapret") => eflags[h]
    /\ At(h, "cli") => FlagRead(h) = readeflags(h)

\* Processors that have entered the kernel use different stacks and different
\* struct cpus, although all read their stack from the same parameter block.
OwnCpuAndStack ==
  \A g, h \in Cpu :
    /\ cpu[g] # NoCpu /\ cpu[g] = cpu[h] => g = h
    /\ stack[g] # NoCpu /\ stack[g] = stack[h] => g = h

\* The machine comes up: every processor the tables name tells startothers()
\* that it has started, and main() goes on to turn the allocator's lock on.
Boots == <>Booted
=============================================================================
