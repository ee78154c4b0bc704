# A TLA+ development of xv6

xv6 is a small Unix-like kernel for x86 multiprocessors; this repository is its x86-64 port. This directory holds
TLA+ models of the kernel, of its boot on several processors and of the shell, the TLC configurations that check
them, and machine-checked proofs (TLAPS) about the process table, the write-ahead log, the buffer cache, the file
table, pipes, console input and the memory of processes. Everything is translated from the C source, for the default
build (`X64 = yes`, IDE disk). `PROJECT.json` says which lines each definition stands for, lists the
runs, the hazards of the code and the properties that cover them, and for every property a mutation of the model that
the property detects.

    tlc -workers 2 -config Log.cfg Log           # one run
    tlapm LogProofs.tla                          # one proof module

## 1. The system

| part | source | state | operations | what makes it hard |
|---|---|---|---|---|
| Processes | proc.c, trap.c, sysproc.c | ptable, per-CPU `proc`, `ticks` | fork, exit, wait, kill, sleep, wakeup, yield, scheduler, timer interrupt | ptable.lock is held across `swtch`; sleep/wakeup; orphans; kill of a sleeper |
| Memory | kalloc.c, vm.c, vm64.c, exec.c | free list, page tables, `sz` | kalloc, kfree, allocuvm, deallocuvm, copyuvm, freevm, exec, growproc | memory runs out in the middle of any of them |
| Buffer cache, disk | bio.c, ide.c | buffers, their LRU list, idequeue | bread, bwrite, brelse, iderw, ideintr | one channel shared by two kinds of sleepers; recycling; pinned buffers |
| Log | log.c | log header in memory and on disk, log sectors | begin_trans, log_write, commit_trans, recovery | a crash between any two disk writes, also in recovery |
| Inodes, names | fs.c, sysfile.c | inode cache, dinodes, directories | iget, ilock, iput, ialloc, namex, create, link, unlink, mkdir | iput's window while it frees; lookups that are stale when used |
| File contents | fs.c, file.c | bitmap, block pointers, sizes | balloc, bfree, bmap, itrunc, readi, writei, fileread, filewrite | transactions of bounded size; reuse of blocks; crashes |
| Disk image | tools/mkfs.c | the image | ialloc, iappend, balloc | it has to agree with fs.c |
| Open files | file.c, sysfile.c | ftable, `ofile` | filealloc, filedup, fileclose, fdalloc, open, dup, close, pipe | sharing by fork and dup; undoing half of a call |
| Pipes | pipe.c | ring buffer, `nread`, `nwrite`, open ends | pipewrite, piperead, pipeclose | counters that wrap; kill; two channels |
| Console input | console.c | ring buffer `r`, `w`, `e` | consoleintr, consoleread | line editing in the ring; a full ring; end of file |
| Processors and locks | main.c, mp.c, acpi.c, lapic.c, spinlock.c, kalloc.c, trap.c | `cpus`, `ncli`, `intena`, locks, the parameter block at 0x7000 | main, startothers, mpenter, acquire, release, pushcli, popcli, sched, interrupts | an allocator without lock during boot; per-processor state saved per process; lock order between processes and handlers |
| Shell | sh.c, init.c | command trees, descriptors, processes | parsecmd, runcmd, getcmd, fork1, init's loop | descriptors inherited by fork; who waits for whom; fork or pipe failing half way |

They meet as follows. A system call runs in a process, so between any two of its steps another processor can run
another one. Calls wait with `sleep` and are woken with `wakeup` or `kill` (Proc); the other modules use what Proc
establishes: a sleeper is woken by a wakeup on its channel or by kill, tests its condition again, and no wakeup is
lost if the condition is tested and `sleep` called under one lock. File system calls change buffers inside a
transaction; Log shows that the changes become durable together, which is why Inode and FileData take a
transaction as one step with respect to crashes. Smp is below all of them: it checks the locks, the interrupt flag
and the hand-over of ptable.lock that the other modules take as atomic steps. Shell is on top: it uses processes,
descriptors and pipes as Proc, FileTable and Pipe provide them.

What should be true of it: kernel stacks are used by one processor at a time; nobody sleeps through the event
waited for; every exited process is reaped; transactions are atomic across crashes; a sector has one buffer and
readers see the latest data; reference and link counts are exact, and things are freed with the last one and only
then; a page and a block have one owner; files, pipes and the console are byte queues or byte arrays, however
they are stored; processors come up on stacks of their own, never spin in a circle and keep each process's interrupt
flag; the shell reads lines as its grammar says and comes back to its prompt once its programs have the input they
ask the user for; and the `panic` calls that state assumptions are unreachable.

## 2. The modules

| module | models | lines of the code that a step is |
|---|---|---|
| `Proc` | process table, schedulers, timer | a critical section of ptable.lock or the code between two; `swtch` is a step of its own |
| `ProcProofs` | proofs about Proc | |
| `Log`, `AtomicStore` | log.c, and what it promises | at most one disk write |
| `LogProofs` | proofs about Log, with the refinement | |
| `Bcache`, `MCBcache` | bio.c and ide.c | a critical section of bcache.lock or idelock |
| `BcacheProofs` | proofs about Bcache | |
| `Inode`, `MCInode` | inode cache, directories, path calls | what a process does between two waits or unlocks |
| `FileData`, `ByteFiles`, `MCFileData` | file contents, and what they promise | one readi, or one transaction of filewrite |
| `Mkfs` | mkfs.c, as a function from files to the image | the initial state of FileData |
| `FileTable`, `MCFileTable` | file.c and descriptors | a critical section of ftable.lock or the code between two |
| `FileTableSteps`, `FileTableProofs` | proofs about FileTable: the invariant and the first actions; the other actions and the theorems | |
| `Pipe`, `Fifo` | pipe.c, and what it promises | the code between two tests of shared state under p->lock |
| `PipeProofs` | proofs about Pipe, with the refinement | |
| `Console`, `LineInput` | console input, and what it promises | a character; a read up to its return or sleep |
| `ConsoleProofs` | proofs about Console, with the refinement | |
| `Vm`, `MCVm` | pages under fork, sbrk, exec, exit, wait | one call of kalloc and what follows it |
| `VmProofs` | proofs about Vm | |
| `Spinlock` | spinlock.c | operators: the state changes of its functions |
| `Smp`, `MCSmp` | boot of the processors; scheduler, calls and interrupts on them | a lock operation, or the code between two; pushcli's reading of the interrupt flag is a step of its own |
| `ShParse` | the parser of sh.c, and its grammar | operators |
| `Shell`, `MCShell` | init, the shell, its children, echo and cat | a system call and the code up to the next; the close, dup, close, close of a side of a pipe are one step, since none of them waits |

Variables and actions have the names of the source where TLA+ allows it. A definition whose comment starts with
"Mutant" is a deliberately wrong form of the definition that follows and is not used by the specification.

**Proc.** One record-like function per field of `struct proc`. `pc[p]` is the place in the kernel, `ctx[p]` says
where the kernel thread's registers are: in a processor ("none"), on their way out ("sched": the process has set
its new state and entered `sched`, but still runs on its stack), or in `p->context` ("saved"). `lock` is the
processor that holds ptable.lock, since one thread acquires it and another releases it. `Interruptible` is the
interrupt flag: pushcli nesting keeps interrupts off while a lock is held. Only processor 1 (cpu id 0) counts ticks.

**Log.** `disk`, `logd` and `head` are the home sectors, the log sectors and the header on the disk; `buf` and
`dirty` the cached sectors and those that log_write pins; `lh` and `busy` the in-memory log. `Crash` keeps the
disk only. `Evict` recycles any buffer that is not dirty. `AtomicStore` has two maps, `durable` and `view`, and the
owner of the transaction: writes change `view`, commit copies it, a crash goes back.

**Bcache.** Buffers, the recycling order, the disk queue and the disk. bget's sleepers and iderw's sleepers share
the buffer as their channel. log_write's pinning is `MaxPinned`, a failing read is `MaxFailed`. In Log a buffer is
its content or absent; Bcache is what justifies that.

**Inode.** `disk` (type and nlink of the dinodes), `entry` and `dotdot` (directories), the cache (`ref`, `flags`,
`mem`), the transaction `trans`, one file descriptor per process, and the local variables `l[p]` of a call. Paths
are sequences of names from the root. iput is split where it releases icache.lock.

**FileData, Mkfs.** The record `fs` has the bitmap, the blocks, the inodes in memory and on disk, and the blocks in
the current transaction, which log_write bounds. Blocks hold numbers, either bytes or block numbers, so an
indirect block that was not cleared is seen for what it is. A free block holds the same junk always: nothing reads
a free block, which `FilesAreBytes` confirms. The initial state is the image mkfs builds; the refinement therefore
also says that mkfs's layout is what bmap reads.

**FileTable, Pipe, Console.** `held[p]` has the files in the local variables of p's call, `last[p]` the copy fileclose works on,
and `fd[p]` the loop variable of fork and exit. FileTable takes a pipe as its two ends; Pipe is one pipe with any number of processes
at its ends and no descriptors. Unsigned counters wrap at `UintMod`, a multiple of the buffer size as 2^32 is.
Console's keys are an ordinary character, `\n`, `\r`, `^D`, `^U` and backspace.

**Vm.** `own` says for every page in which table of which address space it is; the tables themselves take pages
too. Each kalloc may be the one that fails. Sizes are counted in pages. `Visited`, the entries deallocuvm finds, is
written as a set: behind a missing page table the loop goes on a whole table further and so comes to the next one at the
same index. MCVm has the loop itself, and TLC evaluates that both agree (`VisitedIsLoop`).

**Smp, Spinlock.** A thread (a processor's boot and scheduler thread, or a process) has in `code[t]` the steps it has
still to take: main() is written down as such a sequence, a call is replaced by the steps of its body, an interrupt
puts the steps of its handler in front. `run[h]` is the thread on processor h, so that `swtch` is an assignment.
`locked`, `lcpu`, `ncli`, `intena` and `eflags` are the fields of `struct spinlock` and `struct cpu` and the interrupt
flag. When interrupts are on, pushcli is two steps: `ReadFlag` puts the flag it has read beside the thread's place in
acquire, and `AcquireStart` goes on with cli(), later and perhaps on another processor. All panics of acquire, release, popcli and sched are steps to `panicked`, and so is a lock taken by a processor
whose thread-local `cpu` is not set. `Firmware` is what the tables say: the enabled MADT entries, or else the MP
table. A stack is named by the struct cpu it was allocated for; `param` is the one in the parameter block.

**ShParse, Shell.** Lines are sequences of tokens. `parsecmd` is the recursive descent of sh.c; `Grammar` is the same
language defined by splitting a line at its operators. In Shell `at[p]` is the place in sh.c, init.c, echo.c or
cat.c, `ofile[p]` the descriptors, `pipe[k]` the number of chunks in a pipe. A pipe is freed when no descriptor
refers to it. cat's read of a pipe or a file (`CatRead`) is a step of the system, its read of the console
(`CatConsole`) one of the user, who enters a line or the end of the input. `bg` is a history variable: the processes
nobody promised to wait for, because of `&` or because the shell process that started them panicked in fork1 or
pipe (its living descendants then).

## 3. The runs

All passing runs explore their state space completely, with deadlock checking except where noted.

| run | instance | shows |
|---|---|---|
| `proc_table` | 3 slots, 2 CPUs | `StackExclusive`: no two processors on one kernel stack. `NoMissedWakeup`: no sleeper whose child has exited, who is killed, or whose tick has come. `ParentAlive`: the parent of a process is a live process |
| `proc_live` | 3 slots, 1 CPU, fair | `NoStarvation`, `OrphanReaped`, `KilledDies` |
| `log` | 2 processes, 3 blocks, 2 log sectors | `AtomicTransactions`: refines AtomicStore. `WriteAhead`, `SleepersHaveOwner`; `RecoveryEnds` once crashes stop |
| `bcache` | 3 processes, 3 sectors, 2 buffers | `ReadsLatest`: through recycling, pinning and failed reads. `SleepersWait`: whoever sleeps has someone who will wake them; the head of the disk queue is the active request |
| `inode` | 2 processes, 3 inodes, 2 names | `RefCount`, `LinkCount`: exact at every step. `FreedWithLastReference`. `NoInodePanic` |
| `filedata` | 2 processes on one open file, 7 blocks | `FilesAreBytes`: refines ByteFiles. `BlocksOwned`: the bitmap and the pointers agree. `NoLogPanic`: no write outgrows the log |
| `filetable` | 2 processes, 4 files, 2 descriptors | `RefCount`; `LastCloseOnce`: pipeclose and iput once per file |
| `pipe` | reader, writer, 2-byte buffer, fair | `PipeIsFifo`: refines Fifo. `SleepersBlocked`; `PeerCloseUnblocks`; `KilledReturns` |
| `console` | 2 readers, 3-byte ring | `InputIsLines`: refines LineInput. `InputNotStuck` |
| `vm` | 2 slots, 12 pages, 2 entries per table | `OwnedOnce`: no page in two places. `SizeIsMapped`; `LostOnly`: pages are lost in the two known places only |
| `smp` | 1, 2 and 3 processors, 2 processes, fair | `NoLockPanic`: no panic of spinlock.c and sched(), no lock before seginit. `FreelistExclusive`: also while the allocator takes no lock. `NoSpinCycle`. `FlagOfThread`: sched() gives a process its interrupt flag back on whatever processor, and the flag pushcli has read is still right when cli() comes. `OwnCpuAndStack`. `Boots` |
| `shell` | 7 or 4 slots, 2 pipes, fair | `ParsesGrammar`: parsecmd agrees with Grammar. `Plumbing`: programs start with exactly their three descriptors. `ForegroundDone`: the prompt comes when the line's foreground has ended. `PromptReturns`: it comes back, if the user answers programs that read the console |

`TypeOK` and `SchedAsserts` of Proc, `TypeOK` and `OneTransaction` of Log, `Exclusive` of BcacheProofs and `NoFilePanic` of
FileTableProofs are not among the runs' properties: they are proved (section 4).

**Bounds.** Three slots are init, a parent and its child, the smallest table in which a parent can die before its
child and the child's slot can be used again; two processors are the least on which the hand-over of ptable.lock
can go wrong. `MaxPid` bounds the number of forks so that pids do not grow for ever; 3 lets one slot be used
again after an exit or a failed fork. `KillPids` and `SleepArgs` are the arguments used by any process; init does not sleep. The log of two data
sectors with three blocks can be filled, absorbs a repeated write, and can overflow. Three sectors
on two buffers force recycling, both may be pinned at once, and three processes put two waiters on one buffer. Three inodes are the root, a directory and a file;
two names are enough for link and unlink to race with lookups in a directory that is itself removed. Blocks of two
bytes with one direct and two indirect pointers make a five-byte write cross blocks, allocate the indirect block and
take three transactions; seven blocks let the disk fill up. Rings of two and three bytes with counters that wrap at 4 and 6
run through every combination of wrap and fill. Twelve pages are exhausted by two processes at every kalloc of fork,
sbrk and exec. In `smp` the tables name two processors (in the MADT or the MP table), none, or three with the boot
processor in the middle and a disabled entry; with three processors only the boot is explored (`BootOfThree`), up to
the first process, since after it nothing depends on the number of processors but the number of contenders for a
lock. The timer interrupts every processor at any moment, the disk the last one. System calls fork, allocate or
sleep for a tick; the disk is waited for by the first process alone (forkret), in steps that differ from those of
sys_sleep in the lock. In `shell` every sequence of three tokens is typed and parsed, and twelve lines are run:
pipelines of three and four (for the four, two pipes are too few and pipe() fails behind a side that has started),
blocks and lists inside pipelines, redirections behind blocks, background commands, syntax errors and a missing program. Seven slots are enough for the
widest line and for `cat` typed while a background command still runs, four make fork1 fail at every place; a pipe
of one chunk blocks a writer of two. Processes (and, in Bcache, sectors and values, in FileTable pages) are interchangeable in the safety runs that use symmetry.
Init does not fault, exit, sleep, grow or shrink: `init.c` does none of it, and the kernel panics if init exits.

**Deadlock** is not checked in `pipe`, where both ends may be closed and nothing is left to do, and in `shell`, where
the kernel panics ("init exiting") when init cannot fork its shell. In FileData the model
ends when balloc hands out a log block (`Halted`): what happens afterwards is the disagreement of section 6.

**Fairness.** Proc: a processor goes on executing what it is in, the timer keeps interrupting, a lock that is free
again and again is eventually obtained (strong fairness), and init calls wait() again and again, as `init.c` does.
Nothing is assumed of user code. xchg-based spinlocks do not promise strong fairness between processors, so the
liveness run has one processor, where the lock is only contended by the interrupt handler. Log: a process in a
transaction and the recovery go on; crashes are not fair. Pipe: a call that can go on infinitely often does, which is
Proc's NoStarvation; a killed process closes its end, which is Proc's KilledDies. Smp: while the machine boots
a processor that can take a step does; interrupts and system calls need not come. Shell: if some process can run then
some process runs, which is less than NoStarvation. The user need not type, neither at the prompt nor to a program: a
`cat` that reads the console sleeps in consoleread until a line or ^D comes (console.c:253-259, and Notes:110), and
the prompt with it. So `PromptReturns` has the hypothesis `UserAnswers`: whenever programs wait for the console
for ever, one of them gets a line or the end of its input. Without it TLC finds the `cat` that nobody answers.

## 4. The proofs

TLAPS proves the following for every value of the constants that satisfies the modules' ASSUMEs: positive sizes, a
finite number of processes in FileTable, that the names for "no value", "no sector" and "nobody" are not among the
values, in Pipe and Console that the size of the buffer divides the range of the counters, as 512 and 128 divide 2^32, and
in Vm that a program leaves room for its stack below `MaxSz`. There are no other assumptions.

`ProcProofs`: `TypeCorrect`, `StackSafety` (Spec => []StackExclusive) and `SchedSafety` (Spec => []SchedAsserts). The inductive
invariant `IInv` is needed because StackExclusive alone says nothing about a process that is RUNNABLE but still on its
stack. Its parts: a processor has a process exactly while it runs one (`CpuInv`); who holds ptable.lock at which
point of a switch (`LockInv`), the fact that makes the hand-over work; the state of a running process (`StateInv`) and
the context of one that is not running (`CtxInv`), together the reason why a scheduler never picks a process whose
stack is in use; that a slot being filled by fork belongs to that fork (`ForkInv`), since fork works on it without
ptable.lock; and where interrupts can be taken (`IrqInv`, `TickInv`). One lemma per action shows that the action keeps
IInv; NextIInv collects them.

The second half of `ProcProofs` has `ParentSafety` (Spec => []ParentAlive) and `WakeupSafety` (Spec => []NoMissedWakeup),
relative to IInv. ParentAlive is not inductive: `FamilyInv` adds that init never exits and is nobody's child, that nobody is its own
parent, and that the child fork is about to publish is attached to the forking process, which is running. Most actions
leave the families alone (`FamilyKept`) and need only the frame lemma; fork, exit and the wait that reaps have a lemma
each. NoMissedWakeup needs `SleepInv`: sys_sleep holds tickslock from its test to sched(), with time left, and only
processor 1 counts ticks and wakes under that lock. `ExitWakes` is the heart of the argument: whoever still sleeps in
wait() after an exit is neither the parent of the new zombie nor an init that has inherited one.

`LogProofs`: `LogTyped`, `LogExclusive`, `LogSleepers`, `LogWriteAhead`, and `LogAtomic` (Spec => AtomicTransactions, the
refinement of AtomicStore). The invariant `LInv` relates the three copies of a block: `HeadInv` (the header on the disk
is empty, or the one in memory while it is installed), `InstalledInv` (entries before `tail` have reached home),
`BufInv` (a buffer holds what the log holds while its block is pending, and is then pinned; otherwise what the disk
holds), and that a header names a block once. The refinement maps `durable` to the disk overlaid with the log if the
header is committed, and `view` to what bread returns. It rests on lemmas about `Overlay`: installing an entry,
erasing a header whose entries are all installed, and appending to an uncommitted header do not change it.

`BcacheProofs`: `BcacheReadsLatest`, `BcacheSleepersWait`, `BcacheExclusive`. ReadsLatest speaks only of processes that hold a
buffer; to keep it through recycling, `CInv` says of every buffer what its flags mean. `BusyInv`: B_BUSY is a lock with one
owner. `DataInv`: a sector has one buffer, a valid one holds the latest data, and the disk has it unless a dirty buffer
does. `QueueInv`: idequeue has each request once, its head is active, and who sleeps in iderw is queued. `ListInv`: the LRU list
is a permutation of the buffers. bget's two searches need the second and the last, the wakeup in ideintr the third.

`FileTableSteps`, `FileTableProofs`: `FileRefCount`, `FileLastCloseOnce`, `FileNoPanic`. A reference is a slot, a pair of a process
and a descriptor or local variable, that contains the file (`Table`), and RefCount is an equation about cardinalities. Three
lemmas about tables carry it through the actions: filling an empty slot adds one to the count of one file, emptying a slot
takes one away, and moving a file between slots of a process changes no count. Each action is one of these, and the
rest of the proof shows which slots it changes. For that `FInv` has, besides the two properties: how many files a
process holds where, and which descriptors are empty while exit and dup are under way (`ControlInv`); whose child is
under construction and how far its descriptors have been copied (`ForkInv`); that a file just allocated has one
reference and no type, and a free one no type (`FreshInv`); and that an end of a pipe belongs to one file or to one closing
process (`OneEnd`), without which LastCloseOnce is not inductive: the end would be closed twice. FileNoPanic follows
because a reference that is about to be used is counted. The proof is in two modules only because of its length.

`PipeProofs`: `PipeSleepersBlocked` and `PipeImplementsFifo` (Spec => PipeIsFifo, the refinement of Fifo). `PInv` says that the
counters are at most PIPESIZE apart in unsigned arithmetic, so that the tests of pipe.c:84 and 105 mean full and empty; that a
process keeps p->lock from its test to its sleep and the test still holds then (`LockInv`); that a side is marked closed when its
processes are (`OpenInv`); and SleepersBlocked for the states in which the lock is held, where a writer may have filled the
pipe and not called wakeup yet (`SleepInv`, `ErrInv`). The refinement maps the queue to the bytes from nread on. Its core is
`StoredAt`: a write goes to the places after those of the bytes in transit and none of them twice, because less than a
buffer lies between them, also where a counter wraps. The facts about remainders it needs are proved first.

`ConsoleProofs`: `ConsoleInv`, `ConsoleInputNotStuck` and `ConsoleInputIsLines` (Spec => InputIsLines, the refinement of
LineInput). InputNotStuck speaks of sleepers only; its invariant `CInv` says of the ring that the characters to read
and the line being edited fit into it together, that the line leaves a place free and holds no end of a line
(`RingInv`), because the character that fills the buffer completes the line (console.c:232), and of a read in
progress that it has taken no end of a line and sleeps only when r = w (`ReadInv`). The refinement
maps LineInput's two queues to the stretches of the ring from r to w and from w to e (`Ring`). Lemmas about stretches give their head, what
is left of them, two of them joined, and that a character stored behind one changes none of it (`RingPut`), all through the
wrap of the counters; each key and each read is one of them. ^U is a loop that stops at the end of the previous line: by RingInv it
erases exactly the line being edited (`KillLineStep`). A read that goes around its loop several times takes
the longest prefix without an end of a line (`LooksFacts`, `ReadStep`).

`VmProofs`: `VmInv`, `VmOwnedOnce`, `VmSizeIsMapped` and the action property `VmLostOnly`. LostOnly needs to know
that a place is empty before a page is put there, since the page it held would be lost, and SizeIsMapped says nothing of calls in progress.
So `VInv` adds to OwnedOnce for each process where its call is (`CallOK`), which places are empty there (`PlaceOK`: no page in hand but between kalloc and
mappages, no second address space but in fork and exec), up to where the old and the new address space are mapped and that a mapped
page has its page table (`MapOK`), and for the slots that an unused one has no pages and the one fork fills only a kernel stack, and
is one fork's alone (`SlotInv`). Pages move in four ways, with a lemma each for OwnedOnce and for what may be lost: one is
taken (`KallocStep`), one is mapped (`PagesMapped`), a set of places is freed (`FreePages`) or an address space replaces
another (`SpaceMoved`). deallocuvm frees all of a hole-free address space above the new size (`VisitedAll`, `Shortened`), although
it skips whole tables.

IInv, FamilyInv, SleepInv, LInv, CInv (of both modules that have one), FInv, PInv and VInv were checked by TLC on the instances
above (PInv also with two readers or two writers) before they were proved.

Only model-checked: liveness (`proc_live`, `RecoveryEnds`, `PeerCloseUnblocks`, `KilledReturns`, `Boots`, `PromptReturns`) and
all properties of Inode, FileData, Smp and Shell. Liveness under fairness is outside what the prover can do. So is induction
over data, with one exception: that a nonempty set of numbers has a least element (`Least`, from the library's WFMin) is enough for
what filealloc and fdalloc find and for where ^U and a read stop. FileData (bmap and itrunc over the blocks of a file, mkfs as its
initial state) and ShParse (recursive descent) are computations on data of any length, which need induction. In Smp the
steps a thread has still to take are a sequence, so that an inductive invariant would have to describe every reachable
suffix of the boot and of each handler. Inode counts references over the local variables of all calls, as FileTable
does; nothing is known that stands in the way of a proof, which has not been attempted.

## 5. Not modelled

The boot loader, the context-switch and trap-entry assembly and the programming of interrupt controllers run once or are
hardware protocols; Init is the state they leave and `swtch` is one step. Smp takes the contents of the firmware tables
as given: how they are found and their checksums are left out, and so are entries of an unknown type in the MP table
(section 6). Memory ordering is not modelled: x86 keeps the order the locks need, and xchg is a fence. Argument
fetching, string routines, procdump, the screen, the serial port and the decoding of scan codes are sequential or
output. In Shell the characters of a token, nulterminate, the cd builtin and the arguments of programs are left out;
the other user programs and the user library (malloc) are not modelled. sys_chdir, paths through "..", device nodes and
the limit NINODE of the inode cache are not in Inode yet. memide.c replaces ide.c in another build. `tickets` has no
effect in this scheduler, which is round robin.

## 6. What the models show about the code

Four places disagree with comments or notes on what the code does:

- log.c:8-9 asks that calls that may write the file system run in a transaction. sys_open
  without O_CREATE ends with an iput outside of one (sysfile.c:300, 308). If the file was unlinked after namei found
  it, that iput frees the inode: log_write panics, or the writes join another call's transaction. The iputs in namex,
  sys_chdir, exec and exit are of the same kind, and so is the one of sys_open with O_CREATE, which comes after the
  commit. Inode has these steps; `NoInodePanic` does not count that panic of log_write.
- fs.h:9-10 puts the log behind the data blocks. balloc searches all `sb.size` blocks (fs.c:62) and mkfs
  leaves the bits of the log clear (mkfs.c:155, 242), so that on a full disk blocks of the log are given to files before
  "balloc: out of blocks" is reached. FileData stops in that state.
- TRICKS:49-71 describes a (harmless) race in pushcli: a process preempted between readeflags() and cli() may be
  resumed with interrupts disabled and record that they were enabled. Smp has that window and `FlagOfThread` shows
  that the record is never wrong: the preempted process comes back through the end of trap(), and the iret there
  restores the flag with which it was interrupted, whatever the scheduler had (trapasm64.S). It can only be
  interrupted with the flag set, so it goes on with the flag set.
- Notes:84 says that device interrupts do not clear FL_IF. In this build all vectors but 64 are interrupt gates
  (vm64.c:86-87), so they do; `Trap` follows the code, and `FlagOfThread` and `NoLockPanic` rest on it.

Other observations made while modelling, most of them also in the notes of the hazards in `PROJECT.json`:

- kill() matches any slot with the pid, also one that is UNUSED after a failed fork, and allocproc does not reset
  `killed` (proc.c:418): the next process in the slot starts killed.
- A kill between the test of `killed` and sleep() in pipewrite, piperead and consoleread finds nobody asleep and is seen only
  at the next wakeup (pipe.c:85-90, 106-110, console.c:254-259): those tests are not made under ptable.lock. A
  killed writer that has filled the pipe returns without waking readers (pipe.c:87).
- exit() clears `inuse` at proc.c:185 before it takes ptable.lock; a timer interrupt there lets the scheduler set it
  again (proc.c:285), and the reaped slot keeps it, against pstat.h:4.
- mpinit does not advance past an entry of unknown type (mp.c:135-138): it prints the message for ever, and the
  "fall back to no MP" of mp.c:141 is not reached.
- seginit calls kalloc before `cpu` is set (vm64.c:81, 92), and tvinit is empty in the x86-64 build (vm64.c:46), so that tickslock
  is never initialized: both work, the one because kinit2 comes after startothers (`NoLockPanic`), the other because
  the kernel's data starts as zeroes.
- ioapicenable takes the index of a processor for its APIC id (ioapic.c:77-81), which agree only when the tables list the
  processors by id.
- init exits, and the kernel panics, when it cannot fork a shell (init.c:25-28); `PromptReturns` allows for it.
- `>>` is read as `>` (sh.c:392-394): it does not append.
- The test at proc.c:270 is true after every pass, so a processor halts until the next interrupt even if there is work.
- The log holds LOGSIZE-1 blocks, not LOGSIZE (param.h:11), and is found full before absorption is looked for (log.c:164).
- After a disk error ide.c:106-110 still sets B_VALID, and the buffer hands out what it held before, against bio.c:19.
- bget panics when all buffers are busy or pinned (bio.c:92), iget when the inode cache is full (fs.c:242).
- allocuvm ignores a failing mappages (vm.c:244): `sz` then covers a page that is not mapped, and a later fork panics.
  `SizeIsMapped` shows it is the only way. setupkvm does not look at kalloc's result (vm64.c:132). freevm never
  frees the pml4 and the pdpt, and copyuvm loses a page when mappages fails: `LostOnly` shows there is no other loss.
- growproc takes a new size of 0 for an error (proc.c:117).
- A crash while an unlinked file is open leaves its inode and blocks allocated for ever.
- mkfs rounds the size of the root to the next block even if it ends with one (mkfs.c:151), which would leave a block
  without storage if there were 30 files, and does not compare freeblock with the end of the data area (mkfs.c:269).
  `MkfsAssumption` states both; the Makefile's 17 files keep to them.
- filewrite's limit per transaction is what keeps the log from overflowing for unaligned writes; one bitmap block is
  assumed, as 1024 blocks have.

## 7. Plan

Done: the modules above. Next, in this order:

1. Inode with sys_chdir, "..", mknod and a bounded cache; umalloc.c (the free list against a set of blocks); kbd.c.
2. Proofs: RefCount and LinkCount of Inode, with the lemmas about tables of references that FileTableSteps has; the locks of
   Smp, once its threads have program counters in place of sequences; the arithmetic of filewrite's limit for
   every LOGSIZE and BSIZE.
3. Composition: FileTable on Pipe, so that the close of the last descriptor is pipeclose; Log under FileData, in
   place of the argument that a transaction is one step.
