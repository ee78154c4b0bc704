------------------------------ MODULE Spinlock ------------------------------
(***************************************************************************)
(* kernel/spinlock.c: the test-and-set lock and the counted disabling of   *)
(* interrupts under it.  A lock is its locked word and the cpu field that  *)
(* holding() compares; the interrupt count and the flag it saved belong to *)
(* a struct cpu (number c), the interrupt flag itself to the processor h   *)
(* that runs with it.  The operators are the state changes of the          *)
(* functions; Smp makes steps of them and adds their panics.               *)
(***************************************************************************)
EXTENDS Integers

VARIABLES
  locked,   \* lk->locked of every lock
  lcpu,     \* lk->cpu: the number of a struct cpu, NoCpu for the null pointer
  ncli,     \* cpu->ncli of every struct cpu
  intena,   \* cpu->intena of every struct cpu
  eflags    \* the interrupt flag of every processor

lockvars == <<locked, lcpu, ncli, intena, eflags>>

NoCpu == -1

initlock(Locks) ==
  /\ locked = [l \in Locks |-> FALSE]
  /\ lcpu = [l \in Locks |-> NoCpu]

holding(l, c) == locked[l] /\ lcpu[l] = c

readeflags(h) == eflags[h]

\* pushcli() from cli() on, flag being what readeflags() returned before.  With
\* interrupts off nothing comes between cli() and the count; before cli()
\* anything may, and the thread may have changed processors.
pushcli(h, c, flag) ==
  /\ eflags' = [eflags EXCEPT ![h] = FALSE]
  /\ ncli' = [ncli EXCEPT ![c] = @ + 1]
  /\ intena' = IF ncli[c] = 0 THEN [intena EXCEPT ![c] = flag] ELSE intena

popcliPanics(h, c) == eflags[h] \/ ncli[c] < 1

popcli(h, c) ==
  /\ ncli' = [ncli EXCEPT ![c] = @ - 1]
  /\ eflags' = [eflags EXCEPT ![h] = ncli[c] = 1 /\ intena[c]]
  /\ UNCHANGED intena

\* The exchange that found the lock free, and the recording of its holder.
\* release() clears lk->cpu before it frees the lock, so the field is null
\* between the two and no other processor's holding() can be misled.
xchg(l, c) ==
  /\ ~locked[l]
  /\ locked' = [locked EXCEPT ![l] = TRUE]
  /\ lcpu' = [lcpu EXCEPT ![l] = c]

release(l, h, c) ==
  /\ locked' = [locked EXCEPT ![l] = FALSE]
  /\ lcpu' = [lcpu EXCEPT ![l] = NoCpu]
  /\ popcli(h, c)
=============================================================================
