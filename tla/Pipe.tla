-------------------------------- MODULE Pipe --------------------------------
(***************************************************************************)
(* kernel/pipe.c: one pipe, the processes that hold its two ends, and      *)
(* kill().  p->lock is held from a call's start, or its return from sleep, *)
(* to its end or next sleep; kill() does not take it, so the test of       *)
(* proc->killed and the sleep that follows are two steps.  nread and       *)
(* nwrite are unsigned and wrap at UintMod.                                *)
(***************************************************************************)
EXTENDS Integers, Sequences, FiniteSets

CONSTANTS Reader, Writer,  \* processes with the read end, the write end
          Byte,
          PIPESIZE,        \* pipe.c:10
          UintMod,         \* 2^32 in the code
          Counts,          \* the n of read and write calls
          Kills,           \* the processes kill() is called for
          Nobody

Process == Reader \cup Writer

ASSUME PipeAssumption ==
  /\ PIPESIZE \in Nat \ {0} /\ UintMod \in Nat /\ Counts \subseteq Nat
  /\ UintMod > PIPESIZE /\ UintMod % PIPESIZE = 0
  /\ Reader \cap Writer = {} /\ Nobody \notin Process /\ Kills \subseteq Process

VARIABLES data, nread, nwrite, readopen, writeopen,  \* struct pipe
          freed,   \* kfree((char*)p) has been called
          lock,    \* the process that holds p->lock between two steps
          at,      \* where each process is
          left,    \* bytes its call has still to move
          killed,
          ret,     \* how its last call returned
          got      \* the bytes a reader's last call returned

pipe == <<data, nread, nwrite, readopen, writeopen, freed>>
vars == <<pipe, lock, at, left, killed, ret, got>>

\* pipealloc, and the forks that gave each process its end.
Init ==
  /\ data \in {[i \in 0..PIPESIZE - 1 |-> b] : b \in Byte}
  /\ nread = 0 /\ nwrite = 0
  /\ readopen = TRUE /\ writeopen = TRUE /\ freed = FALSE
  /\ lock = Nobody
  /\ at = [p \in Process |-> "user"]
  /\ left = [p \in Process |-> 0]
  /\ killed = [p \in Process |-> FALSE]
  /\ ret = [p \in Process |-> "none"]
  /\ got = [r \in Reader |-> <<>>]

\* Bytes in the buffer, in unsigned arithmetic.
Used == (nwrite - nread) % UintMod

\* The tests of pipewrite and piperead.
Full == nwrite = (nread + PIPESIZE) % UintMod
Empty == nread = nwrite

\* wakeup(&p->nread) and wakeup(&p->nwrite).
wakeup(S, a) == [p \in Process |-> IF p \in S /\ a[p] = "asleep" THEN "acquire" ELSE a[p]]

Smaller(m, n) == IF m < n THEN m ELSE n

-----------------------------------------------------------------------------
Call(p, n) ==
  /\ at[p] = "user"
  /\ ~killed[p]
  /\ at' = [at EXCEPT ![p] = "acquire"]
  /\ left' = [left EXCEPT ![p] = n]
  /\ UNCHANGED <<pipe, lock, killed, ret, got>>

\* The bytes bs are stored at nwrite, nwrite + 1, ...
Store(bs) ==
  /\ data' = [i \in 0..PIPESIZE - 1 |->
                IF \E j \in DOMAIN bs : (nwrite + j - 1) % PIPESIZE = i
                THEN bs[CHOOSE j \in DOMAIN bs : (nwrite + j - 1) % PIPESIZE = i]
                ELSE data[i]]
  /\ nwrite' = (nwrite + Len(bs)) % UintMod

\* Mutant: the buffer takes one byte more than it has room for.
WriteAllOneMore(w) ==
  /\ at[w] = "acquire"
  /\ lock = Nobody
  /\ left[w] <= PIPESIZE - Used + 1
  /\ \E bs \in [1..left[w] -> Byte] : Store(bs)
  /\ at' = wakeup(Reader, [at EXCEPT ![w] = "user"])
  /\ left' = [left EXCEPT ![w] = 0]
  /\ ret' = [ret EXCEPT ![w] = "ok"]
  /\ UNCHANGED <<nread, readopen, writeopen, freed, lock, killed, got>>

\* Mutant: pipewrite wakes the readers only when it has to sleep.
WriteAllNoWakeup(w) ==
  /\ at[w] = "acquire"
  /\ lock = Nobody
  /\ left[w] <= PIPESIZE - Used
  /\ \E bs \in [1..left[w] -> Byte] : Store(bs)
  /\ at' = [at EXCEPT ![w] = "user"]
  /\ left' = [left EXCEPT ![w] = 0]
  /\ ret' = [ret EXCEPT ![w] = "ok"]
  /\ UNCHANGED <<nread, readopen, writeopen, freed, lock, killed, got>>

\* pipewrite from acquire or the return of sleep: bytes are copied until the
\* call is done or the buffer is full.
WriteAll(w) ==
  /\ at[w] = "acquire"
  /\ lock = Nobody
  /\ left[w] <= PIPESIZE - Used
  /\ \E bs \in [1..left[w] -> Byte] : Store(bs)
  /\ at' = wakeup(Reader, [at EXCEPT ![w] = "user"])
  /\ left' = [left EXCEPT ![w] = 0]
  /\ ret' = [ret EXCEPT ![w] = "ok"]
  /\ UNCHANGED <<nread, readopen, writeopen, freed, lock, killed, got>>

\* ... and the call gives up, or is about to sleep with p->lock held.
WriteFull(w) ==
  /\ at[w] = "acquire"
  /\ lock = Nobody
  /\ left[w] > PIPESIZE - Used
  /\ \E bs \in [1..PIPESIZE - Used -> Byte] : Store(bs)
  /\ IF ~readopen \/ killed[w]
     THEN /\ at' = [at EXCEPT ![w] = "user"]
          /\ left' = [left EXCEPT ![w] = 0]
          /\ ret' = [ret EXCEPT ![w] = "err"]
          /\ UNCHANGED lock
     ELSE /\ at' = [at EXCEPT ![w] = "tested"]
          /\ left' = [left EXCEPT ![w] = @ - (PIPESIZE - Used)]
          /\ lock' = w
          /\ UNCHANGED ret
  /\ UNCHANGED <<nread, readopen, writeopen, freed, killed, got>>

\* wakeup(&p->nread); sleep(&p->nwrite, &p->lock).
WriteSleep(w) ==
  /\ at[w] = "tested"
  /\ at' = wakeup(Reader, [at EXCEPT ![w] = "asleep"])
  /\ lock' = Nobody
  /\ UNCHANGED <<pipe, left, killed, ret, got>>

\* The n oldest bytes of the buffer.
Oldest(n) == [i \in 1..n |-> data[(nread + i - 1) % PIPESIZE]]

\* piperead when there are bytes or no writers: copy, wake writers, return.
ReadSome(r) ==
  /\ at[r] = "acquire"
  /\ lock = Nobody
  /\ ~Empty \/ ~writeopen
  /\ LET n == Smaller(left[r], Used) IN
       /\ got' = [got EXCEPT ![r] = Oldest(n)]
       /\ nread' = (nread + n) % UintMod
       /\ ret' = [ret EXCEPT ![r] = IF n = 0 /\ left[r] > 0 THEN "eof" ELSE "ok"]
  /\ at' = wakeup(Writer, [at EXCEPT ![r] = "user"])
  /\ left' = [left EXCEPT ![r] = 0]
  /\ UNCHANGED <<data, nwrite, readopen, writeopen, freed, lock, killed>>

\* Mutant: piperead does not test proc->killed.
ReadEmptyDeaf(r) ==
  /\ at[r] = "acquire"
  /\ lock = Nobody
  /\ Empty /\ writeopen
  /\ at' = [at EXCEPT ![r] = "tested"]
  /\ lock' = r
  /\ UNCHANGED <<pipe, left, killed, ret, got>>

\* piperead on an empty pipe: give up, or be about to sleep.
ReadEmpty(r) ==
  /\ at[r] = "acquire"
  /\ lock = Nobody
  /\ Empty /\ writeopen
  /\ IF killed[r]
     THEN /\ at' = [at EXCEPT ![r] = "user"]
          /\ left' = [left EXCEPT ![r] = 0]
          /\ ret' = [ret EXCEPT ![r] = "err"]
          /\ UNCHANGED lock
     ELSE /\ at' = [at EXCEPT ![r] = "tested"]
          /\ lock' = r
          /\ UNCHANGED <<left, ret>>
  /\ UNCHANGED <<pipe, killed, got>>

ReadSleep(r) ==
  /\ at[r] = "tested"
  /\ at' = [at EXCEPT ![r] = "asleep"]
  /\ lock' = Nobody
  /\ UNCHANGED <<pipe, left, killed, ret, got>>

\* Mutant: pipeclose does not wake the other side.
CloseNoWakeup(p) ==
  /\ at[p] = "user"
  /\ lock = Nobody
  /\ LET Side == IF p \in Writer THEN Writer ELSE Reader
         last == \A q \in Side \ {p} : at[q] = "closed"
     IN IF last
        THEN /\ writeopen' = (writeopen /\ p \notin Writer)
             /\ readopen' = (readopen /\ p \notin Reader)
             /\ freed' = (~readopen' /\ ~writeopen')
             /\ at' = [at EXCEPT ![p] = "closed"]
        ELSE /\ at' = [at EXCEPT ![p] = "closed"]
             /\ UNCHANGED <<readopen, writeopen, freed>>
  /\ UNCHANGED <<data, nread, nwrite, lock, left, killed, ret, got>>

\* A process closes its end or exits; fileclose calls pipeclose for the last
\* one of its side.
Close(p) ==
  /\ at[p] = "user"
  /\ lock = Nobody
  /\ LET Side == IF p \in Writer THEN Writer ELSE Reader
         Peers == Process \ Side
         last == \A q \in Side \ {p} : at[q] = "closed"
     IN IF last
        THEN /\ writeopen' = (writeopen /\ p \notin Writer)
             /\ readopen' = (readopen /\ p \notin Reader)
             /\ freed' = (~readopen' /\ ~writeopen')
             /\ at' = wakeup(Peers, [at EXCEPT ![p] = "closed"])
        ELSE /\ at' = [at EXCEPT ![p] = "closed"]
             /\ UNCHANGED <<readopen, writeopen, freed>>
  /\ UNCHANGED <<data, nread, nwrite, lock, left, killed, ret, got>>

\* kill(): sets killed and makes a sleeper runnable (proc.c:419-422).
Kill(p) ==
  /\ p \in Kills
  /\ at[p] # "closed"
  /\ killed' = [killed EXCEPT ![p] = TRUE]
  /\ at' = wakeup({p}, at)
  /\ UNCHANGED <<pipe, lock, left, ret, got>>

-----------------------------------------------------------------------------
Write(w) == WriteAll(w) \/ WriteFull(w) \/ WriteSleep(w)
Read(r) == ReadSome(r) \/ ReadEmpty(r) \/ ReadSleep(r)

Next ==
  \/ \E w \in Writer : Write(w)
  \/ \E r \in Reader : Read(r)
  \/ \E p \in Process, n \in Counts : Call(p, n)
  \/ \E p \in Process : Close(p) \/ Kill(p)

Spec == Init /\ [][Next]_vars

\* A process in the kernel goes on and gets p->lock in the end; a killed one
\* that returns to user space exits.  User code owes nothing.
Fairness ==
  /\ \A w \in Writer : SF_vars(Write(w))
  /\ \A r \in Reader : SF_vars(Read(r))
  /\ \A p \in Process : SF_vars(killed[p] /\ Close(p))

FairSpec == Spec /\ Fairness
-----------------------------------------------------------------------------
Queue == INSTANCE Fifo WITH Capacity <- PIPESIZE, q <- Oldest(Used)

\* The ring buffer behaves as a queue of bytes: nothing lost, duplicated or
\* reordered, also when nread and nwrite wrap (pipe.c:84, 92, 105, 115).
PipeIsFifo == Queue!Spec

\* No missed wakeup: while nobody holds p->lock, a writer sleeps only if the
\* pipe is full and has readers, a reader only if it is empty and has writers.
\* The one exception is a killed writer that filled the pipe: it returns from
\* pipe.c:87 without the wakeup of pipe.c:94.
SleepersBlocked ==
  lock = Nobody =>
    /\ \A w \in Writer : at[w] = "asleep" => Full /\ readopen
    /\ \A r \in Reader : at[r] = "asleep" =>
         writeopen /\ (Empty \/ \E w \in Writer : killed[w] /\ ret[w] = "err")

\* Once the other side is gone, no call blocks.
PeerCloseUnblocks ==
  /\ \A r \in Reader : ~writeopen ~> at[r] \in {"user", "closed"}
  /\ \A w \in Writer : ~readopen ~> at[w] \in {"user", "closed"}

\* A killed process does not go on waiting: however often it is woken, emptied
\* or filled the pipe is, a call that kill() caught outside the window between
\* its test of proc->killed and its sleep returns, and so does one caught there
\* that is woken later (pipe.c:85, 106).
KilledReturns ==
  \A p \in Process : (killed[p] /\ at[p] = "acquire") ~> at[p] \in {"user", "closed"}
=============================================================================
