------------------------------- MODULE Bcache -------------------------------
(***************************************************************************)
(* The buffer cache of kernel/bio.c on the IDE driver of kernel/ide.c.     *)
(* bcache.lock and idelock make bget, brelse, the body of iderw and        *)
(* ideintr atomic; sleep and wakeup are those of Proc, so a sleeper is     *)
(* woken by wakeup on its channel, the buffer, or by kill(), and tests its *)
(* condition again.                                                        *)
(***************************************************************************)
EXTENDS Integers, Sequences, FiniteSets

CONSTANTS Process, Sector, Val,
          NBUF,        \* include/param.h
          MaxPinned,   \* buffers the running transaction keeps B_DIRTY
          MaxFailed    \* bound on buffers filled by a failed read

Buf == 1..NBUF
NoBuf == 0
NoSector == "none"

ASSUME BcacheAssumption ==
  /\ NBUF \in Nat \ {0} /\ MaxPinned \in Nat /\ MaxFailed \in Nat
  /\ NoSector \notin Sector

VARIABLES sector,    \* b->sector; NoSector before first use
          flags,     \* b->flags
          data,      \* b->data
          lru,       \* the list through next, most recently used first
          disk,      \* contents of the sectors
          idequeue,  \* buffers with a request, through qnext
          active,    \* buffer of the last idestart, NoBuf when it is done
          at, want, bp,  \* where a process is, its sector and its buffer
          panicked,
          latest,    \* history: what was last stored in a sector through the cache
          failed     \* history: buffers whose data a failed read left behind

history == <<latest, failed>>
vars == <<sector, flags, data, lru, disk, idequeue, active, at, want, bp, panicked, history>>
cache == <<sector, flags, data, lru>>
ide == <<disk, idequeue, active>>

\* binit: the last buffer of the array ends up first in the list.
Init ==
  /\ sector = [b \in Buf |-> NoSector]
  /\ flags = [b \in Buf |-> {}]
  /\ data \in {[b \in Buf |-> v] : v \in Val}
  /\ lru = [i \in Buf |-> NBUF + 1 - i]
  /\ disk \in [Sector -> Val]
  /\ idequeue = <<>>
  /\ active = NoBuf
  /\ at = [p \in Process |-> "idle"]
  /\ want = [p \in Process |-> NoSector]
  /\ bp = [p \in Process |-> NoBuf]
  /\ panicked = FALSE
  /\ latest = disk
  /\ failed = {}

\* wakeup(b): sleepers in bget look again, sleepers in iderw test the flags.
wakeup(b, a) ==
  [q \in Process |-> CASE bp[q] = b /\ a[q] = "bwait" -> "bget"
                       [] bp[q] = b /\ a[q] = "iowait" -> "iowoken"
                       [] OTHER -> a[q]]

-----------------------------------------------------------------------------
Bread(p, s) ==
  /\ at[p] = "idle"
  /\ at' = [at EXCEPT ![p] = "bget"]
  /\ want' = [want EXCEPT ![p] = s]
  /\ UNCHANGED <<cache, ide, bp, panicked, history>>

Cached(p) == {b \in Buf : sector[b] = want[p]}

\* The sector is cached and its buffer free; bread reads it if it is not valid.
BgetHit(p) ==
  /\ at[p] = "bget"
  /\ \E b \in Cached(p) :
       /\ "BUSY" \notin flags[b]
       /\ flags' = [flags EXCEPT ![b] = @ \cup {"BUSY"}]
       /\ bp' = [bp EXCEPT ![p] = b]
       /\ at' = [at EXCEPT ![p] = IF "VALID" \in flags[b] THEN "held" ELSE "rw"]
  /\ UNCHANGED <<sector, data, lru, ide, want, panicked, history>>

\* The sector is cached and its buffer busy: sleep on it, then look again.
BgetSleep(p) ==
  /\ at[p] = "bget"
  /\ \E b \in Cached(p) :
       /\ "BUSY" \in flags[b]
       /\ bp' = [bp EXCEPT ![p] = b]
       /\ at' = [at EXCEPT ![p] = "bwait"]
  /\ UNCHANGED <<cache, ide, want, panicked, history>>

\* Mutant: bget recycles B_DIRTY buffers.
RecyclableDirty == {i \in Buf : "BUSY" \notin flags[lru[i]]}

\* Positions in the list of the buffers bget may recycle.
Recyclable == {i \in Buf : flags[lru[i]] \cap {"BUSY", "DIRTY"} = {}}

\* The least recently used one is recycled.
BgetRecycle(p) ==
  /\ at[p] = "bget"
  /\ Cached(p) = {}
  /\ \E i \in Recyclable :
       /\ \A j \in Recyclable : j <= i
       /\ sector' = [sector EXCEPT ![lru[i]] = want[p]]
       /\ flags' = [flags EXCEPT ![lru[i]] = {"BUSY"}]
       /\ bp' = [bp EXCEPT ![p] = lru[i]]
  /\ at' = [at EXCEPT ![p] = "rw"]
  /\ UNCHANGED <<data, lru, ide, want, panicked, history>>

\* panic("bget: no buffers").
BgetPanic(p) ==
  /\ at[p] = "bget"
  /\ Cached(p) = {}
  /\ Recyclable = {}
  /\ panicked' = TRUE
  /\ UNCHANGED <<cache, ide, at, want, bp, history>>

\* iderw appends the buffer to the queue and starts the disk if it is first;
\* the request cannot be complete yet, so the process sleeps.
Iderw(p) ==
  /\ at[p] = "rw"
  /\ idequeue' = Append(idequeue, bp[p])
  /\ active' = IF idequeue = <<>> THEN bp[p] ELSE active
  /\ at' = [at EXCEPT ![p] = "iowait"]
  /\ UNCHANGED <<cache, disk, want, bp, panicked, history>>

\* A woken process tests the flags: the request is complete, or it sleeps again.
IderwTest(p) ==
  /\ at[p] = "iowoken"
  /\ at' = [at EXCEPT ![p] = IF flags[bp[p]] \cap {"VALID", "DIRTY"} = {"VALID"}
                              THEN "held" ELSE "iowait"]
  /\ UNCHANGED <<cache, ide, want, bp, panicked, history>>

\* The disk completes the active request and interrupts.  A failed read
\* leaves the data as they are.
Ideintr(fail) ==
  /\ active # NoBuf
  /\ idequeue # <<>>
  /\ fail => "DIRTY" \notin flags[Head(idequeue)] /\ Cardinality(failed) < MaxFailed
  /\ LET b == Head(idequeue) IN
       /\ idequeue' = Tail(idequeue)
       /\ active' = IF Tail(idequeue) = <<>> THEN NoBuf ELSE Head(Tail(idequeue))
       /\ IF "DIRTY" \in flags[b]
          THEN disk' = [disk EXCEPT ![sector[b]] = data[b]] /\ UNCHANGED data
          ELSE data' = (IF fail THEN data ELSE [data EXCEPT ![b] = disk[sector[b]]]) /\ UNCHANGED disk
       /\ flags' = [flags EXCEPT ![b] = (@ \cup {"VALID"}) \ {"DIRTY"}]
       /\ at' = wakeup(b, at)
       /\ failed' = IF fail THEN failed \cup {b} ELSE failed \ {b}
  /\ UNCHANGED <<sector, lru, want, bp, panicked, latest>>

\* The holder changes the data and calls bwrite.
Bwrite(p, v) ==
  /\ at[p] = "held"
  /\ latest' = [latest EXCEPT ![sector[bp[p]]] = v]
  /\ failed' = failed \ {bp[p]}
  /\ data' = [data EXCEPT ![bp[p]] = v]
  /\ flags' = [flags EXCEPT ![bp[p]] = @ \cup {"DIRTY"}]
  /\ at' = [at EXCEPT ![p] = "rw"]
  /\ UNCHANGED <<sector, lru, ide, want, bp, panicked>>

Pinned == {b \in Buf : "DIRTY" \in flags[b]}

\* The holder changes the data and calls log_write, which sets B_DIRTY only.
Pin(p, v) ==
  /\ at[p] = "held"
  /\ Cardinality(Pinned \cup {bp[p]}) <= MaxPinned
  /\ latest' = [latest EXCEPT ![sector[bp[p]]] = v]
  /\ failed' = failed \ {bp[p]}
  /\ data' = [data EXCEPT ![bp[p]] = v]
  /\ flags' = [flags EXCEPT ![bp[p]] = @ \cup {"DIRTY"}]
  /\ UNCHANGED <<sector, lru, ide, at, want, bp, panicked>>

\* The list with b moved to its head.
MoveToFront(b) ==
  LET k == CHOOSE i \in Buf : lru[i] = b
  IN  [i \in Buf |-> IF i = 1 THEN b ELSE IF i <= k THEN lru[i - 1] ELSE lru[i]]

\* Mutant: brelse does not wake the processes waiting for the buffer.
BrelseNoWakeup(p) ==
  /\ at[p] = "held"
  /\ lru' = MoveToFront(bp[p])
  /\ flags' = [flags EXCEPT ![bp[p]] = @ \ {"BUSY"}]
  /\ at' = [at EXCEPT ![p] = "idle"]
  /\ want' = [want EXCEPT ![p] = NoSector]
  /\ bp' = [bp EXCEPT ![p] = NoBuf]
  /\ UNCHANGED <<sector, data, ide, panicked, history>>

Brelse(p) ==
  /\ at[p] = "held"
  /\ lru' = MoveToFront(bp[p])
  /\ flags' = [flags EXCEPT ![bp[p]] = @ \ {"BUSY"}]
  /\ at' = wakeup(bp[p], [at EXCEPT ![p] = "idle"])
  /\ want' = [want EXCEPT ![p] = NoSector]
  /\ bp' = [bp EXCEPT ![p] = NoBuf]
  /\ UNCHANGED <<sector, data, ide, panicked, history>>

\* kill() makes a sleeper runnable.
KillWakes(p) ==
  /\ at[p] \in {"bwait", "iowait"}
  /\ at' = [at EXCEPT ![p] = IF @ = "bwait" THEN "bget" ELSE "iowoken"]
  /\ UNCHANGED <<cache, ide, want, bp, panicked, history>>

-----------------------------------------------------------------------------
\* panic() stops the machine.
Halted == panicked /\ UNCHANGED vars

Work(p) ==
  \/ BgetHit(p)
  \/ BgetSleep(p)
  \/ BgetRecycle(p)
  \/ Iderw(p)
  \/ IderwTest(p)
  \/ Brelse(p)

Next ==
  \/ Halted
  \/ /\ ~panicked
     /\ \/ \E p \in Process : Work(p) \/ BgetPanic(p) \/ KillWakes(p)
        \/ \E p \in Process, s \in Sector : Bread(p, s)
        \/ \E p \in Process, v \in Val : Bwrite(p, v) \/ Pin(p, v)
        \/ \E fail \in BOOLEAN : Ideintr(fail)

Spec == Init /\ [][Next]_vars
-----------------------------------------------------------------------------
\* bio.c:3-6: the holder of a buffer sees what was last stored in its sector,
\* by whomever, through recycling, pinning, queueing and rereading; only a
\* read the disk failed leaves other data (ide.c:106-110).
ReadsLatest ==
  \A p \in Process :
    at[p] = "held" /\ bp[p] \notin failed => data[bp[p]] = latest[want[p]]

\* ide.c:96 and the loops of bget and iderw: the first buffer of the queue is
\* the active request and the queue is never left without one; its buffers belong
\* to processes inside iderw; and no wakeup is missed: a process sleeps in iderw
\* only while its request is queued, in bget only while its buffer is busy.
SleepersWait ==
  /\ active = IF idequeue = <<>> THEN NoBuf ELSE Head(idequeue)
  /\ \A i \in DOMAIN idequeue : \E p \in Process : at[p] \in {"iowait", "iowoken"} /\ bp[p] = idequeue[i]
  /\ \A p \in Process :
       /\ at[p] = "bwait" => "BUSY" \in flags[bp[p]]
       /\ at[p] = "iowait" => \E i \in DOMAIN idequeue : idequeue[i] = bp[p]
=============================================================================
