-------------------------------- MODULE Log --------------------------------
(***************************************************************************)
(* The write-ahead log of kernel/log.c over the buffer cache and the disk: *)
(* begin_trans, log_write, commit_trans and, after a crash at any disk     *)
(* write, recover_from_log.  Every step is at most one disk write; a       *)
(* sector is written whole.  A buffer is its content or Absent, and may be *)
(* recycled whenever it is not B_DIRTY.                                    *)
(***************************************************************************)
EXTENDS Integers, Sequences

CONSTANTS Process,   \* the processes that make system calls
          Block,     \* home sectors of the file system
          Val,       \* contents of a sector
          Absent,    \* a sector that no buffer holds
          Nobody,    \* no process
          LOGSIZE,   \* include/param.h
          nlog       \* log sectors on the disk, header included

ASSUME LogAssumption == LOGSIZE \in Nat \ {0} /\ nlog \in Nat \ {0, 1}
ASSUME AbsentAssumption == Absent \notin Val
ASSUME NobodyAssumption == Nobody \notin Process

VARIABLES disk,     \* home sectors on the disk
          logd,     \* data sectors of the log on the disk
          head,     \* header of the log on the disk: sector[0 .. n-1]
          buf,      \* the buffer cache
          dirty,    \* buffers with B_DIRTY set
          lh,       \* log.lh, the header in memory
          busy,     \* log.busy
          pc,       \* where each process is
          tail,     \* install_trans's next log entry
          mode      \* "up", "boot", "recover" or "panic"

vars == <<disk, logd, head, buf, dirty, lh, busy, pc, tail, mode>>

\* The bound of log_write on log.lh.n.
Cap == IF LOGSIZE < nlog - 1 THEN LOGSIZE ELSE nlog - 1

Headers == {h \in Seq(Block) : Len(h) <= Cap}

\* Header h has an entry for block b.
Names(h, b) == \E i \in DOMAIN h : h[i] = b

TypeOK ==
  /\ disk \in [Block -> Val]
  /\ logd \in [1..Cap -> Val]
  /\ head \in Headers
  /\ buf \in [Block -> Val \cup {Absent}]
  /\ dirty \in SUBSET Block
  /\ lh \in Headers
  /\ busy \in BOOLEAN
  /\ pc \in [Process -> {"user", "asleep", "woken", "trans", "install", "done"}]
  /\ tail \in 1..Cap + 1
  /\ mode \in {"up", "boot", "recover", "panic"}

\* A disk made by mkfs, on which initlog has found an empty log.
Init ==
  /\ disk \in [Block -> Val]
  /\ logd \in [1..Cap -> Val]
  /\ head = <<>>
  /\ buf = [b \in Block |-> Absent]
  /\ dirty = {}
  /\ lh = <<>>
  /\ busy = FALSE
  /\ pc = [p \in Process |-> "user"]
  /\ tail = 1
  /\ mode = "up"

-----------------------------------------------------------------------------
(* The buffer cache as the log sees it: bread of a sector that is not      *)
(* cached reads the disk, bget recycles a buffer that is not B_DIRTY.      *)

Load(b) ==
  /\ mode = "up"
  /\ buf[b] = Absent
  /\ buf' = [buf EXCEPT ![b] = disk[b]]
  /\ UNCHANGED <<disk, logd, head, dirty, lh, busy, pc, tail, mode>>

Evict(b) ==
  /\ mode = "up"
  /\ buf[b] # Absent
  /\ b \notin dirty
  /\ buf' = [buf EXCEPT ![b] = Absent]
  /\ UNCHANGED <<disk, logd, head, dirty, lh, busy, pc, tail, mode>>

-----------------------------------------------------------------------------
(* System calls.                                                           *)

\* begin_trans finds log.busy clear.
BeginTrans(p) ==
  /\ mode = "up"
  /\ pc[p] \in {"user", "woken"}
  /\ ~busy
  /\ busy' = TRUE
  /\ pc' = [pc EXCEPT ![p] = "trans"]
  /\ UNCHANGED <<disk, logd, head, buf, dirty, lh, tail, mode>>

\* begin_trans sleeps on &log.
BeginSleep(p) ==
  /\ mode = "up"
  /\ pc[p] \in {"user", "woken"}
  /\ busy
  /\ pc' = [pc EXCEPT ![p] = "asleep"]
  /\ UNCHANGED <<disk, logd, head, buf, dirty, lh, busy, tail, mode>>

\* The log entry for block b: its own one (absorption) or the next free one.
Entry(b) == IF Names(lh, b)
            THEN CHOOSE i \in DOMAIN lh : lh[i] = b
            ELSE Len(lh) + 1

\* Mutant: log_write does not pin the buffer with B_DIRTY.
LogWriteUnpinned(p, b, v) ==
  /\ mode = "up"
  /\ pc[p] = "trans"
  /\ Len(lh) < Cap
  /\ logd' = [logd EXCEPT ![Entry(b)] = v]
  /\ lh' = IF Names(lh, b) THEN lh ELSE Append(lh, b)
  /\ buf' = [buf EXCEPT ![b] = v]
  /\ UNCHANGED <<disk, head, dirty, busy, pc, tail, mode>>

\* The caller has stored v in the B_BUSY buffer of b and calls log_write.
LogWrite(p, b, v) ==
  /\ mode = "up"
  /\ pc[p] = "trans"
  /\ Len(lh) < Cap
  /\ logd' = [logd EXCEPT ![Entry(b)] = v]
  /\ lh' = IF Names(lh, b) THEN lh ELSE Append(lh, b)
  /\ buf' = [buf EXCEPT ![b] = v]
  /\ dirty' = dirty \cup {b}
  /\ UNCHANGED <<disk, head, busy, pc, tail, mode>>

\* log_write panics with "too big a transaction".
LogWritePanic(p) ==
  /\ mode = "up"
  /\ pc[p] = "trans"
  /\ Len(lh) >= Cap
  /\ mode' = "panic"
  /\ UNCHANGED <<disk, logd, head, buf, dirty, lh, busy, pc, tail>>

\* commit_trans of a transaction that wrote nothing.
CommitEmpty(p) ==
  /\ mode = "up"
  /\ pc[p] = "trans"
  /\ lh = <<>>
  /\ pc' = [pc EXCEPT ![p] = "done"]
  /\ UNCHANGED <<disk, logd, head, buf, dirty, lh, busy, tail, mode>>

\* Mutant: commit_trans installs without having written the header.
CommitHeadLater(p) ==
  /\ mode = "up"
  /\ pc[p] = "trans"
  /\ lh # <<>>
  /\ tail' = 1
  /\ pc' = [pc EXCEPT ![p] = "install"]
  /\ UNCHANGED <<disk, logd, head, buf, dirty, lh, busy, mode>>

\* commit_trans writes the header: the commit point.
CommitHead(p) ==
  /\ mode = "up"
  /\ pc[p] = "trans"
  /\ lh # <<>>
  /\ head' = lh
  /\ tail' = 1
  /\ pc' = [pc EXCEPT ![p] = "install"]
  /\ UNCHANGED <<disk, logd, buf, dirty, lh, busy, mode>>

\* Mutant: install_trans does not advance to the next log entry.
InstallBlockStuck ==
  /\ tail <= Len(lh)
  /\ disk' = [disk EXCEPT ![lh[tail]] = logd[tail]]
  /\ buf' = [buf EXCEPT ![lh[tail]] = logd[tail]]
  /\ dirty' = dirty \ {lh[tail]}
  /\ UNCHANGED tail

\* One iteration of install_trans; bwrite clears B_DIRTY.
InstallBlock ==
  /\ tail <= Len(lh)
  /\ disk' = [disk EXCEPT ![lh[tail]] = logd[tail]]
  /\ buf' = [buf EXCEPT ![lh[tail]] = logd[tail]]
  /\ dirty' = dirty \ {lh[tail]}
  /\ tail' = tail + 1

\* log.lh.n = 0; write_head().
EraseHead ==
  /\ tail > Len(lh)
  /\ lh' = <<>>
  /\ head' = <<>>
  /\ tail' = 1

CommitInstall(p) ==
  /\ mode = "up"
  /\ pc[p] = "install"
  /\ InstallBlock
  /\ UNCHANGED <<logd, head, lh, busy, pc, mode>>

CommitErase(p) ==
  /\ mode = "up"
  /\ pc[p] = "install"
  /\ EraseHead
  /\ pc' = [pc EXCEPT ![p] = "done"]
  /\ UNCHANGED <<disk, logd, buf, dirty, busy, mode>>

\* Mutant: commit_trans does not call wakeup(&log).
CommitNoWakeup(p) ==
  /\ mode = "up"
  /\ pc[p] = "done"
  /\ busy' = FALSE
  /\ pc' = [pc EXCEPT ![p] = "user"]
  /\ UNCHANGED <<disk, logd, head, buf, dirty, lh, tail, mode>>

\* The end of commit_trans, under log.lock.
CommitWakeup(p) ==
  /\ mode = "up"
  /\ pc[p] = "done"
  /\ busy' = FALSE
  /\ pc' = [q \in Process |-> CASE q = p -> "user"
                                [] q # p /\ pc[q] = "asleep" -> "woken"
                                [] OTHER -> pc[q]]
  /\ UNCHANGED <<disk, logd, head, buf, dirty, lh, tail, mode>>

-----------------------------------------------------------------------------
(* Crash and recovery.                                                     *)

\* Power fails, or the machine is reset after a panic: memory is lost.
Crash ==
  /\ buf' = [b \in Block |-> Absent]
  /\ dirty' = {}
  /\ lh' = <<>>
  /\ busy' = FALSE
  /\ pc' = [p \in Process |-> "user"]
  /\ tail' = 1
  /\ mode' = "boot"
  /\ UNCHANGED <<disk, logd, head>>

\* initlog, called by the first process before it runs: read_head.
RecoverHead ==
  /\ mode = "boot"
  /\ lh' = head
  /\ mode' = "recover"
  /\ UNCHANGED <<disk, logd, head, buf, dirty, busy, pc, tail>>

RecoverInstall ==
  /\ mode = "recover"
  /\ InstallBlock
  /\ UNCHANGED <<logd, head, lh, busy, pc, mode>>

RecoverErase ==
  /\ mode = "recover"
  /\ EraseHead
  /\ mode' = "up"
  /\ UNCHANGED <<disk, logd, buf, dirty, busy, pc>>

-----------------------------------------------------------------------------

Transaction(p) ==
  \/ CommitEmpty(p)
  \/ CommitHead(p)
  \/ CommitInstall(p)
  \/ CommitErase(p)
  \/ CommitWakeup(p)

Recovery == RecoverHead \/ RecoverInstall \/ RecoverErase

Next ==
  \/ \E b \in Block : Load(b) \/ Evict(b)
  \/ \E p \in Process : BeginTrans(p) \/ BeginSleep(p) \/ LogWritePanic(p) \/ Transaction(p)
  \/ \E p \in Process, b \in Block, v \in Val : LogWrite(p, b, v)
  \/ Recovery
  \/ Crash

Spec == Init /\ [][Next]_vars

\* A system call reaches its commit_trans, and a booting machine goes on.
Fairness == WF_vars(Recovery) /\ \A p \in Process : WF_vars(Transaction(p))

FairSpec == Spec /\ Fairness
-----------------------------------------------------------------------------
(* The promise of the log.                                                 *)

\* Contents d of the home sectors, with those that header h names replaced
\* from the log data l.
Overlay(d, l, h) ==
  [b \in Block |-> IF Names(h, b)
                   THEN l[CHOOSE i \in DOMAIN h : h[i] = b]
                   ELSE d[b]]

\* What recovery would bring back.
Durable == Overlay(disk, logd, head)

\* What bread returns.
Cached == [b \in Block |-> IF buf[b] = Absent THEN disk[b] ELSE buf[b]]

\* What the running system reads; a booting one will read what is durable.
View == IF mode \in {"up", "panic"} THEN Cached ELSE Durable

Owner == IF \E p \in Process : pc[p] = "trans"
         THEN CHOOSE p \in Process : pc[p] = "trans"
         ELSE Nobody

Store == INSTANCE AtomicStore WITH
           view <- View,
           store <- Durable,
           owner <- Owner

\* log.c:11-14 and 98-100: a transaction's writes survive a crash together,
\* from the header write on, or not at all; readers never lose a write of the
\* running transaction to eviction, and recovery may itself be interrupted.
AtomicTransactions == Store!Spec

\* Write-ahead: install_trans changes a home sector only while the header
\* on the disk names it, so that a crash can redo the change (log.c:138-142).
WriteAhead == [][\A b \in Block : disk'[b] # disk[b] => Names(head, b)]_vars

\* begin_trans's test and sleep against commit_trans's wakeup: nobody sleeps
\* on &log once no transaction is active (log.c:127-130, 145-148).
SleepersHaveOwner ==
  \A p \in Process : pc[p] = "asleep" => busy

\* log.c:13-14: only one system call is between begin_trans and the end of
\* commit_trans.
OneTransaction ==
  \A p, q \in Process :
    {pc[p], pc[q]} \subseteq {"trans", "install", "done"} => p = q

\* Once crashes stop, recovery ends with the file system up.
RecoveryEnds == <>[][~Crash]_vars => (mode = "boot" ~> mode = "up")
=============================================================================
