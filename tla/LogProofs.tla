----------------------------- MODULE LogProofs -----------------------------
(***************************************************************************)
(* Log implements AtomicStore, for every set of processes, blocks and      *)
(* values and every size of the log.                                       *)
(***************************************************************************)
EXTENDS Log, TLAPS

Active == {"trans", "install", "done"}
Running == mode \in {"up", "panic"}
Installing == mode = "recover" \/ \E p \in Process : pc[p] = "install"

\* A header names a block at most once (absorption).
Injective(h) == \A i, j \in DOMAIN h : h[i] = h[j] => i = j

BusyInv == \A p \in Process : pc[p] \in Active => busy

\* The header on the disk, the one in memory, and who is using them.
HeadInv ==
  /\ Running => /\ head = IF \E p \in Process : pc[p] = "install" THEN lh ELSE <<>>
                /\ lh # <<>> => \E p \in Process : pc[p] \in {"trans", "install"}
  /\ mode = "boot" => lh = <<>> /\ tail = 1
  /\ mode = "recover" => lh = head
  /\ ~Running => \A p \in Process : pc[p] = "user"

\* The entries before tail have reached their home sectors.
InstalledInv ==
  Installing => \A i \in DOMAIN lh : i < tail => disk[lh[i]] = logd[i]

\* Log entry i has not been installed.
Pending(i) == Running /\ (Installing => i >= tail)

\* A buffer of a pending block is pinned and holds what the log holds; any
\* other buffer holds what the disk holds.
BufInv ==
  /\ \A i \in DOMAIN lh : Pending(i) => buf[lh[i]] = logd[i] /\ lh[i] \in dirty
  /\ \A b \in Block :
       \/ buf[b] \in {Absent, disk[b]}
       \/ \E i \in DOMAIN lh : lh[i] = b /\ Pending(i)

LInv ==
  /\ TypeOK /\ OneTransaction /\ BusyInv /\ SleepersHaveOwner
  /\ Injective(lh) /\ Injective(head)
  /\ HeadInv /\ InstalledInv /\ BufInv
-----------------------------------------------------------------------------
\* The log has room for at least one block.
LEMMA CapFacts == Cap \in Nat \ {0}
BY LogAssumption DEF Cap

\* What a header of the log is, in terms the provers use.
LEMMA HeaderFacts ==
  ASSUME NEW h \in Headers
  PROVE  /\ h \in Seq(Block) /\ Len(h) \in Nat /\ Len(h) <= Cap
         /\ DOMAIN h = 1..Len(h)
         /\ \A i \in DOMAIN h : h[i] \in Block
BY DEF Headers

\* The entry log_write chooses: the block's own, or one past the last.
LEMMA EntryFacts ==
  ASSUME lh \in Headers, NEW b \in Block
  PROVE  /\ Names(lh, b) => Entry(b) \in DOMAIN lh /\ lh[Entry(b)] = b
         /\ ~Names(lh, b) => Entry(b) = Len(lh) + 1 /\ \A i \in DOMAIN lh : lh[i] # b
BY HeaderFacts DEF Entry, Names

\* A disk made by mkfs satisfies the invariant.
LEMMA InitLInv == Init => LInv
<1>. SUFFICES ASSUME Init PROVE LInv
  OBVIOUS
<1>1. <<>> \in Headers /\ 1 \in 1..Cap + 1
  BY CapFacts DEF Headers
<1>2. TypeOK
  BY <1>1 DEF Init, TypeOK
<1>3. Injective(lh) /\ Injective(head)
  BY DEF Init, Injective
<1>4. OneTransaction /\ BusyInv /\ SleepersHaveOwner /\ HeadInv
  BY DEF Init, OneTransaction, BusyInv, SleepersHaveOwner, Active, HeadInv, Running
<1>5. InstalledInv /\ BufInv
  BY DEF Init, InstalledInv, BufInv, Installing
<1>. QED
  BY <1>2, <1>3, <1>4, <1>5 DEF LInv

\* Load preserves the invariant.
LEMMA LoadInv ==
  ASSUME LInv, NEW b \in Block, Load(b)
  PROVE  LInv'
<1>1. TypeOK'
  BY HeaderFacts, CapFacts DEF Load, LInv, TypeOK, Active, Running, Installing, Pending
<1>2. (OneTransaction /\ BusyInv /\ SleepersHaveOwner)'
  BY HeaderFacts, CapFacts DEF Load, LInv, TypeOK, Active, Running, Installing, Pending, OneTransaction, BusyInv, SleepersHaveOwner
<1>3. (Injective(lh) /\ Injective(head))'
  BY HeaderFacts, CapFacts DEF Load, LInv, TypeOK, Active, Running, Installing, Pending, Injective, OneTransaction, HeadInv
<1>4. HeadInv'
  BY HeaderFacts, CapFacts DEF Load, LInv, TypeOK, Active, Running, Installing, Pending, HeadInv, OneTransaction, BusyInv
<1>5. InstalledInv'
  BY HeaderFacts, CapFacts DEF Load, LInv, TypeOK, Active, Running, Installing, Pending, InstalledInv, HeadInv, OneTransaction, BusyInv, Injective
<1>6. BufInv'
  <2>1. UNCHANGED <<disk, logd, dirty, lh, mode, pc, tail>>
    BY DEF Load
  <2>2. \A i : Pending(i)' <=> Pending(i)
    BY <2>1 DEF Pending, Running, Installing
  <2>3. ASSUME NEW i \in DOMAIN lh, Pending(i)
        PROVE  lh[i] # b /\ lh[i] \in Block
    <3>1. lh[i] \in Block /\ i \in 1..Cap
      BY HeaderFacts, CapFacts DEF LInv, TypeOK
    <3>2. buf[lh[i]] = logd[i] /\ logd[i] \in Val
      BY <2>3, <3>1 DEF LInv, TypeOK, BufInv
    <3>. QED
      BY <3>1, <3>2, AbsentAssumption DEF Load
  <2>4. \A i \in DOMAIN lh' : Pending(i)' => buf'[lh'[i]] = logd'[i] /\ lh'[i] \in dirty'
    BY <2>1, <2>2, <2>3 DEF LInv, TypeOK, BufInv, Load
  <2>5. \A a \in Block : \/ buf'[a] \in {Absent, disk'[a]}
                         \/ \E i \in DOMAIN lh' : lh'[i] = a /\ Pending(i)'
    BY <2>1, <2>2 DEF LInv, TypeOK, BufInv, Load
  <2>. QED
    BY <2>4, <2>5 DEF BufInv
<1>. QED
  BY <1>1, <1>2, <1>3, <1>4, <1>5, <1>6 DEF LInv

\* Evict preserves the invariant.
LEMMA EvictInv ==
  ASSUME LInv, NEW b \in Block, Evict(b)
  PROVE  LInv'
<1>1. TypeOK'
  BY HeaderFacts, CapFacts DEF Evict, LInv, TypeOK, Active, Running, Installing, Pending
<1>2. (OneTransaction /\ BusyInv /\ SleepersHaveOwner)'
  BY HeaderFacts, CapFacts DEF Evict, LInv, TypeOK, Active, Running, Installing, Pending, OneTransaction, BusyInv, SleepersHaveOwner
<1>3. (Injective(lh) /\ Injective(head))'
  BY HeaderFacts, CapFacts DEF Evict, LInv, TypeOK, Active, Running, Installing, Pending, Injective, OneTransaction, HeadInv
<1>4. HeadInv'
  BY HeaderFacts, CapFacts DEF Evict, LInv, TypeOK, Active, Running, Installing, Pending, HeadInv, OneTransaction, BusyInv
<1>5. InstalledInv'
  BY HeaderFacts, CapFacts DEF Evict, LInv, TypeOK, Active, Running, Installing, Pending, InstalledInv, HeadInv, OneTransaction, BusyInv, Injective
<1>6. BufInv'
  BY HeaderFacts, CapFacts DEF Evict, LInv, TypeOK, Active, Running, Installing, Pending, BufInv, InstalledInv, HeadInv, OneTransaction, BusyInv, Injective
<1>. QED
  BY <1>1, <1>2, <1>3, <1>4, <1>5, <1>6 DEF LInv

\* BeginTrans preserves the invariant.
LEMMA BeginTransInv ==
  ASSUME LInv, NEW p \in Process, BeginTrans(p)
  PROVE  LInv'
<1>1. TypeOK'
  BY HeaderFacts, CapFacts DEF BeginTrans, LInv, TypeOK, Active, Running, Installing, Pending
<1>2. (OneTransaction /\ BusyInv /\ SleepersHaveOwner)'
  BY HeaderFacts, CapFacts DEF BeginTrans, LInv, TypeOK, Active, Running, Installing, Pending, OneTransaction, BusyInv, SleepersHaveOwner
<1>3. (Injective(lh) /\ Injective(head))'
  BY HeaderFacts, CapFacts DEF BeginTrans, LInv, TypeOK, Active, Running, Installing, Pending, Injective, OneTransaction, HeadInv
<1>4. HeadInv'
  BY HeaderFacts, CapFacts DEF BeginTrans, LInv, TypeOK, Active, Running, Installing, Pending, HeadInv, OneTransaction, BusyInv
<1>5. InstalledInv'
  BY HeaderFacts, CapFacts DEF BeginTrans, LInv, TypeOK, Active, Running, Installing, Pending, InstalledInv, HeadInv, OneTransaction, BusyInv, Injective
<1>6. BufInv'
  BY HeaderFacts, CapFacts DEF BeginTrans, LInv, TypeOK, Active, Running, Installing, Pending, BufInv, InstalledInv, HeadInv, OneTransaction, BusyInv, Injective
<1>. QED
  BY <1>1, <1>2, <1>3, <1>4, <1>5, <1>6 DEF LInv

\* BeginSleep preserves the invariant.
LEMMA BeginSleepInv ==
  ASSUME LInv, NEW p \in Process, BeginSleep(p)
  PROVE  LInv'
<1>1. TypeOK'
  BY HeaderFacts, CapFacts DEF BeginSleep, LInv, TypeOK, Active, Running, Installing, Pending
<1>2. (OneTransaction /\ BusyInv /\ SleepersHaveOwner)'
  BY HeaderFacts, CapFacts DEF BeginSleep, LInv, TypeOK, Active, Running, Installing, Pending, OneTransaction, BusyInv, SleepersHaveOwner
<1>3. (Injective(lh) /\ Injective(head))'
  BY HeaderFacts, CapFacts DEF BeginSleep, LInv, TypeOK, Active, Running, Installing, Pending, Injective, OneTransaction, HeadInv
<1>4. HeadInv'
  BY HeaderFacts, CapFacts DEF BeginSleep, LInv, TypeOK, Active, Running, Installing, Pending, HeadInv, OneTransaction, BusyInv
<1>5. InstalledInv'
  BY HeaderFacts, CapFacts DEF BeginSleep, LInv, TypeOK, Active, Running, Installing, Pending, InstalledInv, HeadInv, OneTransaction, BusyInv, Injective
<1>6. BufInv'
  BY HeaderFacts, CapFacts DEF BeginSleep, LInv, TypeOK, Active, Running, Installing, Pending, BufInv, InstalledInv, HeadInv, OneTransaction, BusyInv, Injective
<1>. QED
  BY <1>1, <1>2, <1>3, <1>4, <1>5, <1>6 DEF LInv

\* LogWritePanic preserves the invariant.
LEMMA LogWritePanicInv ==
  ASSUME LInv, NEW p \in Process, LogWritePanic(p)
  PROVE  LInv'
<1>1. TypeOK'
  BY HeaderFacts, CapFacts DEF LogWritePanic, LInv, TypeOK, Active, Running, Installing, Pending
<1>2. (OneTransaction /\ BusyInv /\ SleepersHaveOwner)'
  BY HeaderFacts, CapFacts DEF LogWritePanic, LInv, TypeOK, Active, Running, Installing, Pending, OneTransaction, BusyInv, SleepersHaveOwner
<1>3. (Injective(lh) /\ Injective(head))'
  BY HeaderFacts, CapFacts DEF LogWritePanic, LInv, TypeOK, Active, Running, Installing, Pending, Injective, OneTransaction, HeadInv
<1>4. HeadInv'
  BY HeaderFacts, CapFacts DEF LogWritePanic, LInv, TypeOK, Active, Running, Installing, Pending, HeadInv, OneTransaction, BusyInv
<1>5. InstalledInv'
  BY HeaderFacts, CapFacts DEF LogWritePanic, LInv, TypeOK, Active, Running, Installing, Pending, InstalledInv, HeadInv, OneTransaction, BusyInv, Injective
<1>6. BufInv'
  BY HeaderFacts, CapFacts DEF LogWritePanic, LInv, TypeOK, Active, Running, Installing, Pending, BufInv, InstalledInv, HeadInv, OneTransaction, BusyInv, Injective
<1>. QED
  BY <1>1, <1>2, <1>3, <1>4, <1>5, <1>6 DEF LInv

\* LogWrite preserves the invariant.
LEMMA LogWriteInv ==
  ASSUME LInv, NEW p \in Process, NEW b \in Block, NEW v \in Val, LogWrite(p, b, v)
  PROVE  LInv'
<1>0. lh' \in Headers
  BY HeaderFacts, CapFacts DEF LogWrite, LInv, TypeOK, Headers
<1>1. TypeOK'
  <2>1. Entry(b) \in 1..Cap
    BY HeaderFacts, CapFacts, EntryFacts DEF LogWrite, LInv, TypeOK
  <2>2. logd' \in [1..Cap -> Val]
    BY <2>1 DEF LogWrite, LInv, TypeOK
  <2>3. buf' \in [Block -> Val \cup {Absent}] /\ dirty' \in SUBSET Block
    BY DEF LogWrite, LInv, TypeOK
  <2>. QED
    BY <1>0, <2>2, <2>3 DEF LogWrite, LInv, TypeOK
<1>2. (OneTransaction /\ BusyInv /\ SleepersHaveOwner)'
  BY HeaderFacts, CapFacts, EntryFacts DEF LogWrite, LInv, TypeOK, Active, Running, Installing, Pending, OneTransaction, BusyInv, SleepersHaveOwner
<1>3. (Injective(lh) /\ Injective(head))'
  BY HeaderFacts, CapFacts, EntryFacts DEF LogWrite, LInv, TypeOK, Active, Running, Installing, Pending, Injective, OneTransaction, HeadInv
<1>4. HeadInv'
  BY HeaderFacts, CapFacts, EntryFacts DEF LogWrite, LInv, TypeOK, Active, Running, Installing, Pending, HeadInv, OneTransaction, BusyInv
<1>5. InstalledInv'
  BY HeaderFacts, CapFacts, EntryFacts DEF LogWrite, LInv, TypeOK, Active, Running, Installing, Pending, InstalledInv, HeadInv, OneTransaction, BusyInv, Injective
<1>6. BufInv'
  <2>1. Running /\ ~Installing /\ Running' /\ ~Installing'
    BY DEF LogWrite, LInv, TypeOK, Running, Installing, OneTransaction
  <2>2. \A i : Pending(i) /\ Pending(i)'
    BY <2>1 DEF Pending
  <2>3. /\ DOMAIN lh \subseteq DOMAIN lh' /\ \A i \in DOMAIN lh : lh'[i] = lh[i]
        /\ DOMAIN lh' \subseteq DOMAIN lh \cup {Entry(b)}
        /\ Entry(b) \in DOMAIN lh' /\ lh'[Entry(b)] = b
    BY HeaderFacts, EntryFacts DEF LogWrite, LInv, TypeOK
  <2>4. \A i \in DOMAIN lh : i # Entry(b) => lh[i] # b /\ lh[i] \in Block
    BY HeaderFacts, EntryFacts DEF LInv, TypeOK, Injective
  <2>5. Entry(b) \in 1..Cap
    BY HeaderFacts, CapFacts, EntryFacts DEF LogWrite, LInv, TypeOK
  <2>6. /\ \A i : i # Entry(b) => logd'[i] = logd[i] \/ i \notin 1..Cap
        /\ logd'[Entry(b)] = v
    BY <2>5 DEF LogWrite, LInv, TypeOK
  <2>7. \A i \in DOMAIN lh : i \in 1..Cap
    BY HeaderFacts, CapFacts DEF LInv, TypeOK
  <2>8. ASSUME NEW i \in DOMAIN lh'
        PROVE  buf'[lh'[i]] = logd'[i] /\ lh'[i] \in dirty'
    <3>1. CASE i = Entry(b)
      BY <3>1, <2>3, <2>6 DEF LogWrite, LInv, TypeOK
    <3>2. CASE i # Entry(b)
      <4>1. i \in DOMAIN lh /\ lh'[i] = lh[i] /\ lh[i] # b /\ lh[i] \in Block
        BY <3>2, <2>3, <2>4
      <4>2. logd'[i] = logd[i] /\ buf[lh[i]] = logd[i] /\ lh[i] \in dirty
        BY <4>1, <3>2, <2>6, <2>7, <2>2 DEF LInv, BufInv
      <4>. QED
        BY <4>1, <4>2 DEF LogWrite, LInv, TypeOK
    <3>. QED
      BY <3>1, <3>2
  <2>9. ASSUME NEW a \in Block
        PROVE  \/ buf'[a] \in {Absent, disk'[a]}
               \/ \E i \in DOMAIN lh' : lh'[i] = a /\ Pending(i)'
    <3>1. CASE a = b
      BY <3>1, <2>2, <2>3
    <3>2. CASE a # b
      <4>1. buf'[a] = buf[a] /\ disk' = disk
        BY <3>2 DEF LogWrite, LInv, TypeOK
      <4>2. \/ buf[a] \in {Absent, disk[a]}
            \/ \E i \in DOMAIN lh : lh[i] = a
        BY DEF LInv, BufInv
      <4>. QED
        BY <4>1, <4>2, <2>2, <2>3
    <3>. QED
      BY <3>1, <3>2
  <2>. QED
    BY <2>8, <2>9 DEF BufInv
<1>. QED
  BY <1>1, <1>2, <1>3, <1>4, <1>5, <1>6 DEF LInv

\* CommitEmpty preserves the invariant.
LEMMA CommitEmptyInv ==
  ASSUME LInv, NEW p \in Process, CommitEmpty(p)
  PROVE  LInv'
<1>1. TypeOK'
  BY HeaderFacts, CapFacts DEF CommitEmpty, LInv, TypeOK, Active, Running, Installing, Pending
<1>2. (OneTransaction /\ BusyInv /\ SleepersHaveOwner)'
  BY HeaderFacts, CapFacts DEF CommitEmpty, LInv, TypeOK, Active, Running, Installing, Pending, OneTransaction, BusyInv, SleepersHaveOwner
<1>3. (Injective(lh) /\ Injective(head))'
  BY HeaderFacts, CapFacts DEF CommitEmpty, LInv, TypeOK, Active, Running, Installing, Pending, Injective, OneTransaction, HeadInv
<1>4. HeadInv'
  BY HeaderFacts, CapFacts DEF CommitEmpty, LInv, TypeOK, Active, Running, Installing, Pending, HeadInv, OneTransaction, BusyInv
<1>5. InstalledInv'
  BY HeaderFacts, CapFacts DEF CommitEmpty, LInv, TypeOK, Active, Running, Installing, Pending, InstalledInv, HeadInv, OneTransaction, BusyInv, Injective
<1>6. BufInv'
  BY HeaderFacts, CapFacts DEF CommitEmpty, LInv, TypeOK, Active, Running, Installing, Pending, BufInv, InstalledInv, HeadInv, OneTransaction, BusyInv, Injective
<1>. QED
  BY <1>1, <1>2, <1>3, <1>4, <1>5, <1>6 DEF LInv

\* CommitHead preserves the invariant.
LEMMA CommitHeadInv ==
  ASSUME LInv, NEW p \in Process, CommitHead(p)
  PROVE  LInv'
<1>1. TypeOK'
  BY HeaderFacts, CapFacts DEF CommitHead, LInv, TypeOK, Active, Running, Installing, Pending
<1>2. (OneTransaction /\ BusyInv /\ SleepersHaveOwner)'
  BY HeaderFacts, CapFacts DEF CommitHead, LInv, TypeOK, Active, Running, Installing, Pending, OneTransaction, BusyInv, SleepersHaveOwner
<1>3. (Injective(lh) /\ Injective(head))'
  BY HeaderFacts, CapFacts DEF CommitHead, LInv, TypeOK, Active, Running, Installing, Pending, Injective, OneTransaction, HeadInv
<1>4. HeadInv'
  BY HeaderFacts, CapFacts DEF CommitHead, LInv, TypeOK, Active, Running, Installing, Pending, HeadInv, OneTransaction, BusyInv
<1>5. InstalledInv'
  BY HeaderFacts, CapFacts DEF CommitHead, LInv, TypeOK, Active, Running, Installing, Pending, InstalledInv, HeadInv, OneTransaction, BusyInv, Injective
<1>6. BufInv'
  BY HeaderFacts, CapFacts DEF CommitHead, LInv, TypeOK, Active, Running, Installing, Pending, BufInv, InstalledInv, HeadInv, OneTransaction, BusyInv, Injective
<1>. QED
  BY <1>1, <1>2, <1>3, <1>4, <1>5, <1>6 DEF LInv

\* CommitInstall preserves the invariant.
LEMMA CommitInstallInv ==
  ASSUME LInv, NEW p \in Process, CommitInstall(p)
  PROVE  LInv'
<1>1. TypeOK'
  BY HeaderFacts, CapFacts DEF CommitInstall, InstallBlock, LInv, TypeOK, Active, Running, Installing, Pending
<1>2. (OneTransaction /\ BusyInv /\ SleepersHaveOwner)'
  BY HeaderFacts, CapFacts DEF CommitInstall, InstallBlock, LInv, TypeOK, Active, Running, Installing, Pending, OneTransaction, BusyInv, SleepersHaveOwner
<1>3. (Injective(lh) /\ Injective(head))'
  BY HeaderFacts, CapFacts DEF CommitInstall, InstallBlock, LInv, TypeOK, Active, Running, Installing, Pending, Injective, OneTransaction, HeadInv
<1>4. HeadInv'
  BY HeaderFacts, CapFacts DEF CommitInstall, InstallBlock, LInv, TypeOK, Active, Running, Installing, Pending, HeadInv, OneTransaction, BusyInv
<1>5. InstalledInv'
  BY HeaderFacts, CapFacts DEF CommitInstall, InstallBlock, LInv, TypeOK, Active, Running, Installing, Pending, InstalledInv, HeadInv, OneTransaction, BusyInv, Injective
<1>6. BufInv'
  BY HeaderFacts, CapFacts DEF CommitInstall, InstallBlock, LInv, TypeOK, Active, Running, Installing, Pending, BufInv, InstalledInv, HeadInv, OneTransaction, BusyInv, Injective
<1>. QED
  BY <1>1, <1>2, <1>3, <1>4, <1>5, <1>6 DEF LInv

\* CommitErase preserves the invariant.
LEMMA CommitEraseInv ==
  ASSUME LInv, NEW p \in Process, CommitErase(p)
  PROVE  LInv'
<1>1. TypeOK'
  BY HeaderFacts, CapFacts DEF CommitErase, EraseHead, Headers, LInv, TypeOK, Active, Running, Installing, Pending
<1>2. (OneTransaction /\ BusyInv /\ SleepersHaveOwner)'
  BY HeaderFacts, CapFacts DEF CommitErase, EraseHead, Headers, LInv, TypeOK, Active, Running, Installing, Pending, OneTransaction, BusyInv, SleepersHaveOwner
<1>3. (Injective(lh) /\ Injective(head))'
  BY HeaderFacts, CapFacts DEF CommitErase, EraseHead, Headers, LInv, TypeOK, Active, Running, Installing, Pending, Injective, OneTransaction, HeadInv
<1>4. HeadInv'
  BY HeaderFacts, CapFacts DEF CommitErase, EraseHead, Headers, LInv, TypeOK, Active, Running, Installing, Pending, HeadInv, OneTransaction, BusyInv
<1>5. InstalledInv'
  BY HeaderFacts, CapFacts DEF CommitErase, EraseHead, Headers, LInv, TypeOK, Active, Running, Installing, Pending, InstalledInv, HeadInv, OneTransaction, BusyInv, Injective
<1>6. BufInv'
  BY HeaderFacts, CapFacts DEF CommitErase, EraseHead, Headers, LInv, TypeOK, Active, Running, Installing, Pending, BufInv, InstalledInv, HeadInv, OneTransaction, BusyInv, Injective
<1>. QED
  BY <1>1, <1>2, <1>3, <1>4, <1>5, <1>6 DEF LInv

\* CommitWakeup preserves the invariant.
LEMMA CommitWakeupInv ==
  ASSUME LInv, NEW p \in Process, CommitWakeup(p)
  PROVE  LInv'
<1>1. TypeOK'
  BY HeaderFacts, CapFacts DEF CommitWakeup, LInv, TypeOK, Active, Running, Installing, Pending
<1>2. (OneTransaction /\ BusyInv /\ SleepersHaveOwner)'
  BY HeaderFacts, CapFacts DEF CommitWakeup, LInv, TypeOK, Active, Running, Installing, Pending, OneTransaction, BusyInv, SleepersHaveOwner
<1>3. (Injective(lh) /\ Injective(head))'
  BY HeaderFacts, CapFacts DEF CommitWakeup, LInv, TypeOK, Active, Running, Installing, Pending, Injective, OneTransaction, HeadInv
<1>4. HeadInv'
  BY HeaderFacts, CapFacts DEF CommitWakeup, LInv, TypeOK, Active, Running, Installing, Pending, HeadInv, OneTransaction, BusyInv
<1>5. InstalledInv'
  BY HeaderFacts, CapFacts DEF CommitWakeup, LInv, TypeOK, Active, Running, Installing, Pending, InstalledInv, HeadInv, OneTransaction, BusyInv, Injective
<1>6. BufInv'
  BY HeaderFacts, CapFacts DEF CommitWakeup, LInv, TypeOK, Active, Running, Installing, Pending, BufInv, InstalledInv, HeadInv, OneTransaction, BusyInv, Injective
<1>. QED
  BY <1>1, <1>2, <1>3, <1>4, <1>5, <1>6 DEF LInv

\* Crash preserves the invariant.
LEMMA CrashInv ==
  ASSUME LInv, Crash
  PROVE  LInv'
<1>1. TypeOK'
  <2>1. <<>> \in Headers /\ 1 \in 1..Cap + 1
    BY CapFacts DEF Headers
  <2>. QED
    BY <2>1 DEF Crash, LInv, TypeOK
<1>2. (OneTransaction /\ BusyInv /\ SleepersHaveOwner)'
  BY HeaderFacts, CapFacts DEF Crash, Headers, LInv, TypeOK, Active, Running, Installing, Pending, OneTransaction, BusyInv, SleepersHaveOwner
<1>3. (Injective(lh) /\ Injective(head))'
  BY HeaderFacts, CapFacts DEF Crash, Headers, LInv, TypeOK, Active, Running, Installing, Pending, Injective, OneTransaction, HeadInv
<1>4. HeadInv'
  BY HeaderFacts, CapFacts DEF Crash, Headers, LInv, TypeOK, Active, Running, Installing, Pending, HeadInv, OneTransaction, BusyInv
<1>5. InstalledInv'
  BY HeaderFacts, CapFacts DEF Crash, Headers, LInv, TypeOK, Active, Running, Installing, Pending, InstalledInv, HeadInv, OneTransaction, BusyInv, Injective
<1>6. BufInv'
  BY HeaderFacts, CapFacts DEF Crash, Headers, LInv, TypeOK, Active, Running, Installing, Pending, BufInv, InstalledInv, HeadInv, OneTransaction, BusyInv, Injective
<1>. QED
  BY <1>1, <1>2, <1>3, <1>4, <1>5, <1>6 DEF LInv

\* RecoverHead preserves the invariant.
LEMMA RecoverHeadInv ==
  ASSUME LInv, RecoverHead
  PROVE  LInv'
<1>1. TypeOK'
  BY HeaderFacts, CapFacts DEF RecoverHead, LInv, TypeOK, Active, Running, Installing, Pending
<1>2. (OneTransaction /\ BusyInv /\ SleepersHaveOwner)'
  BY HeaderFacts, CapFacts DEF RecoverHead, LInv, TypeOK, Active, Running, Installing, Pending, OneTransaction, BusyInv, SleepersHaveOwner
<1>3. (Injective(lh) /\ Injective(head))'
  BY HeaderFacts, CapFacts DEF RecoverHead, LInv, TypeOK, Active, Running, Installing, Pending, Injective, OneTransaction, HeadInv
<1>4. HeadInv'
  BY HeaderFacts, CapFacts DEF RecoverHead, LInv, TypeOK, Active, Running, Installing, Pending, HeadInv, OneTransaction, BusyInv
<1>5. InstalledInv'
  BY HeaderFacts, CapFacts DEF RecoverHead, LInv, TypeOK, Active, Running, Installing, Pending, InstalledInv, HeadInv, OneTransaction, BusyInv, Injective
<1>6. BufInv'
  BY HeaderFacts, CapFacts DEF RecoverHead, LInv, TypeOK, Active, Running, Installing, Pending, BufInv, InstalledInv, HeadInv, OneTransaction, BusyInv, Injective
<1>. QED
  BY <1>1, <1>2, <1>3, <1>4, <1>5, <1>6 DEF LInv

\* RecoverInstall preserves the invariant.
LEMMA RecoverInstallInv ==
  ASSUME LInv, RecoverInstall
  PROVE  LInv'
<1>1. TypeOK'
  BY HeaderFacts, CapFacts DEF RecoverInstall, InstallBlock, LInv, TypeOK, Active, Running, Installing, Pending
<1>2. (OneTransaction /\ BusyInv /\ SleepersHaveOwner)'
  BY HeaderFacts, CapFacts DEF RecoverInstall, InstallBlock, LInv, TypeOK, Active, Running, Installing, Pending, OneTransaction, BusyInv, SleepersHaveOwner
<1>3. (Injective(lh) /\ Injective(head))'
  BY HeaderFacts, CapFacts DEF RecoverInstall, InstallBlock, LInv, TypeOK, Active, Running, Installing, Pending, Injective, OneTransaction, HeadInv
<1>4. HeadInv'
  BY HeaderFacts, CapFacts DEF RecoverInstall, InstallBlock, LInv, TypeOK, Active, Running, Installing, Pending, HeadInv, OneTransaction, BusyInv
<1>5. InstalledInv'
  <2>1. /\ tail \in DOMAIN lh /\ tail' = tail + 1 /\ lh' = lh /\ logd' = logd
        /\ disk' = [disk EXCEPT ![lh[tail]] = logd[tail]]
    BY HeaderFacts, CapFacts DEF RecoverInstall, InstallBlock, LInv, TypeOK
  <2>2. ASSUME NEW i \in DOMAIN lh, i < tail + 1
        PROVE  disk'[lh[i]] = logd[i]
    <3>1. CASE i = tail
      BY <3>1, <2>1, HeaderFacts DEF LInv, TypeOK
    <3>2. CASE i # tail
      <4>1. i < tail /\ lh[i] # lh[tail] /\ lh[i] \in Block
        BY <3>2, <2>1, <2>2, HeaderFacts DEF LInv, TypeOK, Injective
      <4>2. disk[lh[i]] = logd[i]
        BY <4>1 DEF LInv, InstalledInv, RecoverInstall, Installing
      <4>. QED
        BY <4>1, <4>2, <2>1 DEF LInv, TypeOK
    <3>. QED
      BY <3>1, <3>2
  <2>. QED
    BY <2>1, <2>2 DEF InstalledInv
<1>6. BufInv'
  BY HeaderFacts, CapFacts DEF RecoverInstall, InstallBlock, LInv, TypeOK, Active, Running, Installing, Pending, BufInv, InstalledInv, HeadInv, OneTransaction, BusyInv, Injective
<1>. QED
  BY <1>1, <1>2, <1>3, <1>4, <1>5, <1>6 DEF LInv

\* RecoverErase preserves the invariant.
LEMMA RecoverEraseInv ==
  ASSUME LInv, RecoverErase
  PROVE  LInv'
<1>1. TypeOK'
  BY HeaderFacts, CapFacts DEF RecoverErase, EraseHead, Headers, LInv, TypeOK, Active, Running, Installing, Pending
<1>2. (OneTransaction /\ BusyInv /\ SleepersHaveOwner)'
  BY HeaderFacts, CapFacts DEF RecoverErase, EraseHead, Headers, LInv, TypeOK, Active, Running, Installing, Pending, OneTransaction, BusyInv, SleepersHaveOwner
<1>3. (Injective(lh) /\ Injective(head))'
  BY HeaderFacts, CapFacts DEF RecoverErase, EraseHead, Headers, LInv, TypeOK, Active, Running, Installing, Pending, Injective, OneTransaction, HeadInv
<1>4. HeadInv'
  BY HeaderFacts, CapFacts DEF RecoverErase, EraseHead, Headers, LInv, TypeOK, Active, Running, Installing, Pending, HeadInv, OneTransaction, BusyInv
<1>5. InstalledInv'
  BY HeaderFacts, CapFacts DEF RecoverErase, EraseHead, Headers, LInv, TypeOK, Active, Running, Installing, Pending, InstalledInv, HeadInv, OneTransaction, BusyInv, Injective
<1>6. BufInv'
  BY HeaderFacts, CapFacts DEF RecoverErase, EraseHead, Headers, LInv, TypeOK, Active, Running, Installing, Pending, BufInv, InstalledInv, HeadInv, OneTransaction, BusyInv, Injective
<1>. QED
  BY <1>1, <1>2, <1>3, <1>4, <1>5, <1>6 DEF LInv

\* Every step preserves the invariant.
LEMMA NextLInv == LInv /\ [Next]_vars => LInv'
<1>. SUFFICES ASSUME LInv, [Next]_vars PROVE LInv'
  OBVIOUS
<1>1. CASE \E b \in Block : Load(b) \/ Evict(b)
  BY <1>1, LoadInv, EvictInv
<1>2. CASE \E p \in Process : BeginTrans(p) \/ BeginSleep(p) \/ LogWritePanic(p) \/ Transaction(p)
  BY <1>2, BeginTransInv, BeginSleepInv, LogWritePanicInv, CommitEmptyInv, CommitHeadInv,
     CommitInstallInv, CommitEraseInv, CommitWakeupInv DEF Transaction
<1>3. CASE \E p \in Process, b \in Block, v \in Val : LogWrite(p, b, v)
  BY <1>3, LogWriteInv
<1>4. CASE Recovery
  BY <1>4, RecoverHeadInv, RecoverInstallInv, RecoverEraseInv DEF Recovery
<1>5. CASE Crash
  BY <1>5, CrashInv
<1>6. CASE UNCHANGED vars
  BY <1>6 DEF vars, LInv, TypeOK, OneTransaction, BusyInv, SleepersHaveOwner, Injective,
     HeadInv, InstalledInv, BufInv, Running, Installing, Pending
<1>. QED
  BY <1>1, <1>2, <1>3, <1>4, <1>5, <1>6 DEF Next

\* The invariant holds in every reachable state, recovery included.
THEOREM LogInvariance == Spec => []LInv
BY InitLInv, NextLInv, PTL DEF Spec

\* The variables of the log keep their types: in particular log.lh.n stays
\* within the log (log.c:164).
THEOREM LogTyped == Spec => []TypeOK
<1>1. LInv => TypeOK
  BY DEF LInv
<1>. QED
  BY <1>1, LogInvariance, PTL

\* log.c:13-14: one transaction at a time.
THEOREM LogExclusive == Spec => []OneTransaction
<1>1. LInv => OneTransaction
  BY DEF LInv
<1>. QED
  BY <1>1, LogInvariance, PTL

\* No process sleeps in begin_trans without a transaction to wait for.
THEOREM LogSleepers == Spec => []SleepersHaveOwner
<1>1. LInv => SleepersHaveOwner
  BY DEF LInv
<1>. QED
  BY <1>1, LogInvariance, PTL

\* Home sectors change only while the header on the disk names them.
THEOREM LogWriteAhead == Spec => WriteAhead
<1>1. LInv /\ [Next]_vars => [\A b \in Block : disk'[b] # disk[b] => Names(head, b)]_vars
  <2>. SUFFICES ASSUME LInv, Next, NEW b \in Block, disk'[b] # disk[b]
                PROVE  Names(head, b)
    OBVIOUS
  <2>1. head = lh /\ tail \in DOMAIN lh /\ disk' = [disk EXCEPT ![lh[tail]] = logd[tail]]
    BY HeaderFacts, CapFacts DEF Next, Load, Evict, BeginTrans, BeginSleep, LogWritePanic, Transaction, CommitEmpty,
       CommitHead, CommitInstall, CommitErase, CommitWakeup, LogWrite, Recovery, RecoverHead,
       RecoverInstall, RecoverErase, Crash, InstallBlock, EraseHead, LInv, TypeOK, HeadInv, Running
  <2>2. b = lh[tail]
    BY <2>1 DEF LInv, TypeOK
  <2>. QED
    BY <2>1, <2>2, HeaderFacts DEF Names, LInv, TypeOK
<1>. QED
  BY <1>1, LogInvariance, PTL DEF Spec, WriteAhead
-----------------------------------------------------------------------------
(* Refinement.                                                             *)

\* What Overlay computes for a header without repetitions.
LEMMA OverlayFacts ==
  ASSUME NEW d, NEW l, NEW h \in Headers, Injective(h)
  PROVE  /\ \A i \in DOMAIN h : Overlay(d, l, h)[h[i]] = l[i]
         /\ \A b \in Block : ~Names(h, b) => Overlay(d, l, h)[b] = d[b]
<1>1. ASSUME NEW i \in DOMAIN h
      PROVE  Overlay(d, l, h)[h[i]] = l[i]
  <2>1. h[i] \in Block /\ Names(h, h[i])
    BY HeaderFacts DEF Names
  <2>2. (CHOOSE j \in DOMAIN h : h[j] = h[i]) = i
    BY DEF Injective
  <2>. QED
    BY <2>1, <2>2 DEF Overlay
<1>2. \A b \in Block : ~Names(h, b) => Overlay(d, l, h)[b] = d[b]
  BY DEF Overlay
<1>. QED
  BY <1>1, <1>2

\* An overlay is a function on the home sectors.
LEMMA OverlayFun ==
  ASSUME NEW d, NEW l, NEW h
  PROVE  Overlay(d, l, h) = [b \in Block |-> Overlay(d, l, h)[b]]
BY DEF Overlay

\* Equality with an overlay, block by block.
LEMMA OverlayEq ==
  ASSUME NEW d, NEW l, NEW h \in Headers, Injective(h), NEW f, f = [b \in Block |-> f[b]],
         \A i \in DOMAIN h : f[h[i]] = l[i],
         \A b \in Block : ~Names(h, b) => f[b] = d[b]
  PROVE  f = Overlay(d, l, h)
<1>1. ASSUME NEW b \in Block
      PROVE  f[b] = Overlay(d, l, h)[b]
  <2>1. CASE Names(h, b)
    BY <2>1, OverlayFacts DEF Names
  <2>2. CASE ~Names(h, b)
    BY <2>2, OverlayFacts
  <2>. QED
    BY <2>1, <2>2
<1>. QED
  BY <1>1, OverlayFun

\* The running system reads its own logged writes, and the disk elsewhere.
LEMMA CachedIsOverlay == LInv /\ Running => Cached = Overlay(disk, logd, lh)
<1>. SUFFICES ASSUME LInv, Running PROVE Cached = Overlay(disk, logd, lh)
  OBVIOUS
<1>1. lh \in Headers /\ Injective(lh)
  BY DEF LInv, TypeOK
<1>2. ASSUME NEW i \in DOMAIN lh
      PROVE  Cached[lh[i]] = logd[i]
  <2>1. lh[i] \in Block /\ i \in 1..Cap
    BY <1>1, HeaderFacts, CapFacts
  <2>2. CASE Pending(i)
    <3>1. buf[lh[i]] = logd[i] /\ logd[i] \in Val
      BY <2>1, <2>2 DEF LInv, TypeOK, BufInv
    <3>. QED
      BY <3>1, <2>1, AbsentAssumption DEF Cached
  <2>3. CASE ~Pending(i)
    <3>1. Installing /\ i < tail
      BY <2>1, <2>3 DEF Pending, LInv, TypeOK
    <3>2. disk[lh[i]] = logd[i]
      BY <3>1 DEF LInv, InstalledInv
    <3>3. buf[lh[i]] \in {Absent, disk[lh[i]]}
      BY <2>1, <2>3 DEF LInv, BufInv, Injective
    <3>. QED
      BY <3>2, <3>3, <2>1 DEF Cached
  <2>. QED
    BY <2>2, <2>3
<1>3. \A b \in Block : ~Names(lh, b) => Cached[b] = disk[b]
  BY DEF Cached, LInv, BufInv, Names
<1>4. Cached = [b \in Block |-> Cached[b]]
  BY DEF Cached
<1>. QED
  BY <1>1, <1>2, <1>3, <1>4, OverlayEq

\* An empty header leaves the disk as it is.
LEMMA OverlayNone == ASSUME NEW d \in [Block -> Val], NEW l PROVE Overlay(d, l, <<>>) = d
BY DEF Overlay, Names

\* The process whose transaction is open, if there is one.
OwnerForm ==
  /\ \A p \in Process : pc[p] = "trans" => Owner = p
  /\ (\A p \in Process : pc[p] # "trans") => Owner = Nobody

\* One transaction at a time makes the owner unique.
LEMMA OwnerFacts == LInv => OwnerForm
BY DEF LInv, Owner, OwnerForm, OneTransaction

\* View and Durable as overlays of the home sectors.
ViewForm ==
  /\ Running => View = Overlay(disk, logd, lh)
  /\ ~Running => View = Durable

\* The invariant gives View its form.
LEMMA ViewFacts == LInv => ViewForm
BY CachedIsOverlay DEF ViewForm, View, Running

\* install_trans writes blocks the overlay already takes from the log.
LEMMA InstallOverlay ==
  ASSUME LInv, tail \in DOMAIN lh, disk' = [disk EXCEPT ![lh[tail]] = logd[tail]]
  PROVE  Overlay(disk', logd, lh) = Overlay(disk, logd, lh)
<1>1. lh \in Headers /\ Names(lh, lh[tail])
  BY DEF LInv, TypeOK, Names
<1>2. \A b \in Block : ~Names(lh, b) => disk'[b] = disk[b]
  BY <1>1 DEF LInv, TypeOK
<1>. QED
  BY <1>2 DEF Overlay

\* When all entries are installed, the overlay is the disk itself.
LEMMA EraseOverlay ==
  ASSUME LInv, Installing, tail > Len(lh)
  PROVE  Overlay(disk, logd, lh) = disk
<1>1. lh \in Headers /\ Injective(lh) /\ disk \in [Block -> Val] /\ tail \in Nat
  BY CapFacts DEF LInv, TypeOK
<1>2. \A i \in DOMAIN lh : i < tail
  BY <1>1, HeaderFacts
<1>3. \A i \in DOMAIN lh : disk[lh[i]] = logd[i]
  BY <1>2 DEF LInv, InstalledInv
<1>4. ASSUME NEW b \in Block
      PROVE  Overlay(disk, logd, lh)[b] = disk[b]
  <2>1. CASE Names(lh, b)
    BY <2>1, <1>1, <1>3, OverlayFacts DEF Names
  <2>2. CASE ~Names(lh, b)
    BY <2>2, <1>1, OverlayFacts
  <2>. QED
    BY <2>1, <2>2
<1>. QED
  BY <1>1, <1>4, OverlayFun

\* log_write adds one block to the overlay.
LEMMA WriteOverlay ==
  ASSUME LInv, LInv', NEW p \in Process, NEW b \in Block, NEW v \in Val, LogWrite(p, b, v)
  PROVE  Overlay(disk', logd', lh') = [Overlay(disk, logd, lh) EXCEPT ![b] = v]
<1>0. /\ \A i \in DOMAIN lh : Overlay(disk, logd, lh)[lh[i]] = logd[i]
      /\ \A a \in Block : ~Names(lh, a) => Overlay(disk, logd, lh)[a] = disk[a]
  <2>1. lh \in Headers /\ Injective(lh)
    BY DEF LInv, TypeOK
  <2>. QED
    BY <2>1, OverlayFacts
<1>. DEFINE f == [Overlay(disk, logd, lh) EXCEPT ![b] = v]
<1>1. lh \in Headers /\ Injective(lh) /\ lh' \in Headers /\ Injective(lh') /\ disk' = disk
  BY DEF LInv, TypeOK, LogWrite
<1>2. /\ DOMAIN lh \subseteq DOMAIN lh' /\ \A i \in DOMAIN lh : lh'[i] = lh[i]
      /\ DOMAIN lh' \subseteq DOMAIN lh \cup {Entry(b)}
      /\ Entry(b) \in DOMAIN lh' /\ lh'[Entry(b)] = b
  BY <1>1, HeaderFacts, EntryFacts DEF LogWrite
<1>3. f = [a \in Block |-> IF a = b THEN v ELSE Overlay(disk, logd, lh)[a]]
  BY OverlayFun
<1>4. f = [a \in Block |-> f[a]]
  BY <1>3
<1>5. ASSUME NEW i \in DOMAIN lh'
      PROVE  f[lh'[i]] = logd'[i]
  <2>1. i \in 1..Cap /\ lh'[i] \in Block
    BY <1>1, HeaderFacts, CapFacts
  <2>2. CASE i = Entry(b)
    BY <2>1, <2>2, <1>2, <1>3 DEF LogWrite, LInv, TypeOK
  <2>3. CASE i # Entry(b)
    <3>1. i \in DOMAIN lh /\ lh'[i] = lh[i] /\ lh'[i] # b
      BY <2>3, <1>1, <1>2 DEF Injective
    <3>2. logd'[i] = logd[i]
      BY <2>1, <2>3 DEF LogWrite, LInv, TypeOK
    <3>3. Overlay(disk, logd, lh)[lh[i]] = logd[i]
      BY <3>1, <1>0
    <3>4. f[lh'[i]] = Overlay(disk, logd, lh)[lh'[i]]
      BY <3>1, <2>1, <1>3
    <3>. QED
      BY <3>1, <3>2, <3>3, <3>4
  <2>. QED
    BY <2>2, <2>3
<1>6. ASSUME NEW a \in Block, ~Names(lh', a)
      PROVE  f[a] = disk'[a]
  <2>1. a # b /\ ~Names(lh, a)
    BY <1>2, <1>6 DEF Names
  <2>. QED
    BY <2>1, <1>0, <1>1, <1>3
<1>. HIDE DEF f
<1>7. f = Overlay(disk', logd', lh')
  BY <1>1, <1>4, <1>5, <1>6, OverlayEq
<1>. QED
  BY <1>7 DEF f

\* Initially all three views of the blocks are the disk.
LEMMA InitStore == Init => Store!Init
<1>. SUFFICES ASSUME Init PROVE Store!Init
  OBVIOUS
<1>1. Durable = disk /\ disk \in [Block -> Val]
  BY OverlayNone DEF Init, Durable
<1>2. View = disk
  BY <1>1 DEF View, Cached, Init
<1>3. Owner = Nobody
  BY DEF Init, Owner
<1>. QED
  BY <1>1, <1>2, <1>3 DEF Store!Init

\* Every step of the log is a step of the atomic store, or changes nothing
\* of it.
LEMMA NextStore ==
  LInv /\ LInv' /\ [Next]_vars => [Store!Next]_<<View, Durable, Owner>>
<1>. SUFFICES ASSUME LInv, LInv', [Next]_vars
              PROVE  Store!Next \/ UNCHANGED <<View, Durable, Owner>>
  OBVIOUS
<1>1. ViewForm /\ ViewForm'
  BY ViewFacts, PTL
<1>2. OwnerForm'
  BY OwnerFacts, PTL
<1>3. OwnerForm
  BY OwnerFacts
<1>4. (Durable = Overlay(disk, logd, head)) /\ (Durable' = Overlay(disk', logd', head'))
  BY DEF Durable
<1>5. lh \in Headers /\ disk \in [Block -> Val] /\ disk' \in [Block -> Val]
  BY DEF LInv, TypeOK
<1>6. ASSUME NEW b \in Block, Load(b) \/ Evict(b)
      PROVE  UNCHANGED <<View, Durable, Owner>>
  BY <1>6, <1>1, <1>4 DEF Load, Evict, ViewForm, Running, Owner
<1>7. ASSUME NEW p \in Process, BeginSleep(p) \/ LogWritePanic(p)
      PROVE  UNCHANGED <<View, Durable, Owner>>
  <2>1. UNCHANGED <<View, Durable>>
    BY <1>7, <1>1, <1>4 DEF BeginSleep, LogWritePanic, ViewForm, Running
  <2>2. \A q \in Process : pc'[q] = "trans" <=> pc[q] = "trans"
    BY <1>7 DEF BeginSleep, LogWritePanic, LInv, TypeOK
  <2>. QED
    BY <2>1, <2>2 DEF Owner
<1>8. ASSUME NEW p \in Process, BeginTrans(p)
      PROVE  Store!Begin(p)
  <2>1. UNCHANGED <<View, Durable>>
    BY <1>8, <1>1, <1>4 DEF BeginTrans, ViewForm, Running
  <2>2. \A q \in Process : pc[q] # "trans"
    BY <1>8 DEF BeginTrans, LInv, BusyInv, Active
  <2>3. pc'[p] = "trans"
    BY <1>8 DEF BeginTrans, LInv, TypeOK
  <2>. QED
    BY <2>1, <2>2, <2>3, <1>2, <1>3 DEF OwnerForm, Store!Begin
<1>9. ASSUME NEW p \in Process, NEW b \in Block, NEW v \in Val, LogWrite(p, b, v)
      PROVE  Store!Write(p, b, v)
  <2>1. Running /\ Running' /\ pc[p] = "trans" /\ pc' = pc
    BY <1>9 DEF LogWrite, Running
  <2>2. head = <<>> /\ head' = <<>> /\ disk' = disk
    BY <1>9, <2>1 DEF LogWrite, LInv, HeadInv, OneTransaction
  <2>3. Durable = disk /\ Durable' = disk
    BY <2>2, <1>4, <1>5, OverlayNone
  <2>4. View' = [View EXCEPT ![b] = v]
    BY <2>1, <1>1, <1>9, WriteOverlay DEF ViewForm
  <2>5. Owner = p /\ Owner' = p
    BY <2>1, <1>2, <1>3 DEF OwnerForm
  <2>. QED
    BY <2>3, <2>4, <2>5 DEF Store!Write
<1>10. ASSUME NEW p \in Process, CommitEmpty(p) \/ CommitHead(p)
       PROVE  Store!Commit(p)
  <2>1. Running /\ Running' /\ pc[p] = "trans" /\ UNCHANGED <<disk, logd, lh>>
    BY <1>10 DEF CommitEmpty, CommitHead, Running
  <2>2. head' = lh
    BY <1>10, <2>1 DEF CommitEmpty, CommitHead, LInv, HeadInv, OneTransaction
  <2>3. \A q \in Process : pc'[q] # "trans"
    BY <1>10, <2>1 DEF CommitEmpty, CommitHead, LInv, TypeOK, OneTransaction
  <2>4. View' = View /\ Durable' = View
    BY <2>1, <2>2, <1>1, <1>4 DEF ViewForm
  <2>. QED
    BY <2>1, <2>3, <2>4, <1>2, <1>3 DEF OwnerForm, Store!Commit
<1>11. ASSUME NEW p \in Process, CommitInstall(p)
       PROVE  UNCHANGED <<View, Durable, Owner>>
  <2>1. /\ Running /\ Running' /\ UNCHANGED <<logd, head, lh, pc>>
        /\ tail \in DOMAIN lh /\ disk' = [disk EXCEPT ![lh[tail]] = logd[tail]]
    BY <1>11, HeaderFacts, CapFacts DEF CommitInstall, InstallBlock, Running, LInv, TypeOK
  <2>2. head = lh
    BY <1>11, <2>1 DEF CommitInstall, LInv, HeadInv
  <2>3. Overlay(disk', logd, lh) = Overlay(disk, logd, lh)
    BY <2>1, InstallOverlay
  <2>4. UNCHANGED <<View, Durable>>
    BY <2>1, <2>2, <2>3, <1>1, <1>4 DEF ViewForm
  <2>. QED
    BY <2>1, <2>4 DEF Owner
<1>12. ASSUME NEW p \in Process, CommitErase(p)
       PROVE  UNCHANGED <<View, Durable, Owner>>
  <2>1. /\ Running /\ Running' /\ Installing /\ UNCHANGED <<logd, disk>>
        /\ tail > Len(lh) /\ lh' = <<>> /\ head' = <<>>
    BY <1>12 DEF CommitErase, EraseHead, Running, Installing
  <2>2. head = lh
    BY <1>12, <2>1 DEF CommitErase, LInv, HeadInv
  <2>3. Overlay(disk, logd, lh) = disk /\ Overlay(disk', logd', lh') = disk
    BY <2>1, <1>5, EraseOverlay, OverlayNone
  <2>4. UNCHANGED <<View, Durable>>
    BY <2>1, <2>2, <2>3, <1>1, <1>4 DEF ViewForm
  <2>5. \A q \in Process : pc[q] # "trans" /\ pc'[q] # "trans"
    BY <1>12 DEF CommitErase, LInv, TypeOK, OneTransaction
  <2>. QED
    BY <2>4, <2>5, <1>2, <1>3 DEF OwnerForm
<1>13. ASSUME NEW p \in Process, CommitWakeup(p)
       PROVE  UNCHANGED <<View, Durable, Owner>>
  <2>1. UNCHANGED <<View, Durable>>
    BY <1>13, <1>1, <1>4 DEF CommitWakeup, ViewForm, Running
  <2>2. \A q \in Process : pc[q] # "trans" /\ pc'[q] # "trans"
    BY <1>13 DEF CommitWakeup, LInv, TypeOK, OneTransaction
  <2>. QED
    BY <2>1, <2>2, <1>2, <1>3 DEF OwnerForm
<1>14. CASE RecoverHead
  <2>1. ~Running /\ ~Running' /\ UNCHANGED <<disk, logd, head, pc>>
    BY <1>14 DEF RecoverHead, Running
  <2>. QED
    BY <2>1, <1>1, <1>4 DEF ViewForm, Owner
<1>15. CASE RecoverInstall
  <2>1. /\ ~Running /\ ~Running' /\ UNCHANGED <<logd, head, lh, pc>> /\ head = lh
        /\ tail \in DOMAIN lh /\ disk' = [disk EXCEPT ![lh[tail]] = logd[tail]]
    <3>1. /\ ~Running /\ ~Running' /\ UNCHANGED <<logd, head, lh, pc>> /\ tail <= Len(lh)
          /\ disk' = [disk EXCEPT ![lh[tail]] = logd[tail]]
      BY <1>15 DEF RecoverInstall, InstallBlock, Running
    <3>2. head = lh
      BY <1>15 DEF RecoverInstall, InstallBlock, LInv, HeadInv
    <3>3. lh \in Headers /\ tail \in Nat \ {0}
      BY DEF LInv, TypeOK
    <3>4. tail \in DOMAIN lh
      BY <3>1, <3>3, HeaderFacts, CapFacts
    <3>. QED
      BY <3>1, <3>2, <3>4
  <2>2. Overlay(disk', logd, lh) = Overlay(disk, logd, lh)
    BY <2>1, InstallOverlay
  <2>. QED
    BY <2>1, <2>2, <1>1, <1>4 DEF ViewForm, Owner
<1>16. CASE RecoverErase
  <2>1. /\ ~Running /\ Running' /\ Installing /\ UNCHANGED <<logd, disk, pc>> /\ head = lh
        /\ tail > Len(lh) /\ lh' = <<>> /\ head' = <<>>
    BY <1>16 DEF RecoverErase, EraseHead, Running, Installing, LInv, HeadInv
  <2>2. Overlay(disk, logd, lh) = disk /\ Overlay(disk', logd', lh') = disk
    BY <2>1, <1>5, EraseOverlay, OverlayNone
  <2>. QED
    BY <2>1, <2>2, <1>1, <1>4 DEF ViewForm, Owner
<1>17. CASE Crash
  <2>1. ~Running' /\ UNCHANGED <<disk, logd, head>> /\ \A q \in Process : pc'[q] # "trans"
    BY <1>17 DEF Crash, Running
  <2>2. Durable' = Durable /\ View' = Durable /\ Owner' = Nobody
    BY <2>1, <1>1, <1>2, <1>4 DEF OwnerForm, ViewForm
  <2>3. Store!Crash
    BY <2>2 DEF Store!Crash
  <2>. QED
    BY <2>3 DEF Store!Next
<1>18. CASE UNCHANGED vars
  BY <1>18 DEF vars, View, Cached, Durable, Owner
<1>. QED
  BY <1>6, <1>7, <1>8, <1>9, <1>10, <1>11, <1>12, <1>13, <1>14, <1>15, <1>16, <1>17, <1>18
     DEF Next, Transaction, Recovery, Store!Next

\* The log makes transactions atomic across crashes: it implements
\* AtomicStore, with recovery and re-crashes as stutters.
THEOREM LogAtomic == Spec => AtomicTransactions
<1>1. Spec => []LInv
  BY LogInvariance
<1>. QED
  BY <1>1, InitStore, NextStore, PTL DEF Spec, AtomicTransactions, Store!Spec
=============================================================================
