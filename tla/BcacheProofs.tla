---------------------------- MODULE BcacheProofs ----------------------------
(***************************************************************************)
(* The buffer cache never hands out stale data and never loses a wakeup,   *)
(* for every number of processes, sectors, values and buffers.             *)
(***************************************************************************)
EXTENDS Bcache, TLAPS

Flag == {"BUSY", "VALID", "DIRTY"}
Place == {"idle", "bget", "bwait", "rw", "iowait", "iowoken", "held"}

TypeOK ==
  /\ sector \in [Buf -> Sector \cup {NoSector}]
  /\ flags \in [Buf -> SUBSET Flag]
  /\ data \in [Buf -> Val]
  /\ lru \in [Buf -> Buf]
  /\ disk \in [Sector -> Val]
  /\ idequeue \in Seq(Buf)
  /\ active \in Buf \cup {NoBuf}
  /\ at \in [Process -> Place]
  /\ want \in [Process -> Sector \cup {NoSector}]
  /\ bp \in [Process -> Buf \cup {NoBuf}]
  /\ latest \in [Sector -> Val]

InIde(p) == at[p] \in {"iowait", "iowoken"}
Holds(p) == at[p] \in {"rw", "iowait", "iowoken", "held"}
Queued(b) == \E i \in DOMAIN idequeue : idequeue[i] = b
Complete(b) == "VALID" \in flags[b] /\ "DIRTY" \notin flags[b]

\* The list links every buffer.
ListInv == \A b \in Buf : \E i \in Buf : lru[i] = b

\* B_BUSY is a lock on the buffer: it is set exactly while one process is
\* between bget and brelse, and bget's sleepers find it set.
BusyInv ==
  /\ \A p \in Process : at[p] # "idle" => want[p] \in Sector
  /\ \A p \in Process : Holds(p) \/ at[p] = "bwait" => bp[p] \in Buf /\ "BUSY" \in flags[bp[p]]
  /\ \A p \in Process : Holds(p) => sector[bp[p]] = want[p]
  /\ \A p, q \in Process : Holds(p) /\ Holds(q) /\ bp[p] = bp[q] => p = q
  /\ \A b \in Buf : "BUSY" \in flags[b] => \E p \in Process : Holds(p) /\ bp[p] = b

\* A sector has at most one buffer; what B_VALID and B_DIRTY say about the
\* data of a buffer and about the disk.
DataInv ==
  /\ \A b, c \in Buf : sector[b] = sector[c] /\ sector[b] # NoSector => b = c
  /\ \A b \in Buf : sector[b] = NoSector => flags[b] = {}
  /\ \A b \in Buf : "DIRTY" \in flags[b] => "VALID" \in flags[b] /\ b \notin failed
  /\ \A b \in Buf : "VALID" \in flags[b] /\ b \notin failed => data[b] = latest[sector[b]]
  /\ \A s \in Sector :
       disk[s] = latest[s] \/ \E b \in Buf : sector[b] = s /\ "DIRTY" \in flags[b]
  /\ \A p \in Process : at[p] = "held" => "VALID" \in flags[bp[p]]

\* A buffer is queued at most once, by its holder, until its request is complete.
QueueInv ==
  /\ active = IF idequeue = <<>> THEN NoBuf ELSE Head(idequeue)
  /\ \A i \in DOMAIN idequeue : \E p \in Process : InIde(p) /\ bp[p] = idequeue[i]
  /\ \A i, j \in DOMAIN idequeue : idequeue[i] = idequeue[j] => i = j
  /\ \A p \in Process : at[p] = "iowait" => Queued(bp[p])
  /\ \A p \in Process : at[p] = "iowoken" => Queued(bp[p]) \/ Complete(bp[p])
  /\ \A p \in Process : at[p] = "rw" => ~Complete(bp[p])
  /\ \A i \in DOMAIN idequeue : ~Complete(idequeue[i])

CInv == TypeOK /\ ListInv /\ BusyInv /\ DataInv /\ QueueInv
-----------------------------------------------------------------------------
\* The identifiers that stand for no buffer and no sector are neither.
LEMMA BufFacts == NoBuf \notin Buf /\ 1 \in Buf /\ Buf \subseteq Nat /\ NoSector \notin Sector
BY BcacheAssumption DEF Buf, NoBuf

\* Appending to the queue of the driver.
LEMMA AppendFacts ==
  ASSUME NEW q \in Seq(Buf), NEW b \in Buf
  PROVE  /\ Append(q, b) \in Seq(Buf) /\ Append(q, b) # <<>>
         /\ DOMAIN Append(q, b) = DOMAIN q \cup {Len(q) + 1}
         /\ Len(q) + 1 \notin DOMAIN q
         /\ Append(q, b)[Len(q) + 1] = b
         /\ \A i \in DOMAIN q : Append(q, b)[i] = q[i]
         /\ Head(Append(q, b)) = IF q = <<>> THEN b ELSE Head(q)
OBVIOUS

\* Removing its first request.
LEMMA TailFacts ==
  ASSUME NEW q \in Seq(Buf), q # <<>>
  PROVE  /\ Head(q) \in Buf /\ Tail(q) \in Seq(Buf)
         /\ 1 \in DOMAIN q /\ q[1] = Head(q)
         /\ \A i \in DOMAIN Tail(q) : i \in Nat /\ i > 0 /\ i + 1 \in DOMAIN q /\ Tail(q)[i] = q[i + 1]
         /\ \A i \in DOMAIN q : i # 1 => i - 1 \in DOMAIN Tail(q) /\ Tail(q)[i - 1] = q[i]
         /\ Tail(q) # <<>> => Head(Tail(q)) \in Buf
OBVIOUS

\* bget never gives a sector a second buffer.
LEMMA OneBuffer ==
  ASSUME CInv, NEW b \in Buf, NEW c \in Buf, sector[b] = sector[c], sector[b] \in Sector
  PROVE  b = c
<1>1. sector[b] # NoSector
  BY BufFacts
<1>2. \A d, e \in Buf : sector[d] = sector[e] /\ sector[d] # NoSector => d = e
  BY DEF CInv, DataInv
<1>. QED BY <1>1, <1>2

\* After binit no buffer has a sector and the disk holds what was last stored.
LEMMA InitCInv == Init => CInv
<1>. SUFFICES ASSUME Init PROVE CInv
  OBVIOUS
<1>. USE BcacheAssumption, BufFacts
<1>1. TypeOK
  BY DEF Init, TypeOK, Buf, NoBuf, Flag, Place
<1>2. ListInv
  <2>. SUFFICES ASSUME NEW b \in Buf PROVE \E i \in Buf : lru[i] = b
    BY DEF ListInv
  <2>1. NBUF + 1 - b \in Buf /\ lru[NBUF + 1 - b] = b
    BY DEF Init, Buf
  <2>. QED BY <2>1
<1>3. BusyInv
  BY DEF Init, BusyInv, Holds
<1>4. DataInv
  BY DEF Init, DataInv
<1>5. QueueInv
  BY DEF Init, QueueInv, InIde, Queued
<1>. QED BY <1>1, <1>2, <1>3, <1>4, <1>5 DEF CInv

\* bread names a sector.
LEMMA BreadCInv ==
  ASSUME CInv, NEW p \in Process, NEW s \in Sector, Bread(p, s)
  PROVE  CInv'
<1>2. ListInv'
  BY DEF CInv, ListInv, Bread, cache
<1>. USE BufFacts DEF CInv, TypeOK, cache, ide, history
<1>1. TypeOK'
  BY DEF Bread, Place, Flag
<1>3. BusyInv'
  BY DEF Bread, BusyInv, Holds, Flag, Place
<1>4. DataInv'
  BY DEF Bread, DataInv, BusyInv, Holds, Flag, Place
<1>5. QueueInv'
  BY DEF Bread, QueueInv, BusyInv, Holds, InIde, Queued, Complete, Flag, Place
<1>. HIDE DEF TypeOK, CInv
<1>. QED BY <1>1, <1>2, <1>3, <1>4, <1>5 DEF CInv

\* bget locks a cached buffer that is free.
LEMMA BgetHitCInv ==
  ASSUME CInv, NEW p \in Process, BgetHit(p)
  PROVE  CInv'
<1>2. ListInv'
  BY DEF CInv, ListInv, BgetHit, Cached, cache
<1>. USE BufFacts DEF CInv, TypeOK, cache, ide, history
<1>1. TypeOK'
  BY DEF BgetHit, Cached, Place, Flag
<1>3. BusyInv'
  BY DEF BgetHit, Cached, BusyInv, Holds, Flag, Place
<1>4. DataInv'
  BY DEF BgetHit, Cached, DataInv, BusyInv, Holds, Flag, Place
<1>5. QueueInv'
  BY DEF BgetHit, Cached, QueueInv, BusyInv, Holds, InIde, Queued, Complete, Flag, Place
<1>. HIDE DEF TypeOK, CInv
<1>. QED BY <1>1, <1>2, <1>3, <1>4, <1>5 DEF CInv

\* bget sleeps on a cached buffer that is busy.
LEMMA BgetSleepCInv ==
  ASSUME CInv, NEW p \in Process, BgetSleep(p)
  PROVE  CInv'
<1>2. ListInv'
  BY DEF CInv, ListInv, BgetSleep, Cached, cache
<1>. USE BufFacts DEF CInv, TypeOK, cache, ide, history
<1>1. TypeOK'
  BY DEF BgetSleep, Cached, Place, Flag
<1>3. BusyInv'
  BY DEF BgetSleep, Cached, BusyInv, Holds, Flag, Place
<1>4. DataInv'
  BY DEF BgetSleep, Cached, DataInv, BusyInv, Holds, Flag, Place
<1>5. QueueInv'
  BY DEF BgetSleep, Cached, QueueInv, BusyInv, Holds, InIde, Queued, Complete, Flag, Place
<1>. HIDE DEF TypeOK, CInv
<1>. QED BY <1>1, <1>2, <1>3, <1>4, <1>5 DEF CInv

\* bget gives the least recently used clean and free buffer to another sector.
LEMMA BgetRecycleCInv ==
  ASSUME CInv, NEW p \in Process, BgetRecycle(p)
  PROVE  CInv'
<1>1. ListInv'
  BY DEF CInv, ListInv, BgetRecycle
<1>. USE BufFacts DEF CInv, TypeOK, ide, history
<1>2. PICK b \in Buf : /\ "BUSY" \notin flags[b] /\ "DIRTY" \notin flags[b]
                       /\ sector' = [sector EXCEPT ![b] = want[p]]
                       /\ flags' = [flags EXCEPT ![b] = {"BUSY"}]
                       /\ bp' = [bp EXCEPT ![p] = b]
  <2>1. PICK i \in Recyclable : /\ sector' = [sector EXCEPT ![lru[i]] = want[p]]
                                /\ flags' = [flags EXCEPT ![lru[i]] = {"BUSY"}]
                                /\ bp' = [bp EXCEPT ![p] = lru[i]]
    BY Zenon DEF BgetRecycle
  <2>2. lru[i] \in Buf /\ "BUSY" \notin flags[lru[i]] /\ "DIRTY" \notin flags[lru[i]]
    BY DEF Recyclable
  <2>. QED BY <2>1, <2>2, Zenon
<1>3. /\ at[p] = "bget" /\ want[p] \in Sector /\ \A c \in Buf : sector[c] # want[p]
      /\ at' = [at EXCEPT ![p] = "rw"]
      /\ UNCHANGED <<data, lru, disk, idequeue, active, want, latest, failed>>
  BY DEF BgetRecycle, Cached, BusyInv
<1>4. TypeOK'
  BY <1>2, <1>3 DEF Place, Flag
<1>5. BusyInv'
  BY <1>2, <1>3 DEF BusyInv, Holds
<1>6. DataInv'
  BY <1>2, <1>3 DEF DataInv, BusyInv, Holds
<1>7. QueueInv'
  <2>1. \A q \in Process : Holds(q) => q # p /\ bp'[q] = bp[q] /\ bp[q] \in Buf /\ bp[q] # b /\ at'[q] = at[q]
    BY <1>2, <1>3 DEF BusyInv, Holds
  <2>2. \A c \in Buf : c # b => flags'[c] = flags[c]
    BY <1>2
  <2>3. \A i \in DOMAIN idequeue : \E q \in Process : InIde(q) /\ Holds(q) /\ bp[q] = idequeue[i]
    BY DEF QueueInv, InIde, Holds
  <2>4. \A q \in Process : q # p => at'[q] = at[q]
    BY <1>3
  <2>5. at'[p] = "rw" /\ bp'[p] = b /\ ~Complete(b)'
    BY <1>2, <1>3 DEF Complete
  <2>6. idequeue' = idequeue /\ active' = active
    BY <1>3
  <2>7. \A i \in DOMAIN idequeue : \E q \in Process : InIde(q)' /\ bp'[q] = idequeue[i]
    BY <2>1, <2>3 DEF InIde
  <2>8. \A q \in Process : at'[q] = "iowait" => Queued(bp[q])'
    BY <2>1, <2>4, <2>5, <2>6 DEF QueueInv, Queued, Holds
  <2>9. \A q \in Process : at'[q] = "iowoken" => Queued(bp[q])' \/ Complete(bp[q])'
    <3>. SUFFICES ASSUME NEW q \in Process, at'[q] = "iowoken"
                  PROVE  Queued(bp[q])' \/ Complete(bp[q])'
      OBVIOUS
    <3>1. at[q] = "iowoken" /\ Holds(q)
      BY <2>4, <2>5 DEF Holds
    <3>2. bp'[q] = bp[q] /\ flags'[bp[q]] = flags[bp[q]]
      BY <2>1, <2>2, <3>1, Zenon
    <3>. QED BY <2>6, <3>1, <3>2 DEF QueueInv, Queued, Complete
  <2>10. \A q \in Process : at'[q] = "rw" => ~Complete(bp[q])'
    <3>. SUFFICES ASSUME NEW q \in Process, at'[q] = "rw", q # p
                  PROVE  ~Complete(bp[q])'
      BY <2>5
    <3>1. at[q] = "rw" /\ Holds(q)
      BY <2>4 DEF Holds
    <3>2. bp'[q] = bp[q] /\ flags'[bp[q]] = flags[bp[q]]
      BY <2>1, <2>2, <3>1, Zenon
    <3>. QED BY <3>1, <3>2 DEF QueueInv, Complete
  <2>11. \A i \in DOMAIN idequeue : ~Complete(idequeue[i])'
    <3>1. ASSUME NEW i \in DOMAIN idequeue PROVE flags'[idequeue[i]] = flags[idequeue[i]]
      <4>1. PICK q \in Process : Holds(q) /\ bp[q] = idequeue[i]
        BY <2>3
      <4>2. bp[q] \in Buf /\ bp[q] # b
        BY <2>1, <4>1
      <4>. QED BY <2>2, <4>1, <4>2, Zenon
    <3>. QED BY <2>6, <3>1 DEF QueueInv, Complete
  <2>. QED BY <2>6, <2>7, <2>8, <2>9, <2>10, <2>11 DEF QueueInv
<1>. HIDE DEF TypeOK, CInv
<1>. QED BY <1>1, <1>4, <1>5, <1>6, <1>7 DEF CInv

\* bget finds no buffer.
LEMMA BgetPanicCInv ==
  ASSUME CInv, NEW p \in Process, BgetPanic(p)
  PROVE  CInv'
<1>2. ListInv'
  BY DEF CInv, ListInv, BgetPanic, cache
<1>. USE BufFacts DEF CInv, TypeOK, cache, ide, history
<1>1. TypeOK'
  BY DEF BgetPanic, Place, Flag
<1>3. BusyInv'
  BY DEF BgetPanic, BusyInv, Holds, Flag, Place
<1>4. DataInv'
  BY DEF BgetPanic, DataInv, BusyInv, Holds, Flag, Place
<1>5. QueueInv'
  BY DEF BgetPanic, QueueInv, BusyInv, Holds, InIde, Queued, Complete, Flag, Place
<1>. HIDE DEF TypeOK, CInv
<1>. QED BY <1>1, <1>2, <1>3, <1>4, <1>5 DEF CInv

\* iderw queues the buffer of a process that has locked it.
LEMMA IderwCInv ==
  ASSUME CInv, NEW p \in Process, Iderw(p)
  PROVE  CInv'
<1>1. ListInv'
  BY DEF CInv, ListInv, Iderw, cache
<1>. USE BufFacts DEF CInv, TypeOK, cache, ide, history
<1>2. bp[p] \in Buf /\ idequeue \in Seq(Buf)
  BY DEF BusyInv, Holds, Iderw
<1>3. /\ idequeue' \in Seq(Buf) /\ idequeue' # <<>>
      /\ DOMAIN idequeue' = DOMAIN idequeue \cup {Len(idequeue) + 1}
      /\ Len(idequeue) + 1 \notin DOMAIN idequeue
      /\ idequeue'[Len(idequeue) + 1] = bp[p]
      /\ \A i \in DOMAIN idequeue : idequeue'[i] = idequeue[i]
      /\ Head(idequeue') = IF idequeue = <<>> THEN bp[p] ELSE Head(idequeue)
  BY <1>2, AppendFacts DEF Iderw
<1>4. TypeOK'
  BY <1>2, <1>3 DEF Iderw, Place
<1>5. BusyInv'
  BY DEF Iderw, BusyInv, Holds, Place
<1>6. DataInv'
  BY DEF Iderw, DataInv, BusyInv, Holds, Place
<1>7. QueueInv'
  <2>1. active' = IF idequeue' = <<>> THEN NoBuf ELSE Head(idequeue')
    BY <1>3 DEF Iderw, QueueInv
  <2>2. \A i \in DOMAIN idequeue : idequeue[i] # bp[p]
    <3>1. \A q \in Process : InIde(q) => bp[q] # bp[p]
      BY DEF Iderw, BusyInv, Holds, InIde
    <3>2. \A i \in DOMAIN idequeue : \E q \in Process : InIde(q) /\ bp[q] = idequeue[i]
      BY DEF QueueInv
    <3>. HIDE DEF TypeOK, CInv
    <3>. QED BY <3>1, <3>2
  <2>3. \A i \in DOMAIN idequeue' : \E q \in Process : InIde(q)' /\ bp'[q] = idequeue'[i]
    <3>1. \A q \in Process : InIde(q) => InIde(q)'
      BY DEF Iderw, InIde
    <3>2. InIde(p)' /\ bp' = bp
      BY DEF Iderw, InIde
    <3>. QED BY <1>3, <3>1, <3>2 DEF QueueInv
  <2>4. \A i, j \in DOMAIN idequeue' : idequeue'[i] = idequeue'[j] => i = j
    BY <1>3, <2>2 DEF Iderw, QueueInv
  <2>5. \A b : Queued(b)' <=> Queued(b) \/ b = bp[p]
    BY <1>3 DEF Queued
  <2>6. \A q \in Process : at'[q] = "iowait" => Queued(bp[q])'
    BY <2>5 DEF Iderw, QueueInv
  <2>7. \A q \in Process : at'[q] = "iowoken" => Queued(bp[q])' \/ Complete(bp[q])'
    BY <2>5 DEF Iderw, QueueInv, Complete
  <2>8. \A q \in Process : at'[q] = "rw" => ~Complete(bp[q])'
    BY DEF Iderw, QueueInv, Complete
  <2>9. \A i \in DOMAIN idequeue' : ~Complete(idequeue[i])'
    BY <1>3 DEF Iderw, QueueInv, Complete
  <2>10. bp' = bp
    BY DEF Iderw
  <2>. HIDE DEF TypeOK, CInv
  <2>. QED BY <2>1, <2>3, <2>4, <2>6, <2>7, <2>8, <2>9, <2>10 DEF QueueInv
<1>. HIDE DEF TypeOK, CInv
<1>. QED BY <1>1, <1>4, <1>5, <1>6, <1>7 DEF CInv

\* A process woken in iderw tests the flags.
LEMMA IderwTestCInv ==
  ASSUME CInv, NEW p \in Process, IderwTest(p)
  PROVE  CInv'
<1>2. ListInv'
  BY DEF CInv, ListInv, IderwTest, cache
<1>. USE BufFacts DEF CInv, TypeOK, cache, ide, history
<1>1. TypeOK'
  BY DEF IderwTest, Place, Flag
<1>3. BusyInv'
  BY DEF IderwTest, BusyInv, Holds, Flag, Place
<1>4. DataInv'
  BY DEF IderwTest, DataInv, BusyInv, Holds, Flag, Place
<1>5. QueueInv'
  BY DEF IderwTest, QueueInv, BusyInv, Holds, InIde, Queued, Complete, Flag, Place
<1>. HIDE DEF TypeOK, CInv
<1>. QED BY <1>1, <1>2, <1>3, <1>4, <1>5 DEF CInv

\* ideintr completes the request at the head of the queue.
LEMMA IdeintrCInv ==
  ASSUME CInv, NEW fail \in BOOLEAN, Ideintr(fail)
  PROVE  CInv'
<1>1. ListInv'
  BY DEF CInv, ListInv, Ideintr
<1>. DEFINE b == Head(idequeue)
<1>. USE BufFacts DEF CInv, TypeOK
<1>2. idequeue \in Seq(Buf) /\ idequeue # <<>>
  BY DEF Ideintr
<1>3. /\ b \in Buf /\ idequeue' \in Seq(Buf)
      /\ 1 \in DOMAIN idequeue /\ idequeue[1] = b
      /\ \A i \in DOMAIN idequeue' :
           i \in Nat /\ i > 0 /\ i + 1 \in DOMAIN idequeue /\ idequeue'[i] = idequeue[i + 1]
      /\ \A i \in DOMAIN idequeue : i # 1 => i - 1 \in DOMAIN idequeue' /\ idequeue'[i - 1] = idequeue[i]
      /\ idequeue' # <<>> => Head(idequeue') \in Buf
  BY <1>2, TailFacts DEF Ideintr
<1>4. PICK h \in Process : InIde(h) /\ bp[h] = b
  BY <1>3 DEF QueueInv
<1>5. sector[b] = want[h] /\ want[h] \in Sector /\ "BUSY" \in flags[b]
  BY <1>4 DEF BusyInv, Holds, InIde
<1>6. /\ flags' = [flags EXCEPT ![b] = (@ \cup {"VALID"}) \ {"DIRTY"}]
      /\ active' = IF idequeue' = <<>> THEN NoBuf ELSE Head(idequeue')
      /\ sector' = sector /\ lru' = lru /\ want' = want /\ bp' = bp /\ latest' = latest
  BY DEF Ideintr
<1>7. \/ /\ "DIRTY" \in flags[b] /\ ~fail
         /\ disk' = [disk EXCEPT ![sector[b]] = data[b]] /\ data' = data
      \/ /\ "DIRTY" \notin flags[b]
         /\ data' = IF fail THEN data ELSE [data EXCEPT ![b] = disk[sector[b]]]
         /\ disk' = disk
  BY DEF Ideintr
<1>8. failed' = IF fail THEN failed \cup {b} ELSE failed \ {b}
  BY DEF Ideintr
<1>9. /\ at' \in [Process -> Place]
      /\ \A q \in Process : at'[q] = IF bp[q] = b /\ at[q] = "bwait" THEN "bget"
                                    ELSE IF bp[q] = b /\ at[q] = "iowait" THEN "iowoken"
                                    ELSE at[q]
  BY DEF Ideintr, wakeup, Place
<1>. HIDE DEF b
<1>10. TypeOK'
  <2>1. data' \in [Buf -> Val] /\ disk' \in [Sector -> Val]
    BY <1>3, <1>5, <1>7
  <2>2. flags' \in [Buf -> SUBSET Flag]
    BY <1>3, <1>6 DEF Flag
  <2>. QED BY <1>3, <1>6, <1>9, <2>1, <2>2
<1>11. BusyInv'
  <2>1. \A c \in Buf : "BUSY" \in flags'[c] <=> "BUSY" \in flags[c]
    BY <1>3, <1>6
  <2>2. \A q \in Process : /\ Holds(q)' <=> Holds(q)
                           /\ at'[q] = "bwait" => at[q] = "bwait"
                           /\ at'[q] # "idle" => at[q] # "idle"
    BY <1>9 DEF Holds
  <2>. HIDE DEF TypeOK
  <2>. QED BY <1>6, <2>1, <2>2 DEF BusyInv
<1>12. DataInv'
  <2>1. \A c \in Buf : "DIRTY" \in flags'[c] => "DIRTY" \in flags[c] /\ c # b
    BY <1>3, <1>6
  <2>2. \A c \in Buf : c # b => flags'[c] = flags[c] /\ data'[c] = data[c] /\ (c \in failed' <=> c \in failed)
    BY <1>3, <1>6, <1>7, <1>8
  <2>3. \A c \in Buf : "DIRTY" \in flags'[c] => "VALID" \in flags'[c] /\ c \notin failed'
    BY <2>1, <2>2 DEF DataInv
  <2>4. b \notin failed' => data'[b] = latest[sector[b]]
    BY <1>3, <1>5, <1>7, <1>8 DEF DataInv
  <2>5. \A s \in Sector :
          disk'[s] = latest[s] \/ \E c \in Buf : sector[c] = s /\ "DIRTY" \in flags'[c]
    <3>. SUFFICES ASSUME NEW s \in Sector,
                         \A d \in Buf : sector[d] = s => "DIRTY" \notin flags'[d]
                  PROVE  disk'[s] = latest[s]
      BY <1>3
    <3>1. CASE s = sector[b]
      <4>1. CASE "DIRTY" \in flags[b]
        BY <3>1, <4>1, <1>3, <1>5, <1>7 DEF DataInv
      <4>2. CASE "DIRTY" \notin flags[b]
        <5>1. disk'[s] = disk[s]
          BY <4>2, <1>7
        <5>2. \A d \in Buf : sector[d] = s => "DIRTY" \notin flags[d]
          BY <3>1, <4>2, <1>3, <1>5, OneBuffer
        <5>. QED BY <5>1, <5>2 DEF DataInv
      <4>. QED BY <4>1, <4>2
    <3>2. CASE s # sector[b]
      <4>1. disk'[s] = disk[s]
        BY <3>2, <1>5, <1>7
      <4>2. \A d \in Buf : sector[d] = s => "DIRTY" \notin flags[d]
        BY <3>2, <2>2
      <4>. QED BY <4>1, <4>2 DEF DataInv
    <3>. QED BY <3>1, <3>2
  <2>6. \A q \in Process : at'[q] = "held" => "VALID" \in flags'[bp[q]]
    BY <1>3, <1>6, <1>9 DEF DataInv, BusyInv, Holds
  <2>7. \A c \in Buf : sector[c] = NoSector => flags'[c] = {}
    BY <1>5, <2>2, Zenon DEF DataInv
  <2>. QED BY <1>6, <2>2, <2>3, <2>4, <2>5, <2>6, <2>7 DEF DataInv
<1>13. QueueInv'
  <2>1. \A i \in DOMAIN idequeue' : idequeue'[i] # b
    BY <1>3 DEF QueueInv
  <2>2. \A c : c # b => (Queued(c)' <=> Queued(c))
    BY <1>3 DEF Queued
  <2>3. \A i \in DOMAIN idequeue' : \E q \in Process : InIde(q)' /\ bp'[q] = idequeue'[i]
    <3>1. \A q \in Process : InIde(q) => InIde(q)'
      BY <1>9 DEF InIde
    <3>. QED BY <1>3, <1>6, <3>1 DEF QueueInv
  <2>4. \A i, j \in DOMAIN idequeue' : idequeue'[i] = idequeue'[j] => i = j
    BY <1>3 DEF QueueInv
  <2>5. \A q \in Process : at'[q] = "iowait" => Queued(bp[q])'
    <3>1. \A q \in Process : at'[q] = "iowait" => at[q] = "iowait" /\ bp[q] # b
      BY <1>9
    <3>2. bp' = bp
      BY <1>6
    <3>. HIDE DEF TypeOK
    <3>. QED BY <2>2, <3>1, <3>2 DEF QueueInv
  <2>6. \A q \in Process : Holds(q) => bp[q] \in Buf
    BY DEF BusyInv
  <2>7. ASSUME NEW q \in Process, at'[q] = "iowoken"
        PROVE  Queued(bp[q])' \/ Complete(bp[q])'
    <3>1. CASE bp[q] = b
      BY <3>1, <1>3, <1>6 DEF Complete
    <3>2. CASE bp[q] # b
      BY <3>2, <1>6, <1>9, <2>2, <2>6, <2>7 DEF QueueInv, Holds, Complete
    <3>. QED BY <3>1, <3>2
  <2>8. ASSUME NEW q \in Process, at'[q] = "rw"
        PROVE  ~Complete(bp[q])'
    <3>1. at[q] = "rw" /\ bp[q] # b
      BY <1>4, <1>9, <2>8 DEF BusyInv, Holds, InIde
    <3>. QED BY <3>1, <1>6, <2>6 DEF QueueInv, Holds, Complete
  <2>9. \A i \in DOMAIN idequeue' : ~Complete(idequeue[i])'
    BY <1>3, <1>6, <2>1 DEF QueueInv, Complete
  <2>10. bp' = bp /\ active' = IF idequeue' = <<>> THEN NoBuf ELSE Head(idequeue')
    BY <1>6
  <2>. HIDE DEF TypeOK, CInv
  <2>. QED BY <2>10, <2>3, <2>4, <2>5, <2>7, <2>8, <2>9 DEF QueueInv
<1>. HIDE DEF TypeOK, CInv
<1>. QED BY <1>1, <1>10, <1>11, <1>12, <1>13 DEF CInv

\* What bwrite and log_write have in common.
LEMMA StoreFacts ==
  ASSUME CInv, NEW p \in Process, NEW v \in Val, Bwrite(p, v) \/ Pin(p, v)
  PROVE  /\ at[p] = "held" /\ bp[p] \in Buf /\ want[p] \in Sector /\ sector[bp[p]] = want[p]
         /\ "BUSY" \in flags[bp[p]] /\ "VALID" \in flags[bp[p]]
         /\ latest' = [latest EXCEPT ![want[p]] = v]
         /\ failed' = failed \ {bp[p]}
         /\ data' = [data EXCEPT ![bp[p]] = v]
         /\ flags' = [flags EXCEPT ![bp[p]] = @ \cup {"DIRTY"}]
         /\ UNCHANGED <<sector, lru, disk, idequeue, active, want, bp>>
<1>1. /\ at[p] = "held"
      /\ latest' = [latest EXCEPT ![sector[bp[p]]] = v]
      /\ failed' = failed \ {bp[p]}
      /\ data' = [data EXCEPT ![bp[p]] = v]
      /\ flags' = [flags EXCEPT ![bp[p]] = @ \cup {"DIRTY"}]
      /\ UNCHANGED <<sector, lru, disk, idequeue, active, want, bp>>
  BY DEF Bwrite, Pin, ide
<1>2. /\ bp[p] \in Buf /\ want[p] \in Sector /\ sector[bp[p]] = want[p]
      /\ "BUSY" \in flags[bp[p]] /\ "VALID" \in flags[bp[p]]
  BY <1>1 DEF CInv, TypeOK, BusyInv, DataInv, Holds
<1>. QED BY <1>1, <1>2, Zenon

\* A store leaves the buffer, marked dirty, as the only copy of the sector that counts.
LEMMA StoreDataInv ==
  ASSUME CInv, NEW p \in Process, NEW v \in Val, Bwrite(p, v) \/ Pin(p, v),
         \A q \in Process : at'[q] = "held" => at[q] = "held"
  PROVE  DataInv'
<1>. USE BufFacts DEF CInv, TypeOK
<1>1. /\ at[p] = "held" /\ bp[p] \in Buf /\ want[p] \in Sector /\ sector[bp[p]] = want[p]
      /\ "VALID" \in flags[bp[p]]
      /\ latest' = [latest EXCEPT ![want[p]] = v]
      /\ failed' = failed \ {bp[p]}
      /\ data' = [data EXCEPT ![bp[p]] = v]
      /\ flags' = [flags EXCEPT ![bp[p]] = @ \cup {"DIRTY"}]
      /\ sector' = sector /\ disk' = disk /\ bp' = bp
  BY StoreFacts
<1>2. \A b \in Buf : b # bp[p] =>
        flags'[b] = flags[b] /\ data'[b] = data[b] /\ sector[b] # want[p] /\ (b \in failed' <=> b \in failed)
  <2>1. \A b \in Buf : b # bp[p] => sector[b] # want[p]
    BY <1>1, OneBuffer, Zenon
  <2>. QED BY <1>1, <2>1
<1>3. "DIRTY" \in flags'[bp[p]] /\ "VALID" \in flags'[bp[p]] /\ bp[p] \notin failed'
  BY <1>1
<1>4. \A b \in Buf : sector[b] = NoSector => flags'[b] = {}
  BY <1>1, <1>2 DEF DataInv
<1>5. \A b \in Buf : "DIRTY" \in flags'[b] => "VALID" \in flags'[b] /\ b \notin failed'
  BY <1>2, <1>3 DEF DataInv
<1>6. ASSUME NEW b \in Buf, "VALID" \in flags'[b], b \notin failed'
      PROVE  data'[b] = latest'[sector[b]]
  <2>1. CASE b = bp[p]
    BY <2>1, <1>1
  <2>2. CASE b # bp[p]
    <3>1. data[b] = latest[sector[b]] /\ sector[b] # NoSector
      BY <2>2, <1>2, <1>6 DEF DataInv
    <3>. QED BY <2>2, <3>1, <1>1, <1>2
  <2>. QED BY <2>1, <2>2
<1>7. ASSUME NEW s \in Sector
      PROVE  disk[s] = latest'[s] \/ \E b \in Buf : sector[b] = s /\ "DIRTY" \in flags'[b]
  <2>1. CASE s = want[p]
    BY <2>1, <1>1, <1>3
  <2>2. CASE s # want[p]
    BY <2>2, <1>1, <1>2 DEF DataInv
  <2>. QED BY <2>1, <2>2
<1>8. \A q \in Process : at'[q] = "held" => "VALID" \in flags'[bp[q]]
  BY <1>1 DEF DataInv, BusyInv, Holds
<1>9. \A b, c \in Buf : sector[b] = sector[c] /\ sector[b] # NoSector => b = c
  BY DEF DataInv
<1>. HIDE DEF CInv, TypeOK
<1>. QED BY <1>1, <1>4, <1>5, <1>6, <1>7, <1>8, <1>9 DEF DataInv

\* bwrite stores and goes on to iderw.
LEMMA BwriteCInv ==
  ASSUME CInv, NEW p \in Process, NEW v \in Val, Bwrite(p, v)
  PROVE  CInv'
<1>1. /\ at[p] = "held" /\ bp[p] \in Buf /\ want[p] \in Sector
      /\ "BUSY" \in flags[bp[p]]
      /\ latest' = [latest EXCEPT ![want[p]] = v]
      /\ data' = [data EXCEPT ![bp[p]] = v]
      /\ flags' = [flags EXCEPT ![bp[p]] = @ \cup {"DIRTY"}]
      /\ UNCHANGED <<sector, lru, disk, idequeue, active, want, bp>>
  BY StoreFacts, Zenon
<1>2. at' = [at EXCEPT ![p] = "rw"]
  BY DEF Bwrite
<1>3. ListInv'
  BY <1>1 DEF CInv, ListInv
<1>. USE BufFacts DEF CInv, TypeOK
<1>4. DataInv'
  BY <1>2, StoreDataInv
<1>5. TypeOK'
  <2>1. flags' \in [Buf -> SUBSET Flag]
    BY <1>1, Zenon DEF Flag
  <2>. QED BY <1>1, <1>2, <2>1 DEF Place
<1>6. \A b \in Buf : "BUSY" \in flags'[b] <=> "BUSY" \in flags[b]
  BY <1>1
<1>7. BusyInv'
  BY <1>1, <1>2, <1>6 DEF BusyInv, Holds
<1>8. \A i \in DOMAIN idequeue : idequeue[i] # bp[p] /\ idequeue[i] \in Buf
  BY <1>1 DEF QueueInv, BusyInv, InIde, Holds
<1>9. QueueInv'
  BY <1>1, <1>2, <1>8 DEF QueueInv, BusyInv, Holds, InIde, Queued, Complete
<1>. HIDE DEF TypeOK, CInv
<1>. QED BY <1>3, <1>4, <1>5, <1>7, <1>9 DEF CInv

\* log_write stores and keeps the buffer.
LEMMA PinCInv ==
  ASSUME CInv, NEW p \in Process, NEW v \in Val, Pin(p, v)
  PROVE  CInv'
<1>1. /\ at[p] = "held" /\ bp[p] \in Buf /\ want[p] \in Sector
      /\ "BUSY" \in flags[bp[p]]
      /\ latest' = [latest EXCEPT ![want[p]] = v]
      /\ data' = [data EXCEPT ![bp[p]] = v]
      /\ flags' = [flags EXCEPT ![bp[p]] = @ \cup {"DIRTY"}]
      /\ UNCHANGED <<sector, lru, disk, idequeue, active, want, bp>>
  BY StoreFacts, Zenon
<1>2. at' = at
  BY DEF Pin
<1>3. ListInv'
  BY <1>1 DEF CInv, ListInv
<1>. USE BufFacts DEF CInv, TypeOK
<1>4. DataInv'
  BY <1>2, StoreDataInv
<1>5. TypeOK'
  <2>1. flags' \in [Buf -> SUBSET Flag]
    BY <1>1, Zenon DEF Flag
  <2>. QED BY <1>1, <1>2, <2>1 DEF Place
<1>6. \A b \in Buf : "BUSY" \in flags'[b] <=> "BUSY" \in flags[b]
  BY <1>1
<1>7. BusyInv'
  BY <1>1, <1>2, <1>6 DEF BusyInv, Holds
<1>8. \A i \in DOMAIN idequeue : idequeue[i] # bp[p] /\ idequeue[i] \in Buf
  BY <1>1 DEF QueueInv, BusyInv, InIde, Holds
<1>9. QueueInv'
  BY <1>1, <1>2, <1>8 DEF QueueInv, BusyInv, Holds, InIde, Queued, Complete
<1>. HIDE DEF TypeOK, CInv
<1>. QED BY <1>3, <1>4, <1>5, <1>7, <1>9 DEF CInv

\* Moving a buffer to the front keeps every buffer in the list.
LEMMA MoveToFrontFacts ==
  ASSUME lru \in [Buf -> Buf], ListInv, NEW b \in Buf, lru' = MoveToFront(b)
  PROVE  lru' \in [Buf -> Buf] /\ ListInv'
<1>. DEFINE k == CHOOSE i \in Buf : lru[i] = b
<1>1. k \in Buf /\ lru[k] = b
  BY DEF ListInv
<1>2. lru' = [i \in Buf |-> IF i = 1 THEN b ELSE IF i <= k THEN lru[i - 1] ELSE lru[i]]
  BY DEF MoveToFront
<1>. HIDE DEF k
<1>3. \A i \in Buf : i # 1 => i - 1 \in Buf
  BY BcacheAssumption DEF Buf
<1>4. lru' \in [Buf -> Buf]
  BY <1>2, <1>3
<1>5. ASSUME NEW c \in Buf PROVE \E i \in Buf : lru'[i] = c
  <2>1. PICK j \in Buf : lru[j] = c
    BY DEF ListInv
  <2>2. CASE c = b
    BY <1>2, <2>2, BufFacts
  <2>3. CASE c # b /\ j > k
    BY <1>1, <1>2, <2>1, <2>3, BcacheAssumption DEF Buf
  <2>4. CASE c # b /\ j < k
    <3>1. j + 1 \in Buf /\ j + 1 # 1 /\ j + 1 <= k /\ (j + 1) - 1 = j
      BY <1>1, <2>4, BcacheAssumption DEF Buf
    <3>. QED BY <1>2, <2>1, <3>1
  <2>5. j = k => c = b
    BY <1>1, <2>1
  <2>6. j > k \/ j < k \/ j = k
    BY <1>1, BufFacts
  <2>. QED BY <2>2, <2>3, <2>4, <2>5, <2>6
<1>. QED BY <1>4, <1>5 DEF ListInv

\* brelse unlocks, moves the buffer to the front and wakes bget's sleepers.
LEMMA BrelseCInv ==
  ASSUME CInv, NEW p \in Process, Brelse(p)
  PROVE  CInv'
<1>. USE BufFacts DEF CInv, TypeOK
<1>. DEFINE b == bp[p]
<1>1. /\ at[p] = "held" /\ b \in Buf
      /\ lru' = MoveToFront(b)
      /\ flags' = [flags EXCEPT ![b] = @ \ {"BUSY"}]
      /\ want' = [want EXCEPT ![p] = NoSector]
      /\ bp' = [bp EXCEPT ![p] = NoBuf]
      /\ UNCHANGED <<sector, data, disk, idequeue, active, latest, failed>>
  BY DEF Brelse, BusyInv, Holds, ide, history
<1>2. /\ at' \in [Process -> Place]
      /\ at'[p] = "idle"
      /\ \A q \in Process : q # p => at'[q] = IF bp[q] = b /\ at[q] = "bwait" THEN "bget"
                                            ELSE IF bp[q] = b /\ at[q] = "iowait" THEN "iowoken"
                                            ELSE at[q]
  BY DEF Brelse, wakeup, Place
<1>3. \A q \in Process : q # p => /\ Holds(q)' <=> Holds(q)
                                  /\ Holds(q) => at'[q] = at[q]
                                  /\ Holds(q) => bp[q] # b
                                  /\ at'[q] = "bwait" => at[q] = "bwait" /\ bp[q] # b
                                  /\ at'[q] # "idle" => at[q] # "idle"
  BY <1>1, <1>2 DEF BusyInv, Holds
<1>. HIDE DEF b
<1>4. ListInv' /\ lru' \in [Buf -> Buf]
  BY <1>1, MoveToFrontFacts
<1>5. TypeOK'
  <2>1. flags' \in [Buf -> SUBSET Flag]
    BY <1>1 DEF Flag
  <2>2. want' \in [Process -> Sector \cup {NoSector}] /\ bp' \in [Process -> Buf \cup {NoBuf}]
    BY <1>1
  <2>. QED BY <1>1, <1>2, <1>4, <2>1, <2>2
<1>6. BusyInv'
  <2>1. \A c \in Buf : "BUSY" \in flags'[c] <=> "BUSY" \in flags[c] /\ c # b
    BY <1>1
  <2>2. ~Holds(p)' /\ at'[p] # "bwait"
    BY <1>2 DEF Holds
  <2>3. \A q \in Process : q # p => bp'[q] = bp[q] /\ want'[q] = want[q]
    BY <1>1
  <2>4. b = bp[p]
    BY DEF b
  <2>5. sector' = sector /\ at'[p] = "idle"
    BY <1>1, <1>2
  <2>6. \A q \in Process : at'[q] # "idle" => want'[q] \in Sector
    BY <1>3, <1>5, <2>3, <2>5 DEF BusyInv, Holds
  <2>7. \A q \in Process : Holds(q)' \/ at'[q] = "bwait" => bp'[q] \in Buf /\ "BUSY" \in flags'[bp'[q]]
    <3>. SUFFICES ASSUME NEW q \in Process, Holds(q)' \/ at'[q] = "bwait"
                  PROVE  bp'[q] \in Buf /\ "BUSY" \in flags'[bp'[q]]
      OBVIOUS
    <3>1. q # p /\ (Holds(q) \/ at[q] = "bwait") /\ bp[q] # b
      BY <1>3, <2>2, Zenon DEF Holds
    <3>2. bp[q] \in Buf /\ "BUSY" \in flags[bp[q]]
      BY <3>1 DEF BusyInv
    <3>. QED BY <2>1, <2>3, <3>1, <3>2, Zenon
  <2>8. \A q \in Process : Holds(q)' => sector'[bp'[q]] = want'[q]
    BY <1>3, <1>5, <2>2, <2>3, <2>5 DEF BusyInv, Holds
  <2>9. \A q, r \in Process : Holds(q)' /\ Holds(r)' /\ bp'[q] = bp'[r] => q = r
    BY <1>3, <1>5, <2>2, <2>3 DEF BusyInv, Holds
  <2>10. \A c \in Buf : "BUSY" \in flags'[c] => \E q \in Process : Holds(q)' /\ bp'[q] = c
    BY <1>3, <1>5, <2>1, <2>3, <2>4 DEF BusyInv, Holds
  <2>. HIDE DEF TypeOK, CInv
  <2>. QED BY <2>6, <2>7, <2>8, <2>9, <2>10, Zenon DEF BusyInv
<1>7. DataInv'
  <2>1. \A c \in Buf : /\ "VALID" \in flags'[c] <=> "VALID" \in flags[c]
                       /\ "DIRTY" \in flags'[c] <=> "DIRTY" \in flags[c]
                       /\ flags[c] = {} => flags'[c] = {}
    BY <1>1
  <2>2. \A q \in Process : at'[q] = "held" => at[q] = "held" /\ bp'[q] = bp[q] /\ bp[q] \in Buf
    BY <1>1, <1>2, <1>3 DEF Holds, BusyInv
  <2>. QED BY <1>1, <2>1, <2>2 DEF DataInv
<1>8. QueueInv'
  <2>1. \A c \in Buf : "VALID" \in flags'[c] /\ "DIRTY" \notin flags'[c] <=> "VALID" \in flags[c] /\ "DIRTY" \notin flags[c]
    BY <1>1
  <2>2. \A q \in Process : Holds(q)' => q # p /\ at'[q] = at[q] /\ bp'[q] = bp[q] /\ bp[q] \in Buf
    <3>1. ~Holds(p)'
      BY <1>2 DEF Holds
    <3>2. \A q \in Process : q # p => bp'[q] = bp[q]
      BY <1>1
    <3>. QED BY <1>3, <1>5, <3>1, <3>2 DEF BusyInv, Holds
  <2>3. \A q \in Process : InIde(q) => q # p /\ Holds(q) /\ InIde(q)' /\ bp'[q] = bp[q]
    BY <1>1, <1>2, <1>3 DEF Holds, InIde
  <2>4. \A i \in DOMAIN idequeue : idequeue[i] \in Buf
    OBVIOUS
  <2>5. idequeue' = idequeue /\ active' = active
    BY <1>1
  <2>6. \A i \in DOMAIN idequeue : \E q \in Process : InIde(q)' /\ bp'[q] = idequeue[i]
    BY <2>3 DEF QueueInv
  <2>7. \A q \in Process : at'[q] = "iowait" => Queued(bp[q])'
    BY <2>2, <2>5 DEF QueueInv, Queued, Holds
  <2>8. \A q \in Process : at'[q] = "iowoken" => Queued(bp[q])' \/ Complete(bp[q])'
    <3>. SUFFICES ASSUME NEW q \in Process, at'[q] = "iowoken"
                  PROVE  Queued(bp[q])' \/ Complete(bp[q])'
      OBVIOUS
    <3>1. at[q] = "iowoken" /\ bp'[q] = bp[q] /\ bp[q] \in Buf
      BY <2>2 DEF Holds
    <3>2. Complete(bp[q]) => Complete(bp[q])'
      BY <2>1, <3>1, Zenon DEF Complete
    <3>. QED BY <2>5, <3>1, <3>2 DEF QueueInv, Queued
  <2>9. \A q \in Process : at'[q] = "rw" => ~Complete(bp[q])'
    <3>. SUFFICES ASSUME NEW q \in Process, at'[q] = "rw"
                  PROVE  ~Complete(bp[q])'
      OBVIOUS
    <3>1. at[q] = "rw" /\ bp'[q] = bp[q] /\ bp[q] \in Buf
      BY <2>2 DEF Holds
    <3>2. Complete(bp[q])' => Complete(bp[q])
      BY <2>1, <3>1, Zenon DEF Complete
    <3>. QED BY <3>1, <3>2 DEF QueueInv
  <2>10. \A i \in DOMAIN idequeue : ~Complete(idequeue[i])'
    BY <2>1, <2>4, <2>5, Zenon DEF QueueInv, Complete
  <2>. HIDE DEF TypeOK, CInv
  <2>11. QueueInv => QueueInv'
    BY <2>5, <2>6, <2>7, <2>8, <2>9, <2>10 DEF QueueInv
  <2>. QED BY <2>11 DEF CInv
<1>. HIDE DEF TypeOK, CInv
<1>. QED BY <1>4, <1>5, <1>6, <1>7, <1>8 DEF CInv

\* kill() wakes a sleeper early.
LEMMA KillWakesCInv ==
  ASSUME CInv, NEW p \in Process, KillWakes(p)
  PROVE  CInv'
<1>2. ListInv'
  BY DEF CInv, ListInv, KillWakes, cache
<1>. USE BufFacts DEF CInv, TypeOK, cache, ide, history
<1>1. TypeOK'
  BY DEF KillWakes, Place, Flag
<1>3. BusyInv'
  BY DEF KillWakes, BusyInv, Holds, Flag, Place
<1>4. DataInv'
  BY DEF KillWakes, DataInv, BusyInv, Holds, Flag, Place
<1>5. QueueInv'
  BY DEF KillWakes, QueueInv, BusyInv, Holds, InIde, Queued, Complete, Flag, Place
<1>. HIDE DEF TypeOK, CInv
<1>. QED BY <1>1, <1>2, <1>3, <1>4, <1>5 DEF CInv

\* Every step of the cache preserves the invariant.
LEMMA InvStep == CInv /\ [Next]_vars => CInv'
<1>. SUFFICES ASSUME CInv, [Next]_vars PROVE CInv'
  OBVIOUS
<1>1. CASE UNCHANGED vars
  <2>1. TypeOK' /\ ListInv'
    BY <1>1 DEF vars, history, CInv, TypeOK, ListInv
  <2>2. BusyInv'
    BY <1>1 DEF vars, CInv, BusyInv, Holds
  <2>3. DataInv'
    BY <1>1 DEF vars, history, CInv, DataInv
  <2>4. QueueInv'
    BY <1>1 DEF vars, CInv, QueueInv, InIde, Queued, Complete
  <2>. QED BY <2>1, <2>2, <2>3, <2>4 DEF CInv
<1>2. CASE Next
  <2>1. CASE Halted
    BY <1>1, <2>1 DEF Halted
  <2>2. ASSUME NEW p \in Process, Work(p) \/ BgetPanic(p) \/ KillWakes(p) PROVE CInv'
    BY <2>2, BgetHitCInv, BgetSleepCInv, BgetRecycleCInv, IderwCInv, IderwTestCInv, BrelseCInv,
       BgetPanicCInv, KillWakesCInv DEF Work
  <2>3. ASSUME NEW p \in Process, NEW s \in Sector, Bread(p, s) PROVE CInv'
    BY <2>3, BreadCInv
  <2>4. ASSUME NEW p \in Process, NEW v \in Val, Bwrite(p, v) \/ Pin(p, v) PROVE CInv'
    BY <2>4, BwriteCInv, PinCInv
  <2>5. ASSUME NEW fail \in BOOLEAN, Ideintr(fail) PROVE CInv'
    BY <2>5, IdeintrCInv
  <2>. QED BY <1>2, <2>1, <2>2, <2>3, <2>4, <2>5 DEF Next
<1>. QED BY <1>1, <1>2

\* The inductive invariant of the cache.
THEOREM BcacheInv == Spec => []CInv
<1>1. Init => CInv
  BY InitCInv
<1>2. CInv /\ [Next]_vars => CInv'
  BY InvStep
<1>. QED BY <1>1, <1>2, PTL DEF Spec

\* bio.c:3-6: a process that has locked a buffer sees what was last stored in
\* its sector, for every number of processes, sectors and buffers.
THEOREM BcacheReadsLatest == Spec => []ReadsLatest
<1>1. CInv => ReadsLatest
  BY DEF CInv, TypeOK, BusyInv, DataInv, Holds, ReadsLatest
<1>. QED BY <1>1, BcacheInv, PTL

\* ide.c:96 and the loops of bget and iderw: the queue always has an active
\* request and no wakeup is missed.
THEOREM BcacheSleepersWait == Spec => []SleepersWait
<1>1. CInv => SleepersWait
  <2>1. CInv => \A p \in Process : at[p] = "bwait" => "BUSY" \in flags[bp[p]]
    BY DEF CInv, BusyInv
  <2>2. CInv => /\ active = IF idequeue = <<>> THEN NoBuf ELSE Head(idequeue)
                /\ \A i \in DOMAIN idequeue : \E p \in Process : at[p] \in {"iowait", "iowoken"} /\ bp[p] = idequeue[i]
                /\ \A p \in Process : at[p] = "iowait" => \E i \in DOMAIN idequeue : idequeue[i] = bp[p]
    BY DEF CInv, QueueInv, InIde, Queued
  <2>. QED BY <2>1, <2>2 DEF SleepersWait
<1>. QED BY <1>1, BcacheInv, PTL

\* B_BUSY is a lock: the buffer of a process between bget and brelse is
\* nobody else's, and a sector never has two buffers (bio.c:9, 61-88).
Exclusive ==
  /\ \A p, q \in Process : Holds(p) /\ Holds(q) /\ want[p] = want[q] => p = q
  /\ \A b \in Buf : "BUSY" \in flags[b] <=> \E p \in Process : Holds(p) /\ bp[p] = b

\* Two processes never hold the same sector, and no buffer stays B_BUSY without a holder.
THEOREM BcacheExclusive == Spec => []Exclusive
<1>1. CInv => Exclusive
  <2>. SUFFICES ASSUME CInv PROVE Exclusive
    OBVIOUS
  <2>. USE BufFacts DEF CInv, TypeOK
  <2>1. ASSUME NEW p \in Process, NEW q \in Process, Holds(p), Holds(q), want[p] = want[q]
        PROVE  p = q
    <3>1. /\ bp[p] \in Buf /\ sector[bp[p]] = want[p] /\ want[p] \in Sector
          /\ bp[q] \in Buf /\ sector[bp[q]] = want[q]
      BY <2>1 DEF BusyInv, Holds
    <3>2. bp[p] = bp[q]
      BY <2>1, <3>1, OneBuffer, Zenon
    <3>. QED BY <2>1, <3>2 DEF BusyInv
  <2>2. \A b \in Buf : "BUSY" \in flags[b] => \E p \in Process : Holds(p) /\ bp[p] = b
    BY DEF BusyInv
  <2>3. \A b \in Buf : (\E p \in Process : Holds(p) /\ bp[p] = b) => "BUSY" \in flags[b]
    BY DEF BusyInv
  <2>. HIDE DEF CInv, TypeOK
  <2>. QED BY <2>1, <2>2, <2>3 DEF Exclusive
<1>. QED BY <1>1, BcacheInv, PTL
=============================================================================
