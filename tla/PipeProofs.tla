----------------------------- MODULE PipeProofs -----------------------------
EXTENDS Pipe, TLAPS

-----------------------------------------------------------------------------
(* Remainders. *)

LEMMA ModRange ==
  ASSUME NEW a \in Int, NEW m \in Nat \ {0}
  PROVE  a % m \in 0..m - 1
OBVIOUS

LEMMA ModDiv ==
  ASSUME NEW a \in Int, NEW m \in Nat \ {0}
  PROVE  /\ a \div m \in Int
         /\ a = m * (a \div m) + (a % m)
OBVIOUS

\* A number between two multiples of m.
LEMMA MultipleZero ==
  ASSUME NEW m \in Nat \ {0}, NEW k \in Int, m * k < m, m * k > -m
  PROVE  k = 0
<1>1. CASE k >= 1
  <2>1. m * k >= m * 1
    BY <1>1
  <2>. QED BY <2>1
<1>2. CASE k <= -1
  <2>1. m * k <= m * (-1)
    BY <1>2
  <2>. QED BY <2>1
<1>. QED BY <1>1, <1>2

LEMMA ModUnique ==
  ASSUME NEW a \in Int, NEW m \in Nat \ {0}, NEW k \in Int, NEW r \in 0..m - 1, a = m * k + r
  PROVE  a % m = r
<1>. DEFINE d == a \div m
            s == a % m
<1>1. d \in Int /\ a = m * d + s /\ s \in 0..m - 1
  BY ModRange, ModDiv, Zenon
<1>. HIDE DEF d, s
<1>2. m * (d - k) = m * d - m * k
  BY <1>1
<1>3. m * (d - k) = r - s
  BY <1>1, <1>2
<1>4. d - k \in Int /\ m * (d - k) < m /\ m * (d - k) > -m
  BY <1>1, <1>3
<1>5. d - k = 0
  BY <1>4, MultipleZero
<1>. QED BY <1>1, <1>3, <1>5 DEF s

LEMMA ModSmall ==
  ASSUME NEW m \in Nat \ {0}, NEW a \in Int
  PROVE  /\ a \in 0..m - 1 => a % m = a
         /\ a - m \in 0..m - 1 => a % m = a - m
         /\ a + m \in 0..m - 1 => a % m = a + m
<1>1. /\ a = m * 0 + a
      /\ a = m * 1 + (a - m)
      /\ a = m * (-1) + (a + m)
  OBVIOUS
<1>. QED BY <1>1, ModUnique

\* Adding a multiple of m changes no remainder.
LEMMA ModShift ==
  ASSUME NEW m \in Nat \ {0}, NEW a \in Int, NEW u \in Int, u % m = 0
  PROVE  (a + u) % m = a % m
<1>. DEFINE d == a \div m
            e == u \div m
            r == a % m
<1>1. /\ d \in Int /\ e \in Int /\ r \in 0..m - 1
      /\ a = m * d + r /\ u = m * e
  BY ModRange, ModDiv
<1>. HIDE DEF d, e, r
<1>2. m * (d + e) = m * d + m * e
  BY <1>1
<1>3. a + u = m * (d + e) + r /\ d + e \in Int
  BY <1>1, <1>2
<1>4. (a + u) % m = r
  BY <1>1, <1>3, ModUnique
<1>. QED BY <1>4 DEF r

\* Numbers less than m apart have different remainders.
LEMMA ModInjective ==
  ASSUME NEW m \in Nat \ {0}, NEW a \in Int, NEW b \in Int, a - b < m, b - a < m, a % m = b % m
  PROVE  a = b
<1>. DEFINE d == a \div m
            e == b \div m
            r == a % m
<1>1. /\ d \in Int /\ e \in Int /\ r \in 0..m - 1
      /\ a = m * d + r /\ b = m * e + r
  BY ModRange, ModDiv
<1>. HIDE DEF d, e, r
<1>2. m * (d - e) = m * d - m * e
  BY <1>1
<1>3. m * (d - e) = a - b /\ d - e \in Int
  BY <1>1, <1>2
<1>4. d - e = 0
  BY <1>3, MultipleZero
<1>. QED BY <1>1, <1>3, <1>4

-----------------------------------------------------------------------------
(* The inductive invariant. *)

Where == {"user", "acquire", "tested", "asleep", "closed"}

\* The counters stay below UintMod and apart by at most PIPESIZE.
TypeOK ==
  /\ data \in [0..PIPESIZE - 1 -> Byte]
  /\ nread \in 0..UintMod - 1 /\ nwrite \in 0..UintMod - 1
  /\ readopen \in BOOLEAN /\ writeopen \in BOOLEAN /\ freed \in BOOLEAN
  /\ lock \in Process \cup {Nobody}
  /\ at \in [Process -> Where]
  /\ left \in [Process -> Nat]
  /\ killed \in [Process -> BOOLEAN]
  /\ ret \in [Process -> {"none", "ok", "err", "eof"}]
  /\ got \in [Reader -> Seq(Byte)]

\* p->lock is held across steps only between the test and the sleep, and the
\* test still holds there.
LockInv ==
  /\ \A p \in Process : at[p] = "tested" <=> lock = p
  /\ lock \in Writer => Full /\ readopen
  /\ lock \in Reader => Empty /\ writeopen

\* pipeclose is called once the processes of the side have closed.
OpenInv ==
  /\ ~readopen => \A r \in Reader : at[r] = "closed"
  /\ ~writeopen => \A w \in Writer : at[w] = "closed"

\* A writer that gave up found no readers, or was killed and calls no more.
ErrInv ==
  \A w \in Writer : ret[w] = "err" =>
    ~readopen \/ (killed[w] /\ at[w] \in {"user", "closed"})

\* SleepersBlocked for every holder of p->lock: a writer that holds it is about
\* to wake the readers.
SleepInv ==
  /\ \A w \in Writer : at[w] = "asleep" => Full /\ readopen
  /\ \A r \in Reader : at[r] = "asleep" =>
       /\ writeopen
       /\ \/ Empty
          \/ \E w \in Writer : killed[w] /\ ret[w] = "err"
          \/ lock \in Writer

PInv ==
  /\ TypeOK
  /\ Used <= PIPESIZE
  /\ LockInv
  /\ OpenInv
  /\ ErrInv
  /\ SleepInv

LEMMA ConstFacts ==
  /\ PIPESIZE \in Nat \ {0} /\ UintMod \in Nat \ {0} /\ PIPESIZE < UintMod
  /\ Counts \subseteq Nat
  /\ \A p \in Process : p # Nobody
  /\ Reader \subseteq Process /\ Writer \subseteq Process
  /\ \A p \in Process : p \in Reader <=> p \notin Writer
BY PipeAssumption DEF Process

\* The buffer begins anew where the counters wrap.
LEMMA WholeBuffers == UintMod % PIPESIZE = 0
BY PipeAssumption

-----------------------------------------------------------------------------
(* The counters. *)

\* A counter that goes on by at most a buffer.
LEMMA CountOn ==
  ASSUME NEW a \in 0..UintMod - 1, NEW k \in 0..PIPESIZE
  PROVE  (a + k) % UintMod = IF a + k < UintMod THEN a + k ELSE a + k - UintMod
<1>. USE ConstFacts
<1>. DEFINE c == a + k
<1>1. c \in Int /\ c >= 0 /\ c - UintMod < UintMod
  OBVIOUS
<1>. HIDE DEF c
<1>2. CASE c < UintMod
  <2>1. c \in 0..UintMod - 1
    BY <1>1, <1>2
  <2>2. c % UintMod = c
    BY <1>1, <2>1, ModSmall, Zenon
  <2>. QED BY <1>2, <2>2 DEF c
<1>3. CASE ~(c < UintMod)
  <2>1. c - UintMod \in 0..UintMod - 1
    BY <1>1, <1>3
  <2>2. c % UintMod = c - UintMod
    BY <1>1, <2>1, ModSmall, Zenon
  <2>. QED BY <1>3, <2>2 DEF c
<1>. QED BY <1>2, <1>3

LEMMA Distance ==
  ASSUME NEW a \in 0..UintMod - 1, NEW b \in 0..UintMod - 1
  PROVE  (b - a) % UintMod = IF a <= b THEN b - a ELSE b - a + UintMod
<1>. USE ConstFacts
<1>1. CASE a <= b
  <2>1. b - a \in 0..UintMod - 1 /\ b - a \in Int
    BY <1>1
  <2>2. (b - a) % UintMod = b - a
    BY <2>1, ModSmall, ConstFacts, Zenon
  <2>. QED BY <1>1, <2>2
<1>2. CASE ~(a <= b)
  <2>1. b - a + UintMod \in 0..UintMod - 1 /\ b - a \in Int
    BY <1>2
  <2>2. (b - a) % UintMod = b - a + UintMod
    BY <2>1, ModSmall, ConstFacts, Zenon
  <2>. QED BY <1>2, <2>2
<1>. QED BY <1>1, <1>2

\* The tests of pipewrite and piperead compare the bytes in the buffer.
LEMMA Tests ==
  ASSUME TypeOK, Used <= PIPESIZE
  PROVE  /\ Used \in 0..PIPESIZE
         /\ Used = IF nread <= nwrite THEN nwrite - nread ELSE nwrite - nread + UintMod
         /\ Empty <=> Used = 0
         /\ Full <=> Used = PIPESIZE
<1>. USE ConstFacts
<1>1. nread \in 0..UintMod - 1 /\ nwrite \in 0..UintMod - 1
  BY DEF TypeOK
<1>0. PIPESIZE \in 0..PIPESIZE
  OBVIOUS
<1>2. Used = IF nread <= nwrite THEN nwrite - nread ELSE nwrite - nread + UintMod
  BY <1>1, Distance DEF Used
<1>3. (nread + PIPESIZE) % UintMod = IF nread + PIPESIZE < UintMod THEN nread + PIPESIZE
                                     ELSE nread + PIPESIZE - UintMod
  BY <1>0, <1>1, CountOn, Zenon
<1>. HIDE DEF Used
<1>. QED BY <1>1, <1>2, <1>3 DEF Empty, Full

TestsAgree == (Empty <=> Used = 0) /\ (Full <=> Used = PIPESIZE)

LEMMA TestsHold == TypeOK /\ Used <= PIPESIZE => TestsAgree
BY Tests DEF TestsAgree

LEMMA TestsNext == TypeOK' /\ Used' <= PIPESIZE => (Empty' <=> Used' = 0) /\ (Full' <=> Used' = PIPESIZE)
<1>1. (TypeOK /\ Used <= PIPESIZE)' => TestsAgree'
  BY TestsHold, PTL
<1>. QED BY <1>1, Zenon DEF TestsAgree

LEMMA UsedAfterWrite ==
  ASSUME TypeOK, Used <= PIPESIZE, NEW k \in 0..PIPESIZE - Used,
         nwrite' = (nwrite + k) % UintMod, nread' = nread
  PROVE  nwrite' \in 0..UintMod - 1 /\ Used' = Used + k
<1>. USE ConstFacts
<1>1. /\ nread \in 0..UintMod - 1 /\ nwrite \in 0..UintMod - 1
      /\ Used \in 0..PIPESIZE /\ k \in 0..PIPESIZE
      /\ Used = IF nread <= nwrite THEN nwrite - nread ELSE nwrite - nread + UintMod
  BY Tests DEF TypeOK
<1>. HIDE DEF Used
<1>2. nwrite' = IF nwrite + k < UintMod THEN nwrite + k ELSE nwrite + k - UintMod
  BY <1>1, CountOn, Zenon
<1>3. nwrite' \in 0..UintMod - 1
  BY <1>1, <1>2
<1>4. Used' = IF nread <= nwrite' THEN nwrite' - nread ELSE nwrite' - nread + UintMod
  BY <1>1, <1>3, Distance, Zenon DEF Used
<1>. QED BY <1>1, <1>2, <1>3, <1>4

LEMMA UsedAfterRead ==
  ASSUME TypeOK, Used <= PIPESIZE, NEW k \in 0..Used,
         nread' = (nread + k) % UintMod, nwrite' = nwrite
  PROVE  nread' \in 0..UintMod - 1 /\ Used' = Used - k
<1>. USE ConstFacts
<1>1. /\ nread \in 0..UintMod - 1 /\ nwrite \in 0..UintMod - 1
      /\ Used \in 0..PIPESIZE /\ k \in 0..PIPESIZE
      /\ Used = IF nread <= nwrite THEN nwrite - nread ELSE nwrite - nread + UintMod
  BY Tests DEF TypeOK
<1>. HIDE DEF Used
<1>2. nread' = IF nread + k < UintMod THEN nread + k ELSE nread + k - UintMod
  BY <1>1, CountOn, Zenon
<1>3. nread' \in 0..UintMod - 1
  BY <1>1, <1>2
<1>4. Used' = IF nread' <= nwrite THEN nwrite - nread' ELSE nwrite - nread' + UintMod
  BY <1>1, <1>3, Distance, Zenon DEF Used
<1>. QED BY <1>1, <1>2, <1>3, <1>4

-----------------------------------------------------------------------------
(* The operators of the actions. *)

LEMMA Woken ==
  ASSUME TypeOK, NEW S, NEW p \in Process, NEW x \in Where \ {"asleep"},
         at' = wakeup(S, [at EXCEPT ![p] = x])
  PROVE  /\ at' \in [Process -> Where]
         /\ at'[p] = x
         /\ \A q \in Process : q # p => at'[q] = IF q \in S /\ at[q] = "asleep" THEN "acquire" ELSE at[q]
BY DEF TypeOK, wakeup, Where

LEMMA Moved ==
  ASSUME TypeOK, NEW p \in Process, NEW x \in Where, at' = [at EXCEPT ![p] = x]
  PROVE  /\ at' \in [Process -> Where]
         /\ at'[p] = x
         /\ \A q \in Process : q # p => at'[q] = at[q]
BY DEF TypeOK

LEMMA Bytes ==
  ASSUME NEW k \in Nat, NEW bs \in [1..k -> Byte]
  PROVE  bs \in Seq(Byte) /\ Len(bs) = k /\ DOMAIN bs = 1..k
OBVIOUS

LEMMA OldestSeq ==
  ASSUME TypeOK, NEW n \in Nat
  PROVE  /\ Oldest(n) \in Seq(Byte) /\ Len(Oldest(n)) = n
         /\ \A i \in 1..n : Oldest(n)[i] = data[(nread + i - 1) % PIPESIZE]
<1>1. ASSUME NEW i \in 1..n PROVE data[(nread + i - 1) % PIPESIZE] \in Byte
  <2>1. nread + i - 1 \in Int
    BY ConstFacts DEF TypeOK
  <2>2. (nread + i - 1) % PIPESIZE \in 0..PIPESIZE - 1
    BY <2>1, ModRange, ConstFacts, Zenon
  <2>. QED BY <2>2 DEF TypeOK
<1>2. Oldest(n) \in [1..n -> Byte]
  BY <1>1, Zenon DEF Oldest
<1>3. \A i \in 1..n : Oldest(n)[i] = data[(nread + i - 1) % PIPESIZE]
  BY Zenon DEF Oldest
<1>. QED BY <1>2, <1>3, Bytes

\* What data holds after bs is stored.
Stored(bs, x) ==
  IF \E j \in DOMAIN bs : (nwrite + j - 1) % PIPESIZE = x
  THEN bs[CHOOSE j \in DOMAIN bs : (nwrite + j - 1) % PIPESIZE = x]
  ELSE data[x]

LEMMA StoreFacts ==
  ASSUME TypeOK, Used <= PIPESIZE, NEW k \in 0..PIPESIZE - Used, NEW bs \in [1..k -> Byte],
         Store(bs), nread' = nread
  PROVE  /\ data' \in [0..PIPESIZE - 1 -> Byte]
         /\ \A x \in 0..PIPESIZE - 1 : data'[x] = Stored(bs, x)
         /\ nwrite' \in 0..UintMod - 1
         /\ Used' = Used + k
<1>1. k \in Nat
  BY Tests, ConstFacts
<1>2. Len(bs) = k /\ DOMAIN bs = 1..k
  BY <1>1, Bytes
<1>3. nwrite' = (nwrite + k) % UintMod /\ data' = [x \in 0..PIPESIZE - 1 |-> Stored(bs, x)]
  BY <1>2 DEF Store, Stored
<1>4. nwrite' \in 0..UintMod - 1 /\ Used' = Used + k
  BY <1>3, UsedAfterWrite
<1>5. ASSUME NEW x \in 0..PIPESIZE - 1 PROVE Stored(bs, x) \in Byte
  <2>. DEFINE P(j) == (nwrite + j - 1) % PIPESIZE = x
              c == CHOOSE j \in DOMAIN bs : P(j)
  <2>1. CASE \E j \in DOMAIN bs : P(j)
    <3>. HIDE DEF P
    <3>1. c \in DOMAIN bs
      BY <2>1, Zenon
    <3>2. bs[c] \in Byte
      BY <1>2, <3>1
    <3>. QED BY <2>1, <3>2, Zenon DEF Stored, P
  <2>2. CASE ~\E j \in DOMAIN bs : P(j)
    <3>1. Stored(bs, x) = data[x]
      BY <2>2, Zenon DEF Stored
    <3>2. data \in [0..PIPESIZE - 1 -> Byte]
      BY DEF TypeOK
    <3>. HIDE DEF P
    <3>. QED BY <3>1, <3>2
  <2>. QED BY <2>1, <2>2
<1>. HIDE DEF Stored
<1>. QED BY <1>3, <1>4, <1>5

LEMMA Writable ==
  ASSUME PInv, NEW w \in Writer
  PROVE  /\ left[w] \in Nat /\ Used \in 0..PIPESIZE
         /\ 0..PIPESIZE - Used \subseteq Nat
         /\ left[w] <= PIPESIZE - Used => left[w] \in 0..PIPESIZE - Used
         /\ PIPESIZE - Used \in 0..PIPESIZE - Used
<1>1. left[w] \in Nat /\ Used \in 0..PIPESIZE
  BY Tests, ConstFacts DEF PInv, TypeOK
<1>. HIDE DEF Used
<1>. QED BY <1>1, ConstFacts

-----------------------------------------------------------------------------
(* Every action keeps the invariant. *)

\* An action that leaves the pipe alone.
LEMMA PipeKept ==
  ASSUME PInv, UNCHANGED pipe
  PROVE  /\ data' = data /\ nread' = nread /\ nwrite' = nwrite
         /\ readopen' = readopen /\ writeopen' = writeopen /\ freed' = freed
         /\ Used' = Used /\ (Full' <=> Full) /\ (Empty' <=> Empty)
BY DEF pipe, Used, Full, Empty

LEMMA CallPInv ==
  ASSUME PInv, NEW p \in Process, NEW n \in Counts, Call(p, n)
  PROVE  PInv'
<1>. USE ConstFacts DEF PInv
<1>1. /\ at' \in [Process -> Where] /\ at'[p] = "acquire" /\ at[p] = "user"
      /\ \A q \in Process : q # p => at'[q] = at[q]
  BY Moved, Zenon DEF Call, Where
<1>2. /\ lock' = lock /\ killed' = killed /\ ret' = ret /\ got' = got /\ ~killed[p]
      /\ left' = [left EXCEPT ![p] = n] /\ UNCHANGED pipe
  BY DEF Call
<1>3. TypeOK'
  BY <1>1, <1>2, PipeKept DEF TypeOK
<1>4. LockInv'
  BY <1>1, <1>2, PipeKept DEF LockInv
<1>5. OpenInv'
  BY <1>1, <1>2, PipeKept DEF OpenInv
<1>6. ErrInv'
  BY <1>1, <1>2, PipeKept DEF ErrInv
<1>7. SleepInv'
  BY <1>1, <1>2, PipeKept DEF SleepInv
<1>. QED BY <1>2, <1>3, <1>4, <1>5, <1>6, <1>7, PipeKept

LEMMA WriteAllPInv ==
  ASSUME PInv, NEW w \in Writer, WriteAll(w)
  PROVE  PInv'
<1>. USE ConstFacts DEF PInv
<1>1. /\ at' \in [Process -> Where] /\ at'[w] = "user" /\ at[w] = "acquire"
      /\ \A q \in Process : q # w => at'[q] = IF q \in Reader /\ at[q] = "asleep" THEN "acquire" ELSE at[q]
  BY Woken, Zenon DEF WriteAll, Where
<1>2. /\ lock = Nobody /\ lock' = Nobody /\ killed' = killed /\ got' = got /\ nread' = nread
      /\ readopen' = readopen /\ writeopen' = writeopen /\ freed' = freed
      /\ left' = [left EXCEPT ![w] = 0] /\ ret' = [ret EXCEPT ![w] = "ok"]
  BY DEF WriteAll
<1>3. PICK bs \in [1..left[w] -> Byte] : Store(bs)
  BY DEF WriteAll
<1>4. left[w] \in 0..PIPESIZE - Used /\ Used \in 0..PIPESIZE
  BY Writable DEF WriteAll
<1>5. /\ data' \in [0..PIPESIZE - 1 -> Byte] /\ nwrite' \in 0..UintMod - 1
      /\ Used' = Used + left[w]
  BY <1>2, <1>3, <1>4, StoreFacts, Zenon
<1>6. TypeOK'
  BY <1>1, <1>2, <1>5 DEF TypeOK
<1>7. Used' \in 0..PIPESIZE
  <2>. HIDE DEF Used, PInv
  <2>. QED BY <1>4, <1>5
<1>8. LockInv'
  BY <1>1, <1>2 DEF LockInv
<1>9. OpenInv'
  BY <1>1, <1>2 DEF OpenInv
<1>10. ErrInv'
  BY <1>1, <1>2 DEF ErrInv, TypeOK
<1>11. SleepInv'
  <2>1. ASSUME NEW v \in Writer, at'[v] = "asleep" PROVE Full' /\ readopen'
    <3>1. at[v] = "asleep" /\ Full /\ readopen
      BY <1>1, <2>1 DEF SleepInv
    <3>2. Used = PIPESIZE
      BY <3>1, Tests
    <3>3. Used' = PIPESIZE
      <4>. HIDE DEF Used, PInv
      <4>. QED BY <1>4, <1>5, <3>2
    <3>. QED BY <1>2, <1>6, <1>7, <3>1, <3>3, TestsNext
  <2>2. \A r \in Reader : at'[r] # "asleep"
    BY <1>1
  <2>. QED BY <2>1, <2>2 DEF SleepInv
<1>. QED BY <1>6, <1>7, <1>8, <1>9, <1>10, <1>11

LEMMA WriteFullPInv ==
  ASSUME PInv, NEW w \in Writer, WriteFull(w)
  PROVE  PInv'
<1>. USE ConstFacts DEF PInv
<1>1. /\ at[w] = "acquire" /\ lock = Nobody /\ killed' = killed /\ got' = got /\ nread' = nread
      /\ readopen' = readopen /\ writeopen' = writeopen /\ freed' = freed
      /\ left[w] > PIPESIZE - Used
  BY DEF WriteFull
<1>2. PICK bs \in [1..PIPESIZE - Used -> Byte] : Store(bs)
  BY DEF WriteFull
<1>3. PIPESIZE - Used \in 0..PIPESIZE - Used /\ Used \in 0..PIPESIZE /\ left[w] \in Nat
  BY Writable
<1>4. /\ data' \in [0..PIPESIZE - 1 -> Byte] /\ nwrite' \in 0..UintMod - 1
      /\ Used' = Used + (PIPESIZE - Used)
  BY <1>1, <1>2, <1>3, StoreFacts, Zenon
<1>5. Used' = PIPESIZE /\ left[w] - (PIPESIZE - Used) \in Nat
  <2>. HIDE DEF Used, PInv
  <2>. QED BY <1>1, <1>3, <1>4
<1>6. CASE ~readopen \/ killed[w]
  <2>1. /\ at' \in [Process -> Where] /\ at'[w] = "user"
        /\ \A q \in Process : q # w => at'[q] = at[q]
    BY <1>6, Moved, Zenon DEF WriteFull, Where
  <2>2. left' = [left EXCEPT ![w] = 0] /\ ret' = [ret EXCEPT ![w] = "err"] /\ lock' = lock
    BY <1>6 DEF WriteFull
  <2>3. TypeOK'
    BY <1>1, <1>4, <2>1, <2>2 DEF TypeOK
  <2>4. Full'
    BY <1>5, <2>3, TestsNext
  <2>5. LockInv'
    BY <1>1, <2>1, <2>2 DEF LockInv
  <2>6. OpenInv'
    BY <1>1, <2>1 DEF OpenInv
  <2>7. ErrInv'
    BY <1>1, <1>6, <2>1, <2>2 DEF ErrInv, TypeOK
  <2>8. ret'[w] = "err"
    BY <2>2 DEF TypeOK
  <2>9. SleepInv'
    BY <1>1, <1>6, <2>1, <2>4, <2>8, Zenon DEF SleepInv, OpenInv
  <2>. QED BY <1>5, <2>3, <2>5, <2>6, <2>7, <2>9
<1>7. CASE ~(~readopen \/ killed[w])
  <2>1. /\ at' \in [Process -> Where] /\ at'[w] = "tested"
        /\ \A q \in Process : q # w => at'[q] = at[q]
    BY <1>7, Moved, Zenon DEF WriteFull, Where
  <2>2. left' = [left EXCEPT ![w] = left[w] - (PIPESIZE - Used)] /\ ret' = ret /\ lock' = w
    BY <1>7 DEF WriteFull
  <2>3. TypeOK'
    <3>1. left' \in [Process -> Nat]
      <4>. HIDE DEF Used
      <4>. QED BY <1>5, <2>2 DEF TypeOK
    <3>. QED BY <1>1, <1>4, <2>1, <2>2, <3>1 DEF TypeOK
  <2>4. Full'
    BY <1>5, <2>3, TestsNext
  <2>5. LockInv'
    BY <1>1, <1>7, <2>1, <2>2, <2>4 DEF LockInv
  <2>6. OpenInv'
    BY <1>1, <2>1 DEF OpenInv
  <2>7. ErrInv'
    BY <1>1, <1>7, <2>1, <2>2 DEF ErrInv
  <2>8. SleepInv'
    BY <1>1, <2>1, <2>2, <2>4 DEF SleepInv
  <2>. QED BY <1>5, <2>3, <2>5, <2>6, <2>7, <2>8
<1>. QED BY <1>6, <1>7

LEMMA WriteSleepPInv ==
  ASSUME PInv, NEW w \in Writer, WriteSleep(w)
  PROVE  PInv'
<1>. USE ConstFacts DEF PInv
<1>1. /\ at' \in [Process -> Where] /\ at'[w] = "asleep" /\ at[w] = "tested"
      /\ \A q \in Process : q # w => at'[q] = IF q \in Reader /\ at[q] = "asleep" THEN "acquire" ELSE at[q]
  BY DEF WriteSleep, TypeOK, wakeup, Where
<1>2. /\ lock' = Nobody /\ killed' = killed /\ ret' = ret /\ got' = got /\ left' = left /\ UNCHANGED pipe
  BY DEF WriteSleep
<1>3. TypeOK'
  BY <1>1, <1>2, PipeKept DEF TypeOK
<1>4. lock = w /\ Full /\ readopen
  BY <1>1 DEF LockInv
<1>5. LockInv'
  BY <1>1, <1>2, <1>4 DEF LockInv
<1>6. OpenInv'
  BY <1>1, <1>2, PipeKept DEF OpenInv
<1>7. ErrInv'
  BY <1>1, <1>2, PipeKept DEF ErrInv
<1>8. SleepInv'
  BY <1>1, <1>2, <1>4, PipeKept, Zenon DEF SleepInv
<1>. QED BY <1>2, <1>3, <1>5, <1>6, <1>7, <1>8, PipeKept

LEMMA Readable ==
  ASSUME PInv, NEW r \in Reader
  PROVE  Smaller(left[r], Used) \in 0..Used /\ Used \in 0..PIPESIZE
<1>1. left[r] \in Nat /\ Used \in 0..PIPESIZE
  BY Tests, ConstFacts DEF PInv, TypeOK
<1>. HIDE DEF Used
<1>. QED BY <1>1, ConstFacts DEF Smaller

LEMMA ReadSomePInv ==
  ASSUME PInv, NEW r \in Reader, ReadSome(r)
  PROVE  PInv'
<1>. USE ConstFacts DEF PInv
<1>. DEFINE n == Smaller(left[r], Used)
<1>1. /\ at' \in [Process -> Where] /\ at'[r] = "user" /\ at[r] = "acquire"
      /\ \A q \in Process : q # r => at'[q] = IF q \in Writer /\ at[q] = "asleep" THEN "acquire" ELSE at[q]
  BY Woken, Zenon DEF ReadSome, Where
<1>2. /\ lock = Nobody /\ lock' = Nobody /\ killed' = killed /\ data' = data /\ nwrite' = nwrite
      /\ readopen' = readopen /\ writeopen' = writeopen /\ freed' = freed
      /\ left' = [left EXCEPT ![r] = 0] /\ nread' = (nread + n) % UintMod
      /\ got' = [got EXCEPT ![r] = Oldest(n)] /\ (~Empty \/ ~writeopen)
      /\ ret' = [ret EXCEPT ![r] = IF n = 0 /\ left[r] > 0 THEN "eof" ELSE "ok"]
  BY DEF ReadSome
<1>3. n \in 0..Used /\ Used \in 0..PIPESIZE
  BY Readable
<1>. HIDE DEF n
<1>4. nread' \in 0..UintMod - 1 /\ Used' = Used - n
  BY <1>2, <1>3, UsedAfterRead, Zenon
<1>5. Used' <= PIPESIZE
  <2>. HIDE DEF Used, PInv
  <2>. QED BY <1>3, <1>4
<1>6. /\ ret' \in [Process -> {"none", "ok", "err", "eof"}]
      /\ \A q \in Process : q # r => ret'[q] = ret[q]
  <2>. DEFINE x == IF n = 0 /\ left[r] > 0 THEN "eof" ELSE "ok"
  <2>1. x \in {"ok", "eof"} /\ ret' = [ret EXCEPT ![r] = x]
    BY <1>2, Zenon
  <2>. HIDE DEF x
  <2>. QED BY <2>1 DEF TypeOK
<1>7. TypeOK'
  <2>1. left' \in [Process -> Nat]
    BY <1>2 DEF TypeOK
  <2>2. got' \in [Reader -> Seq(Byte)]
    <3>1. n \in Nat
      <4>. HIDE DEF Used
      <4>. QED BY <1>3
    <3>2. Oldest(n) \in Seq(Byte)
      BY <3>1, OldestSeq
    <3>3. got \in [Reader -> Seq(Byte)]
      BY DEF TypeOK
    <3>4. got' = [got EXCEPT ![r] = Oldest(n)]
      BY <1>2, Zenon
    <3>. HIDE DEF PInv
    <3>. QED BY <3>2, <3>3, <3>4
  <2>. QED BY <1>1, <1>2, <1>4, <1>6, <2>1, <2>2 DEF TypeOK
<1>8. LockInv'
  BY <1>1, <1>2 DEF LockInv
<1>9. OpenInv'
  BY <1>1, <1>2 DEF OpenInv
<1>10. ErrInv'
  BY <1>1, <1>2, <1>6 DEF ErrInv
<1>11. SleepInv'
  BY <1>1, <1>2, <1>6 DEF SleepInv
<1>. QED BY <1>5, <1>7, <1>8, <1>9, <1>10, <1>11

LEMMA ReadEmptyPInv ==
  ASSUME PInv, NEW r \in Reader, ReadEmpty(r)
  PROVE  PInv'
<1>. USE ConstFacts DEF PInv
<1>1. /\ at[r] = "acquire" /\ lock = Nobody /\ killed' = killed /\ got' = got /\ UNCHANGED pipe
      /\ Empty /\ writeopen
  BY DEF ReadEmpty
<1>4. /\ data' = data /\ nread' = nread /\ nwrite' = nwrite
      /\ readopen' = readopen /\ writeopen' = writeopen /\ freed' = freed
      /\ Used' = Used /\ (Full' <=> Full) /\ Empty'
  BY <1>1, PipeKept, Zenon
<1>2. CASE killed[r]
  <2>1. /\ at' \in [Process -> Where] /\ at'[r] = "user"
        /\ \A q \in Process : q # r => at'[q] = at[q]
    BY <1>2, Moved, Zenon DEF ReadEmpty, Where
  <2>2. left' = [left EXCEPT ![r] = 0] /\ ret' = [ret EXCEPT ![r] = "err"] /\ lock' = lock
    BY <1>2 DEF ReadEmpty
  <2>3. TypeOK'
    BY <1>1, <1>4, <2>1, <2>2 DEF TypeOK
  <2>4. LockInv'
    BY <1>1, <1>4, <2>1, <2>2 DEF LockInv
  <2>5. OpenInv'
    BY <1>1, <1>4, <2>1 DEF OpenInv
  <2>6. ErrInv'
    BY <1>1, <1>4, <2>1, <2>2 DEF ErrInv, TypeOK
  <2>7. SleepInv'
    BY <1>1, <1>4, <2>1, Zenon DEF SleepInv
  <2>. QED BY <1>1, <1>4, <2>3, <2>4, <2>5, <2>6, <2>7
<1>3. CASE ~killed[r]
  <2>1. /\ at' \in [Process -> Where] /\ at'[r] = "tested"
        /\ \A q \in Process : q # r => at'[q] = at[q]
    BY <1>3, Moved, Zenon DEF ReadEmpty, Where
  <2>2. left' = left /\ ret' = ret /\ lock' = r
    BY <1>3 DEF ReadEmpty
  <2>3. TypeOK'
    BY <1>1, <1>4, <2>1, <2>2 DEF TypeOK
  <2>4. LockInv'
    BY <1>1, <1>4, <2>1, <2>2 DEF LockInv
  <2>5. OpenInv'
    BY <1>1, <1>4, <2>1 DEF OpenInv
  <2>6. ErrInv'
    BY <1>1, <1>4, <2>1, <2>2 DEF ErrInv
  <2>7. SleepInv'
    BY <1>1, <1>4, <2>1, Zenon DEF SleepInv
  <2>. QED BY <1>1, <1>4, <2>3, <2>4, <2>5, <2>6, <2>7
<1>. QED BY <1>2, <1>3

LEMMA ReadSleepPInv ==
  ASSUME PInv, NEW r \in Reader, ReadSleep(r)
  PROVE  PInv'
<1>. USE ConstFacts DEF PInv
<1>1. /\ at' \in [Process -> Where] /\ at'[r] = "asleep" /\ at[r] = "tested"
      /\ \A q \in Process : q # r => at'[q] = at[q]
  BY Moved, Zenon DEF ReadSleep, Where
<1>2. /\ lock' = Nobody /\ killed' = killed /\ ret' = ret /\ got' = got /\ left' = left /\ UNCHANGED pipe
  BY DEF ReadSleep
<1>3. TypeOK'
  BY <1>1, <1>2, PipeKept DEF TypeOK
<1>4. lock = r /\ Empty /\ writeopen
  BY <1>1 DEF LockInv
<1>9. (Full' <=> Full) /\ Empty' /\ writeopen' /\ readopen' = readopen
  BY <1>2, <1>4, PipeKept, Zenon
<1>5. LockInv'
  BY <1>1, <1>2, <1>4 DEF LockInv
<1>6. OpenInv'
  BY <1>1, <1>2, PipeKept DEF OpenInv
<1>7. ErrInv'
  BY <1>1, <1>2, PipeKept DEF ErrInv
<1>8. SleepInv'
  BY <1>1, <1>2, <1>9, Zenon DEF SleepInv
<1>. QED BY <1>2, <1>3, <1>5, <1>6, <1>7, <1>8, PipeKept

\* The counters are the same, so are the tests.
LEMMA CountersKept ==
  ASSUME nread' = nread, nwrite' = nwrite
  PROVE  Used' = Used /\ (Full' <=> Full) /\ (Empty' <=> Empty)
BY DEF Used, Full, Empty

LEMMA ClosePInv ==
  ASSUME PInv, NEW p \in Process, Close(p)
  PROVE  PInv'
<1>. USE ConstFacts DEF PInv
<1>. DEFINE Side == IF p \in Writer THEN Writer ELSE Reader
            last == \A q \in Side \ {p} : at[q] = "closed"
<1>1. /\ at[p] = "user" /\ lock = Nobody /\ lock' = Nobody
      /\ data' = data /\ nread' = nread /\ nwrite' = nwrite
      /\ left' = left /\ killed' = killed /\ ret' = ret /\ got' = got
  BY DEF Close
<1>2. Used' = Used /\ (Full' <=> Full) /\ (Empty' <=> Empty)
  BY <1>1, CountersKept
<1>3. CASE last
  <2>1. /\ at' \in [Process -> Where] /\ at'[p] = "closed"
        /\ \A q \in Process : q # p => at'[q] = IF q \in Process \ Side /\ at[q] = "asleep" THEN "acquire" ELSE at[q]
    <3>1. at' = wakeup(Process \ Side, [at EXCEPT ![p] = "closed"])
      BY <1>3, Zenon DEF Close
    <3>2. "closed" \in Where \ {"asleep"}
      BY DEF Where
    <3>. HIDE DEF last, Side
    <3>. QED BY <3>1, <3>2, Woken, Zenon
  <2>2. /\ writeopen' = (writeopen /\ p \notin Writer)
        /\ readopen' = (readopen /\ p \notin Reader)
        /\ freed' = (~readopen' /\ ~writeopen')
    BY <1>3 DEF Close
  <2>3. TypeOK'
    <3>1. readopen' \in BOOLEAN /\ writeopen' \in BOOLEAN /\ freed' \in BOOLEAN
      BY <2>2, Zenon
    <3>. QED BY <1>1, <2>1, <3>1 DEF TypeOK
  <2>4. LockInv'
    BY <1>1, <2>1 DEF LockInv
  <2>5. CASE p \in Writer
    <3>1. Side = Writer /\ ~writeopen' /\ (readopen' <=> readopen)
      BY <2>2, <2>5, Zenon
    <3>2. \A w \in Writer : at'[w] = "closed"
      BY <1>3, <2>1, <3>1
    <3>3. \A r \in Reader : at'[r] # "asleep" /\ (at[r] = "closed" => at'[r] = "closed")
      BY <2>1, <2>5, <3>1
    <3>4. OpenInv'
      BY <3>1, <3>2, <3>3 DEF OpenInv
    <3>5. ErrInv'
      BY <1>1, <3>1, <3>2, Zenon DEF ErrInv
    <3>6. SleepInv'
      BY <3>2, <3>3 DEF SleepInv
    <3>. QED BY <1>2, <2>3, <2>4, <3>4, <3>5, <3>6
  <2>6. CASE p \in Reader
    <3>1. Side = Reader /\ ~readopen' /\ (writeopen' <=> writeopen)
      BY <2>2, <2>6, Zenon
    <3>2. \A r \in Reader : at'[r] = "closed"
      BY <1>3, <2>1, <3>1
    <3>3. \A w \in Writer : at'[w] # "asleep" /\ (at[w] = "closed" => at'[w] = "closed")
      BY <2>1, <2>6, <3>1
    <3>4. OpenInv'
      BY <3>1, <3>2, <3>3 DEF OpenInv
    <3>5. ErrInv'
      BY <3>1 DEF ErrInv
    <3>6. SleepInv'
      BY <3>2, <3>3 DEF SleepInv
    <3>. QED BY <1>2, <2>3, <2>4, <3>4, <3>5, <3>6
  <2>. QED BY <2>5, <2>6
<1>4. CASE ~last
  <2>1. /\ at' \in [Process -> Where] /\ at'[p] = "closed"
        /\ \A q \in Process : q # p => at'[q] = at[q]
    BY <1>4, Moved, Zenon DEF Close, Where
  <2>2. readopen' = readopen /\ writeopen' = writeopen /\ freed' = freed
    BY <1>4 DEF Close
  <2>3. TypeOK'
    BY <1>1, <2>1, <2>2 DEF TypeOK
  <2>4. LockInv'
    BY <1>1, <2>1 DEF LockInv
  <2>5. OpenInv'
    BY <2>1, <2>2 DEF OpenInv
  <2>6. ErrInv'
    BY <1>1, <2>1, <2>2 DEF ErrInv
  <2>7. SleepInv'
    BY <1>1, <1>2, <2>1, <2>2, Zenon DEF SleepInv
  <2>. QED BY <1>2, <2>3, <2>4, <2>5, <2>6, <2>7
<1>. QED BY <1>3, <1>4

LEMMA KillPInv ==
  ASSUME PInv, NEW p \in Process, Kill(p)
  PROVE  PInv'
<1>. USE ConstFacts DEF PInv
<1>1. /\ at' \in [Process -> Where]
      /\ \A q \in Process : at'[q] = IF q = p /\ at[q] = "asleep" THEN "acquire" ELSE at[q]
  BY DEF Kill, wakeup, TypeOK, Where
<1>2. lock' = lock /\ left' = left /\ ret' = ret /\ got' = got /\ UNCHANGED pipe
  BY DEF Kill
<1>3. /\ killed' \in [Process -> BOOLEAN]
      /\ \A q \in Process : killed[q] => killed'[q]
  BY DEF Kill, TypeOK
<1>4. /\ data' = data /\ nread' = nread /\ nwrite' = nwrite
      /\ readopen' = readopen /\ writeopen' = writeopen /\ freed' = freed
      /\ Used' = Used /\ (Full' <=> Full) /\ (Empty' <=> Empty)
  BY <1>2, PipeKept
<1>5. TypeOK'
  BY <1>1, <1>2, <1>3, <1>4 DEF TypeOK
<1>6. LockInv'
  BY <1>1, <1>2, <1>4 DEF LockInv
<1>7. OpenInv'
  BY <1>1, <1>4 DEF OpenInv
<1>8. ErrInv'
  BY <1>1, <1>2, <1>3, <1>4 DEF ErrInv
<1>9. SleepInv'
  BY <1>1, <1>2, <1>3, <1>4 DEF SleepInv
<1>. QED BY <1>4, <1>5, <1>6, <1>7, <1>8, <1>9

LEMMA InitPInv == Init => PInv
<1>. SUFFICES ASSUME Init PROVE PInv
  OBVIOUS
<1>. USE ConstFacts
<1>1. /\ nread = 0 /\ nwrite = 0 /\ readopen = TRUE /\ writeopen = TRUE /\ lock = Nobody
      /\ \A p \in Process : at[p] = "user" /\ ret[p] = "none"
  BY DEF Init
<1>2. TypeOK
  <2>1. got \in [Reader -> Seq(Byte)]
    BY DEF Init
  <2>2. data \in [0..PIPESIZE - 1 -> Byte]
    BY Zenon DEF Init
  <2>. QED BY <1>1, <2>1, <2>2 DEF Init, TypeOK, Where
<1>3. Used = 0
  BY <1>1, Distance DEF Used
<1>4. LockInv /\ OpenInv
  BY <1>1, PipeAssumption DEF LockInv, OpenInv, Process
<1>5. ErrInv /\ SleepInv
  BY <1>1 DEF ErrInv, SleepInv
<1>. QED BY <1>2, <1>3, <1>4, <1>5 DEF PInv

LEMMA StutterPInv ==
  ASSUME PInv, UNCHANGED vars
  PROVE  PInv'
BY DEF vars, pipe, PInv, TypeOK, LockInv, OpenInv, ErrInv, SleepInv, Used, Full, Empty

LEMMA NextPInv == PInv /\ [Next]_vars => PInv'
<1>. SUFFICES ASSUME PInv, [Next]_vars PROVE PInv'
  OBVIOUS
<1>1. ASSUME NEW w \in Writer, Write(w) PROVE PInv'
  BY <1>1, WriteAllPInv, WriteFullPInv, WriteSleepPInv, Zenon DEF Write
<1>2. ASSUME NEW r \in Reader, Read(r) PROVE PInv'
  BY <1>2, ReadSomePInv, ReadEmptyPInv, ReadSleepPInv, Zenon DEF Read
<1>3. ASSUME NEW p \in Process, NEW n \in Counts, Call(p, n) PROVE PInv'
  BY <1>3, CallPInv
<1>4. ASSUME NEW p \in Process, Close(p) \/ Kill(p) PROVE PInv'
  BY <1>4, ClosePInv, KillPInv
<1>5. CASE UNCHANGED vars
  BY <1>5, StutterPInv
<1>. QED BY <1>1, <1>2, <1>3, <1>4, <1>5, Zenon DEF Next

\* The counters of a pipe differ by at most its size, p->lock is kept only by a
\* process whose test of full or empty still holds, and pipeclose comes after
\* the last use of a side, for any buffer size and any numbers of readers and
\* writers (pipewrite, piperead, pipeclose).
THEOREM PipeInv == Spec => []PInv
BY InitPInv, NextPInv, PTL DEF Spec

\* No wakeup of pipewrite, piperead or pipeclose is missed: SleepersBlocked for
\* any number of readers and writers.
THEOREM PipeSleepersBlocked == Spec => []SleepersBlocked
<1>1. PInv => SleepersBlocked
  BY ConstFacts, PipeAssumption DEF PInv, SleepInv, SleepersBlocked, Process
<1>. QED BY <1>1, PipeInv, PTL

-----------------------------------------------------------------------------
(* The pipe is a queue. *)

\* Where pipewrite puts its bytes, counted from nread: also after the wrap.
LEMMA WritePlace ==
  ASSUME PInv, NEW j \in Nat
  PROVE  (nwrite + j - 1) % PIPESIZE = (nread + Used + j - 1) % PIPESIZE
<1>. USE ConstFacts
<1>1. /\ nread \in Nat /\ nwrite \in Nat /\ Used \in Nat
      /\ nwrite = nread + Used \/ nwrite + UintMod = nread + Used
  <2>1. /\ nread \in 0..UintMod - 1 /\ nwrite \in 0..UintMod - 1 /\ Used \in 0..PIPESIZE
        /\ Used = IF nread <= nwrite THEN nwrite - nread ELSE nwrite - nread + UintMod
    BY Tests DEF PInv, TypeOK
  <2>. HIDE DEF Used
  <2>. QED BY <2>1
<1>. HIDE DEF Used
<1>. DEFINE a == nwrite + j - 1
            b == nread + Used + j - 1
<1>2. a \in Int /\ UintMod \in Int /\ (b = a \/ b = a + UintMod)
  BY <1>1
<1>. HIDE DEF a, b
<1>3. (a + UintMod) % PIPESIZE = a % PIPESIZE
  BY <1>2, ModShift, WholeBuffers, Zenon
<1>4. a % PIPESIZE = b % PIPESIZE
  BY <1>2, <1>3, Zenon
<1>. QED BY <1>4, Zenon DEF a, b

\* Positions less than a buffer apart are different places.
LEMMA PlacesDiffer ==
  ASSUME NEW a \in Nat, NEW i \in Nat, NEW j \in Nat, i - j < PIPESIZE, j - i < PIPESIZE,
         (a + i - 1) % PIPESIZE = (a + j - 1) % PIPESIZE
  PROVE  i = j
<1>. USE ConstFacts
<1>. DEFINE x == a + i - 1
            y == a + j - 1
<1>1. x \in Int /\ y \in Int /\ x - y < PIPESIZE /\ y - x < PIPESIZE /\ (x = y => i = j)
  OBVIOUS
<1>2. x % PIPESIZE = y % PIPESIZE
  OBVIOUS
<1>. HIDE DEF x, y
<1>. QED BY <1>1, <1>2, ModInjective, Zenon

\* The byte at position i after a write.
LEMMA StoredAt ==
  ASSUME PInv, NEW k \in 0..PIPESIZE - Used, NEW bs \in [1..k -> Byte], NEW i \in 1..Used + k
  PROVE  Stored(bs, (nread + i - 1) % PIPESIZE) =
           IF i <= Used THEN data[(nread + i - 1) % PIPESIZE] ELSE bs[i - Used]
<1>. USE ConstFacts
<1>. DEFINE x == (nread + i - 1) % PIPESIZE
            P(j) == (nwrite + j - 1) % PIPESIZE = x
<1>1. nread \in Nat /\ Used \in 0..PIPESIZE /\ k \in Nat /\ DOMAIN bs = 1..k
  BY Tests, Bytes DEF PInv, TypeOK
<1>. HIDE DEF Used
<1>2. /\ i \in Nat /\ k + Used <= PIPESIZE /\ 1 <= i /\ i <= Used + k
      /\ \A j \in 1..k : j \in Nat /\ 1 <= j /\ j <= k
  BY <1>1
<1>3. ASSUME NEW j \in 1..k, P(j) PROVE i = Used + j
  <2>1. (nwrite + j - 1) % PIPESIZE = (nread + Used + j - 1) % PIPESIZE
    BY <1>2, WritePlace, Zenon
  <2>. DEFINE m == Used + j
  <2>2. m \in Nat /\ i - m < PIPESIZE /\ m - i < PIPESIZE /\ nread + m - 1 = nread + Used + j - 1
    BY <1>1, <1>2
  <2>. HIDE DEF m
  <2>3. (nread + i - 1) % PIPESIZE = (nread + m - 1) % PIPESIZE
    BY <1>3, <2>1, <2>2, Zenon
  <2>4. i = m
    BY <1>1, <1>2, <2>2, <2>3, PlacesDiffer, Zenon
  <2>. QED BY <2>4 DEF m
<1>4. CASE i <= Used
  <2>1. ASSUME NEW j \in 1..k PROVE ~P(j)
    <3>. HIDE DEF P
    <3>. QED BY <1>1, <1>2, <1>3, <1>4
  <2>2. Stored(bs, x) = data[x]
    BY <1>1, <2>1, Zenon DEF Stored
  <2>. HIDE DEF x
  <2>3. Stored(bs, x) = IF i <= Used THEN data[x] ELSE bs[i - Used]
    BY <1>4, <2>2, Zenon
  <2>. QED BY <2>3, Zenon DEF x
<1>5. CASE ~(i <= Used)
  <2>. DEFINE m == i - Used
  <2>1. m \in 1..k /\ m \in Nat /\ nread + Used + m - 1 = nread + i - 1
    BY <1>1, <1>2, <1>5
  <2>2. \A j \in 1..k : i = Used + j => j = m
    BY <1>1, <1>2
  <2>. HIDE DEF m
  <2>3. P(m)
    <3>1. (nwrite + m - 1) % PIPESIZE = (nread + Used + m - 1) % PIPESIZE
      BY <2>1, WritePlace, Zenon
    <3>. QED BY <2>1, <3>1, Zenon
  <2>4. \A j \in 1..k : P(j) => j = m
    BY <1>3, <2>2, Zenon
  <2>. HIDE DEF P
  <2>5. (CHOOSE j \in DOMAIN bs : P(j)) = m
    BY <1>1, <2>1, <2>3, <2>4, Zenon
  <2>6. \E j \in DOMAIN bs : P(j)
    BY <1>1, <2>1, <2>3, Zenon
  <2>7. Stored(bs, x) = bs[m]
    BY <2>5, <2>6, Zenon DEF Stored, P
  <2>. HIDE DEF x
  <2>8. Stored(bs, x) = IF i <= Used THEN data[x] ELSE bs[m]
    BY <1>5, <2>7, Zenon
  <2>. QED BY <2>8, Zenon DEF x, m
<1>. QED BY <1>4, <1>5

LEMMA SameBytes ==
  ASSUME NEW s \in Seq(Byte), NEW t \in Seq(Byte), Len(s) = Len(t),
         \A i \in 1..Len(s) : s[i] = t[i]
  PROVE  s = t
OBVIOUS

LEMMA Appended ==
  ASSUME NEW s \in Seq(Byte), NEW t \in Seq(Byte), NEW u \in Seq(Byte),
         Len(u) = Len(s) + Len(t),
         \A i \in 1..Len(s) + Len(t) : u[i] = IF i <= Len(s) THEN s[i] ELSE t[i - Len(s)]
  PROVE  u = s \o t
<1>1. s \o t \in Seq(Byte) /\ Len(s \o t) = Len(s) + Len(t)
  OBVIOUS
<1>2. ASSUME NEW i \in 1..Len(s) + Len(t)
      PROVE  (s \o t)[i] = IF i <= Len(s) THEN s[i] ELSE t[i - Len(s)]
  OBVIOUS
<1>. QED BY <1>1, <1>2, SameBytes

LEMMA Sub ==
  ASSUME NEW s \in Seq(Byte), NEW m \in Nat, NEW n \in Nat, m <= n + 1, 1 <= m, n <= Len(s),
         NEW u \in Seq(Byte), Len(u) = n + 1 - m,
         \A i \in 1..n + 1 - m : u[i] = s[m + i - 1]
  PROVE  u = SubSeq(s, m, n)
<1>1. SubSeq(s, m, n) \in Seq(Byte) /\ Len(SubSeq(s, m, n)) = n + 1 - m
  OBVIOUS
<1>2. ASSUME NEW i \in 1..n + 1 - m
      PROVE  SubSeq(s, m, n)[i] = s[m + i - 1]
  OBVIOUS
<1>. QED BY <1>1, <1>2, SameBytes

\* The bytes in transit.
Transit ==
  /\ Oldest(Used) \in Seq(Byte) /\ Len(Oldest(Used)) = Used
  /\ \A i \in 1..Used : Oldest(Used)[i] = data[(nread + i - 1) % PIPESIZE]

LEMMA TransitNow == PInv => Transit
<1>. SUFFICES ASSUME PInv PROVE Transit
  OBVIOUS
<1>1. TypeOK /\ Used \in Nat
  BY Tests, ConstFacts DEF PInv
<1>. QED BY <1>1, OldestSeq, Zenon DEF Transit

LEMMA TransitNext == PInv' => Transit'
BY TransitNow, PTL

LEMMA TransitWrite ==
  ASSUME PInv, PInv', NEW k \in 0..PIPESIZE - Used, NEW bs \in [1..k -> Byte], Store(bs), nread' = nread
  PROVE  Oldest(Used)' = Oldest(Used) \o bs
<1>. DEFINE q == Oldest(Used)
            q2 == Oldest(Used)'
<1>1. /\ q \in Seq(Byte) /\ Len(q) = Used
      /\ \A i \in 1..Used : q[i] = data[(nread + i - 1) % PIPESIZE]
  BY TransitNow, Zenon DEF Transit
<1>2. /\ q2 \in Seq(Byte) /\ Len(q2) = Used'
      /\ \A i \in 1..Used' : q2[i] = data'[(nread + i - 1) % PIPESIZE]
  BY TransitNext, Zenon DEF Transit
<1>. HIDE DEF q, q2
<1>3. Used' = Used + k /\ \A x \in 0..PIPESIZE - 1 : data'[x] = Stored(bs, x)
  BY StoreFacts DEF PInv
<1>4. Used \in 0..PIPESIZE /\ nread \in Nat /\ k \in Nat
  BY Tests, ConstFacts DEF PInv, TypeOK
<1>5. bs \in Seq(Byte) /\ Len(bs) = k
  BY <1>4, Bytes
<1>. HIDE DEF Used
<1>6. ASSUME NEW i \in 1..Used + k
      PROVE  q2[i] = IF i <= Used THEN q[i] ELSE bs[i - Used]
  <2>. DEFINE x == (nread + i - 1) % PIPESIZE
  <2>1. nread + i - 1 \in Int
    BY <1>4
  <2>2. x \in 0..PIPESIZE - 1
    BY <2>1, ModRange, ConstFacts, Zenon
  <2>3. q2[i] = data'[x]
    BY <1>2, <1>3, Zenon
  <2>4. data'[x] = Stored(bs, x)
    BY <1>3, <2>2, Zenon
  <2>5. Stored(bs, x) = IF i <= Used THEN data[x] ELSE bs[i - Used]
    BY StoredAt, Zenon
  <2>6. i <= Used => q[i] = data[x]
    <3>1. i <= Used => i \in 1..Used
      BY <1>4
    <3>. QED BY <1>1, <3>1, Zenon
  <2>. HIDE DEF x
  <2>. QED BY <2>3, <2>4, <2>5, <2>6, Zenon
<1>7. q2 = q \o bs
  BY <1>1, <1>2, <1>3, <1>5, <1>6, Appended, Zenon
<1>. QED BY <1>7 DEF q, q2

LEMMA TransitRead ==
  ASSUME PInv, PInv', NEW k \in 0..Used, nread' = (nread + k) % UintMod, nwrite' = nwrite, data' = data
  PROVE  /\ Oldest(k) = SubSeq(Oldest(Used), 1, k)
         /\ Oldest(Used)' = SubSeq(Oldest(Used), k + 1, Len(Oldest(Used)))
<1>. DEFINE q == Oldest(Used)
            q2 == Oldest(Used)'
<1>1. /\ q \in Seq(Byte) /\ Len(q) = Used
      /\ \A i \in 1..Used : q[i] = data[(nread + i - 1) % PIPESIZE]
  BY TransitNow, Zenon DEF Transit
<1>2. /\ q2 \in Seq(Byte) /\ Len(q2) = Used'
      /\ \A i \in 1..Used' : q2[i] = data[(nread' + i - 1) % PIPESIZE]
  BY TransitNext, Zenon DEF Transit
<1>3. Used' = Used - k /\ Used \in 0..PIPESIZE /\ nread \in 0..UintMod - 1
  BY UsedAfterRead, Tests, ConstFacts DEF PInv, TypeOK
<1>4. k \in Nat /\ TypeOK
  <2>. HIDE DEF Used
  <2>. QED BY <1>3 DEF PInv
<1>. HIDE DEF q, q2
<1>5. Oldest(k) \in Seq(Byte) /\ Len(Oldest(k)) = k /\ \A i \in 1..k : Oldest(k)[i] = data[(nread + i - 1) % PIPESIZE]
  BY <1>4, OldestSeq, Zenon
<1>. HIDE DEF Used
<1>6. Oldest(k) = SubSeq(q, 1, k)
  <2>. DEFINE u == Oldest(k)
  <2>1. u \in Seq(Byte) /\ Len(u) = k
    BY <1>5
  <2>2. \A i \in 1..k : u[i] = q[1 + i - 1]
    <3>1. \A i \in 1..k : i \in 1..Used /\ 1 + i - 1 = i
      BY <1>3, <1>4, ConstFacts
    <3>. QED BY <1>1, <1>5, <3>1, Zenon
  <2>. HIDE DEF u
  <2>3. k + 1 - 1 = k /\ 1 <= k + 1 /\ k <= Len(q) /\ 1 \in Nat /\ 1 <= 1
    BY <1>1, <1>3, <1>4, ConstFacts
  <2>4. u = SubSeq(q, 1, k)
    BY <1>1, <1>4, <2>1, <2>2, <2>3, Sub
  <2>. QED BY <2>4 DEF u
<1>7. ASSUME NEW i \in 1..Used - k
      PROVE  q2[i] = q[k + i]
  <2>. DEFINE a == nread' + i - 1
              b == nread + (k + i) - 1
  <2>1. nread' = IF nread + k < UintMod THEN nread + k ELSE nread + k - UintMod
    <3>1. k \in 0..PIPESIZE
      BY <1>3, ConstFacts
    <3>. QED BY <1>3, <3>1, CountOn, Zenon
  <2>2. a \in Int /\ UintMod \in Int /\ (b = a \/ b = a + UintMod)
    BY <1>3, <2>1, ConstFacts
  <2>3. k + i \in 1..Used
    BY <1>3, <1>4
  <2>4. q2[i] = data[a % PIPESIZE] /\ q[k + i] = data[b % PIPESIZE]
    BY <1>1, <1>2, <1>3, <2>3, Zenon
  <2>. HIDE DEF a, b
  <2>5. (a + UintMod) % PIPESIZE = a % PIPESIZE
    BY <2>2, ModShift, WholeBuffers, ConstFacts, Zenon
  <2>. QED BY <2>2, <2>4, <2>5, Zenon
<1>8. q2 = SubSeq(q, k + 1, Len(q))
  BY <1>1, <1>2, <1>3, <1>4, <1>7
<1>. QED BY <1>6, <1>8 DEF q, q2

QueueStep == [Queue!Next]_<<Oldest(Used), got>>

\* A write puts its bytes at the end of the queue, or does nothing.
LEMMA WriteIsPut ==
  ASSUME PInv, PInv', NEW k \in 0..PIPESIZE - Used, NEW bs \in [1..k -> Byte], Store(bs),
         nread' = nread, got' = got
  PROVE  QueueStep
<1>1. Oldest(Used)' = Oldest(Used) \o bs
  BY TransitWrite
<1>2. Oldest(Used) \in Seq(Byte) /\ Len(Oldest(Used)) = Used
  BY TransitNow DEF Transit
<1>3. Used \in 0..PIPESIZE
  BY Tests, ConstFacts DEF PInv
<1>4. bs \in Seq(Byte) /\ Len(bs) = k /\ k \in Nat
  <2>1. k \in Nat
    <3>. HIDE DEF Used
    <3>. QED BY <1>3, ConstFacts
  <2>. QED BY <2>1, Bytes
<1>5. CASE k = 0
  <2>. DEFINE q == Oldest(Used)
  <2>1. q \o bs = q
    <3>. HIDE DEF q
    <3>1. q \in Seq(Byte)
      BY <1>2 DEF q
    <3>. QED BY <1>4, <1>5, <3>1
  <2>. QED BY <1>1, <2>1 DEF QueueStep
<1>6. CASE k # 0
  <2>1. k \in 1..PIPESIZE - Len(Oldest(Used))
    <3>. HIDE DEF Used
    <3>. QED BY <1>2, <1>3, <1>4, <1>6, ConstFacts
  <2>2. Queue!Put
    BY <1>1, <2>1, Zenon DEF Queue!Put
  <2>. QED BY <2>2 DEF QueueStep, Queue!Next
<1>. QED BY <1>5, <1>6

\* A read takes its bytes from the front.
LEMMA ReadIsTake ==
  ASSUME PInv, PInv', NEW r \in Reader, ReadSome(r)
  PROVE  QueueStep
<1>. DEFINE n == Smaller(left[r], Used)
<1>1. /\ nread' = (nread + n) % UintMod /\ nwrite' = nwrite /\ data' = data
      /\ got' = [got EXCEPT ![r] = Oldest(n)]
  BY DEF ReadSome
<1>2. n \in 0..Used
  BY Readable
<1>. HIDE DEF n
<1>3. /\ Oldest(n) = SubSeq(Oldest(Used), 1, n)
      /\ Oldest(Used)' = SubSeq(Oldest(Used), n + 1, Len(Oldest(Used)))
  BY <1>1, <1>2, TransitRead, Zenon
<1>4. n \in 0..Len(Oldest(Used))
  BY <1>2, TransitNow, Zenon DEF Transit
<1>5. Queue!Take(r)
  BY <1>1, <1>3, <1>4, Zenon DEF Queue!Take
<1>. QED BY <1>5 DEF QueueStep, Queue!Next

LEMMA TransitKept ==
  ASSUME data' = data, nread' = nread, nwrite' = nwrite, got' = got
  PROVE  QueueStep
BY DEF QueueStep, Oldest, Used

LEMMA NextIsQueueStep == PInv /\ PInv' /\ [Next]_vars => QueueStep
<1>. SUFFICES ASSUME PInv, PInv', [Next]_vars PROVE QueueStep
  OBVIOUS
<1>1. ASSUME NEW w \in Writer, WriteAll(w) PROVE QueueStep
  <2>1. PICK bs \in [1..left[w] -> Byte] : Store(bs)
    BY <1>1 DEF WriteAll
  <2>2. left[w] \in 0..PIPESIZE - Used /\ nread' = nread /\ got' = got
    BY <1>1, Writable DEF WriteAll
  <2>. QED BY <2>1, <2>2, WriteIsPut, Zenon
<1>2. ASSUME NEW w \in Writer, WriteFull(w) PROVE QueueStep
  <2>1. PICK bs \in [1..PIPESIZE - Used -> Byte] : Store(bs)
    BY <1>2 DEF WriteFull
  <2>2. PIPESIZE - Used \in 0..PIPESIZE - Used /\ nread' = nread /\ got' = got
    BY <1>2, Writable DEF WriteFull
  <2>. QED BY <2>1, <2>2, WriteIsPut, Zenon
<1>3. ASSUME NEW w \in Writer, WriteSleep(w) PROVE QueueStep
  BY <1>3, TransitKept DEF WriteSleep, pipe
<1>4. ASSUME NEW r \in Reader, ReadSome(r) PROVE QueueStep
  BY <1>4, ReadIsTake
<1>5. ASSUME NEW r \in Reader, ReadEmpty(r) \/ ReadSleep(r) PROVE QueueStep
  BY <1>5, TransitKept DEF ReadEmpty, ReadSleep, pipe
<1>6. ASSUME NEW p \in Process, NEW n \in Counts, Call(p, n) PROVE QueueStep
  BY <1>6, TransitKept DEF Call, pipe
<1>7. ASSUME NEW p \in Process, Close(p) \/ Kill(p) PROVE QueueStep
  BY <1>7, TransitKept DEF Close, Kill, pipe
<1>8. CASE UNCHANGED vars
  BY <1>8, TransitKept DEF vars, pipe
<1>. QED BY <1>1, <1>2, <1>3, <1>4, <1>5, <1>6, <1>7, <1>8, Zenon DEF Next, Write, Read

LEMMA InitIsQueueInit == Init => Queue!Init
<1>. SUFFICES ASSUME Init PROVE Queue!Init
  OBVIOUS
<1>1. Used = 0 /\ PInv
  <2>1. nread = 0 /\ nwrite = 0 /\ 0 \in 0..UintMod - 1
    BY ConstFacts DEF Init
  <2>. QED BY <2>1, Distance, InitPInv DEF Used
<1>2. Oldest(Used) \in Seq(Byte) /\ Len(Oldest(Used)) = 0
  BY <1>1, TransitNow DEF Transit
<1>. DEFINE q == Oldest(Used)
<1>. HIDE DEF q
<1>3. q = <<>>
  <2>1. q \in Seq(Byte) /\ Len(q) = 0
    BY <1>2 DEF q
  <2>. QED BY <2>1
<1>. QED BY <1>3 DEF q, Init, Queue!Init

\* The ring buffer of pipe.c implements a bounded queue of bytes, for any size
\* of the buffer that divides the range of the counters, any number of readers
\* and writers, and across the wrap of nread and nwrite.
THEOREM PipeImplementsFifo == Spec => PipeIsFifo
<1>1. PInv /\ PInv' /\ [Next]_vars => [Queue!Next]_<<Oldest(Used), got>>
  BY NextIsQueueStep DEF QueueStep
<1>. QED BY <1>1, InitIsQueueInit, PipeInv, PTL DEF Spec, PipeIsFifo, Queue!Spec
=============================================================================
