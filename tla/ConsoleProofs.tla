--------------------------- MODULE ConsoleProofs ---------------------------
EXTENDS Console, WellFoundedInduction, TLAPS

-----------------------------------------------------------------------------
(* The inductive invariant. *)

\* The n characters of the ring b from a on.
Ring(b, a, n) == [i \in 1..n |-> b[Plus(a, i - 1) % INPUT_BUF]]

Line == Ring(buf, w, Minus(e, w))
Ready == Ring(buf, r, Avail)
Ends == {"nl", "^D"}

TypeOK ==
  /\ buf \in [0..INPUT_BUF - 1 -> Char]
  /\ r \in 0..UintMod - 1 /\ w \in 0..UintMod - 1 /\ e \in 0..UintMod - 1
  /\ at \in [Process -> {"user", "loop", "sleep", "asleep"}]
  /\ target \in [Process -> Nat]
  /\ got \in [Process -> Seq(Char)]
  /\ killed \in [Process -> BOOLEAN]

\* r, w and e are in this order and at most a buffer apart, the line being
\* edited does not fill it, and holds no end of a line.
RingInv ==
  /\ Avail + Minus(e, w) <= INPUT_BUF /\ Minus(e, w) < INPUT_BUF
  /\ \A i \in 1..Minus(e, w) : Line[i] \notin Ends

\* A read in progress has room for more, has seen no end of a line, and sleeps
\* only when there is nothing to read.
ReadInv ==
  /\ \A p \in Process : at[p] # "user" =>
       /\ Len(got[p]) <= target[p]
       /\ \A i \in DOMAIN got[p] : got[p][i] \notin Ends
  /\ \A p \in Process : at[p] \in {"sleep", "asleep"} => r = w

CInv == TypeOK /\ RingInv /\ ReadInv
-----------------------------------------------------------------------------
(* Remainders. *)

LEMMA ModRange ==
  ASSUME NEW a \in Int, NEW m \in Nat \ {0}
  PROVE  a % m \in 0..m - 1
OBVIOUS

LEMMA ModDiv ==
  ASSUME NEW a \in Int, NEW m \in Nat \ {0}
  PROVE  /\ a \div m \in Int
         /\ a = m * (a \div m) + (a % m)
OBVIOUS

\* A number between two multiples of m.
LEMMA MultipleZero ==
  ASSUME NEW m \in Nat \ {0}, NEW k \in Int, m * k < m, m * k > -m
  PROVE  k = 0
<1>1. CASE k >= 1
  <2>1. m * k >= m * 1
    BY <1>1
  <2>. QED BY <2>1
<1>2. CASE k <= -1
  <2>1. m * k <= m * (-1)
    BY <1>2
  <2>. QED BY <2>1
<1>. QED BY <1>1, <1>2

LEMMA ModUnique ==
  ASSUME NEW a \in Int, NEW m \in Nat \ {0}, NEW k \in Int, NEW x \in 0..m - 1, a = m * k + x
  PROVE  a % m = x
<1>. DEFINE d == a \div m
            s == a % m
<1>1. d \in Int /\ a = m * d + s /\ s \in 0..m - 1
  BY ModRange, ModDiv, Zenon
<1>. HIDE DEF d, s
<1>2. m * (d - k) = m * d - m * k
  BY <1>1
<1>3. m * (d - k) = x - s
  BY <1>1, <1>2
<1>4. d - k \in Int /\ m * (d - k) < m /\ m * (d - k) > -m
  BY <1>1, <1>3
<1>5. d - k = 0
  BY <1>4, MultipleZero
<1>. QED BY <1>1, <1>3, <1>5 DEF s

LEMMA ModSmall ==
  ASSUME NEW m \in Nat \ {0}, NEW a \in Int
  PROVE  /\ a \in 0..m - 1 => a % m = a
         /\ a - m \in 0..m - 1 => a % m = a - m
         /\ a + m \in 0..m - 1 => a % m = a + m
<1>1. /\ a = m * 0 + a
      /\ a = m * 1 + (a - m)
      /\ a = m * (-1) + (a + m)
  OBVIOUS
<1>. QED BY <1>1, ModUnique

\* Adding a multiple of m changes no remainder.
LEMMA ModShift ==
  ASSUME NEW m \in Nat \ {0}, NEW a \in Int, NEW u \in Int, u % m = 0
  PROVE  (a + u) % m = a % m
<1>. DEFINE d == a \div m
            f == u \div m
            x == a % m
<1>1. /\ d \in Int /\ f \in Int /\ x \in 0..m - 1
      /\ a = m * d + x /\ u = m * f
  BY ModRange, ModDiv
<1>. HIDE DEF d, f, x
<1>2. m * (d + f) = m * d + m * f
  BY <1>1
<1>. DEFINE b == a + u
            k == d + f
<1>3. b \in Int /\ k \in Int /\ b = m * k + x
  BY <1>1, <1>2
<1>. HIDE DEF b, k
<1>4. b % m = x
  BY <1>1, <1>3, ModUnique, Zenon
<1>. QED BY <1>4 DEF b, x

\* Numbers less than m apart have different remainders.
LEMMA ModInjective ==
  ASSUME NEW m \in Nat \ {0}, NEW a \in Int, NEW b \in Int, a - b < m, b - a < m, a % m = b % m
  PROVE  a = b
<1>. DEFINE d == a \div m
            f == b \div m
            x == a % m
<1>1. /\ d \in Int /\ f \in Int /\ x \in 0..m - 1
      /\ a = m * d + x /\ b = m * f + x
  BY ModRange, ModDiv
<1>. HIDE DEF d, f, x
<1>2. m * (d - f) = m * d - m * f
  BY <1>1
<1>3. m * (d - f) = a - b /\ d - f \in Int
  BY <1>1, <1>2
<1>4. d - f = 0
  BY <1>3, MultipleZero
<1>. QED BY <1>1, <1>3, <1>4

\* A nonempty set of naturals has a least element.
LEMMA Least ==
  ASSUME NEW T \in SUBSET Nat, T # {}
  PROVE  \E x \in T : \A y \in T : x <= y
<1>. DEFINE R == OpToRel(<, Nat)
<1>1. IsWellFoundedOn(R, Nat)
  BY NatLessThanWellFounded, Zenon
<1>2. \A x, y \in Nat : x < y => <<x, y>> \in R
  BY DEF OpToRel
<1>. HIDE DEF R
<1>3. \E x \in T : \A y \in T : ~ (<<y, x>> \in R)
  BY <1>1, WFMin, Zenon
<1>4. PICK x \in T : \A y \in T : ~ (<<y, x>> \in R)
  BY <1>3
<1>5. ASSUME NEW y \in T PROVE x <= y
  <2>1. x \in Nat /\ y \in Nat
    OBVIOUS
  <2>2. ~(y < x)
    BY <1>4, <1>2, <2>1, Zenon
  <2>. QED BY <2>1, <2>2
<1>. QED BY <1>5

-----------------------------------------------------------------------------
(* The counters. *)

LEMMA ConstFacts ==
  /\ INPUT_BUF \in Nat \ {0} /\ UintMod \in Nat \ {0} /\ INPUT_BUF < UintMod
  /\ Counts \subseteq Nat
BY ConsoleAssumption

\* The buffer begins anew where the counters wrap.
LEMMA WholeBuffers == UintMod % INPUT_BUF = 0
BY ConsoleAssumption

LEMMA PlusIs ==
  ASSUME NEW a \in 0..UintMod - 1, NEW k \in 0..INPUT_BUF
  PROVE  /\ Plus(a, k) = IF a + k < UintMod THEN a + k ELSE a + k - UintMod
         /\ Plus(a, k) \in 0..UintMod - 1
<1>. USE ConstFacts
<1>. DEFINE c == a + k
<1>1. c \in Int /\ c >= 0 /\ c - UintMod < UintMod
  OBVIOUS
<1>. HIDE DEF c
<1>2. CASE c < UintMod
  <2>1. c \in 0..UintMod - 1
    BY <1>1, <1>2
  <2>2. c % UintMod = c
    BY <1>1, <2>1, ModSmall, Zenon
  <2>. QED BY <1>2, <2>1, <2>2 DEF c, Plus
<1>3. CASE ~(c < UintMod)
  <2>1. c - UintMod \in 0..UintMod - 1
    BY <1>1, <1>3
  <2>2. c % UintMod = c - UintMod
    BY <1>1, <2>1, ModSmall, Zenon
  <2>. QED BY <1>3, <2>1, <2>2 DEF c, Plus
<1>. QED BY <1>2, <1>3

LEMMA MinusIs ==
  ASSUME NEW b \in 0..UintMod - 1, NEW a \in 0..UintMod - 1
  PROVE  /\ Minus(b, a) = IF a <= b THEN b - a ELSE b - a + UintMod
         /\ Minus(b, a) \in 0..UintMod - 1
<1>. USE ConstFacts
<1>1. CASE a <= b
  <2>1. b - a \in 0..UintMod - 1 /\ b - a \in Int
    BY <1>1
  <2>2. (b - a) % UintMod = b - a
    BY <2>1, ModSmall, ConstFacts, Zenon
  <2>. QED BY <1>1, <2>1, <2>2 DEF Minus
<1>2. CASE ~(a <= b)
  <2>1. b - a + UintMod \in 0..UintMod - 1 /\ b - a \in Int
    BY <1>2
  <2>2. (b - a) % UintMod = b - a + UintMod
    BY <2>1, ModSmall, ConstFacts, Zenon
  <2>. QED BY <1>2, <2>1, <2>2 DEF Minus
<1>. QED BY <1>1, <1>2

\* Where the ring has its k-th place from a on.
LEMMA PlaceIs ==
  ASSUME NEW a \in 0..UintMod - 1, NEW k \in 0..INPUT_BUF
  PROVE  /\ Plus(a, k) % INPUT_BUF = (a + k) % INPUT_BUF
         /\ Plus(a, k) % INPUT_BUF \in 0..INPUT_BUF - 1
<1>. USE ConstFacts
<1>1. a + k \in Int /\ Plus(a, k) \in Int /\ UintMod \in Int
  BY PlusIs
<1>2. Plus(a, k) % INPUT_BUF \in 0..INPUT_BUF - 1
  BY <1>1, ModRange, Zenon
<1>3. CASE Plus(a, k) = a + k
  BY <1>2, <1>3
<1>4. CASE Plus(a, k) # a + k
  <2>1. Plus(a, k) + UintMod = a + k
    BY <1>1, <1>4, PlusIs
  <2>2. (Plus(a, k) + UintMod) % INPUT_BUF = Plus(a, k) % INPUT_BUF
    BY <1>1, WholeBuffers, ModShift, Zenon
  <2>. QED BY <1>2, <2>1, <2>2
<1>. QED BY <1>3, <1>4

\* The same place, counted from a counter that has gone on.
LEMMA PlaceMoved ==
  ASSUME NEW a \in 0..UintMod - 1, NEW j \in 0..INPUT_BUF, NEW k \in 0..INPUT_BUF, j + k <= INPUT_BUF
  PROVE  Plus(Plus(a, j), k) % INPUT_BUF = Plus(a, j + k) % INPUT_BUF
<1>. USE ConstFacts
<1>1. /\ Plus(a, j) \in 0..UintMod - 1 /\ j + k \in 0..INPUT_BUF
      /\ Plus(a, j) = a + j \/ Plus(a, j) = a + j - UintMod
  BY PlusIs
<1>2. Plus(a, j + k) % INPUT_BUF = (a + (j + k)) % INPUT_BUF
  BY <1>1, PlaceIs
<1>3. Plus(Plus(a, j), k) % INPUT_BUF = (Plus(a, j) + k) % INPUT_BUF
  BY <1>1, PlaceIs
<1>4. CASE Plus(a, j) = a + j
  <2>1. Plus(a, j) + k = a + (j + k)
    BY <1>4
  <2>. QED BY <1>2, <1>3, <2>1
<1>5. CASE Plus(a, j) = a + j - UintMod
  <2>. DEFINE c == Plus(a, j) + k
  <2>1. c \in Int /\ c + UintMod = a + (j + k) /\ UintMod \in Int
    BY <1>5
  <2>. HIDE DEF c
  <2>2. (c + UintMod) % INPUT_BUF = c % INPUT_BUF
    BY <2>1, WholeBuffers, ModShift, Zenon
  <2>. QED BY <1>2, <1>3, <2>1, <2>2 DEF c
<1>. QED BY <1>1, <1>4, <1>5

LEMMA PlacesDiffer ==
  ASSUME NEW a \in 0..UintMod - 1, NEW j \in 0..INPUT_BUF - 1, NEW k \in 0..INPUT_BUF - 1, j # k
  PROVE  Plus(a, j) % INPUT_BUF # Plus(a, k) % INPUT_BUF
<1>. USE ConstFacts
<1>1. j \in 0..INPUT_BUF /\ k \in 0..INPUT_BUF
  OBVIOUS
<1>2. /\ Plus(a, j) % INPUT_BUF = (a + j) % INPUT_BUF
      /\ Plus(a, k) % INPUT_BUF = (a + k) % INPUT_BUF
  BY <1>1, PlaceIs
<1>. DEFINE c == a + j
            d == a + k
<1>3. c \in Int /\ d \in Int /\ c - d < INPUT_BUF /\ d - c < INPUT_BUF /\ c # d
  OBVIOUS
<1>. HIDE DEF c, d
<1>4. c % INPUT_BUF # d % INPUT_BUF
  BY <1>3, ModInjective, Zenon
<1>. QED BY <1>2, <1>4 DEF c, d

-----------------------------------------------------------------------------
(* Stretches of the ring. *)

Bufs == [0..INPUT_BUF - 1 -> Char]

LEMMA RingSeq ==
  ASSUME NEW b \in Bufs, NEW a \in 0..UintMod - 1, NEW n \in 0..INPUT_BUF
  PROVE  /\ Ring(b, a, n) \in Seq(Char) /\ Len(Ring(b, a, n)) = n
         /\ \A i \in 1..n : /\ Ring(b, a, n)[i] = b[Plus(a, i - 1) % INPUT_BUF]
                            /\ Ring(b, a, n)[i] \in Char
<1>. USE ConstFacts
<1>1. ASSUME NEW i \in 1..n PROVE b[Plus(a, i - 1) % INPUT_BUF] \in Char
  <2>1. i - 1 \in 0..INPUT_BUF
    OBVIOUS
  <2>2. Plus(a, i - 1) % INPUT_BUF \in 0..INPUT_BUF - 1
    BY <2>1, PlaceIs
  <2>. QED BY <2>2 DEF Bufs
<1>2. Ring(b, a, n) \in [1..n -> Char]
  BY <1>1, Zenon DEF Ring
<1>3. \A i \in 1..n : Ring(b, a, n)[i] = b[Plus(a, i - 1) % INPUT_BUF]
  BY Zenon DEF Ring
<1>4. n \in Nat
  OBVIOUS
<1>5. \A s \in [1..n -> Char] : s \in Seq(Char) /\ Len(s) = n
  BY <1>4
<1>. QED BY <1>1, <1>2, <1>3, <1>5

LEMMA SameChars ==
  ASSUME NEW s \in Seq(Char), NEW t \in Seq(Char), Len(s) = Len(t),
         \A i \in 1..Len(s) : s[i] = t[i]
  PROVE  s = t
OBVIOUS

LEMMA Appended ==
  ASSUME NEW s \in Seq(Char), NEW t \in Seq(Char), NEW u \in Seq(Char),
         Len(u) = Len(s) + Len(t),
         \A i \in 1..Len(s) + Len(t) : u[i] = IF i <= Len(s) THEN s[i] ELSE t[i - Len(s)]
  PROVE  u = s \o t
<1>1. s \o t \in Seq(Char) /\ Len(s \o t) = Len(s) + Len(t)
  OBVIOUS
<1>2. ASSUME NEW i \in 1..Len(s) + Len(t)
      PROVE  (s \o t)[i] = IF i <= Len(s) THEN s[i] ELSE t[i - Len(s)]
  OBVIOUS
<1>. QED BY <1>1, <1>2, SameChars

LEMMA Sub ==
  ASSUME NEW s \in Seq(Char), NEW m \in Nat, NEW n \in Nat, m <= n + 1, 1 <= m, n <= Len(s),
         NEW u \in Seq(Char), Len(u) = n + 1 - m,
         \A i \in 1..n + 1 - m : u[i] = s[m + i - 1]
  PROVE  u = SubSeq(s, m, n)
<1>1. SubSeq(s, m, n) \in Seq(Char) /\ Len(SubSeq(s, m, n)) = n + 1 - m
  OBVIOUS
<1>2. ASSUME NEW i \in 1..n + 1 - m
      PROVE  SubSeq(s, m, n)[i] = s[m + i - 1]
  OBVIOUS
<1>. QED BY <1>1, <1>2, SameChars

LEMMA RingHead ==
  ASSUME NEW b \in Bufs, NEW a \in 0..UintMod - 1, NEW n \in 0..INPUT_BUF, NEW k \in 0..n
  PROVE  Ring(b, a, k) = SubSeq(Ring(b, a, n), 1, k)
<1>. USE ConstFacts
<1>. DEFINE s == Ring(b, a, n)
            t == Ring(b, a, k)
<1>1. k \in 0..INPUT_BUF /\ n \in Nat /\ k \in Nat /\ k <= n
  OBVIOUS
<1>2. /\ s \in Seq(Char) /\ Len(s) = n /\ t \in Seq(Char) /\ Len(t) = k
      /\ \A i \in 1..n : s[i] = b[Plus(a, i - 1) % INPUT_BUF]
      /\ \A i \in 1..k : t[i] = b[Plus(a, i - 1) % INPUT_BUF]
  BY <1>1, RingSeq, Zenon
<1>. HIDE DEF s, t
<1>3. \A i \in 1..k + 1 - 1 : t[i] = s[1 + i - 1]
  BY <1>1, <1>2
<1>4. 1 \in Nat /\ 1 <= k + 1 /\ 1 <= 1 /\ k <= Len(s) /\ Len(t) = k + 1 - 1
  BY <1>1, <1>2
<1>5. t = SubSeq(s, 1, k)
  BY <1>1, <1>2, <1>3, <1>4, Sub
<1>. QED BY <1>5 DEF s, t

LEMMA RingTail ==
  ASSUME NEW b \in Bufs, NEW a \in 0..UintMod - 1, NEW n \in 0..INPUT_BUF, NEW k \in 0..n
  PROVE  Ring(b, Plus(a, k), n - k) = SubSeq(Ring(b, a, n), k + 1, n)
<1>. USE ConstFacts
<1>. DEFINE s == Ring(b, a, n)
            c == Plus(a, k)
            l == n - k
            t == Ring(b, c, l)
<1>1. k \in 0..INPUT_BUF /\ n \in Nat /\ k \in Nat /\ k <= n /\ l \in 0..INPUT_BUF /\ l \in Nat
      /\ c \in 0..UintMod - 1
  BY PlusIs
<1>2. ASSUME NEW i \in 1..l PROVE Plus(c, i - 1) % INPUT_BUF = Plus(a, k + i - 1) % INPUT_BUF
  <2>1. i - 1 \in 0..INPUT_BUF /\ k + (i - 1) <= INPUT_BUF /\ k + (i - 1) = k + i - 1
    OBVIOUS
  <2>2. Plus(Plus(a, k), i - 1) % INPUT_BUF = Plus(a, k + (i - 1)) % INPUT_BUF
    BY <1>1, <2>1, PlaceMoved
  <2>. QED BY <2>1, <2>2
<1>. HIDE DEF c
<1>3. l = n - k
  OBVIOUS
<1>. HIDE DEF l
<1>4. /\ s \in Seq(Char) /\ Len(s) = n /\ t \in Seq(Char) /\ Len(t) = l
      /\ \A i \in 1..n : s[i] = b[Plus(a, i - 1) % INPUT_BUF]
      /\ \A i \in 1..l : t[i] = b[Plus(c, i - 1) % INPUT_BUF]
  BY <1>1, RingSeq, Zenon
<1>. HIDE DEF s, t
<1>5. ASSUME NEW i \in 1..n + 1 - (k + 1) PROVE t[i] = s[k + 1 + i - 1]
  <2>1. i \in 1..l /\ k + i \in 1..n /\ k + 1 + i - 1 = k + i
    BY <1>1, <1>3
  <2>2. s[k + i] = b[Plus(a, k + i - 1) % INPUT_BUF]
    BY <1>4, <2>1
  <2>. QED BY <1>2, <1>4, <2>1, <2>2
<1>6. k + 1 \in Nat /\ k + 1 <= n + 1 /\ 1 <= k + 1 /\ n <= Len(s) /\ Len(t) = n + 1 - (k + 1)
  BY <1>1, <1>3, <1>4
<1>7. t = SubSeq(s, k + 1, n)
  BY <1>1, <1>4, <1>5, <1>6, Sub
<1>. QED BY <1>7 DEF s, t, c, l

\* Two stretches that follow each other.
LEMMA RingJoin ==
  ASSUME NEW b \in Bufs, NEW a \in 0..UintMod - 1, NEW m \in 0..INPUT_BUF, NEW n \in 0..INPUT_BUF,
         m + n <= INPUT_BUF
  PROVE  Ring(b, a, m + n) = Ring(b, a, m) \o Ring(b, Plus(a, m), n)
<1>. USE ConstFacts
<1>. DEFINE l == m + n
            c == Plus(a, m)
            u == Ring(b, a, l)
            s == Ring(b, a, m)
            t == Ring(b, c, n)
<1>1. l \in 0..INPUT_BUF /\ c \in 0..UintMod - 1 /\ l = m + n /\ m \in Nat /\ n \in Nat /\ l \in Nat
  BY PlusIs
<1>2. ASSUME NEW i \in 1..n PROVE Plus(c, i - 1) % INPUT_BUF = Plus(a, m + i - 1) % INPUT_BUF
  <2>1. i - 1 \in 0..INPUT_BUF /\ m + (i - 1) <= INPUT_BUF /\ m + (i - 1) = m + i - 1
    OBVIOUS
  <2>2. Plus(Plus(a, m), i - 1) % INPUT_BUF = Plus(a, m + (i - 1)) % INPUT_BUF
    BY <2>1, PlaceMoved
  <2>. QED BY <2>1, <2>2
<1>. HIDE DEF l, c
<1>3. /\ s \in Seq(Char) /\ Len(s) = m /\ t \in Seq(Char) /\ Len(t) = n
      /\ u \in Seq(Char) /\ Len(u) = l
      /\ \A i \in 1..m : s[i] = b[Plus(a, i - 1) % INPUT_BUF]
      /\ \A i \in 1..n : t[i] = b[Plus(c, i - 1) % INPUT_BUF]
      /\ \A i \in 1..l : u[i] = b[Plus(a, i - 1) % INPUT_BUF]
  <2>1. /\ s \in Seq(Char) /\ Len(s) = m /\ \A i \in 1..m : s[i] = b[Plus(a, i - 1) % INPUT_BUF]
    BY <1>1, RingSeq, Zenon
  <2>2. /\ t \in Seq(Char) /\ Len(t) = n /\ \A i \in 1..n : t[i] = b[Plus(c, i - 1) % INPUT_BUF]
    BY <1>1, RingSeq, Zenon
  <2>3. /\ u \in Seq(Char) /\ Len(u) = l /\ \A i \in 1..l : u[i] = b[Plus(a, i - 1) % INPUT_BUF]
    BY <1>1, RingSeq, Zenon
  <2>. QED BY <2>1, <2>2, <2>3, Zenon
<1>. HIDE DEF s, t, u
<1>4. ASSUME NEW i \in 1..m + n PROVE u[i] = IF i <= m THEN s[i] ELSE t[i - m]
  <2>1. CASE i <= m
    <3>1. i \in 1..m /\ i \in 1..l
      BY <1>1, <2>1
    <3>. QED BY <1>3, <2>1, <3>1
  <2>2. CASE ~(i <= m)
    <3>1. i - m \in 1..n /\ m + (i - m) - 1 = i - 1
      BY <1>1, <2>2
    <3>2. Plus(c, (i - m) - 1) % INPUT_BUF = Plus(a, m + (i - m) - 1) % INPUT_BUF
      BY <1>2, <3>1
    <3>3. t[i - m] = b[Plus(c, (i - m) - 1) % INPUT_BUF] /\ u[i] = b[Plus(a, i - 1) % INPUT_BUF]
      BY <1>1, <1>3, <3>1
    <3>4. u[i] = t[i - m]
      BY <3>1, <3>2, <3>3
    <3>. QED BY <2>2, <3>4
  <2>. QED BY <2>1, <2>2
<1>5. u = s \o t
  BY <1>1, <1>3, <1>4, Appended, Zenon
<1>. QED BY <1>5 DEF u, s, t, l, c

\* x is stored m places from a on.
Put(b, b2, a, m, x) == b2 = [b EXCEPT ![Plus(a, m) % INPUT_BUF] = x]

\* Before that place nothing changes ...
LEMMA RingKept ==
  ASSUME NEW b \in Bufs, NEW a \in 0..UintMod - 1, NEW m \in 0..INPUT_BUF - 1, NEW n \in 0..m,
         NEW x \in Char, NEW b2, Put(b, b2, a, m, x)
  PROVE  b2 \in Bufs /\ Ring(b2, a, n) = Ring(b, a, n)
<1>. USE ConstFacts
<1>1. m \in 0..INPUT_BUF /\ n \in 0..INPUT_BUF
  OBVIOUS
<1>2. Plus(a, m) % INPUT_BUF \in 0..INPUT_BUF - 1
  BY <1>1, PlaceIs
<1>3. b2 \in Bufs /\ \A y \in 0..INPUT_BUF - 1 : y # Plus(a, m) % INPUT_BUF => b2[y] = b[y]
  BY <1>2 DEF Bufs, Put
<1>4. ASSUME NEW i \in 1..n PROVE b2[Plus(a, i - 1) % INPUT_BUF] = b[Plus(a, i - 1) % INPUT_BUF]
  <2>1. i - 1 \in 0..INPUT_BUF - 1 /\ i - 1 # m /\ i - 1 \in 0..INPUT_BUF
    OBVIOUS
  <2>2. Plus(a, i - 1) % INPUT_BUF # Plus(a, m) % INPUT_BUF
    BY <2>1, PlacesDiffer
  <2>3. Plus(a, i - 1) % INPUT_BUF \in 0..INPUT_BUF - 1
    BY <2>1, PlaceIs
  <2>. QED BY <1>3, <2>2, <2>3
<1>. QED BY <1>3, <1>4, Zenon DEF Ring

\* ... and it comes next.
LEMMA RingPut ==
  ASSUME NEW b \in Bufs, NEW a \in 0..UintMod - 1, NEW m \in 0..INPUT_BUF - 1,
         NEW x \in Char, NEW b2, Put(b, b2, a, m, x)
  PROVE  Ring(b2, a, m + 1) = Append(Ring(b, a, m), x)
<1>. USE ConstFacts
<1>1. m \in 0..INPUT_BUF /\ m \in 0..m /\ m + 1 \in 0..INPUT_BUF /\ m \in 0..m + 1 /\ m \in Nat
  OBVIOUS
<1>2. b2 \in Bufs /\ Ring(b2, a, m) = Ring(b, a, m)
  BY <1>1, RingKept
<1>3. Plus(a, m) % INPUT_BUF \in 0..INPUT_BUF - 1
  BY <1>1, PlaceIs
<1>. DEFINE s == Ring(b, a, m)
            l == m + 1
            u == Ring(b2, a, l)
<1>4. l = m + 1 /\ l \in 0..INPUT_BUF
  BY <1>1
<1>. HIDE DEF l
<1>5. /\ s \in Seq(Char) /\ Len(s) = m /\ u \in Seq(Char) /\ Len(u) = l
      /\ \A i \in 1..m : s[i] = Ring(b2, a, m)[i]
      /\ \A i \in 1..l : u[i] = b2[Plus(a, i - 1) % INPUT_BUF]
      /\ \A i \in 1..m : Ring(b2, a, m)[i] = b2[Plus(a, i - 1) % INPUT_BUF]
  <2>1. s \in Seq(Char) /\ Len(s) = m
    BY <1>1, RingSeq
  <2>2. u \in Seq(Char) /\ Len(u) = l /\ \A i \in 1..l : u[i] = b2[Plus(a, i - 1) % INPUT_BUF]
    BY <1>2, <1>4, RingSeq, Zenon
  <2>3. \A i \in 1..m : Ring(b2, a, m)[i] = b2[Plus(a, i - 1) % INPUT_BUF]
    BY <1>1, <1>2, RingSeq
  <2>. QED BY <1>2, <2>1, <2>2, <2>3, Zenon
<1>6. u[l] = x
  <2>1. u[l] = b2[Plus(a, m) % INPUT_BUF]
    <3>1. l \in 1..l /\ l - 1 = m
      BY <1>1, <1>4
    <3>2. u[l] = b2[Plus(a, l - 1) % INPUT_BUF]
      BY <1>5, <3>1, Zenon
    <3>. QED BY <3>1, <3>2
  <2>. QED BY <1>3, <2>1 DEF Bufs, Put
<1>. HIDE DEF s, u
<1>7. ASSUME NEW i \in 1..m PROVE u[i] = s[i]
  <2>1. i \in 1..l
    BY <1>1, <1>4
  <2>. QED BY <1>5, <2>1, Zenon
<1>8. Append(s, x) \in Seq(Char) /\ Len(Append(s, x)) = m + 1
      /\ (\A i \in 1..m : Append(s, x)[i] = s[i]) /\ Append(s, x)[m + 1] = x
  BY <1>1, <1>5
<1>9. ASSUME NEW i \in 1..l PROVE u[i] = Append(s, x)[i]
  <2>1. i \in 1..m \/ i = l
    BY <1>1, <1>4
  <2>. QED BY <1>4, <1>6, <1>7, <1>8, <2>1
<1>10. u = Append(s, x)
  BY <1>4, <1>5, <1>8, <1>9, SameChars
<1>. QED BY <1>10 DEF u, s, l

-----------------------------------------------------------------------------
(* The counters move. *)

LEMMA Forward ==
  ASSUME NEW a \in 0..UintMod - 1, NEW b \in 0..UintMod - 1, NEW k \in 0..INPUT_BUF,
         Minus(b, a) + k <= INPUT_BUF
  PROVE  Plus(b, k) \in 0..UintMod - 1 /\ Minus(Plus(b, k), a) = Minus(b, a) + k
<1>. USE ConstFacts
<1>1. /\ Plus(b, k) = IF b + k < UintMod THEN b + k ELSE b + k - UintMod
      /\ Plus(b, k) \in 0..UintMod - 1
  BY PlusIs
<1>2. Minus(b, a) = IF a <= b THEN b - a ELSE b - a + UintMod
  BY MinusIs
<1>. DEFINE c == Plus(b, k)
<1>3. Minus(c, a) = IF a <= c THEN c - a ELSE c - a + UintMod
  BY <1>1, MinusIs, Zenon
<1>. QED BY <1>1, <1>2, <1>3

LEMMA Onward ==
  ASSUME NEW a \in 0..UintMod - 1, NEW b \in 0..UintMod - 1, NEW k \in 0..INPUT_BUF, k <= Minus(b, a)
  PROVE  Plus(a, k) \in 0..UintMod - 1 /\ Minus(b, Plus(a, k)) = Minus(b, a) - k
<1>. USE ConstFacts
<1>1. /\ Plus(a, k) = IF a + k < UintMod THEN a + k ELSE a + k - UintMod
      /\ Plus(a, k) \in 0..UintMod - 1
  BY PlusIs
<1>2. Minus(b, a) = IF a <= b THEN b - a ELSE b - a + UintMod
  BY MinusIs
<1>. DEFINE c == Plus(a, k)
<1>3. Minus(b, c) = IF c <= b THEN b - c ELSE b - c + UintMod
  BY <1>1, MinusIs, Zenon
<1>. QED BY <1>1, <1>2, <1>3

LEMMA Back ==
  ASSUME NEW a \in 0..UintMod - 1, NEW b \in 0..UintMod - 1, NEW k \in 0..INPUT_BUF, k <= Minus(b, a),
         Minus(b, a) <= INPUT_BUF
  PROVE  /\ Minus(b, k) \in 0..UintMod - 1 /\ Minus(Minus(b, k), a) = Minus(b, a) - k
         /\ Minus(b, k) = Plus(a, Minus(b, a) - k)
<1>. USE ConstFacts
<1>1. k \in 0..UintMod - 1
  OBVIOUS
<1>2. /\ Minus(b, k) = IF k <= b THEN b - k ELSE b - k + UintMod
      /\ Minus(b, k) \in 0..UintMod - 1
  BY <1>1, MinusIs
<1>3. Minus(b, a) = IF a <= b THEN b - a ELSE b - a + UintMod
  BY MinusIs
<1>. DEFINE c == Minus(b, k)
            l == Minus(b, a) - k
<1>4. Minus(c, a) = IF a <= c THEN c - a ELSE c - a + UintMod
  BY <1>2, MinusIs, Zenon
<1>5. l \in 0..INPUT_BUF
  BY <1>3
<1>6. Plus(a, l) = IF a + l < UintMod THEN a + l ELSE a + l - UintMod
  BY <1>5, PlusIs
<1>. QED BY <1>2, <1>3, <1>4, <1>6

\* Three counters in order, at most a buffer apart.
LEMMA Between ==
  ASSUME NEW a \in 0..UintMod - 1, NEW b \in 0..UintMod - 1, NEW c \in 0..UintMod - 1,
         Minus(b, a) + Minus(c, b) <= INPUT_BUF
  PROVE  /\ Minus(b, a) \in 0..INPUT_BUF /\ Minus(c, b) \in 0..INPUT_BUF
         /\ Minus(c, a) = Minus(b, a) + Minus(c, b)
         /\ b = Plus(a, Minus(b, a)) /\ c = Plus(b, Minus(c, b)) /\ c = Plus(a, Minus(c, a))
         /\ Minus(c, a) < INPUT_BUF => (Plus(c, 1) = Plus(a, INPUT_BUF) <=> Minus(c, a) + 1 = INPUT_BUF)
<1>. USE ConstFacts
<1>1. /\ Minus(b, a) = (IF a <= b THEN b - a ELSE b - a + UintMod) /\ Minus(b, a) \in 0..UintMod - 1
      /\ Minus(c, b) = (IF b <= c THEN c - b ELSE c - b + UintMod) /\ Minus(c, b) \in 0..UintMod - 1
      /\ Minus(c, a) = (IF a <= c THEN c - a ELSE c - a + UintMod) /\ Minus(c, a) \in 0..UintMod - 1
  BY MinusIs
<1>2. Minus(b, a) \in 0..INPUT_BUF /\ Minus(c, b) \in 0..INPUT_BUF
  BY <1>1
<1>3. Minus(c, a) = Minus(b, a) + Minus(c, b)
  BY <1>1
<1>4. Minus(c, a) \in 0..INPUT_BUF /\ 1 \in 0..INPUT_BUF /\ INPUT_BUF \in 0..INPUT_BUF
  BY <1>2, <1>3
<1>5. b = Plus(a, Minus(b, a))
  <2>. DEFINE k == Minus(b, a)
  <2>1. Plus(a, k) = IF a + k < UintMod THEN a + k ELSE a + k - UintMod
    BY <1>2, PlusIs, Zenon
  <2>. QED BY <1>1, <2>1
<1>6. c = Plus(b, Minus(c, b))
  <2>. DEFINE k == Minus(c, b)
  <2>1. Plus(b, k) = IF b + k < UintMod THEN b + k ELSE b + k - UintMod
    BY <1>2, PlusIs, Zenon
  <2>. QED BY <1>1, <2>1
<1>7. c = Plus(a, Minus(c, a))
  <2>. DEFINE k == Minus(c, a)
  <2>1. Plus(a, k) = IF a + k < UintMod THEN a + k ELSE a + k - UintMod
    BY <1>4, PlusIs
  <2>. QED BY <1>1, <2>1
<1>8. Minus(c, a) < INPUT_BUF => (Plus(c, 1) = Plus(a, INPUT_BUF) <=> Minus(c, a) + 1 = INPUT_BUF)
  <2>1. /\ Plus(c, 1) = IF c + 1 < UintMod THEN c + 1 ELSE c + 1 - UintMod
        /\ Plus(a, INPUT_BUF) = IF a + INPUT_BUF < UintMod THEN a + INPUT_BUF ELSE a + INPUT_BUF - UintMod
    BY <1>4, PlusIs
  <2>. QED BY <1>1, <2>1
<1>. QED BY <1>2, <1>3, <1>5, <1>6, <1>7, <1>8

LEMMA Itself ==
  ASSUME NEW a \in 0..UintMod - 1
  PROVE  Minus(a, a) = 0 /\ Plus(a, 0) = a
BY MinusIs, PlusIs, ConstFacts

\* The counters of the console.
LEMMA Counters ==
  ASSUME TypeOK, RingInv
  PROVE  /\ Avail \in 0..INPUT_BUF /\ Minus(e, w) \in 0..INPUT_BUF - 1 /\ Minus(e, w) \in 0..INPUT_BUF
         /\ Minus(e, r) = Avail + Minus(e, w)
         /\ w = Plus(r, Avail) /\ e = Plus(w, Minus(e, w)) /\ e = Plus(r, Avail + Minus(e, w))
         /\ Minus(e, r) < INPUT_BUF =>
              (Plus(e, 1) = Plus(r, INPUT_BUF) <=> Avail + Minus(e, w) + 1 = INPUT_BUF)
         /\ Line \in Seq(Char) /\ Len(Line) = Minus(e, w)
         /\ Ready \in Seq(Char) /\ Len(Ready) = Avail
<1>. USE ConstFacts
<1>1. /\ r \in 0..UintMod - 1 /\ w \in 0..UintMod - 1 /\ e \in 0..UintMod - 1 /\ buf \in Bufs
      /\ Minus(w, r) + Minus(e, w) <= INPUT_BUF /\ Minus(e, w) < INPUT_BUF
  BY DEF TypeOK, RingInv, Avail, Bufs
<1>2. /\ Minus(w, r) \in 0..INPUT_BUF /\ Minus(e, w) \in 0..INPUT_BUF
      /\ Minus(e, r) = Minus(w, r) + Minus(e, w)
      /\ w = Plus(r, Minus(w, r)) /\ e = Plus(w, Minus(e, w)) /\ e = Plus(r, Minus(e, r))
      /\ Minus(e, r) < INPUT_BUF => (Plus(e, 1) = Plus(r, INPUT_BUF) <=> Minus(e, r) + 1 = INPUT_BUF)
  BY <1>1, Between
<1>3. Minus(e, w) \in 0..INPUT_BUF - 1
  BY <1>1, <1>2
<1>4. /\ Line \in Seq(Char) /\ Len(Line) = Minus(e, w)
      /\ Ready \in Seq(Char) /\ Len(Ready) = Avail
  BY <1>1, <1>2, RingSeq, Zenon DEF Line, Ready, Avail
<1>. QED BY <1>2, <1>3, <1>4, Zenon DEF Avail

-----------------------------------------------------------------------------
(* The steps of LineInput on a line l and complete input y, which become l2  *)
(* and y2.                                                                   *)

Typing(l, y, l2, y2) ==
  \E c \in Char :
    /\ Len(y) + Len(l) < INPUT_BUF
    /\ IF c \in {"nl", "^D"} \/ Len(y) + Len(l) + 1 = INPUT_BUF
       THEN y2 = y \o Append(l, c) /\ l2 = <<>>
       ELSE l2 = Append(l, c) /\ y2 = y
    /\ got' = got

Erasing(l, y, l2, y2) ==
  /\ l # <<>>
  /\ l2 \in {SubSeq(l, 1, Len(l) - 1), <<>>}
  /\ y2 = y /\ got' = got

Starting(p, l, y, l2, y2) == got' = [got EXCEPT ![p] = <<>>] /\ l2 = l /\ y2 = y

Delivering(p, l, y, l2, y2) ==
  \E k \in 0..Len(y) : LET s == got[p] \o SubSeq(y, 1, k) IN
    /\ \A i \in DOMAIN s : s[i] # "^D" /\ (s[i] = "nl" => i = Len(s))
    /\ got' = [got EXCEPT ![p] = s]
    /\ y2 = SubSeq(y, k + 1, Len(y))
    /\ l2 = l

Ending(p, l, y, l2, y2) ==
  /\ y # <<>> /\ Head(y) = "^D" /\ got[p] = <<>>
  /\ y2 = Tail(y)
  /\ l2 = l /\ got' = got

Same(l, y, l2, y2) == l2 = l /\ y2 = y /\ got' = got
-----------------------------------------------------------------------------
(* consoleintr *)

LEMMA EmptyRing ==
  ASSUME NEW b \in Bufs, NEW a \in 0..UintMod - 1
  PROVE  Ring(b, a, 0) = <<>>
<1>1. 0 \in 0..INPUT_BUF
  BY ConstFacts
<1>2. Ring(b, a, 0) \in Seq(Char) /\ Len(Ring(b, a, 0)) = 0
  BY <1>1, RingSeq
<1>. QED BY <1>2

LEMMA TypeRing ==
  ASSUME CInv, NEW c \in Typed, Type(c)
  PROVE  /\ buf' \in Bufs /\ e' \in 0..UintMod - 1 /\ w' \in 0..UintMod - 1
         /\ RingInv'
         /\ Typing(Line, Ready, Line', Ready')
<1>. USE ConstFacts
<1>. DEFINE A == Avail
            L == Minus(e, w)
            x == Stored(c)
<1>1. /\ buf \in Bufs /\ r \in 0..UintMod - 1 /\ w \in 0..UintMod - 1 /\ e \in 0..UintMod - 1
      /\ TypeOK /\ RingInv
  BY DEF CInv, TypeOK, Bufs
<1>2. /\ A \in 0..INPUT_BUF /\ L \in 0..INPUT_BUF - 1 /\ L \in 0..INPUT_BUF
      /\ Minus(e, r) = A + L
      /\ w = Plus(r, A) /\ e = Plus(w, L) /\ e = Plus(r, A + L)
      /\ Minus(e, r) < INPUT_BUF => (Plus(e, 1) = Plus(r, INPUT_BUF) <=> A + L + 1 = INPUT_BUF)
      /\ Line \in Seq(Char) /\ Len(Line) = L
      /\ Ready \in Seq(Char) /\ Len(Ready) = A
  BY <1>1, Counters
<1>3. /\ A + L < INPUT_BUF
      /\ \A i \in 1..L : Line[i] \notin Ends
  BY <1>1, <1>2 DEF Type, RingInv
<1>4. x \in Char
  BY DEF Stored, Typed, Char
<1>5. Put(buf, buf', r, A + L, x) /\ Put(buf, buf', w, L, x)
  BY <1>2, Zenon DEF Type, Put
<1>6. r' = r /\ e' = Plus(e, 1) /\ got' = got
  BY DEF Type
<1>. HIDE DEF A, L, x
<1>7. /\ A + L \in 0..INPUT_BUF - 1 /\ A \in 0..A + L /\ 1 \in 0..INPUT_BUF
      /\ Minus(e, r) + 1 <= INPUT_BUF /\ L + 1 <= INPUT_BUF /\ A + L \in 0..INPUT_BUF
      /\ A + L + 1 \in 0..INPUT_BUF
  BY <1>2, <1>3
<1>8. /\ e' \in 0..UintMod - 1
      /\ Minus(e', r) = A + L + 1
      /\ Minus(e', w) = L + 1
  <2>1. Plus(e, 1) \in 0..UintMod - 1 /\ Minus(Plus(e, 1), r) = Minus(e, r) + 1
    BY <1>1, <1>7, Forward, Zenon
  <2>2. Minus(Plus(e, 1), w) = L + 1
    BY <1>1, <1>7, Forward, Zenon DEF L
  <2>. QED BY <1>2, <1>6, <2>1, <2>2
<1>9. /\ buf' \in Bufs
      /\ Ring(buf', r, A) = Ready
      /\ Ring(buf', r, A + L + 1) = Append(Ring(buf, r, A + L), x)
      /\ Ring(buf', w, L + 1) = Append(Line, x)
  <2>1. buf' \in Bufs /\ Ring(buf', r, A) = Ring(buf, r, A)
    BY <1>1, <1>4, <1>5, <1>7, RingKept
  <2>2. Ring(buf', r, A + L + 1) = Append(Ring(buf, r, A + L), x)
    BY <1>1, <1>4, <1>5, <1>7, RingPut
  <2>3. Ring(buf', w, L + 1) = Append(Ring(buf, w, L), x)
    BY <1>1, <1>2, <1>4, <1>5, RingPut
  <2>. QED BY <2>1, <2>2, <2>3, Zenon DEF Ready, Line, A, L
<1>10. Completes(c) <=> x \in Ends \/ A + L + 1 = INPUT_BUF
  BY <1>2, <1>3 DEF Completes, x, Ends
<1>11. CASE Completes(c)
  <2>1. w' = e'
    BY <1>11 DEF Type
  <2>2. Avail' = A + L + 1 /\ Minus(e', w') = 0
    BY <1>6, <1>8, <2>1, Itself DEF Avail
  <2>3. Ring(buf, r, A + L) = Ready \o Line
    <3>1. A \in 0..INPUT_BUF /\ L \in 0..INPUT_BUF /\ A + L <= INPUT_BUF
      BY <1>2, <1>7
    <3>2. Ring(buf, r, A + L) = Ring(buf, r, A) \o Ring(buf, Plus(r, A), L)
      BY <1>1, <3>1, RingJoin
    <3>. QED BY <1>2, <3>2, Zenon DEF Ready, Line, A, L
  <2>4. Ready' = Append(Ready \o Line, x)
    BY <1>6, <1>9, <2>2, <2>3, Zenon DEF Ready
  <2>5. Append(Ready \o Line, x) = Ready \o Append(Line, x)
    BY <1>2, <1>4
  <2>6. Line' = <<>>
    BY <1>8, <1>9, <2>1, <2>2, EmptyRing, Zenon DEF Line
  <2>7. RingInv'
    BY <1>2, <1>7, <2>2 DEF RingInv
  <2>8. Typing(Line, Ready, Line', Ready')
    BY <1>2, <1>3, <1>4, <1>6, <1>10, <1>11, <2>4, <2>5, <2>6, Zenon DEF Typing, Ends
  <2>. QED BY <1>8, <1>9, <2>1, <2>7, <2>8
<1>12. CASE ~Completes(c)
  <2>1. w' = w
    BY <1>12 DEF Type
  <2>2. Avail' = A /\ Minus(e', w') = L + 1
    BY <1>6, <1>8, <2>1 DEF Avail, A
  <2>3. Ready' = Ready
    BY <1>6, <1>9, <2>2, Zenon DEF Ready
  <2>4. Line' = Append(Line, x)
    BY <1>9, <2>1, <2>2, Zenon DEF Line
  <2>5. \A i \in 1..L + 1 : Append(Line, x)[i] \notin Ends
    BY <1>2, <1>3, <1>4, <1>10, <1>12
  <2>6. A + (L + 1) <= INPUT_BUF /\ L + 1 < INPUT_BUF
    BY <1>2, <1>3, <1>10, <1>12
  <2>7. RingInv'
    BY <2>2, <2>4, <2>5, <2>6, Zenon DEF RingInv
  <2>8. Typing(Line, Ready, Line', Ready')
    BY <1>2, <1>3, <1>4, <1>6, <1>10, <1>12, <2>3, <2>4 DEF Typing, Ends
  <2>. QED BY <1>1, <1>8, <1>9, <2>1, <2>7, <2>8
<1>. QED BY <1>11, <1>12

LEMMA TypeStep ==
  ASSUME CInv, NEW c \in Typed, Type(c)
  PROVE  CInv' /\ Typing(Line, Ready, Line', Ready')
<1>1. /\ buf' \in Bufs /\ e' \in 0..UintMod - 1 /\ w' \in 0..UintMod - 1
      /\ RingInv' /\ Typing(Line, Ready, Line', Ready')
  BY TypeRing
<1>2. TypeOK /\ ReadInv
  BY DEF CInv
<1>3. /\ r' = r /\ target' = target /\ got' = got /\ killed' = killed
      /\ (w' = w /\ at' = at) \/ at' = [p \in Process |-> IF at[p] = "asleep" THEN "loop" ELSE at[p]]
      /\ \A p \in Process : at[p] # "sleep"
  BY DEF Type, wakeup, Unlocked
<1>4. at' \in [Process -> {"user", "loop", "sleep", "asleep"}]
  BY <1>2, <1>3 DEF TypeOK
<1>5. TypeOK'
  BY <1>1, <1>2, <1>3, <1>4 DEF TypeOK, Bufs
<1>6. CASE w' = w /\ at' = at
  BY <1>1, <1>2, <1>3, <1>5, <1>6 DEF CInv, ReadInv
<1>7. CASE at' = [p \in Process |-> IF at[p] = "asleep" THEN "loop" ELSE at[p]]
  <2>1. \A p \in Process : at'[p] \notin {"sleep", "asleep"} /\ (at'[p] # "user" => at[p] # "user")
    BY <1>3, <1>7
  <2>2. ReadInv'
    BY <1>2, <1>3, <2>1 DEF ReadInv
  <2>. QED BY <1>1, <1>5, <2>2 DEF CInv
<1>. QED BY <1>3, <1>6, <1>7

\* ^U erases the whole line, which holds no newline.
LEMMA ErasedIs ==
  ASSUME CInv
  PROVE  Erased = Minus(e, w)
<1>. USE ConstFacts
<1>. DEFINE L == Minus(e, w)
            Stop(i) == /\ i = L \/ buf[Minus(e, i + 1) % INPUT_BUF] = "nl"
                       /\ \A j \in 0..i - 1 : buf[Minus(e, j + 1) % INPUT_BUF] # "nl"
<1>1. /\ buf \in Bufs /\ w \in 0..UintMod - 1 /\ e \in 0..UintMod - 1
      /\ TypeOK /\ RingInv
  BY DEF CInv, TypeOK, Bufs
<1>2. L \in 0..INPUT_BUF - 1 /\ L \in 0..INPUT_BUF
  BY <1>1, Counters
<1>3. \A i \in 1..L : Ring(buf, w, L)[i] \notin Ends
  BY <1>1 DEF RingInv, Line
<1>. HIDE DEF L
<1>4. ASSUME NEW j \in 0..L - 1 PROVE buf[Minus(e, j + 1) % INPUT_BUF] # "nl"
  <2>. DEFINE k == j + 1
              i == L - j
  <2>1. k \in 0..INPUT_BUF /\ k <= L /\ L <= INPUT_BUF /\ i \in 1..L /\ i - 1 = L - k
    BY <1>2
  <2>2. Minus(e, k) = Plus(w, L - k)
    BY <1>1, <2>1, Back DEF L
  <2>3. Ring(buf, w, L)[i] = buf[Plus(w, i - 1) % INPUT_BUF]
    BY <1>1, <1>2, <2>1, RingSeq, Zenon
  <2>4. Ring(buf, w, L)[i] # "nl"
    BY <1>3, <2>1 DEF Ends
  <2>. QED BY <2>1, <2>2, <2>3, <2>4
<1>5. L \in 0..L /\ Stop(L)
  BY <1>2, <1>4
<1>6. \A i \in 0..L : Stop(i) => i = L
  BY <1>2, <1>4
<1>. HIDE DEF Stop
<1>7. (CHOOSE i \in 0..L : Stop(i)) = L
  BY <1>5, <1>6
<1>. QED BY <1>7 DEF Erased, Stop, L

\* What ^U and backspace leave of the line is a part of it.
LEMMA Shorter ==
  ASSUME CInv, NEW k \in 0..Minus(e, w), Unlocked, e' = Minus(e, k),
         UNCHANGED <<buf, r, w, at, target, got, killed>>
  PROVE  /\ CInv' /\ Ready' = Ready
         /\ Line' = SubSeq(Line, 1, Minus(e, w) - k) /\ Len(Line) = Minus(e, w) /\ Line \in Seq(Char)
<1>. USE ConstFacts
<1>. DEFINE A == Avail
            L == Minus(e, w)
<1>1. /\ buf \in Bufs /\ r \in 0..UintMod - 1 /\ w \in 0..UintMod - 1 /\ e \in 0..UintMod - 1
      /\ TypeOK /\ RingInv /\ ReadInv
  BY DEF CInv, TypeOK, Bufs
<1>2. /\ A \in 0..INPUT_BUF /\ L \in 0..INPUT_BUF - 1 /\ L \in 0..INPUT_BUF
      /\ Line \in Seq(Char) /\ Len(Line) = L
  BY <1>1, Counters
<1>3. A + L <= INPUT_BUF /\ \A i \in 1..L : Line[i] \notin Ends
  BY <1>1 DEF RingInv
<1>. DEFINE n == L - k
<1>4. k \in 0..INPUT_BUF /\ k <= L /\ L <= INPUT_BUF /\ n \in 0..L /\ n \in 0..INPUT_BUF /\ n < INPUT_BUF
      /\ A + n <= INPUT_BUF
  BY <1>2, <1>3
<1>5. e' \in 0..UintMod - 1 /\ Minus(e', w) = n
  BY <1>1, <1>4, Back
<1>. HIDE DEF A, n, L
<1>6. Avail' = A /\ Minus(e', w') = n /\ Ready' = Ready
  BY <1>5, Zenon DEF Avail, Ready, A
<1>7. Line' = Ring(buf, w, n)
  BY <1>6, Zenon DEF Line
<1>8. Line' = SubSeq(Line, 1, n)
  <2>1. Ring(buf, w, n) = SubSeq(Ring(buf, w, L), 1, n)
    BY <1>1, <1>2, <1>4, RingHead, Zenon
  <2>. QED BY <1>7, <2>1, Zenon DEF Line, L
<1>9. \A i \in 1..n : SubSeq(Line, 1, n)[i] \notin Ends
  BY <1>2, <1>3, <1>4
<1>10. RingInv'
  BY <1>4, <1>6, <1>8, <1>9, Zenon DEF RingInv
<1>11. TypeOK'
  BY <1>1, <1>5 DEF TypeOK
<1>12. ReadInv'
  BY <1>1 DEF ReadInv
<1>. QED BY <1>2, <1>6, <1>8, <1>10, <1>11, <1>12, Zenon DEF CInv, n, L

LEMMA KillLineStep ==
  ASSUME CInv, KillLine
  PROVE  /\ CInv'
         /\ Erasing(Line, Ready, Line', Ready') \/ Same(Line, Ready, Line', Ready')
<1>. DEFINE L == Minus(e, w)
<1>1. L \in Nat /\ L \in 0..L
  BY Counters DEF CInv
<1>2. /\ Unlocked /\ e' = Minus(e, L) /\ UNCHANGED <<buf, r, w, at, target, got, killed>>
  BY ErasedIs, Zenon DEF KillLine
<1>3. /\ CInv' /\ Ready' = Ready
      /\ Line' = SubSeq(Line, 1, L - L) /\ Len(Line) = L /\ Line \in Seq(Char)
  BY <1>1, <1>2, Shorter
<1>. HIDE DEF L
<1>4. Line' = <<>>
  BY <1>1, <1>3
<1>5. got' = got
  BY <1>2
<1>6. CASE Line = <<>>
  BY <1>3, <1>4, <1>5, <1>6 DEF Same
<1>7. CASE Line # <<>>
  BY <1>3, <1>4, <1>5, <1>7 DEF Erasing
<1>. QED BY <1>3, <1>6, <1>7

LEMMA BackspaceStep ==
  ASSUME CInv, Backspace
  PROVE  CInv' /\ Erasing(Line, Ready, Line', Ready')
<1>. DEFINE L == Minus(e, w)
<1>1. L \in Nat /\ e = Plus(w, L) /\ w \in 0..UintMod - 1
  BY Counters DEF CInv, TypeOK
<1>2. L # 0
  BY <1>1, Itself DEF Backspace
<1>3. /\ 1 \in 0..L /\ Unlocked /\ e' = Minus(e, 1) /\ UNCHANGED <<buf, r, w, at, target, got, killed>>
  BY <1>1, <1>2 DEF Backspace
<1>4. /\ CInv' /\ Ready' = Ready
      /\ Line' = SubSeq(Line, 1, L - 1) /\ Len(Line) = L /\ Line \in Seq(Char)
  BY <1>3, Shorter
<1>. HIDE DEF L
<1>5. got' = got /\ Line # <<>>
  BY <1>2, <1>3, <1>4
<1>. QED BY <1>4, <1>5 DEF Erasing

-----------------------------------------------------------------------------
(* consoleread *)

LEMMA OldestIs ==
  ASSUME TypeOK, RingInv, NEW k \in 0..Avail
  PROVE  Oldest(k) = SubSeq(Ready, 1, k) /\ Len(Oldest(k)) = k /\ \A i \in 1..k : Oldest(k)[i] = Ready[i]
<1>1. buf \in Bufs /\ r \in 0..UintMod - 1
  BY DEF TypeOK, Bufs
<1>2. Avail \in 0..INPUT_BUF /\ Ready \in Seq(Char) /\ Len(Ready) = Avail
  BY Counters
<1>3. k \in 0..INPUT_BUF
  BY <1>2, ConstFacts
<1>4. Oldest(k) = Ring(buf, r, k)
  BY Zenon DEF Oldest, Ring
<1>5. Ring(buf, r, k) = SubSeq(Ready, 1, k)
  BY <1>1, <1>2, RingHead, Zenon DEF Ready
<1>6. Len(SubSeq(Ready, 1, k)) = k /\ \A i \in 1..k : SubSeq(Ready, 1, k)[i] = Ready[i]
  BY <1>2
<1>. QED BY <1>4, <1>5, <1>6, Zenon

LEMMA LooksFacts ==
  ASSUME CInv, NEW p \in Process, at[p] = "loop"
  PROVE  /\ Left(p) \in Nat /\ Looks(p) \in 0..Left(p)
         /\ \A i \in 1..Avail : i < Looks(p) => Ready[i] \notin Ends
<1>. DEFINE A == Avail
            y == Ready
            S == {i \in 1..A : y[i] \in Ends} \cup {Left(p)}
            k == CHOOSE m \in S : \A i \in S : m <= i
<1>1. TypeOK /\ RingInv /\ ReadInv
  BY DEF CInv
<1>2. A \in Nat /\ A \in 0..A
  BY <1>1, Counters
<1>3. Left(p) \in Nat
  <2>1. Len(got[p]) \in Nat /\ target[p] \in Nat
    BY <1>1 DEF TypeOK
  <2>2. Len(got[p]) <= target[p]
    BY <1>1 DEF ReadInv
  <2>. QED BY <2>1, <2>2 DEF Left
<1>4. \A i \in 1..A : Oldest(A)[i] = y[i]
  BY <1>1, <1>2, OldestIs
<1>5. Breaks(p) = S
  BY <1>4, Zenon DEF Breaks, Ends
<1>6. Looks(p) = k
  BY <1>5, Zenon DEF Looks
<1>7. S \subseteq Nat /\ Left(p) \in S
  BY <1>2, <1>3
<1>8. \A i \in 1..A : y[i] \in Ends => i \in S
  OBVIOUS
<1>. HIDE DEF S
<1>9. \E m \in S : \A i \in S : m <= i
  BY <1>7, Least
<1>10. k \in S /\ \A i \in S : k <= i
  BY <1>9
<1>. HIDE DEF k, A, y
<1>11. k \in Nat /\ k <= Left(p)
  BY <1>7, <1>10, Zenon
<1>12. \A i \in 1..A : i < k => y[i] \notin Ends
  BY <1>2, <1>8, <1>10, <1>11
<1>. QED BY <1>3, <1>6, <1>11, <1>12 DEF A, y

\* No end of a line in s; nothing after one in the first k characters of y.
NoEnd(s) == \A i \in DOMAIN s : s[i] \notin Ends
NoneOf(y, k) == \A i \in 1..k : y[i] \notin Ends
OneLine(y, k) == \A i \in 1..k : y[i] # "^D" /\ (y[i] = "nl" => i = k)
WholeLine(t) == \A i \in DOMAIN t : t[i] # "^D" /\ (t[i] = "nl" => i = Len(t))

LEMMA Offset ==
  ASSUME NEW n \in Nat, NEW k \in Nat, NEW i \in 1..n + k, ~(i <= n)
  PROVE  i - n \in 1..k /\ (i - n = k => i = n + k)
OBVIOUS

\* t is what a read has got, s, and the first k characters of y.
Joins(s, y, k, t) ==
  /\ s \in Seq(Char) /\ y \in Seq(Char) /\ k \in 0..Len(y) /\ NoEnd(s) /\ OneLine(y, k)
  /\ t = s \o SubSeq(y, 1, k)

LEMMA More ==
  ASSUME NEW s, NEW y, NEW k, NEW t, Joins(s, y, k, t)
  PROVE  /\ t \in Seq(Char) /\ Len(t) = Len(s) + k
         /\ WholeLine(t)
         /\ NoneOf(y, k) => NoEnd(t)
<1>. DEFINE u == SubSeq(y, 1, k)
<1>0. /\ s \in Seq(Char) /\ y \in Seq(Char) /\ k \in 0..Len(y) /\ NoEnd(s) /\ OneLine(y, k)
      /\ t = s \o u
  BY DEF Joins
<1>1. u \in Seq(Char) /\ Len(u) = k /\ \A i \in 1..k : u[i] = y[i]
  BY <1>0
<1>2. Len(s) \in Nat /\ k \in Nat
  BY <1>0
<1>. HIDE DEF u
<1>3. t \in Seq(Char) /\ Len(t) = Len(s) + k
  <2>1. s \in Seq(Char) /\ u \in Seq(Char)
    BY <1>0, <1>1
  <2>2. s \o u \in Seq(Char) /\ Len(s \o u) = Len(s) + Len(u)
    BY <2>1
  <2>. QED BY <1>0, <1>1, <2>2, Zenon
<1>4. \A i \in 1..Len(s) + k : t[i] = IF i <= Len(s) THEN s[i] ELSE u[i - Len(s)]
  BY <1>0, <1>1
<1>5. DOMAIN t = 1..Len(s) + k /\ DOMAIN s = 1..Len(s)
  BY <1>0, <1>3
<1>6. ASSUME NEW i \in DOMAIN t
      PROVE  /\ t[i] # "^D" /\ (t[i] = "nl" => i = Len(t))
             /\ NoneOf(y, k) => t[i] \notin Ends
  <2>1. CASE i <= Len(s)
    <3>1. i \in DOMAIN s /\ t[i] = s[i]
      BY <1>2, <1>4, <1>5, <2>1
    <3>. QED BY <1>0, <3>1 DEF NoEnd, Ends
  <2>2. CASE ~(i <= Len(s))
    <3>. DEFINE m == i - Len(s)
    <3>0. i \in 1..Len(s) + k
      BY <1>5
    <3>1. m \in 1..k /\ (m = k => i = Len(t))
      <4>. DEFINE n == Len(s)
                  l == Len(t)
      <4>1. n \in Nat /\ k \in Nat /\ l = n + k /\ i \in 1..n + k /\ ~(i <= n)
        BY <1>2, <1>3, <2>2, <3>0
      <4>. HIDE DEF n, l
      <4>2. i - n \in 1..k /\ (i - n = k => i = l)
        BY <4>1, Offset, Zenon
      <4>. QED BY <4>2 DEF n, l
    <3>2. t[i] = u[m]
      BY <1>4, <2>2, <3>0
    <3>. HIDE DEF m
    <3>3. t[i] = y[m]
      BY <1>1, <3>1, <3>2
    <3>. QED BY <1>0, <3>1, <3>3 DEF OneLine, NoneOf, Ends
  <2>. QED BY <2>1, <2>2
<1>. QED BY <1>3, <1>6 DEF WholeLine, NoEnd

\* k characters are taken out of the ring.
LEMMA Taken ==
  ASSUME CInv, NEW k \in 0..Avail, r' = Plus(r, k), UNCHANGED <<buf, w, e>>
  PROVE  /\ r' \in 0..UintMod - 1 /\ RingInv' /\ Line' = Line
         /\ Ready' = SubSeq(Ready, k + 1, Len(Ready))
         /\ r = w => r' = w'
<1>. USE ConstFacts
<1>. DEFINE A == Avail
            L == Minus(e, w)
<1>1. /\ buf \in Bufs /\ r \in 0..UintMod - 1 /\ w \in 0..UintMod - 1 /\ e \in 0..UintMod - 1
      /\ TypeOK /\ RingInv
  BY DEF CInv, TypeOK, Bufs
<1>2. A \in 0..INPUT_BUF /\ L \in 0..INPUT_BUF /\ Ready \in Seq(Char) /\ Len(Ready) = A
  BY <1>1, Counters
<1>3. k \in 0..INPUT_BUF /\ k <= A /\ k \in Nat
  BY <1>2
<1>4. r' \in 0..UintMod - 1 /\ Minus(w, r') = A - k
  <2>1. Plus(r, k) \in 0..UintMod - 1 /\ Minus(w, Plus(r, k)) = A - k
    BY <1>1, <1>3, Onward DEF Avail
  <2>. QED BY <2>1
<1>5. Avail' = A - k /\ Minus(e', w') = L /\ Line' = Line
  BY <1>4, Zenon DEF Avail, Line
<1>6. Ready' = SubSeq(Ready, k + 1, Len(Ready))
  <2>1. Ring(buf, Plus(r, k), A - k) = SubSeq(Ring(buf, r, A), k + 1, A)
    BY <1>1, <1>2, RingTail, Zenon
  <2>. QED BY <1>2, <1>5, <2>1, Zenon DEF Ready
<1>7. RingInv'
  <2>1. A + L <= INPUT_BUF /\ L < INPUT_BUF /\ \A i \in 1..L : Line[i] \notin Ends
    BY <1>1 DEF RingInv
  <2>2. (A - k) + L <= INPUT_BUF
    BY <1>2, <1>3, <2>1
  <2>. HIDE DEF A, L
  <2>. QED BY <1>5, <2>1, <2>2, Zenon DEF RingInv
<1>8. r = w => r' = w'
  <2>. SUFFICES ASSUME r = w PROVE r' = w'
    OBVIOUS
  <2>1. A = 0
    BY <1>1, Itself DEF Avail
  <2>2. k = 0
    BY <1>3, <2>1
  <2>. QED BY <1>1, <2>2, Itself
<1>. QED BY <1>4, <1>5, <1>6, <1>7, <1>8

\* A read that ended, or goes on with t, leaves the invariant.
LEMMA ReadStep ==
  ASSUME CInv, NEW p \in Process, NEW t \in Seq(Char), NEW a,
         NEW k \in 0..Avail, r' = Plus(r, k), UNCHANGED <<buf, w, e, target, killed>>,
         got' = [got EXCEPT ![p] = t], at' = [at EXCEPT ![p] = a],
         a \in {"user", "sleep"},
         a = "sleep" => r' = w /\ Len(t) <= target[p] /\ NoEnd(t)
  PROVE  CInv'
<1>1. TypeOK /\ ReadInv
  BY DEF CInv
<1>2. /\ r' \in 0..UintMod - 1 /\ RingInv' /\ (r = w => r' = w')
  BY Taken
<1>3. TypeOK'
  BY <1>1, <1>2 DEF TypeOK
<1>4. /\ got \in [Process -> Seq(Char)]
      /\ at \in [Process -> {"user", "loop", "sleep", "asleep"}]
  BY <1>1 DEF TypeOK
<1>5. ASSUME NEW q \in Process, at'[q] # "user"
      PROVE  Len(got'[q]) <= target'[q] /\ \A i \in DOMAIN got'[q] : got'[q][i] \notin Ends
  <2>1. CASE q = p
    BY <1>4, <1>5, <2>1 DEF NoEnd
  <2>2. CASE q # p
    BY <1>1, <1>4, <1>5, <2>2 DEF ReadInv
  <2>. QED BY <2>1, <2>2
<1>6. ASSUME NEW q \in Process, at'[q] \in {"sleep", "asleep"} PROVE r' = w'
  <2>1. CASE q = p
    BY <1>4, <1>6, <2>1
  <2>2. CASE q # p
    BY <1>1, <1>2, <1>4, <1>6, <2>2 DEF ReadInv
  <2>. QED BY <2>1, <2>2
<1>7. ReadInv'
  BY <1>5, <1>6, Zenon DEF ReadInv
<1>. QED BY <1>2, <1>3, <1>7 DEF CInv

LEMMA ReturnStep ==
  ASSUME CInv, NEW p \in Process, Return(p)
  PROVE  /\ CInv'
         /\ \/ Delivering(p, Line, Ready, Line', Ready')
            \/ Ending(p, Line, Ready, Line', Ready')
<1>. DEFINE y == Ready
            s == got[p]
            k == Looks(p)
            eof == k > 0 /\ Oldest(k)[k] = "^D"
            j == IF eof THEN k - 1 ELSE k
            t == s \o SubSeq(y, 1, j)
<1>1. /\ TypeOK /\ RingInv /\ ReadInv
      /\ at[p] = "loop" /\ k <= Avail
  BY DEF CInv, Return
<1>2. /\ s \in Seq(Char) /\ got \in [Process -> Seq(Char)]
      /\ NoEnd(s)
  BY <1>1 DEF TypeOK, ReadInv, NoEnd
<1>3. y \in Seq(Char) /\ Len(y) = Avail /\ Avail \in Nat
  BY <1>1, Counters
<1>4. k \in Nat /\ \A i \in 1..Avail : i < k => y[i] \notin Ends
  BY <1>1, LooksFacts
<1>5. k \in 0..Avail
  BY <1>1, <1>3, <1>4
<1>6. eof => k > 0 /\ y[k] = "^D"
  BY <1>1, <1>5, OldestIs
<1>7. k > 0 /\ y[k] = "^D" => eof
  BY <1>1, <1>5, OldestIs
<1>8. got' = [got EXCEPT ![p] = s \o Oldest(j)]
  BY Zenon DEF Return
<1>9. r' = Plus(r, IF eof /\ s \o Oldest(j) # <<>> THEN k - 1 ELSE k)
  BY Zenon DEF Return
<1>10. at' = [at EXCEPT ![p] = "user"] /\ UNCHANGED <<buf, w, e, target, killed>>
  BY DEF Return
<1>. HIDE DEF eof, k, y, s
<1>11. j \in 0..Avail /\ j \in 0..Len(y) /\ (eof => j = k - 1 /\ k >= 1) /\ (~eof => j = k)
  BY <1>3, <1>5, <1>6
<1>. HIDE DEF j
<1>12. Oldest(j) = SubSeq(y, 1, j)
  BY <1>1, <1>11, OldestIs DEF y
<1>13. OneLine(y, j)
  <2>1. \A i \in 1..j : i \in 1..Avail /\ (i < k \/ (i = k /\ i = j /\ ~eof))
    BY <1>3, <1>4, <1>11
  <2>2. ASSUME NEW i \in 1..j PROVE y[i] # "^D" /\ (y[i] = "nl" => i = j)
    <3>1. CASE i < k
      BY <1>4, <2>1, <3>1 DEF Ends
    <3>2. CASE i = k /\ i = j /\ ~eof
      <4>1. k > 0
        BY <1>4, <1>11, <3>2
      <4>. QED BY <1>7, <3>2, <4>1
    <3>. QED BY <2>1, <3>1, <3>2
  <2>. QED BY <2>2 DEF OneLine
<1>14. /\ t \in Seq(Char) /\ Len(t) = Len(s) + j
       /\ WholeLine(t)
  <2>1. Joins(s, y, j, t)
    BY <1>2, <1>3, <1>11, <1>13 DEF Joins
  <2>. HIDE DEF t
  <2>. QED BY <2>1, More
<1>15. got' = [got EXCEPT ![p] = t] /\ r' = Plus(r, IF eof /\ t # <<>> THEN k - 1 ELSE k)
  BY <1>8, <1>9, <1>12, Zenon
<1>. HIDE DEF t
<1>16. CASE eof /\ t = <<>>
  <2>1. r' = Plus(r, k)
    BY <1>15, <1>16, Zenon
  <2>2. CInv'
    BY <1>5, <1>10, <1>14, <1>15, <2>1, ReadStep, Zenon
  <2>3. Line' = Line /\ Ready' = SubSeq(y, k + 1, Len(y))
    BY <1>5, <1>10, <2>1, Taken DEF y
  <2>4. j = 0 /\ k = 1 /\ Len(s) = 0
    BY <1>2, <1>4, <1>11, <1>14, <1>16
  <2>5. s = <<>>
    BY <1>2, <2>4
  <2>6. y # <<>> /\ Head(y) = "^D" /\ SubSeq(y, 2, Len(y)) = Tail(y)
    BY <1>3, <1>5, <1>6, <1>16, <2>4
  <2>7. got' = got
    BY <1>2, <1>15, <1>16, <2>5 DEF s
  <2>8. Ready' = Tail(y)
    BY <2>3, <2>4, <2>6
  <2>9. Ending(p, Line, Ready, Line', Ready')
    BY <2>3, <2>5, <2>6, <2>7, <2>8, Zenon DEF Ending, y, s
  <2>. QED BY <2>2, <2>9
<1>17. CASE ~(eof /\ t = <<>>)
  <2>1. r' = Plus(r, j)
    <3>1. CASE eof
      BY <1>11, <1>15, <1>17, <3>1
    <3>2. CASE ~eof
      BY <1>11, <1>15, <3>2
    <3>. QED BY <3>1, <3>2
  <2>2. CInv'
    BY <1>10, <1>11, <1>14, <1>15, <2>1, ReadStep, Zenon
  <2>3. Line' = Line /\ Ready' = SubSeq(y, j + 1, Len(y))
    BY <1>10, <1>11, <2>1, Taken DEF y
  <2>4. Delivering(p, Line, Ready, Line', Ready')
    BY <1>11, <1>14, <1>15, <2>3, Zenon DEF Delivering, WholeLine, t, y, s
  <2>. QED BY <2>2, <2>4
<1>. QED BY <1>16, <1>17

LEMMA EmptyStep ==
  ASSUME CInv, NEW p \in Process, Empty(p)
  PROVE  CInv' /\ Delivering(p, Line, Ready, Line', Ready')
<1>. DEFINE y == Ready
            s == got[p]
            k == Avail
            t == s \o SubSeq(y, 1, k)
            a == IF killed[p] THEN "user" ELSE "sleep"
<1>1. /\ TypeOK /\ RingInv /\ ReadInv
      /\ at[p] = "loop" /\ Looks(p) > k
  BY DEF CInv, Empty
<1>2. /\ s \in Seq(Char) /\ got \in [Process -> Seq(Char)] /\ target[p] \in Nat
      /\ NoEnd(s)
  BY <1>1 DEF TypeOK, ReadInv, NoEnd
<1>3. y \in Seq(Char) /\ Len(y) = k /\ k \in Nat /\ w = Plus(r, k)
  BY <1>1, Counters
<1>4. /\ Left(p) \in Nat /\ Looks(p) \in 0..Left(p)
      /\ \A i \in 1..k : i < Looks(p) => y[i] \notin Ends
  BY <1>1, LooksFacts
<1>5. Oldest(k) = SubSeq(y, 1, k)
  BY <1>1, <1>3, OldestIs
<1>6. /\ got' = [got EXCEPT ![p] = t] /\ r' = w
      /\ at' = [at EXCEPT ![p] = a] /\ UNCHANGED <<buf, w, e, target, killed>>
  BY <1>5 DEF Empty
<1>7. a \in {"user", "sleep"}
  OBVIOUS
<1>. HIDE DEF y, k, a, s
<1>8. k \in 0..k /\ k \in 0..Len(y)
  BY <1>3
<1>9. NoneOf(y, k)
  BY <1>1, <1>3, <1>4 DEF NoneOf
<1>10. OneLine(y, k)
  BY <1>9 DEF OneLine, NoneOf, Ends
<1>11. /\ t \in Seq(Char) /\ Len(t) = Len(s) + k
       /\ WholeLine(t) /\ NoEnd(t)
  <2>1. Joins(s, y, k, t)
    BY <1>2, <1>3, <1>8, <1>10 DEF Joins
  <2>. HIDE DEF t
  <2>. QED BY <1>9, <2>1, More
<1>12. Len(t) <= target[p]
  <2>1. Left(p) = target[p] - Len(s) /\ Len(s) \in Nat
    BY <1>2 DEF Left, s
  <2>. QED BY <1>1, <1>2, <1>3, <1>4, <1>11, <2>1
<1>. HIDE DEF t
<1>13. r' = Plus(r, k) /\ k \in 0..Avail
  BY <1>3, <1>6, <1>8 DEF k
<1>14. CInv'
  BY <1>6, <1>7, <1>11, <1>12, <1>13, ReadStep, Zenon
<1>15. Line' = Line /\ Ready' = SubSeq(y, k + 1, Len(y))
  BY <1>6, <1>13, Taken DEF y
<1>16. Delivering(p, Line, Ready, Line', Ready')
  BY <1>6, <1>8, <1>11, <1>15, Zenon DEF Delivering, WholeLine, t, y, s
<1>. QED BY <1>14, <1>16

\* Steps that change neither the buffer nor its counters.
LEMMA Quiet ==
  ASSUME RingInv, UNCHANGED <<buf, r, w, e>>
  PROVE  RingInv' /\ Line' = Line /\ Ready' = Ready
BY Zenon DEF RingInv, Line, Ready, Avail

LEMMA CallStep ==
  ASSUME CInv, NEW p \in Process, NEW n \in Counts, Call(p, n)
  PROVE  CInv' /\ Starting(p, Line, Ready, Line', Ready')
<1>1. TypeOK /\ RingInv /\ ReadInv /\ n \in Nat
  BY ConsoleAssumption DEF CInv
<1>2. /\ at' = [at EXCEPT ![p] = "loop"] /\ target' = [target EXCEPT ![p] = n]
      /\ got' = [got EXCEPT ![p] = <<>>] /\ UNCHANGED <<buf, r, w, e, killed>>
  BY DEF Call
<1>3. RingInv' /\ Line' = Line /\ Ready' = Ready
  BY <1>1, <1>2, Quiet
<1>4. TypeOK'
  BY <1>1, <1>2 DEF TypeOK
<1>5. ReadInv'
  BY <1>1, <1>2 DEF ReadInv, TypeOK
<1>. QED BY <1>2, <1>3, <1>4, <1>5 DEF CInv, Starting

LEMMA SleepStep ==
  ASSUME CInv, NEW p \in Process, Sleep(p) \/ Kill(p)
  PROVE  CInv' /\ Same(Line, Ready, Line', Ready')
<1>1. TypeOK /\ RingInv /\ ReadInv
  BY DEF CInv
<1>2. /\ UNCHANGED <<buf, r, w, e, target, got>>
      /\ killed' = killed \/ killed' = [killed EXCEPT ![p] = TRUE]
  BY DEF Sleep, Kill
<1>3. /\ at' \in [Process -> {"user", "loop", "sleep", "asleep"}]
      /\ \A q \in Process : /\ at'[q] # "user" => at[q] # "user"
                            /\ at'[q] \in {"sleep", "asleep"} => at[q] \in {"sleep", "asleep"}
  BY <1>1 DEF Sleep, Kill, TypeOK
<1>4. RingInv' /\ Line' = Line /\ Ready' = Ready
  BY <1>1, <1>2, Quiet
<1>5. TypeOK'
  BY <1>1, <1>2, <1>3, Zenon DEF TypeOK
<1>6. ReadInv'
  BY <1>1, <1>2, <1>3 DEF ReadInv
<1>. QED BY <1>2, <1>4, <1>5, <1>6 DEF CInv, Same

-----------------------------------------------------------------------------
(* The theorems. *)

LEMMA InitInv ==
  ASSUME Init
  PROVE  CInv /\ Line = <<>> /\ Ready = <<>>
<1>. USE ConstFacts
<1>1. 0 \in 0..UintMod - 1 /\ Minus(0, 0) = 0
  BY Itself
<1>2. r = 0 /\ w = 0 /\ e = 0
  BY DEF Init
<1>3. buf \in [0..INPUT_BUF - 1 -> Char]
  BY DEF Init, Char
<1>4. TypeOK
  BY <1>1, <1>2, <1>3 DEF Init, TypeOK
<1>5. Avail = 0 /\ Minus(e, w) = 0
  BY <1>1, <1>2 DEF Avail
<1>6. Line = <<>> /\ Ready = <<>>
  BY <1>1, <1>2, <1>3, <1>5, EmptyRing DEF Line, Ready, Bufs
<1>7. RingInv
  BY <1>5 DEF RingInv
<1>8. ReadInv
  BY DEF Init, ReadInv
<1>. QED BY <1>4, <1>6, <1>7, <1>8 DEF CInv

\* What a step of the console is to LineInput.
LineStep(l, y, l2, y2) ==
  \/ Typing(l, y, l2, y2)
  \/ Erasing(l, y, l2, y2)
  \/ \E p \in Process : \/ Starting(p, l, y, l2, y2)
                        \/ Delivering(p, l, y, l2, y2)
                        \/ Ending(p, l, y, l2, y2)
  \/ Same(l, y, l2, y2)

LEMMA NextInv ==
  ASSUME CInv, [Next]_vars
  PROVE  CInv' /\ LineStep(Line, Ready, Line', Ready')
<1>1. ASSUME NEW c \in Typed, Type(c)
      PROVE  CInv' /\ LineStep(Line, Ready, Line', Ready')
  BY <1>1, TypeStep, Zenon DEF LineStep
<1>2. CASE KillLine
  BY <1>2, KillLineStep, Zenon DEF LineStep
<1>3. CASE Backspace
  BY <1>3, BackspaceStep, Zenon DEF LineStep
<1>4. ASSUME NEW p \in Process, Return(p)
      PROVE  CInv' /\ LineStep(Line, Ready, Line', Ready')
  BY <1>4, ReturnStep, Zenon DEF LineStep
<1>5. ASSUME NEW p \in Process, Empty(p)
      PROVE  CInv' /\ LineStep(Line, Ready, Line', Ready')
  BY <1>5, EmptyStep, Zenon DEF LineStep
<1>6. ASSUME NEW p \in Process, Sleep(p) \/ Kill(p)
      PROVE  CInv' /\ LineStep(Line, Ready, Line', Ready')
  BY <1>6, SleepStep, Zenon DEF LineStep
<1>7. ASSUME NEW p \in Process, NEW n \in Counts, Call(p, n)
      PROVE  CInv' /\ LineStep(Line, Ready, Line', Ready')
  BY <1>7, CallStep, Zenon DEF LineStep
<1>8. CASE UNCHANGED vars
  <2>1. UNCHANGED <<buf, r, w, e>> /\ UNCHANGED <<at, target, got, killed>>
    BY <1>8 DEF vars
  <2>2. RingInv' /\ Line' = Line /\ Ready' = Ready
    BY <2>1, Quiet DEF CInv
  <2>3. TypeOK' /\ ReadInv'
    BY <2>1 DEF CInv, TypeOK, ReadInv
  <2>. QED BY <2>1, <2>2, <2>3 DEF CInv, LineStep, Same
<1>. QED BY <1>1, <1>2, <1>3, <1>4, <1>5, <1>6, <1>7, <1>8, Zenon DEF Next

\* The inductive invariant of consoleintr and consoleread (console.c:200-279):
\* input.r, input.w and input.e stay in order and at most INPUT_BUF apart as
\* they wrap, the line being edited holds no end of a line and leaves room, and
\* a reader goes to sleep only on an empty buffer.
THEOREM ConsoleInv == Spec => []CInv
<1>1. Init => CInv
  BY InitInv
<1>2. CInv /\ [Next]_vars => CInv'
  BY NextInv
<1>. QED BY <1>1, <1>2, PTL DEF Spec

\* For every size of the buffer and every number of readers: while a process
\* sleeps in consoleread there is nothing to read, and consoleintr has room for
\* the character that will complete the line (console.c:228-235).
THEOREM ConsoleInputNotStuck == Spec => []InputNotStuck
<1>1. CInv => InputNotStuck
  <2>. SUFFICES ASSUME CInv, NEW p \in Process, at[p] = "asleep"
                PROVE  r = w /\ Minus(e, r) < INPUT_BUF
    BY DEF InputNotStuck
  <2>1. r = w
    BY DEF CInv, ReadInv
  <2>2. Minus(e, w) < INPUT_BUF
    BY DEF CInv, RingInv
  <2>. QED BY <2>1, <2>2, Zenon
<1>. QED BY <1>1, ConsoleInv, PTL

LEMMA LineStepIsNext ==
  ASSUME LineStep(Line, Ready, Line', Ready')
  PROVE  [Lines!Next]_(Lines!vars)
<1>1. CASE Typing(Line, Ready, Line', Ready')
  <2>1. PICK c \in Char :
          /\ Len(Ready) + Len(Line) < INPUT_BUF
          /\ IF c \in {"nl", "^D"} \/ Len(Ready) + Len(Line) + 1 = INPUT_BUF
             THEN Ready' = Ready \o Append(Line, c) /\ Line' = <<>>
             ELSE Line' = Append(Line, c) /\ Ready' = Ready
          /\ got' = got
    BY <1>1, Zenon DEF Typing
  <2>2. Lines!Type(c)
    BY <2>1, Zenon DEF Lines!Type, Line, Ready, Ring, Oldest
  <2>. QED BY <2>2, Zenon DEF Lines!Next
<1>2. CASE Erasing(Line, Ready, Line', Ready')
  <2>1. Lines!Erase
    BY <1>2, Zenon DEF Lines!Erase, Erasing, Line, Ready, Ring, Oldest
  <2>. QED BY <2>1, Zenon DEF Lines!Next
<1>3. ASSUME NEW p \in Process, Starting(p, Line, Ready, Line', Ready')
      PROVE  Lines!Next
  <2>1. Lines!Start(p)
    BY <1>3, Zenon DEF Lines!Start, Starting, Line, Ready, Ring, Oldest
  <2>. QED BY <2>1, Zenon DEF Lines!Next
<1>4. ASSUME NEW p \in Process, Delivering(p, Line, Ready, Line', Ready')
      PROVE  Lines!Next
  <2>1. Lines!Deliver(p)
    BY <1>4, Zenon DEF Lines!Deliver, Delivering, Line, Ready, Ring, Oldest
  <2>. QED BY <2>1, Zenon DEF Lines!Next
<1>5. ASSUME NEW p \in Process, Ending(p, Line, Ready, Line', Ready')
      PROVE  Lines!Next
  <2>1. Lines!Eof(p)
    BY <1>5, Zenon DEF Lines!Eof, Ending, Line, Ready, Ring, Oldest
  <2>. QED BY <2>1, Zenon DEF Lines!Next
<1>6. CASE Same(Line, Ready, Line', Ready')
  <2>1. UNCHANGED Lines!vars
    BY <1>6, Zenon DEF Lines!vars, Same, Line, Ready, Ring, Oldest
  <2>. QED BY <2>1
<1>. QED BY <1>1, <1>2, <1>3, <1>4, <1>5, <1>6, Zenon DEF LineStep

\* The ring buffer of console.c implements LineInput for every INPUT_BUF that
\* divides the range of its counters: whatever is typed, erased and read, and
\* however r, w and e wrap, the readers get the completed lines once and in
\* order, at most a line at a time, and each ^D ends one read.
THEOREM ConsoleInputIsLines == Spec => InputIsLines
<1>1. Init => Lines!Init
  <2>. SUFFICES ASSUME Init PROVE Lines!Init
    OBVIOUS
  <2>1. Line = <<>> /\ Ready = <<>> /\ got = [p \in Process |-> <<>>]
    BY InitInv DEF Init
  <2>. QED BY <2>1, Zenon DEF Lines!Init, Line, Ready, Ring, Oldest
<1>2. CInv /\ [Next]_vars => [Lines!Next]_(Lines!vars)
  BY NextInv, LineStepIsNext
<1>. QED BY <1>1, <1>2, ConsoleInv, PTL DEF Spec, InputIsLines, Lines!Spec
=============================================================================
