------------------------------ MODULE Console ------------------------------
(***************************************************************************)
(* Console input: the ring buffer of kernel/console.c between the keyboard *)
(* and serial interrupts (consoleintr) and the processes that read the     *)
(* console (consoleread).  input.lock makes the handling of a character,   *)
(* and a read up to its return or its sleep, atomic.  The keys are an      *)
(* ordinary character, the two ends of a line, ^D, ^U and backspace; ^P    *)
(* only prints, ^Z resets the machine.                                     *)
(***************************************************************************)
EXTENDS Integers, Sequences

CONSTANTS Process,
          INPUT_BUF,   \* bytes of the ring
          UintMod,     \* r, w and e are unsigned and wrap here
          Counts       \* sizes of reads

ASSUME ConsoleAssumption ==
  /\ INPUT_BUF \in Nat \ {0}
  /\ UintMod \in Nat /\ UintMod > INPUT_BUF /\ UintMod % INPUT_BUF = 0
  /\ Counts \subseteq Nat

VARIABLES buf, r, w, e,   \* struct input
          at,             \* where a process is
          target, got,    \* bytes asked for, and bytes stored at dst
          killed

vars == <<buf, r, w, e, at, target, got, killed>>

Char == {"x", "nl", "^D"}
Typed == Char \cup {"cr"}

Plus(a, i) == (a + i) % UintMod
Minus(a, b) == (a - b) % UintMod

Init ==
  /\ buf = [i \in 0..INPUT_BUF - 1 |-> "x"]
  /\ r = 0 /\ w = 0 /\ e = 0
  /\ at = [p \in Process |-> "user"]
  /\ target = [p \in Process |-> 0]
  /\ got = [p \in Process |-> <<>>]
  /\ killed = [p \in Process |-> FALSE]

\* consoleread holds input.lock from its test of proc->killed into sleep().
Unlocked == \A p \in Process : at[p] # "sleep"

wakeup == at' = [p \in Process |-> IF at[p] = "asleep" THEN "loop" ELSE at[p]]

-----------------------------------------------------------------------------
(* consoleintr *)

Stored(c) == IF c = "cr" THEN "nl" ELSE c

\* Mutant: a full buffer does not complete the input.
CompletesLine(c) == Stored(c) \in {"nl", "^D"}

\* Whether the character that was put at e completes the input.
Completes(c) == Stored(c) \in {"nl", "^D"} \/ Plus(e, 1) = Plus(r, INPUT_BUF)

Type(c) ==
  /\ Unlocked
  /\ Minus(e, r) < INPUT_BUF
  /\ buf' = [buf EXCEPT ![e % INPUT_BUF] = Stored(c)]
  /\ e' = Plus(e, 1)
  /\ IF Completes(c) THEN w' = e' /\ wakeup ELSE UNCHANGED <<w, at>>
  /\ UNCHANGED <<r, target, got, killed>>

\* The first i >= 0 where the loop of ^U stops.
Erased ==
  CHOOSE i \in 0..Minus(e, w) :
    /\ i = Minus(e, w) \/ buf[Minus(e, i + 1) % INPUT_BUF] = "nl"
    /\ \A j \in 0..i - 1 : buf[Minus(e, j + 1) % INPUT_BUF] # "nl"

KillLine ==
  /\ Unlocked
  /\ e' = Minus(e, Erased)
  /\ UNCHANGED <<buf, r, w, at, target, got, killed>>

Backspace ==
  /\ Unlocked
  /\ e # w
  /\ e' = Minus(e, 1)
  /\ UNCHANGED <<buf, r, w, at, target, got, killed>>

-----------------------------------------------------------------------------
(* consoleread *)

Call(p, n) ==
  /\ at[p] = "user" /\ ~killed[p]
  /\ at' = [at EXCEPT ![p] = "loop"]
  /\ target' = [target EXCEPT ![p] = n]
  /\ got' = [got EXCEPT ![p] = <<>>]
  /\ UNCHANGED <<buf, r, w, e, killed>>

Oldest(k) == [i \in 1..k |-> buf[Plus(r, i - 1) % INPUT_BUF]]

Avail == Minus(w, r)
Left(p) == target[p] - Len(got[p])

\* How many characters the loop looks at before it breaks or n is 0, if there
\* are so many.
Breaks(p) == {i \in 1..Avail : Oldest(Avail)[i] \in {"nl", "^D"}} \cup {Left(p)}
Looks(p) == CHOOSE k \in Breaks(p) : \A i \in Breaks(p) : k <= i

\* Mutant: a ^D that ends a read is always taken.
ReturnTakesEof(p) ==
  /\ at[p] = "loop" /\ Unlocked
  /\ Looks(p) <= Avail
  /\ LET k == Looks(p)
         eof == k > 0 /\ Oldest(k)[k] = "^D"
     IN /\ got' = [got EXCEPT ![p] = @ \o Oldest(IF eof THEN k - 1 ELSE k)]
        /\ r' = Plus(r, k)
  /\ at' = [at EXCEPT ![p] = "user"]
  /\ UNCHANGED <<buf, w, e, target, killed>>

\* The read ends.  A ^D that ends a non-empty read is left in the buffer.
Return(p) ==
  /\ at[p] = "loop" /\ Unlocked
  /\ Looks(p) <= Avail
  /\ LET k == Looks(p)
         eof == k > 0 /\ Oldest(k)[k] = "^D"
         s == got[p] \o Oldest(IF eof THEN k - 1 ELSE k)
     IN /\ got' = [got EXCEPT ![p] = s]
        /\ r' = Plus(r, IF eof /\ s # <<>> THEN k - 1 ELSE k)
  /\ at' = [at EXCEPT ![p] = "user"]
  /\ UNCHANGED <<buf, w, e, target, killed>>

\* The read takes what there is and finds the buffer empty: it fails if the
\* process was killed, and is going to sleep otherwise.
Empty(p) ==
  /\ at[p] = "loop" /\ Unlocked
  /\ Looks(p) > Avail
  /\ got' = [got EXCEPT ![p] = @ \o Oldest(Avail)]
  /\ r' = w
  /\ at' = [at EXCEPT ![p] = IF killed[p] THEN "user" ELSE "sleep"]
  /\ UNCHANGED <<buf, w, e, target, killed>>

Sleep(p) ==
  /\ at[p] = "sleep"
  /\ at' = [at EXCEPT ![p] = "asleep"]
  /\ UNCHANGED <<buf, r, w, e, target, got, killed>>

\* kill(p) wakes a sleeper.
Kill(p) ==
  /\ ~killed[p]
  /\ killed' = [killed EXCEPT ![p] = TRUE]
  /\ at' = [at EXCEPT ![p] = IF @ = "asleep" THEN "loop" ELSE @]
  /\ UNCHANGED <<buf, r, w, e, target, got>>

-----------------------------------------------------------------------------
Next ==
  \/ \E c \in Typed : Type(c)
  \/ KillLine \/ Backspace
  \/ \E p \in Process : Return(p) \/ Empty(p) \/ Sleep(p) \/ Kill(p)
  \/ \E p \in Process, n \in Counts : Call(p, n)

Spec == Init /\ [][Next]_vars
-----------------------------------------------------------------------------
\* No input is stuck: while a process sleeps in consoleread there is nothing to
\* read, and the buffer has room for the rest of the line, so that consoleintr
\* does not drop the key that would complete it (console.c:228-235).
InputNotStuck ==
  \A p \in Process : at[p] = "asleep" => r = w /\ Minus(e, r) < INPUT_BUF

Lines == INSTANCE LineInput WITH
  Capacity <- INPUT_BUF,
  line <- [i \in 1..Minus(e, w) |-> buf[Plus(w, i - 1) % INPUT_BUF]],
  ready <- Oldest(Avail)

\* The ring buffer implements LineInput: ^U and backspace change only the line
\* that is not complete, and no reader sees a character twice, misses one, gets
\* more than a line, or loses an end of file, however r, w and e wrap.
InputIsLines == Lines!Spec
=============================================================================
