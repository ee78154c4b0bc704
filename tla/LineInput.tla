----------------------------- MODULE LineInput -----------------------------
(***************************************************************************)
(* What the console promises its readers: lines that can be edited until   *)
(* they are complete, then come out once and in order, a read getting at   *)
(* most one line and nothing at all at an end of file typed as ^D.         *)
(***************************************************************************)
EXTENDS Integers, Sequences

CONSTANTS Process, Char, Capacity

VARIABLES line,   \* being edited
          ready,  \* complete, not yet read
          got     \* what the last read of each process delivered

vars == <<line, ready, got>>

Init == line = <<>> /\ ready = <<>> /\ got = [p \in Process |-> <<>>]

Type(c) ==
  /\ Len(ready) + Len(line) < Capacity
  /\ IF c \in {"nl", "^D"} \/ Len(ready) + Len(line) + 1 = Capacity
     THEN ready' = ready \o Append(line, c) /\ line' = <<>>
     ELSE line' = Append(line, c) /\ UNCHANGED ready
  /\ UNCHANGED got

Erase ==
  /\ line # <<>>
  /\ line' \in {SubSeq(line, 1, Len(line) - 1), <<>>}
  /\ UNCHANGED <<ready, got>>

Start(p) == got' = [got EXCEPT ![p] = <<>>] /\ UNCHANGED <<line, ready>>

\* More of a line: no ^D, and nothing after a newline.
Deliver(p) ==
  \E k \in 0..Len(ready) : LET s == got[p] \o SubSeq(ready, 1, k) IN
    /\ \A i \in DOMAIN s : s[i] # "^D" /\ (s[i] = "nl" => i = Len(s))
    /\ got' = [got EXCEPT ![p] = s]
    /\ ready' = SubSeq(ready, k + 1, Len(ready))
    /\ UNCHANGED line

Eof(p) ==
  /\ ready # <<>> /\ Head(ready) = "^D" /\ got[p] = <<>>
  /\ ready' = Tail(ready)
  /\ UNCHANGED <<line, got>>

Next ==
  \/ \E c \in Char : Type(c)
  \/ Erase
  \/ \E p \in Process : Start(p) \/ Deliver(p) \/ Eof(p)

Spec == Init /\ [][Next]_vars
=============================================================================
