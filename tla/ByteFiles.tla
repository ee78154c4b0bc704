----------------------------- MODULE ByteFiles -----------------------------
(***************************************************************************)
(* What the file system promises about the contents of files.  A file is a *)
(* sequence of bytes.  A write is carried out in parts of at most Unit     *)
(* bytes; a part overwrites or extends the file at the offset of the open  *)
(* file, a read returns what is there, and both move the offset in the     *)
(* same step.  Nothing else changes the bytes until the file has neither a *)
(* name nor an open file.                                                  *)
(***************************************************************************)
EXTENDS Integers, Sequences

CONSTANTS Process, Inode, File, Unit, NoInode, Idle,
          Initial   \* the files at the start

VARIABLES contents, \* the bytes of each inode
          ip, off,  \* the inode and the offset of each open file
          cur,      \* the write in progress: file and bytes left
          out       \* what the step returned, if it was a read

Init ==
  /\ contents = Initial
  /\ ip = [f \in File |-> NoInode] /\ off = [f \in File |-> 0]
  /\ cur = [p \in Process |-> Idle]
  /\ out = <<>>

\* The sequence s with t written over it from offset o.
Overwrite(s, o, t) ==
  [j \in 1..(IF o + Len(t) > Len(s) THEN o + Len(t) ELSE Len(s)) |->
     IF j \in o + 1..o + Len(t) THEN t[j - o] ELSE s[j]]

Call(p) ==
  /\ cur[p] = Idle /\ cur'[p] # Idle
  /\ ip[cur'[p].f] # NoInode
  /\ \A q \in Process \ {p} : cur'[q] = cur[q]
  /\ out' = <<>> /\ UNCHANGED <<ip, off, contents>>

\* The next k bytes; afterwards the call is done or has the rest to write.
Write(p, k) ==
  /\ cur[p] # Idle
  /\ LET f == cur[p].f
         rest == cur[p].rest
     IN /\ k <= Len(rest)
        /\ cur' = [cur EXCEPT ![p] = IF k = Len(rest) THEN Idle
                                     ELSE [f |-> f, rest |-> SubSeq(rest, k + 1, Len(rest))]]
        /\ off' = [off EXCEPT ![f] = @ + k]
        /\ out' = <<>> /\ UNCHANGED ip
        /\ contents' = [contents EXCEPT ![ip[f]] = Overwrite(@, off[f], SubSeq(rest, 1, k))]

\* The file cannot grow any further.
GiveUp(p) == cur' = [cur EXCEPT ![p] = Idle] /\ out' = <<>> /\ UNCHANGED <<ip, off, contents>>

Read(f) ==
  /\ ip[f] # NoInode
  /\ off' = [off EXCEPT ![f] = @ + Len(out')]
  /\ UNCHANGED <<ip, cur>>
  /\ out' = SubSeq(contents[ip[f]], off[f] + 1, off[f] + Len(out'))
  /\ UNCHANGED contents

Open(f) ==
  /\ ip[f] = NoInode
  /\ \E n \in Inode : ip' = [ip EXCEPT ![f] = n]
  /\ out' = <<>> /\ UNCHANGED <<off, cur, contents>>

\* The bytes go when the last name and the last open file have gone, in either
\* order.
Removed(n) == contents' = [contents EXCEPT ![n] = <<>>]

Close(f) ==
  /\ ip[f] # NoInode
  /\ ip' = [ip EXCEPT ![f] = NoInode] /\ off' = [off EXCEPT ![f] = 0]
  /\ out' = <<>> /\ UNCHANGED cur
  /\ UNCHANGED contents \/ (Removed(ip[f]) /\ \A g \in File \ {f} : ip[g] # ip[f])

Unlink(n) ==
  /\ \A f \in File : ip[f] # n
  /\ out' = <<>> /\ UNCHANGED <<ip, off, cur>>
  /\ Removed(n)

\* After a crash the files are as the last part written left them.
Crash ==
  /\ ip' = [f \in File |-> NoInode] /\ off' = [f \in File |-> 0]
  /\ cur' = [p \in Process |-> Idle]
  /\ out' = <<>> /\ UNCHANGED contents

\* Creating a file, removing a name of an open one, a panic.
Other == out' = <<>> /\ UNCHANGED <<ip, off, cur, contents>>

Next ==
  \/ \E p \in Process : Call(p) \/ GiveUp(p) \/ \E k \in 1..Unit : Write(p, k)
  \/ \E f \in File : Open(f) \/ Read(f) \/ Close(f)
  \/ \E n \in Inode : Unlink(n)
  \/ Crash \/ Other

Spec == Init /\ [][Next]_<<contents, ip, off, cur, out>>
=============================================================================
