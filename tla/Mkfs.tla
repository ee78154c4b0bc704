-------------------------------- MODULE Mkfs --------------------------------
(***************************************************************************)
(* The file system that tools/mkfs.c writes: the root directory and a file *)
(* for each of its arguments.  The operators take and return the image, a  *)
(* record of the blocks of the data area, the inodes, and the counters     *)
(* freeblock and freeinode.  Block numbers count from the start of the     *)
(* data area.  A directory entry is one number, the inode's.               *)
(***************************************************************************)
EXTENDS Integers, Sequences

CONSTANTS Inode,  \* 1 is the root
          Files,  \* the bytes of the files that are copied
          BSIZE, NDIRECT, NINDIRECT, NBLOCK

Block == 1..NBLOCK
MAXFILE == NDIRECT + NINDIRECT
ROOTINO == 1
T_DIR == 1
T_FILE == 2

Zero == [k \in 0..BSIZE - 1 |-> 0]
Empty == [type |-> 0, size |-> 0, addrs |-> [k \in 0..NDIRECT |-> 0]]

Blank == [blk |-> [b \in Block |-> Zero], node |-> [n \in Inode |-> Empty],
          freeblock |-> 1, freeinode |-> ROOTINO]

ialloc(s, type) ==
  [s EXCEPT !.node[s.freeinode] = [Empty EXCEPT !.type = type], !.freeinode = @ + 1]

\* The pointer to block fbn of inode n: allocated if it is missing.  The blocks
\* are still clear from the start, also one that becomes the indirect block.
Address(s, n, fbn) ==
  LET k == IF fbn < NDIRECT THEN fbn ELSE NDIRECT
      t == IF s.node[n].addrs[k] # 0 THEN s
           ELSE [s EXCEPT !.node[n].addrs[k] = s.freeblock, !.freeblock = @ + 1]
      ib == t.node[n].addrs[NDIRECT]
      j == fbn - NDIRECT
  IN IF fbn < NDIRECT \/ t.blk[ib][j] # 0 THEN t
     ELSE [t EXCEPT !.blk[ib][j] = t.freeblock, !.freeblock = @ + 1]

\* The number x that the loop of iappend works on.
Located(s, n, fbn) ==
  IF fbn < NDIRECT THEN s.node[n].addrs[fbn] ELSE s.blk[s.node[n].addrs[NDIRECT]][fbn - NDIRECT]

\* One turn of iappend's loop, and the loop.
iappendBlock(s, n, off, p, fbn) ==
  LET t == Address(s, n, fbn)
      x == Located(t, n, fbn)
  IN [t EXCEPT !.blk[x] = [k \in 0..BSIZE - 1 |->
                             LET j == fbn * BSIZE + k - off + 1 IN IF j \in DOMAIN p THEN p[j] ELSE @[k]]]

iappend(s, n, p) ==
  LET off == s.node[n].size
      loop[fbn \in Nat] ==
        iappendBlock(IF fbn = off \div BSIZE THEN s ELSE loop[fbn - 1], n, off, p, fbn)
  IN [loop[(off + Len(p) - 1) \div BSIZE] EXCEPT !.node[n].size = off + Len(p)]

\* A file: its inode, its directory entry, then its contents, read in blocks.
AddFile(s, file) ==
  LET n == s.freeinode
      start == iappend(ialloc(s, T_FILE), ROOTINO, <<n>>)
      End(b) == IF b * BSIZE < Len(file) THEN b * BSIZE ELSE Len(file)
      copy[b \in Nat] ==
        IF b = 0 THEN start ELSE iappend(copy[b - 1], n, SubSeq(file, (b - 1) * BSIZE + 1, End(b)))
  IN copy[(Len(file) + BSIZE - 1) \div BSIZE]

\* main: the entries "." and "..", the files, then the size of the root is
\* extended to the end of a block.
Image ==
  LET root == iappend(iappend(ialloc(Blank, T_DIR), ROOTINO, <<ROOTINO>>), ROOTINO, <<ROOTINO>>)
      add[i \in Nat] == IF i = 0 THEN root ELSE AddFile(add[i - 1], Files[i])
  IN [add[Len(Files)] EXCEPT !.node[ROOTINO].size = (@ \div BSIZE + 1) * BSIZE]

\* balloc: the bitmap has the blocks below freeblock.
Allocated == 1..Image.freeblock - 1

\* What the image should hold.
Given(n) ==
  IF n - 1 \in DOMAIN Files THEN Files[n - 1]
  ELSE IF n = ROOTINO
       THEN [k \in 1..((2 + Len(Files)) \div BSIZE + 1) * BSIZE |->
               IF k <= 2 THEN ROOTINO ELSE IF k <= 2 + Len(Files) THEN k - 1 ELSE 0]
       ELSE <<>>

\* What mkfs relies on: there is room for the files, and the directory does not
\* end with a block.  (If it does, the extended size covers a block that has not
\* been allocated.)
ASSUME MkfsAssumption ==
  /\ BSIZE \in Nat \ {0} /\ NDIRECT \in Nat /\ NINDIRECT \in 1..BSIZE /\ NBLOCK \in Nat \ {0}
  /\ Inode \subseteq Nat \ {0} /\ 1..Len(Files) + 1 \subseteq Inode
  /\ \A i \in DOMAIN Files : Len(Files[i]) <= MAXFILE * BSIZE
  /\ (2 + Len(Files)) % BSIZE # 0
  /\ Image.freeblock <= NBLOCK + 1
=============================================================================
