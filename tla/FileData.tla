------------------------------ MODULE FileData ------------------------------
(***************************************************************************)
(* The contents of files: block allocation, bmap, itrunc, readi and writei *)
(* of kernel/fs.c under fileread and filewrite of kernel/file.c.           *)
(*                                                                         *)
(* An inode's contents are protected by its lock, the bitmap and the log   *)
(* by the transaction, so one call of readi or writei is one step; a long  *)
(* filewrite is several.  A crash between two steps finds what the last    *)
(* transaction left (see Log).  Blocks hold numbers: bytes of files, or    *)
(* the block numbers of an indirect block.                                 *)
(***************************************************************************)
EXTENDS Mkfs, FiniteSets

CONSTANTS Process, File,
          Sources,  \* the bytes programs write
          LOGSIZE,
          Lengths,  \* of the calls of read
          NoInode

ASSUME FileDataAssumption ==
  /\ LOGSIZE \in Nat /\ LOGSIZE >= 6
  /\ Sources \subseteq Seq(Nat) \ {<<>>} /\ Lengths \subseteq Nat /\ NoInode \notin Inode

VARIABLES fs,      \* the disk, and the inodes in memory
          linked,  \* the inodes with a name
          ip, off, \* struct file
          cur,     \* the call of each process: its file and the bytes left to write
          out      \* what the step returned, if it was a read

vars == <<fs, linked, ip, off, cur, out>>

Junk == [k \in 0..BSIZE - 1 |-> 1]   \* stands for whatever a free block still holds
Idle == [f |-> 0, rest |-> <<>>]
Bitmap == -1   \* the file system of mkfs has one bitmap block
Inodes == 0    \* IBLOCK(n)

Clobbered(blk, S) == [b \in Block |-> IF b \in S THEN Junk ELSE blk[b]]

\* The machine boots from what mkfs has written.
Init ==
  /\ fs = [used |-> Allocated, blk |-> Clobbered(Image.blk, Block \ Allocated), addr |-> 0,
           node |-> Image.node, dnode |-> Image.node, log |-> {}, panic |-> "no"]
  /\ linked = 2..Len(Files) + 1
  /\ ip = [f \in File |-> NoInode] /\ off = [f \in File |-> 0]
  /\ cur = [p \in Process |-> Idle]
  /\ out = <<>>

-----------------------------------------------------------------------------
(* Blocks.  The operators take and return the record fs; addr is the block *)
(* number that balloc or bmap returned.                                    *)

\* log_write panics when the log is full, also for a block that is in it.
log_write(s, b) ==
  IF Cardinality(s.log) >= LOGSIZE - 1 THEN [s EXCEPT !.panic = "log"]
  ELSE [s EXCEPT !.log = @ \cup {b}]

commit_trans(s) == [s EXCEPT !.log = {}, !.addr = 0]

First(S) == CHOOSE x \in S : \A y \in S : x <= y

\* Mutant: balloc does not clear the block.
BallocNoZero(s) ==
  IF s.used = Block THEN [s EXCEPT !.panic = "inlog", !.addr = 1]
  ELSE LET b == First(Block \ s.used)
           t == [s EXCEPT !.used = @ \cup {b}, !.addr = b]
       IN log_write(log_write(t, Bitmap), b)

bzero(s, b) == log_write([s EXCEPT !.blk[b] = Zero], b)

\* balloc takes the first free block and clears it.  It looks at all blocks of
\* the disk, and mkfs has not marked those of the log as used: when the data
\* area is full balloc returns a block of the log, and the model ends.
Balloc(s) ==
  IF s.used = Block THEN [s EXCEPT !.panic = "inlog", !.addr = 1]
  ELSE LET b == First(Block \ s.used)
       IN bzero(log_write([s EXCEPT !.used = @ \cup {b}, !.addr = b], Bitmap), b)

\* ip->addrs[k], allocated if it is missing.
Pointer(s, n, k) ==
  LET a == s.node[n].addrs[k]
      t == Balloc(s)
  IN IF a # 0 THEN [s EXCEPT !.addr = a]
     ELSE [t EXCEPT !.node[n].addrs[k] = t.addr]

Bmap(s, n, bn) ==
  IF bn < NDIRECT THEN Pointer(s, n, bn)
  ELSE LET t == Pointer(s, n, NDIRECT)
           ib == t.addr
           a == t.blk[ib][bn - NDIRECT]
           u == Balloc(t)
       IN IF a # 0 THEN [t EXCEPT !.addr = a]
          ELSE log_write([u EXCEPT !.blk[ib][bn - NDIRECT] = u.addr], ib)

Iupdate(s, n) == log_write([s EXCEPT !.dnode[n] = s.node[n]], Inodes)

\* The blocks bfree is called for by itrunc, in its order.
Pointers(s, n) ==
  LET a == s.node[n].addrs
      ib == a[NDIRECT]
      direct == [k \in 1..NDIRECT |-> a[k - 1]]
      indirect == IF ib = 0 THEN <<>> ELSE [k \in 1..NINDIRECT |-> s.blk[ib][k - 1]] \o <<ib>>
  IN SelectSeq(direct \o indirect, LAMBDA b : b # 0)

\* Mutant: itrunc forgets the blocks of the indirect block.
ItruncNoIndirect(s, n) ==
  LET a == s.node[n].addrs
      gone == {a[k] : k \in 0..NDIRECT} \ {0}
  IN Iupdate([s EXCEPT !.used = @ \ gone, !.blk = Clobbered(@, gone), !.node[n] = Empty,
                       !.log = IF gone = {} THEN @ ELSE @ \cup {Bitmap}], n)

\* iput of an inode without links: itrunc, type 0, iupdate.  bfree panics on a
\* block that is free.
Itrunc(s, n) ==
  LET ps == Pointers(s, n)
      gone == {ps[j] : j \in DOMAIN ps}
  IN IF Cardinality(gone) < Len(ps) \/ ~(gone \subseteq s.used) THEN [s EXCEPT !.panic = "free"]
     ELSE Iupdate([s EXCEPT !.used = @ \ gone, !.blk = Clobbered(@, gone), !.node[n] = Empty,
                            !.log = IF gone = {} THEN @ ELSE @ \cup {Bitmap}], n)

-----------------------------------------------------------------------------
(* readi, writei *)

\* One turn of writei's loop: the bytes of src, written from offset o, that fall
\* into block bn.
WriteBlock(s, n, o, src, bn) ==
  LET t == Bmap(s, n, bn)
      b == [k \in 0..BSIZE - 1 |->
              IF bn * BSIZE + k - o + 1 \in DOMAIN src THEN src[bn * BSIZE + k - o + 1]
              ELSE t.blk[t.addr][k]]
  IN log_write([t EXCEPT !.blk[t.addr] = b], t.addr)

Refused(s, n, o, len) == o > s.node[n].size \/ o + len > MAXFILE * BSIZE

\* writei: the loop, then the size.
Writei(s, n, o, src) ==
  LET first == o \div BSIZE
      loop[bn \in Nat] == WriteBlock(IF bn = first THEN s ELSE loop[bn - 1], n, o, src, bn)
      t == loop[(o + Len(src) - 1) \div BSIZE]
  IN IF o + Len(src) > t.node[n].size
     THEN Iupdate([t EXCEPT !.node[n].size = o + Len(src)], n)
     ELSE t

\* The byte at offset o.
ByteAt(s, n, o) == LET t == Bmap(s, n, o \div BSIZE) IN t.blk[t.addr][o % BSIZE]

Smaller(x, y) == IF x < y THEN x ELSE y

-----------------------------------------------------------------------------
Up == fs.panic = "no"

\* Mutant: the limit ignores that a write need not be aligned.
MaxUnaligned == (LOGSIZE - 1 - 1 - 1) * BSIZE

\* filewrite's limit for one transaction.
Max == ((LOGSIZE - 1 - 1 - 2) \div 2) * BSIZE

\* sys_write: filewrite is called.
WriteCall(p, f, src) ==
  /\ Up /\ cur[p] = Idle
  /\ ip[f] # NoInode
  /\ cur' = [cur EXCEPT ![p] = [f |-> f, rest |-> src]]
  /\ out' = <<>> /\ UNCHANGED <<fs, linked, ip, off>>

\* A turn of filewrite's loop: one transaction.
Filewrite(p) ==
  /\ Up /\ cur[p] # Idle
  /\ LET f == cur[p].f
         rest == cur[p].rest
         n1 == Smaller(Len(rest), Max)
         s == Writei(fs, ip[f], off[f], SubSeq(rest, 1, n1))
     IN \/ /\ Refused(fs, ip[f], off[f], n1)
           /\ cur' = [cur EXCEPT ![p] = Idle]
           /\ UNCHANGED <<fs, off>>
        \/ /\ ~Refused(fs, ip[f], off[f], n1)
           /\ IF s.panic = "no"
              THEN /\ fs' = commit_trans(s)
                   /\ off' = [off EXCEPT ![f] = @ + n1]
                   /\ cur' = [cur EXCEPT ![p] = IF n1 = Len(rest) THEN Idle
                                                ELSE [@ EXCEPT !.rest = SubSeq(@, n1 + 1, Len(@))]]
              ELSE /\ fs' = [fs EXCEPT !.panic = s.panic]
                   /\ UNCHANGED <<off, cur>>
  /\ out' = <<>> /\ UNCHANGED <<linked, ip>>

\* fileread.  A hole would make bmap allocate outside of a transaction.
Fileread(p, f, n) ==
  /\ Up /\ cur[p] = Idle
  /\ ip[f] # NoInode
  /\ LET node == fs.node[ip[f]]
         m == Smaller(n, node.size - off[f])
     IN /\ off[f] <= node.size
        /\ IF \E o \in off[f]..off[f] + m - 1 : Bmap(fs, ip[f], o \div BSIZE).used # fs.used
           THEN /\ fs' = [fs EXCEPT !.panic = "trans"]
                /\ out' = <<>> /\ UNCHANGED off
           ELSE /\ out' = [j \in 1..m |-> ByteAt(fs, ip[f], off[f] + j - 1)]
                /\ off' = [off EXCEPT ![f] = @ + m]
                /\ UNCHANGED fs
  /\ UNCHANGED <<linked, ip, cur>>

\* create: ialloc clears the first free inode.
Create(n) ==
  /\ Up
  /\ fs.dnode[n].type = 0
  /\ \A x \in Inode : fs.dnode[x].type = 0 => n <= x
  /\ LET node == [Empty EXCEPT !.type = T_FILE] IN
       fs' = [fs EXCEPT !.node[n] = node, !.dnode[n] = node]
  /\ linked' = linked \cup {n}
  /\ out' = <<>> /\ UNCHANGED <<ip, off, cur>>

\* sys_open of a file that exists.
Open(f, n) ==
  /\ Up /\ ip[f] = NoInode /\ n \in linked
  /\ ip' = [ip EXCEPT ![f] = n] /\ off' = [off EXCEPT ![f] = 0]
  /\ out' = <<>> /\ UNCHANGED <<fs, linked, cur>>

\* The last fileclose of f, and iput.
Close(f) ==
  /\ Up /\ ip[f] # NoInode
  /\ \A p \in Process : cur[p].f # f
  /\ fs' = IF ip[f] \notin linked /\ \A g \in File \ {f} : ip[g] # ip[f]
           THEN commit_trans(Itrunc(fs, ip[f])) ELSE fs
  /\ ip' = [ip EXCEPT ![f] = NoInode] /\ off' = [off EXCEPT ![f] = 0]
  /\ out' = <<>> /\ UNCHANGED <<linked, cur>>

\* sys_unlink of the last name, and iput.
Unlink(n) ==
  /\ Up /\ n \in linked
  /\ linked' = linked \ {n}
  /\ fs' = IF \A f \in File : ip[f] # n THEN commit_trans(Itrunc(fs, n)) ELSE fs
  /\ out' = <<>> /\ UNCHANGED <<ip, off, cur>>

\* A crash, or the reboot after a panic: memory is lost, inodes are read from
\* the disk again.
Crash ==
  /\ fs.panic # "inlog"
  /\ fs' = [fs EXCEPT !.node = fs.dnode, !.panic = "no"]
  /\ ip' = [f \in File |-> NoInode] /\ off' = [f \in File |-> 0]
  /\ cur' = [p \in Process |-> Idle]
  /\ out' = <<>>
  /\ UNCHANGED linked

Halted == fs.panic = "inlog" /\ UNCHANGED vars

Next ==
  \/ \E p \in Process : Filewrite(p)
  \/ \E p \in Process, f \in File :
       (\E k \in Lengths : Fileread(p, f, k)) \/ (\E src \in Sources : WriteCall(p, f, src))
  \/ \E n \in Inode : Create(n) \/ Unlink(n)
  \/ \E f \in File : Close(f) \/ \E n \in Inode : Open(f, n)
  \/ Crash
  \/ Halted

Spec == Init /\ [][Next]_vars
-----------------------------------------------------------------------------
Abstract ==
  INSTANCE ByteFiles WITH
    Unit <- Max,
    Initial <- [n \in Inode |-> Given(n)],
    contents <- [n \in Inode |-> [j \in 1..fs.node[n].size |-> ByteAt(fs, n, j - 1)]]

\* Whatever blocks they are stored in, files behave as sequences of bytes:
\* every chunk of a write and every read takes place at the shared offset of its
\* open file at once, no file sees the bytes of another or of a removed one, and
\* what mkfs or a transaction has written survives a crash.
FilesAreBytes == Abstract!Spec

\* A block is in use exactly if one pointer of one inode on the disk leads to
\* it; so bfree never frees a free block (fs.c:89) and none is lost, crash or
\* not.
BlocksOwned ==
  LET ps == [n \in Inode |-> Pointers([fs EXCEPT !.node = fs.dnode], n)]
      refs == {<<n, j>> \in Inode \X (1..MAXFILE + 1) : j <= Len(ps[n])}
  IN /\ fs.panic # "free"
     /\ {ps[r[1]][r[2]] : r \in refs} = fs.used
     /\ Cardinality(refs) = Cardinality(fs.used)

\* file.c:125-128: a transaction of filewrite, with its data blocks, the inode,
\* the indirect and the bitmap block, never exceeds the log; and reads never
\* allocate (log.c:164-167), since no file has holes.
NoLogPanic == fs.panic \notin {"log", "trans"}
=============================================================================
