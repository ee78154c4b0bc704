------------------------------- MODULE Inode -------------------------------
(***************************************************************************)
(* The inode layer and the directories of kernel/fs.c under the system     *)
(* calls that change the name space: open, create, mkdir, link, unlink,    *)
(* close (kernel/sysfile.c, fileclose of kernel/file.c).                   *)
(*                                                                         *)
(* A step is what a process does between two points where another process  *)
(* can interfere.  ilock ... iunlock with no other wait in between is one  *)
(* step, taken when I_BUSY is clear; I_BUSY is visible where the code      *)
(* waits, or calls iput, with the inode locked.  Sleeping in ilock and     *)
(* begin_trans is the guard of the step.  The disk is seen through the     *)
(* buffer cache; the log makes a transaction atomic (module Log).          *)
(***************************************************************************)
EXTENDS Integers, Sequences, FiniteSets

CONSTANTS Process, Name,
          Inode,    \* the dinodes of the file system
          root,     \* ROOTINO
          Calls,    \* system calls with their paths, from the root
          Nobody

ASSUME InodeAssumption ==
  /\ Inode \subseteq Nat \ {0} /\ root \in Inode
  /\ Calls \subseteq [call : {"open", "create", "mkdir", "unlink", "link"},
                      path : Seq(Name) \ {<<>>}, new : Seq(Name)]
  /\ Nobody \notin Process

VARIABLES disk,     \* type and nlink of the dinodes
          entry,    \* directory entries: entry[d][n] is an inode, or 0
          dotdot,   \* the inode of the entry ".."
          ref, flags, mem,   \* the inode cache
          trans,    \* the process inside a transaction
          file,     \* the inode of the open file of a process, or 0
          panicked,
          l         \* where a process is, and its local variables

vars == <<disk, entry, dotdot, ref, flags, mem, trans, file, panicked, l>>
dirs == <<entry, dotdot>>

FreeDinode == [type |-> "free", nlink |-> 0]
Empty == [n \in Name |-> 0]
Idle == [pc |-> "user", call |-> "none", path |-> <<>>, new |-> <<>>,
         dp |-> 0, ip |-> 0, puts |-> <<>>, next |-> "none"]

\* An empty file system; every process has the root as its current directory.
Init ==
  /\ disk = [i \in Inode |-> IF i = root THEN [type |-> "dir", nlink |-> 1] ELSE FreeDinode]
  /\ entry = [i \in Inode |-> Empty]
  /\ dotdot = [i \in Inode |-> root]
  /\ ref = [i \in Inode |-> IF i = root THEN Cardinality(Process) ELSE 0]
  /\ flags = [i \in Inode |-> {}]
  /\ mem = [i \in Inode |-> FreeDinode]
  /\ trans = Nobody
  /\ file = [p \in Process |-> 0]
  /\ panicked = FALSE
  /\ l = [p \in Process |-> Idle]

-----------------------------------------------------------------------------
At(p, pc) == ~panicked /\ l[p].pc = pc

\* What ilock finds: the cached copy, or the dinode it reads.
Loaded(i) == IF "VALID" \in flags[i] THEN mem[i] ELSE disk[i]

Unlocked(i) == "BUSY" \notin flags[i]

\* ilock(i) ... iunlock(i), the inode being m afterwards.
Locked(i, m) ==
  /\ Unlocked(i)
  /\ flags' = [flags EXCEPT ![i] = @ \cup {"VALID"}]
  /\ mem' = [mem EXCEPT ![i] = m]

Linked(i, d) == [Loaded(i) EXCEPT !.nlink = @ + d]

\* Process p calls iput for its variables vs in order and goes on at next.
Put(p, vs, next) ==
  LET Put1(v) == IF \E k \in DOMAIN vs : vs[k] = v THEN 0 ELSE l[p][v] IN
  l' = [l EXCEPT ![p].pc = "put", ![p].puts = [k \in DOMAIN vs |-> l[p][vs[k]]],
                 ![p].next = next, ![p].dp = Put1("dp"), ![p].ip = Put1("ip")]

\* iget: one more reference to the cache entry of i, taking an unused entry if
\* there is none.
Iget(i) == ref' = [ref EXCEPT ![i] = @ + 1]

\* After the last iput of s: p goes on at next.
Resumed(r, s) ==
  IF s # <<>> THEN [r EXCEPT !.pc = "put", !.puts = s]
  ELSE IF r.next = "user" THEN Idle
  ELSE [r EXCEPT !.pc = r.next, !.puts = <<>>, !.next = "none"]

\* Mutant: iput frees an inode without links whatever the references.
LastPutAny(i) == "VALID" \in flags[i] /\ mem[i].nlink = 0

\* Whether iput(i) frees the inode.
LastPut(i) == ref[i] = 1 /\ "VALID" \in flags[i] /\ mem[i].nlink = 0

\* iput: drop a reference; an unused entry is not valid any more ...
Iput(p) ==
  /\ At(p, "put")
  /\ LET i == Head(l[p].puts) IN
       /\ ~LastPut(i)
       /\ ref' = [ref EXCEPT ![i] = @ - 1]
       /\ flags' = [flags EXCEPT ![i] = IF ref[i] = 1 THEN {} ELSE @]
       /\ mem' = [mem EXCEPT ![i] = IF ref[i] = 1 THEN FreeDinode ELSE @]
       /\ l' = [l EXCEPT ![p] = Resumed(@, Tail(@.puts))]
  /\ UNCHANGED <<disk, dirs, trans, file, panicked>>

\* ... or, for the last reference to an inode without links, lock the inode
\* and release icache.lock,
IputLast(p) ==
  /\ At(p, "put")
  /\ LET i == Head(l[p].puts) IN
       /\ LastPut(i)
       /\ flags' = [flags EXCEPT ![i] = @ \cup {"BUSY"}]
  /\ l' = [l EXCEPT ![p].pc = "free"]
  /\ UNCHANGED <<disk, dirs, ref, mem, trans, file, panicked>>

\* truncate and free it on the disk; log_write panics outside a transaction,
Itrunc(p) ==
  /\ At(p, "free")
  /\ LET i == Head(l[p].puts) IN
       IF trans = Nobody
       THEN panicked' = TRUE /\ UNCHANGED <<disk, entry, mem, l>>
       ELSE /\ disk' = [disk EXCEPT ![i] = FreeDinode]
            /\ mem' = [mem EXCEPT ![i] = FreeDinode]
            /\ entry' = [entry EXCEPT ![i] = Empty]
            /\ l' = [l EXCEPT ![p].pc = "freed"]
            /\ UNCHANGED panicked
  /\ UNCHANGED <<dotdot, ref, flags, trans, file>>

\* Mutant: iput only unlocks the freed inode.
IputFreedValid(p) ==
  /\ At(p, "freed")
  /\ LET i == Head(l[p].puts) IN
       /\ flags' = [flags EXCEPT ![i] = IF ref[i] = 1 THEN {} ELSE @ \ {"BUSY"}]
       /\ ref' = [ref EXCEPT ![i] = @ - 1]
  /\ l' = [l EXCEPT ![p] = Resumed(@, Tail(@.puts))]
  /\ UNCHANGED <<disk, dirs, mem, trans, file, panicked>>

\* and drop the reference.
IputFreed(p) ==
  /\ At(p, "freed")
  /\ LET i == Head(l[p].puts) IN
       /\ flags' = [flags EXCEPT ![i] = {}]
       /\ ref' = [ref EXCEPT ![i] = @ - 1]
  /\ l' = [l EXCEPT ![p] = Resumed(@, Tail(@.puts))]
  /\ UNCHANGED <<disk, dirs, mem, trans, file, panicked>>

-----------------------------------------------------------------------------
(* Directories and paths *)

\* The inode of an entry, or 0; an entry with number 0 is no entry.
dirlookup(d, n) == entry[d][n]

dirlink(d, n, i) == [entry EXCEPT ![d][n] = i]

\* Paths are sequences of names: the next one, and the rest.
name(p) == Head(l[p].path)

skipelem(path) == Tail(path)

\* Whether the lookup is nameiparent: sys_link looks up its first path before
\* it begins the transaction.
Parent(p) == l[p].call \in {"create", "mkdir", "unlink"} \/ (l[p].call = "link" /\ trans = p)

Fail(p) == IF trans # p THEN "user" ELSE IF l[p].call = "link" THEN "bad" ELSE "commit"

Found(p) ==
  CASE l[p].call = "open" -> "open"
    [] l[p].call = "link" -> IF trans = p THEN "link" ELSE "begin"
    [] l[p].call = "unlink" -> "begin"
    [] OTHER -> "create"

\* One element of the path in namex.
Namex(p) ==
  /\ At(p, "walk")
  /\ LET d == l[p].dp
         n == dirlookup(d, name(p))
         last == Len(l[p].path) = 1
     IN /\ Locked(d, Loaded(d))
        /\ \/ /\ Loaded(d).type = "dir" /\ Parent(p) /\ last
              /\ l' = [l EXCEPT ![p].pc = Found(p)]
              /\ UNCHANGED ref
           \/ /\ Loaded(d).type = "dir" /\ ~(Parent(p) /\ last) /\ n # 0
              /\ Iget(n)
              /\ l' = [l EXCEPT ![p].pc = "put", ![p].puts = <<d>>,
                                ![p].next = IF last THEN Found(p) ELSE "walk",
                                ![p].path = skipelem(@),
                                ![p].dp = IF last THEN 0 ELSE n,
                                ![p].ip = IF last THEN n ELSE @]
           \/ /\ Loaded(d).type # "dir" \/ (~(Parent(p) /\ last) /\ n = 0)
              /\ Put(p, <<"dp">>, Fail(p))
              /\ UNCHANGED ref
  /\ UNCHANGED <<disk, dirs, trans, file, panicked>>

-----------------------------------------------------------------------------
(* System calls *)

\* sys_open without O_CREATE, sys_unlink and sys_link look up a path first; a
\* process has one open file at a time.
CallWalk(p, c) ==
  /\ At(p, "user")
  /\ c.call \in {"open", "unlink", "link"}
  /\ c.call = "open" => file[p] = 0
  /\ Iget(root)
  /\ l' = [l EXCEPT ![p] = [Idle EXCEPT !.pc = "walk", !.call = c.call, !.path = c.path,
                                        !.new = c.new, !.dp = root]]
  /\ UNCHANGED <<disk, dirs, flags, mem, trans, file, panicked>>

\* sys_open with O_CREATE and sys_mkdir begin a transaction first.
CallBegin(p, c) ==
  /\ At(p, "user")
  /\ c.call \in {"create", "mkdir"}
  /\ c.call = "create" => file[p] = 0
  /\ l' = [l EXCEPT ![p] = [Idle EXCEPT !.pc = "begin", !.call = c.call, !.path = c.path]]
  /\ UNCHANGED <<disk, dirs, ref, flags, mem, trans, file, panicked>>

\* fileclose for the last reference of a file.
CallClose(p) ==
  /\ At(p, "user")
  /\ file[p] # 0
  /\ file' = [file EXCEPT ![p] = 0]
  /\ l' = [l EXCEPT ![p] = [Idle EXCEPT !.pc = "begin", !.call = "close", !.ip = file[p]]]
  /\ UNCHANGED <<disk, dirs, ref, flags, mem, trans, panicked>>

BeginTrans(p) ==
  /\ At(p, "begin")
  /\ trans = Nobody
  /\ trans' = p
  /\ \/ /\ l[p].call \in {"create", "mkdir"}
        /\ Iget(root)
        /\ l' = [l EXCEPT ![p].pc = "walk", ![p].dp = root]
     \/ /\ l[p].call \in {"unlink", "link"}
        /\ l' = [l EXCEPT ![p].pc = IF l[p].call = "link" THEN "linkinc" ELSE "unlink"]
        /\ UNCHANGED ref
     \/ /\ l[p].call = "close"
        /\ Put(p, <<"ip">>, "commit")
        /\ UNCHANGED ref
  /\ UNCHANGED <<disk, dirs, flags, mem, file, panicked>>

\* sys_open commits before it makes the file, with the inode locked.
CommitTrans(p) ==
  /\ At(p, "commit")
  /\ trans' = Nobody
  /\ l' = [l EXCEPT ![p] = IF l[p].ip # 0 THEN [@ EXCEPT !.pc = "opened"] ELSE Idle]
  /\ UNCHANGED <<disk, dirs, ref, flags, mem, file, panicked>>

\* The end of sys_open: a file, or iunlockput.
Opens(p) ==
  \/ /\ file' = [file EXCEPT ![p] = l[p].ip]
     /\ l' = [l EXCEPT ![p] = Idle]
  \/ /\ Put(p, <<"ip">>, "user")
     /\ UNCHANGED file

Open(p) ==
  /\ At(p, "open")
  /\ Locked(l[p].ip, Loaded(l[p].ip))
  /\ Opens(p)
  /\ UNCHANGED <<disk, dirs, ref, trans, panicked>>

OpenCreated(p) ==
  /\ At(p, "opened")
  /\ flags' = [flags EXCEPT ![l[p].ip] = @ \ {"BUSY"}]
  /\ Opens(p)
  /\ UNCHANGED <<disk, dirs, ref, mem, trans, panicked>>

FreeInodes == {i \in Inode : disk[i].type = "free"}
First(S) == CHOOSE i \in S : \A j \in S : i <= j

\* create: dirlookup; ialloc with the directory locked.
CreateLookup(p) ==
  /\ At(p, "create")
  /\ LET d == l[p].dp
         e == dirlookup(d, name(p))
         n == First(FreeInodes)
     IN /\ Unlocked(d)
        /\ \/ /\ e # 0
              /\ Locked(d, Loaded(d))
              /\ Iget(e)
              /\ l' = [l EXCEPT ![p].pc = "put", ![p].puts = <<d>>, ![p].next = "created",
                                ![p].dp = 0, ![p].ip = e]
              /\ UNCHANGED <<disk, panicked>>
           \/ /\ e = 0 /\ FreeInodes # {}
              /\ flags' = [flags EXCEPT ![d] = {"BUSY", "VALID"}]
              /\ mem' = [mem EXCEPT ![d] = Loaded(d)]
              /\ disk' = [disk EXCEPT ![n] = [type |-> IF l[p].call = "mkdir" THEN "dir" ELSE "file",
                                             nlink |-> 0]]
              /\ Iget(n)
              /\ l' = [l EXCEPT ![p].pc = "create2", ![p].ip = n]
              /\ UNCHANGED panicked
           \/ /\ e = 0 /\ FreeInodes = {}
              /\ panicked' = TRUE
              /\ UNCHANGED <<disk, ref, flags, mem, l>>
  /\ UNCHANGED <<dirs, trans, file>>

\* create: the new inode and its entry; the directory is unlocked, the inode
\* stays locked.
CreateLink(p) ==
  /\ At(p, "create2")
  /\ LET d == l[p].dp
         i == l[p].ip
         m == [Loaded(i) EXCEPT !.nlink = 1]
         md == IF m.type = "dir" THEN Linked(d, 1) ELSE mem[d]
     IN /\ Unlocked(i)
        /\ mem' = [mem EXCEPT ![i] = m, ![d] = md]
        /\ disk' = [disk EXCEPT ![i] = m, ![d] = md]
        /\ flags' = [flags EXCEPT ![i] = {"BUSY", "VALID"}, ![d] = {"VALID"}]
        /\ entry' = dirlink(d, name(p), i)
        /\ dotdot' = [dotdot EXCEPT ![i] = IF m.type = "dir" THEN d ELSE @]
        /\ Put(p, <<"dp">>, IF l[p].call = "mkdir" THEN "mkdir" ELSE "commit")
  /\ UNCHANGED <<ref, trans, file, panicked>>

\* Mutant: create does not put an existing inode it cannot use.
CreateExistsLeak(p) ==
  /\ At(p, "created")
  /\ LET i == l[p].ip IN
       IF l[p].call = "create" /\ Loaded(i).type = "file"
       THEN /\ Unlocked(i)
            /\ flags' = [flags EXCEPT ![i] = {"BUSY", "VALID"}]
            /\ mem' = [mem EXCEPT ![i] = Loaded(i)]
            /\ l' = [l EXCEPT ![p].pc = "commit"]
       ELSE /\ Locked(i, Loaded(i))
            /\ l' = [l EXCEPT ![p].pc = "commit", ![p].ip = 0]
  /\ UNCHANGED <<disk, dirs, ref, trans, file, panicked>>

\* create: the name exists.
CreateExists(p) ==
  /\ At(p, "created")
  /\ LET i == l[p].ip IN
       /\ Unlocked(i)
       /\ IF l[p].call = "create" /\ Loaded(i).type = "file"
          THEN /\ flags' = [flags EXCEPT ![i] = {"BUSY", "VALID"}]
               /\ mem' = [mem EXCEPT ![i] = Loaded(i)]
               /\ l' = [l EXCEPT ![p].pc = "commit"]
          ELSE Locked(i, Loaded(i)) /\ Put(p, <<"ip">>, "commit")
  /\ UNCHANGED <<disk, dirs, ref, trans, file, panicked>>

Mkdir(p) ==
  /\ At(p, "mkdir")
  /\ flags' = [flags EXCEPT ![l[p].ip] = @ \ {"BUSY"}]
  /\ Put(p, <<"ip">>, "commit")
  /\ UNCHANGED <<disk, dirs, ref, mem, trans, file, panicked>>

\* sys_unlink: dirlookup in the locked directory.
UnlinkLookup(p) ==
  /\ At(p, "unlink")
  /\ LET d == l[p].dp
         e == dirlookup(d, name(p))
     IN /\ Unlocked(d)
        /\ mem' = [mem EXCEPT ![d] = Loaded(d)]
        /\ \/ /\ e = 0
              /\ flags' = [flags EXCEPT ![d] = {"VALID"}]
              /\ Put(p, <<"dp">>, "commit")
              /\ UNCHANGED ref
           \/ /\ e # 0
              /\ flags' = [flags EXCEPT ![d] = {"BUSY", "VALID"}]
              /\ Iget(e)
              /\ l' = [l EXCEPT ![p].pc = "unlink2", ![p].ip = e]
  /\ UNCHANGED <<disk, dirs, trans, file, panicked>>

\* sys_unlink: the entry is erased, unless it is a directory with entries.
UnlinkErase(p) ==
  /\ At(p, "unlink2")
  /\ LET d == l[p].dp
         i == l[p].ip
         isdir == Loaded(i).type = "dir"
         md == IF isdir THEN Linked(d, -1) ELSE mem[d]
     IN /\ Unlocked(i)
        /\ \/ /\ isdir /\ entry[i] # Empty
              /\ flags' = [flags EXCEPT ![i] = {"VALID"}, ![d] = {"VALID"}]
              /\ mem' = [mem EXCEPT ![i] = Loaded(i)]
              /\ Put(p, <<"ip", "dp">>, "commit")
              /\ UNCHANGED <<disk, entry>>
           \/ /\ ~(isdir /\ entry[i] # Empty)
              /\ entry' = dirlink(d, name(p), 0)
              /\ flags' = [flags EXCEPT ![i] = {"BUSY", "VALID"}, ![d] = {"VALID"}]
              /\ mem' = [mem EXCEPT ![i] = Loaded(i), ![d] = md]
              /\ disk' = [disk EXCEPT ![d] = md]
              /\ Put(p, <<"dp">>, "unlink3")
  /\ UNCHANGED <<dotdot, ref, trans, file, panicked>>

UnlinkDrop(p) ==
  /\ At(p, "unlink3")
  /\ LET i == l[p].ip IN
       /\ mem' = [mem EXCEPT ![i] = Linked(i, -1)]
       /\ disk' = [disk EXCEPT ![i] = Linked(i, -1)]
       /\ flags' = [flags EXCEPT ![i] = @ \ {"BUSY"}]
       /\ Put(p, <<"ip">>, "commit")
  /\ UNCHANGED <<dirs, ref, trans, file, panicked>>

\* sys_link: count the new link first, then look up where it goes.
LinkInc(p) ==
  /\ At(p, "linkinc")
  /\ LET i == l[p].ip IN
       \/ /\ Loaded(i).type = "dir"
          /\ Locked(i, Loaded(i))
          /\ Put(p, <<"ip">>, "commit")
          /\ UNCHANGED <<disk, ref>>
       \/ /\ Loaded(i).type # "dir"
          /\ Locked(i, Linked(i, 1))
          /\ disk' = [disk EXCEPT ![i] = Linked(i, 1)]
          /\ Iget(root)
          /\ l' = [l EXCEPT ![p].pc = "walk", ![p].dp = root, ![p].path = l[p].new]
  /\ UNCHANGED <<dirs, trans, file, panicked>>

\* sys_link: dirlink, which fails when the name exists.
Link(p) ==
  /\ At(p, "link")
  /\ LET d == l[p].dp
         n == name(p)
     IN /\ Locked(d, Loaded(d))
        /\ IF dirlookup(d, n) # 0
           THEN Put(p, <<"dp">>, "bad") /\ UNCHANGED entry
           ELSE /\ entry' = dirlink(d, n, l[p].ip)
                /\ Put(p, <<"dp", "ip">>, "commit")
  /\ UNCHANGED <<disk, dotdot, ref, trans, file, panicked>>

\* Mutant: a failed sys_link leaves the link counted.
LinkBadKeep(p) ==
  /\ At(p, "bad")
  /\ Locked(l[p].ip, Loaded(l[p].ip))
  /\ Put(p, <<"ip">>, "commit")
  /\ UNCHANGED <<disk, dirs, ref, trans, file, panicked>>

LinkBad(p) ==
  /\ At(p, "bad")
  /\ LET i == l[p].ip IN
       /\ Locked(i, Linked(i, -1))
       /\ disk' = [disk EXCEPT ![i] = Linked(i, -1)]
       /\ Put(p, <<"ip">>, "commit")
  /\ UNCHANGED <<dirs, ref, trans, file, panicked>>

\* panic() stops the machine.
Halted == panicked /\ UNCHANGED vars

Step(p) ==
  \/ Iput(p) \/ IputLast(p) \/ Itrunc(p) \/ IputFreed(p)
  \/ Namex(p) \/ BeginTrans(p) \/ CommitTrans(p)
  \/ Open(p) \/ OpenCreated(p)
  \/ CreateLookup(p) \/ CreateLink(p) \/ CreateExists(p) \/ Mkdir(p)
  \/ UnlinkLookup(p) \/ UnlinkErase(p) \/ UnlinkDrop(p)
  \/ LinkInc(p) \/ Link(p) \/ LinkBad(p)

Next ==
  \/ \E p \in Process : Step(p) \/ CallClose(p)
  \/ \E p \in Process, c \in Calls : CallWalk(p, c) \/ CallBegin(p, c)
  \/ Halted

Spec == Init /\ [][Next]_vars
-----------------------------------------------------------------------------
\* The pointers to cache entries that process p has.
Pointers(p) == <<l[p].dp, l[p].ip, file[p], root>> \o l[p].puts

\* fs.c:123-127: ip->ref is the number of pointers to the entry: open files,
\* current directories and local variables of system calls on any path,
\* failures included.
RefCount ==
  ~panicked => \A i \in Inode : 
    ref[i] = Cardinality({pk \in Process \X (1..6) : pk[2] \in DOMAIN Pointers(pk[1]) /\ Pointers(pk[1])[pk[2]] = i})

Entries(i) == {dn \in Inode \X Name : entry[dn[1]][dn[2]] = i}
Subdirs(i) == {j \in Inode \ {root} : disk[j].type = "dir" /\ disk[j].nlink > 0 /\ dotdot[j] = i}

\* Between transactions nlink is the number of directory entries of an inode,
\* with one for ".." of each subdirectory; every entry names an allocated inode.
LinkCount ==
  trans = Nobody => \A i \in Inode :
    /\ disk[i].type # "free" =>
         disk[i].nlink = Cardinality(Entries(i)) + Cardinality(Subdirs(i)) + (IF i = root THEN 1 ELSE 0)
    /\ disk[i].type = "free" => Entries(i) = {}

\* An inode without links is freed with its last reference, not before and not
\* never: an open file keeps its inode, and an allocated inode has a link or a
\* reference (fs.c:118-120, 315-316).
FreedWithLastReference ==
  /\ \A p \in Process : file[p] # 0 => disk[file[p]].type # "free"
  /\ trans = Nobody => \A i \in Inode : disk[i].type # "free" => disk[i].nlink > 0 \/ ref[i] > 0

\* The inode a process locks next.
Wants(p) ==
  CASE l[p].pc \in {"walk", "create", "unlink", "link"} -> l[p].dp
    [] l[p].pc \in {"open", "create2", "created", "unlink2", "linkinc", "bad"} -> l[p].ip
    [] OTHER -> 0

\* The panics of ilock ("no type"), sys_unlink ("nlink < 1") and iput ("iput
\* busy") are unreachable, though inodes are freed and allocated again while
\* other processes hold or wait for their cache entries.
NoInodePanic ==
  \A p \in Process :
    /\ Wants(p) # 0 /\ Unlocked(Wants(p)) => Loaded(Wants(p)).type # "free"
    /\ l[p].pc = "unlink2" /\ Unlocked(l[p].ip) => Loaded(l[p].ip).nlink >= 1
    /\ l[p].pc = "put" /\ LastPut(Head(l[p].puts)) => Unlocked(Head(l[p].puts))
=============================================================================
