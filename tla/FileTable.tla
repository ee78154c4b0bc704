----------------------------- MODULE FileTable -----------------------------
(***************************************************************************)
(* Open files: ftable of kernel/file.c, the descriptors of the processes,  *)
(* and the system calls and process operations that create, share and drop *)
(* references: open, pipe, dup, close, fork and exit.  ftable.lock makes   *)
(* filealloc, filedup and the first part of fileclose atomic; everything   *)
(* between two of them interleaves.                                        *)
(***************************************************************************)
EXTENDS Integers, Sequences, FiniteSets

CONSTANTS Process, NFILE, NOFILE, \* include/param.h
          Page,     \* pages kalloc may give to pipes
          init      \* the process that never exits

ASSUME FileAssumption ==
  /\ NFILE \in Nat \ {0} /\ NOFILE \in Nat \ {0}
  /\ IsFiniteSet(Process) /\ init \in Process   \* NPROC of them

VARIABLES ref,       \* f->ref
          what,      \* f->type and, while it is not FD_NONE, which end of which pipe
          ofile,     \* proc->ofile
          open,      \* the ends of each pipe that are open
          inodes,    \* references to inodes held by files
          pc,        \* where each process is
          held,      \* references a process has in local variables
          last,      \* fileclose's copy ff of a file whose last reference is gone
          child, fd  \* fork's np; the descriptor dup, fork or exit is at

file == <<ref, what>>
vars == <<file, ofile, open, inodes, pc, held, last, child, fd>>

File == 1..NFILE
None == 0
Fd == 0..NOFILE - 1
NoPage == "none"
NoFile == [type |-> "NONE", end |-> "none", obj |-> NoPage]
OnInode == [type |-> "INODE", end |-> "none", obj |-> NoPage]
PipeEnd(o, e) == [type |-> "PIPE", end |-> e, obj |-> o]
Init ==
  /\ ref = [f \in File |-> 0]
  /\ what = [f \in File |-> NoFile]
  /\ ofile = [p \in Process |-> [i \in Fd |-> None]]
  /\ open = [o \in Page |-> {}]
  /\ inodes = 0
  /\ pc = [p \in Process |-> IF p = init THEN "user" ELSE "dead"]
  /\ held = [p \in Process |-> <<>>]
  /\ last = [p \in Process |-> NoFile]
  /\ child = [p \in Process |-> p]
  /\ fd = [p \in Process |-> 0]

-----------------------------------------------------------------------------
Free == {f \in File : ref[f] = 0}
First(S) == CHOOSE x \in S : \A y \in S : x <= y

\* filealloc takes the first file without references; the process holds it.
Filealloc(p) ==
  /\ Free # {}
  /\ ref' = [ref EXCEPT ![First(Free)] = 1]
  /\ held' = [held EXCEPT ![p] = Append(@, First(Free))]

FreeFds(p) == {i \in Fd : ofile[p][i] = None}

\* fileclose is called for all files the process holds, in order.
CloseHeld(p) ==
  /\ pc' = [pc EXCEPT ![p] = "close"]
  /\ UNCHANGED held

\* sys_open up to filealloc; on failure nothing has changed.
OpenAlloc(p) ==
  /\ pc[p] = "user"
  /\ Filealloc(p)
  /\ pc' = [pc EXCEPT ![p] = "open"]
  /\ UNCHANGED <<what, ofile, open, inodes, last, child, fd>>

\* fdalloc and the rest of sys_open.
OpenFd(p) ==
  /\ pc[p] = "open"
  /\ FreeFds(p) # {}
  /\ LET f == held[p][1] IN
       /\ ofile' = [ofile EXCEPT ![p][First(FreeFds(p))] = f]
       /\ what' = [what EXCEPT ![f] = OnInode]
  /\ held' = [held EXCEPT ![p] = <<>>]
  /\ inodes' = inodes + 1
  /\ pc' = [pc EXCEPT ![p] = "user"]
  /\ UNCHANGED <<ref, open, last, child, fd>>

OpenNoFd(p) ==
  /\ pc[p] = "open"
  /\ FreeFds(p) = {}
  /\ CloseHeld(p)
  /\ UNCHANGED <<file, ofile, open, inodes, last, child, fd>>

\* pipealloc's two filealloc calls.
PipeAlloc(p) ==
  /\ \/ pc[p] = "user"
     \/ pc[p] = "pipe" /\ Len(held[p]) = 1
  /\ Filealloc(p)
  /\ pc' = [pc EXCEPT ![p] = "pipe"]
  /\ UNCHANGED <<what, ofile, open, inodes, last, child, fd>>

Ready(p) == pc[p] = "pipe" /\ Len(held[p]) = 2 /\ what[held[p][1]] = NoFile

\* Mutant: pipealloc does not close *f0 when it fails.
PipeBadLeak(p) ==
  /\ \/ pc[p] = "pipe" /\ Len(held[p]) = 1 /\ Free = {}
     \/ Ready(p)
  /\ held' = [held EXCEPT ![p] = <<>>]
  /\ pc' = [pc EXCEPT ![p] = "user"]
  /\ UNCHANGED <<file, ofile, open, inodes, last, child, fd>>

\* The second filealloc or kalloc fails: `bad:' in pipealloc.
PipeBad(p) ==
  /\ \/ pc[p] = "pipe" /\ Len(held[p]) = 1 /\ Free = {}
     \/ Ready(p)
  /\ CloseHeld(p)
  /\ UNCHANGED <<file, ofile, open, inodes, last, child, fd>>

\* kalloc succeeds and pipealloc fills in the pipe and both files.
PipeMake(p, o) ==
  /\ Ready(p)
  /\ open[o] = {}
  /\ open' = [open EXCEPT ![o] = {"read", "write"}]
  /\ LET f0 == held[p][1]
         f1 == held[p][2]
     IN what' = [what EXCEPT ![f0] = PipeEnd(o, "read"), ![f1] = PipeEnd(o, "write")]
  /\ UNCHANGED <<ref, ofile, inodes, pc, held, last, child, fd>>

Made(p) == pc[p] = "pipe" /\ Len(held[p]) = 2 /\ what[held[p][1]] # NoFile

\* sys_pipe: two descriptors, or close both files.
PipeFds(p) ==
  /\ Made(p)
  /\ Cardinality(FreeFds(p)) >= 2
  /\ LET fd0 == First(FreeFds(p))
         fd1 == First(FreeFds(p) \ {fd0})
     IN ofile' = [ofile EXCEPT ![p][fd0] = held[p][1], ![p][fd1] = held[p][2]]
  /\ held' = [held EXCEPT ![p] = <<>>]
  /\ pc' = [pc EXCEPT ![p] = "user"]
  /\ UNCHANGED <<file, open, inodes, last, child, fd>>

PipeNoFds(p) ==
  /\ Made(p)
  /\ Cardinality(FreeFds(p)) < 2
  /\ CloseHeld(p)
  /\ UNCHANGED <<file, ofile, open, inodes, last, child, fd>>

\* sys_dup: fdalloc, then filedup.
DupFd(p, i) ==
  /\ pc[p] = "user"
  /\ ofile[p][i] # None
  /\ FreeFds(p) # {}
  /\ ofile' = [ofile EXCEPT ![p][First(FreeFds(p))] = ofile[p][i]]
  /\ fd' = [fd EXCEPT ![p] = i]
  /\ pc' = [pc EXCEPT ![p] = "dup"]
  /\ UNCHANGED <<file, open, inodes, held, last, child>>

DupRef(p) ==
  /\ pc[p] = "dup"
  /\ ref' = [ref EXCEPT ![ofile[p][fd[p]]] = @ + 1]
  /\ fd' = [fd EXCEPT ![p] = 0]
  /\ pc' = [pc EXCEPT ![p] = "user"]
  /\ UNCHANGED <<what, ofile, open, inodes, held, last, child>>

\* sys_close clears the descriptor, then calls fileclose.
CloseFd(p, i) ==
  /\ pc[p] = "user"
  /\ ofile[p][i] # None
  /\ held' = [held EXCEPT ![p] = <<ofile[p][i]>>]
  /\ ofile' = [ofile EXCEPT ![p][i] = None]
  /\ pc' = [pc EXCEPT ![p] = "close"]
  /\ UNCHANGED <<file, open, inodes, last, child, fd>>

\* Where a process goes when it has closed all files it held.
Closed(p, rest) ==
  pc' = [pc EXCEPT ![p] = IF rest # <<>> THEN "close"
                          ELSE IF fd[p] > 0 THEN "exit" ELSE "user"]

\* fileclose under ftable.lock.
Fileclose(p) ==
  /\ pc[p] = "close"
  /\ LET f == Head(held[p]) IN
       /\ ref' = [ref EXCEPT ![f] = @ - 1]
       /\ held' = [held EXCEPT ![p] = Tail(@)]
       /\ IF ref[f] > 1
          THEN /\ Closed(p, Tail(held[p]))
               /\ UNCHANGED <<what, last>>
          ELSE /\ last' = [last EXCEPT ![p] = what[f]]
               /\ what' = [what EXCEPT ![f] = NoFile]
               /\ pc' = [pc EXCEPT ![p] = "last"]
  /\ UNCHANGED <<ofile, open, inodes, child, fd>>

\* Mutant: fileclose passes the wrong end to pipeclose.
FilecloseOtherEnd(p) ==
  /\ pc[p] = "last"
  /\ open' = IF last[p].type = "PIPE"
             THEN [open EXCEPT ![last[p].obj] = @ \cap {last[p].end}] ELSE open
  /\ inodes' = IF last[p].type = "INODE" THEN inodes - 1 ELSE inodes
  /\ last' = [last EXCEPT ![p] = NoFile]
  /\ Closed(p, held[p])
  /\ UNCHANGED <<file, ofile, held, child, fd>>

\* The rest of fileclose: pipeclose or iput on the copy.
FilecloseLast(p) ==
  /\ pc[p] = "last"
  /\ open' = IF last[p].type = "PIPE"
             THEN [open EXCEPT ![last[p].obj] = @ \ {last[p].end}] ELSE open
  /\ inodes' = IF last[p].type = "INODE" THEN inodes - 1 ELSE inodes
  /\ last' = [last EXCEPT ![p] = NoFile]
  /\ Closed(p, held[p])
  /\ UNCHANGED <<file, ofile, held, child, fd>>

\* fork: the child's slot is taken, then the descriptors are duplicated one by
\* one; the child runs when all are.
Fork(p, c) ==
  /\ pc[p] = "user"
  /\ pc[c] = "dead"
  /\ child' = [child EXCEPT ![p] = c]
  /\ fd' = [fd EXCEPT ![p] = 0]
  /\ pc' = [pc EXCEPT ![p] = "fork", ![c] = "fork"]
  /\ UNCHANGED <<file, ofile, open, inodes, held, last>>

ForkDup(p) ==
  /\ pc[p] = "fork"
  /\ child[p] # p
  /\ fd[p] < NOFILE
  /\ LET f == ofile[p][fd[p]] IN
       IF f = None
       THEN UNCHANGED <<ref, ofile>>
       ELSE /\ ref' = [ref EXCEPT ![f] = @ + 1]
            /\ ofile' = [ofile EXCEPT ![child[p]][fd[p]] = f]
  /\ fd' = [fd EXCEPT ![p] = @ + 1]
  /\ UNCHANGED <<what, open, inodes, pc, held, last, child>>

ForkRun(p) ==
  /\ pc[p] = "fork"
  /\ child[p] # p
  /\ fd[p] = NOFILE
  /\ pc' = [pc EXCEPT ![p] = "user", ![child[p]] = "user"]
  /\ child' = [child EXCEPT ![p] = p]
  /\ fd' = [fd EXCEPT ![p] = 0, ![child[p]] = 0]
  /\ UNCHANGED <<file, ofile, open, inodes, held, last>>

Exit(p) ==
  /\ p # init
  /\ pc[p] = "user"
  /\ pc' = [pc EXCEPT ![p] = "exit"]
  /\ UNCHANGED <<file, ofile, open, inodes, held, last, child, fd>>

\* exit closes the descriptors in order.  Nobody else reads proc->ofile, so the
\* descriptor is cleared with the call of fileclose.
ExitFd(p) ==
  /\ pc[p] = "exit"
  /\ fd[p] < NOFILE
  /\ LET f == ofile[p][fd[p]] IN
       IF f = None
       THEN UNCHANGED <<ofile, held, pc>>
       ELSE /\ ofile' = [ofile EXCEPT ![p][fd[p]] = None]
            /\ held' = [held EXCEPT ![p] = <<f>>]
            /\ pc' = [pc EXCEPT ![p] = "close"]
  /\ fd' = [fd EXCEPT ![p] = @ + 1]
  /\ UNCHANGED <<file, open, inodes, last, child>>

\* The zombie is reaped and its slot free again.
Reaped(p) ==
  /\ pc[p] = "exit"
  /\ fd[p] = NOFILE
  /\ pc' = [pc EXCEPT ![p] = "dead"]
  /\ fd' = [fd EXCEPT ![p] = 0]
  /\ UNCHANGED <<file, ofile, open, inodes, held, last, child>>

Next ==
  \E p \in Process :
    \/ OpenAlloc(p) \/ OpenFd(p) \/ OpenNoFd(p)
    \/ PipeAlloc(p) \/ PipeBad(p) \/ PipeFds(p) \/ PipeNoFds(p)
    \/ \E o \in Page : PipeMake(p, o)
    \/ \E i \in Fd : DupFd(p, i) \/ CloseFd(p, i)
    \/ DupRef(p)
    \/ Fileclose(p) \/ FilecloseLast(p)
    \/ \E c \in Process : Fork(p, c)
    \/ ForkDup(p) \/ ForkRun(p)
    \/ Exit(p) \/ ExitFd(p) \/ Reaped(p)

Spec == Init /\ [][Next]_vars
-----------------------------------------------------------------------------
\* Where a process keeps references: its descriptors, then its local variables.
Slot == Process \X (0..NOFILE + 1)

\* The file at each slot, but for the descriptor that sys_dup is copying and has
\* not counted twice yet.
Table ==
  [s \in Slot |->
     LET p == s[1]
         i == s[2]
     IN  IF i < NOFILE
         THEN IF pc[p] = "dup" /\ fd[p] = i THEN None ELSE ofile[p][i]
         ELSE IF i - NOFILE < Len(held[p]) THEN held[p][i - NOFILE + 1] ELSE None]

\* file.h:3: f->ref is the number of references, whatever sequence of open,
\* pipe, dup, fork, close and exit, with their failures, got there.
RefCount == \A f \in File : ref[f] = Cardinality({s \in Slot : Table[s] = f})

EndOpen(o, e) ==
  \/ \E f \in File : what[f] = PipeEnd(o, e)
  \/ \E p \in Process : last[p] = PipeEnd(o, e)

\* fileclose calls pipeclose or iput once for each file and not before its last
\* descriptor is gone (file.c:63-78): an end of a pipe is open, and an inode
\* referenced, exactly while a file has it or a process is on its way there.
LastCloseOnce ==
  /\ \A o \in Page, e \in {"read", "write"} : e \in open[o] <=> EndOpen(o, e)
  /\ inodes = Cardinality({f \in File : what[f] = OnInode})
              + Cardinality({p \in Process : last[p] = OnInode})
=============================================================================
