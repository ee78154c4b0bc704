------------------------------- MODULE Shell -------------------------------
(***************************************************************************)
(* init, the shell and the processes its command lines become (user/init.c,*)
(* user/sh.c): fork, wait, exit, and the descriptors that close, dup, open *)
(* and pipe arrange before exec.  The kernel appears only through its      *)
(* system calls: a process slot, a descriptor table, a pipe with room for  *)
(* PIPESIZE chunks.  Two programs stand for what a command may do: echo    *)
(* writes and ends, cat copies its input until the end of file.            *)
(***************************************************************************)
EXTENDS ShParse

CONSTANTS NPROC,     \* process slots
          Slots,     \* how many of them other programs leave to init and its shell
          NPIPE,     \* pipes the file table has room for
          PIPESIZE,  \* chunks a pipe holds
          Chunks,    \* chunks that echo writes, or that cat can get from a file
          Lines,     \* the lines the user enters
          Overlap,   \* those also typed while background commands are running
          MaxTokens  \* a line typed only to be erased is no longer than this

ASSUME ShellAssumption ==
  /\ {NPROC, NPIPE, PIPESIZE} \subseteq Nat \ {0} /\ Slots \subseteq 1..NPROC /\ {Chunks, MaxTokens} \subseteq Nat
  /\ Overlap \subseteq Lines /\ Lines \subseteq Seq(Word \cup Symbol)

Proc == 1..NPROC
initproc == 1
Nobody == 0
NOFILE == 6               \* descriptors: three, and at most a pipe's two besides
Pipe == 1..NPIPE
ReadEnd(k) == <<"r", k>>
WriteEnd(k) == <<"w", k>>
Closed == <<"closed">>
Console == <<"console">>
File == <<"file">>

VARIABLES
  at,      \* where a process is; "free" when the slot is unused, "busy" when it
           \* belongs to another program
  parent,
  cmd,     \* the command runcmd is running
  ofile,   \* its descriptors
  fds,     \* p[2] in runcmd
  left,    \* the chunks its program can still produce itself
  pipe,    \* chunks in each pipe
  sh,      \* the slot of the shell: pid in init's main()
  line,    \* buf in the shell's main() while the user types
  tree,    \* parsecmd(buf), which the shell's child computes once it runs
  bg       \* history: nobody promised to wait for this process

vars == <<at, parent, cmd, ofile, fds, left, pipe, sh, line, tree, bg>>

NoCmd == execcmd(<<>>)
AllClosed == [d \in 0..NOFILE - 1 |-> Closed]
Stdio == [d \in 0..NOFILE - 1 |-> IF d < 3 THEN Console ELSE Closed]

\* init has opened the console three times and is about to start the shell.
Init ==
  /\ \E n \in Slots :
       at = [p \in Proc |-> IF p = initproc THEN "init" ELSE IF p <= n THEN "free" ELSE "busy"]
  /\ parent = [p \in Proc |-> Nobody] /\ cmd = [p \in Proc |-> NoCmd]
  /\ ofile = [p \in Proc |-> IF p = initproc THEN Stdio ELSE AllClosed]
  /\ fds = [p \in Proc |-> <<0, 0>>] /\ left = [p \in Proc |-> 0]
  /\ pipe = [k \in Pipe |-> 0]
  /\ sh = Nobody /\ line = <<>> /\ tree = NoCmd /\ bg = [p \in Proc |-> FALSE]

-----------------------------------------------------------------------------
(* The kernel's side of a system call *)

Free == {p \in Proc : at[p] = "free"}
Children(p) == {q \in Proc : at[q] # "free" /\ parent[q] = p}
Zombies(p) == {q \in Children(p) : at[q] = "zombie"}
Opened(o, f) == \E p \in Proc : \E d \in DOMAIN o[p] : o[p][d] = f
InUse(o, k) == Opened(o, ReadEnd(k)) \/ Opened(o, WriteEnd(k))
\* The pipes that are left when the descriptor tables are o.
Kept(o) == [k \in Pipe |-> IF InUse(o, k) THEN pipe[k] ELSE 0]

\* fdalloc: the lowest closed descriptor.
fdalloc(t) == Min({d \in DOMAIN t : t[d] = Closed})
close(t, d) == [t EXCEPT ![d] = Closed]
open(t, f) == [t EXCEPT ![fdalloc(t)] = f]
dup(t, d) == open(t, t[d])

Goto(p, a) == at' = [at EXCEPT ![p] = a]

\* fork1 in p: the child q starts at a with command c and descriptors t, the
\* parent goes on at b.
Fork(p, q, a, c, t, b) ==
  /\ \A r \in Free : q <= r
  /\ at' = [at EXCEPT ![p] = b, ![q] = a]
  /\ parent' = [parent EXCEPT ![q] = p]
  /\ cmd' = [cmd EXCEPT ![q] = c]
  /\ ofile' = [ofile EXCEPT ![q] = t]

RECURSIVE Descendants(_)
Descendants(p) == UNION {{q} \cup Descendants(q) : q \in Children(p) \ Zombies(p)}

\* panic(): the process exits, and nobody will wait for what it has started.
Fail(p) ==
  /\ Goto(p, "exit")
  /\ bg' = [q \in Proc |-> bg[q] \/ q \in Descendants(p)]
  /\ tree' = IF at[p] \in {"fork1", "parse"} THEN NoCmd ELSE tree
  /\ UNCHANGED <<parent, cmd, ofile, fds, left, pipe, sh, line>>

\* fork() fails when there is no slot; fork1 then panics.
ForkFails(p) == Free = {} /\ Fail(p)

\* wait(): frees one zombie child.  Every caller has a child; one that had none
\* would stay here, where the code goes on.
Wait(p, b, c) ==
  /\ \E z \in Zombies(p) :
       /\ \A y \in Zombies(p) : z <= y
       /\ at' = [at EXCEPT ![p] = b, ![z] = "free"] /\ parent' = [parent EXCEPT ![z] = Nobody]
  /\ cmd' = [cmd EXCEPT ![p] = c]
  /\ UNCHANGED <<ofile, fds, left, pipe, sh, line, tree, bg>>

\* exit(): the descriptors are closed and init inherits the children.
Exit(p) ==
  /\ at[p] = "exit" /\ p # initproc
  /\ Goto(p, "zombie")
  /\ ofile' = [ofile EXCEPT ![p] = AllClosed]
  /\ cmd' = [cmd EXCEPT ![p] = NoCmd] /\ left' = [left EXCEPT ![p] = 0]
  /\ fds' = [fds EXCEPT ![p] = <<0, 0>>] /\ bg' = [bg EXCEPT ![p] = FALSE]
  /\ parent' = [q \in Proc |-> IF q \in Children(p) THEN initproc ELSE parent[q]]
  /\ pipe' = Kept(ofile')
  /\ UNCHANGED <<sh, line, tree>>

-----------------------------------------------------------------------------
(* init *)

InitFork ==
  /\ at[initproc] = "init"
  /\ \/ \E q \in Free :
          /\ Fork(initproc, q, "getcmd", NoCmd, ofile[initproc], "initwait") /\ sh' = q
          /\ UNCHANGED <<fds, left, pipe, line, tree, bg>>
     \/ ForkFails(initproc)

\* wpid == pid starts the shell again; any other pid is a zombie it inherited.
InitWait ==
  /\ at[initproc] = "initwait"
  /\ \E z \in Zombies(initproc) :
     /\ \A y \in Zombies(initproc) : z <= y
     /\ at' = [at EXCEPT ![initproc] = IF z = sh THEN "init" ELSE "initwait", ![z] = "free"]
     /\ parent' = [parent EXCEPT ![z] = Nobody]
     /\ sh' = IF z = sh THEN Nobody ELSE sh
  /\ UNCHANGED <<cmd, ofile, fds, left, pipe, line, tree, bg>>

-----------------------------------------------------------------------------
(* main() of the shell *)

Prompt == sh # Nobody /\ at[sh] = "getcmd"

\* gets() in getcmd(): one more token, or a line that the user takes back.
Gets(t) ==
  /\ line' = Append(line, t)
  /\ \/ \E l \in Overlap : IsPrefix(line', l)
     \/ /\ \A p \in Proc \ {initproc, sh} : at[p] \in {"free", "busy"}
        /\ Len(line') <= MaxTokens \/ \E l \in Lines : IsPrefix(line', l)
  /\ UNCHANGED <<at, parent, cmd, ofile, fds, left, pipe, sh, tree, bg>>

Erase ==
  /\ line # <<>> /\ line' = <<>>
  /\ UNCHANGED <<at, parent, cmd, ofile, fds, left, pipe, sh, tree, bg>>

\* The newline, or the end of the console's input.
Getcmd ==
  /\ \/ line \in Lines /\ Goto(sh, "fork1") /\ tree' = parsecmd(line)
     \/ line = <<>> /\ Goto(sh, "exit") /\ UNCHANGED tree
  /\ line' = <<>>
  /\ UNCHANGED <<parent, cmd, ofile, fds, left, pipe, sh, bg>>

MainFork(p) ==
  /\ at[p] = "fork1"
  /\ \/ \E q \in Free :
          Fork(p, q, "parse", NoCmd, ofile[p], "mainwait") /\ UNCHANGED <<fds, left, pipe, sh, line, tree, bg>>
     \/ ForkFails(p)

\* The shell waits for any child of its own, and has only this one.
MainWait(p) == at[p] = "mainwait" /\ Wait(p, "getcmd", NoCmd)

\* runcmd(parsecmd(buf)) in the child.
Parse(p) ==
  /\ at[p] = "parse"
  /\ LET c == tree IN
     \/ c = Panic /\ Fail(p)
     \/ /\ c # Panic
        /\ Goto(p, "runcmd") /\ cmd' = [cmd EXCEPT ![p] = c] /\ tree' = NoCmd
        /\ UNCHANGED <<parent, ofile, fds, left, pipe, sh, line, bg>>

-----------------------------------------------------------------------------
(* runcmd() *)

Runs(p, type) == at[p] = "runcmd" /\ cmd[p].type = type

\* exec replaces the process by a program, and returns when there is none.
\* The arguments are left out: every echo has Chunks pieces to write and every
\* cat copies its standard input.
RunExec(p) ==
  /\ Runs(p, "EXEC")
  /\ LET argv == cmd[p].argv IN
     \/ argv = <<>> /\ Goto(p, "exit") /\ UNCHANGED left
     \/ argv # <<>> /\ Head(argv) \notin {"echo", "cat"} /\ Goto(p, "exit") /\ UNCHANGED left
     \/ /\ argv # <<>> /\ Head(argv) \in {"echo", "cat"}
        /\ Goto(p, Head(argv)) /\ left' = [left EXCEPT ![p] = Chunks]
  /\ cmd' = [cmd EXCEPT ![p] = NoCmd]
  /\ UNCHANGED <<parent, ofile, fds, pipe, sh, line, tree, bg>>

RunRedir(p) ==
  /\ Runs(p, "REDIR")
  /\ LET t == close(ofile[p], cmd[p].fd) IN
     \/ \* open() fails
        /\ ofile' = [ofile EXCEPT ![p] = t]
        /\ Goto(p, "exit") /\ UNCHANGED cmd
     \/ /\ ofile' = [ofile EXCEPT ![p] = open(t, File)]
        /\ cmd' = [cmd EXCEPT ![p] = cmd[p].cmd] /\ UNCHANGED at
  /\ pipe' = Kept(ofile')
  /\ UNCHANGED <<parent, fds, left, sh, line, tree, bg>>

RunList(p) ==
  /\ Runs(p, "LIST")
  /\ \/ \E q \in Free :
          /\ Fork(p, q, "runcmd", cmd[p].left, ofile[p], "listwait")
          /\ bg' = [bg EXCEPT ![q] = bg[p]]
          /\ UNCHANGED <<fds, left, pipe, sh, line, tree>>
     \/ ForkFails(p)

ListWait(p) == at[p] = "listwait" /\ Wait(p, "runcmd", cmd[p].right)

\* pipe() fails when the file table has no room.
RunPipe(p) ==
  /\ Runs(p, "PIPE")
  /\ \/ \E k \in Pipe :
          LET r == fdalloc(ofile[p])
              t == open(ofile[p], ReadEnd(k))
              w == fdalloc(t) IN
          /\ ~InUse(ofile, k) /\ \A j \in 1..k - 1 : InUse(ofile, j)
          /\ ofile' = [ofile EXCEPT ![p] = open(t, WriteEnd(k))]
          /\ fds' = [fds EXCEPT ![p] = <<r, w>>]
          /\ Goto(p, "pipeleft")
          /\ UNCHANGED <<parent, cmd, left, pipe, sh, line, tree, bg>>
     \/ (\A k \in Pipe : InUse(ofile, k)) /\ Fail(p)

\* close(p[0]); close(p[1])
\* Mutant: p[1] stays open.
CloseReadEnd(p, t) == close(t, fds[p][1])
CloseBoth(p, t) == close(close(t, fds[p][1]), fds[p][2])

PipeFork(p, c, a, b) ==
  \/ \E q \in Free :
       /\ Fork(p, q, a, c, ofile[p], b)
       /\ fds' = [fds EXCEPT ![q] = fds[p]] /\ bg' = [bg EXCEPT ![q] = bg[p]]
       /\ UNCHANGED <<left, pipe, sh, line, tree>>
  \/ ForkFails(p)

PipeLeft(p) == at[p] = "pipeleft" /\ PipeFork(p, cmd[p].left, "leftside", "piperight")
PipeRight(p) == at[p] = "piperight" /\ PipeFork(p, cmd[p].right, "rightside", "pipeclose")

\* The child connects its descriptor d to p[e] and runs its side of the pipe.
\* Its four calls are one step: none of them waits.
PipeSide(p, d, e) ==
  /\ ofile' = [ofile EXCEPT ![p] = CloseBoth(p, dup(close(@, d), fds[p][e]))]
  /\ pipe' = Kept(ofile')
  /\ Goto(p, "runcmd") /\ fds' = [fds EXCEPT ![p] = <<0, 0>>]
  /\ UNCHANGED <<parent, cmd, left, sh, line, tree, bg>>

LeftSide(p) == at[p] = "leftside" /\ PipeSide(p, 1, 2)
RightSide(p) == at[p] = "rightside" /\ PipeSide(p, 0, 1)

\* Mutant: the parent keeps the write end while it waits.
PipeKeep(p) ==
  /\ at[p] = "pipeclose"
  /\ ofile' = [ofile EXCEPT ![p] = close(ofile[p], fds[p][1])] /\ pipe' = Kept(ofile')
  /\ Goto(p, "pipewait")
  /\ UNCHANGED <<parent, cmd, fds, left, sh, line, tree, bg>>

PipeClose(p) ==
  /\ at[p] = "pipeclose"
  /\ ofile' = [ofile EXCEPT ![p] = CloseBoth(p, ofile[p])] /\ pipe' = Kept(ofile')
  /\ Goto(p, "pipewait")
  /\ UNCHANGED <<parent, cmd, fds, left, sh, line, tree, bg>>

\* Mutant: wait() is called for one of the two children only.
PipeWaitOnce(p) == at[p] = "pipewait" /\ Wait(p, "exit", NoCmd)

PipeWait(p) ==
  \/ at[p] = "pipewait" /\ Wait(p, "pipewait2", NoCmd)
  \/ at[p] = "pipewait2" /\ Wait(p, "exit", NoCmd)

RunBack(p) ==
  /\ Runs(p, "BACK")
  /\ \/ \E q \in Free :
          /\ Fork(p, q, "runcmd", cmd[p].cmd, ofile[p], "exit")
          /\ bg' = [bg EXCEPT ![q] = TRUE]
          /\ UNCHANGED <<fds, left, pipe, sh, line, tree>>
     \/ ForkFails(p)

-----------------------------------------------------------------------------
(* The programs *)

\* printf(1, ...): a chunk goes to descriptor 1; nobody looks at the result.
Write(p, a, n) ==
  LET f == ofile[p][1] IN
  /\ \/ \E k \in Pipe :
          /\ f = WriteEnd(k)
          /\ \/ Opened(ofile, ReadEnd(k)) /\ pipe[k] < PIPESIZE /\ pipe' = [pipe EXCEPT ![k] = @ + 1]
             \/ ~Opened(ofile, ReadEnd(k)) /\ UNCHANGED pipe
     \/ f \in {Console, File} /\ UNCHANGED pipe
  /\ Goto(p, a) /\ left' = [left EXCEPT ![p] = n]
  /\ UNCHANGED <<parent, cmd, ofile, fds, sh, line, tree, bg>>

Echo(p) ==
  /\ at[p] = "echo"
  /\ \/ left[p] > 0 /\ Write(p, "echo", left[p] - 1)
     \/ /\ left[p] = 0 /\ Goto(p, "exit")
        /\ UNCHANGED <<parent, cmd, ofile, fds, left, pipe, sh, line, tree, bg>>

\* read(0, ...) of a pipe or a file: a chunk, or the end of the input.
CatRead(p) ==
  /\ at[p] = "cat"
  /\ LET f == ofile[p][0] IN
     \/ \E k \in Pipe :
          /\ f = ReadEnd(k)
          /\ \/ pipe[k] > 0 /\ pipe' = [pipe EXCEPT ![k] = @ - 1] /\ Goto(p, "catwrite")
             \/ pipe[k] = 0 /\ ~Opened(ofile, WriteEnd(k)) /\ Goto(p, "exit") /\ UNCHANGED pipe
          /\ UNCHANGED left
     \/ f = File /\ left[p] > 0 /\ Goto(p, "catwrite")
        /\ left' = [left EXCEPT ![p] = @ - 1] /\ UNCHANGED pipe
     \/ f = File /\ Goto(p, "exit") /\ UNCHANGED <<left, pipe>>
  /\ UNCHANGED <<parent, cmd, ofile, fds, sh, line, tree, bg>>

\* read(0, ...) of the console: consoleread() sleeps until the user enters a
\* line, or ^D for the end of the input.
CatConsole(p) ==
  /\ at[p] = "cat" /\ ofile[p][0] = Console
  /\ \/ left[p] > 0 /\ Goto(p, "catwrite") /\ left' = [left EXCEPT ![p] = @ - 1]
     \/ Goto(p, "exit") /\ UNCHANGED left
  /\ UNCHANGED <<parent, cmd, ofile, fds, pipe, sh, line, tree, bg>>

CatWrite(p) == at[p] = "catwrite" /\ Write(p, "cat", left[p])

-----------------------------------------------------------------------------
Program(p) == Echo(p) \/ CatRead(p) \/ CatWrite(p)

Runcmd(p) ==
  \/ RunExec(p) \/ RunRedir(p) \/ RunList(p) \/ ListWait(p) \/ RunPipe(p)
  \/ PipeLeft(p) \/ PipeRight(p) \/ LeftSide(p) \/ RightSide(p) \/ PipeClose(p) \/ PipeWait(p)
  \/ RunBack(p)

Step(p) ==
  MainFork(p) \/ MainWait(p) \/ Parse(p) \/ Runcmd(p) \/ Program(p) \/ Exit(p)

\* init has exited: the kernel panics ("init exiting", proc.c).
Halted == at[initproc] = "exit"

Run == InitFork \/ InitWait \/ \E p \in Proc : Step(p)
User == Prompt /\ ((\E t \in Word \cup Symbol : Gets(t)) \/ Erase \/ Getcmd)
Answer == \E p \in Proc : CatConsole(p)

Next == ~Halted /\ (Run \/ User \/ Answer)

\* The processor does not stay idle while some process can run: less than the
\* scheduler promises (Proc, NoStarvation), and enough here.  The user need not
\* type anything, neither at the prompt nor to a program.
Fairness == WF_vars(~Halted /\ Run)

Spec == Init /\ [][Next]_vars /\ Fairness

-----------------------------------------------------------------------------
(* Properties *)

\* The recursive descent of sh.c reads every line as its grammar says: | binds
\* tighter than &, & tighter than ;, a pipeline and a list nest to the right,
\* and redirections apply to the simple command or block they follow.
ParsesGrammar == parsecmd(line) = Grammar(line)

\* A command starts, and a program runs, with exactly descriptors 0, 1 and 2,
\* the first readable and the second writable; only a process between its
\* pipe(), or the fork() behind it, and its close(p[1]) or exit() has both ends
\* of a pipe.
Plumbing ==
  \A p \in Proc :
    /\ at[p] \in {"runcmd", "echo", "cat", "catwrite", "getcmd"} =>
         /\ {d \in DOMAIN ofile[p] : ofile[p][d] # Closed} = 0..2
         /\ ofile[p][0] \notin {WriteEnd(k) : k \in Pipe}
         /\ ofile[p][1] \notin {ReadEnd(k) : k \in Pipe}
    /\ \A k \in Pipe :
         {ReadEnd(k), WriteEnd(k)} \subseteq {ofile[p][d] : d \in DOMAIN ofile[p]} =>
           at[p] \in {"pipeleft", "piperight", "pipeclose", "leftside", "rightside", "exit"}

\* The shell prompts only when every process of the line it ran has ended,
\* except what the line put in the background and what a process started that
\* then failed to fork() or to get a pipe, and so did not wait.
ForegroundDone ==
  Prompt =>
    \A p \in Proc \ {initproc, sh} : at[p] \in {"free", "busy", "zombie"} \/ bg[p]

\* A program that reads the console gets its lines, and in the end ^D.
UserAnswers == WF_vars(~Halted /\ Answer)

\* If the user answers the programs that read the console, every command line
\* comes to an end and the user gets a prompt again, from this shell or from the
\* one init starts after it: no reader is left waiting for an end of file that a
\* forgotten write end holds back.
PromptReturns == UserAnswers => []<>(Prompt \/ Halted)
=============================================================================
