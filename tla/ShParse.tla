------------------------------ MODULE ShParse ------------------------------
(***************************************************************************)
(* The parser of user/sh.c, over lines that are already split into tokens  *)
(* (the words and symbols gettoken would return), and the grammar it is    *)
(* meant to implement, defined the other way round: by splitting a line at *)
(* its operators, the loosest binding one first.                           *)
(***************************************************************************)
EXTENDS Integers, Sequences, SequencesExt, FiniteSetsExt

CONSTANTS Word,     \* command, argument and file names
          MAXARGS   \* sh.c:14

Symbol == {"|", "&", ";", "(", ")", "<", ">", ">>"}

\* The struct cmd variants; panic() in the parser ends the process.
Panic == [type |-> "PANIC"]
execcmd(argv) == [type |-> "EXEC", argv |-> argv]
redircmd(cmd, fd) == IF cmd = Panic THEN Panic ELSE [type |-> "REDIR", cmd |-> cmd, fd |-> fd]
pipecmd(l, r) == IF Panic \in {l, r} THEN Panic ELSE [type |-> "PIPE", left |-> l, right |-> r]
listcmd(l, r) == IF Panic \in {l, r} THEN Panic ELSE [type |-> "LIST", left |-> l, right |-> r]
backcmd(cmd) == IF cmd = Panic THEN Panic ELSE [type |-> "BACK", cmd |-> cmd]

-----------------------------------------------------------------------------
(* The recursive descent: each function takes the tokens that are left and *)
(* returns the command it read and the tokens after it.                    *)

peek(s, toks) == s # <<>> /\ Head(s) \in toks
Read(cmd, rest) == [cmd |-> cmd, rest |-> rest]
Failed == Read(Panic, <<>>)

Redirection == {"<", ">", ">>"}
Fd(tok) == IF tok = "<" THEN 0 ELSE 1

RECURSIVE parseredirs(_, _), parseargs(_, _), parseblock(_), parseexec(_),
          parsepipe(_), parseback(_), parseline(_)

parseredirs(cmd, s) ==
  IF ~peek(s, Redirection) THEN Read(cmd, s)
  ELSE IF ~peek(Tail(s), Word) THEN Failed
  ELSE parseredirs(redircmd(cmd, Fd(Head(s))), Tail(Tail(s)))

\* argv is filled in the struct execcmd at the bottom of the redirections.
RECURSIVE AddArg(_, _)
AddArg(cmd, w) ==
  CASE cmd.type = "EXEC" /\ Len(cmd.argv) + 1 < MAXARGS -> execcmd(Append(cmd.argv, w))
    [] cmd.type = "REDIR" -> redircmd(AddArg(cmd.cmd, w), cmd.fd)
    [] OTHER -> Panic

parseargs(cmd, s) ==
  LET r == parseredirs(cmd, s) IN
  IF r.cmd = Panic \/ r.rest = <<>> \/ peek(r.rest, {"|", ")", "&", ";"}) THEN r
  ELSE IF ~peek(r.rest, Word) THEN Failed
  ELSE parseargs(AddArg(r.cmd, Head(r.rest)), Tail(r.rest))

parseblock(s) ==
  LET r == parseline(Tail(s)) IN
  IF r.cmd = Panic \/ ~peek(r.rest, {")"}) THEN Failed ELSE parseredirs(r.cmd, Tail(r.rest))

parseexec(s) == IF peek(s, {"("}) THEN parseblock(s) ELSE parseargs(execcmd(<<>>), s)

\* Mutant: a pipeline is read from the left, as if | were left-associative.
RECURSIVE LeftToRight(_)
LeftToRight(r) ==
  IF ~peek(r.rest, {"|"}) THEN r
  ELSE LET t == parseexec(Tail(r.rest)) IN LeftToRight(Read(pipecmd(r.cmd, t.cmd), t.rest))
parsepipeLeft(s) == LeftToRight(parseexec(s))

parsepipe(s) ==
  LET r == parseexec(s) IN
  IF ~peek(r.rest, {"|"}) THEN r
  ELSE LET t == parsepipe(Tail(r.rest)) IN Read(pipecmd(r.cmd, t.cmd), t.rest)

\* The loop of parseline.
parseback(r) == IF peek(r.rest, {"&"}) THEN parseback(Read(backcmd(r.cmd), Tail(r.rest))) ELSE r

parseline(s) ==
  LET r == parseback(parsepipe(s)) IN
  IF ~peek(r.rest, {";"}) THEN r
  ELSE LET t == parseline(Tail(r.rest)) IN Read(listcmd(r.cmd, t.cmd), t.rest)

parsecmd(s) == LET r == parseline(s) IN IF r.rest = <<>> THEN r.cmd ELSE Panic

-----------------------------------------------------------------------------
(* The grammar *)

Depth(s, i) ==
  Cardinality({j \in 1..i : s[j] = "("}) - Cardinality({j \in 1..i : s[j] = ")"})
Balanced(s) == Depth(s, Len(s)) = 0 /\ \A i \in DOMAIN s : Depth(s, i) >= 0
\* Where tok stands outside all parentheses.
Top(s, tok) == {i \in DOMAIN s : s[i] = tok /\ Depth(s, i) = 0}
Before(s, i) == SubSeq(s, 1, i - 1)
After(s, i) == SubSeq(s, i + 1, Len(s))

\* Every redirection symbol of s names a file, and everything else is a word.
Plain(s) ==
  \A i \in DOMAIN s : s[i] \in Word \/ (s[i] \in Redirection /\ i < Len(s) /\ s[i + 1] \in Word)
Args(s) == {i \in DOMAIN s : s[i] \in Word /\ (i = 1 \/ s[i - 1] \notin Redirection)}
Redirect(cmd, s) ==
  FoldLeft(LAMBDA c, t : redircmd(c, Fd(t)), cmd, SelectSeq(s, LAMBDA t : t \in Redirection))

RECURSIVE Sentence(_)
Simple(s) ==
  IF s # <<>> /\ s[1] = "("
  THEN LET j == Min({i \in DOMAIN s : Depth(s, i) = 0}) IN
       IF Plain(After(s, j)) /\ Args(After(s, j)) = {}
       THEN Redirect(Sentence(SubSeq(s, 2, j - 1)), After(s, j)) ELSE Panic
  ELSE IF Plain(s) /\ Cardinality(Args(s)) < MAXARGS
  THEN Redirect(execcmd([k \in 1..Cardinality(Args(s)) |-> s[SetToSortSeq(Args(s), <)[k]]]), s)
  ELSE Panic

RECURSIVE Pipeline(_), Job(_)
Pipeline(s) ==
  IF Top(s, "|") = {} THEN Simple(s)
  ELSE LET i == Min(Top(s, "|")) IN pipecmd(Simple(Before(s, i)), Pipeline(After(s, i)))
Job(s) == IF s # <<>> /\ Last(s) = "&" THEN backcmd(Job(Front(s))) ELSE Pipeline(s)
Sentence(s) ==
  IF Top(s, ";") = {} THEN Job(s)
  ELSE LET i == Min(Top(s, ";")) IN listcmd(Job(Before(s, i)), Sentence(After(s, i)))

Grammar(s) == IF Balanced(s) THEN Sentence(s) ELSE Panic
=============================================================================
