------------------------------ MODULE MCShell ------------------------------
(***************************************************************************)
(* Lines that nest pipelines, lists, blocks, background commands and       *)
(* redirections, and lines that fail to parse or to find their program.    *)
(***************************************************************************)
EXTENDS Shell

MCWord == {"echo", "cat", "x"}

MCOverlap == {<<"cat">>}

MCLines == MCOverlap \cup
  {<<"echo", "|", "cat", "|", "cat">>,
   <<"echo", "|", "cat", "|", "x", "|", "x">>,
   <<"echo", "|", "x">>,
   <<"echo", "|", "(", "echo", ";", "cat", ")">>,
   <<"(", "cat", "&", ")", "|", "cat">>,
   <<"(", "echo", "|", "cat", ")", ">", "x", "|", "cat">>,
   <<"cat", "<", "x", "|", "echo", ">>", "x", "&">>,
   <<"(", "cat", "&", ";", "echo", ")", "&">>,
   <<"echo", "echo", "echo">>, <<"|", "|", "|">>, <<"&", "cat">>}
=============================================================================
