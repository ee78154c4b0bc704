------------------------------ MODULE MCInode ------------------------------
(* Inode with the calls of a small test: a is a file or a directory with an *)
(* entry b, b a second name.                                                *)
EXTENDS Inode, TLC

A == <<"a">>
B == <<"b">>
AB == <<"a", "b">>
On(c, paths) == [call : {c}, path : paths, new : {<<>>}]

MCCalls ==
  On("open", {A, AB}) \cup On("create", {A, AB}) \cup On("mkdir", {A, AB})
    \cup On("unlink", {A, B, AB}) \cup [call : {"link"}, path : {A, AB}, new : {B}]

Symmetry == Permutations(Process)
=============================================================================
