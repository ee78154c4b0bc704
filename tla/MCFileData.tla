----------------------------- MODULE MCFileData -----------------------------
(* FileData for TLC: what the processes write.  A call of five bytes is three *)
(* transactions and is never aligned for long.                               *)
EXTENDS FileData, TLC

MCFiles == <<<<6, 7, 8>>>>
MCSources == {<<1, 2, 3, 4, 5>>}
Symmetry == Permutations(Process)
=============================================================================
