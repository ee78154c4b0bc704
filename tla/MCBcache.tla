------------------------------ MODULE MCBcache ------------------------------
(* Bcache with interchangeable processes, sectors and values, for safety. *)
EXTENDS Bcache, TLC

Symmetry == Permutations(Process) \cup Permutations(Sector) \cup Permutations(Val)
=============================================================================
