-------------------------------- MODULE MCVm --------------------------------
(***************************************************************************)
(* Vm for TLC.  Vm gives the entries deallocuvm finds as a set, which can  *)
(* be reasoned about; here is the loop that finds them, and both agree on  *)
(* address spaces of three tables, whichever of the tables are missing.    *)
(***************************************************************************)
EXTENDS Vm

Wide == INSTANCE Vm WITH NPTE <- 3, MaxSz <- 9

\* The loop of deallocuvm from a up to the size b: behind a missing page table
\* it goes on a whole table further.
deallocuvm(o, a, b) ==
  LET from[v \in 0..12] ==
        IF v >= b THEN {}
        ELSE IF o[Wide!Pt("cur", v)] = None THEN from[v + 3]
        ELSE {Wide!Pte("cur", v)} \cup from[v + 1]
  IN from[a]

ASSUME VisitedIsLoop ==
  \A missing \in SUBSET Wide!Table, a, b \in 0..9 :
    LET o == [x \in Wide!Place |-> IF x[2] = "pt" /\ x[3] \in missing THEN None ELSE 1]
    IN  Wide!Visited(o, "cur", a, b) = deallocuvm(o, a, b)
=============================================================================
