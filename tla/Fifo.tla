-------------------------------- MODULE Fifo --------------------------------
(***************************************************************************)
(* What a pipe promises: the bytes written come out once, in order, and no *)
(* more than Capacity of them are in transit.                              *)
(***************************************************************************)
EXTENDS Integers, Sequences

CONSTANTS Byte, Capacity, Reader

VARIABLES q,    \* the bytes in transit
          got   \* what each reader's last read delivered

Init == q = <<>> /\ got = [r \in Reader |-> <<>>]

Put ==
  /\ \E k \in 1..Capacity - Len(q) : \E bs \in [1..k -> Byte] : q' = q \o bs
  /\ UNCHANGED got

Take(r) ==
  \E k \in 0..Len(q) :
    /\ got' = [got EXCEPT ![r] = SubSeq(q, 1, k)]
    /\ q' = SubSeq(q, k + 1, Len(q))

Next == Put \/ \E r \in Reader : Take(r)

Spec == Init /\ [][Next]_<<q, got>>
=============================================================================
