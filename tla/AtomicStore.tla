---------------------------- MODULE AtomicStore ----------------------------
(***************************************************************************)
(* What the log promises to the file system: block contents that change    *)
(* only by whole transactions.  `view' is what the running system reads,   *)
(* `store' is what it would read after a crash.  A transaction's writes    *)
(* reach the store together, when it commits, or not at all.               *)
(***************************************************************************)
CONSTANTS Process, Block, Val, Nobody

VARIABLES view, store, owner

Init ==
  /\ store \in [Block -> Val]
  /\ view = store
  /\ owner = Nobody

Begin(p) ==
  /\ owner = Nobody
  /\ owner' = p
  /\ UNCHANGED <<view, store>>

Write(p, b, v) ==
  /\ owner = p
  /\ view' = [view EXCEPT ![b] = v]
  /\ UNCHANGED <<store, owner>>

Commit(p) ==
  /\ owner = p
  /\ store' = view
  /\ owner' = Nobody
  /\ UNCHANGED view

Crash ==
  /\ view' = store
  /\ owner' = Nobody
  /\ UNCHANGED store

Next ==
  \/ \E p \in Process : Begin(p) \/ Commit(p)
  \/ \E p \in Process, b \in Block, v \in Val : Write(p, b, v)
  \/ Crash

Spec == Init /\ [][Next]_<<view, store, owner>>
=============================================================================
