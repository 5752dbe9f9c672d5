--------------------------- MODULE MCUserIdentity ---------------------------
(* An instance of UserIdentity for TLC: all users hash to the same slot.   *)
EXTENDS UserIdentity, TLC

SamePrimary == [u \in Users |-> 0]
Symmetric == Permutations(Callers) \cup Permutations(Bots) \cup Permutations(Users)

(* What was told is read by no action and by no invariant.                 *)
WithoutTold ==
  <<store, draft, caches, queue, thread, loop, inflight, tasks, history, calls>>
=============================================================================
