---------------------------- MODULE MCHotStorage ----------------------------
(* Instances of HotStorage for TLC: a direct message, an answer to it, and  *)
(* a message of another room that quotes both and is older than the answer. *)
EXTENDS HotStorage, TLC

CONSTANTS m1, m2, m3, r1, r2, t1, t2, ann

MCMsgs     == {m1, m2, m3}
MCQuotes   == m1 :> <<>> @@ m2 :> <<m1>> @@ m3 :> <<m1, m2>>
MCDirect   == {m1}
MCRoomOf   == m1 :> r1 @@ m2 :> r1 @@ m3 :> r2
MCTimeOf   == m1 :> 1 @@ m2 :> 2 @@ m3 :> 1
MCSenderOf == [m \in MCMsgs |-> ann]

TaskSymmetry == Permutations({t1, t2})

(* All but settled: no step reads it, and the checked invariants do not.    *)
WithoutSettled ==
  <<mem, task, accepted, files, setting, up, origin, coherent, counts>>
=============================================================================
