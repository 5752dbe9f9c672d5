--------------------------- MODULE MCMediaService ---------------------------
(* Instance of MediaService for TLC: tasks are interchangeable. *)
EXTENDS MediaService, TLC
MCSymmetry == Permutations(Tasks)
=============================================================================
