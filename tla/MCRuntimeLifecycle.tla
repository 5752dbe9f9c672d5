------------------------- MODULE MCRuntimeLifecycle -------------------------
(* Instances of RuntimeLifecycle for TLC: its constants are numbers, which  *)
(* the configurations give.                                                 *)
EXTENDS RuntimeLifecycle
=============================================================================
