---------------------------- MODULE MCPluginHost ----------------------------
(* Small instances of PluginHost for TLC. *)
EXTENDS PluginHost, TLC

Symmetry == Permutations(Admins) \cup Permutations(Workers) \cup Permutations(Contexts)
=============================================================================
