---------------------------- MODULE MCControlPlane ----------------------------
\* Bots and requests are interchangeable.
EXTENDS ControlPlane, TLC
Symmetry == Permutations(BotIds) \cup Permutations(Reqs)
=============================================================================
