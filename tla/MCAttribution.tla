---------------------------- MODULE MCAttribution ----------------------------
EXTENDS Attribution, TLC

Symmetry == Permutations(Clients)
=============================================================================
