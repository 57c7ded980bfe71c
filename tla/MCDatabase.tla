----------------------------- MODULE MCDatabase -----------------------------
EXTENDS Database, TLC

Symmetry == Permutations(Clients)
=============================================================================
