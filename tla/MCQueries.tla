----------------------------- MODULE MCQueries -----------------------------
EXTENDS Queries, TLC

Symmetry == Permutations(Clients) \cup Permutations(Items) \cup Permutations(Subs)
=============================================================================
