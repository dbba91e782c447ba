---------------------------- MODULE MCPublication ----------------------------
EXTENDS Publication, TLC

Symmetry == Permutations(Sites) \cup Permutations(Nodes) \cup Permutations(Origins)
=============================================================================
