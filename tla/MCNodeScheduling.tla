-------------------------- MODULE MCNodeScheduling --------------------------
EXTENDS NodeScheduling, TLC

Symmetry == Permutations(Sites) \cup Permutations(Nodes)
=============================================================================
