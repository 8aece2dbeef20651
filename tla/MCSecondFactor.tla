--------------------------- MODULE MCSecondFactor ---------------------------
EXTENDS SecondFactor, TLC

Symmetry == Permutations(Reqs) \cup Permutations(Challenges) \cup Permutations(Links)
=============================================================================
