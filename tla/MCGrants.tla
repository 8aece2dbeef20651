------------------------------ MODULE MCGrants ------------------------------
EXTENDS Grants, TLC
Symmetry == Permutations(Users) \cup Permutations(Flows \ Earlier) \cup Permutations(Reqs)
=============================================================================
