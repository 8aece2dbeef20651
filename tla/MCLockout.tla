----------------------------- MODULE MCLockout ------------------------------
EXTENDS Lockout, TLC

Symmetry == Permutations(Logins)
=============================================================================
