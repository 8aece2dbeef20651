---------------------------- MODULE MCTokenState ----------------------------
(***************************************************************************)
(* Small instances of TokenState.                                          *)
(***************************************************************************)
EXTENDS TokenState, TLC

CONSTANTS c1, c2, h1, h2

Symmetry == Permutations(Checks) \cup Permutations(Handlers)
=============================================================================
