----------------------------- MODULE MCAuthCode -----------------------------
(***************************************************************************)
(* Small instances of AuthCode: codes of one client.                       *)
(***************************************************************************)
EXTENDS AuthCode, TLC

CONSTANTS c1, c2, s1, s2, s3, r1, r2, r3, app

MCClientOf == [c \in Codes |-> app]

Symmetry == Permutations(Codes) \cup Permutations(SessionIds) \cup Permutations(Reqs)
=============================================================================
