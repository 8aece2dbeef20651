----------------------------- MODULE MCSessions -----------------------------
(***************************************************************************)
(* Small instances of Sessions.                                            *)
(***************************************************************************)
EXTENDS Sessions, TLC

CONSTANTS s1, s2, s3, s4, r1, r2, r3, phone, phoneRoaming, laptop

MCAddr == [o \in Origins |-> o]

\* A device keeps its network and user agent when its address changes.
MCDevice == [o \in Origins |-> IF o = phoneRoaming THEN phone ELSE o]

MCSessionIds == {s1, s2, s3, s4}
MCReqs == {r1, r2}

Symmetry == Permutations(SessionIds) \cup Permutations(Reqs)
=============================================================================
