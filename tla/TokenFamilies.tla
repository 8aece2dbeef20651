--------------------------- MODULE TokenFamilies ---------------------------
(***************************************************************************)
(* What refresh-token rotation promises, without tables, locks or clocks.  *)
(* A sign-in opens a family and hands out one credential.  A credential    *)
(* can be exchanged once, for one never issued before; a family can be     *)
(* ended, alone or with others, and then stays ended.                      *)
(***************************************************************************)
CONSTANTS Ids,  \* credentials; a family is named after its first one
          None

VARIABLES issued,  \* credentials ever handed out
          holder   \* the credential of each family that can still be exchanged

vars == <<issued, holder>>

Init ==
    /\ issued = {}
    /\ holder = [f \in Ids |-> None]

Open(n) ==
    /\ n \notin issued
    /\ issued' = issued \cup {n}
    /\ holder' = [holder EXCEPT ![n] = n]

Exchange(f, n) ==
    /\ holder[f] # None
    /\ n \notin issued
    /\ issued' = issued \cup {n}
    /\ holder' = [holder EXCEPT ![f] = n]

End(ended) ==
    /\ \A f \in ended : holder[f] # None
    /\ holder' = [f \in Ids |-> IF f \in ended THEN None ELSE holder[f]]
    /\ UNCHANGED issued

Next ==
    \/ \E n \in Ids : Open(n)
    \/ \E f, n \in Ids : Exchange(f, n)
    \/ \E ended \in SUBSET Ids : End(ended)

Spec == Init /\ [][Next]_vars
=============================================================================
