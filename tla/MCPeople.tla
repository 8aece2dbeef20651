------------------------------ MODULE MCPeople ------------------------------
(***************************************************************************)
(* Accounts as their owners change them, and as administrators do,         *)
(* explored one at a time: Accounts is about links, passwords and          *)
(* addresses, Administration about roles, factors and status.              *)
(***************************************************************************)
EXTENDS Accounts, Administration, TLC

VARIABLE part

vars == <<part, accountVars, administrationVars>>

Init ==
    /\ part \in {"owners", "administrators"} /\ AccountsInit /\ AdministrationInit
    /\ part # "administrators" => db.holds = Members \X {DefaultRole, AdminRole}

Next ==
    /\ UNCHANGED part
    /\ \/ part = "owners" /\ AccountsNext /\ UNCHANGED administrationVars
       \/ part = "administrators" /\ AdministrationNext /\ UNCHANGED accountVars

Spec == Init /\ [][Next]_vars

Symmetry == Permutations(Passwords) \cup Permutations(Sessions) \cup Permutations(Flows)
                \cup Permutations(Reqs) \cup Permutations(Members) \cup Permutations(Txs)
=============================================================================
