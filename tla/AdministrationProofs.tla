------------------------ MODULE AdministrationProofs ------------------------
(***************************************************************************)
(* Whatever transactions run at once, and however many: an active account  *)
(* that can manage roles remains, whoever administers has a second factor, *)
(* and a suspension signs out.                                             *)
(*                                                                         *)
(* A transaction looks first and commits later.  Protected says what it    *)
(* saw is still so, Leaves what the commits of others cannot change while  *)
(* it holds its locks: the locks are exclusive, so what one transaction    *)
(* commits leaves what another has locked.                                 *)
(*                                                                         *)
(* And of the accounts as their owners change them: an active account has  *)
(* a password and an address proven its owner's, and its address changes   *)
(* only past both mailboxes.  No lock is held there between what a request *)
(* reads and what it writes.                                               *)
(***************************************************************************)
EXTENDS Accounts, Administration, TLAPS

GUARD == "roles_manage_guard"

Lockable == Members \cup Roles \cup {NoTx, GUARD}

UserOps == {"assign", "unassign", "cli", "suspend", "reactivate", "revoke", "force", "strip",
            "erase", "disable", "enrol", "reset", "signin"}
RoleOps == {"create", "permissions", "delete_role", "assign", "unassign", "cli"}
Steps == {"idle", "user", "role", "holders", "guard", "commit", "plain", "factors"}

Tx == [op: UserOps \cup RoleOps \cup {"idle"}, pc: Steps,
       actor: Members \cup {NoTx}, user: Members \cup {NoTx}, role: Roles \cup {NoTx},
       names: SUBSET (Permissions \cup Factors \cup {"active", "suspended", "gone"}),
       locks: SUBSET Lockable]

\* What a request is about.
OpOK(x) ==
    /\ x.op \in UserOps => x.user \in Members
    /\ x.op \in RoleOps => x.role \in Roles
    /\ x.op \in {"create", "permissions"} => x.names \subseteq Permissions
    /\ x.op \in {"enrol", "disable", "reset"} => x.names \subseteq Factors

\* A role that is not there grants nothing and nobody holds it.
RoleRows(d) ==
    \A r \in Roles \ d.roles : d.grants[r] = {} /\ \A u \in Members : <<u, r>> \notin d.holds

LocksExclusive == \A s, t \in Txs : s # t => tx[s].locks \cap tx[t].locks = {}

\* What a guarded transaction has looked at: the state it would leave.
Outcome(x, d) ==
    CASE x.op = "permissions" -> PermissionsSet(d, x.role, x.names)
      [] x.op = "delete_role" -> RoleDeleted(d, x.role)
      [] x.op = "unassign"    -> Unassigned(d, x.user, x.role)
      [] x.op = "suspend"     -> Suspended(d, x.user)
      [] x.op = "erase"       -> WithoutUser(d, x.user)

\* An administrator remains, as looked up under the guard's lock.
Guarded(x, d) == GUARD \in x.locks /\ PermissionHeld(Outcome(x, d), ROLES_MANAGE)

\* What the transactions on a role have seen.
RoleProtected(x, d) ==
    /\ x.op = "permissions" /\ x.pc \in {"holders", "guard", "commit"} => x.role \in x.locks
    /\ x.op = "permissions" /\ x.pc \in {"guard", "commit"} =>
         /\ x.role \in d.roles
         /\ (x.names \ d.grants[x.role]) \cap ADMIN_PERMISSIONS # {} =>
              \A u \in HoldersOf(d, x.role) : u \in x.locks /\ HasSecondFactor(d, u)
    /\ x.op \in {"delete_role", "unassign"} /\ x.pc \in {"guard", "commit"} => x.role \in x.locks
    /\ x.op \in {"permissions", "delete_role", "unassign"} /\ x.pc = "commit" => Guarded(x, d)
    /\ x.op = "assign" /\ x.pc \in {"role", "commit"} => x.user \in x.locks
    /\ x.op = "assign" /\ x.pc = "commit" =>
         /\ x.role \in x.locks /\ x.role \in d.roles
         /\ GrantsAdministration(d, x.role) => HasSecondFactor(d, x.user)
    /\ x.op = "cli" /\ x.pc \in {"commit", "plain"} => x.user \in x.locks
    /\ x.op = "cli" /\ x.pc = "commit" => HasSecondFactor(d, x.user)

\* What the transactions on an account have seen.
UserProtected(x, d) ==
    /\ x.op \in {"suspend", "erase"} /\ x.pc \in {"guard", "commit"} => x.user \in x.locks
    /\ x.op \in {"suspend", "erase"} /\ x.pc = "commit" =>
         Guarded(x, d) \/ ROLES_MANAGE \notin Held(d, x.user)
    /\ x.op \in {"strip", "disable", "reset"} /\ x.pc = "commit" => x.user \in x.locks
    /\ x.op = "force" /\ x.pc = "factors" => x.user \in x.locks
    /\ x.op = "strip" /\ x.pc = "commit" => ~HoldsAdministration(d, x.user)
    /\ x.op = "force" /\ x.pc = "factors" => ~HoldsAdministration(d, x.user)
    /\ x.op = "disable" /\ x.pc = "commit" /\ HoldsAdministration(d, x.user) =>
         \A f \in x.names : d.factors[x.user] \ {f} # {}

Protected(x, d) == RoleProtected(x, d) /\ UserProtected(x, d)

Typed == db \in Db /\ tx \in [Txs -> Tx] /\ \A t \in Txs : OpOK(tx[t])

IInv ==
    /\ Typed
    /\ RoleRows(db)
    /\ LocksExclusive
    /\ \A t \in Txs : Protected(tx[t], db)
    /\ AnAdministratorRemains
    /\ AdministratorsHaveASecondFactor
    /\ SuspensionSignsOut

\* The commit of another transaction, from d to e, leaves what L locks.
Leaves(L, d, e) ==
    /\ \A u \in Members \cap L :
         /\ Held(e, u) \cap ADMIN_PERMISSIONS \subseteq Held(d, u)
         /\ d.factors[u] \subseteq e.factors[u]
    /\ \A r \in Roles \cap L \cap d.roles :
         r \in e.roles /\ e.grants[r] = d.grants[r] /\ HoldersOf(e, r) \subseteq HoldersOf(d, r)
    /\ GUARD \in L =>
         /\ \A r \in Roles : d.grants[r] \subseteq e.grants[r]
         /\ \A u \in Members : d.status[u] = "active" /\ ROLES_MANAGE \in Held(d, u) =>
              /\ e.status[u] = "active"
              /\ \A r \in Roles : <<u, r>> \in d.holds => <<u, r>> \in e.holds
-----------------------------------------------------------------------------
(***************************************************************************)
(* What the queries answer and what the statements write.                  *)
(***************************************************************************)
LEMMA HeldIff ==
    ASSUME NEW d \in Db, NEW u \in Members, NEW p
    PROVE  p \in Held(d, u) <=> \E r \in Roles : <<u, r>> \in d.holds /\ p \in d.grants[r]
BY DEF Held

LEMMA AdministrationIff ==
    ASSUME NEW d \in Db, NEW u \in Members
    PROVE  HoldsAdministration(d, u) <=>
               \E p \in ADMIN_PERMISSIONS : p \in Held(d, u)
BY DEF HoldsAdministration

LEMMA PermissionsSetFields ==
    ASSUME NEW d \in Db, NEW r \in Roles, NEW names \in SUBSET Permissions,
           NEW e, e = PermissionsSet(d, r, names)
    PROVE  /\ e \in Db /\ e.status = d.status /\ e.roles = d.roles /\ e.holds = d.holds
           /\ e.factors = d.factors /\ e.live = d.live
           /\ \A q \in Roles : e.grants[q] = IF q = r THEN names ELSE d.grants[q]
BY DEF PermissionsSet, Db

LEMMA RoleCreatedFields ==
    ASSUME NEW d \in Db, NEW r \in Roles, NEW e, e = RoleCreated(d, r)
    PROVE  /\ e \in Db /\ e.status = d.status /\ e.roles = d.roles \cup {r} /\ e.holds = d.holds
           /\ e.factors = d.factors /\ e.live = d.live /\ e.grants = d.grants
BY DEF RoleCreated, Db

LEMMA RoleDeletedFields ==
    ASSUME NEW d \in Db, NEW r \in Roles, NEW e, e = RoleDeleted(d, r)
    PROVE  /\ e \in Db /\ e.status = d.status /\ e.roles = d.roles \ {r}
           /\ e.factors = d.factors /\ e.live = d.live
           /\ \A q \in Roles : e.grants[q] = IF q = r THEN {} ELSE d.grants[q]
           /\ \A u \in Members, q \in Roles : <<u, q>> \in e.holds <=> <<u, q>> \in d.holds /\ q # r
BY DEF RoleDeleted, Db

LEMMA AssignedFields ==
    ASSUME NEW d \in Db, NEW u \in Members, NEW r \in Roles, NEW e, e = AssignedToUser(d, u, r)
    PROVE  /\ e \in Db /\ e.status = d.status /\ e.roles = d.roles /\ e.grants = d.grants
           /\ e.factors = d.factors /\ e.live = d.live
           /\ \A v \in Members, q \in Roles :
                <<v, q>> \in e.holds <=> <<v, q>> \in d.holds \/ (v = u /\ q = r)
BY DEF AssignedToUser, Db

LEMMA UnassignedFields ==
    ASSUME NEW d \in Db, NEW u \in Members, NEW r \in Roles, NEW e, e = Unassigned(d, u, r)
    PROVE  /\ e \in Db /\ e.status = d.status /\ e.roles = d.roles /\ e.grants = d.grants
           /\ e.factors = d.factors /\ e.live = d.live
           /\ \A v \in Members, q \in Roles :
                <<v, q>> \in e.holds <=> <<v, q>> \in d.holds /\ ~(v = u /\ q = r)
BY DEF Unassigned, Db

LEMMA SuspendedFields ==
    ASSUME NEW d \in Db, NEW u \in Members, NEW e, e = Suspended(d, u)
    PROVE  /\ e \in Db /\ e.roles = d.roles /\ e.grants = d.grants /\ e.holds = d.holds
           /\ e.factors = d.factors /\ e.live = d.live
           /\ \A v \in Members : e.status[v] = IF v = u THEN "suspended" ELSE d.status[v]
BY DEF Suspended, Db

LEMMA ReactivatedFields ==
    ASSUME NEW d \in Db, NEW u \in Members, NEW e, e = Reactivated(d, u)
    PROVE  /\ e \in Db /\ e.roles = d.roles /\ e.grants = d.grants /\ e.holds = d.holds
           /\ e.factors = d.factors /\ e.live = d.live
           /\ \A v \in Members : e.status[v] = IF v = u THEN "active" ELSE d.status[v]
BY DEF Reactivated, Db

LEMMA RevokedFields ==
    ASSUME NEW d \in Db, NEW u \in Members, NEW e, e = SessionsRevoked(d, u)
    PROVE  /\ e \in Db /\ e.status = d.status /\ e.roles = d.roles /\ e.grants = d.grants
           /\ e.holds = d.holds /\ e.factors = d.factors /\ e.live = d.live \ {u}
BY DEF SessionsRevoked, Db

\* Any statement that writes the factors of one account.
LEMMA FactorFields ==
    ASSUME NEW d \in Db, NEW u \in Members, NEW kept \in SUBSET Factors,
           NEW e, e = [d EXCEPT !.factors[u] = kept]
    PROVE  /\ e \in Db /\ e.status = d.status /\ e.roles = d.roles /\ e.grants = d.grants
           /\ e.holds = d.holds /\ e.live = d.live
           /\ \A v \in Members : e.factors[v] = IF v = u THEN kept ELSE d.factors[v]
BY DEF Db

LEMMA WithoutUserFields ==
    ASSUME NEW d \in Db, NEW u \in Members, NEW e, e = WithoutUser(d, u)
    PROVE  /\ e \in Db /\ e.roles = d.roles /\ e.grants = d.grants /\ e.live = d.live \ {u}
           /\ \A v \in Members : e.status[v] = IF v = u THEN "gone" ELSE d.status[v]
           /\ \A v \in Members : e.factors[v] = IF v = u THEN {} ELSE d.factors[v]
           /\ \A v \in Members, q \in Roles : <<v, q>> \in e.holds <=> <<v, q>> \in d.holds /\ v # u
BY DEF WithoutUser, Db

LEMMA HeldByActive ==
    ASSUME NEW d \in Db, NEW p
    PROVE  PermissionHeld(d, p) <=>
               \E u \in Members, r \in Roles :
                   d.status[u] = "active" /\ <<u, r>> \in d.holds /\ p \in d.grants[r]
BY HeldIff DEF PermissionHeld

LEMMA OutcomeCases ==
    ASSUME NEW x \in Tx, NEW d
    PROVE  /\ x.op = "permissions" => Outcome(x, d) = PermissionsSet(d, x.role, x.names)
           /\ x.op = "delete_role" => Outcome(x, d) = RoleDeleted(d, x.role)
           /\ x.op = "unassign"    => Outcome(x, d) = Unassigned(d, x.user, x.role)
           /\ x.op = "suspend"     => Outcome(x, d) = Suspended(d, x.user)
           /\ x.op = "erase"       => Outcome(x, d) = WithoutUser(d, x.user)
BY DEF Outcome
-----------------------------------------------------------------------------
(***************************************************************************)
(* What was seen under a lock stays so when another transaction commits.   *)
(***************************************************************************)
GuardedOps == {"permissions", "delete_role", "unassign", "suspend", "erase"}

LEMMA GuardedStays ==
    ASSUME NEW d \in Db, NEW e \in Db, NEW x \in Tx, OpOK(x), x.op \in GuardedOps,
           Guarded(x, d), Leaves(x.locks, d, e), PermissionHeld(d, ROLES_MANAGE)
    PROVE  Guarded(x, e)
<1>1. SUFFICES PermissionHeld(Outcome(x, e), ROLES_MANAGE)
  BY DEF Guarded
<1>2. /\ GUARD \in x.locks /\ PermissionHeld(Outcome(x, d), ROLES_MANAGE)
  BY DEF Guarded
<1>3. ASSUME NEW u \in Members, NEW r \in Roles,
             d.status[u] = "active", <<u, r>> \in d.holds, ROLES_MANAGE \in d.grants[r]
      PROVE  e.status[u] = "active" /\ <<u, r>> \in e.holds /\ ROLES_MANAGE \in e.grants[r]
  <2>1. ROLES_MANAGE \in Held(d, u)
    BY <1>3, HeldIff
  <2> QED  BY <1>2, <1>3, <2>1 DEF Leaves
<1>4. CASE x.op = "permissions"
  <2> DEFINE dd == PermissionsSet(d, x.role, x.names)
             ee == PermissionsSet(e, x.role, x.names)
  <2>1. x.role \in Roles /\ x.names \in SUBSET Permissions
    BY <1>4 DEF OpOK, RoleOps
  <2>2. /\ dd \in Db /\ dd.status = d.status /\ dd.holds = d.holds
        /\ \A q \in Roles : dd.grants[q] = IF q = x.role THEN x.names ELSE d.grants[q]
    BY <2>1, PermissionsSetFields
  <2>3. /\ ee \in Db /\ ee.status = e.status /\ ee.holds = e.holds
        /\ \A q \in Roles : ee.grants[q] = IF q = x.role THEN x.names ELSE e.grants[q]
    BY <2>1, PermissionsSetFields
  <2>4. PermissionHeld(dd, ROLES_MANAGE)
    BY <1>2, <1>4, OutcomeCases
  <2> HIDE DEF dd, ee
  <2>5. PICK u \in Members, r \in Roles :
               dd.status[u] = "active" /\ <<u, r>> \in dd.holds /\ ROLES_MANAGE \in dd.grants[r]
    BY <2>2, <2>4, HeldByActive
  <2>6. PICK v \in Members, q \in Roles :
               d.status[v] = "active" /\ <<v, q>> \in d.holds /\ ROLES_MANAGE \in d.grants[q]
    BY HeldByActive
  <2>7. CASE ROLES_MANAGE \in x.names
    <3>1. e.status[v] = "active" /\ <<v, q>> \in e.holds /\ ROLES_MANAGE \in e.grants[q]
      BY <1>3, <2>6
    <3>2. ee.status[v] = "active" /\ <<v, q>> \in ee.holds /\ ROLES_MANAGE \in ee.grants[q]
      BY <3>1, <2>3, <2>7
    <3>3. PermissionHeld(ee, ROLES_MANAGE)
      BY <3>2, <2>3, HeldByActive
    <3> QED  BY <3>3, <1>4, OutcomeCases DEF ee
  <2>8. CASE ROLES_MANAGE \notin x.names
    <3>1. r # x.role /\ ROLES_MANAGE \in d.grants[r]
      BY <2>2, <2>5, <2>8
    <3>2. e.status[u] = "active" /\ <<u, r>> \in e.holds /\ ROLES_MANAGE \in e.grants[r]
      BY <1>3, <2>2, <2>5, <3>1
    <3>3. ee.status[u] = "active" /\ <<u, r>> \in ee.holds /\ ROLES_MANAGE \in ee.grants[r]
      BY <3>1, <3>2, <2>3
    <3>4. PermissionHeld(ee, ROLES_MANAGE)
      BY <3>3, <2>3, HeldByActive
    <3> QED  BY <3>4, <1>4, OutcomeCases DEF ee
  <2> QED  BY <2>7, <2>8
<1>5. CASE x.op = "delete_role"
  <2> DEFINE dd == RoleDeleted(d, x.role)
             ee == RoleDeleted(e, x.role)
  <2>1. x.role \in Roles
    BY <1>5 DEF OpOK, RoleOps
  <2>2. /\ dd \in Db /\ dd.status = d.status
        /\ \A q \in Roles : dd.grants[q] = IF q = x.role THEN {} ELSE d.grants[q]
        /\ \A u \in Members, q \in Roles : <<u, q>> \in dd.holds <=> <<u, q>> \in d.holds /\ q # x.role
    BY <2>1, RoleDeletedFields
  <2>3. /\ ee \in Db /\ ee.status = e.status
        /\ \A q \in Roles : ee.grants[q] = IF q = x.role THEN {} ELSE e.grants[q]
        /\ \A u \in Members, q \in Roles : <<u, q>> \in ee.holds <=> <<u, q>> \in e.holds /\ q # x.role
    BY <2>1, RoleDeletedFields
  <2>4. PermissionHeld(dd, ROLES_MANAGE)
    BY <1>2, <1>5, OutcomeCases
  <2> HIDE DEF dd, ee
  <2>5. PICK u \in Members, r \in Roles :
               dd.status[u] = "active" /\ <<u, r>> \in dd.holds /\ ROLES_MANAGE \in dd.grants[r]
    BY <2>2, <2>4, HeldByActive
  <2>6. r # x.role /\ e.status[u] = "active" /\ <<u, r>> \in e.holds /\ ROLES_MANAGE \in e.grants[r]
    BY <1>3, <2>2, <2>5
  <2>7. ee.status[u] = "active" /\ <<u, r>> \in ee.holds /\ ROLES_MANAGE \in ee.grants[r]
    BY <2>3, <2>6
  <2>8. PermissionHeld(ee, ROLES_MANAGE)
    BY <2>3, <2>7, HeldByActive
  <2> QED  BY <2>8, <1>5, OutcomeCases DEF ee
<1>6. CASE x.op = "unassign"
  <2> DEFINE dd == Unassigned(d, x.user, x.role)
             ee == Unassigned(e, x.user, x.role)
  <2>1. x.role \in Roles /\ x.user \in Members
    BY <1>6 DEF OpOK, RoleOps, UserOps
  <2>2. /\ dd \in Db /\ dd.status = d.status /\ dd.grants = d.grants
        /\ \A u \in Members, q \in Roles :
             <<u, q>> \in dd.holds <=> <<u, q>> \in d.holds /\ ~(u = x.user /\ q = x.role)
    BY <2>1, UnassignedFields
  <2>3. /\ ee \in Db /\ ee.status = e.status /\ ee.grants = e.grants
        /\ \A u \in Members, q \in Roles :
             <<u, q>> \in ee.holds <=> <<u, q>> \in e.holds /\ ~(u = x.user /\ q = x.role)
    BY <2>1, UnassignedFields
  <2>4. PermissionHeld(dd, ROLES_MANAGE)
    BY <1>2, <1>6, OutcomeCases
  <2> HIDE DEF dd, ee
  <2>5. PICK u \in Members, r \in Roles :
               dd.status[u] = "active" /\ <<u, r>> \in dd.holds /\ ROLES_MANAGE \in dd.grants[r]
    BY <2>2, <2>4, HeldByActive
  <2>6. e.status[u] = "active" /\ <<u, r>> \in e.holds /\ ROLES_MANAGE \in e.grants[r]
    BY <1>3, <2>2, <2>5
  <2>7. ee.status[u] = "active" /\ <<u, r>> \in ee.holds /\ ROLES_MANAGE \in ee.grants[r]
    BY <2>2, <2>3, <2>5, <2>6
  <2>8. PermissionHeld(ee, ROLES_MANAGE)
    BY <2>3, <2>7, HeldByActive
  <2> QED  BY <2>8, <1>6, OutcomeCases DEF ee
<1>7. CASE x.op = "suspend"
  <2> DEFINE dd == Suspended(d, x.user)
             ee == Suspended(e, x.user)
  <2>1. x.user \in Members
    BY <1>7 DEF OpOK, UserOps
  <2>2. /\ dd \in Db /\ dd.holds = d.holds /\ dd.grants = d.grants
        /\ \A u \in Members : dd.status[u] = IF u = x.user THEN "suspended" ELSE d.status[u]
    BY <2>1, SuspendedFields
  <2>3. /\ ee \in Db /\ ee.holds = e.holds /\ ee.grants = e.grants
        /\ \A u \in Members : ee.status[u] = IF u = x.user THEN "suspended" ELSE e.status[u]
    BY <2>1, SuspendedFields
  <2>4. PermissionHeld(dd, ROLES_MANAGE)
    BY <1>2, <1>7, OutcomeCases
  <2> HIDE DEF dd, ee
  <2>5. PICK u \in Members, r \in Roles :
               dd.status[u] = "active" /\ <<u, r>> \in dd.holds /\ ROLES_MANAGE \in dd.grants[r]
    BY <2>2, <2>4, HeldByActive
  <2>6. u # x.user /\ e.status[u] = "active" /\ <<u, r>> \in e.holds /\ ROLES_MANAGE \in e.grants[r]
    BY <1>3, <2>2, <2>5
  <2>7. ee.status[u] = "active" /\ <<u, r>> \in ee.holds /\ ROLES_MANAGE \in ee.grants[r]
    BY <2>3, <2>6
  <2>8. PermissionHeld(ee, ROLES_MANAGE)
    BY <2>3, <2>7, HeldByActive
  <2> QED  BY <2>8, <1>7, OutcomeCases DEF ee
<1>8. CASE x.op = "erase"
  <2> DEFINE dd == WithoutUser(d, x.user)
             ee == WithoutUser(e, x.user)
  <2>1. x.user \in Members
    BY <1>8 DEF OpOK, UserOps
  <2>2. /\ dd \in Db /\ dd.grants = d.grants
        /\ \A u \in Members : dd.status[u] = IF u = x.user THEN "gone" ELSE d.status[u]
        /\ \A u \in Members, q \in Roles : <<u, q>> \in dd.holds <=> <<u, q>> \in d.holds /\ u # x.user
    BY <2>1, WithoutUserFields
  <2>3. /\ ee \in Db /\ ee.grants = e.grants
        /\ \A u \in Members : ee.status[u] = IF u = x.user THEN "gone" ELSE e.status[u]
        /\ \A u \in Members, q \in Roles : <<u, q>> \in ee.holds <=> <<u, q>> \in e.holds /\ u # x.user
    BY <2>1, WithoutUserFields
  <2>4. PermissionHeld(dd, ROLES_MANAGE)
    BY <1>2, <1>8, OutcomeCases
  <2> HIDE DEF dd, ee
  <2>5. PICK u \in Members, r \in Roles :
               dd.status[u] = "active" /\ <<u, r>> \in dd.holds /\ ROLES_MANAGE \in dd.grants[r]
    BY <2>2, <2>4, HeldByActive
  <2>6. u # x.user /\ e.status[u] = "active" /\ <<u, r>> \in e.holds /\ ROLES_MANAGE \in e.grants[r]
    BY <1>3, <2>2, <2>5
  <2>7. ee.status[u] = "active" /\ <<u, r>> \in ee.holds /\ ROLES_MANAGE \in ee.grants[r]
    BY <2>3, <2>6
  <2>8. PermissionHeld(ee, ROLES_MANAGE)
    BY <2>3, <2>7, HeldByActive
  <2> QED  BY <2>8, <1>8, OutcomeCases DEF ee
<1> QED  BY <1>4, <1>5, <1>6, <1>7, <1>8 DEF GuardedOps

LEMMA RoleProtectedStays ==
    ASSUME NEW d \in Db, NEW e \in Db, NEW x \in Tx, OpOK(x), RoleProtected(x, d),
           Leaves(x.locks, d, e), PermissionHeld(d, ROLES_MANAGE)
    PROVE  RoleProtected(x, e)
<1>1. ASSUME x.op = "permissions", x.pc \in {"guard", "commit"}
      PROVE  /\ x.role \in e.roles
             /\ (x.names \ e.grants[x.role]) \cap ADMIN_PERMISSIONS # {} =>
                  \A u \in HoldersOf(e, x.role) : u \in x.locks /\ HasSecondFactor(e, u)
  <2>1. x.role \in Roles /\ x.role \in x.locks /\ x.role \in d.roles
    BY <1>1 DEF RoleProtected, OpOK, RoleOps
  <2>2. /\ x.role \in e.roles /\ e.grants[x.role] = d.grants[x.role]
        /\ HoldersOf(e, x.role) \subseteq HoldersOf(d, x.role)
    BY <2>1 DEF Leaves
  <2>3. ASSUME (x.names \ d.grants[x.role]) \cap ADMIN_PERMISSIONS # {}, NEW u \in HoldersOf(e, x.role)
        PROVE  u \in x.locks /\ HasSecondFactor(e, u)
    <3>1. u \in x.locks /\ HasSecondFactor(d, u)
      BY <1>1, <2>2, <2>3 DEF RoleProtected
    <3>2. u \in Members
      BY <2>3 DEF HoldersOf
    <3> QED  BY <3>1, <3>2 DEF Leaves, HasSecondFactor
  <2> QED  BY <2>2, <2>3
<1>2. ASSUME x.op \in {"permissions", "delete_role", "unassign"}, x.pc = "commit"
      PROVE  Guarded(x, e)
  BY <1>2, GuardedStays DEF RoleProtected, GuardedOps
<1>3. ASSUME x.op = "assign", x.pc = "commit"
      PROVE  x.role \in e.roles /\ (GrantsAdministration(e, x.role) => HasSecondFactor(e, x.user))
  <2>1. x.role \in Roles /\ x.user \in Members
    BY <1>3 DEF OpOK, RoleOps, UserOps
  <2>2. x.role \in e.roles /\ e.grants[x.role] = d.grants[x.role]
    BY <1>3, <2>1 DEF Leaves, RoleProtected
  <2>3. d.factors[x.user] \subseteq e.factors[x.user]
    BY <1>3, <2>1 DEF Leaves, RoleProtected
  <2> QED  BY <1>3, <2>2, <2>3 DEF RoleProtected, GrantsAdministration, HasSecondFactor
<1>4. ASSUME x.op = "cli", x.pc = "commit"
      PROVE  HasSecondFactor(e, x.user)
  <2>1. x.user \in Members
    BY <1>4 DEF OpOK, UserOps
  <2>2. d.factors[x.user] \subseteq e.factors[x.user]
    BY <1>4, <2>1 DEF Leaves, RoleProtected
  <2> QED  BY <1>4, <2>2 DEF RoleProtected, HasSecondFactor
<1> QED  BY <1>1, <1>2, <1>3, <1>4 DEF RoleProtected

LEMMA UserProtectedStays ==
    ASSUME NEW d \in Db, NEW e \in Db, NEW x \in Tx, OpOK(x), UserProtected(x, d),
           Leaves(x.locks, d, e), PermissionHeld(d, ROLES_MANAGE)
    PROVE  UserProtected(x, e)
<1>1. ASSUME x.user \in Members \cap x.locks
      PROVE  /\ HoldsAdministration(e, x.user) => HoldsAdministration(d, x.user)
             /\ ROLES_MANAGE \in Held(e, x.user) => ROLES_MANAGE \in Held(d, x.user)
             /\ d.factors[x.user] \subseteq e.factors[x.user]
  <2>1. /\ Held(e, x.user) \cap ADMIN_PERMISSIONS \subseteq Held(d, x.user)
        /\ d.factors[x.user] \subseteq e.factors[x.user]
    BY <1>1 DEF Leaves
  <2>2. ROLES_MANAGE \in ADMIN_PERMISSIONS
    BY DEF ADMIN_PERMISSIONS
  <2> QED  BY <2>1, <2>2, Zenon DEF HoldsAdministration
<1>2. ASSUME x.op \in {"suspend", "erase"}, x.pc = "commit"
      PROVE  Guarded(x, e) \/ ROLES_MANAGE \notin Held(e, x.user)
  <2>1. x.user \in Members \cap x.locks
    BY <1>2 DEF OpOK, UserOps, UserProtected
  <2>2. Guarded(x, d) \/ ROLES_MANAGE \notin Held(d, x.user)
    BY <1>2 DEF UserProtected
  <2>3. Guarded(x, d) => Guarded(x, e)
    BY <1>2, GuardedStays DEF GuardedOps
  <2> QED  BY <1>1, <2>1, <2>2, <2>3
<1>3. ASSUME (x.op = "strip" /\ x.pc = "commit") \/ (x.op = "force" /\ x.pc = "factors")
      PROVE  ~HoldsAdministration(e, x.user)
  BY <1>1, <1>3 DEF OpOK, UserOps, UserProtected
<1>4. ASSUME x.op = "disable", x.pc = "commit", HoldsAdministration(e, x.user), NEW f \in x.names
      PROVE  e.factors[x.user] \ {f} # {}
  <2>1. x.user \in Members \cap x.locks
    BY <1>4 DEF OpOK, UserOps, UserProtected
  <2>2. d.factors[x.user] \ {f} # {}
    BY <1>1, <1>4, <2>1 DEF UserProtected
  <2> QED  BY <1>1, <2>1, <2>2
<1> QED  BY <1>2, <1>3, <1>4 DEF UserProtected

LEMMA IdleOK ==
    /\ IdleTx \in Tx /\ OpOK(IdleTx) /\ IdleTx.locks = {}
    /\ \A d : Protected(IdleTx, d)
<1>1. IdleTx \in Tx /\ IdleTx.op = "idle" /\ IdleTx.locks = {}
  BY DEF IdleTx, Tx, Steps
<1>2. OpOK(IdleTx)
  BY <1>1 DEF OpOK, UserOps, RoleOps
<1>3. ASSUME NEW d PROVE RoleProtected(IdleTx, d) /\ UserProtected(IdleTx, d)
  BY <1>1 DEF RoleProtected, UserProtected
<1> QED  BY <1>1, <1>2, <1>3 DEF Protected
-----------------------------------------------------------------------------
(***************************************************************************)
(* The two kinds of step: one transaction commits or ends, and one goes    *)
(* on.                                                                     *)
(***************************************************************************)
LEMMA CommitStep ==
    ASSUME IInv, NEW s \in Txs, NEW e \in Db, db' = e, RoleRows(e),
           tx' = [tx EXCEPT ![s] = IdleTx],
           PermissionHeld(e, ROLES_MANAGE),
           \A u \in Members \ hurried' : KeepsASecondFactor(e, u),
           \A u \in Members : e.status[u] = "suspended" => u \notin e.live \ late',
           \A t \in Txs \ {s} : Leaves(tx[t].locks, db, e)
    PROVE  IInv'
<1> USE DEF IInv
<1>1. Typed'
  BY IdleOK DEF Typed
<1>2. LocksExclusive'
  BY IdleOK DEF LocksExclusive, Typed
<1>3. ASSUME NEW t \in Txs PROVE Protected(tx'[t], e)
  <2>1. CASE t = s
    BY <2>1, IdleOK DEF Typed
  <2>2. CASE t # s
    <3>1. /\ tx'[t] = tx[t] /\ tx[t] \in Tx /\ OpOK(tx[t]) /\ Leaves(tx[t].locks, db, e) /\ db \in Db
          /\ RoleProtected(tx[t], db) /\ UserProtected(tx[t], db)
      BY <2>2 DEF Typed, Protected
    <3>2. RoleProtected(tx[t], e) /\ UserProtected(tx[t], e)
      BY <3>1, RoleProtectedStays, UserProtectedStays DEF AnAdministratorRemains
    <3> QED  BY <3>1, <3>2 DEF Protected
  <2> QED  BY <2>1, <2>2
<1>4. RoleRows(db)'
  BY DEF RoleRows
<1>5. (\A t \in Txs : Protected(tx[t], db))'
  BY <1>3
<1>6. AnAdministratorRemains'
  BY DEF AnAdministratorRemains
<1>7. AdministratorsHaveASecondFactor'
  BY DEF AdministratorsHaveASecondFactor
<1>8. SuspensionSignsOut'
  BY DEF SuspensionSignsOut
<1> QED  BY <1>1, <1>2, <1>4, <1>5, <1>6, <1>7, <1>8

LEMMA QuietStep ==
    ASSUME IInv, NEW s \in Txs, NEW x \in Tx, OpOK(x), Protected(x, db),
           UNCHANGED <<db, adminHistory>>, tx' = [tx EXCEPT ![s] = x],
           \A t \in Txs \ {s} : tx[t].locks \cap x.locks = {}
    PROVE  IInv'
<1> USE DEF IInv
<1>0. db' = db /\ late' = late /\ hurried' = hurried
  BY DEF adminHistory
<1>1. Typed'
  BY <1>0 DEF Typed
<1>2. LocksExclusive'
  BY DEF LocksExclusive, Typed
<1>3. (\A t \in Txs : Protected(tx[t], db))'
  BY <1>0 DEF Typed
<1>4. RoleRows(db)'
  BY <1>0 DEF RoleRows
<1>6. AnAdministratorRemains'
  BY <1>0 DEF AnAdministratorRemains
<1>7. AdministratorsHaveASecondFactor'
  BY <1>0 DEF AdministratorsHaveASecondFactor
<1>8. SuspensionSignsOut'
  BY <1>0 DEF SuspensionSignsOut
<1> QED  BY <1>1, <1>2, <1>3, <1>4, <1>6, <1>7, <1>8

\* A request that begins holds no lock.
LEMMA BeginStep ==
    ASSUME IInv, NEW s \in Txs, NEW x \in Tx, OpOK(x), Protected(x, db), x.locks = {},
           BeginRequest(s, x)
    PROVE  IInv'
BY QuietStep DEF BeginRequest

LEMMA AcquireStep ==
    ASSUME IInv, NEW s \in Txs, NEW xs \in SUBSET Lockable, NEW pc \in Steps,
           Acquire(s, xs, pc), UNCHANGED <<db, adminHistory>>,
           \A x \in Tx : /\ x.op = tx[s].op /\ x.user = tx[s].user /\ x.role = tx[s].role
                         /\ x.names = tx[s].names /\ x.pc = pc /\ x.locks = tx[s].locks \cup xs
                         => Protected(x, db)
    PROVE  IInv'
<1> DEFINE x == [tx[s] EXCEPT !.locks = @ \cup xs, !.pc = pc]
<1>0. tx[s] \in Tx /\ OpOK(tx[s]) /\ tx \in [Txs -> Tx]
  BY DEF IInv, Typed
<1>1. /\ x \in Tx /\ x.locks = tx[s].locks \cup xs /\ x.pc = pc
      /\ x.op = tx[s].op /\ x.user = tx[s].user /\ x.role = tx[s].role /\ x.names = tx[s].names
  BY <1>0 DEF Tx
<1>2. tx' = [tx EXCEPT ![s] = x]
  BY <1>0 DEF Acquire
<1> HIDE DEF x
<1>3. OpOK(x)
  BY <1>0, <1>1 DEF OpOK
<1>4. \A t \in Txs \ {s} : tx[t].locks \cap x.locks = {}
  BY <1>0, <1>1 DEF Acquire, IInv, LocksExclusive
<1>5. Protected(x, db)
  BY <1>1
<1> QED  BY <1>1, <1>2, <1>3, <1>4, <1>5, QuietStep

-----------------------------------------------------------------------------
(***************************************************************************)
(* Requests begin.                                                         *)
(***************************************************************************)
LEMMA FreshOK ==
    ASSUME NEW x \in Tx, NEW d,
           \/ x.pc = "user"
           \/ x.pc = "role" /\ x.op # "assign"
           \/ x.op \in {"create", "reactivate", "revoke", "enrol", "signin"}
    PROVE  Protected(x, d)
BY DEF Protected, RoleProtected, UserProtected

LEMMA RolesBegin ==
    ASSUME IInv, NEW s \in Txs
    PROVE  /\ \A a \in Members, r \in Roles, names \in SUBSET Permissions :
                CreateRole(s, a, r, names) \/ SetRolePermissions(s, a, r, names) => IInv'
           /\ \A a \in Members, r \in Roles : DeleteRole(s, a, r) => IInv'
           /\ \A a, u \in Members, r \in Roles :
                AssignRole(s, a, u, r) \/ UnassignRole(s, a, u, r) => IInv'
           /\ \A u \in Members, r \in Roles : GrantRole(s, u, r) => IInv'
<1>1. ASSUME NEW a \in Members, NEW r \in Roles, NEW names \in SUBSET Permissions,
             CreateRole(s, a, r, names)
      PROVE  IInv'
  <2> DEFINE x == [IdleTx EXCEPT !.op = "create", !.pc = "commit", !.actor = a, !.role = r, !.names = names]
  <2>1. /\ x \in Tx /\ x.op = "create" /\ x.pc = "commit" /\ x.locks = {} /\ x.role = r /\ x.names = names
    BY <1>1 DEF IdleTx, Tx, Steps, UserOps, RoleOps, Db, IInv, Typed
  <2>2. BeginRequest(s, x)
    BY <1>1 DEF CreateRole
  <2> HIDE DEF x
  <2>3. OpOK(x) /\ Protected(x, db)
    BY <2>1, FreshOK DEF OpOK, UserOps, RoleOps
  <2> QED  BY <2>1, <2>2, <2>3, BeginStep
<1>2. ASSUME NEW a \in Members, NEW r \in Roles, NEW names \in SUBSET Permissions,
             SetRolePermissions(s, a, r, names)
      PROVE  IInv'
  <2> DEFINE x == [IdleTx EXCEPT !.op = "permissions", !.pc = "role", !.actor = a, !.role = r, !.names = names]
  <2>1. /\ x \in Tx /\ x.op = "permissions" /\ x.pc = "role" /\ x.locks = {} /\ x.role = r /\ x.names = names
    BY <1>2 DEF IdleTx, Tx, Steps, UserOps, RoleOps, Db, IInv, Typed
  <2>2. BeginRequest(s, x)
    BY <1>2 DEF SetRolePermissions
  <2> HIDE DEF x
  <2>3. OpOK(x) /\ Protected(x, db)
    BY <2>1, FreshOK DEF OpOK, UserOps, RoleOps
  <2> QED  BY <2>1, <2>2, <2>3, BeginStep
<1>3. ASSUME NEW a \in Members, NEW r \in Roles,
             DeleteRole(s, a, r)
      PROVE  IInv'
  <2> DEFINE x == [IdleTx EXCEPT !.op = "delete_role", !.pc = "role", !.actor = a, !.role = r]
  <2>1. /\ x \in Tx /\ x.op = "delete_role" /\ x.pc = "role" /\ x.locks = {} /\ x.role = r
    BY <1>3 DEF IdleTx, Tx, Steps, UserOps, RoleOps, Db, IInv, Typed
  <2>2. BeginRequest(s, x)
    BY <1>3 DEF DeleteRole
  <2> HIDE DEF x
  <2>3. OpOK(x) /\ Protected(x, db)
    BY <2>1, FreshOK DEF OpOK, UserOps, RoleOps
  <2> QED  BY <2>1, <2>2, <2>3, BeginStep
<1>4. ASSUME NEW a \in Members, NEW u \in Members, NEW r \in Roles,
             AssignRole(s, a, u, r)
      PROVE  IInv'
  <2> DEFINE x == [IdleTx EXCEPT !.op = "assign", !.pc = "user", !.actor = a, !.user = u, !.role = r]
  <2>1. /\ x \in Tx /\ x.op = "assign" /\ x.pc = "user" /\ x.locks = {} /\ x.user = u /\ x.role = r
    BY <1>4 DEF IdleTx, Tx, Steps, UserOps, RoleOps, Db, IInv, Typed
  <2>2. BeginRequest(s, x)
    BY <1>4 DEF AssignRole
  <2> HIDE DEF x
  <2>3. OpOK(x) /\ Protected(x, db)
    BY <2>1, FreshOK DEF OpOK, UserOps, RoleOps
  <2> QED  BY <2>1, <2>2, <2>3, BeginStep
<1>5. ASSUME NEW a \in Members, NEW u \in Members, NEW r \in Roles,
             UnassignRole(s, a, u, r)
      PROVE  IInv'
  <2> DEFINE x == [IdleTx EXCEPT !.op = "unassign", !.pc = "role", !.actor = a, !.user = u, !.role = r]
  <2>1. /\ x \in Tx /\ x.op = "unassign" /\ x.pc = "role" /\ x.locks = {} /\ x.user = u /\ x.role = r
    BY <1>5 DEF IdleTx, Tx, Steps, UserOps, RoleOps, Db, IInv, Typed
  <2>2. BeginRequest(s, x)
    BY <1>5 DEF UnassignRole
  <2> HIDE DEF x
  <2>3. OpOK(x) /\ Protected(x, db)
    BY <2>1, FreshOK DEF OpOK, UserOps, RoleOps
  <2> QED  BY <2>1, <2>2, <2>3, BeginStep
<1>6. ASSUME NEW u \in Members, NEW r \in Roles,
             GrantRole(s, u, r)
      PROVE  IInv'
  <2> DEFINE x == [IdleTx EXCEPT !.op = "cli", !.pc = "user", !.user = u, !.role = r, !.names = {db.status[u]}]
  <2>1. /\ x \in Tx /\ x.op = "cli" /\ x.pc = "user" /\ x.locks = {} /\ x.user = u /\ x.role = r
    BY <1>6 DEF IdleTx, Tx, Steps, UserOps, RoleOps, Db, IInv, Typed
  <2>2. BeginRequest(s, x)
    BY <1>6 DEF GrantRole
  <2> HIDE DEF x
  <2>3. OpOK(x) /\ Protected(x, db)
    BY <2>1, FreshOK DEF OpOK, UserOps, RoleOps
  <2> QED  BY <2>1, <2>2, <2>3, BeginStep
<1> QED  BY <1>1, <1>2, <1>3, <1>4, <1>5, <1>6

LEMMA OnUserBegins ==
    ASSUME IInv, NEW s \in Txs, NEW a \in Members, NEW u \in Members, NEW op \in UserOps \ RoleOps,
           NEW pc \in Steps, OnUser(s, a, u, op, pc), pc = "user" \/ op = "revoke",
           op \notin {"enrol", "disable", "reset"}
    PROVE  IInv'
<1> DEFINE x == [IdleTx EXCEPT !.op = op, !.pc = pc, !.actor = a, !.user = u]
<1>1. x \in Tx /\ x.op = op /\ x.pc = pc /\ x.locks = {} /\ x.user = u
  BY DEF IdleTx, Tx
<1>2. BeginRequest(s, x)
  BY DEF OnUser
<1> HIDE DEF x
<1>3. OpOK(x) /\ Protected(x, db)
  BY <1>1, FreshOK DEF OpOK, RoleOps
<1> QED  BY <1>1, <1>2, <1>3, BeginStep

LEMMA UsersBegin ==
    ASSUME IInv, NEW s \in Txs, NEW a \in Members, NEW u \in Members
    PROVE  /\ SuspendUser(s, a, u) => IInv'
           /\ ReactivateUser(s, a, u) => IInv'
           /\ RevokeUserSessions(s, a, u) => IInv'
           /\ ForcePasswordResetOf(s, a, u) => IInv'
           /\ RemoveAccessFactorsOf(s, a, u) => IInv'
           /\ DeleteUser(s, a, u) => IInv'
<1> USE DEF UserOps, RoleOps, Steps
<1>1. SuspendUser(s, a, u) => IInv'
  BY OnUserBegins DEF SuspendUser
<1>2. ASSUME ReactivateUser(s, a, u)
      PROVE  IInv'
  <2> DEFINE x == [IdleTx EXCEPT !.op = "reactivate", !.pc = "commit", !.actor = a, !.user = u]
  <2>1. x \in Tx /\ x.op = "reactivate" /\ x.pc = "commit" /\ x.locks = {} /\ x.user = u
    BY DEF IdleTx, Tx
  <2>2. BeginRequest(s, x)
    BY <1>2 DEF ReactivateUser
  <2> HIDE DEF x
  <2>3. OpOK(x) /\ Protected(x, db)
    BY <2>1, FreshOK DEF OpOK
  <2> QED  BY <2>1, <2>2, <2>3, BeginStep
<1>3. RevokeUserSessions(s, a, u) => IInv'
  BY OnUserBegins DEF RevokeUserSessions
<1>4. ForcePasswordResetOf(s, a, u) => IInv'
  BY OnUserBegins DEF ForcePasswordResetOf
<1>5. RemoveAccessFactorsOf(s, a, u) => IInv'
  BY OnUserBegins DEF RemoveAccessFactorsOf
<1>6. DeleteUser(s, a, u) => IInv'
  BY OnUserBegins DEF DeleteUser
<1> QED  BY <1>1, <1>2, <1>3, <1>4, <1>5, <1>6

LEMMA OwnerBegins ==
    ASSUME IInv, NEW s \in Txs
    PROVE  /\ \A u \in Members : DeleteOwnAccount(s, u) \/ SignIn(s, u) => IInv'
           /\ \A u \in Members, f \in Factors : DisableFactor(s, u, f) \/ Enrol(s, u, f) => IInv'
           /\ \A u \in Members, recent \in SUBSET Factors : ResetByLink(s, u, recent) => IInv'
<1>1. ASSUME NEW u \in Members,
             DeleteOwnAccount(s, u)
      PROVE  IInv'
  <2> DEFINE x == [IdleTx EXCEPT !.op = "erase", !.pc = "user", !.user = u]
  <2>1. /\ x \in Tx /\ x.op = "erase" /\ x.pc = "user" /\ x.locks = {} /\ x.user = u
    BY <1>1 DEF IdleTx, Tx, Steps, UserOps, RoleOps, Db, IInv, Typed
  <2>2. BeginRequest(s, x)
    BY <1>1 DEF DeleteOwnAccount
  <2> HIDE DEF x
  <2>3. OpOK(x) /\ Protected(x, db)
    BY <2>1, FreshOK DEF OpOK, UserOps, RoleOps
  <2> QED  BY <2>1, <2>2, <2>3, BeginStep
<1>2. ASSUME NEW u \in Members,
             SignIn(s, u)
      PROVE  IInv'
  <2> DEFINE x == [IdleTx EXCEPT !.op = "signin", !.pc = "commit", !.user = u]
  <2>1. /\ x \in Tx /\ x.op = "signin" /\ x.pc = "commit" /\ x.locks = {} /\ x.user = u
    BY <1>2 DEF IdleTx, Tx, Steps, UserOps, RoleOps, Db, IInv, Typed
  <2>2. BeginRequest(s, x)
    BY <1>2 DEF SignIn
  <2> HIDE DEF x
  <2>3. OpOK(x) /\ Protected(x, db)
    BY <2>1, FreshOK DEF OpOK, UserOps, RoleOps
  <2> QED  BY <2>1, <2>2, <2>3, BeginStep
<1>3. ASSUME NEW u \in Members, NEW f \in Factors,
             DisableFactor(s, u, f)
      PROVE  IInv'
  <2> DEFINE x == [IdleTx EXCEPT !.op = "disable", !.pc = "user", !.user = u, !.names = {f}]
  <2>1. /\ x \in Tx /\ x.op = "disable" /\ x.pc = "user" /\ x.locks = {} /\ x.user = u /\ x.names = {f}
    BY <1>3 DEF IdleTx, Tx, Steps, UserOps, RoleOps, Db, IInv, Typed
  <2>2. BeginRequest(s, x)
    BY <1>3 DEF DisableFactor
  <2> HIDE DEF x
  <2>3. OpOK(x) /\ Protected(x, db)
    BY <2>1, FreshOK DEF OpOK, UserOps, RoleOps
  <2> QED  BY <2>1, <2>2, <2>3, BeginStep
<1>4. ASSUME NEW u \in Members, NEW f \in Factors,
             Enrol(s, u, f)
      PROVE  IInv'
  <2> DEFINE x == [IdleTx EXCEPT !.op = "enrol", !.pc = "commit", !.user = u, !.names = {f}]
  <2>1. /\ x \in Tx /\ x.op = "enrol" /\ x.pc = "commit" /\ x.locks = {} /\ x.user = u /\ x.names = {f}
    BY <1>4 DEF IdleTx, Tx, Steps, UserOps, RoleOps, Db, IInv, Typed
  <2>2. BeginRequest(s, x)
    BY <1>4 DEF Enrol
  <2> HIDE DEF x
  <2>3. OpOK(x) /\ Protected(x, db)
    BY <2>1, FreshOK DEF OpOK, UserOps, RoleOps
  <2> QED  BY <2>1, <2>2, <2>3, BeginStep
<1>5. ASSUME NEW u \in Members, NEW recent \in SUBSET Factors,
             ResetByLink(s, u, recent)
      PROVE  IInv'
  <2> DEFINE x == [IdleTx EXCEPT !.op = "reset", !.pc = "user", !.user = u, !.names = recent]
  <2>1. /\ x \in Tx /\ x.op = "reset" /\ x.pc = "user" /\ x.locks = {} /\ x.user = u /\ x.names = recent
    BY <1>5 DEF IdleTx, Tx, Steps, UserOps, RoleOps, Db, IInv, Typed
  <2>2. BeginRequest(s, x)
    BY <1>5 DEF ResetByLink
  <2> HIDE DEF x
  <2>3. OpOK(x) /\ Protected(x, db)
    BY <2>1, FreshOK DEF OpOK, UserOps, RoleOps
  <2> QED  BY <2>1, <2>2, <2>3, BeginStep
<1> QED  BY <1>1, <1>2, <1>3, <1>4, <1>5

-----------------------------------------------------------------------------
(***************************************************************************)
(* Locks are taken and things looked at.                                   *)
(***************************************************************************)
\* The same roles held with the same permissions.
LEMMA HeldSame ==
    ASSUME NEW d \in Db, NEW e \in Db, NEW u \in Members, d.grants = e.grants, d.holds = e.holds
    PROVE  /\ Held(d, u) = Held(e, u)
           /\ HoldsAdministration(d, u) <=> HoldsAdministration(e, u)
BY DEF Held, HoldsAdministration

\* keep_an_administrator, in each transaction that calls it.
LEMMA KeepStep ==
    ASSUME IInv, NEW s \in Txs, tx[s].op \in GuardedOps, tx[s].pc = "guard",
           KeepAnAdministrator(s, Outcome(tx[s], db))
    PROVE  IInv'
<1> DEFINE y == tx[s]
<1>0. y \in Tx /\ OpOK(y) /\ RoleProtected(y, db) /\ UserProtected(y, db)
  BY DEF IInv, Typed, Protected
<1>1. ASSUME NEW x \in Tx,
             x.op = y.op, x.user = y.user, x.role = y.role, x.names = y.names,
             x.pc = "commit", x.locks = y.locks \cup {GUARD}
      PROVE  Protected(x, db)
  <2>1. Outcome(x, db) = Outcome(y, db)
    BY <1>0, <1>1, OutcomeCases DEF GuardedOps
  <2>2. Guarded(x, db)
    BY <1>1, <2>1 DEF Guarded, KeepAnAdministrator
  <2>3. RoleProtected(x, db)
    BY <1>0, <1>1, <2>2 DEF RoleProtected, GuardedOps
  <2>4. UserProtected(x, db)
    BY <1>0, <1>1, <2>2 DEF UserProtected, GuardedOps
  <2> QED  BY <2>3, <2>4 DEF Protected
<1>2. Acquire(s, {GUARD}, "commit") /\ UNCHANGED <<db, adminHistory>>
  BY DEF KeepAnAdministrator, GUARD
<1>3. {GUARD} \in SUBSET Lockable /\ "commit" \in Steps
  BY DEF Lockable, Steps
<1> QED  BY <1>1, <1>2, <1>3, AcquireStep

LEMMA GuardSteps ==
    ASSUME IInv, NEW s \in Txs,
           \/ SetPermissionsGuard(s) \/ DeleteRoleGuard(s) \/ UnassignGuard(s)
           \/ SuspendGuard(s) \/ EraseGuard(s)
    PROVE  IInv'
<1>0. tx[s] \in Tx
  BY DEF IInv, Typed
<1> QED  BY <1>0, OutcomeCases, KeepStep DEF SetPermissionsGuard, DeleteRoleGuard, UnassignGuard,
           SuspendGuard, EraseGuard, At, GuardedOps

LEMMA RoleLooks ==
    ASSUME IInv, NEW s \in Txs
    PROVE  /\ SetPermissions(s) => IInv'
           /\ DeleteRoleLock(s) => IInv'
           /\ Assign(s) => IInv'
           /\ AssignCheck(s) => IInv'
           /\ Unassign(s) => IInv'
<1> DEFINE y == tx[s]
<1>0. y \in Tx /\ OpOK(y) /\ RoleProtected(y, db) /\ UserProtected(y, db) /\ db \in Db
  BY DEF IInv, Typed, Protected
<1>1. ASSUME SetPermissions(s)
      PROVE  IInv'
  <2>1. ASSUME NEW x \in Tx,
               x.op = y.op, x.user = y.user, x.role = y.role, x.names = y.names,
               x.pc = "holders", x.locks = y.locks \cup {y.role}
        PROVE  RoleProtected(x, db) /\ UserProtected(x, db)
    BY <1>0, <1>1, <2>1 DEF SetPermissions, At, RoleProtected, UserProtected
  <2>2. Acquire(s, {y.role}, "holders") /\ UNCHANGED <<db, adminHistory>>
    BY <1>1 DEF SetPermissions, LockPermissions
  <2>3. {y.role} \in SUBSET Lockable /\ "holders" \in Steps
    BY <1>0, <1>1 DEF SetPermissions, At, OpOK, UserOps, RoleOps, Lockable, Steps
  <2> QED  BY <2>1, <2>2, <2>3, AcquireStep DEF Protected
<1>2. ASSUME DeleteRoleLock(s)
      PROVE  IInv'
  <2>1. ASSUME NEW x \in Tx,
               x.op = y.op, x.user = y.user, x.role = y.role, x.names = y.names,
               x.pc = "guard", x.locks = y.locks \cup {y.role}
        PROVE  RoleProtected(x, db) /\ UserProtected(x, db)
    BY <1>0, <1>2, <2>1 DEF DeleteRoleLock, At, RoleProtected, UserProtected
  <2>2. Acquire(s, {y.role}, "guard") /\ UNCHANGED <<db, adminHistory>>
    BY <1>2 DEF DeleteRoleLock, LockPermissions
  <2>3. {y.role} \in SUBSET Lockable /\ "guard" \in Steps
    BY <1>0, <1>2 DEF DeleteRoleLock, At, OpOK, UserOps, RoleOps, Lockable, Steps
  <2> QED  BY <2>1, <2>2, <2>3, AcquireStep DEF Protected
<1>3. ASSUME Assign(s)
      PROVE  IInv'
  <2>1. ASSUME NEW x \in Tx,
               x.op = y.op, x.user = y.user, x.role = y.role, x.names = y.names,
               x.pc = "role", x.locks = y.locks \cup {y.user}
        PROVE  RoleProtected(x, db) /\ UserProtected(x, db)
    BY <1>0, <1>3, <2>1 DEF Assign, At, RoleProtected, UserProtected
  <2>2. Acquire(s, {y.user}, "role") /\ UNCHANGED <<db, adminHistory>>
    BY <1>3 DEF Assign, LockRow
  <2>3. {y.user} \in SUBSET Lockable /\ "role" \in Steps
    BY <1>0, <1>3 DEF Assign, At, OpOK, UserOps, RoleOps, Lockable, Steps
  <2> QED  BY <2>1, <2>2, <2>3, AcquireStep DEF Protected
<1>4. ASSUME AssignCheck(s)
      PROVE  IInv'
  <2>1. ASSUME NEW x \in Tx,
               x.op = y.op, x.user = y.user, x.role = y.role, x.names = y.names,
               x.pc = "commit", x.locks = y.locks \cup {y.role}
        PROVE  RoleProtected(x, db) /\ UserProtected(x, db)
    BY <1>0, <1>4, <2>1 DEF AssignCheck, At, RoleProtected, UserProtected, RoleThere, CanAdminister
  <2>2. Acquire(s, {y.role}, "commit") /\ UNCHANGED <<db, adminHistory>>
    BY <1>4 DEF AssignCheck, LockPermissions
  <2>3. {y.role} \in SUBSET Lockable /\ "commit" \in Steps
    BY <1>0, <1>4 DEF AssignCheck, At, OpOK, UserOps, RoleOps, Lockable, Steps
  <2> QED  BY <2>1, <2>2, <2>3, AcquireStep DEF Protected
<1>5. ASSUME Unassign(s)
      PROVE  IInv'
  <2>1. ASSUME NEW x \in Tx,
               x.op = y.op, x.user = y.user, x.role = y.role, x.names = y.names,
               x.pc = "guard", x.locks = y.locks \cup {y.role}
        PROVE  RoleProtected(x, db) /\ UserProtected(x, db)
    BY <1>0, <1>5, <2>1 DEF Unassign, At, RoleProtected, UserProtected
  <2>2. Acquire(s, {y.role}, "guard") /\ UNCHANGED <<db, adminHistory>>
    BY <1>5 DEF Unassign, LockPermissions
  <2>3. {y.role} \in SUBSET Lockable /\ "guard" \in Steps
    BY <1>0, <1>5 DEF Unassign, At, OpOK, UserOps, RoleOps, Lockable, Steps
  <2> QED  BY <2>1, <2>2, <2>3, AcquireStep DEF Protected
<1> QED  BY <1>1, <1>2, <1>3, <1>4, <1>5

LEMMA HolderLooks ==
    ASSUME IInv, NEW s \in Txs, SetPermissionsHolders(s)
    PROVE  IInv'
<1> DEFINE y == tx[s]
<1>0. y \in Tx /\ OpOK(y) /\ RoleProtected(y, db) /\ UserProtected(y, db) /\ db \in Db
  BY DEF IInv, Typed, Protected
<1>1. CASE Added(s) \cap ADMIN_PERMISSIONS = {} /\ TxGoto(s, "guard")
  <2>1. ASSUME NEW x \in Tx,
               x.op = y.op, x.user = y.user, x.role = y.role, x.names = y.names,
               x.pc = "guard", x.locks = y.locks \cup {}
        PROVE  RoleProtected(x, db) /\ UserProtected(x, db)
    <3>1. x.op = "permissions" /\ x.role \in db.roles /\ y.role \in y.locks
      BY <1>0, <2>1 DEF SetPermissionsHolders, At, RoleThere, RoleProtected
    <3>2. (x.names \ db.grants[x.role]) \cap ADMIN_PERMISSIONS # {} =>
             \A u \in HoldersOf(db, x.role) : u \in x.locks /\ HasSecondFactor(db, u)
      BY <1>1, <2>1 DEF Added
    <3> QED  BY <2>1, <3>1, <3>2 DEF RoleProtected, UserProtected
  <2>2. Acquire(s, {}, "guard") /\ UNCHANGED <<db, adminHistory>>
    BY <1>1 DEF SetPermissionsHolders, TxGoto
  <2>3. {} \in SUBSET Lockable /\ "guard" \in Steps
    BY DEF Lockable, Steps, HoldersOf
  <2> QED  BY <2>1, <2>2, <2>3, AcquireStep DEF Protected
<1>2. CASE /\ Added(s) \cap ADMIN_PERMISSIONS # {}
           /\ \A u \in HoldersOf(db, y.role) : CanAdminister(db, u)
           /\ Acquire(s, HoldersOf(db, y.role), "guard")
  <2>1. ASSUME NEW x \in Tx,
               x.op = y.op, x.user = y.user, x.role = y.role, x.names = y.names,
               x.pc = "guard", x.locks = y.locks \cup HoldersOf(db, y.role)
        PROVE  RoleProtected(x, db) /\ UserProtected(x, db)
    <3>1. x.op = "permissions" /\ x.role \in db.roles /\ y.role \in y.locks
      BY <1>0, <2>1 DEF SetPermissionsHolders, At, RoleThere, RoleProtected
    <3>2. (x.names \ db.grants[x.role]) \cap ADMIN_PERMISSIONS # {} =>
             \A u \in HoldersOf(db, x.role) : u \in x.locks /\ HasSecondFactor(db, u)
      BY <1>2, <2>1 DEF Added, CanAdminister
    <3> QED  BY <2>1, <3>1, <3>2 DEF RoleProtected, UserProtected
  <2>2. Acquire(s, HoldersOf(db, y.role), "guard") /\ UNCHANGED <<db, adminHistory>>
    BY <1>2 DEF SetPermissionsHolders, TxGoto
  <2>3. HoldersOf(db, y.role) \in SUBSET Lockable /\ "guard" \in Steps
    BY DEF Lockable, Steps, HoldersOf
  <2> QED  BY <2>1, <2>2, <2>3, AcquireStep DEF Protected
<1> QED  BY <1>1, <1>2 DEF SetPermissionsHolders

\* The condition drop_access_factors_in and disable check, in terms of what is there before.
LEMMA KeepsIff ==
    ASSUME NEW d \in Db, NEW u \in Members, NEW kept \in SUBSET Factors
    PROVE  KeepsASecondFactor([d EXCEPT !.factors[u] = kept], u) <=>
               (HoldsAdministration(d, u) => kept # {})
<1> DEFINE e == [d EXCEPT !.factors[u] = kept]
<1>1. e \in Db /\ e.grants = d.grants /\ e.holds = d.holds /\ e.factors[u] = kept
  BY DEF Db
<1> HIDE DEF e
<1>2. HoldsAdministration(d, u) <=> HoldsAdministration(e, u)
  BY <1>1, HeldSame
<1>3. KeepsASecondFactor(e, u) <=> (HoldsAdministration(d, u) => kept # {})
  BY <1>1, <1>2 DEF KeepsASecondFactor, HasSecondFactor
<1> QED  BY <1>3 DEF e

LEMMA UserLooks ==
    ASSUME IInv, NEW s \in Txs
    PROVE  /\ GrantRoleCheck(s) => IInv'
           /\ Suspend(s) => IInv'
           /\ EraseAccount(s) => IInv'
           /\ ForcePasswordReset(s) => IInv'
           /\ RemoveAccessFactors(s) => IInv'
           /\ Disable(s) => IInv'
           /\ ResetLock(s) => IInv'
<1> DEFINE y == tx[s]
<1>0. y \in Tx /\ OpOK(y) /\ RoleProtected(y, db) /\ UserProtected(y, db) /\ db \in Db
  BY DEF IInv, Typed, Protected
<1>1. ASSUME GrantRoleCheck(s), GrantsAdministration(db, y.role)
      PROVE  IInv'
  <2>1. ASSUME NEW x \in Tx,
               x.op = y.op, x.user = y.user, x.role = y.role, x.names = y.names,
               x.pc = "commit", x.locks = y.locks \cup {y.user}
        PROVE  RoleProtected(x, db) /\ UserProtected(x, db)
    BY <1>0, <1>1, <2>1 DEF GrantRoleCheck, At, RoleProtected, UserProtected
  <2>2. Acquire(s, {y.user}, "commit") /\ UNCHANGED <<db, adminHistory>>
    BY <1>1 DEF GrantRoleCheck, LockRow
  <2>3. {y.user} \in SUBSET Lockable /\ "commit" \in Steps
    BY <1>0, <1>1 DEF GrantRoleCheck, At, OpOK, UserOps, RoleOps, Lockable, Steps
  <2> QED  BY <2>1, <2>2, <2>3, AcquireStep DEF Protected
<1>2. ASSUME GrantRoleCheck(s), ~GrantsAdministration(db, y.role)
      PROVE  IInv'
  <2>1. ASSUME NEW x \in Tx,
               x.op = y.op, x.user = y.user, x.role = y.role, x.names = y.names,
               x.pc = "plain", x.locks = y.locks \cup {y.user}
        PROVE  RoleProtected(x, db) /\ UserProtected(x, db)
    BY <1>0, <1>2, <2>1 DEF GrantRoleCheck, At, RoleProtected, UserProtected
  <2>2. Acquire(s, {y.user}, "plain") /\ UNCHANGED <<db, adminHistory>>
    BY <1>2 DEF GrantRoleCheck, LockRow
  <2>3. {y.user} \in SUBSET Lockable /\ "plain" \in Steps
    BY <1>0, <1>2 DEF GrantRoleCheck, At, OpOK, UserOps, RoleOps, Lockable, Steps
  <2> QED  BY <2>1, <2>2, <2>3, AcquireStep DEF Protected
<1>3. ASSUME Suspend(s), ROLES_MANAGE \in Held(db, y.user)
      PROVE  IInv'
  <2>1. ASSUME NEW x \in Tx,
               x.op = y.op, x.user = y.user, x.role = y.role, x.names = y.names,
               x.pc = "guard", x.locks = y.locks \cup {y.user}
        PROVE  RoleProtected(x, db) /\ UserProtected(x, db)
    BY <1>0, <1>3, <2>1 DEF Suspend, At, RoleProtected, UserProtected
  <2>2. Acquire(s, {y.user}, "guard") /\ UNCHANGED <<db, adminHistory>>
    BY <1>3 DEF Suspend
  <2>3. {y.user} \in SUBSET Lockable /\ "guard" \in Steps
    BY <1>0, <1>3 DEF Suspend, At, OpOK, UserOps, RoleOps, Lockable, Steps
  <2> QED  BY <2>1, <2>2, <2>3, AcquireStep DEF Protected
<1>4. ASSUME Suspend(s), ROLES_MANAGE \notin Held(db, y.user)
      PROVE  IInv'
  <2>1. ASSUME NEW x \in Tx,
               x.op = y.op, x.user = y.user, x.role = y.role, x.names = y.names,
               x.pc = "commit", x.locks = y.locks \cup {y.user}
        PROVE  RoleProtected(x, db) /\ UserProtected(x, db)
    BY <1>0, <1>4, <2>1 DEF Suspend, At, RoleProtected, UserProtected
  <2>2. Acquire(s, {y.user}, "commit") /\ UNCHANGED <<db, adminHistory>>
    BY <1>4 DEF Suspend
  <2>3. {y.user} \in SUBSET Lockable /\ "commit" \in Steps
    BY <1>0, <1>4 DEF Suspend, At, OpOK, UserOps, RoleOps, Lockable, Steps
  <2> QED  BY <2>1, <2>2, <2>3, AcquireStep DEF Protected
<1>5. ASSUME EraseAccount(s), ROLES_MANAGE \in Held(db, y.user)
      PROVE  IInv'
  <2>1. ASSUME NEW x \in Tx,
               x.op = y.op, x.user = y.user, x.role = y.role, x.names = y.names,
               x.pc = "guard", x.locks = y.locks \cup {y.user}
        PROVE  RoleProtected(x, db) /\ UserProtected(x, db)
    BY <1>0, <1>5, <2>1 DEF EraseAccount, At, RoleProtected, UserProtected
  <2>2. Acquire(s, {y.user}, "guard") /\ UNCHANGED <<db, adminHistory>>
    BY <1>5 DEF EraseAccount, LockRow
  <2>3. {y.user} \in SUBSET Lockable /\ "guard" \in Steps
    BY <1>0, <1>5 DEF EraseAccount, At, OpOK, UserOps, RoleOps, Lockable, Steps
  <2> QED  BY <2>1, <2>2, <2>3, AcquireStep DEF Protected
<1>6. ASSUME EraseAccount(s), ROLES_MANAGE \notin Held(db, y.user)
      PROVE  IInv'
  <2>1. ASSUME NEW x \in Tx,
               x.op = y.op, x.user = y.user, x.role = y.role, x.names = y.names,
               x.pc = "commit", x.locks = y.locks \cup {y.user}
        PROVE  RoleProtected(x, db) /\ UserProtected(x, db)
    BY <1>0, <1>6, <2>1 DEF EraseAccount, At, RoleProtected, UserProtected
  <2>2. Acquire(s, {y.user}, "commit") /\ UNCHANGED <<db, adminHistory>>
    BY <1>6 DEF EraseAccount, LockRow
  <2>3. {y.user} \in SUBSET Lockable /\ "commit" \in Steps
    BY <1>0, <1>6 DEF EraseAccount, At, OpOK, UserOps, RoleOps, Lockable, Steps
  <2> QED  BY <2>1, <2>2, <2>3, AcquireStep DEF Protected
<1>7. ASSUME ForcePasswordReset(s), LockRow(s, "commit")
      PROVE  IInv'
  <2>1. ASSUME NEW x \in Tx,
               x.op = y.op, x.user = y.user, x.role = y.role, x.names = y.names,
               x.pc = "commit", x.locks = y.locks \cup {y.user}
        PROVE  RoleProtected(x, db) /\ UserProtected(x, db)
    BY <1>0, <1>7, <2>1 DEF ForcePasswordReset, At, RoleProtected, UserProtected
  <2>2. Acquire(s, {y.user}, "commit") /\ UNCHANGED <<db, adminHistory>>
    BY <1>7 DEF ForcePasswordReset, LockRow
  <2>3. {y.user} \in SUBSET Lockable /\ "commit" \in Steps
    BY <1>0, <1>7 DEF ForcePasswordReset, At, OpOK, UserOps, RoleOps, Lockable, Steps
  <2> QED  BY <2>1, <2>2, <2>3, AcquireStep DEF Protected
<1>8. ASSUME ForcePasswordReset(s), DropAccessFactorsIn(y.user), LockRow(s, "factors")
      PROVE  IInv'
  <2>0. ~HoldsAdministration(db, y.user)
    <3>1. y.user \in Members
      BY <1>0, <1>8 DEF ForcePasswordReset, At, OpOK, UserOps
    <3>2. KeepsASecondFactor([db EXCEPT !.factors[y.user] = {}], y.user)
      BY <1>8 DEF DropAccessFactorsIn, AccessFactorsDropped
    <3> QED  BY <1>0, <3>1, <3>2, KeepsIff
  <2>1. ASSUME NEW x \in Tx,
               x.op = y.op, x.user = y.user, x.role = y.role, x.names = y.names,
               x.pc = "factors", x.locks = y.locks \cup {y.user}
        PROVE  RoleProtected(x, db) /\ UserProtected(x, db)
    BY <1>0, <1>8, <2>1, <2>0 DEF ForcePasswordReset, At, RoleProtected, UserProtected
  <2>2. Acquire(s, {y.user}, "factors") /\ UNCHANGED <<db, adminHistory>>
    BY <1>8 DEF ForcePasswordReset, LockRow
  <2>3. {y.user} \in SUBSET Lockable /\ "factors" \in Steps
    BY <1>0, <1>8 DEF ForcePasswordReset, At, OpOK, UserOps, RoleOps, Lockable, Steps
  <2> QED  BY <2>1, <2>2, <2>3, AcquireStep DEF Protected
<1>9. ASSUME RemoveAccessFactors(s)
      PROVE  IInv'
  <2>0. ~HoldsAdministration(db, y.user)
    <3>1. y.user \in Members
      BY <1>0, <1>9 DEF RemoveAccessFactors, At, OpOK, UserOps
    <3>2. KeepsASecondFactor([db EXCEPT !.factors[y.user] = {}], y.user)
      BY <1>9 DEF RemoveAccessFactors, DropAccessFactorsIn, AccessFactorsDropped
    <3> QED  BY <1>0, <3>1, <3>2, KeepsIff
  <2>1. ASSUME NEW x \in Tx,
               x.op = y.op, x.user = y.user, x.role = y.role, x.names = y.names,
               x.pc = "commit", x.locks = y.locks \cup {y.user}
        PROVE  RoleProtected(x, db) /\ UserProtected(x, db)
    BY <1>0, <1>9, <2>1, <2>0 DEF RemoveAccessFactors, At, RoleProtected, UserProtected
  <2>2. Acquire(s, {y.user}, "commit") /\ UNCHANGED <<db, adminHistory>>
    BY <1>9 DEF RemoveAccessFactors, LockRow
  <2>3. {y.user} \in SUBSET Lockable /\ "commit" \in Steps
    BY <1>0, <1>9 DEF RemoveAccessFactors, At, OpOK, UserOps, RoleOps, Lockable, Steps
  <2> QED  BY <2>1, <2>2, <2>3, AcquireStep DEF Protected
<1>10. ASSUME Disable(s)
      PROVE  IInv'
  <2>0. ASSUME HoldsAdministration(db, y.user), NEW f \in y.names
        PROVE  db.factors[y.user] \ {f} # {}
    <3>1. y.user \in Members
      BY <1>0, <1>10 DEF Disable, At, OpOK, UserOps
    <3>2. KeepsASecondFactor([db EXCEPT !.factors[y.user] = @ \ {f}], y.user)
      BY <1>10, <2>0 DEF Disable, FactorRemoved
    <3>3. db.factors[y.user] \ {f} \in SUBSET Factors
      BY <1>0, <3>1 DEF Db
    <3> QED  BY <1>0, <2>0, <3>1, <3>2, <3>3, KeepsIff
  <2>1. ASSUME NEW x \in Tx,
               x.op = y.op, x.user = y.user, x.role = y.role, x.names = y.names,
               x.pc = "commit", x.locks = y.locks \cup {y.user}
        PROVE  RoleProtected(x, db) /\ UserProtected(x, db)
    BY <1>0, <1>10, <2>1, <2>0 DEF Disable, At, RoleProtected, UserProtected
  <2>2. Acquire(s, {y.user}, "commit") /\ UNCHANGED <<db, adminHistory>>
    BY <1>10 DEF Disable, LockRow
  <2>3. {y.user} \in SUBSET Lockable /\ "commit" \in Steps
    BY <1>0, <1>10 DEF Disable, At, OpOK, UserOps, RoleOps, Lockable, Steps
  <2> QED  BY <2>1, <2>2, <2>3, AcquireStep DEF Protected
<1>11. ASSUME ResetLock(s)
      PROVE  IInv'
  <2>1. ASSUME NEW x \in Tx,
               x.op = y.op, x.user = y.user, x.role = y.role, x.names = y.names,
               x.pc = "commit", x.locks = y.locks \cup {y.user}
        PROVE  RoleProtected(x, db) /\ UserProtected(x, db)
    BY <1>0, <1>11, <2>1 DEF ResetLock, At, RoleProtected, UserProtected
  <2>2. Acquire(s, {y.user}, "commit") /\ UNCHANGED <<db, adminHistory>>
    BY <1>11 DEF ResetLock, LockRow
  <2>3. {y.user} \in SUBSET Lockable /\ "commit" \in Steps
    BY <1>0, <1>11 DEF ResetLock, At, OpOK, UserOps, RoleOps, Lockable, Steps
  <2> QED  BY <2>1, <2>2, <2>3, AcquireStep DEF Protected
<1> QED  BY <1>1, <1>2, <1>3, <1>4, <1>5, <1>6, <1>7, <1>8, <1>9, <1>10, <1>11 DEF ForcePasswordReset

LEMMA DropStep ==
    ASSUME IInv, NEW s \in Txs, TxDrops(s)
    PROVE  IInv'
BY IdleOK, QuietStep DEF TxDrops, IInv

-----------------------------------------------------------------------------
(***************************************************************************)
(* Commits.                                                                *)
(***************************************************************************)
LEMMA CommitOK ==
    ASSUME IInv, NEW s \in Txs, NEW e \in Db, Commit(s, e), RoleRows(e),
           PermissionHeld(e, ROLES_MANAGE),
           \A u \in Members : KeepsASecondFactor(db, u) => KeepsASecondFactor(e, u),
           \A u \in Members : e.status[u] = "suspended" /\ u \in e.live =>
                                  db.status[u] = "suspended" /\ u \in db.live,
           \A t \in Txs \ {s} : Leaves(tx[t].locks, db, e)
    PROVE  IInv'
<1>1. db' = e /\ tx' = [tx EXCEPT ![s] = IdleTx] /\ late' = late \cap e.live /\ hurried' = hurried
  BY DEF Commit
<1>2. \A u \in Members \ hurried' : KeepsASecondFactor(e, u)
  BY <1>1 DEF IInv, AdministratorsHaveASecondFactor
<1>3. \A u \in Members : e.status[u] = "suspended" => u \notin e.live \ late'
  BY <1>1 DEF IInv, SuspensionSignsOut
<1> QED  BY <1>1, <1>2, <1>3, CommitStep

\* What one transaction has locked no other has.
LEMMA OthersNot ==
    ASSUME IInv, NEW s \in Txs, NEW t \in Txs \ {s}, NEW k \in tx[s].locks
    PROVE  k \notin tx[t].locks
BY DEF IInv, LocksExclusive

\* A commit that touches neither roles nor who holds them, and suspends nobody.
LEMMA SameRoles ==
    ASSUME NEW d \in Db, NEW e \in Db, RoleRows(d), PermissionHeld(d, ROLES_MANAGE),
           e.grants = d.grants, e.holds = d.holds, e.roles = d.roles,
           \A u \in Members : d.status[u] = "active" => e.status[u] = "active"
    PROVE  /\ RoleRows(e) /\ PermissionHeld(e, ROLES_MANAGE)
           /\ \A u \in Members : HoldsAdministration(e, u) <=> HoldsAdministration(d, u)
           /\ \A L : (\A u \in Members \cap L : d.factors[u] \subseteq e.factors[u]) => Leaves(L, d, e)
<1>1. RoleRows(e)
  BY DEF RoleRows
<1>2. PermissionHeld(e, ROLES_MANAGE)
  BY HeldByActive
<1>3. \A u \in Members : Held(e, u) = Held(d, u) /\ (HoldsAdministration(e, u) <=> HoldsAdministration(d, u))
  BY HeldSame
<1>4. ASSUME NEW L, \A u \in Members \cap L : d.factors[u] \subseteq e.factors[u]
      PROVE  Leaves(L, d, e)
  BY <1>3, <1>4 DEF Leaves, HoldersOf
<1> QED  BY <1>1, <1>2, <1>3, <1>4

LEMMA SameRolesCommit ==
    ASSUME IInv, NEW s \in Txs, NEW e \in Db, Commit(s, e),
           e.grants = db.grants, e.holds = db.holds, e.roles = db.roles,
           \A u \in Members : db.status[u] = "active" => e.status[u] = "active",
           \A u \in Members : db.factors[u] \subseteq e.factors[u] \/ u \in tx[s].locks,
           \A u \in Members : HoldsAdministration(db, u) /\ db.factors[u] # {} => e.factors[u] # {},
           \A u \in Members : e.status[u] = "suspended" /\ u \in e.live =>
                                  db.status[u] = "suspended" /\ u \in db.live
    PROVE  IInv'
<1>0. db \in Db /\ RoleRows(db) /\ PermissionHeld(db, ROLES_MANAGE)
  BY DEF IInv, Typed, AnAdministratorRemains
<1>1. /\ RoleRows(e) /\ PermissionHeld(e, ROLES_MANAGE)
      /\ \A u \in Members : HoldsAdministration(e, u) <=> HoldsAdministration(db, u)
      /\ \A L : (\A u \in Members \cap L : db.factors[u] \subseteq e.factors[u]) => Leaves(L, db, e)
  BY <1>0, SameRoles
<1>2. ASSUME NEW t \in Txs \ {s} PROVE Leaves(tx[t].locks, db, e)
  BY <1>1, OthersNot
<1>3. \A u \in Members : KeepsASecondFactor(db, u) => KeepsASecondFactor(e, u)
  BY <1>1 DEF KeepsASecondFactor, HasSecondFactor
<1> QED  BY <1>1, <1>2, <1>3, CommitOK

LEMMA SimpleCommits ==
    ASSUME IInv, NEW s \in Txs
    PROVE  /\ Reactivate(s) => IInv'
           /\ RevokeSessions(s) => IInv'
           /\ ForcePasswordResetCommit(s) => IInv'
           /\ RemoveAccessFactorsCommit(s) => IInv'
           /\ DisableCommit(s) => IInv'
           /\ EnrolCommit(s) => IInv'
<1> DEFINE y == tx[s]
<1>0. y \in Tx /\ OpOK(y) /\ RoleProtected(y, db) /\ UserProtected(y, db) /\ db \in Db
  BY DEF IInv, Typed, Protected
<1>1. ASSUME Reactivate(s)
      PROVE  IInv'
  <2> DEFINE e == Reactivated(db, y.user)
  <2>1. y.user \in Members /\ Commit(s, e)
    BY <1>0, <1>1 DEF Reactivate, At, OpOK, UserOps
  <2>2. /\ e \in Db /\ e.roles = db.roles /\ e.grants = db.grants /\ e.holds = db.holds
        /\ e.factors = db.factors /\ e.live = db.live
        /\ \A v \in Members : e.status[v] = IF v = y.user THEN "active" ELSE db.status[v]
    BY <1>0, <2>1, ReactivatedFields
  <2> HIDE DEF e
  <2> QED  BY <2>1, <2>2, SameRolesCommit
<1>2. ASSUME Commit(s, SessionsRevoked(db, y.user)), y.user \in Members
      PROVE  IInv'
  <2> DEFINE e == SessionsRevoked(db, y.user)
  <2>2. /\ e \in Db /\ e.status = db.status /\ e.roles = db.roles /\ e.grants = db.grants
        /\ e.holds = db.holds /\ e.factors = db.factors /\ e.live = db.live \ {y.user}
    BY <1>0, <1>2, RevokedFields
  <2> HIDE DEF e
  <2>3. Commit(s, e)
    BY <1>2 DEF e
  <2> QED  BY <2>2, <2>3, SameRolesCommit
<1>3. RevokeSessions(s) => IInv'
  BY <1>0, <1>2 DEF RevokeSessions, At, OpOK, UserOps
<1>4. ASSUME Commit(s, AccessFactorsDropped(SessionsRevoked(db, y.user), y.user)),
             y.user \in Members, y.user \in y.locks, ~HoldsAdministration(db, y.user)
      PROVE  IInv'
  <2> DEFINE d == SessionsRevoked(db, y.user)
             e == AccessFactorsDropped(d, y.user)
  <2>2. /\ d \in Db /\ d.status = db.status /\ d.roles = db.roles /\ d.grants = db.grants
        /\ d.holds = db.holds /\ d.factors = db.factors /\ d.live = db.live \ {y.user}
    BY <1>0, <1>4, RevokedFields
  <2> HIDE DEF d
  <2>3. /\ e \in Db /\ e.status = d.status /\ e.roles = d.roles /\ e.grants = d.grants
        /\ e.holds = d.holds /\ e.live = d.live
        /\ \A v \in Members : e.factors[v] = IF v = y.user THEN {} ELSE d.factors[v]
    BY <1>4, <2>2 DEF AccessFactorsDropped, Db
  <2>4. Commit(s, e)
    BY <1>4 DEF d
  <2> HIDE DEF e
  <2> QED  BY <1>4, <2>2, <2>3, <2>4, SameRolesCommit
<1>5. ForcePasswordResetCommit(s) => IInv'
  BY <1>0, <1>2, <1>4 DEF ForcePasswordResetCommit, At, OpOK, UserOps, UserProtected
<1>6. RemoveAccessFactorsCommit(s) => IInv'
  BY <1>0, <1>4 DEF RemoveAccessFactorsCommit, At, OpOK, UserOps, UserProtected
<1>7. ASSUME DisableCommit(s)
      PROVE  IInv'
  <2>1. PICK f \in y.names : Commit(s, FactorRemoved(db, y.user, f))
    BY <1>7 DEF DisableCommit
  <2> DEFINE e == FactorRemoved(db, y.user, f)
  <2>2. y.user \in Members /\ y.user \in y.locks
    BY <1>0, <1>7 DEF DisableCommit, At, OpOK, UserOps, UserProtected
  <2>3. /\ e \in Db /\ e.status = db.status /\ e.roles = db.roles /\ e.grants = db.grants
        /\ e.holds = db.holds /\ e.live = db.live
        /\ \A v \in Members : e.factors[v] = IF v = y.user THEN db.factors[v] \ {f} ELSE db.factors[v]
    BY <1>0, <2>2 DEF FactorRemoved, Db
  <2>4. HoldsAdministration(db, y.user) => db.factors[y.user] \ {f} # {}
    BY <1>0, <1>7 DEF DisableCommit, At, UserProtected
  <2>5. Commit(s, e)
    BY <2>1
  <2> HIDE DEF e
  <2> QED  BY <2>2, <2>3, <2>4, <2>5, SameRolesCommit
<1>8. ASSUME EnrolCommit(s)
      PROVE  IInv'
  <2> DEFINE e == [db EXCEPT !.factors[y.user] = @ \cup y.names]
  <2>1. y.user \in Members /\ y.names \subseteq Factors /\ Commit(s, e)
    BY <1>0, <1>8 DEF EnrolCommit, At, OpOK, UserOps
  <2>2. /\ e \in Db /\ e.status = db.status /\ e.roles = db.roles /\ e.grants = db.grants
        /\ e.holds = db.holds /\ e.live = db.live
        /\ \A v \in Members : db.factors[v] \subseteq e.factors[v]
    BY <1>0, <2>1 DEF Db
  <2> HIDE DEF e
  <2> QED  BY <2>1, <2>2, SameRolesCommit
<1> QED  BY <1>1, <1>3, <1>5, <1>6, <1>7, <1>8

LEMMA FactorsResetCommit ==
    ASSUME IInv, NEW s \in Txs, ResetByLinkCommit(s)
    PROVE  IInv'
<1> DEFINE y == tx[s]
<1>0. y \in Tx /\ OpOK(y) /\ RoleProtected(y, db) /\ UserProtected(y, db) /\ db \in Db
  BY DEF IInv, Typed, Protected
<1>1. y.user \in Members /\ y.user \in y.locks
  BY <1>0 DEF ResetByLinkCommit, At, OpOK, UserOps, UserProtected
<1> DEFINE older == db.factors[y.user] \ y.names
<1>2. PICK kept \in IF HoldsAdministration(db, y.user) /\ older = {} /\ db.factors[y.user] # {}
                    THEN {{f} : f \in db.factors[y.user]} ELSE {{}} :
             Commit(s, SessionsRevoked([db EXCEPT !.factors[y.user] = older \cup kept], y.user))
  BY DEF ResetByLinkCommit, DroppedSince
<1> DEFINE left == older \cup kept
           d == [db EXCEPT !.factors[y.user] = left]
           e == SessionsRevoked(d, y.user)
<1>3. left \in SUBSET Factors
  BY <1>0, <1>1, <1>2 DEF Db
<1>4. HoldsAdministration(db, y.user) /\ db.factors[y.user] # {} => left # {}
  BY <1>2
<1> HIDE DEF left
<1>5. /\ d \in Db /\ d.status = db.status /\ d.roles = db.roles /\ d.grants = db.grants
      /\ d.holds = db.holds /\ d.live = db.live
      /\ \A v \in Members : d.factors[v] = IF v = y.user THEN left ELSE db.factors[v]
  BY <1>0, <1>1, <1>3 DEF Db
<1> HIDE DEF d
<1>6. /\ e \in Db /\ e.status = d.status /\ e.roles = d.roles /\ e.grants = d.grants
      /\ e.holds = d.holds /\ e.factors = d.factors /\ e.live = d.live \ {y.user}
  BY <1>1, <1>5, RevokedFields
<1>7. Commit(s, e)
  BY <1>2 DEF left, d
<1> HIDE DEF e
<1> QED  BY <1>1, <1>4, <1>5, <1>6, <1>7, SameRolesCommit

LEMMA SignInStep ==
    ASSUME IInv, NEW s \in Txs, SignInCommit(s)
    PROVE  IInv'
<1> DEFINE y == tx[s]
<1>0. y \in Tx /\ OpOK(y) /\ RoleProtected(y, db) /\ UserProtected(y, db) /\ db \in Db
  BY DEF IInv, Typed, Protected
<1> DEFINE e == [db EXCEPT !.live = @ \cup {y.user}]
<1>1. /\ y.user \in Members /\ db' = e /\ tx' = [tx EXCEPT ![s] = IdleTx] /\ hurried' = hurried
      /\ late' = IF db.status[y.user] = "active" THEN late ELSE late \cup {y.user}
  BY <1>0 DEF SignInCommit, At, OpOK, UserOps
<1>2. /\ e \in Db /\ e.status = db.status /\ e.roles = db.roles /\ e.grants = db.grants
      /\ e.holds = db.holds /\ e.factors = db.factors /\ e.live = db.live \cup {y.user}
  BY <1>0, <1>1 DEF Db
<1> HIDE DEF e
<1>3. /\ RoleRows(e) /\ PermissionHeld(e, ROLES_MANAGE)
      /\ \A u \in Members : HoldsAdministration(e, u) <=> HoldsAdministration(db, u)
      /\ \A L : Leaves(L, db, e)
  BY <1>0, <1>2, SameRoles DEF IInv, AnAdministratorRemains
<1>4. \A u \in Members \ hurried' : KeepsASecondFactor(e, u)
  BY <1>1, <1>2, <1>3 DEF IInv, AdministratorsHaveASecondFactor, KeepsASecondFactor, HasSecondFactor
<1>5. \A u \in Members : e.status[u] = "suspended" => u \notin e.live \ late'
  BY <1>1, <1>2 DEF IInv, SuspensionSignsOut
<1> QED  BY <1>1, <1>2, <1>3, <1>4, <1>5, CommitStep

\* Held grows by nothing: whoever had a second factor has one if the factors stay.
LEMMA LessHeld ==
    ASSUME NEW d \in Db, NEW e \in Db, NEW u \in Members, KeepsASecondFactor(d, u),
           \A p \in ADMIN_PERMISSIONS : p \in Held(e, u) => p \in Held(d, u),
           d.factors[u] \subseteq e.factors[u]
    PROVE  KeepsASecondFactor(e, u)
BY AdministrationIff DEF KeepsASecondFactor, HasSecondFactor

LEMMA CreateStep ==
    ASSUME IInv, NEW s \in Txs, Create(s)
    PROVE  IInv'
<1> DEFINE y == tx[s]
<1>0. y \in Tx /\ OpOK(y) /\ RoleProtected(y, db) /\ UserProtected(y, db) /\ db \in Db /\ RoleRows(db)
  BY DEF IInv, Typed, Protected
<1> DEFINE d == RoleCreated(db, y.role)
           e == PermissionsSet(d, y.role, y.names)
<1>1. /\ y.role \in Roles /\ y.names \in SUBSET Permissions /\ y.role \notin db.roles
      /\ Commit(s, e)
  BY <1>0 DEF Create, At, OpOK, RoleOps, RoleThere
<1>2. /\ d \in Db /\ d.status = db.status /\ d.roles = db.roles \cup {y.role} /\ d.holds = db.holds
      /\ d.factors = db.factors /\ d.live = db.live /\ d.grants = db.grants
  BY <1>0, <1>1, RoleCreatedFields
<1> HIDE DEF d
<1>3. /\ e \in Db /\ e.status = d.status /\ e.roles = d.roles /\ e.holds = d.holds
      /\ e.factors = d.factors /\ e.live = d.live
      /\ \A q \in Roles : e.grants[q] = IF q = y.role THEN y.names ELSE d.grants[q]
  BY <1>1, <1>2, PermissionsSetFields
<1> HIDE DEF e
<1>4. db.grants[y.role] = {} /\ \A u \in Members : <<u, y.role>> \notin db.holds
  BY <1>0, <1>1 DEF RoleRows
<1>5. ASSUME NEW u \in Members, NEW p PROVE p \in Held(e, u) <=> p \in Held(db, u)
  <2>1. p \in Held(e, u) <=> \E r \in Roles : <<u, r>> \in e.holds /\ p \in e.grants[r]
    BY <1>3, HeldIff
  <2>2. p \in Held(db, u) <=> \E r \in Roles : <<u, r>> \in db.holds /\ p \in db.grants[r]
    BY <1>0, HeldIff
  <2> QED  BY <1>2, <1>3, <1>4, <2>1, <2>2
<1>6. RoleRows(e)
  BY <1>0, <1>1, <1>2, <1>3 DEF RoleRows
<1>7. PermissionHeld(e, ROLES_MANAGE)
  BY <1>2, <1>3, <1>5 DEF PermissionHeld, IInv, AnAdministratorRemains
<1>8. \A u \in Members : KeepsASecondFactor(db, u) => KeepsASecondFactor(e, u)
  BY <1>0, <1>2, <1>3, <1>5, LessHeld
<1>9. ASSUME NEW t \in Txs \ {s} PROVE Leaves(tx[t].locks, db, e)
  BY <1>1, <1>2, <1>3, <1>4, <1>5 DEF Leaves, HoldersOf
<1> QED  BY <1>1, <1>2, <1>3, <1>6, <1>7, <1>8, <1>9, CommitOK

LEMMA SetPermissionsStep ==
    ASSUME IInv, NEW s \in Txs, SetPermissionsCommit(s)
    PROVE  IInv'
<1> DEFINE y == tx[s]
<1>0. y \in Tx /\ OpOK(y) /\ RoleProtected(y, db) /\ UserProtected(y, db) /\ db \in Db /\ RoleRows(db)
  BY DEF IInv, Typed, Protected
<1> DEFINE e == PermissionsSet(db, y.role, y.names)
<1>1. /\ y.op = "permissions" /\ y.pc = "commit" /\ y.role \in Roles /\ y.names \in SUBSET Permissions
      /\ Commit(s, e)
  BY <1>0 DEF SetPermissionsCommit, At, OpOK, RoleOps
<1>2. /\ y.role \in y.locks /\ y.role \in db.roles /\ GUARD \in y.locks
      /\ PermissionHeld(e, ROLES_MANAGE)
  BY <1>0, <1>1, OutcomeCases DEF RoleProtected, Guarded
<1>3. /\ e \in Db /\ e.status = db.status /\ e.roles = db.roles /\ e.holds = db.holds
      /\ e.factors = db.factors /\ e.live = db.live
      /\ \A q \in Roles : e.grants[q] = IF q = y.role THEN y.names ELSE db.grants[q]
  BY <1>0, <1>1, PermissionsSetFields
<1> HIDE DEF e
<1>4. ASSUME NEW u \in Members, NEW p \in ADMIN_PERMISSIONS, p \in Held(e, u), p \notin Held(db, u)
      PROVE  u \in y.locks /\ HasSecondFactor(db, u)
  <2>1. PICK r \in Roles : <<u, r>> \in e.holds /\ p \in e.grants[r]
    BY <1>3, <1>4, HeldIff
  <2>2. ~(<<u, r>> \in db.holds /\ p \in db.grants[r])
    BY <1>0, <1>4, HeldIff
  <2>3. r = y.role /\ p \in y.names \ db.grants[y.role] /\ u \in HoldersOf(db, y.role)
    BY <1>3, <2>1, <2>2 DEF HoldersOf
  <2> QED  BY <1>0, <1>1, <1>4, <2>3 DEF RoleProtected
<1>5. RoleRows(e)
  BY <1>0, <1>2, <1>3 DEF RoleRows
<1>6. ASSUME NEW u \in Members, KeepsASecondFactor(db, u) PROVE KeepsASecondFactor(e, u)
  <2>1. CASE \A p \in ADMIN_PERMISSIONS : p \in Held(e, u) => p \in Held(db, u)
    BY <1>0, <1>3, <1>6, <2>1, LessHeld
  <2>2. CASE \E p \in ADMIN_PERMISSIONS : p \in Held(e, u) /\ p \notin Held(db, u)
    BY <1>3, <1>4, <2>2 DEF KeepsASecondFactor, HasSecondFactor
  <2> QED  BY <2>1, <2>2
<1>7. ASSUME NEW t \in Txs \ {s} PROVE Leaves(tx[t].locks, db, e)
  <2>1. y.role \notin tx[t].locks /\ GUARD \notin tx[t].locks
    BY <1>2, OthersNot
  <2>2. ASSUME NEW u \in Members \cap tx[t].locks
        PROVE  Held(e, u) \cap ADMIN_PERMISSIONS \subseteq Held(db, u)
    BY <1>4, OthersNot
  <2> QED  BY <1>3, <2>1, <2>2 DEF Leaves, HoldersOf
<1> QED  BY <1>1, <1>2, <1>3, <1>5, <1>6, <1>7, CommitOK

LEMMA DeleteRoleStep ==
    ASSUME IInv, NEW s \in Txs, DeleteRoleCommit(s)
    PROVE  IInv'
<1> DEFINE y == tx[s]
<1>0. y \in Tx /\ OpOK(y) /\ RoleProtected(y, db) /\ UserProtected(y, db) /\ db \in Db /\ RoleRows(db)
  BY DEF IInv, Typed, Protected
<1> DEFINE e == RoleDeleted(db, y.role)
<1>1. /\ y.op = "delete_role" /\ y.pc = "commit" /\ y.role \in Roles /\ Commit(s, e)
  BY <1>0 DEF DeleteRoleCommit, At, OpOK, RoleOps
<1>2. /\ y.role \in y.locks /\ GUARD \in y.locks /\ PermissionHeld(e, ROLES_MANAGE)
  BY <1>0, <1>1, OutcomeCases DEF RoleProtected, Guarded
<1>3. /\ e \in Db /\ e.status = db.status /\ e.roles = db.roles \ {y.role}
      /\ e.factors = db.factors /\ e.live = db.live
      /\ \A q \in Roles : e.grants[q] = IF q = y.role THEN {} ELSE db.grants[q]
      /\ \A u \in Members, q \in Roles : <<u, q>> \in e.holds <=> <<u, q>> \in db.holds /\ q # y.role
  BY <1>0, <1>1, RoleDeletedFields
<1> HIDE DEF e
<1>4. ASSUME NEW u \in Members, NEW p, p \in Held(e, u) PROVE p \in Held(db, u)
  <2>1. PICK r \in Roles : <<u, r>> \in e.holds /\ p \in e.grants[r]
    BY <1>3, <1>4, HeldIff
  <2>2. <<u, r>> \in db.holds /\ p \in db.grants[r]
    BY <1>3, <2>1
  <2> QED  BY <1>0, <2>2, HeldIff
<1>5. RoleRows(e)
  BY <1>0, <1>2, <1>3 DEF RoleRows
<1>6. \A u \in Members : KeepsASecondFactor(db, u) => KeepsASecondFactor(e, u)
  BY <1>0, <1>3, <1>4, LessHeld
<1>7. ASSUME NEW t \in Txs \ {s} PROVE Leaves(tx[t].locks, db, e)
  <2>1. y.role \notin tx[t].locks /\ GUARD \notin tx[t].locks
    BY <1>2, OthersNot
  <2> QED  BY <1>3, <1>4, <2>1 DEF Leaves, HoldersOf
<1> QED  BY <1>1, <1>2, <1>3, <1>5, <1>6, <1>7, CommitOK

LEMMA UnassignStep ==
    ASSUME IInv, NEW s \in Txs, UnassignCommit(s)
    PROVE  IInv'
<1> DEFINE y == tx[s]
<1>0. y \in Tx /\ OpOK(y) /\ RoleProtected(y, db) /\ UserProtected(y, db) /\ db \in Db /\ RoleRows(db)
  BY DEF IInv, Typed, Protected
<1> DEFINE e == Unassigned(db, y.user, y.role)
<1>1. /\ y.op = "unassign" /\ y.pc = "commit" /\ y.role \in Roles /\ y.user \in Members /\ Commit(s, e)
  BY <1>0 DEF UnassignCommit, At, OpOK, RoleOps, UserOps
<1>2. /\ y.role \in y.locks /\ GUARD \in y.locks /\ PermissionHeld(e, ROLES_MANAGE)
  BY <1>0, <1>1, OutcomeCases DEF RoleProtected, Guarded
<1>3. /\ e \in Db /\ e.status = db.status /\ e.roles = db.roles /\ e.grants = db.grants
      /\ e.factors = db.factors /\ e.live = db.live
      /\ \A u \in Members, q \in Roles :
           <<u, q>> \in e.holds <=> <<u, q>> \in db.holds /\ ~(u = y.user /\ q = y.role)
  BY <1>0, <1>1, UnassignedFields
<1> HIDE DEF e
<1>4. ASSUME NEW u \in Members, NEW p, p \in Held(e, u) PROVE p \in Held(db, u)
  BY <1>0, <1>3, <1>4, HeldIff
<1>5. RoleRows(e)
  BY <1>0, <1>2, <1>3 DEF RoleRows
<1>6. \A u \in Members : KeepsASecondFactor(db, u) => KeepsASecondFactor(e, u)
  BY <1>0, <1>3, <1>4, LessHeld
<1>7. ASSUME NEW t \in Txs \ {s} PROVE Leaves(tx[t].locks, db, e)
  <2>1. y.role \notin tx[t].locks /\ GUARD \notin tx[t].locks
    BY <1>2, OthersNot
  <2> QED  BY <1>3, <1>4, <2>1 DEF Leaves, HoldersOf
<1> QED  BY <1>1, <1>2, <1>3, <1>5, <1>6, <1>7, CommitOK

\* A role given to an account: who gains administration by it, and what stays.
LEMMA AssignedOK ==
    ASSUME NEW d \in Db, NEW u \in Members, NEW r \in Roles, NEW e, e = AssignedToUser(d, u, r),
           RoleRows(d), r \in d.roles, PermissionHeld(d, ROLES_MANAGE)
    PROVE  /\ e \in Db /\ e.status = d.status /\ e.live = d.live
           /\ RoleRows(e) /\ PermissionHeld(e, ROLES_MANAGE)
           /\ \A v \in Members : v # u \/ ~GrantsAdministration(d, r) \/ HasSecondFactor(d, u) =>
                  (KeepsASecondFactor(d, v) => KeepsASecondFactor(e, v))
           /\ \A L : u \notin L /\ r \notin L => Leaves(L, d, e)
<1>1. /\ e \in Db /\ e.status = d.status /\ e.roles = d.roles /\ e.grants = d.grants
      /\ e.factors = d.factors /\ e.live = d.live
      /\ \A v \in Members, q \in Roles :
           <<v, q>> \in e.holds <=> <<v, q>> \in d.holds \/ (v = u /\ q = r)
  BY AssignedFields
<1>2. RoleRows(e)
  BY <1>1 DEF RoleRows
<1>3. PermissionHeld(e, ROLES_MANAGE)
  <2>1. PICK v \in Members, q \in Roles :
               d.status[v] = "active" /\ <<v, q>> \in d.holds /\ ROLES_MANAGE \in d.grants[q]
    BY HeldByActive
  <2>2. e.status[v] = "active" /\ <<v, q>> \in e.holds /\ ROLES_MANAGE \in e.grants[q]
    BY <1>1, <2>1
  <2> QED  BY <1>1, <2>2, HeldByActive
<1>4. ASSUME NEW v \in Members, NEW p, p \in Held(e, v), p \notin Held(d, v)
      PROVE  v = u /\ p \in d.grants[r]
  <2>1. PICK q \in Roles : <<v, q>> \in e.holds /\ p \in e.grants[q]
    BY <1>1, <1>4, HeldIff
  <2>2. ~(<<v, q>> \in d.holds /\ p \in d.grants[q])
    BY <1>4, HeldIff
  <2> QED  BY <1>1, <2>1, <2>2
<1>5. ASSUME NEW v \in Members, v # u \/ ~GrantsAdministration(d, r) \/ HasSecondFactor(d, u),
             KeepsASecondFactor(d, v)
      PROVE  KeepsASecondFactor(e, v)
  <2>1. CASE \A p \in ADMIN_PERMISSIONS : p \in Held(e, v) => p \in Held(d, v)
    BY <1>1, <1>5, <2>1, LessHeld
  <2>2. CASE \E p \in ADMIN_PERMISSIONS : p \in Held(e, v) /\ p \notin Held(d, v)
    <3>1. v = u /\ GrantsAdministration(d, r)
      BY <1>4, <2>2 DEF GrantsAdministration
    <3> QED  BY <1>1, <1>5, <3>1 DEF KeepsASecondFactor, HasSecondFactor
  <2> QED  BY <2>1, <2>2
<1>6. ASSUME NEW L, u \notin L, r \notin L PROVE Leaves(L, d, e)
  <2>1. \A v \in Members \cap L : Held(e, v) \cap ADMIN_PERMISSIONS \subseteq Held(d, v)
    BY <1>4, <1>6
  <2> QED  BY <1>1, <1>6, <2>1 DEF Leaves, HoldersOf
<1> QED  BY <1>1, <1>2, <1>3, <1>5, <1>6

LEMMA AssignStep ==
    ASSUME IInv, NEW s \in Txs, AssignCommit(s)
    PROVE  IInv'
<1> DEFINE y == tx[s]
<1>0. y \in Tx /\ OpOK(y) /\ RoleProtected(y, db) /\ UserProtected(y, db) /\ db \in Db /\ RoleRows(db)
  BY DEF IInv, Typed, Protected
<1> DEFINE e == AssignedToUser(db, y.user, y.role)
<1>1. /\ y.op = "assign" /\ y.pc = "commit" /\ y.role \in Roles /\ y.user \in Members /\ Commit(s, e)
  BY <1>0 DEF AssignCommit, At, OpOK, RoleOps, UserOps
<1>2. /\ y.role \in y.locks /\ y.user \in y.locks /\ y.role \in db.roles
      /\ GrantsAdministration(db, y.role) => HasSecondFactor(db, y.user)
  BY <1>0, <1>1 DEF RoleProtected
<1>3. /\ e \in Db /\ e.status = db.status /\ e.live = db.live
      /\ RoleRows(e) /\ PermissionHeld(e, ROLES_MANAGE)
      /\ \A v \in Members : v # y.user \/ ~GrantsAdministration(db, y.role) \/ HasSecondFactor(db, y.user) =>
             (KeepsASecondFactor(db, v) => KeepsASecondFactor(e, v))
      /\ \A L : y.user \notin L /\ y.role \notin L => Leaves(L, db, e)
  BY <1>0, <1>1, <1>2, AssignedOK DEF IInv, AnAdministratorRemains
<1> HIDE DEF e
<1>4. ASSUME NEW t \in Txs \ {s} PROVE Leaves(tx[t].locks, db, e)
  BY <1>2, <1>3, OthersNot
<1> QED  BY <1>1, <1>2, <1>3, <1>4, CommitOK

LEMMA GrantRoleStep ==
    ASSUME IInv, NEW s \in Txs, GrantRoleCommit(s)
    PROVE  IInv'
<1> DEFINE y == tx[s]
<1>0. y \in Tx /\ OpOK(y) /\ RoleProtected(y, db) /\ UserProtected(y, db) /\ db \in Db /\ RoleRows(db)
  BY DEF IInv, Typed, Protected
<1> DEFINE e == AssignedToUser(db, y.user, y.role)
<1>1. /\ y.op = "cli" /\ y.role \in Roles /\ y.user \in Members /\ y.role \in db.roles
      /\ db' = e /\ tx' = [tx EXCEPT ![s] = IdleTx] /\ late' = late
      /\ hurried' = IF y.pc = "plain" /\ GrantsAdministration(db, y.role)
                    THEN hurried \cup {y.user} ELSE hurried
      /\ y.pc \in {"commit", "plain"}
      /\ \A t \in Txs \ {s} : y.role \notin tx[t].locks
  BY <1>0 DEF GrantRoleCommit, OpOK, RoleOps, UserOps, RoleThere
<1>2. y.user \in y.locks /\ (y.pc = "commit" => HasSecondFactor(db, y.user))
  BY <1>0, <1>1 DEF RoleProtected
<1>3. /\ e \in Db /\ e.status = db.status /\ e.live = db.live
      /\ RoleRows(e) /\ PermissionHeld(e, ROLES_MANAGE)
      /\ \A v \in Members : v # y.user \/ ~GrantsAdministration(db, y.role) \/ HasSecondFactor(db, y.user) =>
             (KeepsASecondFactor(db, v) => KeepsASecondFactor(e, v))
      /\ \A L : y.user \notin L /\ y.role \notin L => Leaves(L, db, e)
  BY <1>0, <1>1, AssignedOK DEF IInv, AnAdministratorRemains
<1> HIDE DEF e
<1>4. ASSUME NEW t \in Txs \ {s} PROVE Leaves(tx[t].locks, db, e)
  BY <1>1, <1>2, <1>3, OthersNot
<1>5. \A u \in Members \ hurried' : KeepsASecondFactor(e, u)
  BY <1>1, <1>2, <1>3 DEF IInv, AdministratorsHaveASecondFactor
<1>6. \A u \in Members : e.status[u] = "suspended" => u \notin e.live \ late'
  BY <1>1, <1>3 DEF IInv, SuspensionSignsOut
<1> QED  BY <1>1, <1>3, <1>4, <1>5, <1>6, CommitStep

LEMMA SuspendStep ==
    ASSUME IInv, NEW s \in Txs, SuspendCommit(s)
    PROVE  IInv'
<1> DEFINE y == tx[s]
<1>0. y \in Tx /\ OpOK(y) /\ RoleProtected(y, db) /\ UserProtected(y, db) /\ db \in Db /\ RoleRows(db)
  BY DEF IInv, Typed, Protected
<1> DEFINE d == Suspended(db, y.user)
           e == SessionsRevoked(d, y.user)
<1>1. /\ y.op = "suspend" /\ y.pc = "commit" /\ y.user \in Members /\ Commit(s, e)
  BY <1>0 DEF SuspendCommit, At, OpOK, UserOps
<1>2. /\ y.user \in y.locks
      /\ (GUARD \in y.locks /\ PermissionHeld(d, ROLES_MANAGE)) \/ ROLES_MANAGE \notin Held(db, y.user)
  BY <1>0, <1>1, OutcomeCases DEF UserProtected, Guarded
<1>3. /\ d \in Db /\ d.roles = db.roles /\ d.grants = db.grants /\ d.holds = db.holds
      /\ d.factors = db.factors /\ d.live = db.live
      /\ \A v \in Members : d.status[v] = IF v = y.user THEN "suspended" ELSE db.status[v]
  BY <1>0, <1>1, SuspendedFields
<1> HIDE DEF d
<1>4. /\ e \in Db /\ e.status = d.status /\ e.roles = d.roles /\ e.grants = d.grants
      /\ e.holds = d.holds /\ e.factors = d.factors /\ e.live = d.live \ {y.user}
  BY <1>1, <1>3, RevokedFields
<1> HIDE DEF e
<1>5. \A u \in Members : /\ Held(e, u) = Held(db, u) /\ Held(d, u) = Held(db, u)
                         /\ HoldsAdministration(e, u) <=> HoldsAdministration(db, u)
  BY <1>0, <1>3, <1>4, HeldSame
<1>6. RoleRows(e)
  BY <1>0, <1>3, <1>4 DEF RoleRows
<1>7. PermissionHeld(e, ROLES_MANAGE)
  <2>1. PICK u \in Members : u # y.user /\ db.status[u] = "active" /\ ROLES_MANAGE \in Held(db, u)
    BY <1>2, <1>3, <1>5 DEF PermissionHeld, IInv, AnAdministratorRemains
  <2> QED  BY <1>3, <1>4, <1>5, <2>1 DEF PermissionHeld
<1>8. \A u \in Members : KeepsASecondFactor(db, u) => KeepsASecondFactor(e, u)
  BY <1>3, <1>4, <1>5 DEF KeepsASecondFactor, HasSecondFactor
<1>9. ASSUME NEW t \in Txs \ {s} PROVE Leaves(tx[t].locks, db, e)
  <2>1. /\ y.user \notin tx[t].locks
        /\ GUARD \in tx[t].locks => ROLES_MANAGE \notin Held(db, y.user)
    BY <1>2, OthersNot
  <2> QED  BY <1>3, <1>4, <1>5, <2>1 DEF Leaves, HoldersOf
<1> QED  BY <1>1, <1>3, <1>4, <1>6, <1>7, <1>8, <1>9, CommitOK

LEMMA EraseStep ==
    ASSUME IInv, NEW s \in Txs, EraseTxCommit(s)
    PROVE  IInv'
<1> DEFINE y == tx[s]
<1>0. y \in Tx /\ OpOK(y) /\ RoleProtected(y, db) /\ UserProtected(y, db) /\ db \in Db /\ RoleRows(db)
  BY DEF IInv, Typed, Protected
<1> DEFINE e == WithoutUser(db, y.user)
<1>1. /\ y.op = "erase" /\ y.pc = "commit" /\ y.user \in Members /\ Commit(s, e)
  BY <1>0 DEF EraseTxCommit, At, OpOK, UserOps
<1>2. /\ y.user \in y.locks
      /\ (GUARD \in y.locks /\ PermissionHeld(e, ROLES_MANAGE)) \/ ROLES_MANAGE \notin Held(db, y.user)
  BY <1>0, <1>1, OutcomeCases DEF UserProtected, Guarded
<1>3. /\ e \in Db /\ e.roles = db.roles /\ e.grants = db.grants /\ e.live = db.live \ {y.user}
      /\ \A v \in Members : e.status[v] = IF v = y.user THEN "gone" ELSE db.status[v]
      /\ \A v \in Members : e.factors[v] = IF v = y.user THEN {} ELSE db.factors[v]
      /\ \A v \in Members, q \in Roles : <<v, q>> \in e.holds <=> <<v, q>> \in db.holds /\ v # y.user
  BY <1>0, <1>1, WithoutUserFields
<1> HIDE DEF e
<1>4. ASSUME NEW u \in Members, NEW p
      PROVE  p \in Held(e, u) <=> u # y.user /\ p \in Held(db, u)
  <2>1. p \in Held(e, u) <=> \E r \in Roles : <<u, r>> \in e.holds /\ p \in e.grants[r]
    BY <1>3, HeldIff
  <2>2. p \in Held(db, u) <=> \E r \in Roles : <<u, r>> \in db.holds /\ p \in db.grants[r]
    BY <1>0, HeldIff
  <2> QED  BY <1>3, <2>1, <2>2
<1>5. RoleRows(e)
  BY <1>0, <1>3 DEF RoleRows
<1>6. PermissionHeld(e, ROLES_MANAGE)
  <2>1. CASE ROLES_MANAGE \notin Held(db, y.user)
    <3>1. PICK u \in Members : u # y.user /\ db.status[u] = "active" /\ ROLES_MANAGE \in Held(db, u)
      BY <2>1 DEF PermissionHeld, IInv, AnAdministratorRemains
    <3> QED  BY <1>3, <1>4, <3>1 DEF PermissionHeld
  <2> QED  BY <1>2, <2>1
<1>7. ASSUME NEW u \in Members, KeepsASecondFactor(db, u) PROVE KeepsASecondFactor(e, u)
  <2>1. CASE u = y.user
    <3>1. ~HoldsAdministration(e, u)
      BY <1>3, <1>4, <2>1, AdministrationIff
    <3> QED  BY <3>1 DEF KeepsASecondFactor
  <2>2. CASE u # y.user
    BY <1>0, <1>3, <1>4, <1>7, <2>2, LessHeld
  <2> QED  BY <2>1, <2>2
<1>8. ASSUME NEW t \in Txs \ {s} PROVE Leaves(tx[t].locks, db, e)
  <2>1. /\ y.user \notin tx[t].locks
        /\ GUARD \in tx[t].locks => ROLES_MANAGE \notin Held(db, y.user)
    BY <1>2, OthersNot
  <2>2. \A u \in Members : Held(e, u) \cap ADMIN_PERMISSIONS \subseteq Held(db, u)
    BY <1>4
  <2> QED  BY <1>3, <2>1, <2>2 DEF Leaves, HoldersOf
<1> QED  BY <1>1, <1>3, <1>5, <1>6, <1>7, <1>8, CommitOK
-----------------------------------------------------------------------------
(***************************************************************************)
(* The invariant and what follows from it.                                 *)
(***************************************************************************)
LEMMA InitOK == AdministrationInit => IInv
<1> SUFFICES ASSUME AdministrationInit PROVE IInv
  OBVIOUS
<1> USE AdministrationAssumption
<1>1. PICK admins \in (SUBSET Members) \ {{}} :
          db = [status |-> [u \in Members |-> "active"], roles |-> {DefaultRole, AdminRole},
                grants |-> [r \in Roles |-> IF r = AdminRole THEN Permissions ELSE {}],
                holds |-> (Members \X {DefaultRole}) \cup (admins \X {AdminRole}),
                factors |-> [u \in Members |-> IF u \in admins THEN {"method"} ELSE {}],
                live |-> Members]
  BY DEF AdministrationInit
<1>2. /\ db.status = [u \in Members |-> "active"] /\ db.roles = {DefaultRole, AdminRole}
      /\ db.grants = [r \in Roles |-> IF r = AdminRole THEN Permissions ELSE {}]
      /\ \A u \in Members, r \in Roles :
           <<u, r>> \in db.holds <=> r = DefaultRole \/ (r = AdminRole /\ u \in admins)
      /\ db.factors = [u \in Members |-> IF u \in admins THEN {"method"} ELSE {}]
  BY <1>1
<1>3. db \in Db
  BY <1>1 DEF Db
<1>4. tx \in [Txs -> Tx] /\ \A t \in Txs : tx[t] = IdleTx
  BY IdleOK DEF AdministrationInit
<1>5. Typed
  BY <1>3, <1>4, IdleOK DEF Typed
<1>6. RoleRows(db)
  BY <1>2 DEF RoleRows
<1>7. LocksExclusive /\ \A t \in Txs : Protected(tx[t], db)
  BY <1>4, IdleOK DEF LocksExclusive
<1>8. AnAdministratorRemains
  <2>1. PICK u \in Members : u \in admins
    OBVIOUS
  <2>2. db.status[u] = "active" /\ <<u, AdminRole>> \in db.holds /\ ROLES_MANAGE \in db.grants[AdminRole]
    BY <1>2, <2>1 DEF ADMIN_PERMISSIONS
  <2> QED  BY <1>3, <2>2, HeldByActive DEF AnAdministratorRemains
<1>9. ASSUME NEW u \in Members PROVE KeepsASecondFactor(db, u)
  <2>1. CASE u \in admins
    BY <1>2, <2>1 DEF KeepsASecondFactor, HasSecondFactor
  <2>2. CASE u \notin admins
    <3>1. ASSUME NEW p, p \in Held(db, u) PROVE FALSE
      <4>1. PICK r \in Roles : <<u, r>> \in db.holds /\ p \in db.grants[r]
        BY <1>3, <3>1, HeldIff
      <4> QED  BY <1>2, <2>2, <4>1
    <3> QED  BY <1>3, <3>1, AdministrationIff DEF KeepsASecondFactor
  <2> QED  BY <2>1, <2>2
<1>10. SuspensionSignsOut
  BY <1>2 DEF SuspensionSignsOut
<1> QED  BY <1>5, <1>6, <1>7, <1>8, <1>9, <1>10 DEF IInv, AdministratorsHaveASecondFactor

LEMMA RolesKeep ==
    ASSUME IInv, NEW s \in Txs, RolesNext(s)
    PROVE  IInv'
BY RolesBegin, RoleLooks, HolderLooks, UserLooks, GuardSteps, CreateStep, SetPermissionsStep,
   DeleteRoleStep, AssignStep, UnassignStep, GrantRoleStep DEF RolesNext

LEMMA UsersKeep ==
    ASSUME IInv, NEW s \in Txs, UsersNext(s)
    PROVE  IInv'
BY UsersBegin, UserLooks, GuardSteps, SimpleCommits, SuspendStep, EraseStep DEF UsersNext

LEMMA OwnerKeeps ==
    ASSUME IInv, NEW s \in Txs, OwnerNext(s)
    PROVE  IInv'
BY OwnerBegins, UserLooks, SimpleCommits, FactorsResetCommit, SignInStep DEF OwnerNext

LEMMA InvStep == IInv /\ [AdministrationNext]_administrationVars => IInv'
<1> SUFFICES ASSUME IInv, [AdministrationNext]_administrationVars PROVE IInv'
  OBVIOUS
<1>1. CASE AdministrationNext
  <2>1. PICK s \in Txs : RolesNext(s) \/ UsersNext(s) \/ OwnerNext(s) \/ TxDrops(s)
    BY <1>1 DEF AdministrationNext
  <2> QED  BY <2>1, RolesKeep, UsersKeep, OwnerKeeps, DropStep
<1>2. CASE UNCHANGED administrationVars
  <2>1. db' = db /\ tx' = tx /\ late' = late /\ hurried' = hurried
    BY <1>2 DEF administrationVars
  <2> QED  BY <2>1 DEF IInv, Typed, RoleRows, LocksExclusive, AnAdministratorRemains,
              AdministratorsHaveASecondFactor, SuspensionSignsOut
<1> QED  BY <1>1, <1>2

LEMMA Invariance == AdministrationSpec => []IInv
BY InitOK, InvStep, PTL DEF AdministrationSpec

(***************************************************************************)
(* However many administrators demote, suspend, delete and strip each      *)
(* other's roles at once, and however the requests interleave and drop,    *)
(* some active account can manage roles: keep_an_administrator looks under *)
(* a lock of all who might take the permission away, and what commits      *)
(* between its look and the commit it guards takes nothing away.           *)
(***************************************************************************)
THEOREM AdministratorStays == AdministrationSpec => []AnAdministratorRemains
<1>1. IInv => AnAdministratorRemains
  BY DEF IInv
<1> QED  BY <1>1, Invariance, PTL

(***************************************************************************)
(* For any number of accounts, roles and requests: an account that holds   *)
(* administration has a second factor, but for one the command line gave a *)
(* role that changed after it was looked at.  What a transaction saw under *)
(* the row locks of the account and the role is so at its commit.          *)
(***************************************************************************)
THEOREM AdministratorsProtected == AdministrationSpec => []AdministratorsHaveASecondFactor
<1>1. IInv => AdministratorsHaveASecondFactor
  BY DEF IInv
<1> QED  BY <1>1, Invariance, PTL

(***************************************************************************)
(* A suspended account has no live session, whatever requests run when it  *)
(* is suspended, but for a sign-in that read its status before.            *)
(***************************************************************************)
THEOREM SuspendedOut == AdministrationSpec => []SuspensionSignsOut
<1>1. IInv => SuspensionSignsOut
  BY DEF IInv
<1> QED  BY <1>1, Invariance, PTL
-----------------------------------------------------------------------------
(***************************************************************************)
(* Accounts, as their owners change them.  A request goes by what it read, *)
(* and rows and links change under it: RequestOK says what of it still     *)
(* holds, Onward and Keeps how rows and links may change while it runs.    *)
(***************************************************************************)
AccountsTyped ==
    /\ user \in [Users -> User] /\ link \in Seq(Link)
    /\ flow \in [Flows -> Flow] /\ active \in Flows \cup {None}
    /\ req \in [Reqs -> Req]
    /\ chosen \in [Users -> Passwords \cup {None}] /\ proven \in [Users -> SUBSET Addresses]

\* A link of a pending account was sent to its address.
LinkOK(l, us) ==
    /\ us[l.user].status # "none"
    /\ us[l.user].status = "pending" => l.to = us[l.user].email

\* The new address may be given only past the current one, and its code was sent to it.
FlowOK(f) ==
    /\ f.step \in {"new_submit", "new_verify"} => f.confirmed = TRUE
    /\ f.step = "new_verify" /\ f.code # None => f.code = f.email

\* What a request read and still goes by, of the rows us and the links ls.
RequestOK(x, us, ls) ==
    /\ x.pc \in {"issue", "send"} =>
          /\ x.user \in Users /\ x.address \in Addresses /\ us[x.user].status # "none"
          /\ us[x.user].status = "pending" => x.address = us[x.user].email
    /\ x.pc \in {"verify", "reset"} =>
          /\ x.user \in Users /\ x.password \in Passwords
          /\ us[x.user].status # "none" /\ x.link \in DOMAIN ls /\ ls[x.link].user = x.user
    /\ x.pc = "verify" /\ us[x.user].status = "pending" =>
          x.password = IF ls[x.link].password # None THEN ls[x.link].password ELSE us[x.user].password
    /\ x.pc = "create" => x.address \in Addresses /\ x.password \in Passwords
    /\ x.pc = "password" => x.password \in Passwords
    /\ x.pc \in {"current", "submit", "confirm", "activate"} => x.flow \in Flows
    /\ x.pc \in {"submit", "confirm"} => x.read.confirmed = TRUE
    /\ x.pc = "confirm" => x.read.code \in Addresses /\ x.read.code = x.read.email

AccountsInv ==
    /\ AccountsTyped
    /\ user[Owner].status \in {"active", "gone"}
    /\ \A i \in DOMAIN link : LinkOK(link[i], user)
    /\ \A f \in Flows : FlowOK(flow[f])
    /\ \A r \in Reqs : RequestOK(req[r], user, link)
    /\ AccountIsItsOwners
-----------------------------------------------------------------------------
(***************************************************************************)
(* How rows and links may change under a running request.                  *)
(***************************************************************************)
\* An account moves on, and keeps its address and its password while it is pending.
Onward(us, vs) ==
    \A u \in Users : us[u].status # "none" =>
        /\ vs[u].status # "none"
        /\ vs[u].status = "pending" =>
              us[u].status = "pending" /\ vs[u].email = us[u].email /\ vs[u].password = us[u].password

\* A link keeps what it was made with.
Keeps(ls, ms) ==
    \A i \in DOMAIN ls :
        /\ i \in DOMAIN ms
        /\ ms[i].user = ls[i].user /\ ms[i].to = ls[i].to /\ ms[i].password = ls[i].password

LEMMA OnwardItself == ASSUME NEW us PROVE Onward(us, us)
BY DEF Onward

LEMMA KeepsItself == ASSUME NEW ls PROVE Keeps(ls, ls)
BY DEF Keeps

LEMMA StillOK ==
    ASSUME NEW us, NEW vs, NEW ls, NEW ms, Onward(us, vs), Keeps(ls, ms), NEW x, RequestOK(x, us, ls)
    PROVE  RequestOK(x, vs, ms)
<1>1. x.pc \in {"issue", "send"} =>
          /\ x.user \in Users /\ x.address \in Addresses /\ vs[x.user].status # "none"
          /\ vs[x.user].status = "pending" => x.address = vs[x.user].email
  BY DEF RequestOK, Onward
<1>2. x.pc \in {"verify", "reset"} =>
          /\ x.user \in Users /\ x.password \in Passwords
          /\ vs[x.user].status # "none" /\ x.link \in DOMAIN ms /\ ms[x.link].user = x.user
  BY DEF RequestOK, Keeps, Onward
<1>3. ASSUME x.pc = "verify", vs[x.user].status = "pending"
      PROVE  x.password = IF ms[x.link].password # None THEN ms[x.link].password ELSE vs[x.user].password
  BY <1>3 DEF RequestOK, Onward, Keeps
<1> QED  BY <1>1, <1>2, <1>3 DEF RequestOK

LEMMA LinkStillOK ==
    ASSUME NEW us, NEW vs, Onward(us, vs), NEW k, NEW l, l.user \in Users, k.user = l.user, k.to = l.to,
           LinkOK(l, us)
    PROVE  LinkOK(k, vs)
BY DEF LinkOK, Onward

\* A step of one request.
LEMMA RequestStep ==
    ASSUME AccountsInv, NEW r \in Reqs, NEW x \in Req, req' = [req EXCEPT ![r] = x],
           RequestOK(x, user', link'),
           user' \in [Users -> User], Onward(user, user'), user'[Owner].status \in {"active", "gone"},
           link' \in Seq(Link), Keeps(link, link'),
           \A i \in DOMAIN link' \ DOMAIN link : LinkOK(link'[i], user'),
           flow' \in [Flows -> Flow], \A f \in Flows : FlowOK(flow'[f]), active' \in Flows \cup {None},
           chosen' \in [Users -> Passwords \cup {None}], proven' \in [Users -> SUBSET Addresses],
           AccountIsItsOwners'
    PROVE  AccountsInv'
<1>0. AccountsTyped /\ Owner \in Users
  BY AccountsAssumption DEF AccountsInv
<1>1. /\ req' \in [Reqs -> Req] /\ req'[r] = x /\ \A q \in Reqs : q # r => req'[q] = req[q]
  BY <1>0 DEF AccountsTyped
<1>2. \A q \in Reqs : RequestOK(req'[q], user', link')
  BY <1>1, StillOK DEF AccountsInv
<1>3. \A i \in DOMAIN link' : LinkOK(link'[i], user')
  <2> SUFFICES ASSUME NEW i \in DOMAIN link' PROVE LinkOK(link'[i], user')
    OBVIOUS
  <2>1. CASE i \in DOMAIN link
    <3>1. link[i] \in Link /\ LinkOK(link[i], user)
      BY <1>0, <2>1 DEF AccountsInv, AccountsTyped
    <3>2. link[i].user \in Users
      BY <3>1 DEF Link
    <3> QED  BY <2>1, <3>1, <3>2, LinkStillOK DEF Keeps
  <2> QED  BY <2>1
<1> QED  BY <1>0, <1>1, <1>2, <1>3 DEF AccountsInv, AccountsTyped

\* One that changes only the request.
LEMMA OnlyRequest ==
    ASSUME AccountsInv, NEW r \in Reqs, NEW x \in Req, req' = [req EXCEPT ![r] = x],
           RequestOK(x, user, link), UNCHANGED <<user, link, chosen, proven>>,
           flow' \in [Flows -> Flow], \A f \in Flows : FlowOK(flow'[f]), active' \in Flows \cup {None}
    PROVE  AccountsInv'
<1>0. AccountsTyped /\ user[Owner].status \in {"active", "gone"} /\ AccountIsItsOwners
  BY DEF AccountsInv
<1>1. Onward(user, user') /\ Keeps(link, link') /\ RequestOK(x, user', link')
  BY OnwardItself, KeepsItself
<1>2. AccountIsItsOwners'
  BY <1>0 DEF AccountIsItsOwners
<1> QED  BY <1>0, <1>1, <1>2, RequestStep DEF AccountsTyped

LEMMA IdleRequestOK == Idle \in Req /\ Idle.pc = "idle" /\ \A us, ls : RequestOK(Idle, us, ls)
BY DEF Idle, Req, RequestOK, NoFlow, Flow

LEMMA Rows ==
    ASSUME AccountsInv
    PROVE  /\ AccountsTyped /\ user \in [Users -> User] /\ link \in Seq(Link) /\ req \in [Reqs -> Req]
           /\ flow \in [Flows -> Flow] /\ (\A f \in Flows : FlowOK(flow[f])) /\ active \in Flows \cup {None}
           /\ chosen \in [Users -> Passwords \cup {None}] /\ proven \in [Users -> SUBSET Addresses]
           /\ user[Owner].status \in {"active", "gone"} /\ Owner \in Users /\ AccountIsItsOwners
           /\ \A r \in Reqs : req[r] \in Req /\ RequestOK(req[r], user, link)
BY AccountsAssumption DEF AccountsInv, AccountsTyped

LEMMA DoneStep ==
    ASSUME AccountsInv, NEW r \in Reqs, Done(r), UNCHANGED <<user, link, flow, active, chosen, proven>>
    PROVE  AccountsInv'
BY Rows, IdleRequestOK, OnlyRequest DEF Done
-----------------------------------------------------------------------------
(***************************************************************************)
(* Links.                                                                  *)
(***************************************************************************)
LEMMA RevokedOK ==
    ASSUME NEW ls \in Seq(Link), NEW u, NEW kinds
    PROVE  Revoked(ls, u, kinds) \in Seq(Link) /\ Keeps(ls, Revoked(ls, u, kinds))
           /\ DOMAIN Revoked(ls, u, kinds) = DOMAIN ls
<1> DEFINE ms == Revoked(ls, u, kinds)
<1>1. DOMAIN ms = 1..Len(ls) /\ DOMAIN ls = 1..Len(ls) /\ Len(ls) \in Nat
      /\ ms = [i \in 1..Len(ls) |-> ms[i]]
  BY DEF Revoked
<1>2. \A i \in 1..Len(ls) : ls[i] \in Link
  BY <1>1
<1>3. \A i \in 1..Len(ls) : ms[i] = IF ls[i].user = u /\ ls[i].kind \in kinds
                                    THEN [ls[i] EXCEPT !.used = TRUE] ELSE ls[i]
  BY <1>1 DEF Revoked
<1>4. \A i \in 1..Len(ls) : /\ ms[i] \in Link /\ ms[i].user = ls[i].user /\ ms[i].to = ls[i].to
                            /\ ms[i].password = ls[i].password
  BY <1>2, <1>3 DEF Link
<1> HIDE DEF ms
<1>5. ms \in Seq(Link)
  BY <1>1, <1>4
<1> QED  BY <1>1, <1>4, <1>5 DEF Keeps, ms

LEMMA ConsumedOK ==
    ASSUME NEW ls \in Seq(Link), NEW i \in DOMAIN ls
    PROVE  /\ [ls EXCEPT ![i].used = TRUE] \in Seq(Link) /\ Keeps(ls, [ls EXCEPT ![i].used = TRUE])
           /\ DOMAIN [ls EXCEPT ![i].used = TRUE] = DOMAIN ls
<1> DEFINE ms == [ls EXCEPT ![i].used = TRUE]
<1>a. DOMAIN ms = 1..Len(ls) /\ DOMAIN ls = 1..Len(ls) /\ Len(ls) \in Nat
  OBVIOUS
<1>b. ms = [j \in DOMAIN ls |-> ms[j]]
  OBVIOUS
<1>1. DOMAIN ms = 1..Len(ls) /\ DOMAIN ls = 1..Len(ls) /\ Len(ls) \in Nat
      /\ ms = [j \in 1..Len(ls) |-> ms[j]]
  <2> HIDE DEF ms
  <2> QED  BY <1>a, <1>b
<1>2. \A j \in 1..Len(ls) : ls[j] \in Link
  BY <1>1
<1>3. \A j \in 1..Len(ls) : ms[j] = IF j = i THEN [ls[j] EXCEPT !.used = TRUE] ELSE ls[j]
  BY <1>1
<1>4. \A j \in 1..Len(ls) : /\ ms[j] \in Link /\ ms[j].user = ls[j].user /\ ms[j].to = ls[j].to
                            /\ ms[j].password = ls[j].password
  BY <1>2, <1>3 DEF Link
<1> HIDE DEF ms
<1>5. ms \in Seq(Link)
  BY <1>1, <1>4
<1> QED  BY <1>1, <1>4, <1>5 DEF Keeps, ms

LEMMA KeepsOn ==
    ASSUME NEW ls, NEW ms, NEW ns, Keeps(ls, ms), Keeps(ms, ns)
    PROVE  Keeps(ls, ns)
BY DEF Keeps

LEMMA AppendedOK ==
    ASSUME NEW ls \in Seq(Link), NEW l \in Link
    PROVE  /\ Append(ls, l) \in Seq(Link) /\ Keeps(ls, Append(ls, l))
           /\ \A i \in DOMAIN Append(ls, l) \ DOMAIN ls : Append(ls, l)[i] = l
<1>1. /\ Append(ls, l) \in Seq(Link) /\ Len(Append(ls, l)) = Len(ls) + 1 /\ Len(ls) \in Nat
      /\ \A i \in 1..Len(ls) : Append(ls, l)[i] = ls[i]
      /\ Append(ls, l)[Len(ls) + 1] = l
  OBVIOUS
<1>2. DOMAIN ls = 1..Len(ls) /\ DOMAIN Append(ls, l) = 1..(Len(ls) + 1)
  BY <1>1
<1> QED  BY <1>1, <1>2 DEF Keeps
-----------------------------------------------------------------------------
(***************************************************************************)
(* The steps, first those that only begin a request.                       *)
(***************************************************************************)
LEMMA RequestBegins ==
    ASSUME AccountsInv, NEW r \in Reqs, NEW op, NEW x \in Req, Begin(r, op, x), Reads,
           RequestOK(x, user, link)
    PROVE  AccountsInv'
BY Rows, OnlyRequest DEF Begin, Reads, redis, history

LEMMA HolderAt ==
    ASSUME NEW a \in Addresses, NEW u \in Holders(a)
    PROVE  u \in Users /\ user[u].status \in {"pending", "active"} /\ user[u].email = a
BY DEF Holders, Exists

LEMMA RegistrationBegins ==
    ASSUME AccountsInv, NEW r \in Reqs, NEW a \in Addresses
    PROVE  /\ \A p \in Passwords : Register(r, a, p) => AccountsInv'
           /\ ResendVerification(r, a) => AccountsInv'
           /\ ForgotPassword(r, a) => AccountsInv'
<1>1. ASSUME NEW p \in Passwords, Register(r, a, p) PROVE AccountsInv'
  <2>1. CASE Begin(r, "register", [Idle EXCEPT !.pc = "create", !.address = a, !.password = p])
    <3> DEFINE x == [Idle EXCEPT !.pc = "create", !.address = a, !.password = p]
    <3>1. x \in Req /\ x.pc = "create" /\ x.address = a /\ x.password = p
      BY DEF Idle, Req, NoFlow, Flow
    <3> HIDE DEF x
    <3>2. RequestOK(x, user, link)
      BY <3>1 DEF RequestOK
    <3> QED  BY <1>1, <2>1, <3>1, <3>2, RequestBegins DEF Register, x
  <2>2. ASSUME NEW u \in Holders(a), user[u].status = "pending",
               Begin(r, "register", [Idle EXCEPT !.pc = "issue", !.user = u, !.address = a, !.password = p])
        PROVE  AccountsInv'
    <3> DEFINE x == [Idle EXCEPT !.pc = "issue", !.user = u, !.address = a, !.password = p]
    <3>1. x \in Req /\ x.pc = "issue" /\ x.user = u /\ x.address = a
      BY HolderAt DEF Idle, Req, NoFlow, Flow
    <3> HIDE DEF x
    <3>2. RequestOK(x, user, link)
      BY <3>1, HolderAt DEF RequestOK
    <3> QED  BY <1>1, <2>2, <3>1, <3>2, RequestBegins DEF Register, x
  <2> QED  BY <1>1, <2>1, <2>2 DEF Register, RegisterAccount
<1>2. ASSUME ResendVerification(r, a) PROVE AccountsInv'
  <2>1. PICK u \in Holders(a) : Begin(r, "resend", [Idle EXCEPT !.pc = "issue", !.user = u, !.address = a])
    BY <1>2 DEF ResendVerification, FindPending
  <2> DEFINE x == [Idle EXCEPT !.pc = "issue", !.user = u, !.address = a]
  <2>2. x \in Req /\ x.pc = "issue" /\ x.user = u /\ x.address = a
    BY HolderAt DEF Idle, Req, NoFlow, Flow
  <2> HIDE DEF x
  <2>3. RequestOK(x, user, link)
    BY <2>2, HolderAt DEF RequestOK
  <2> QED  BY <1>2, <2>1, <2>2, <2>3, RequestBegins DEF ResendVerification, x
<1>3. ASSUME ForgotPassword(r, a) PROVE AccountsInv'
  <2>1. PICK u \in Holders(a) : Begin(r, "forgot", [Idle EXCEPT !.pc = "send", !.user = u, !.address = a])
    BY <1>3 DEF ForgotPassword, IssuePasswordReset
  <2> DEFINE x == [Idle EXCEPT !.pc = "send", !.user = u, !.address = a]
  <2>2. x \in Req /\ x.pc = "send" /\ x.user = u /\ x.address = a
    BY HolderAt DEF Idle, Req, NoFlow, Flow
  <2> HIDE DEF x
  <2>3. RequestOK(x, user, link)
    BY <2>2, HolderAt DEF RequestOK
  <2> QED  BY <1>3, <2>1, <2>2, <2>3, RequestBegins DEF ForgotPassword, x
<1> QED  BY <1>1, <1>2, <1>3

LEMMA LinkAt ==
    ASSUME AccountsInv, NEW i \in DOMAIN link
    PROVE  i \in Nat /\ link[i] \in Link /\ link[i].user \in Users /\ LinkOK(link[i], user)
<1>1. link \in Seq(Link) /\ LinkOK(link[i], user)
  BY DEF AccountsInv, AccountsTyped
<1>2. i \in Nat /\ link[i] \in Link
  BY <1>1
<1> QED  BY <1>1, <1>2 DEF Link

LEMMA LinkBegins ==
    ASSUME AccountsInv, NEW r \in Reqs, NEW i, NEW p \in Passwords
    PROVE  VerifyEmail(r, i, p) \/ ResetPassword(r, i, p) => AccountsInv'
<1>1. ASSUME VerifyEmail(r, i, p) PROVE AccountsInv'
  <2> DEFINE x == [Idle EXCEPT !.pc = "verify", !.link = i, !.user = link[i].user, !.password = p]
  <2>1. i \in DOMAIN link /\ p = Expected(i) /\ Begin(r, "verify", x) /\ Reads
    BY <1>1 DEF VerifyEmail, CheckVerification, FindVerification
  <2>2. x \in Req /\ x.pc = "verify" /\ x.link = i /\ x.user = link[i].user /\ x.password = p
    BY <2>1, LinkAt DEF Idle, Req, NoFlow, Flow
  <2> HIDE DEF x
  <2>3. RequestOK(x, user, link)
    BY <2>1, <2>2, LinkAt DEF RequestOK, Expected, LinkOK
  <2> QED  BY <2>1, <2>2, <2>3, RequestBegins
<1>2. ASSUME ResetPassword(r, i, p) PROVE AccountsInv'
  <2> DEFINE x == [Idle EXCEPT !.pc = "reset", !.link = i, !.user = link[i].user, !.password = p]
  <2>1. i \in DOMAIN link /\ Begin(r, "reset", x) /\ Reads
    BY <1>2 DEF ResetPassword, CheckReset, FindPasswordReset
  <2>2. x \in Req /\ x.pc = "reset" /\ x.link = i /\ x.user = link[i].user /\ x.password = p
    BY <2>1, LinkAt DEF Idle, Req, NoFlow, Flow
  <2> HIDE DEF x
  <2>3. RequestOK(x, user, link)
    BY <2>1, <2>2, LinkAt DEF RequestOK, LinkOK
  <2> QED  BY <2>1, <2>2, <2>3, RequestBegins
<1> QED  BY <1>1, <1>2

LEMMA SignedInBegins ==
    ASSUME AccountsInv, NEW r \in Reqs, NEW s \in Sessions
    PROVE  /\ \A p \in Passwords : ChangePassword(r, s, p) => AccountsInv'
           /\ DeleteAccount(r, s) \/ StartEmailChange(r, s) => AccountsInv'
           /\ \A f \in Flows : VerifyCurrentEmail(r, s, f) \/ SubmitNewEmail(r, s, f)
                               \/ ConfirmNewEmail(r, s, f) => AccountsInv'
<1>0. Owner \in Users
  BY Rows
<1>1. ASSUME NEW p \in Passwords, ChangePassword(r, s, p) PROVE AccountsInv'
  <2> DEFINE x == [Idle EXCEPT !.pc = "password", !.user = Owner, !.session = s, !.password = p]
  <2>1. x \in Req /\ x.pc = "password" /\ x.password = p
    BY <1>0 DEF Idle, Req, NoFlow, Flow
  <2>2. Begin(r, "password", x) /\ Reads
    BY <1>1 DEF ChangePassword
  <2> HIDE DEF x
  <2>3. RequestOK(x, user, link)
    BY <2>1 DEF RequestOK
  <2> QED  BY <2>1, <2>2, <2>3, RequestBegins
<1>2. ASSUME DeleteAccount(r, s) PROVE AccountsInv'
  <2> DEFINE x == [Idle EXCEPT !.pc = "erase", !.user = Owner]
  <2>1. x \in Req /\ x.pc = "erase"
    BY <1>0 DEF Idle, Req, NoFlow, Flow
  <2>2. Begin(r, "erase", x) /\ Reads
    BY <1>2 DEF DeleteAccount
  <2> HIDE DEF x
  <2>3. RequestOK(x, user, link)
    BY <2>1 DEF RequestOK
  <2> QED  BY <2>1, <2>2, <2>3, RequestBegins
<1>3. ASSUME StartEmailChange(r, s) PROVE AccountsInv'
  <2> DEFINE x == [Idle EXCEPT !.pc = "cancel", !.user = Owner, !.session = s]
  <2>1. x \in Req /\ x.pc = "cancel"
    BY <1>0 DEF Idle, Req, NoFlow, Flow
  <2>2. Begin(r, "start", x) /\ Reads
    BY <1>3 DEF StartEmailChange
  <2> HIDE DEF x
  <2>3. RequestOK(x, user, link)
    BY <2>1 DEF RequestOK
  <2> QED  BY <2>1, <2>2, <2>3, RequestBegins
<1>4. ASSUME NEW f \in Flows, NEW op \in {"current", "submit", "confirm"}, Load(r, s, f, op),
             op \in {"submit", "confirm"} => flow[f].step \in {"new_submit", "new_verify"},
             op = "confirm" => flow[f].step = "new_verify" /\ flow[f].code # None
      PROVE  AccountsInv'
  <2> DEFINE x == [Idle EXCEPT !.pc = op, !.user = Owner, !.session = s, !.flow = f, !.read = flow[f]]
  <2>0. flow[f] \in Flow /\ FlowOK(flow[f])
    BY Rows
  <2>1. x \in Req /\ x.pc = op /\ x.flow = f /\ x.read = flow[f]
    BY <1>0, <2>0 DEF Idle, Req
  <2>2. Begin(r, op, x) /\ Reads
    BY <1>4 DEF Load
  <2> HIDE DEF x
  <2>3. RequestOK(x, user, link)
    BY <1>4, <2>0, <2>1 DEF RequestOK, FlowOK, Flow
  <2> QED  BY <2>1, <2>2, <2>3, RequestBegins
<1>5. ASSUME NEW f \in Flows,
             VerifyCurrentEmail(r, s, f) \/ SubmitNewEmail(r, s, f) \/ ConfirmNewEmail(r, s, f)
      PROVE  AccountsInv'
  <2>1. CASE VerifyCurrentEmail(r, s, f)
    BY <1>4, <2>1 DEF VerifyCurrentEmail
  <2>2. CASE SubmitNewEmail(r, s, f)
    <3>0. None # "new_verify"
      BY AccountsAssumption
    <3>1. flow[f].step = "new_submit"
      BY <2>2, <3>0 DEF SubmitNewEmail, After
    <3> QED  BY <1>4, <2>2, <3>1 DEF SubmitNewEmail
  <2>3. CASE ConfirmNewEmail(r, s, f)
    <3>0. None # "done"
      BY AccountsAssumption
    <3>1. flow[f].step = "new_verify" /\ flow[f].code # None
      BY <2>3, <3>0 DEF ConfirmNewEmail, After, VerifyOtp
    <3> QED  BY <1>4, <2>3, <3>1 DEF ConfirmNewEmail
  <2> QED  BY <1>5, <2>1, <2>2, <2>3
<1> QED  BY <1>1, <1>2, <1>3, <1>5
-----------------------------------------------------------------------------
(***************************************************************************)
(* The steps of the change of address that only touch its flow.            *)
(***************************************************************************)
LEMMA FlowSteps ==
    ASSUME AccountsInv, NEW r \in Reqs
    PROVE  /\ StartCancel(r) => AccountsInv'
           /\ StartSave(r) => AccountsInv'
           /\ StartActivate(r) => AccountsInv'
           /\ CurrentSave(r) => AccountsInv'
           /\ \A a \in Addresses : SubmitSave(r, a) => AccountsInv'
<1> USE DEF redis, history
<1>0. /\ req[r] \in Req /\ RequestOK(req[r], user, link) /\ req \in [Reqs -> Req]
      /\ flow \in [Flows -> Flow] /\ (\A f \in Flows : FlowOK(flow[f])) /\ active \in Flows \cup {None}
  BY Rows
<1>1. ASSUME StartCancel(r) PROVE AccountsInv'
  <2> DEFINE x == [req[r] EXCEPT !.pc = "save", !.found = active]
  <2>1. x \in Req /\ x.pc = "save" /\ req' = [req EXCEPT ![r] = x]
    BY <1>0, <1>1 DEF StartCancel, Req
  <2> HIDE DEF x
  <2>2. RequestOK(x, user, link)
    BY <2>1 DEF RequestOK
  <2> QED  BY <1>0, <1>1, <2>1, <2>2, OnlyRequest DEF StartCancel
<1>2. ASSUME StartSave(r) PROVE AccountsInv'
  <2>1. CASE Done(r) /\ UNCHANGED flow
    BY <1>2, <2>1, DoneStep DEF StartSave
  <2>2. ASSUME NEW f \in Flows, Exists(Owner),
               flow' = [g \in Flows |->
                          IF g = f THEN [NoFlow EXCEPT !.step = "current_verify", !.code = user[Owner].email]
                          ELSE IF g = req[r].found THEN [flow[g] EXCEPT !.step = "gone"] ELSE flow[g]],
               req' = [req EXCEPT ![r].pc = "activate", ![r].flow = f]
        PROVE  AccountsInv'
    <3> DEFINE x == [req[r] EXCEPT !.pc = "activate", !.flow = f]
    <3>1. x \in Req /\ x.pc = "activate" /\ x.flow = f /\ req' = [req EXCEPT ![r] = x]
      BY <1>0, <2>2 DEF Req
    <3> HIDE DEF x
    <3>2. RequestOK(x, user, link)
      BY <3>1 DEF RequestOK
    <3>3. user[Owner].email \in Addresses \cup {None}
      BY Rows DEF User
    <3>4. \A g \in Flows : flow'[g] \in Flow /\ FlowOK(flow'[g])
      BY <1>0, <2>2, <3>3 DEF Flow, NoFlow, FlowOK
    <3>5. flow' \in [Flows -> Flow]
      BY <2>2, <3>4
    <3> QED  BY <1>0, <1>2, <3>1, <3>2, <3>4, <3>5, OnlyRequest DEF StartSave
  <2> QED  BY <1>2, <2>1, <2>2 DEF StartSave
<1>3. ASSUME StartActivate(r) PROVE AccountsInv'
  <2>1. req[r].flow \in Flows
    BY <1>0, <1>3 DEF StartActivate, RequestOK
  <2> QED  BY <1>0, <1>3, <2>1, IdleRequestOK, OnlyRequest DEF StartActivate, Done
<1>4. ASSUME NEW state \in Flow, FlowOK(state), req[r].flow \in Flows, Saved(req[r].flow, state), Done(r),
             UNCHANGED <<user, link, active, chosen, proven>>
      PROVE  AccountsInv'
  <2>1. flow' \in [Flows -> Flow] /\ \A g \in Flows : FlowOK(flow'[g])
    BY <1>0, <1>4 DEF Saved
  <2> QED  BY <1>0, <1>4, <2>1, IdleRequestOK, OnlyRequest DEF Done
<1>5. ASSUME CurrentSave(r) PROVE AccountsInv'
  <2>1. req[r].flow \in Flows /\ req[r].read \in Flow
    BY <1>0, <1>5 DEF CurrentSave, RequestOK, Req
  <2> DEFINE state == [req[r].read EXCEPT !.step = "new_submit", !.code = None, !.confirmed = TRUE]
  <2>2. state \in Flow /\ FlowOK(state)
    BY <2>1 DEF Flow, FlowOK
  <2> HIDE DEF state
  <2> QED  BY <1>4, <1>5, <2>1, <2>2 DEF CurrentSave, state
<1>6. ASSUME NEW a \in Addresses, SubmitSave(r, a) PROVE AccountsInv'
  <2>1. req[r].flow \in Flows /\ req[r].read \in Flow /\ req[r].read.confirmed = TRUE
    BY <1>0, <1>6 DEF SubmitSave, RequestOK, Req
  <2>2. CodeFor(a) \in {a, None}
    BY DEF CodeFor
  <2> DEFINE state == [req[r].read EXCEPT !.step = "new_verify", !.code = CodeFor(a), !.email = a]
  <2>3. state \in Flow /\ FlowOK(state)
    BY <2>1, <2>2 DEF Flow, FlowOK
  <2> HIDE DEF state
  <2> QED  BY <1>4, <1>6, <2>1, <2>3 DEF SubmitSave, state
<1> QED  BY <1>1, <1>2, <1>3, <1>5, <1>6

LEMMA PurgeSteps ==
    ASSUME AccountsInv, NEW r \in Reqs
    PROVE  Purge(r) \/ PurgeDelete(r) \/ Drop(r) => AccountsInv'
<1> USE DEF redis, history
<1>0. /\ req[r] \in Req /\ req \in [Reqs -> Req]
      /\ flow \in [Flows -> Flow] /\ (\A f \in Flows : FlowOK(flow[f])) /\ active \in Flows \cup {None}
  BY Rows
<1>1. ASSUME Purge(r) PROVE AccountsInv'
  <2>1. CASE Done(r)
    BY <1>1, <2>1, DoneStep DEF Purge
  <2>2. ASSUME NEW x \in Req, x.pc = "drop", req' = [req EXCEPT ![r] = x] PROVE AccountsInv'
    <3>1. RequestOK(x, user, link)
      BY <2>2 DEF RequestOK
    <3> QED  BY <1>0, <1>1, <2>2, <3>1, OnlyRequest DEF Purge
  <2>3. CASE req' = [req EXCEPT ![r].pc = "drop", ![r].found = active]
    <3> DEFINE x == [req[r] EXCEPT !.pc = "drop", !.found = active]
    <3>1. x \in Req /\ x.pc = "drop" /\ req' = [req EXCEPT ![r] = x]
      BY <1>0, <2>3 DEF Req
    <3> QED  BY <2>2, <3>1
  <2>4. CASE Goto(r, "drop")
    <3> DEFINE x == [req[r] EXCEPT !.pc = "drop"]
    <3>1. x \in Req /\ x.pc = "drop" /\ req' = [req EXCEPT ![r] = x]
      BY <1>0, <2>4 DEF Req, Goto
    <3> QED  BY <2>2, <3>1
  <2> QED  BY <1>1, <2>1, <2>3, <2>4 DEF Purge
<1>2. ASSUME PurgeDelete(r) PROVE AccountsInv'
  <2>1. \A f \in Flows : flow'[f] \in Flow /\ FlowOK(flow'[f])
    BY <1>0, <1>2 DEF PurgeDelete, Flow, FlowOK
  <2>2. flow' \in [Flows -> Flow]
    BY <1>2, <2>1 DEF PurgeDelete
  <2> QED  BY <1>0, <1>2, <2>1, <2>2, IdleRequestOK, OnlyRequest DEF PurgeDelete, Done
<1>3. ASSUME Drop(r) PROVE AccountsInv'
  BY <1>3, DoneStep DEF Drop
<1> QED  BY <1>1, <1>2, <1>3
-----------------------------------------------------------------------------
(***************************************************************************)
(* The transactions on accounts and links.                                 *)
(***************************************************************************)
\* Every row but u's is left, and u's moves on.
LEMMA OneRow ==
    ASSUME AccountsInv, NEW u \in Users, NEW row \in User, user' = [user EXCEPT ![u] = row],
           row.status # "none",
           user[u].status # "none" /\ row.status = "pending" =>
               user[u].status = "pending" /\ row.email = user[u].email /\ row.password = user[u].password,
           u = Owner => row.status \in {"active", "gone"}
    PROVE  /\ user' \in [Users -> User] /\ user'[u] = row /\ \A v \in Users : v # u => user'[v] = user[v]
           /\ Onward(user, user') /\ user'[Owner].status \in {"active", "gone"}
<1>0. user \in [Users -> User] /\ user[Owner].status \in {"active", "gone"} /\ Owner \in Users
  BY Rows
<1>1. /\ user' \in [Users -> User] /\ user'[u] = row /\ \A v \in Users : v # u => user'[v] = user[v]
  BY <1>0
<1>2. Onward(user, user')
  BY <1>1 DEF Onward
<1> QED  BY <1>0, <1>1, <1>2

\* Their owners' still, when u's is.
LEMMA StillItsOwners ==
    ASSUME AccountsInv, NEW u \in Users, \A v \in Users : v # u => user'[v] = user[v],
           \A v \in Users : v # u => chosen'[v] = chosen[v] /\ proven'[v] = proven[v],
           user'[u].status = "active" => user'[u].password = chosen'[u] /\ user'[u].email \in proven'[u]
    PROVE  AccountIsItsOwners'
<1>1. AccountIsItsOwners
  BY Rows
<1> SUFFICES ASSUME NEW v \in Users, user'[v].status = "active"
             PROVE  user'[v].password = chosen'[v] /\ user'[v].email \in proven'[v]
  BY DEF AccountIsItsOwners
<1>2. CASE v = u
  BY <1>2
<1>3. CASE v # u
  BY <1>1, <1>3 DEF AccountIsItsOwners
<1> QED  BY <1>2, <1>3

LEMMA RegisterStep ==
    ASSUME AccountsInv, NEW r \in Reqs, RegisterCreate(r)
    PROVE  AccountsInv'
<1> USE DEF redis, history
<1>1. CASE UNCHANGED <<user, link>>
  BY <1>1, DoneStep DEF RegisterCreate
<1>2. ASSUME NEW u \in Users, user[u].status = "none",
             user' = Created(u, req[r].address, req[r].password),
             link' = Append(link, [kind |-> "verification", user |-> u, to |-> req[r].address,
                                   password |-> None, used |-> FALSE])
      PROVE  AccountsInv'
  <2>0. /\ RequestOK(req[r], user, link) /\ link \in Seq(Link) /\ user[Owner].status \in {"active", "gone"}
        /\ req[r].pc = "create"
    BY Rows DEF RegisterCreate
  <2>1. PICK a \in Addresses, p \in Passwords : a = req[r].address /\ p = req[r].password
    BY <2>0 DEF RequestOK
  <2> DEFINE row == [status |-> "pending", email |-> a, password |-> p]
             l == [kind |-> "verification", user |-> u, to |-> a, password |-> None, used |-> FALSE]
  <2>2. row \in User /\ row.status = "pending" /\ row.email = a /\ user' = [user EXCEPT ![u] = row]
    BY <1>2, <2>1 DEF Created, User, Status
  <2>3. l \in Link /\ l.user = u /\ l.to = a /\ link' = Append(link, l)
    BY <1>2, <2>1 DEF Link
  <2> HIDE DEF row, l
  <2>4. /\ user' \in [Users -> User] /\ user'[u] = row /\ \A v \in Users : v # u => user'[v] = user[v]
        /\ Onward(user, user') /\ user'[Owner].status \in {"active", "gone"}
    BY <1>2, <2>0, <2>2, OneRow
  <2>5. /\ link' \in Seq(Link) /\ Keeps(link, link')
        /\ \A i \in DOMAIN link' \ DOMAIN link : link'[i] = l
    BY <2>0, <2>3, AppendedOK
  <2>6. LinkOK(l, user')
    BY <2>2, <2>3, <2>4 DEF LinkOK
  <2>7. UNCHANGED <<flow, active, chosen, proven>> /\ req' = [req EXCEPT ![r] = Idle]
    BY DEF RegisterCreate, Done
  <2>8. AccountIsItsOwners'
    BY <2>2, <2>4, <2>7, StillItsOwners
  <2> QED  BY <2>4, <2>5, <2>6, <2>7, <2>8, IdleRequestOK, Rows, RequestStep
<1> QED  BY <1>1, <1>2 DEF RegisterCreate

LEMMA IssueSteps ==
    ASSUME AccountsInv, NEW r \in Reqs, IssueVerification(r) \/ SendResetLink(r)
    PROVE  AccountsInv'
<1> USE DEF redis, history
<1>0. /\ req[r] \in Req /\ RequestOK(req[r], user, link) /\ link \in Seq(Link)
      /\ req[r].pc \in {"issue", "send"} /\ Done(r)
      /\ UNCHANGED <<user, flow, active, chosen, proven>>
  BY Rows DEF IssueVerification, SendResetLink
<1>1. PICK kind \in {"verification", "reset"}, p \in Passwords \cup {None} :
         Mail(req[r].user, kind, req[r].address, p)
  <2>1. req[r].password \in Passwords \cup {None}
    BY <1>0 DEF Req
  <2> QED  BY <2>1 DEF IssueVerification, SendResetLink, CreateVerification, CreatePasswordReset
<1>2. CASE link' = link
  BY <1>0, <1>2, DoneStep
<1>3. CASE link' # link
  <2>1. PICK u \in Users, a \in Addresses : u = req[r].user /\ a = req[r].address
    BY <1>0 DEF RequestOK
  <2> DEFINE l == [kind |-> kind, user |-> u, to |-> a, password |-> p, used |-> FALSE]
  <2>2. l \in Link /\ l.user = u /\ l.to = a /\ link' = Append(link, l)
    BY <1>1, <1>3, <2>1 DEF Mail, Link
  <2> HIDE DEF l
  <2>3. /\ link' \in Seq(Link) /\ Keeps(link, link')
        /\ \A i \in DOMAIN link' \ DOMAIN link : link'[i] = l
    BY <1>0, <2>2, AppendedOK
  <2>4. LinkOK(l, user')
    BY <1>0, <2>1, <2>2 DEF LinkOK, RequestOK
  <2>5. AccountIsItsOwners' /\ Onward(user, user')
    BY <1>0, Rows, OnwardItself DEF AccountIsItsOwners
  <2> QED  BY <1>0, <2>3, <2>4, <2>5, IdleRequestOK, Rows, RequestStep DEF Done
<1> QED  BY <1>2, <1>3

LEMMA RowOK ==
    ASSUME NEW row \in User, NEW p \in Passwords \cup {None}
    PROVE  /\ [row EXCEPT !.password = p] \in User
           /\ [row EXCEPT !.password = p, !.status = IF @ = "pending" THEN "active" ELSE @] \in User
BY DEF User, Status

\* update_password_hash and mark_email_verified on one row.
LEMMA Verified ==
    ASSUME NEW us \in [Users -> User], NEW u \in Users, NEW p
    PROVE  MarkEmailVerified(UpdatePasswordHash(us, u, p), u) =
             [us EXCEPT ![u] = [us[u] EXCEPT !.password = p,
                                             !.status = IF @ = "pending" THEN "active" ELSE @]]
<1>1. us[u] \in User
  OBVIOUS
<1> DEFINE row == [us[u] EXCEPT !.password = p, !.status = IF @ = "pending" THEN "active" ELSE @]
<1>2. row = [[us[u] EXCEPT !.password = p] EXCEPT !.status = IF @ = "pending" THEN "active" ELSE @]
  BY <1>1 DEF User
<1> QED  BY <1>1, <1>2 DEF MarkEmailVerified, UpdatePasswordHash

LEMMA VerifyStep ==
    ASSUME AccountsInv, NEW r \in Reqs, VerifyCommit(r)
    PROVE  AccountsInv'
<1> USE DEF redis
<1>0. /\ req[r] \in Req /\ RequestOK(req[r], user, link) /\ link \in Seq(Link) /\ req[r].pc = "verify"
      /\ user \in [Users -> User] /\ Done(r) /\ UNCHANGED <<flow, active>>
      /\ chosen \in [Users -> Passwords \cup {None}] /\ proven \in [Users -> SUBSET Addresses]
      /\ user[Owner].status \in {"active", "gone"}
  BY Rows DEF VerifyCommit
<1>1. PICK u \in Users, i \in DOMAIN link, p \in Passwords : u = req[r].user /\ i = req[r].link /\ p = req[r].password
  BY <1>0 DEF RequestOK
<1>2. CASE UNCHANGED <<user, link, proven, chosen>>
  BY <1>0, <1>2, DoneStep
<1>3. CASE /\ Exists(u)
           /\ user' = MarkEmailVerified(UpdatePasswordHash(user, u, Adopt(u, link[i].password)), u)
           /\ link' = RevokeActiveVerification(ConsumeVerification(i), u)
           /\ proven' = [proven EXCEPT ![u] = @ \cup {link[i].to}]
           /\ chosen' = IF user[u].status = "pending" THEN [chosen EXCEPT ![u] = p] ELSE chosen
  <2>a. link[i] \in Link /\ LinkOK(link[i], user) /\ link[i].user = u
    BY <1>0, <1>1, LinkAt DEF RequestOK
  <2>b. link[i].password \in Passwords \cup {None} /\ link[i].to \in Addresses
    BY <2>a DEF Link
  <2>1. PICK q : q = Adopt(u, link[i].password)
    OBVIOUS
  <2>2. /\ q \in Passwords \cup {None} /\ user[u].status \in {"pending", "active"} /\ user[u] \in User
        /\ user[u].status = "active" => q = user[u].password
        /\ user[u].status = "pending" => q = p /\ link[i].to = user[u].email
    <3>1. user[u] \in User /\ user[u].status \in {"pending", "active"}
      BY <1>0, <1>3 DEF Exists
    <3>2. user[u].password \in Passwords \cup {None}
      BY <3>1 DEF User
    <3>3. user[u].status = "pending" => q = p
      BY <1>0, <1>1, <2>1 DEF Adopt, RequestOK
    <3> QED  BY <2>a, <2>b, <2>1, <3>1, <3>2, <3>3 DEF Adopt, LinkOK
  <2> DEFINE row == [user[u] EXCEPT !.password = q, !.status = IF @ = "pending" THEN "active" ELSE @]
  <2>3. user' = [user EXCEPT ![u] = row]
    BY <1>0, <1>3, <2>1, Verified
  <2>4. row \in User /\ row.status = "active" /\ row.password = q /\ row.email = user[u].email
    BY <2>2, RowOK DEF User
  <2> HIDE DEF row
  <2>5. /\ user' \in [Users -> User] /\ user'[u] = row /\ \A v \in Users : v # u => user'[v] = user[v]
        /\ Onward(user, user') /\ user'[Owner].status \in {"active", "gone"}
    BY <2>3, <2>4, OneRow
  <2>6. link' \in Seq(Link) /\ Keeps(link, link') /\ DOMAIN link' = DOMAIN link
    <3> DEFINE ms == ConsumeVerification(i)
    <3>1. ms \in Seq(Link) /\ Keeps(link, ms) /\ DOMAIN ms = DOMAIN link
      BY <1>0, ConsumedOK DEF ConsumeVerification
    <3> HIDE DEF ms
    <3>2. link' = Revoked(ms, u, {"verification"})
      BY <1>3 DEF RevokeActiveVerification, ms
    <3>3. link' \in Seq(Link) /\ Keeps(ms, link') /\ DOMAIN link' = DOMAIN ms
      BY <3>1, <3>2, RevokedOK
    <3> QED  BY <3>1, <3>3, KeepsOn
  <2>7. /\ proven' \in [Users -> SUBSET Addresses] /\ proven'[u] = proven[u] \cup {link[i].to}
        /\ \A v \in Users : v # u => proven'[v] = proven[v]
    BY <1>0, <1>3, <2>b
  <2>8. /\ chosen' \in [Users -> Passwords \cup {None}] /\ \A v \in Users : v # u => chosen'[v] = chosen[v]
        /\ chosen'[u] = IF user[u].status = "pending" THEN p ELSE chosen[u]
    BY <1>0, <1>3
  <2>9. row.password = chosen'[u] /\ row.email \in proven'[u]
    <3>1. CASE user[u].status = "pending"
      BY <2>2, <2>4, <2>7, <2>8, <3>1
    <3>2. CASE user[u].status = "active"
      BY <2>2, <2>4, <2>7, <2>8, <3>2, Rows DEF AccountIsItsOwners
    <3> QED  BY <2>2, <3>1, <3>2
  <2>10. AccountIsItsOwners'
    BY <2>5, <2>7, <2>8, <2>9, StillItsOwners
  <2> QED  BY <1>0, <2>5, <2>6, <2>7, <2>8, <2>10, IdleRequestOK, Rows, RequestStep DEF Done
<1> QED  BY <1>1, <1>2, <1>3 DEF VerifyCommit

LEMMA ResetStep ==
    ASSUME AccountsInv, NEW r \in Reqs, ResetCommit(r)
    PROVE  AccountsInv'
<1> USE DEF redis, history
<1>0. /\ req[r] \in Req /\ RequestOK(req[r], user, link) /\ link \in Seq(Link) /\ req[r].pc = "reset"
      /\ user \in [Users -> User] /\ UNCHANGED <<flow, active>> /\ req \in [Reqs -> Req]
      /\ chosen \in [Users -> Passwords \cup {None}] /\ proven \in [Users -> SUBSET Addresses]
      /\ user[Owner].status \in {"active", "gone"}
  BY Rows DEF ResetCommit
<1>1. PICK u \in Users, i \in DOMAIN link, p \in Passwords : u = req[r].user /\ i = req[r].link /\ p = req[r].password
  BY <1>0 DEF RequestOK
<1>2. CASE Done(r) /\ UNCHANGED <<user, link, live, chosen, proven>>
  BY <1>0, <1>2, DoneStep
<1>3. CASE /\ Exists(u)
           /\ user' = MarkEmailVerified(UpdatePasswordHash(user, u, p), u)
           /\ link' = RevokeMailboxLinks(ResetRevokes(ConsumePasswordReset(i), u), u)
           /\ chosen' = [chosen EXCEPT ![u] = p]
           /\ proven' = [proven EXCEPT ![u] = @ \cup {link[i].to}]
           /\ Goto(r, "purge")
  <2>a. link[i] \in Link /\ LinkOK(link[i], user) /\ link[i].user = u
    BY <1>0, <1>1, LinkAt DEF RequestOK
  <2>b. link[i].to \in Addresses
    BY <2>a DEF Link
  <2>2. /\ user[u].status \in {"pending", "active"} /\ user[u] \in User
        /\ user[u].status = "pending" => link[i].to = user[u].email
    BY <1>0, <1>3, <2>a DEF Exists, LinkOK
  <2> DEFINE row == [user[u] EXCEPT !.password = p, !.status = IF @ = "pending" THEN "active" ELSE @]
  <2>3. user' = [user EXCEPT ![u] = row]
    BY <1>0, <1>3, Verified
  <2>4. row \in User /\ row.status = "active" /\ row.password = p /\ row.email = user[u].email
    BY <2>2, RowOK DEF User
  <2> HIDE DEF row
  <2>5. /\ user' \in [Users -> User] /\ user'[u] = row /\ \A v \in Users : v # u => user'[v] = user[v]
        /\ Onward(user, user') /\ user'[Owner].status \in {"active", "gone"}
    BY <2>3, <2>4, OneRow
  <2>6. link' \in Seq(Link) /\ Keeps(link, link') /\ DOMAIN link' = DOMAIN link
    <3> DEFINE ms == ConsumePasswordReset(i)
               ns == ResetRevokes(ms, u)
    <3>1. ms \in Seq(Link) /\ Keeps(link, ms) /\ DOMAIN ms = DOMAIN link
      BY <1>0, ConsumedOK DEF ConsumePasswordReset
    <3> HIDE DEF ms
    <3>2. ns \in Seq(Link) /\ Keeps(ms, ns) /\ DOMAIN ns = DOMAIN ms
      <4>1. Revoked(ms, u, {"verification"}) \in Seq(Link) /\ Keeps(ms, Revoked(ms, u, {"verification"}))
            /\ DOMAIN Revoked(ms, u, {"verification"}) = DOMAIN ms
        BY <3>1, RevokedOK
      <4> QED  BY <3>1, <4>1, KeepsItself DEF ResetRevokes, RevokeActiveVerification
    <3> HIDE DEF ns
    <3>3. link' = Revoked(ns, u, {"reset"})
      BY <1>3 DEF RevokeMailboxLinks, RevokeActivePasswordReset, ms, ns
    <3>4. link' \in Seq(Link) /\ Keeps(ns, link') /\ DOMAIN link' = DOMAIN ns
      BY <3>2, <3>3, RevokedOK
    <3>5. Keeps(ms, link')
      BY <3>2, <3>4, KeepsOn
    <3> QED  BY <3>1, <3>2, <3>4, <3>5, KeepsOn
  <2>7. /\ proven' \in [Users -> SUBSET Addresses] /\ proven'[u] = proven[u] \cup {link[i].to}
        /\ \A v \in Users : v # u => proven'[v] = proven[v]
    BY <1>0, <1>3, <2>b
  <2>8. /\ chosen' \in [Users -> Passwords \cup {None}] /\ \A v \in Users : v # u => chosen'[v] = chosen[v]
        /\ chosen'[u] = p
    BY <1>0, <1>3
  <2>9. row.email \in proven'[u]
    <3>1. CASE user[u].status = "pending"
      BY <2>2, <2>4, <2>7, <3>1
    <3>2. CASE user[u].status = "active"
      BY <2>4, <2>7, <3>2, Rows DEF AccountIsItsOwners
    <3> QED  BY <2>2, <3>1, <3>2
  <2>10. AccountIsItsOwners'
    BY <2>4, <2>5, <2>7, <2>8, <2>9, StillItsOwners
  <2> DEFINE x == [req[r] EXCEPT !.pc = "purge"]
  <2>11. x \in Req /\ x.pc = "purge" /\ req' = [req EXCEPT ![r] = x]
    BY <1>0, <1>3 DEF Req, Goto
  <2> HIDE DEF x
  <2>12. RequestOK(x, user', link')
    BY <2>11 DEF RequestOK
  <2> QED  BY <1>0, <2>5, <2>6, <2>7, <2>8, <2>10, <2>11, <2>12, Rows, RequestStep
<1> QED  BY <1>1, <1>2, <1>3 DEF ResetCommit

LEMMA PasswordStep ==
    ASSUME AccountsInv, NEW r \in Reqs, PasswordCommit(r)
    PROVE  AccountsInv'
<1> USE DEF redis, history
<1>0. /\ req[r] \in Req /\ RequestOK(req[r], user, link) /\ link \in Seq(Link) /\ req[r].pc = "password"
      /\ user \in [Users -> User] /\ UNCHANGED <<flow, active, proven>> /\ req \in [Reqs -> Req]
      /\ chosen \in [Users -> Passwords \cup {None}] /\ proven \in [Users -> SUBSET Addresses]
      /\ user[Owner].status \in {"active", "gone"} /\ Owner \in Users
  BY Rows DEF PasswordCommit
<1>1. PICK p \in Passwords : p = req[r].password
  BY <1>0 DEF RequestOK
<1>2. CASE Done(r) /\ UNCHANGED <<user, link, live, chosen>>
  BY <1>0, <1>2, DoneStep
<1>3. CASE /\ Exists(Owner)
           /\ user' = UpdatePasswordHash(user, Owner, p)
           /\ chosen' = [chosen EXCEPT ![Owner] = p]
           /\ link' = RevokeMailboxLinks(link, Owner)
           /\ Goto(r, "purge")
  <2>1. user[Owner].status = "active" /\ user[Owner] \in User
    BY <1>0, <1>3 DEF Exists
  <2> DEFINE row == [user[Owner] EXCEPT !.password = p]
  <2>2. user' = [user EXCEPT ![Owner] = row]
    BY <1>0, <1>3 DEF UpdatePasswordHash
  <2>3. row \in User /\ row.status = "active" /\ row.password = p /\ row.email = user[Owner].email
    BY <2>1 DEF User
  <2> HIDE DEF row
  <2>4. /\ user' \in [Users -> User] /\ user'[Owner] = row /\ \A v \in Users : v # Owner => user'[v] = user[v]
        /\ Onward(user, user') /\ user'[Owner].status \in {"active", "gone"}
    BY <1>0, <2>2, <2>3, OneRow
  <2>5. link' = Revoked(link, Owner, {"reset"})
    BY <1>3 DEF RevokeMailboxLinks, RevokeActivePasswordReset
  <2>6. link' \in Seq(Link) /\ Keeps(link, link') /\ DOMAIN link' = DOMAIN link
    BY <1>0, <2>5, RevokedOK
  <2>7. /\ chosen' \in [Users -> Passwords \cup {None}] /\ chosen'[Owner] = p
        /\ \A v \in Users : v # Owner => chosen'[v] = chosen[v]
    BY <1>0, <1>3
  <2>8. row.email \in proven'[Owner]
    BY <1>0, <2>1, <2>3, Rows DEF AccountIsItsOwners
  <2>9. AccountIsItsOwners'
    BY <1>0, <2>3, <2>4, <2>7, <2>8, StillItsOwners
  <2> DEFINE x == [req[r] EXCEPT !.pc = "purge"]
  <2>10. x \in Req /\ x.pc = "purge" /\ req' = [req EXCEPT ![r] = x]
    BY <1>0, <1>3 DEF Req, Goto
  <2> HIDE DEF x
  <2>11. RequestOK(x, user', link')
    BY <2>10 DEF RequestOK
  <2> QED  BY <1>0, <2>4, <2>6, <2>7, <2>9, <2>10, <2>11, Rows, RequestStep
<1> QED  BY <1>1, <1>2, <1>3 DEF PasswordCommit

LEMMA ConfirmStep ==
    ASSUME AccountsInv, NEW r \in Reqs, ConfirmCommit(r)
    PROVE  AccountsInv'
<1> USE DEF redis, history
<1>0. /\ req[r] \in Req /\ RequestOK(req[r], user, link) /\ link \in Seq(Link) /\ req[r].pc = "confirm"
      /\ user \in [Users -> User] /\ UNCHANGED <<flow, active, chosen>> /\ req \in [Reqs -> Req]
      /\ chosen \in [Users -> Passwords \cup {None}] /\ proven \in [Users -> SUBSET Addresses]
      /\ user[Owner].status \in {"active", "gone"} /\ Owner \in Users
  BY Rows DEF ConfirmCommit
<1>1. PICK a \in Addresses : a = req[r].read.email /\ a = req[r].read.code
  BY <1>0 DEF RequestOK
<1>2. CASE Done(r) /\ UNCHANGED <<user, link, live, proven>>
  BY <1>0, <1>2, DoneStep
<1>3. CASE /\ Exists(Owner)
           /\ user' = ChangeEmail(user, Owner, a)
           /\ link' = RevokeMailboxLinks(RevokeActiveVerification(link, Owner), Owner)
           /\ proven' = [proven EXCEPT ![Owner] = @ \cup {a}]
           /\ Goto(r, "purge")
  <2>1. user[Owner].status = "active" /\ user[Owner] \in User
    BY <1>0, <1>3 DEF Exists
  <2> DEFINE row == [user[Owner] EXCEPT !.email = a]
  <2>2. user' = [user EXCEPT ![Owner] = row]
    BY <1>0, <1>3 DEF ChangeEmail
  <2>3. row \in User /\ row.status = "active" /\ row.password = user[Owner].password /\ row.email = a
    BY <2>1 DEF User
  <2> HIDE DEF row
  <2>4. /\ user' \in [Users -> User] /\ user'[Owner] = row /\ \A v \in Users : v # Owner => user'[v] = user[v]
        /\ Onward(user, user') /\ user'[Owner].status \in {"active", "gone"}
    BY <1>0, <2>2, <2>3, OneRow
  <2>5. link' \in Seq(Link) /\ Keeps(link, link') /\ DOMAIN link' = DOMAIN link
    <3> DEFINE ms == Revoked(link, Owner, {"verification"})
    <3>1. ms \in Seq(Link) /\ Keeps(link, ms) /\ DOMAIN ms = DOMAIN link
      BY <1>0, RevokedOK
    <3> HIDE DEF ms
    <3>2. link' = Revoked(ms, Owner, {"reset"})
      BY <1>3 DEF RevokeMailboxLinks, RevokeActivePasswordReset, RevokeActiveVerification, ms
    <3>3. link' \in Seq(Link) /\ Keeps(ms, link') /\ DOMAIN link' = DOMAIN ms
      BY <3>1, <3>2, RevokedOK
    <3> QED  BY <3>1, <3>3, KeepsOn
  <2>6. /\ proven' \in [Users -> SUBSET Addresses] /\ a \in proven'[Owner]
        /\ \A v \in Users : v # Owner => proven'[v] = proven[v]
    BY <1>0, <1>3
  <2>7. row.password = chosen'[Owner]
    BY <1>0, <2>1, <2>3, Rows DEF AccountIsItsOwners
  <2>8. AccountIsItsOwners'
    BY <1>0, <2>3, <2>4, <2>6, <2>7, StillItsOwners
  <2> DEFINE x == [req[r] EXCEPT !.pc = "purge"]
  <2>9. x \in Req /\ x.pc = "purge" /\ req' = [req EXCEPT ![r] = x]
    BY <1>0, <1>3 DEF Req, Goto
  <2> HIDE DEF x
  <2>10. RequestOK(x, user', link')
    BY <2>9 DEF RequestOK
  <2> QED  BY <1>0, <2>4, <2>5, <2>6, <2>8, <2>9, <2>10, Rows, RequestStep
<1> QED  BY <1>1, <1>2, <1>3 DEF ConfirmCommit

\* A row that goes, with its links.
LEMMA ErasedOK ==
    ASSUME AccountsInv, NEW u \in Users, Erased(u), UNCHANGED history
    PROVE  /\ user' \in [Users -> User] /\ Onward(user, user') /\ user'[Owner].status \in {"active", "gone"}
           /\ link' \in Seq(Link) /\ Keeps(link, link') /\ DOMAIN link' = DOMAIN link
           /\ user'[u].status = "gone" /\ AccountIsItsOwners'
<1> DEFINE row == [NoUser EXCEPT !.status = "gone"]
<1>1. row \in User /\ row.status = "gone" /\ user' = [user EXCEPT ![u] = row]
  BY DEF Erased, NoUser, User, Status
<1> HIDE DEF row
<1>2. /\ user' \in [Users -> User] /\ user'[u] = row /\ \A v \in Users : v # u => user'[v] = user[v]
      /\ Onward(user, user') /\ user'[Owner].status \in {"active", "gone"}
  BY <1>1, OneRow
<1>3. link' \in Seq(Link) /\ Keeps(link, link') /\ DOMAIN link' = DOMAIN link
  BY Rows, RevokedOK DEF Erased
<1>4. AccountIsItsOwners'
  BY <1>1, <1>2, StillItsOwners DEF history
<1> QED  BY <1>1, <1>2, <1>3, <1>4

LEMMA EraseAccountStep ==
    ASSUME AccountsInv, NEW r \in Reqs, EraseCommit(r)
    PROVE  AccountsInv'
BY Rows, ErasedOK, IdleRequestOK, RequestStep DEF EraseCommit, Done, redis, history

\* The sweep, which no request runs.
LEMMA PurgeUnverifiedStep ==
    ASSUME AccountsInv, NEW u \in Users, PurgeUnverified(u)
    PROVE  AccountsInv'
<1>1. /\ user' \in [Users -> User] /\ Onward(user, user') /\ user'[Owner].status \in {"active", "gone"}
      /\ link' \in Seq(Link) /\ Keeps(link, link') /\ DOMAIN link' = DOMAIN link /\ AccountIsItsOwners'
  BY ErasedOK DEF PurgeUnverified
<1>2. UNCHANGED <<flow, active, req, chosen, proven>>
  BY DEF PurgeUnverified, redis, history
<1>3. \A r \in Reqs : RequestOK(req'[r], user', link')
  BY <1>1, <1>2, Rows, StillOK
<1>4. \A i \in DOMAIN link' : LinkOK(link'[i], user')
  BY <1>1, LinkAt, LinkStillOK DEF Keeps
<1> QED  BY <1>1, <1>2, <1>3, <1>4, Rows DEF AccountsInv, AccountsTyped

\* Keys that end, and steps that leave what the invariant is about.
LEMMA FlowsOnly ==
    ASSUME AccountsInv, UNCHANGED <<user, link, req, chosen, proven>>,
           flow' \in [Flows -> Flow], \A f \in Flows : FlowOK(flow'[f]), active' \in Flows \cup {None}
    PROVE  AccountsInv'
<1>1. AccountIsItsOwners'
  BY Rows DEF AccountIsItsOwners
<1> QED  BY <1>1 DEF AccountsInv, AccountsTyped

LEMMA ExpirySteps ==
    ASSUME AccountsInv, ActiveExpires \/ UNCHANGED accountVars \/ \E f \in Flows : FlowExpires(f)
    PROVE  AccountsInv'
<1>1. CASE ActiveExpires
  BY <1>1, Rows, FlowsOnly DEF ActiveExpires, history
<1>2. CASE UNCHANGED accountVars
  BY <1>2, Rows, FlowsOnly DEF accountVars
<1>3. ASSUME NEW f \in Flows, FlowExpires(f) PROVE AccountsInv'
  <2>1. flow \in [Flows -> Flow] /\ flow' = [flow EXCEPT ![f].step = "gone"] /\ \A g \in Flows : FlowOK(flow[g])
    BY <1>3, Rows DEF FlowExpires
  <2>2. \A g \in Flows : flow'[g] \in Flow /\ FlowOK(flow'[g])
    BY <2>1 DEF Flow, FlowOK
  <2>3. flow' \in [Flows -> Flow]
    BY <2>1, <2>2
  <2> QED  BY <1>3, <2>2, <2>3, Rows, FlowsOnly DEF FlowExpires, history
<1> QED  BY <1>1, <1>2, <1>3
-----------------------------------------------------------------------------
LEMMA AccountsInitOK == AccountsInit => AccountsInv
<1> SUFFICES ASSUME AccountsInit PROVE AccountsInv
  OBVIOUS
<1>0. Owner \in Users /\ Home \in Addresses
  BY AccountsAssumption
<1>1. PICK p \in Passwords :
         /\ user = [u \in Users |-> IF u = Owner
                        THEN [status |-> "active", email |-> Home, password |-> p] ELSE NoUser]
         /\ chosen = [u \in Users |-> IF u = Owner THEN p ELSE None]
  BY DEF AccountsInit
<1>2. user \in [Users -> User] /\ user[Owner].status = "active"
  BY <1>0, <1>1 DEF User, Status, NoUser
<1>3. link \in Seq(Link) /\ DOMAIN link = {}
  BY DEF AccountsInit
<1>4. flow \in [Flows -> Flow] /\ \A f \in Flows : FlowOK(flow[f])
  BY DEF AccountsInit, Flow, NoFlow, FlowOK
<1>5. req \in [Reqs -> Req] /\ \A r \in Reqs : RequestOK(req[r], user, link)
  BY IdleRequestOK DEF AccountsInit
<1>6. chosen \in [Users -> Passwords \cup {None}] /\ proven \in [Users -> SUBSET Addresses]
  BY <1>0, <1>1 DEF AccountsInit
<1>7. AccountIsItsOwners
  BY <1>0, <1>1 DEF AccountIsItsOwners, AccountsInit, NoUser
<1> QED  BY <1>2, <1>3, <1>4, <1>5, <1>6, <1>7 DEF AccountsInv, AccountsTyped, AccountsInit

LEMMA AccountsInvStep == AccountsInv /\ [AccountsNext]_accountVars => AccountsInv'
<1> SUFFICES ASSUME AccountsInv, [AccountsNext]_accountVars PROVE AccountsInv'
  OBVIOUS
<1>1. ASSUME NEW r \in Reqs, Step(r) PROVE AccountsInv'
  <2>1. ASSUME NEW a \in Addresses, NEW p \in Passwords, Register(r, a, p) PROVE AccountsInv'
    BY <2>1, RegistrationBegins
  <2>2. ASSUME NEW a \in Addresses, ResendVerification(r, a) \/ ForgotPassword(r, a) PROVE AccountsInv'
    BY <2>2, RegistrationBegins
  <2>3. ASSUME NEW i, NEW p \in Passwords, VerifyEmail(r, i, p) \/ ResetPassword(r, i, p) PROVE AccountsInv'
    BY <2>3, LinkBegins
  <2>4. ASSUME NEW s \in Sessions, NEW p \in Passwords, ChangePassword(r, s, p) PROVE AccountsInv'
    BY <2>4, SignedInBegins
  <2>5. ASSUME NEW s \in Sessions, DeleteAccount(r, s) \/ StartEmailChange(r, s) PROVE AccountsInv'
    BY <2>5, SignedInBegins
  <2>6. ASSUME NEW s \in Sessions, NEW f \in Flows,
               VerifyCurrentEmail(r, s, f) \/ SubmitNewEmail(r, s, f) \/ ConfirmNewEmail(r, s, f)
        PROVE  AccountsInv'
    BY <2>6, SignedInBegins
  <2>7. ASSUME NEW a \in Addresses, SubmitSave(r, a) PROVE AccountsInv'
    BY <2>7, FlowSteps
  <2>8. CASE StartCancel(r) \/ StartSave(r) \/ StartActivate(r) \/ CurrentSave(r)
    BY <2>8, FlowSteps
  <2>9. CASE Purge(r) \/ PurgeDelete(r) \/ Drop(r)
    BY <2>9, PurgeSteps
  <2>10. CASE RegisterCreate(r) \/ IssueVerification(r) \/ SendResetLink(r)
    BY <2>10, RegisterStep, IssueSteps
  <2>11. CASE VerifyCommit(r) \/ ResetCommit(r) \/ PasswordCommit(r) \/ EraseCommit(r) \/ ConfirmCommit(r)
    BY <2>11, VerifyStep, ResetStep, PasswordStep, EraseAccountStep, ConfirmStep
  <2> QED  BY <1>1, <2>1, <2>2, <2>3, <2>4, <2>5, <2>6, <2>7, <2>8, <2>9, <2>10, <2>11 DEF Step
<1> QED  BY <1>1, PurgeUnverifiedStep, ExpirySteps DEF AccountsNext

(***************************************************************************)
(* Whatever registrations, resets, changes and erasures run at once, the   *)
(* password of an active account was chosen by someone who proved it       *)
(* theirs, and its address was proven for it (register.rs,                 *)
(* password_reset.rs, email_change.rs).                                    *)
(***************************************************************************)
THEOREM AccountsAreTheirOwners == AccountsSpec => []AccountIsItsOwners
<1>1. AccountsInv => AccountIsItsOwners
  BY DEF AccountsInv
<1> QED  BY <1>1, AccountsInitOK, AccountsInvStep, PTL DEF AccountsSpec

\* Who writes a row: every other step leaves them.
LEMMA WritesRows ==
    ASSUME NEW r \in Reqs, Step(r), user' # user
    PROVE  \/ RegisterCreate(r) \/ VerifyCommit(r) \/ ResetCommit(r) \/ PasswordCommit(r)
           \/ EraseCommit(r) \/ ConfirmCommit(r)
<1>1. ASSUME Reads PROVE FALSE
  BY <1>1 DEF Reads
<1>2. ~ \E a \in Addresses, p \in Passwords : Register(r, a, p)
  BY <1>1 DEF Register
<1>3. ~ \E a \in Addresses : ResendVerification(r, a) \/ ForgotPassword(r, a)
  BY <1>1 DEF ResendVerification, ForgotPassword
<1>4. ~ \E i \in 1..MaxLinks, p \in Passwords : VerifyEmail(r, i, p) \/ ResetPassword(r, i, p)
  BY <1>1 DEF VerifyEmail, ResetPassword
<1>5. ~ \E s \in Sessions, p \in Passwords : ChangePassword(r, s, p)
  <2> SUFFICES ASSUME NEW s \in Sessions, NEW p \in Passwords, ChangePassword(r, s, p) PROVE Reads
    BY <1>1
  <2> QED  BY Zenon DEF ChangePassword
<1>6. ~ \E s \in Sessions : DeleteAccount(r, s) \/ StartEmailChange(r, s)
  <2> SUFFICES ASSUME NEW s \in Sessions, DeleteAccount(r, s) \/ StartEmailChange(r, s) PROVE Reads
    BY <1>1
  <2> QED  BY Zenon DEF DeleteAccount, StartEmailChange
<1>7. ~ \E s \in Sessions, f \in Flows :
          VerifyCurrentEmail(r, s, f) \/ SubmitNewEmail(r, s, f) \/ ConfirmNewEmail(r, s, f)
  <2> SUFFICES ASSUME NEW s \in Sessions, NEW f \in Flows, NEW op, Load(r, s, f, op) PROVE Reads
    BY <1>1 DEF VerifyCurrentEmail, SubmitNewEmail, ConfirmNewEmail
  <2> QED  BY Zenon DEF Load
<1>8. ~ IssueVerification(r) /\ ~ SendResetLink(r) /\ ~ Purge(r) /\ ~ PurgeDelete(r) /\ ~ Drop(r)
  BY DEF IssueVerification, SendResetLink, Purge, PurgeDelete, Drop
<1>9. ~ StartCancel(r) /\ ~ StartSave(r) /\ ~ StartActivate(r) /\ ~ CurrentSave(r)
  BY DEF StartCancel, StartSave, StartActivate, CurrentSave
<1>10. ~ \E a \in Addresses : SubmitSave(r, a)
  <2> SUFFICES ASSUME NEW a \in Addresses, SubmitSave(r, a) PROVE user' = user
    OBVIOUS
  <2> QED  BY Zenon DEF SubmitSave
<1> QED  BY <1>2, <1>3, <1>4, <1>5, <1>6, <1>7, <1>8, <1>9, <1>10 DEF Step

LEMMA SameEmail ==
    ASSUME NEW us \in [Users -> User], NEW u \in Users, NEW v \in Users, NEW p
    PROVE  /\ MarkEmailVerified(UpdatePasswordHash(us, u, p), u)[v].email = us[v].email
           /\ UpdatePasswordHash(us, u, p)[v].email = us[v].email
<1>1. us[u] \in User /\ us[v] \in User
  OBVIOUS
<1> DEFINE row == [us[u] EXCEPT !.password = p]
           row2 == [us[u] EXCEPT !.password = p, !.status = IF @ = "pending" THEN "active" ELSE @]
<1>2. row.email = us[u].email /\ row2.email = us[u].email
  BY <1>1 DEF User
<1>3. UpdatePasswordHash(us, u, p) = [us EXCEPT ![u] = row]
  BY DEF UpdatePasswordHash
<1>4. MarkEmailVerified(UpdatePasswordHash(us, u, p), u) = [us EXCEPT ![u] = row2]
  BY Verified, Zenon
<1> HIDE DEF row, row2
<1> QED  BY <1>2, <1>3, <1>4

\* The address of an account that stays is changed by a confirmed change alone.
LEMMA EmailStep ==
    ASSUME AccountsInv, [AccountsNext]_accountVars,
           user'[Owner].email # user[Owner].email, user'[Owner].status = "active"
    PROVE  \E r \in Reqs : req[r].pc = "confirm" /\ req[r].read.confirmed
<1>0. /\ user \in [Users -> User] /\ Owner \in Users /\ user[Owner].status \in {"active", "gone"}
      /\ \A r \in Reqs : RequestOK(req[r], user, link)
  BY Rows
<1>1. ASSUME NEW u \in Users, Erased(u) PROVE u # Owner /\ user'[Owner] = user[Owner]
  BY <1>0, <1>1 DEF Erased, NoUser
<1>2. ASSUME NEW u \in Users, PurgeUnverified(u) PROVE FALSE
  BY <1>1, <1>2 DEF PurgeUnverified
<1>3. user' # user
  OBVIOUS
<1>4. PICK r \in Reqs : Step(r)
  BY <1>2, <1>3 DEF AccountsNext, accountVars, FlowExpires, ActiveExpires
<1>5. CASE RegisterCreate(r)
  <2>1. PICK u \in Users : user[u].status = "none" /\ user' = Created(u, req[r].address, req[r].password)
    BY <1>3, <1>5 DEF RegisterCreate
  <2>2. user'[Owner] = user[Owner]
    BY <1>0, <2>1 DEF Created
  <2> QED  BY <2>2
<1>6. CASE VerifyCommit(r)
  <2>1. req[r].user \in Users
    BY <1>0, <1>6 DEF VerifyCommit, RequestOK
  <2>2. PICK p : user' = MarkEmailVerified(UpdatePasswordHash(user, req[r].user, p), req[r].user)
    BY <1>3, <1>6 DEF VerifyCommit
  <2> QED  BY <1>0, <2>1, <2>2, SameEmail
<1>7. CASE ResetCommit(r)
  <2>1. req[r].user \in Users
    BY <1>0, <1>7 DEF ResetCommit, RequestOK
  <2>2. PICK p : user' = MarkEmailVerified(UpdatePasswordHash(user, req[r].user, p), req[r].user)
    BY <1>3, <1>7 DEF ResetCommit
  <2> QED  BY <1>0, <2>1, <2>2, SameEmail
<1>8. CASE PasswordCommit(r)
  <2>1. PICK p : user' = UpdatePasswordHash(user, Owner, p)
    BY <1>3, <1>8 DEF PasswordCommit
  <2> QED  BY <1>0, <2>1, SameEmail
<1>9. CASE EraseCommit(r)
  BY <1>0, <1>1, <1>9 DEF EraseCommit
<1>10. CASE ConfirmCommit(r)
  BY <1>0, <1>10 DEF ConfirmCommit, RequestOK
<1> QED  BY <1>3, <1>4, <1>5, <1>6, <1>7, <1>8, <1>9, <1>10, WritesRows

(***************************************************************************)
(* The address of the Owner changes only by a request that loaded a flow   *)
(* in which the code sent to the former address was confirmed              *)
(* (FlowStep::after, submit_new, confirm_new).                             *)
(***************************************************************************)
THEOREM BothMailboxes == AccountsSpec => ChangeNeedsBothMailboxes
<1>1. AccountsInv /\ [AccountsNext]_accountVars =>
         [user'[Owner].email # user[Owner].email /\ user'[Owner].status = "active" =>
             \E r \in Reqs : req[r].pc = "confirm" /\ req[r].read.confirmed]_accountVars
  BY EmailStep
<1> QED  BY <1>1, AccountsInitOK, AccountsInvStep, PTL DEF AccountsSpec, ChangeNeedsBothMailboxes
=============================================================================
