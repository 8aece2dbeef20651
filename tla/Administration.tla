--------------------------- MODULE Administration ---------------------------
(***************************************************************************)
(* Roles, the permissions they grant, who holds them, and what an          *)
(* administrator does to another account.                                  *)
(*                                                                         *)
(* A transaction takes its locks one by one, checks what it sees of the    *)
(* committed state with its own changes applied, and commits (READ         *)
(* COMMITTED: each statement sees what has committed by then).  A row lock *)
(* is held to the end of the transaction, and the lock of                  *)
(* keep_an_administrator too.  Two transactions that wait for each other   *)
(* are ended by the database: one is dropped, as any request may be.       *)
(* Whether an administrator's token is still good is TokenState's and      *)
(* Sessions' question; here whoever holds the permission in the database   *)
(* may ask.  Left out: audit entries, events and mails, names of roles,    *)
(* lockouts (Lockout).                                                     *)
(***************************************************************************)
EXTENDS Integers, FiniteSets

CONSTANTS
    Members,
    Roles, DefaultRole, AdminRole, \* names; the role of every account, and the one seeded for administrators
    Permissions,        \* names; with the administrative ones
    Factors,            \* what counts as a second factor: "method" (verified), "passkey"
    Txs,                \* requests running at once
    MaxTxs,        \* bound on requests txStarted
    NoTx

ROLES_MANAGE == "roles:manage"
USERS_MANAGE == "users:manage"
ADMIN_PERMISSIONS == {ROLES_MANAGE, USERS_MANAGE}

ASSUME AdministrationAssumption ==
    /\ DefaultRole \in Roles /\ AdminRole \in Roles \ {DefaultRole}
    /\ ADMIN_PERMISSIONS \subseteq Permissions
    /\ "method" \in Factors /\ Factors \subseteq {"method", "passkey"}
    /\ NoTx \notin Members \cup Roles
    /\ MaxTxs \in Nat

VARIABLES
    db,         \* what has committed
    tx,         \* requests and their transactions
    txStarted,
    \* history
    late,       \* accounts signed in by a request that read their status before they were suspended
    hurried     \* accounts the command line gave a role that changed after it was looked at

administrationVars == <<db, tx, txStarted, late, hurried>>

Db == [status: [Members -> {"active", "suspended", "gone"}],
       roles: SUBSET Roles, grants: [Roles -> SUBSET Permissions],
       holds: SUBSET (Members \X Roles), factors: [Members -> SUBSET Factors], live: SUBSET Members]

\* names: the permissions asked for, or the factors a request adds, removes or keeps.
IdleTx == [op |-> "idle", pc |-> "idle", actor |-> NoTx, user |-> NoTx, role |-> NoTx,
         names |-> {}, locks |-> {}]

\* Migration 0003 seeds the roles; who administers is what an operator did at set-up.
AdministrationInit ==
    /\ \E admins \in (SUBSET Members) \ {{}} :
          db = [status |-> [u \in Members |-> "active"], roles |-> {DefaultRole, AdminRole},
                grants |-> [r \in Roles |-> IF r = AdminRole THEN Permissions ELSE {}],
                holds |-> (Members \X {DefaultRole}) \cup (admins \X {AdminRole}),
                factors |-> [u \in Members |-> IF u \in admins THEN {"method"} ELSE {}],
                live |-> Members]
    /\ tx = [t \in Txs |-> IdleTx]
    /\ txStarted = 0
    /\ late = {} /\ hurried = {}

-----------------------------------------------------------------------------
(***************************************************************************)
(* What the queries read, of a state d of the database.                    *)
(***************************************************************************)
\* user_has_permission, holds_administration.
Held(d, u) == UNION {d.grants[r] : r \in {s \in Roles : <<u, s>> \in d.holds}}
HoldsAdministration(d, u) == Held(d, u) \cap ADMIN_PERMISSIONS # {}
HoldersOf(d, r) == {u \in Members : <<u, r>> \in d.holds}
GrantsAdministration(d, r) == d.grants[r] \cap ADMIN_PERMISSIONS # {}
HasSecondFactor(d, u) == d.factors[u] # {}

\* permission_held: by an active account.
PermissionHeld(d, p) == \E u \in Members : d.status[u] = "active" /\ p \in Held(d, u)

\* ensure_can_administer, and what set_permissions asks of each holder.
CanAdminister(d, u) == d.status[u] = "active" /\ HasSecondFactor(d, u)

\* keep_a_second_factor_for_administrators.
KeepsASecondFactor(d, u) == HoldsAdministration(d, u) => HasSecondFactor(d, u)

\* ensure_actor_holds.
ActorHolds(t, permissions) == permissions \subseteq Held(db, tx[t].actor)

-----------------------------------------------------------------------------
(***************************************************************************)
(* What a transaction changes.                                             *)
(***************************************************************************)
\* find_by_name; a name created again stands for a new row, which a request that found the
\* former one does not change: here it may, more than the code does.
RoleThere(d, r) == r \in d.roles
There(d, u) == d.status[u] # "gone"

AssignedToUser(d, u, r) == [d EXCEPT !.holds = @ \cup {<<u, r>>}]
Unassigned(d, u, r) == [d EXCEPT !.holds = @ \ {<<u, r>>}]
PermissionsSet(d, r, names) == [d EXCEPT !.grants[r] = names]
RoleCreated(d, r) == [d EXCEPT !.roles = @ \cup {r}]
RoleDeleted(d, r) ==
    [d EXCEPT !.roles = @ \ {r}, !.grants[r] = {}, !.holds = {h \in @ : h[2] # r}]

\* Mutant: sessions stay.
SessionsRevokedNot(d, u) == d

\* revoke_all_by_user_returning; forget_sessions ends them in the caches.
SessionsRevoked(d, u) == [d EXCEPT !.live = @ \ {u}]
Suspended(d, u) == [d EXCEPT !.status[u] = "suspended"]
Reactivated(d, u) == [d EXCEPT !.status[u] = "active"]
AccessFactorsDropped(d, u) == [d EXCEPT !.factors[u] = {}]

\* drop_access_factors_since: of the recent ones, an account with administration keeps one
\* when it has none older.
DroppedSince(d, u, recent) ==
    LET older == d.factors[u] \ recent
    IN  {[d EXCEPT !.factors[u] = older \cup kept] :
            kept \in IF HoldsAdministration(d, u) /\ older = {} /\ d.factors[u] # {}
                     THEN {{f} : f \in d.factors[u]} ELSE {{}}}

\* erase: what hangs on the account goes by CASCADE.
WithoutUser(d, u) ==
    [d EXCEPT !.status[u] = "gone", !.factors[u] = {}, !.live = @ \ {u},
              !.holds = {h \in @ : h[1] # u}]

-----------------------------------------------------------------------------
(***************************************************************************)
(* Steps of a transaction.                                                 *)
(***************************************************************************)
adminHistory == <<late, hurried>>

BeginRequest(t, record) ==
    /\ tx[t].op = "idle" /\ txStarted < MaxTxs
    /\ txStarted' = txStarted + 1
    /\ tx' = [tx EXCEPT ![t] = record]
    /\ UNCHANGED <<db, adminHistory>>

\* AdminUser, AdminUser::require: the permission is read in the database.
Admin(a, permission) == permission \in Held(db, a)

At(t, op, pc) == tx[t].op = op /\ tx[t].pc = pc

\* Goes on at pc with the locks of xs.
Acquire(t, xs, pc) ==
    /\ \A s \in Txs \ {t} : tx[s].locks \cap xs = {}
    /\ tx' = [tx EXCEPT ![t].locks = @ \cup xs, ![t].pc = pc]

TxGoto(t, pc) == Acquire(t, {}, pc)

Commit(t, d) ==
    /\ db' = d
    /\ tx' = [tx EXCEPT ![t] = IdleTx]
    /\ late' = late \cap d.live
    /\ UNCHANGED <<txStarted, hurried>>

\* Mutant: what is read after it may change.
LockRowNot(t, pc) == TxGoto(t, pc) /\ UNCHANGED <<db, txStarted, adminHistory>>

\* lock_row; lock_permissions.
LockRow(t, pc) == Acquire(t, {tx[t].user}, pc) /\ UNCHANGED <<db, txStarted, adminHistory>>
LockPermissions(t, pc) == Acquire(t, {tx[t].role}, pc) /\ UNCHANGED <<db, txStarted, adminHistory>>

\* Mutant: a look without the lock.
KeepUnlocked(t, d) ==
    /\ PermissionHeld(d, ROLES_MANAGE)
    /\ TxGoto(t, "commit")
    /\ UNCHANGED <<db, txStarted, adminHistory>>

\* keep_an_administrator, in a transaction that would commit d: a lock of all of them, then
\* the look; the two statements are one step, what commits between them takes nothing away.
KeepAnAdministrator(t, d) ==
    /\ PermissionHeld(d, ROLES_MANAGE)
    /\ Acquire(t, {"roles_manage_guard"}, "commit")
    /\ UNCHANGED <<db, txStarted, adminHistory>>

\* A check fails, the client goes away or the database breaks a cycle of waits.
TxDrops(t) ==
    /\ tx[t].op # "idle"
    /\ tx' = [tx EXCEPT ![t] = IdleTx]
    /\ UNCHANGED <<db, txStarted, adminHistory>>

-----------------------------------------------------------------------------
(***************************************************************************)
(* Roles.                                                                  *)
(***************************************************************************)
CreateRole(t, a, r, names) ==
    /\ Admin(a, ROLES_MANAGE)
    /\ BeginRequest(t, [IdleTx EXCEPT !.op = "create", !.pc = "commit", !.actor = a, !.role = r,
                             !.names = names])

Create(t) ==
    LET x == tx[t] IN
    /\ At(t, "create", "commit")
    /\ ActorHolds(t, x.names)
    /\ ~RoleThere(db, x.role)
    /\ Commit(t, PermissionsSet(RoleCreated(db, x.role), x.role, x.names))

\* Refused before the transaction: administration in the default role.
SetRolePermissions(t, a, r, names) ==
    /\ Admin(a, ROLES_MANAGE) /\ RoleThere(db, r)
    /\ r = DefaultRole => names \cap ADMIN_PERMISSIONS = {}
    /\ BeginRequest(t, [IdleTx EXCEPT !.op = "permissions", !.pc = "role", !.actor = a, !.role = r,
                             !.names = names])

Added(t) == tx[t].names \ db.grants[tx[t].role]
Removed(t) == db.grants[tx[t].role] \ tx[t].names

SetPermissions(t) ==
    /\ At(t, "permissions", "role")
    /\ LockPermissions(t, "holders")

\* The holders are locked one after the other; what was read of the first cannot change
\* while the next is waited for, so they are taken in one step.
SetPermissionsHolders(t) ==
    LET x == tx[t] IN
    /\ At(t, "permissions", "holders")
    /\ RoleThere(db, x.role) /\ ActorHolds(t, Added(t) \cup Removed(t))
    /\ \/ /\ Added(t) \cap ADMIN_PERMISSIONS = {}
          /\ TxGoto(t, "guard")
       \/ /\ Added(t) \cap ADMIN_PERMISSIONS # {}
          /\ \A u \in HoldersOf(db, x.role) : CanAdminister(db, u)
          /\ Acquire(t, HoldersOf(db, x.role), "guard")
    /\ UNCHANGED <<db, txStarted, adminHistory>>

SetPermissionsGuard(t) ==
    /\ At(t, "permissions", "guard")
    /\ KeepAnAdministrator(t, PermissionsSet(db, tx[t].role, tx[t].names))

SetPermissionsCommit(t) ==
    /\ At(t, "permissions", "commit")
    /\ Commit(t, PermissionsSet(db, tx[t].role, tx[t].names))

DeleteRole(t, a, r) ==
    /\ Admin(a, ROLES_MANAGE) /\ RoleThere(db, r) /\ r # DefaultRole
    /\ BeginRequest(t, [IdleTx EXCEPT !.op = "delete_role", !.pc = "role", !.actor = a, !.role = r])

DeleteRoleLock(t) ==
    /\ At(t, "delete_role", "role")
    /\ ActorHolds(t, db.grants[tx[t].role])
    /\ LockPermissions(t, "guard")

DeleteRoleGuard(t) ==
    /\ At(t, "delete_role", "guard")
    /\ KeepAnAdministrator(t, RoleDeleted(db, tx[t].role))

DeleteRoleCommit(t) ==
    /\ At(t, "delete_role", "commit")
    /\ Commit(t, RoleDeleted(db, tx[t].role))

\* refuse_own_account: of roles and of users.
NotOwn(a, u) == a # u

AssignRole(t, a, u, r) ==
    /\ Admin(a, ROLES_MANAGE) /\ NotOwn(a, u) /\ RoleThere(db, r) /\ There(db, u)
    /\ BeginRequest(t, [IdleTx EXCEPT !.op = "assign", !.pc = "user", !.actor = a, !.user = u, !.role = r])

Assign(t) ==
    /\ At(t, "assign", "user")
    /\ LockRow(t, "role")

AssignCheck(t) ==
    LET x == tx[t] IN
    /\ At(t, "assign", "role")
    /\ There(db, x.user) /\ RoleThere(db, x.role)
    /\ ActorHolds(t, db.grants[x.role])
    /\ GrantsAdministration(db, x.role) => CanAdminister(db, x.user)
    /\ LockPermissions(t, "commit")

AssignCommit(t) ==
    /\ At(t, "assign", "commit")
    /\ Commit(t, AssignedToUser(db, tx[t].user, tx[t].role))

\* One's own role too: stepping down.
UnassignRole(t, a, u, r) ==
    /\ Admin(a, ROLES_MANAGE) /\ RoleThere(db, r)
    /\ BeginRequest(t, [IdleTx EXCEPT !.op = "unassign", !.pc = "role", !.actor = a, !.user = u, !.role = r])

Unassign(t) ==
    LET x == tx[t] IN
    /\ At(t, "unassign", "role")
    /\ ActorHolds(t, db.grants[x.role])
    /\ <<x.user, x.role>> \in db.holds
    /\ LockPermissions(t, "guard")

UnassignGuard(t) ==
    /\ At(t, "unassign", "guard")
    /\ KeepAnAdministrator(t, Unassigned(db, tx[t].user, tx[t].role))

UnassignCommit(t) ==
    /\ At(t, "unassign", "commit")
    /\ Commit(t, Unassigned(db, tx[t].user, tx[t].role))

\* auth-api grant-role: the status is the one read before the transaction, and the role
\* is looked at without its lock; the INSERT waits for it (its foreign key).
GrantRole(t, u, r) ==
    /\ There(db, u) /\ RoleThere(db, r)
    /\ BeginRequest(t, [IdleTx EXCEPT !.op = "cli", !.pc = "user", !.user = u, !.role = r,
                             !.names = {db.status[u]}])

GrantRoleCheck(t) ==
    LET x == tx[t] IN
    /\ At(t, "cli", "user")
    /\ GrantsAdministration(db, x.role) => x.names = {"active"} /\ HasSecondFactor(db, x.user)
    /\ LockRow(t, IF GrantsAdministration(db, x.role) THEN "commit" ELSE "plain")

GrantRoleCommit(t) ==
    LET x == tx[t] IN
    /\ x.op = "cli" /\ x.pc \in {"commit", "plain"}
    /\ There(db, x.user) /\ RoleThere(db, x.role)
    /\ \A s \in Txs \ {t} : x.role \notin tx[s].locks
    /\ db' = AssignedToUser(db, x.user, x.role)
    /\ tx' = [tx EXCEPT ![t] = IdleTx]
    /\ hurried' = IF x.pc = "plain" /\ GrantsAdministration(db, x.role)
                  THEN hurried \cup {x.user} ELSE hurried
    /\ UNCHANGED <<txStarted, late>>

-----------------------------------------------------------------------------
(***************************************************************************)
(* Accounts, by an administrator.                                          *)
(***************************************************************************)
\* The handlers of /admin/users: the permission, another account, a recent
\* re-authentication, and the account is there.
OnUser(t, a, u, op, pc) ==
    /\ Admin(a, USERS_MANAGE) /\ NotOwn(a, u) /\ There(db, u)
    /\ BeginRequest(t, [IdleTx EXCEPT !.op = op, !.pc = pc, !.actor = a, !.user = u])

SuspendUser(t, a, u) == OnUser(t, a, u, "suspend", "user")

\* The UPDATE takes the row's lock; only someone able to manage roles needs the guard.
Suspend(t) ==
    LET x == tx[t] IN
    /\ At(t, "suspend", "user")
    /\ db.status[x.user] = "active"
    /\ Acquire(t, {x.user}, IF ROLES_MANAGE \in Held(db, x.user) THEN "guard" ELSE "commit")
    /\ UNCHANGED <<db, txStarted, adminHistory>>

SuspendGuard(t) ==
    /\ At(t, "suspend", "guard")
    /\ KeepAnAdministrator(t, Suspended(db, tx[t].user))

SuspendCommit(t) ==
    /\ At(t, "suspend", "commit")
    /\ Commit(t, SessionsRevoked(Suspended(db, tx[t].user), tx[t].user))

\* Not refused on one's own account, which no suspended administrator reaches.
ReactivateUser(t, a, u) ==
    /\ Admin(a, USERS_MANAGE) /\ There(db, u)
    /\ BeginRequest(t, [IdleTx EXCEPT !.op = "reactivate", !.pc = "commit", !.actor = a, !.user = u])

Reactivate(t) ==
    LET x == tx[t] IN
    /\ At(t, "reactivate", "commit")
    /\ db.status[x.user] = "suspended"
    /\ \A s \in Txs \ {t} : x.user \notin tx[s].locks
    /\ Commit(t, Reactivated(db, x.user))

RevokeUserSessions(t, a, u) == OnUser(t, a, u, "revoke", "commit")

RevokeSessions(t) ==
    /\ At(t, "revoke", "commit")
    /\ Commit(t, SessionsRevoked(db, tx[t].user))

\* drop_access_factors_in: with the check that an administrator keeps a second factor.
DropAccessFactorsIn(u) == KeepsASecondFactor(AccessFactorsDropped(db, u), u)

ForcePasswordResetOf(t, a, u) == OnUser(t, a, u, "force", "user")

\* Both of what the administrator may ask: with the access factors, or the sessions only.
ForcePasswordReset(t) ==
    /\ At(t, "force", "user") /\ There(db, tx[t].user)
    /\ \/ LockRow(t, "commit")
       \/ DropAccessFactorsIn(tx[t].user) /\ LockRow(t, "factors")

ForcePasswordResetCommit(t) ==
    \/ /\ At(t, "force", "commit")
       /\ Commit(t, SessionsRevoked(db, tx[t].user))
    \/ /\ At(t, "force", "factors")
       /\ Commit(t, AccessFactorsDropped(SessionsRevoked(db, tx[t].user), tx[t].user))

RemoveAccessFactorsOf(t, a, u) == OnUser(t, a, u, "strip", "user")

RemoveAccessFactors(t) ==
    /\ At(t, "strip", "user") /\ There(db, tx[t].user)
    /\ DropAccessFactorsIn(tx[t].user)
    /\ LockRow(t, "commit")

RemoveAccessFactorsCommit(t) ==
    /\ At(t, "strip", "commit")
    /\ Commit(t, AccessFactorsDropped(SessionsRevoked(db, tx[t].user), tx[t].user))

\* By an administrator, and by the owner (delete_account).
DeleteUser(t, a, u) == OnUser(t, a, u, "erase", "user")

DeleteOwnAccount(t, u) ==
    /\ There(db, u)
    /\ BeginRequest(t, [IdleTx EXCEPT !.op = "erase", !.pc = "user", !.user = u])

EraseAccount(t) ==
    LET x == tx[t] IN
    /\ At(t, "erase", "user") /\ There(db, x.user)
    /\ LockRow(t, IF ROLES_MANAGE \in Held(db, x.user) THEN "guard" ELSE "commit")

EraseGuard(t) ==
    /\ At(t, "erase", "guard")
    /\ KeepAnAdministrator(t, WithoutUser(db, tx[t].user))

EraseTxCommit(t) ==
    /\ At(t, "erase", "commit")
    /\ Commit(t, WithoutUser(db, tx[t].user))

-----------------------------------------------------------------------------
(***************************************************************************)
(* The owner: second factors, a reset by link, and signing in.             *)
(***************************************************************************)
\* disable of a method, remove of a passkey: by what there is to remove.
DisableFactor(t, u, f) ==
    /\ There(db, u) /\ f \in db.factors[u]
    /\ BeginRequest(t, [IdleTx EXCEPT !.op = "disable", !.pc = "user", !.user = u, !.names = {f}])

FactorRemoved(d, u, f) == [d EXCEPT !.factors[u] = @ \ {f}]

Disable(t) ==
    LET x == tx[t] IN
    /\ At(t, "disable", "user") /\ There(db, x.user)
    /\ \A f \in x.names : f \in db.factors[x.user] /\ KeepsASecondFactor(FactorRemoved(db, x.user, f), x.user)
    /\ LockRow(t, "commit")

DisableCommit(t) ==
    /\ At(t, "disable", "commit")
    /\ \E f \in tx[t].names : Commit(t, FactorRemoved(db, tx[t].user, f))

\* A method confirmed or a passkey registered.
Enrol(t, u, f) ==
    /\ db.status[u] = "active" /\ f \notin db.factors[u]
    /\ BeginRequest(t, [IdleTx EXCEPT !.op = "enrol", !.pc = "commit", !.user = u, !.names = {f}])

EnrolCommit(t) ==
    LET x == tx[t] IN
    /\ At(t, "enrol", "commit") /\ There(db, x.user)
    /\ Commit(t, [db EXCEPT !.factors[x.user] = @ \cup x.names])

\* reset_password: the factors added since the window began, which may be all of them.
ResetByLink(t, u, recent) ==
    /\ There(db, u)
    /\ BeginRequest(t, [IdleTx EXCEPT !.op = "reset", !.pc = "user", !.user = u, !.names = recent])

ResetLock(t) ==
    /\ At(t, "reset", "user") /\ There(db, tx[t].user)
    /\ LockRow(t, "commit")

ResetByLinkCommit(t) ==
    LET x == tx[t] IN
    /\ At(t, "reset", "commit")
    /\ \E d \in DroppedSince(db, x.user, x.names) : Commit(t, SessionsRevoked(d, x.user))

\* A sign-in reads the status first and inserts the session at its end.
SignIn(t, u) ==
    /\ db.status[u] = "active"
    /\ BeginRequest(t, [IdleTx EXCEPT !.op = "signin", !.pc = "commit", !.user = u])

SignInCommit(t) ==
    LET u == tx[t].user IN
    /\ At(t, "signin", "commit") /\ There(db, u)
    /\ db' = [db EXCEPT !.live = @ \cup {u}]
    /\ tx' = [tx EXCEPT ![t] = IdleTx]
    /\ late' = IF db.status[u] = "active" THEN late ELSE late \cup {u}
    /\ UNCHANGED <<txStarted, hurried>>

-----------------------------------------------------------------------------
RolesNext(t) ==
    \/ \E a \in Members, r \in Roles, names \in SUBSET Permissions :
          CreateRole(t, a, r, names) \/ SetRolePermissions(t, a, r, names)
    \/ \E a \in Members, r \in Roles : DeleteRole(t, a, r)
    \/ \E a, u \in Members, r \in Roles : AssignRole(t, a, u, r) \/ UnassignRole(t, a, u, r)
    \/ \E u \in Members, r \in Roles : GrantRole(t, u, r)
    \/ Create(t) \/ SetPermissions(t) \/ SetPermissionsHolders(t) \/ SetPermissionsGuard(t)
    \/ SetPermissionsCommit(t) \/ DeleteRoleLock(t) \/ DeleteRoleGuard(t) \/ DeleteRoleCommit(t)
    \/ Assign(t) \/ AssignCheck(t) \/ AssignCommit(t)
    \/ Unassign(t) \/ UnassignGuard(t) \/ UnassignCommit(t)
    \/ GrantRoleCheck(t) \/ GrantRoleCommit(t)

UsersNext(t) ==
    \/ \E a, u \in Members :
          \/ SuspendUser(t, a, u) \/ ReactivateUser(t, a, u) \/ RevokeUserSessions(t, a, u)
          \/ ForcePasswordResetOf(t, a, u) \/ RemoveAccessFactorsOf(t, a, u) \/ DeleteUser(t, a, u)
    \/ Suspend(t) \/ SuspendGuard(t) \/ SuspendCommit(t) \/ Reactivate(t) \/ RevokeSessions(t)
    \/ ForcePasswordReset(t) \/ ForcePasswordResetCommit(t)
    \/ RemoveAccessFactors(t) \/ RemoveAccessFactorsCommit(t)
    \/ EraseAccount(t) \/ EraseGuard(t) \/ EraseTxCommit(t)

OwnerNext(t) ==
    \/ \E u \in Members : DeleteOwnAccount(t, u) \/ SignIn(t, u)
    \/ \E u \in Members, f \in Factors : DisableFactor(t, u, f) \/ Enrol(t, u, f)
    \/ \E u \in Members, recent \in SUBSET Factors : ResetByLink(t, u, recent)
    \/ Disable(t) \/ DisableCommit(t) \/ EnrolCommit(t) \/ ResetLock(t) \/ ResetByLinkCommit(t)
    \/ SignInCommit(t)

AdministrationNext == \E t \in Txs : RolesNext(t) \/ UsersNext(t) \/ OwnerNext(t) \/ TxDrops(t)

AdministrationSpec == AdministrationInit /\ [][AdministrationNext]_administrationVars

-----------------------------------------------------------------------------
(***************************************************************************)
(* Whatever administrators do to each other at once, an active account is  *)
(* always left that can manage roles: roles, suspension and erasure each   *)
(* take one lock before they look (keep_an_administrator, roles.rs:381).   *)
(***************************************************************************)
AnAdministratorRemains == PermissionHeld(db, ROLES_MANAGE)

(***************************************************************************)
(* An account holding administration has a second factor: granting a role, *)
(* extending one, removing a factor and resetting a password each look     *)
(* under the account's lock (user.rs:551, roles.rs:301).  The command line *)
(* looks at the role without its lock: an account it gives a role that is  *)
(* extended meanwhile is the exception (cli.rs:181).                       *)
(***************************************************************************)
AdministratorsHaveASecondFactor ==
    \A u \in Members \ hurried : KeepsASecondFactor(db, u)

(***************************************************************************)
(* A suspended account is signed in nowhere, but for a sign-in that read   *)
(* its status before the suspension and inserts its session after it       *)
(* (users.rs:87).                                                          *)
(***************************************************************************)
SuspensionSignsOut ==
    \A u \in Members : db.status[u] = "suspended" => u \notin db.live \ late
=============================================================================
