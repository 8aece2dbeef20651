------------------------------ MODULE Sessions ------------------------------
(***************************************************************************)
(* The sessions table of the auth API and every handler that writes it:    *)
(* sign-in, refresh-token rotation, replay detection, logout and the bulk  *)
(* revocations (sign out everywhere, password change, suspension, removal  *)
(* of a client).                                                           *)
(*                                                                         *)
(* PostgreSQL runs at READ COMMITTED.  An UPDATE takes a snapshot of the   *)
(* committed rows that match, then locks each of them, waiting for a       *)
(* transaction that holds it and re-evaluating its condition afterwards.   *)
(* A statement is therefore two steps here (snapshot, apply); rows         *)
(* committed in between are not in the snapshot.  NOW() is the start of    *)
(* the transaction, kept in the request as `begun'.                        *)
(*                                                                         *)
(* A request is a record of Reqs with a program counter; a step is what a  *)
(* handler does between two awaits that matter to another request.  Left   *)
(* out because they can only refuse a request without touching the table:  *)
(* the per-address refresh budget, the Redis refresh-token blocklist (a    *)
(* fast path the code passes when Redis is down), and unknown tokens.      *)
(***************************************************************************)
EXTENDS Integers, FiniteSets

CONSTANTS
    SessionIds,     \* sessions that may be created (bounds the model)
    Users,
    Clients,        \* registered client applications
    SignInClients,  \* which of them users sign in to; None: the service itself
    Origins,        \* where a request comes from
    Addr,           \* Origins -> exact client address
    Device,         \* Origins -> network prefix and user agent
    Reqs,           \* handlers running at once
    Ttls,           \* refresh lifetimes (plain, remember_me)
    MaxLifetime,    \* JWT_MAX_SESSION_LIFETIME_SECS
    Grace,          \* REFRESH_REUSE_GRACE
    StrictBinding,  \* JWT_STRICT_SESSION_BINDING
    ReadErrors,     \* whether a database read may fail
    MaxTime,        \* last instant of the model
    None

ASSUME SessionsAssumption ==
    /\ SignInClients \subseteq Clients \cup {None}
    /\ None \notin SessionIds
    /\ None \notin Users
    /\ Ttls \subseteq Nat \ {0}
    /\ MaxLifetime \in Nat \ {0}
    /\ Grace \in Nat
    /\ MaxTime \in Nat
    /\ StrictBinding \in BOOLEAN
    /\ ReadErrors \in BOOLEAN

VARIABLES
    now,      \* the clock, shared by the service and the database
    status,   \* users.status
    rows,     \* ids of the rows of sessions
    session,  \* the rows
    req       \* the handlers

vars == <<now, status, rows, session, req>>

(***************************************************************************)
(* Rows and requests                                                       *)
(***************************************************************************)
\* A column or a field that may be null.
Opt(S) == S \cup {None}

\* session_family_id is the id of the family's first session; a rotated
\* session is one with a replacement (rotated_at and replaced_by_session_id
\* are set together).  client is None for a first-party session.
Row == [user: Opt(Users), family: Opt(SessionIds),
        client: Opt(Clients), origin: Opt(Origins),
        ttl: Ttls \cup {0}, created: Nat, familyCreated: Nat, expires: Int,
        revoked: BOOLEAN, compromised: BOOLEAN,
        rotatedAt: Nat, replacedBy: Opt(SessionIds)]

NoRow == [user |-> None, family |-> None, client |-> None, origin |-> None,
          ttl |-> 0, created |-> 0, familyCreated |-> 0, expires |-> 0,
          revoked |-> FALSE, compromised |-> FALSE,
          rotatedAt |-> 0, replacedBy |-> None]

Steps == {"idle", "signIn", "user", "lock", "rotate", "lost",
          "familySnapshot", "familyApply", "snapshot", "apply"}

\* Steps of a handler that holds the session it read by its token.
RotationSteps == {"user", "lock", "rotate", "lost", "familySnapshot", "familyApply"}

\* Steps of a handler that has an id for the session it is to insert.
InsertSteps == {"signIn", "user", "lock", "rotate"}

\* What a revocation statement selects.
Scopes == {"one", "user", "others", "suspend", "client"}

Request == [pc: Steps, sess: Opt(SessionIds), new: Opt(SessionIds),
            user: Opt(Users), client: Opt(Clients),
            origin: Opt(Origins), ttl: Ttls \cup {0},
            begun: Nat, expires: Int, snap: SUBSET SessionIds,
            scope: Opt(Scopes)]

Idle == [pc |-> "idle", sess |-> None, new |-> None, user |-> None,
         client |-> None, origin |-> None, ttl |-> 0, begun |-> 0,
         expires |-> 0, snap |-> {}, scope |-> None]

\* A refresh holds one of the rows; an insertion knows its id and its account.
RequestOK(q, existing) ==
    /\ q.pc \in RotationSteps => q.sess \in existing
    /\ q.pc \in InsertSteps => q.new \in SessionIds /\ q.user \in Users

TypeOK ==
    /\ now \in Nat
    /\ status \in [Users -> {"active", "suspended"}]
    /\ rows \subseteq SessionIds
    /\ session \in [SessionIds -> Row]
    /\ req \in [Reqs -> Request]
    /\ \A s \in rows : session[s].user \in Users /\ session[s].family \in rows
    /\ \A r \in Reqs : RequestOK(req[r], rows)

Init ==
    /\ now = 0
    /\ status = [u \in Users |-> "active"]
    /\ rows = {}
    /\ session = [s \in SessionIds |-> NoRow]
    /\ req = [r \in Reqs |-> Idle]

-----------------------------------------------------------------------------
(***************************************************************************)
(* Domain decisions (src/domain/session.rs)                                *)
(***************************************************************************)
MinOf(a, b) == IF a <= b THEN a ELSE b

\* Mutant: the absolute lifetime is forgotten.
uncapped_expiry(t, ttl, familyStart) == t + ttl

capped_expiry(t, ttl, familyStart) == MinOf(t + ttl, familyStart + MaxLifetime)

is_active(s) == ~session[s].revoked /\ session[s].expires > now

\* Mutant: the grace window is open at its end.
rotated_before_grace_ends(s) ==
    /\ ~session[s].compromised
    /\ session[s].replacedBy # None
    /\ now - session[s].rotatedAt < Grace

rotated_within_grace(s) ==
    /\ ~session[s].compromised
    /\ session[s].replacedBy # None
    /\ now - session[s].rotatedAt <= Grace

\* The network and user agent that rotated s are the ones presenting it.
rotated_by_this_client(s, o) ==
    /\ session[s].replacedBy # None
    /\ Device[session[session[s].replacedBy].origin] = Device[o]

refresh_verdict(s, o) ==
    CASE session[s].revoked ->
            IF rotated_within_grace(s) THEN "ConcurrentRefresh" ELSE "Replay"
      [] ~session[s].revoked /\ ~is_active(s) -> "Expired"
      [] is_active(s) /\ now - session[s].familyCreated >= MaxLifetime -> "Expired"
      [] OTHER ->
            IF StrictBinding /\ Addr[session[s].origin] # Addr[o]
            THEN "AddressMismatch" ELSE "Rotate"

-----------------------------------------------------------------------------
(***************************************************************************)
(* Requests and row locks                                                  *)
(***************************************************************************)
Live(s) == s \in rows /\ ~session[s].revoked
Family(f) == {s \in rows : session[s].family = f}

Finish(r) == req' = [req EXCEPT ![r] = Idle]
Goto(r, step) == req' = [req EXCEPT ![r] = [req[r] EXCEPT !.pc = step]]

\* An UPDATE has found its rows; it has yet to lock and change them.
Applying(q, step, found) == [q EXCEPT !.pc = step, !.snap = found]

\* SELECT ... FOR UPDATE in rotate holds the row until commit or rollback.
LockedByOther(r, s) == \E q \in Reqs \ {r} : req[q].pc = "rotate" /\ req[q].sess = s

\* A suspension updates the account's row before it ends the sessions, and
\* holds it until commit.
UserLocked(u) == \E q \in Reqs :
    req[q].pc = "apply" /\ req[q].scope = "suspend" /\ req[q].user = u

\* Ids not taken by a row nor by an insertion under way: the model's bound
\* on how many sessions exist.
FreshIds == SessionIds \ (rows \cup {req[q].new : q \in Reqs})

-----------------------------------------------------------------------------
(***************************************************************************)
(* Sign-in: issue_tokens                                                   *)
(***************************************************************************)
SignInRequest(u, c, o, t, n) ==
    [Idle EXCEPT !.pc = "signIn", !.user = u, !.client = c, !.origin = o, !.ttl = t,
                 !.new = n, !.begun = now]

\* The account's status was checked; issue_tokens runs.
SignInBegin(r) ==
    /\ req[r].pc = "idle"
    /\ \E u \in Users, c \in SignInClients, o \in Origins, t \in Ttls, n \in FreshIds :
        /\ status[u] = "active"
        /\ req' = [req EXCEPT ![r] = SignInRequest(u, c, o, t, n)]
    /\ UNCHANGED <<now, status, rows, session>>

\* A row inserted for request q by a transaction begun at t, in the family f
\* that started at start.
NewRow(q, t, f, start, expires) ==
    [NoRow EXCEPT !.user = q.user, !.family = f, !.client = q.client,
        !.origin = q.origin, !.ttl = q.ttl, !.created = t,
        !.familyCreated = start, !.expires = expires]

\* The row, its sign-in records and its audit entry commit together.  The
\* transaction began at some t since the check of the account.
SignInCommit(r) ==
    LET q == req[r] IN
    /\ q.pc = "signIn"
    /\ rows' = rows \cup {q.new}
    /\ \E t \in q.begun .. now :
        session' = [session EXCEPT ![q.new] =
            NewRow(q, t, q.new, t, capped_expiry(t, q.ttl, t))]
    /\ Finish(r)
    /\ UNCHANGED <<now, status>>

-----------------------------------------------------------------------------
(***************************************************************************)
(* Refresh: refresh_token and rotate                                       *)
(***************************************************************************)
\* The session s, presented from o, is to be replaced by n.
RotationRequest(s, o, n) ==
    [Idle EXCEPT !.pc = "user", !.sess = s, !.origin = o, !.new = n,
                 !.user = session[s].user, !.client = session[s].client,
                 !.ttl = session[s].ttl]

ReplayRequest(s, o) ==
    [Idle EXCEPT !.pc = "familySnapshot", !.sess = s, !.origin = o]

\* Revoke the family of s, then answer TokenInvalid.
DetectReplay(r, s, o) == req' = [req EXCEPT ![r] = ReplayRequest(s, o)]

\* The token of s is presented by client c from origin o.  Refusals that
\* change nothing (another client's session, an expired one, another address)
\* are the requests this action does not start.
RefreshRead(r) ==
    /\ req[r].pc = "idle"
    /\ \E s \in rows, o \in Origins :
        LET verdict == refresh_verdict(s, o) IN
        \/ /\ verdict = "Rotate"
           /\ \E n \in FreshIds : req' = [req EXCEPT ![r] = RotationRequest(s, o, n)]
        \/ /\ verdict = "ConcurrentRefresh"
           /\ ~rotated_by_this_client(s, o) \/ ReadErrors
           /\ DetectReplay(r, s, o)
        \/ /\ verdict = "Replay"
           /\ DetectReplay(r, s, o)
    /\ UNCHANGED <<now, status, rows, session>>

\* The account must be allowed to sign in; the rotation transaction begins.
RefreshUser(r) ==
    LET q == req[r] IN
    /\ q.pc = "user"
    /\ IF status[q.user] = "active"
       THEN req' = [req EXCEPT ![r] = [q EXCEPT !.pc = "lock", !.begun = now,
                !.expires = capped_expiry(now, q.ttl, session[q.sess].familyCreated)]]
       ELSE Finish(r)
    /\ UNCHANGED <<now, status, rows, session>>

\* Mutant: a plain SELECT, without FOR UPDATE.
RotateLockNoWait(r) ==
    LET q == req[r] IN
    /\ q.pc = "lock"
    /\ Goto(r, IF session[q.sess].revoked THEN "lost" ELSE "rotate")
    /\ UNCHANGED <<now, status, rows, session>>

\* Mutant: FOR UPDATE SKIP LOCKED.
RotateLockSkips(r) ==
    LET q == req[r] IN
    /\ q.pc = "lock"
    /\ Goto(r, IF session[q.sess].revoked \/ LockedByOther(r, q.sess) THEN "lost" ELSE "rotate")
    /\ UNCHANGED <<now, status, rows, session>>

\* Mutant: the locked row is not read again.
RotateLockNoRecheck(r) ==
    LET q == req[r] IN
    /\ q.pc = "lock"
    /\ ~LockedByOther(r, q.sess)
    /\ Goto(r, "rotate")
    /\ UNCHANGED <<now, status, rows, session>>

\* Wait for the row lock; a session revoked meanwhile is not rotated.
RotateLock(r) ==
    LET q == req[r] IN
    /\ q.pc = "lock"
    /\ ~LockedByOther(r, q.sess)
    /\ Goto(r, IF session[q.sess].revoked THEN "lost" ELSE "rotate")
    /\ UNCHANGED <<now, status, rows, session>>

\* Insert the replacement, revoke the rotated row, commit.  A replacement
\* that would expire before it starts breaks sessions_expires_after_creation
\* and the transaction rolls back.
RotateCommit(r) ==
    LET q == req[r] IN
    /\ q.pc = "rotate"
    /\ IF q.expires > q.begun
       THEN /\ rows' = rows \cup {q.new}
            /\ session' = [session EXCEPT
                 ![q.new] = NewRow(q, q.begun, session[q.sess].family,
                                    session[q.sess].familyCreated, q.expires),
                 ![q.sess] = [@ EXCEPT !.revoked = TRUE, !.rotatedAt = q.begun,
                                       !.replacedBy = q.new]]
       ELSE UNCHANGED <<rows, session>>
    /\ Finish(r)
    /\ UNCHANGED <<now, status>>

\* Another request revoked the session between the read and the lock.  When
\* the reads that tell a retry from a replay fail, it counts as a replay.
RefreshLost(r) ==
    LET q == req[r] IN
    /\ q.pc = "lost"
    /\ LET retry == /\ rotated_within_grace(q.sess)
                    /\ rotated_by_this_client(q.sess, q.origin)
       IN \/ retry /\ Finish(r)
          \/ (~retry \/ ReadErrors) /\ DetectReplay(r, q.sess, q.origin)
    /\ UNCHANGED <<now, status, rows, session>>

\* revoke_session_family: the rows of the family not yet revoked and marked.
FamilySnapshot(r) ==
    LET q == req[r] IN
    /\ q.pc = "familySnapshot"
    /\ LET found == {s \in Family(session[q.sess].family) :
                        ~session[s].revoked \/ ~session[s].compromised}
       IN req' = [req EXCEPT ![r] = Applying(q, "familyApply", found)]
    /\ UNCHANGED <<now, status, rows, session>>

FamilyApply(r) ==
    LET q == req[r] IN
    /\ q.pc = "familyApply"
    /\ \A s \in q.snap : ~LockedByOther(r, s)
    /\ session' = [s \in SessionIds |->
            IF s \in q.snap THEN [session[s] EXCEPT !.revoked = TRUE, !.compromised = TRUE]
            ELSE session[s]]
    /\ Finish(r)
    /\ UNCHANGED <<now, status, rows>>

-----------------------------------------------------------------------------
(***************************************************************************)
(* Logout and the revocations                                              *)
(***************************************************************************)
RevocationRequest(scope, u, c, s, t) ==
    [Idle EXCEPT !.pc = "snapshot", !.scope = scope, !.user = u, !.client = c,
                 !.sess = s, !.begun = t]

\* Logout, revoking one session of the account, a client revoking its token.
RevokeOneBegin(r) ==
    /\ req[r].pc = "idle"
    /\ \E s \in rows :
        req' = [req EXCEPT ![r] = RevocationRequest("one", None, None, s, 0)]
    /\ UNCHANGED <<now, status, rows, session>>

\* Sign out everywhere, a changed or reset password, a suspension: a
\* transaction of several statements begins.
RevokeUserBegin(r) ==
    /\ req[r].pc = "idle"
    /\ \E u \in Users, scope \in {"user", "others", "suspend"}, keep \in Opt(rows) :
        /\ scope = "suspend" => status[u] = "active"
        /\ scope = "others" <=> keep # None
        /\ keep # None => session[keep].user = u
        /\ req' = [req EXCEPT ![r] = RevocationRequest(scope, u, None, keep, now)]
    /\ UNCHANGED <<now, status, rows, session>>

\* Removing a client application ends its sessions.
RevokeClientBegin(r) ==
    /\ req[r].pc = "idle"
    /\ \E c \in Clients :
        req' = [req EXCEPT ![r] = RevocationRequest("client", None, c, None, now)]
    /\ UNCHANGED <<now, status, rows, session>>

\* The WHERE clause of the revocation a request runs.
Selected(q) ==
    {s \in rows :
        /\ ~session[s].revoked
        /\ \/ q.scope = "one" /\ s = q.sess
           \/ q.scope \in {"user", "suspend"} /\ session[s].user = q.user
           \/ q.scope = "others" /\ session[s].user = q.user /\ s # q.sess
           \/ q.scope = "client" /\ session[s].client = q.client}

\* A suspension first locks the account's row; an account suspended meanwhile
\* is left as it is.
RevokeSnapshot(r) ==
    LET q == req[r] IN
    /\ q.pc = "snapshot"
    /\ IF q.scope = "suspend"
       THEN /\ ~UserLocked(q.user)
            /\ IF status[q.user] = "active"
               THEN req' = [req EXCEPT ![r] = Applying(q, "apply", Selected(q))]
               ELSE Finish(r)
       ELSE req' = [req EXCEPT ![r] = Applying(q, "apply", Selected(q))]
    /\ UNCHANGED <<now, status, rows, session>>

\* The rows are dated revoked at the start of the transaction; a row created
\* after it breaks sessions_revoked_after_creation and rolls everything back.
\* A single statement outside a transaction starts with its own snapshot.
RevokeApply(r) ==
    LET q   == req[r]
        hit == {s \in q.snap : ~session[s].revoked}
        \* revoked_at >= created_at
        allowed == q.scope = "one" \/ \A s \in hit : session[s].created <= q.begun
    IN
    /\ q.pc = "apply"
    /\ \A s \in q.snap : ~LockedByOther(r, s)
    /\ IF allowed
       THEN /\ session' = [s \in SessionIds |->
                    IF s \in hit THEN [session[s] EXCEPT !.revoked = TRUE] ELSE session[s]]
            /\ status' = IF q.scope = "suspend"
                         THEN [status EXCEPT ![q.user] = "suspended"] ELSE status
       ELSE UNCHANGED <<session, status>>
    /\ Finish(r)
    /\ UNCHANGED <<now, rows>>

\* An administrator lifts a suspension.
Reactivate ==
    /\ \E u \in Users :
        /\ status[u] = "suspended"
        /\ ~UserLocked(u)
        /\ status' = [status EXCEPT ![u] = "active"]
    /\ UNCHANGED <<now, rows, session, req>>

-----------------------------------------------------------------------------
\* The handler is dropped at an await (client gone, request timeout, a failed
\* query): its open transaction rolls back and its locks are released.
Abort(r) ==
    /\ req[r].pc # "idle"
    /\ Finish(r)
    /\ UNCHANGED <<now, status, rows, session>>

Tick ==
    /\ now < MaxTime
    /\ now' = now + 1
    /\ UNCHANGED <<status, rows, session, req>>

\* What a running handler does next.
Progress(r) ==
    \/ SignInCommit(r)
    \/ RefreshUser(r) \/ RotateLock(r) \/ RotateCommit(r) \/ RefreshLost(r)
    \/ FamilySnapshot(r) \/ FamilyApply(r)
    \/ RevokeSnapshot(r) \/ RevokeApply(r)

Start(r) ==
    \/ SignInBegin(r) \/ RefreshRead(r)
    \/ RevokeOneBegin(r) \/ RevokeUserBegin(r) \/ RevokeClientBegin(r)

Next ==
    \/ \E r \in Reqs : Start(r) \/ Progress(r) \/ Abort(r)
    \/ Reactivate
    \/ Tick

Spec == Init /\ [][Next]_vars

-----------------------------------------------------------------------------
(***************************************************************************)
(* Safety                                                                  *)
(***************************************************************************)
\* However refreshes, replays and revocations of a token overlap, a family
\* never has two sessions that can be refreshed: rotate's row lock makes one
\* refresh token out of one.
OneLiveSessionPerFamily ==
    \A s, t \in rows : Live(s) /\ Live(t) /\ session[s].family = session[t].family => s = t

\* rotate inherits: a family is one chain from its first session, every other
\* session replacing exactly one of the same account, client and lifetime; only
\* the end of the chain may still be refreshed, and no rotation prolongs the
\* sign-in past the absolute lifetime counted from the first (capped_expiry).
RotationChain ==
    /\ \A s \in rows : session[s].family = s \/
        \E p \in rows :
            /\ session[p].replacedBy = s
            /\ \A q \in rows : session[q].replacedBy = s => q = p
    /\ \A s \in rows : session[s].replacedBy # None =>
        LET n == session[session[s].replacedBy] IN
        /\ session[s].replacedBy \in rows
        /\ session[s].revoked
        /\ <<n.family, n.user, n.client, n.ttl, n.familyCreated>> =
             <<session[s].family, session[s].user, session[s].client,
               session[s].ttl, session[s].familyCreated>>
    /\ \A s \in rows :
        session[s].expires <= session[session[s].family].created + MaxLifetime

\* refresh_token revokes a family only over a token already spent: a live token
\* never condemns its family, even when it is spent between two of the
\* handler's own reads.
OnlySpentTokensCondemn ==
    \A r \in Reqs : req[r].pc \in {"lost", "familySnapshot", "familyApply"} =>
        session[req[r].sess].revoked

\* Two refreshes of one token by the same device within the grace window do
\* not condemn the family, whichever reads first and whoever wins the lock.
\* (It needs reads that do not fail: see ReadErrors.)
RetriesAreForgiven ==
    \A r \in Reqs : req[r].pc \in {"familySnapshot", "familyApply"} =>
        LET s == session[req[r].sess] IN
        \/ s.replacedBy = None
        \/ s.compromised
        \/ now - s.rotatedAt > Grace
        \/ Device[session[s.replacedBy].origin] # Device[req[r].origin]

(***************************************************************************)
(* Action properties                                                       *)
(***************************************************************************)
\* A family with no live session never has one again: a refresh that read its
\* token before a logout, a replay or a suspension does not bring it back.
\* (TokenFamilies promises as much: ImplementsFamilies is what the run checks.)
DeadFamilyStaysDead ==
    [][\A f \in rows : (\A s \in Family(f) : session[s].revoked) =>
            \A s \in Family(f)' : session'[s].revoked]_vars

(***************************************************************************)
(* What the documentation says, and the code does not keep                 *)
(***************************************************************************)
\* "Presenting a rotated token again revokes the whole session family": no
\* session of a family marked compromised is left alive.
CompromisedFamilyIsDead ==
    \A s, t \in rows :
        session[t].compromised /\ session[s].family = session[t].family => ~Live(s)

-----------------------------------------------------------------------------
\* The sessions implement token families: each holds at most one credential,
\* exchanged or ended.
Holder == [f \in SessionIds |->
    IF \E s \in Family(f) : Live(s) THEN CHOOSE s \in Family(f) : Live(s) ELSE None]

Families == INSTANCE TokenFamilies WITH Ids <- SessionIds, issued <- rows, holder <- Holder

ImplementsFamilies == Families!Spec
=============================================================================
