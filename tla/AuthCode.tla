------------------------------ MODULE AuthCode ------------------------------
(***************************************************************************)
(* Authorization codes: approval, redemption, replay, and the limit on the *)
(* sessions of a client, which redemptions share with device flows.        *)
(*                                                                         *)
(* redeem holds one transaction from the consumption of the code to the    *)
(* link with its session, while its reads and issue_tokens take a second   *)
(* connection of the pool and commit on their own.  A handler may be       *)
(* dropped at any await: its transaction rolls back, what issue_tokens     *)
(* committed stays.                                                        *)
(*                                                                         *)
(* One user; a session stands for its family (see Sessions).               *)
(***************************************************************************)
EXTENDS Integers, FiniteSets

CONSTANTS
    Codes,
    Clients,
    ClientOf,     \* [Codes -> Clients]
    SessionIds,
    Reqs,         \* handlers running at once
    Limit,        \* sessions a client allows the user
    Pools,        \* sizes the pool of database connections may have
    None

ASSUME AuthCodeAssumption ==
    /\ ClientOf \in [Codes -> Clients]
    /\ Limit \in Nat
    /\ Pools \subseteq Nat \ {0}
    /\ None \notin Codes \cup Clients \cup SessionIds

VARIABLES
    pool,       \* the size of this deployment's pool
    code,       \* authorization_codes, as committed
    expired,    \* the codes past their lifetime
    sess,       \* the sessions
    req,        \* the handlers
    delivered,  \* sessions whose tokens were answered
    refused,    \* codes whose redemption was answered with a refusal that burnt them
    replayed    \* codes whose replay by their own client was dealt with

vars == <<pool, code, expired, sess, req, delivered, refused, replayed>>

\* Who presents a code: its client with everything right, its client proven but
\* with a wrong redirect, or anybody else.
Presenters == {"right", "own", "other"}

\* The steps taken inside the handler's transaction.
TxSteps == {"consume", "checks", "lock", "count", "issue", "attach", "burn"}
CodeHeld == {"checks", "lock", "count", "issue", "attach", "burn"}
ClientHeld == {"count", "issue", "attach", "burn"}

Req == [pc: TxSteps \cup {"idle", "find", "revoke"}, kind: {"code", "device"},
        code: Codes \cup {None}, client: Clients \cup {None}, by: Presenters,
        live: BOOLEAN, locked: BOOLEAN, sess: SessionIds \cup {None}]

Idle == [pc |-> "idle", kind |-> "code", code |-> None, client |-> None, by |-> "other",
         live |-> FALSE, locked |-> FALSE, sess |-> None]

\* The types; a row names no session before it is consumed.
TypeOK ==
    /\ pool \in Pools
    /\ code \in [Codes -> [state: {"none", "stored", "swept"}, consumed: BOOLEAN,
                           sess: SessionIds \cup {None}]]
    /\ expired \subseteq Codes
    /\ sess \in [SessionIds -> [client: Clients \cup {None}, code: Codes \cup {None},
                                alive: BOOLEAN]]
    /\ req \in [Reqs -> Req]
    /\ delivered \subseteq SessionIds
    /\ refused \subseteq Codes
    /\ replayed \subseteq Codes
    /\ \A c \in Codes : code[c].sess # None => code[c].consumed

Init ==
    /\ pool \in Pools
    /\ code = [c \in Codes |-> [state |-> "none", consumed |-> FALSE, sess |-> None]]
    /\ expired = {}
    /\ sess = [s \in SessionIds |-> [client |-> None, code |-> None, alive |-> FALSE]]
    /\ req = [r \in Reqs |-> Idle]
    /\ delivered = {}
    /\ refused = {}
    /\ replayed = {}

-----------------------------------------------------------------------------
SetReq(r, q) == req' = [req EXCEPT ![r] = q]
Goto(r, step) == SetReq(r, [req[r] EXCEPT !.pc = step])

\* The connections in use, one for each open transaction.
InTx == {r \in Reqs : req[r].pc \in TxSteps}
ConnectionFree == Cardinality(InTx) < pool

\* The row of c is locked by the update of another transaction.
CodeLocked(r, c) == \E x \in Reqs \ {r} : req[x].code = c /\ req[x].pc \in CodeHeld

\* pg_advisory_xact_lock on the user and the client.
ClientLocked(r, cl) == \E x \in Reqs \ {r} :
    req[x].client = cl /\ req[x].pc \in ClientHeld /\ req[x].locked

count_active_by_client(cl) == Cardinality({s \in SessionIds : sess[s].client = cl /\ sess[s].alive})

\* session_allowance: whether the client may have one more.
SessionAllowance(cl) == count_active_by_client(cl) < Limit

\* revoke_family.
RevokeFamily(s) == [sess EXCEPT ![s].alive = FALSE]

-----------------------------------------------------------------------------
\* approve: the code and its audit entry commit together.
approve(c) ==
    /\ code[c].state = "none"
    /\ code' = [code EXCEPT ![c].state = "stored"]
    /\ UNCHANGED <<pool, expired, sess, req, delivered, refused, replayed>>

Expire(c) ==
    /\ code[c].state = "stored" /\ c \notin expired
    /\ expired' = expired \cup {c}
    /\ UNCHANGED <<pool, code, sess, req, delivered, refused, replayed>>

\* cleanup_expired_authorization_codes, an hour after the expiry: long after the
\* request that was redeeming the code ended.
SweepCode(c) ==
    /\ code[c].state = "stored" /\ c \in expired
    /\ \A r \in Reqs : req[r].code # c
    /\ code' = [code EXCEPT ![c].state = "swept"]
    /\ UNCHANGED <<pool, expired, sess, req, delivered, refused, replayed>>

\* A sign-out, a revocation or an expiry.
EndSession(s) ==
    /\ sess[s].alive
    /\ sess' = [sess EXCEPT ![s].alive = FALSE]
    /\ UNCHANGED <<pool, code, expired, req, delivered, refused, replayed>>

-----------------------------------------------------------------------------
(***************************************************************************)
(* redeem.                                                                 *)
(***************************************************************************)
\* Bound: a handler that may open a session starts only while an id is left for it.
IdLeft ==
    Cardinality({r \in Reqs : req[r].pc \in {"consume", "checks", "lock", "count", "issue"}})
        < Cardinality({s \in SessionIds : sess[s].client = None})

\* BEGIN: the NOW() that expires_at is compared with.
RedeemBegin(r) ==
    /\ req[r].pc = "idle"
    /\ ConnectionFree
    /\ \E c \in Codes, by \in Presenters :
        /\ code[c].state # "none"
        /\ code[c].consumed \/ c \in expired \/ IdLeft
        /\ SetReq(r, [Idle EXCEPT !.pc = "consume", !.code = c, !.client = ClientOf[c],
                                  !.by = by, !.live = c \notin expired])
    /\ UNCHANGED <<pool, code, expired, sess, delivered, refused, replayed>>

\* Mutant: the consumption commits by itself.
RedeemConsumeAtOnce(r) ==
    LET q == req[r] IN
    /\ q.pc = "consume"
    /\ IF code[q.code].state = "stored" /\ ~code[q.code].consumed /\ q.live
       THEN /\ Goto(r, IF q.by = "right" THEN "checks" ELSE "burn")
            /\ code' = [code EXCEPT ![q.code].consumed = TRUE]
       ELSE Goto(r, "find") /\ UNCHANGED code
    /\ UNCHANGED <<pool, expired, sess, delivered, refused, replayed>>

\* Mutant: the code is read, not locked.
RedeemConsumeNoLock(r) ==
    LET q == req[r] IN
    /\ q.pc = "consume"
    /\ Goto(r, IF code[q.code].state = "stored" /\ ~code[q.code].consumed /\ q.live
               THEN IF q.by = "right" THEN "checks" ELSE "burn"
               ELSE "find")
    /\ UNCHANGED <<pool, code, expired, sess, delivered, refused, replayed>>

\* consume waits for the transaction that holds the row and looks again at what it
\* left.  Without a live code the transaction is dropped.
RedeemConsume(r) ==
    LET q == req[r] IN
    /\ q.pc = "consume"
    /\ ~CodeLocked(r, q.code)
    /\ Goto(r, IF code[q.code].state = "stored" /\ ~code[q.code].consumed /\ q.live
               THEN IF q.by = "right" THEN "checks" ELSE "burn"
               ELSE "find")
    /\ UNCHANGED <<pool, code, expired, sess, delivered, refused, replayed>>

\* load_client, validate_redirect and ensure_account_usable, on a second
\* connection: any failure burns the code.
RedeemChecks(r) ==
    /\ req[r].pc = "checks" /\ ConnectionFree
    /\ Goto(r, "lock") \/ Goto(r, "burn")
    /\ UNCHANGED <<pool, code, expired, sess, delivered, refused, replayed>>

\* Mutant: the advisory lock is not waited for.
RedeemLockNoWait(r) ==
    /\ req[r].pc = "lock"
    /\ SetReq(r, [req[r] EXCEPT !.pc = "count", !.locked = TRUE])
    /\ UNCHANGED <<pool, code, expired, sess, delivered, refused, replayed>>

\* lock_client_sessions_in
RedeemLock(r) ==
    /\ req[r].pc = "lock"
    /\ ~ClientLocked(r, req[r].client)
    /\ SetReq(r, [req[r] EXCEPT !.pc = "count", !.locked = TRUE])
    /\ UNCHANGED <<pool, code, expired, sess, delivered, refused, replayed>>

\* A device flow above the limit drops its transaction.
RedeemCount(r) ==
    LET q == req[r] IN
    /\ q.pc = "count" /\ ConnectionFree
    /\ IF SessionAllowance(q.client) THEN Goto(r, "issue")
       ELSE IF q.kind = "code" THEN Goto(r, "burn")
       ELSE SetReq(r, Idle)
    /\ UNCHANGED <<pool, code, expired, sess, delivered, refused, replayed>>

\* issue_tokens commits the session in a transaction of its own.
RedeemIssue(r) ==
    /\ req[r].pc = "issue" /\ ConnectionFree
    /\ \E s \in SessionIds :
        /\ sess[s].client = None
        /\ sess' = [sess EXCEPT ![s] = [client |-> req[r].client, code |-> req[r].code, alive |-> TRUE]]
        /\ SetReq(r, [req[r] EXCEPT !.pc = "attach", !.sess = s])
    /\ UNCHANGED <<pool, code, expired, delivered, refused, replayed>>

\* attach_session and set_auth_time, then COMMIT.  The answer may be lost.
RedeemCommit(r) ==
    LET q == req[r] IN
    /\ q.pc = "attach"
    /\ code' = IF q.kind = "code"
               THEN [code EXCEPT ![q.code].consumed = TRUE, ![q.code].sess = q.sess]
               ELSE code
    /\ delivered' \in {delivered, delivered \cup {q.sess}}
    /\ SetReq(r, Idle)
    /\ UNCHANGED <<pool, expired, sess, refused, replayed>>

\* A refused attempt still commits the consumption.
RedeemBurn(r) ==
    /\ req[r].pc = "burn"
    /\ code' = [code EXCEPT ![req[r].code].consumed = TRUE]
    /\ refused' = refused \cup {req[r].code}
    /\ SetReq(r, Idle)
    /\ UNCHANGED <<pool, expired, sess, delivered, replayed>>

-----------------------------------------------------------------------------
(***************************************************************************)
(* revoke_on_replay.                                                       *)
(***************************************************************************)
\* find: only a consumed code presented by its own client is a replay.
ReplayFind(r) ==
    LET q == req[r]
        seen == code[q.code]
        ours == seen.state = "stored" /\ seen.consumed /\ q.by # "other"
    IN
    /\ q.pc = "find" /\ ConnectionFree
    /\ IF ours /\ seen.sess # None
       THEN /\ SetReq(r, [q EXCEPT !.pc = "revoke", !.sess = seen.sess])
            /\ UNCHANGED replayed
       ELSE /\ SetReq(r, Idle)
            /\ replayed' = IF ours THEN replayed \cup {q.code} ELSE replayed
    /\ UNCHANGED <<pool, code, expired, sess, delivered, refused>>

\* The session the code produced ends.
ReplayRevoke(r) ==
    LET q == req[r] IN
    /\ q.pc = "revoke" /\ ConnectionFree
    /\ sess' = RevokeFamily(q.sess)
    /\ replayed' = replayed \cup {q.code}
    /\ SetReq(r, Idle)
    /\ UNCHANGED <<pool, code, expired, delivered, refused>>

-----------------------------------------------------------------------------
\* A poll of an approved device: lock_client_sessions, in a transaction that only
\* holds the lock.
DeviceBegin(r) ==
    /\ req[r].pc = "idle"
    /\ ConnectionFree /\ IdLeft
    /\ \E cl \in Clients :
        SetReq(r, [Idle EXCEPT !.pc = "lock", !.kind = "device", !.client = cl])
    /\ UNCHANGED <<pool, code, expired, sess, delivered, refused, replayed>>

\* Mutant: waiting for a connection has no deadline.
PoolWaits(r) ==
    /\ req[r].pc \in {"checks", "count", "issue", "find", "revoke"}
    /\ ~ConnectionFree
    /\ UNCHANGED vars

\* The pool's acquire timeout: a failed check burns the code, a failed issue rolls
\* back, a failed replay is logged.
PoolTimeout(r) ==
    LET q == req[r] IN
    /\ q.pc \in {"checks", "count", "issue", "find", "revoke"}
    /\ ~ConnectionFree
    /\ IF q.kind = "code" /\ q.pc \in {"checks", "count"} THEN Goto(r, "burn")
       ELSE SetReq(r, Idle)
    /\ UNCHANGED <<pool, code, expired, sess, delivered, refused, replayed>>

\* The handler is dropped: request timeout, client gone, crash.
Abort(r) ==
    /\ req[r].pc # "idle"
    /\ SetReq(r, Idle)
    /\ UNCHANGED <<pool, code, expired, sess, delivered, refused, replayed>>

Step(r) ==
    \/ RedeemConsume(r) \/ RedeemChecks(r) \/ RedeemLock(r) \/ RedeemCount(r)
    \/ RedeemIssue(r) \/ RedeemCommit(r) \/ RedeemBurn(r)
    \/ ReplayFind(r) \/ ReplayRevoke(r) \/ PoolTimeout(r)

Next ==
    \/ \E c \in Codes : approve(c) \/ Expire(c) \/ SweepCode(c)
    \/ \E s \in SessionIds : EndSession(s)
    \/ \E r \in Reqs : RedeemBegin(r) \/ DeviceBegin(r) \/ Step(r) \/ Abort(r)

Spec == Init /\ [][Next]_vars

\* A handler that can move does; waits for a row or an advisory lock are served
\* in order, and a lock is free again and again.
FairSpec == Spec /\ \A r \in Reqs : WF_vars(Step(r)) /\ SF_vars(RedeemConsume(r) \/ RedeemLock(r))

-----------------------------------------------------------------------------
\* A code answers at most one set of tokens, however many redemptions race,
\* time out or are retried, and none after an attempt was refused.
OneDeliveryPerCode ==
    \A c \in Codes :
        Cardinality({s \in delivered : sess[s].code = c}) <= IF c \in refused THEN 0 ELSE 1

\* A replay by the code's own client, once dealt with, leaves no session its
\* tokens were answered for: a replay that races the redemption waits for the
\* session to revoke.
ReplayEndsTheSession ==
    \A s \in delivered : sess[s].code \in replayed => ~sess[s].alive

\* Redemptions and device flows together never exceed the sessions the client
\* allows.
SessionLimitHeld ==
    \A cl \in Clients : count_active_by_client(cl) <= Limit

\* Redemptions, replays and device flows all end: neither the two locks nor the
\* second connection keeps them waiting for each other.
RequestsFinish == \A r \in Reqs : req[r].pc # "idle" ~> req[r].pc = "idle"
=============================================================================
