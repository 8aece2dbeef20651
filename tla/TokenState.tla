----------------------------- MODULE TokenState -----------------------------
(***************************************************************************)
(* What every authenticated request asks: is this access token revoked, is *)
(* its session over?  The answer comes from Redis (a blocklist of token    *)
(* ids and a cache of session validity) and, on a miss, from the sessions  *)
(* table.  Revocations write the table first and Redis afterwards, as best *)
(* they can; each handler may be dropped between any two of its awaits.    *)
(*                                                                         *)
(* One access token per session.  A Redis key with a lifetime is a value   *)
(* and the instant it disappears.                                          *)
(***************************************************************************)
EXTENDS Integers, FiniteSets

CONSTANTS
    Sessions,
    FirstParty,   \* the sessions that act for the account itself
    Checks,       \* token checks running at once
    Handlers,     \* revocation handlers running at once
    Kinds,        \* the revocations they may run
    CacheTtl,     \* SESSION_CACHE_TTL_SECS
    TokenTtl,     \* lifetime of an access token
    SessionTtl,   \* lifetime of a session
    MaxCheck,     \* longest time from a check's database read to its SET
    RedisFails,   \* whether a Redis write may fail
    MaxTime,
    None

ASSUME TokenStateAssumption ==
    /\ FirstParty \subseteq Sessions
    /\ Kinds \subseteq {"logout", "single", "listed", "returning", "rotate"}
    /\ CacheTtl \in Nat \ {0}
    /\ TokenTtl \in Nat \ {0}
    /\ SessionTtl \in Nat \ {0}
    /\ MaxCheck \in Nat
    /\ MaxTime \in Nat
    /\ RedisFails \in BOOLEAN
    /\ None \notin Sessions \cup {0, 1, 2}

VARIABLES
    now,
    row,       \* sessions: when each opened and ended
    cache,     \* the validity cache
    blocked,   \* the blocklist: until when each token id is on it
    check,     \* the token checks
    handler,   \* the revocations
    answered,  \* sessions a revocation ended and marked, once it is answered
    loggedOut  \* sessions whose logout ended with the token id blocklisted

vars == <<now, row, cache, blocked, check, handler, answered, loggedOut>>

Never == -1   \* an event that has not happened
Gone == 0     \* the instant an absent key disappeared

CachedValues == {0, 1, 2}   \* CACHED_ENDED, CACHED_FIRST_PARTY, CACHED_DELEGATED

Times == {Never} \cup Nat

Check == [pc: {"idle", "db", "set", "accepted"}, sess: Sessions \cup {None},
          active: BOOLEAN, readAt: Nat, at: Nat, late: BOOLEAN]

Handler == [pc: {"idle", "revoke", "mark", "block"}, kind: Kinds \cup {None},
            listed: SUBSET Sessions, ended: SUBSET Sessions, ok: BOOLEAN]

IdleCheck == [pc |-> "idle", sess |-> None, active |-> FALSE, readAt |-> 0, at |-> 0,
              late |-> FALSE]
IdleHandler == [pc |-> "idle", kind |-> None, listed |-> {}, ended |-> {}, ok |-> TRUE]

\* The types; a token id on the blocklist leaves it when the token expires.
TypeOK ==
    /\ now \in Nat
    /\ row \in [Sessions -> [opened: Times, revoked: Times]]
    /\ cache \in [Sessions -> [value: CachedValues, until: Nat]]
    /\ blocked \in [Sessions -> Nat]
    /\ check \in [Checks -> Check]
    /\ handler \in [Handlers -> Handler]
    /\ answered \subseteq Sessions
    /\ loggedOut \subseteq Sessions
    /\ \A s \in Sessions : blocked[s] \in {Gone, row[s].opened + TokenTtl}

Init ==
    /\ now = 0
    /\ row = [s \in Sessions |-> [opened |-> Never, revoked |-> Never]]
    /\ cache = [s \in Sessions |-> [value |-> 0, until |-> Gone]]
    /\ blocked = [s \in Sessions |-> Gone]
    /\ check = [c \in Checks |-> IdleCheck]
    /\ handler = [h \in Handlers |-> IdleHandler]
    /\ answered = {}
    /\ loggedOut = {}

-----------------------------------------------------------------------------
Opened(s) == row[s].opened # Never
token_exp(s) == row[s].opened + TokenTtl
expires_at(s) == row[s].opened + SessionTtl

\* SessionValidation::is_active
is_active(s) == Opened(s) /\ row[s].revoked = Never /\ expires_at(s) > now

\* What a GET or an EXISTS of the keys of s answers now.
Cached(s) == IF cache[s].until > now THEN cache[s].value ELSE None
Blocklisted(s) == blocked[s] > now

\* Mutant: an ended session is cached like a delegated one.
cached_value_flat(active, firstParty) == IF active /\ firstParty THEN 1 ELSE 2

cached_value(active, firstParty) ==
    CASE ~active                -> 0
      [] active /\ firstParty   -> 1
      [] active /\ ~firstParty  -> 2

token_state(isBlocked, cached) ==
    CASE isBlocked                          -> "Revoked"
      [] ~isBlocked /\ cached = None        -> "Unknown"
      [] ~isBlocked /\ cached \in {1, 2}    -> "Active"
      [] OTHER                              -> "Ended"

-----------------------------------------------------------------------------
\* A sign-in or a rotation creates the session and its access token.
Open(s) ==
    /\ ~Opened(s)
    /\ row' = [row EXCEPT ![s].opened = now]
    /\ UNCHANGED <<now, cache, blocked, check, handler, answered, loggedOut>>

-----------------------------------------------------------------------------
(***************************************************************************)
(* verify_token_state.  A check whose token has expired is refused before  *)
(* it reads Redis, and one that cannot read Redis is refused (503): these  *)
(* are the checks that do not start.                                       *)
(***************************************************************************)
SetCheck(c, x) == check' = [check EXCEPT ![c] = x]

\* The token is accepted at this instant.
Accepted(k) == [k EXCEPT !.pc = "accepted", !.at = now]

\* One pipeline: EXISTS on the blocklist, GET on the cache.
CheckRead(c) ==
    /\ check[c].pc = "idle"
    /\ \E s \in Sessions :
        LET begun == [IdleCheck EXCEPT !.pc = "db", !.sess = s,
                                       !.late = s \in loggedOut]
        IN
        /\ Opened(s) /\ token_exp(s) > now
        /\ \/ /\ token_state(Blocklisted(s), Cached(s)) = "Active"
              /\ SetCheck(c, Accepted(begun))
           \/ /\ token_state(Blocklisted(s), Cached(s)) = "Unknown"
              /\ SetCheck(c, begun)
    /\ UNCHANGED <<now, row, cache, blocked, handler, answered, loggedOut>>

\* find_validation_by_id
CheckDb(c) ==
    LET k == check[c] IN
    /\ k.pc = "db"
    /\ SetCheck(c, [k EXCEPT !.pc = "set", !.active = is_active(k.sess), !.readAt = now])
    /\ UNCHANGED <<now, row, cache, blocked, handler, answered, loggedOut>>

\* Mutant: a plain SET, without NX.
CheckSetOverwrites(c) ==
    LET k == check[c] IN
    /\ k.pc = "set"
    /\ now <= k.readAt + MaxCheck
    /\ cache' = [cache EXCEPT ![k.sess] =
            [value |-> cached_value(k.active, k.sess \in FirstParty), until |-> now + CacheTtl]]
    /\ SetCheck(c, IF k.active THEN Accepted(k) ELSE IdleCheck)
    /\ UNCHANGED <<now, row, blocked, handler, answered, loggedOut>>

\* SET NX EX: kept only where nothing is cached.  A failed write is ignored.
CheckSet(c) ==
    LET k == check[c]
        written == [value |-> cached_value(k.active, k.sess \in FirstParty),
                    until |-> now + CacheTtl]
    IN
    /\ k.pc = "set"
    /\ now <= k.readAt + MaxCheck
    /\ \/ /\ Cached(k.sess) = None
          /\ cache' = [cache EXCEPT ![k.sess] = written]
       \/ /\ Cached(k.sess) # None \/ RedisFails
          /\ UNCHANGED cache
    /\ SetCheck(c, IF k.active THEN Accepted(k) ELSE IdleCheck)
    /\ UNCHANGED <<now, row, blocked, handler, answered, loggedOut>>

\* The request goes on, is refused on an error, or is dropped (client gone,
\* request timeout).
CheckEnds(c) ==
    /\ check[c].pc # "idle"
    /\ SetCheck(c, IdleCheck)
    /\ UNCHANGED <<now, row, cache, blocked, handler, answered, loggedOut>>

-----------------------------------------------------------------------------
(***************************************************************************)
(* Revocations.  logout ends one session and blocklists its token; revoke  *)
(* ("single") does not blocklist it; a rotation ends one and tells Redis   *)
(* nothing; the others end every session of the account.  "listed" reads   *)
(* which ones before its transaction (revoke_all, change_password,         *)
(* reset_password), "returning" takes them from the UPDATE itself (suspend *)
(* and the other administrative revocations).                              *)
(***************************************************************************)
OneSession == {"logout", "single", "rotate"}

SetHandler(h, x) == handler' = [handler EXCEPT ![h] = x]

RevokeBegin(h) ==
    /\ handler[h].pc = "idle"
    /\ \E kind \in Kinds, s \in Sessions :
        /\ Opened(s)
        /\ SetHandler(h, [IdleHandler EXCEPT !.pc = "revoke", !.kind = kind,
                !.listed = IF kind \in OneSession THEN {s}
                           ELSE {t \in Sessions : Opened(t) /\ row[t].revoked = Never}])
    /\ UNCHANGED <<now, row, cache, blocked, check, answered, loggedOut>>

\* The revocation commits.
RevokeCommit(h) ==
    LET q   == handler[h]
        hit == {s \in Sessions : Opened(s) /\ row[s].revoked = Never /\
                    (q.kind \in OneSession => s \in q.listed)}
    IN
    /\ q.pc = "revoke"
    /\ row' = [s \in Sessions |->
                IF s \in hit THEN [row[s] EXCEPT !.revoked = now] ELSE row[s]]
    /\ IF q.kind = "rotate"
       THEN SetHandler(h, IdleHandler)
       ELSE SetHandler(h, [q EXCEPT !.pc = "mark", !.ended = hit,
                !.listed = IF q.kind = "returning" THEN hit ELSE q.listed])
    /\ UNCHANGED <<now, cache, blocked, check, answered, loggedOut>>

\* invalidate_session_caches: an "ended" marker on each listed session.
RevokeMark(h) ==
    LET q == handler[h]
        marked == [value |-> 0, until |-> now + CacheTtl]
    IN
    /\ q.pc = "mark"
    /\ \E ok \in IF RedisFails THEN BOOLEAN ELSE {TRUE} :
        /\ cache' = [s \in Sessions |-> IF ok /\ s \in q.listed THEN marked ELSE cache[s]]
        /\ IF q.kind = "logout"
           THEN SetHandler(h, [q EXCEPT !.pc = "block", !.ok = ok]) /\ UNCHANGED answered
           ELSE /\ SetHandler(h, IdleHandler)
                /\ answered' = IF ok THEN answered \cup (q.ended \cap q.listed) ELSE answered
    /\ UNCHANGED <<now, row, blocked, check, loggedOut>>

\* blocklist_jti, for as long as the token would live.
RevokeBlock(h) ==
    LET q == handler[h] IN
    /\ q.pc = "block"
    /\ \/ /\ blocked' = [s \in Sessions |->
                IF s \in q.listed /\ token_exp(s) > now THEN token_exp(s) ELSE blocked[s]]
          /\ answered' = IF q.ok THEN answered \cup q.listed ELSE answered
          /\ loggedOut' = loggedOut \cup q.listed
       \/ RedisFails /\ UNCHANGED <<blocked, answered, loggedOut>>
    /\ SetHandler(h, IdleHandler)
    /\ UNCHANGED <<now, row, cache, check>>

\* The handler is dropped between two awaits.
RevokeAborts(h) ==
    /\ handler[h].pc # "idle"
    /\ SetHandler(h, IdleHandler)
    /\ UNCHANGED <<now, row, cache, blocked, check, answered, loggedOut>>

Tick ==
    /\ now < MaxTime
    /\ now' = now + 1
    /\ UNCHANGED <<row, cache, blocked, check, handler, answered, loggedOut>>

Next ==
    \/ \E s \in Sessions : Open(s)
    \/ \E c \in Checks : CheckRead(c) \/ CheckDb(c) \/ CheckSet(c) \/ CheckEnds(c)
    \/ \E h \in Handlers : \/ RevokeBegin(h) \/ RevokeCommit(h) \/ RevokeMark(h)
                           \/ RevokeBlock(h) \/ RevokeAborts(h)
    \/ Tick

Spec == Init /\ [][Next]_vars

-----------------------------------------------------------------------------
\* When the session of s ended, or will.
EndOf(s) == IF row[s].revoked = Never THEN expires_at(s)
            ELSE IF row[s].revoked < expires_at(s) THEN row[s].revoked ELSE expires_at(s)

\* However the reads of the table, the SET NX, the markers and the failures of
\* Redis interleave, verify_token_state accepts no token later than the cache
\* lifetime plus one request's duration after its session ended: stale answers
\* are never renewed.
BoundedStaleness ==
    \A c \in Checks :
        check[c].pc = "accepted" => check[c].at < EndOf(check[c].sess) + CacheTtl + MaxCheck

\* Once a revocation has been answered and its "ended" markers written, the cache
\* never says "active" again for a session it ended and marked, though a check that
\* read the table before is still running, unless that check outlasts the marker; and
\* a token whose logout was answered is never accepted by a check begun later,
\* whatever the cache holds.
RevocationIsSeen ==
    /\ MaxCheck < CacheTtl => \A s \in answered : Cached(s) \in {None, 0}
    /\ \A c \in Checks : check[c].pc = "accepted" => ~check[c].late
=============================================================================
