------------------------------- MODULE Reauth -------------------------------
(***************************************************************************)
(* Proving the password again before a sensitive action.  The attempt is   *)
(* reserved against the budget of the session and then the account's, the  *)
(* hash is checked against the row read before, and the session is marked. *)
(* A thief may hold one of the sessions, and guesses through it.           *)
(*                                                                         *)
(* Passwords are numbered in the order they are chosen; time is in ticks.  *)
(***************************************************************************)
EXTENDS RequestSteps

CONSTANTS
    OwnSessions,        \* the sessions of the owner
    StolenSession,
    LOCKOUT_THRESHOLD,
    CEILING_FACTOR,     \* REAUTH_ACCOUNT_CEILING_FACTOR
    FAIL_TTL,           \* REAUTH_FAIL_TTL_SECS
    MaxTicks            \* bound on time

ASSUME ReauthAssumption ==
    /\ StolenSession \notin OwnSessions /\ "account" \notin OwnSessions \cup {StolenSession}
    /\ LOCKOUT_THRESHOLD \in Nat \ {0} /\ CEILING_FACTOR \in Nat \ {0}
    /\ FAIL_TTL \in Nat \ {0} /\ MaxTicks \in Nat

AllSessions == OwnSessions \cup {StolenSession}

\* The budgets: one per session, one of the account.
Account == "account"
BudgetKeys == AllSessions \cup {Account}

VARIABLES
    live,       \* the sessions that stand
    password,   \* the password of the account
    marker,     \* reauth:{session}: the password proven, None without the key
    budget,     \* reauth_failures: what each key counts, and the ticks it has left
    ticks,
    \* history
    chooser,    \* the session the password was chosen from
    share       \* what the stolen session added to the account's budget since its key began

reauthVars == <<live, password, marker, budget, ticks, chooser, share>>

NoBudget == [count |-> 0, left |-> 0]

ReauthInit ==
    /\ live = AllSessions /\ password = 0 /\ chooser = None
    /\ marker = [s \in AllSessions |-> None]
    /\ budget = [k \in BudgetKeys |-> NoBudget]
    /\ ticks = 0 /\ share = 0

-----------------------------------------------------------------------------
\* INCR, and EXPIRE at one.
Incr(k) == [count |-> budget[k].count + 1,
            left |-> IF budget[k].count = 0 THEN FAIL_TTL ELSE budget[k].left]

BudgetLimit(k) ==
    IF k = Account THEN LOCKOUT_THRESHOLD * CEILING_FACTOR ELSE LOCKOUT_THRESHOLD

Exceeds(k) == Incr(k).count > BudgetLimit(k)

\* Mutant: CONSUME, which counts against every budget.
ConsumeAll(s) == [budget EXCEPT ![s] = Incr(s), ![Account] = Incr(Account)]

\* CONSUME_IN_ORDER: a budget past its limit leaves the next one untouched.
ConsumeInOrder(s) ==
    IF Exceeds(s) THEN [budget EXCEPT ![s] = Incr(s)]
    ELSE [budget EXCEPT ![s] = Incr(s), ![Account] = Incr(Account)]

ResetBudgets(ks) ==
    /\ budget' = [k \in BudgetKeys |-> IF k \in ks THEN NoBudget ELSE budget[k]]
    /\ share' = IF Account \in ks THEN 0 ELSE share

\* The handler, and every request that brings the current password: verify_password
\* reads the account first.
PostReauth(r, s, right) ==
    /\ s \in live
    /\ right => s \in OwnSessions
    /\ Begin(r, [pc |-> "reserve", session |-> s, right |-> right, hash |-> password])
    /\ UNCHANGED reauthVars

ReserveAttempt(r) ==
    LET s == req[r].session IN
    /\ req[r].pc = "reserve"
    /\ budget' = ConsumeInOrder(s)
    /\ IF Exceeds(s) \/ Exceeds(Account) THEN Done(r) ELSE Goto(r, "verify")
    /\ share' = IF s = StolenSession /\ budget'[Account] # budget[Account] THEN share + 1 ELSE share
    /\ UNCHANGED <<live, password, marker, ticks, chooser>>

\* A right password is the one of the row read; it forgives both budgets.
VerifyPassword(r) ==
    /\ req[r].pc = "verify"
    /\ IF req[r].right
       THEN ResetBudgets({req[r].session, Account}) /\ Goto(r, "audit")
       ELSE Done(r) /\ UNCHANGED <<budget, share>>
    /\ UNCHANGED <<live, password, marker, ticks, chooser>>

\* record_reauth_event; without it the request fails.
RecordReauthEvent(r) ==
    /\ req[r].pc = "audit"
    /\ Goto(r, "mark") \/ Done(r)
    /\ UNCHANGED reauthVars

\* mark_recent_reauth, lost when Redis is away.
MarkRecentReauth(r) ==
    /\ req[r].pc = "mark"
    /\ marker' = [marker EXCEPT ![req[r].session] = req[r].hash] \/ UNCHANGED marker
    /\ Done(r)
    /\ UNCHANGED <<live, password, budget, ticks, chooser, share>>

\* clear_recent_reauth.
Cleared(ends) == [s \in AllSessions |-> IF s \in ends THEN None ELSE marker[s]]

HasRecentReauth(s) == marker[s] # None

\* require_recent_reauth_or_password: without a password, the marker; with one, the
\* request is a PostReauth first.
RequireRecentReauth(r, s, request) ==
    /\ s \in live /\ HasRecentReauth(s)
    /\ Begin(r, request)
    /\ UNCHANGED reauthVars

PostChangePassword(r, s, keep) ==
    RequireRecentReauth(r, s, [pc |-> "change", session |-> s, keep |-> keep])

\* Mutant: the other sessions stay.
ChangeKeepsAll(r) ==
    /\ req[r].pc = "change"
    /\ password' = password + 1 /\ chooser' = req[r].session
    /\ Done(r)
    /\ UNCHANGED <<live, marker, budget, ticks, share>>

\* change_password: every session ends with the old password, or every other one.
ChangePassword(r) ==
    /\ req[r].pc = "change"
    /\ password' = password + 1 /\ chooser' = req[r].session
    /\ live' = IF req[r].keep THEN live \cap {req[r].session} ELSE {}
    /\ Done(r)
    /\ UNCHANGED <<marker, budget, ticks, share>>

\* The owner, or whoever holds a marked session, ends one of them, or all or all others.
DeleteSession(r, by, s) == RequireRecentReauth(r, by, [pc |-> "revoke", ends |-> {s}])

DeleteSessions(r, by, keep) ==
    RequireRecentReauth(r, by, [pc |-> "revoke", ends |-> IF keep THEN live \ {by} ELSE live])

RevokeSessions(r) ==
    /\ req[r].pc = "revoke"
    /\ live' = live \ req[r].ends
    /\ Goto(r, "clear")
    /\ UNCHANGED <<password, marker, budget, ticks, chooser, share>>

\* logout asks for no proof.
Logout(r, s) ==
    /\ s \in live
    /\ live' = live \ {s}
    /\ Begin(r, [pc |-> "clear", ends |-> {s}])
    /\ UNCHANGED <<password, marker, budget, ticks, chooser, share>>

\* The markers are cleared after the commit.
ClearRecentReauth(r) ==
    /\ req[r].pc = "clear"
    /\ marker' = Cleared(req[r].ends) /\ Done(r)
    /\ UNCHANGED <<live, password, budget, ticks, chooser, share>>

\* An administrator's unlock forgives the account's budget, not the sessions'.
UnlockBudget ==
    /\ ResetBudgets({Account})
    /\ UNCHANGED <<live, password, marker, ticks, chooser, req, started>>

ReauthTick ==
    /\ ticks < MaxTicks
    /\ ticks' = ticks + 1
    /\ budget' = [k \in BudgetKeys |-> IF budget[k].left <= 1 THEN NoBudget
                                       ELSE [budget[k] EXCEPT !.left = @ - 1]]
    /\ share' = IF budget'[Account] = NoBudget THEN 0 ELSE share
    /\ UNCHANGED <<live, password, marker, chooser, req, started>>

MarkerExpires(s) ==
    /\ HasRecentReauth(s)
    /\ marker' = Cleared({s})
    /\ UNCHANGED <<live, password, budget, ticks, chooser, share, req, started>>

ReauthDrops(r) == req[r] # Idle /\ Done(r) /\ UNCHANGED reauthVars

ReauthNext ==
    \/ \E r \in Reqs :
        \/ \E s \in AllSessions :
            \/ \E b \in BOOLEAN :
                PostReauth(r, s, b) \/ PostChangePassword(r, s, b) \/ DeleteSessions(r, s, b)
            \/ \E other \in AllSessions : DeleteSession(r, s, other)
            \/ Logout(r, s)
        \/ ReserveAttempt(r) \/ VerifyPassword(r) \/ RecordReauthEvent(r) \/ MarkRecentReauth(r)
        \/ ChangePassword(r) \/ RevokeSessions(r) \/ ClearRecentReauth(r) \/ ReauthDrops(r)
    \/ \E s \in AllSessions : MarkerExpires(s)
    \/ UnlockBudget \/ ReauthTick

ReauthSpec == RequestsInit /\ ReauthInit /\ [][ReauthNext]_<<req, started, reauthVars>>

-----------------------------------------------------------------------------
\* verify_password: a thief who guesses through one session locks that session out
\* and leaves the owner room.  Though the two keys expire and are forgiven at
\* different times, the session never adds twice its own budget to the account's,
\* whose ceiling is three times as wide.
OwnerKeepsRoom == share < 2 * LOCKOUT_THRESHOLD

\* reauthenticate, change_password: a session that stands and is marked has proven
\* the account's password of now, or is the one it was chosen from; a proof of a
\* former password never outlives it elsewhere.
ProofIsOfThisPassword ==
    \A s \in live : HasRecentReauth(s) => marker[s] = password \/ s = chooser
=============================================================================
