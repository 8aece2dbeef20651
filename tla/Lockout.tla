------------------------------ MODULE Lockout -------------------------------
(***************************************************************************)
(* Guessing the password of one account: the failures counted before the   *)
(* lookup, the attempt reserved in Redis, the hash checked against the row *)
(* read before it, the failure recorded, counted and turned into a lock,   *)
(* and the sign-ins, resets and unlocks that forgive them meanwhile.       *)
(*                                                                         *)
(* A behaviour lies within one day, so no recorded failure is too old for  *)
(* the consecutive count.  The account is active.  The budgets by client   *)
(* address, three times as wide, are left out.                             *)
(***************************************************************************)
EXTENDS Integers, FiniteSets

CONSTANTS
    Logins,          \* requests running at once
    Identifiers,   \* what the account may be named by: its address, its username
    Threshold,     \* lockout_threshold, 0 for no lockout
    Limit,         \* MAX_FAILURES_BY_IDENTIFIER
    MaxAttempts,   \* bound on sign-ins started
    MaxChanges,    \* bound on resets and unlocks started
    MaxPauses,     \* bound on the ends of locks and windows
    NoKey

ASSUME LockoutAssumption ==
    /\ IsFiniteSet(Logins)
    /\ Threshold \in Nat
    /\ Limit \in Nat \ {0}
    /\ MaxAttempts \in Nat /\ MaxChanges \in Nat /\ MaxPauses \in Nat
    /\ NoKey \notin Int

VARIABLES
    captcha,     \* whether every sign-in costs a solved challenge
    password,    \* password_hash: of which password, and whether by weaker parameters
    rehashing,   \* the hashes that background tasks are replacing
    locked,      \* locked_until lies in the future
    failures,    \* login_attempts of each identifier, last 15 minutes, since lockout_cleared_at
    consecutive, \* wrong passwords since lockout_cleared_at and since locked_until
    tries,       \* login_try: its value, NoKey without the key
    expires,     \* whether the key has a time to live
    logins,
    attempts, changes, pauses,
    \* history
    guesses,     \* wrong answers by reserved attempts since the key began
    returned,    \* attempts given back to a key younger than they are
    answered,    \* wrong answers since the failures were last forgiven
    chosen,      \* the password last chosen by the owner
    notices      \* mails that the password is locked, of the current lock

lockoutVars == <<captcha, password, rehashing, locked, failures, consecutive, tries, expires, logins,
          attempts, changes, pauses, guesses, returned, answered, chosen, notices>>

hashes == <<password, rehashing, chosen>>
budget == <<tries, expires, guesses, returned>>
loginBounds == <<attempts, changes, pauses>>

Wrong == -1

Hashes == [version: 0..MaxChanges, weak: BOOLEAN]

Login == [pc: {"idle", "gate", "find", "reserve", "refused", "verify", "record", "count", "lock",
             "release", "proven", "forgive", "forgiven"},
        identifier: Identifiers \cup {NoKey},
        typed: {Wrong} \cup (0..MaxChanges),     \* the password typed
        hash: Hashes,                            \* the hash of the row read
        locked: BOOLEAN,                         \* the lock of the row read
        reserved: BOOLEAN,                       \* login_try counts this attempt
        young: BOOLEAN,                          \* history: of the key as it is now
        since: BOOLEAN]                          \* history: recorded since the failures were forgiven

NoLogin == [pc |-> "idle", identifier |-> NoKey, typed |-> Wrong, hash |-> [version |-> 0, weak |-> FALSE], locked |-> FALSE,
         reserved |-> FALSE, young |-> FALSE, since |-> FALSE]

value == IF tries = NoKey THEN 0 ELSE tries

LockoutInit ==
    /\ captcha \in BOOLEAN
    /\ password \in [version: {0}, weak: BOOLEAN] /\ rehashing = {} /\ chosen = 0
    /\ locked = FALSE
    /\ failures = [i \in Identifiers |-> 0]
    /\ consecutive = 0
    /\ tries = NoKey /\ expires = FALSE
    /\ logins = [r \in Logins |-> NoLogin]
    /\ attempts = 0 /\ changes = 0 /\ pauses = 0
    /\ guesses = 0 /\ returned = 0 /\ answered = 0 /\ notices = 0

-----------------------------------------------------------------------------
\* CONSUME: INCR, and EXPIRE at one.
Consume ==
    /\ tries' = value + 1
    /\ expires' = (expires \/ value + 1 = 1)

\* release: a bare DECR, which creates the key when it is gone.
Release(r) ==
    /\ tries' = value - 1
    /\ returned' = IF logins[r].young THEN returned ELSE returned + 1
    /\ UNCHANGED <<expires, guesses>>

\* The requests once the key is gone: what they reserved is no longer counted.
Outdated == [r \in Logins |-> [logins[r] EXCEPT !.young = FALSE]]

Reset ==
    /\ tries' = NoKey /\ expires' = FALSE
    /\ guesses' = 0 /\ returned' = 0

-----------------------------------------------------------------------------
(***************************************************************************)
(* A sign-in.                                                              *)
(***************************************************************************)
\* The failures counted before the lookup.
LoginGate(r, i, typed) ==
    /\ logins[r].pc = "idle" /\ attempts < MaxAttempts
    /\ captcha \/ failures[i] < Limit
    /\ logins' = [logins EXCEPT ![r] = [NoLogin EXCEPT !.pc = "find", !.identifier = i, !.typed = typed]]
    /\ attempts' = attempts + 1
    /\ UNCHANGED <<captcha, hashes, locked, failures, consecutive, budget, changes, pauses,
                   answered, notices>>

\* The handler: any password of the account's past, or none of them.
PostLogin(r) ==
    \E i \in Identifiers, typed \in {Wrong} \cup (0..chosen) : LoginGate(r, i, typed)

LoginFind(r) ==
    /\ logins[r].pc = "find"
    /\ logins' = [logins EXCEPT ![r].pc = "reserve", ![r].hash = password, ![r].locked = locked]
    /\ UNCHANGED <<captcha, hashes, locked, failures, consecutive, budget, loginBounds, answered,
                   notices>>

\* Mutant: the attempt is refused only once the budget was already past its limit.
LoginReserveLate(r) ==
    /\ logins[r].pc = "reserve"
    /\ Consume
    /\ logins' = [logins EXCEPT ![r].pc = IF ~captcha /\ value > Limit THEN "refused" ELSE "verify",
                          ![r].reserved = TRUE, ![r].young = TRUE]
    /\ UNCHANGED <<captcha, hashes, locked, failures, consecutive, loginBounds, guesses, returned,
                   answered, notices>>

\* reserve_attempt; without Redis nothing is reserved and the sign-in goes on.
LoginReserve(r) ==
    /\ logins[r].pc = "reserve"
    /\ \/ /\ Consume
          /\ logins' = [logins EXCEPT ![r].pc = IF ~captcha /\ tries' > Limit THEN "refused" ELSE "verify",
                                ![r].reserved = TRUE, ![r].young = TRUE]
       \/ /\ logins' = [logins EXCEPT ![r].pc = "verify"]
          /\ UNCHANGED <<tries, expires>>
    /\ UNCHANGED <<captcha, hashes, locked, failures, consecutive, loginBounds, guesses, returned,
                   answered, notices>>

\* A refused attempt is given back.
LoginRefused(r) ==
    /\ logins[r].pc = "refused"
    /\ Release(r)
    /\ logins' = [logins EXCEPT ![r] = NoLogin]
    /\ UNCHANGED <<captcha, hashes, locked, failures, consecutive, loginBounds, answered, notices>>

\* The hash and the lock of the row read; its lock may have ended since.
LoginVerify(r) ==
    /\ logins[r].pc = "verify"
    /\ \E isLocked \in BOOLEAN :
        /\ isLocked => logins[r].locked
        /\ ~isLocked => ~logins[r].locked \/ ~locked
        /\ LET right == logins[r].typed = logins[r].hash.version /\ ~isLocked
           IN /\ logins' = [logins EXCEPT ![r].pc = IF right THEN "release" ELSE "record",
                                    ![r].locked = isLocked]
              /\ guesses' = IF ~right /\ logins[r].reserved /\ logins[r].young THEN guesses + 1
                            ELSE guesses
    /\ UNCHANGED <<captcha, hashes, locked, failures, consecutive, tries, expires, returned,
                   loginBounds, answered, notices>>

\* record_failure: a failure during a lockout never counts toward the next one.
RecordFailure(r) ==
    /\ failures' = [failures EXCEPT ![logins[r].identifier] = IF @ < Limit THEN @ + 1 ELSE @]
    /\ consecutive' = IF logins[r].locked \/ locked \/ consecutive = Threshold THEN consecutive
                      ELSE consecutive + 1

\* A locked password is refused as a wrong one is, and counted nowhere else.
LoginRecord(r) ==
    /\ logins[r].pc = "record"
    /\ RecordFailure(r)
    /\ logins' = IF logins[r].locked THEN [logins EXCEPT ![r] = NoLogin]
                 ELSE [logins EXCEPT ![r].pc = "count", ![r].since = TRUE]
    /\ UNCHANGED <<captcha, hashes, locked, budget, loginBounds, answered, notices>>

\* lockout_until: whether so many wrong passwords lock the account.
LocksAt(count) == Threshold # 0 /\ count >= Threshold

\* The client learns that the password was wrong.
Answer(r) ==
    /\ logins' = [logins EXCEPT ![r] = NoLogin]
    /\ answered' = IF logins[r].since THEN answered + 1 ELSE answered

LoginCount(r) ==
    /\ logins[r].pc = "count"
    /\ IF LocksAt(consecutive)
       THEN /\ logins' = [logins EXCEPT ![r].pc = "lock"]
            /\ UNCHANGED answered
       ELSE Answer(r)
    /\ UNCHANGED <<captcha, hashes, locked, failures, consecutive, budget, loginBounds, notices>>

\* set_locked_until, for a password that is not locked.
SetLockedUntil == ~locked /\ locked' = TRUE /\ consecutive' = 0

NotifyLocked == notices' = notices + 1

\* Of those who reached the threshold, the one that locked tells the owner.
LoginLock(r) ==
    /\ logins[r].pc = "lock"
    /\ IF locked
       THEN UNCHANGED <<locked, consecutive, notices>>
       ELSE SetLockedUntil /\ NotifyLocked
    /\ Answer(r)
    /\ UNCHANGED <<captcha, hashes, failures, budget, loginBounds>>

LoginRelease(r) ==
    /\ logins[r].pc = "release"
    /\ IF logins[r].reserved THEN Release(r) ELSE UNCHANGED budget
    /\ rehashing' = IF logins[r].hash.weak THEN rehashing \cup {logins[r].hash} ELSE rehashing
    /\ logins' = [logins EXCEPT ![r].pc = "proven"]
    /\ UNCHANGED <<captcha, password, chosen, locked, failures, consecutive, loginBounds, answered,
                   notices>>

\* Mutant: the new hash replaces whatever is stored.
RehashAnyway(h) ==
    /\ h \in rehashing
    /\ password' = [h EXCEPT !.weak = FALSE]
    /\ rehashing' = rehashing \ {h}
    /\ UNCHANGED <<captcha, chosen, locked, failures, consecutive, budget, logins, loginBounds, answered,
                   notices>>

\* rehash_if_weaker, in the background: only the hash it read is replaced.
Rehash(h) ==
    /\ h \in rehashing
    /\ password' = IF password = h THEN [h EXCEPT !.weak = FALSE] ELSE password
    /\ rehashing' = rehashing \ {h}
    /\ UNCHANGED <<captcha, chosen, locked, failures, consecutive, budget, logins, loginBounds, answered,
                   notices>>

-----------------------------------------------------------------------------
(***************************************************************************)
(* What forgives the failures.                                             *)
(***************************************************************************)
\* lockout_cleared_at is now, locked_until is NULL: clear_lockout, and record_sign_in.
Forgive ==
    /\ locked' = FALSE
    /\ failures' = [i \in Identifiers |-> 0]
    /\ consecutive' = 0
    /\ answered' = 0 /\ notices' = 0

Forgiven == [r \in Logins |-> [logins[r] EXCEPT !.since = FALSE]]

RecordSignIn == Forgive

\* issue_tokens: the sign-in, unless a second factor is asked for first.
LoginProven(r) ==
    /\ logins[r].pc = "proven"
    /\ \/ /\ RecordSignIn
          /\ logins' = [Forgiven EXCEPT ![r] = NoLogin]
       \/ /\ logins' = [logins EXCEPT ![r] = NoLogin]
          /\ UNCHANGED <<locked, failures, consecutive, answered, notices>>
    /\ UNCHANGED <<captcha, hashes, budget, loginBounds>>

\* A reset or a change of the password, or an administrator's unlock.
ChangeBegin(r) ==
    /\ logins[r].pc = "idle" /\ changes < MaxChanges
    /\ logins' = [logins EXCEPT ![r].pc = "forgive"]
    /\ changes' = changes + 1
    /\ UNCHANGED <<captcha, hashes, locked, failures, consecutive, budget, attempts, pauses,
                   answered, notices>>

UpdatePasswordHash(version) == password' = [version |-> version, weak |-> FALSE]

ChangeCommit(r) ==
    /\ logins[r].pc = "forgive"
    /\ \/ chosen' = chosen + 1 /\ UpdatePasswordHash(chosen')
       \/ UNCHANGED <<chosen, password>>
    /\ Forgive
    /\ logins' = [Forgiven EXCEPT ![r].pc = "forgiven"]
    /\ UNCHANGED <<captcha, rehashing, budget, loginBounds>>

\* The sign-in budget starts afresh.
ChangeReset(r) ==
    /\ logins[r].pc = "forgiven"
    /\ Reset
    /\ logins' = [Outdated EXCEPT ![r] = NoLogin]
    /\ UNCHANGED <<captcha, hashes, locked, failures, consecutive, loginBounds, answered, notices>>

-----------------------------------------------------------------------------
LockEnds ==
    /\ locked /\ pauses < MaxPauses
    /\ locked' = FALSE
    /\ logins' = Forgiven
    /\ answered' = 0 /\ notices' = 0
    /\ pauses' = pauses + 1
    /\ UNCHANGED <<captcha, hashes, failures, consecutive, budget, attempts, changes>>

\* The windows of 15 minutes.
BudgetExpires ==
    /\ tries # NoKey /\ expires /\ pauses < MaxPauses
    /\ Reset
    /\ logins' = Outdated
    /\ pauses' = pauses + 1
    /\ UNCHANGED <<captcha, hashes, locked, failures, consecutive, attempts, changes, answered,
                   notices>>

FailureAges(i) ==
    /\ failures[i] > 0 /\ pauses < MaxPauses
    /\ failures' = [failures EXCEPT ![i] = @ - 1]
    /\ pauses' = pauses + 1
    /\ UNCHANGED <<captcha, hashes, locked, consecutive, budget, logins, attempts, changes,
                   answered, notices>>

\* A handler is dropped: the client left, or the instance stopped.
LoginDrops(r) ==
    /\ logins[r].pc # "idle"
    /\ logins' = [logins EXCEPT ![r] = NoLogin]
    /\ UNCHANGED <<captcha, hashes, locked, failures, consecutive, budget, loginBounds, answered,
                   notices>>

LockoutNext ==
    \/ \E r \in Logins :
        \/ PostLogin(r) \/ LoginFind(r) \/ LoginReserve(r) \/ LoginRefused(r) \/ LoginVerify(r)
        \/ LoginRecord(r) \/ LoginCount(r) \/ LoginLock(r)
        \/ LoginRelease(r) \/ LoginProven(r)
        \/ ChangeBegin(r) \/ ChangeCommit(r) \/ ChangeReset(r)
        \/ LoginDrops(r)
    \/ \E h \in rehashing : Rehash(h)
    \/ LockEnds \/ BudgetExpires
    \/ \E i \in Identifiers : FailureAges(i)

LockoutSpec == LockoutInit /\ [][LockoutNext]_lockoutVars

-----------------------------------------------------------------------------
(***************************************************************************)
(* Properties.                                                             *)
(***************************************************************************)
\* reserve_attempt and the lockout, however many sign-ins run at once: the passwords
\* found wrong since the budget began stay within it, but for one more for each attempt
\* given back after a reset took the key away; since the failures were last forgiven
\* they are no more than lock the account, but for those running when it did; a lock
\* sends one notice, whoever reached the threshold with it; and a budget that counts
\* has an end, or it would refuse the owner for good.
GuessesBounded ==
    /\ ~captcha => guesses <= Limit + returned
    /\ Threshold # 0 => answered <= Threshold - 1 + Cardinality(Logins)
    /\ notices = IF locked THEN 1 ELSE 0
    /\ tries # NoKey /\ tries > 0 => expires

\* rehash_if_weaker: the stored hash is of the password the owner chose last,
\* though a sign-in with the one before may still be hashing it again.
PasswordIsLastChosen == password.version = chosen
=============================================================================
