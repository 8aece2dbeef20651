---------------------------- MODULE AccessItems -----------------------------
(***************************************************************************)
(* The other ways into an account: signing in with a passkey, through an   *)
(* external identity provider, and personal access tokens.  The three      *)
(* share no state with one another.                                        *)
(*                                                                         *)
(* An assertion is a challenge, a credential and a counter, correctly      *)
(* signed; one that is not ends like a refused one.  A provider names the  *)
(* person in the browser that comes back from it, or refuses.  The session *)
(* a sign-in opens is Sessions', a second factor still asked for after an  *)
(* external sign-in SecondFactor's.  Keys in Redis expire at any time.     *)
(***************************************************************************)
EXTENDS RequestSteps

CONSTANTS
    Passkeys,           \* credentials registered
    MaxCount,           \* bound on an authenticator's counter
    MAX_FAILURES_BY_IP,
    Browsers,
    Users,
    Subjects,           \* people as the provider names them
    MAX_ACTIVE          \* personal access tokens of an account

ASSUME AccessAssumption == MAX_ACTIVE \in Nat /\ MaxCount \in Nat /\ None \notin Users \cup Subjects

VARIABLES
    \* passkeys
    challenges,     \* passkey_auth:{digest}, the live ones
    sign_count,     \* of each credential; -1 once removed
    failures,       \* passkey_fail:{address}
    asserted,       \* sign-ins by passkey
    \* external identities
    flows,          \* pending flows
    outcomes,       \* outcomes waiting for their browser
    identity,       \* external_identities: the account and row of each subject
    begun,          \* every flow ever started
    completed,      \* flows that ended in a sign-in or a link
    \* personal access tokens
    tokens          \* each with the state of its session

passkeyVars == <<challenges, sign_count, failures, asserted>>
externalVars == <<flows, outcomes, identity, begun, completed>>
accessVars == <<passkeyVars, externalVars, tokens>>

NoIdentity == [id |-> 0, user |-> None]

AccessInit ==
    /\ challenges = {} /\ sign_count \in [Passkeys -> {0, 1}] /\ failures = 0 /\ asserted = {}
    /\ flows = {} /\ outcomes = {} /\ begun = {} /\ completed = {}
    /\ identity \in [Subjects -> {NoIdentity} \cup {[id |-> -1, user |-> u] : u \in Users}]
    /\ tokens = [n \in 1..MaxRequests |-> "none"]

-----------------------------------------------------------------------------
(***************************************************************************)
(* Signing in with a passkey.                                              *)
(***************************************************************************)
AuthenticationOptions ==
    challenges' = challenges \cup {Serial}

PostAuthenticationOptions ==
    /\ AuthenticationOptions /\ Single
    /\ UNCHANGED <<sign_count, failures, asserted, externalVars, tokens>>

\* Any answer ever made to a challenge may be presented, and more than once.
PasskeySignIn(r, p, c, n) ==
    /\ failures < MAX_FAILURES_BY_IP
    /\ Begin(r, [pc |-> "challenge", passkey |-> p, challenge |-> c, counter |-> n, stored |-> 0,
                 serial |-> Serial])
    /\ UNCHANGED accessVars

\* Mutant: the challenge is looked up and left.
LeaveChallenge(c) == UNCHANGED challenges

\* DEL: used up whatever follows.
UseChallenge(c) == challenges' = challenges \ {c}

VerifyChallenge(r) ==
    LET c == req[r].challenge IN
    /\ req[r].pc = "challenge"
    /\ UseChallenge(c)
    /\ Goto(r, IF c \in challenges THEN "credential" ELSE "refused")
    /\ UNCHANGED <<sign_count, failures, asserted, externalVars, tokens>>

\* An authenticator without a counter always presents zero.
CounterRegressed(stored, presented) == (stored # 0 \/ presented # 0) /\ presented <= stored

FindByCredentialId(p) == sign_count[p] >= 0

VerifyAssertion(r) ==
    LET x == req[r] IN
    /\ x.pc = "credential"
    /\ IF FindByCredentialId(x.passkey) /\ ~CounterRegressed(sign_count[x.passkey], x.counter)
       THEN /\ req' = [req EXCEPT ![r].pc = "record", ![r].stored = sign_count[x.passkey]]
            /\ UNCHANGED started
       ELSE Goto(r, "refused")
    /\ UNCHANGED accessVars

\* Only if the counter still holds the value that was read.
RecordUse(x) == FindByCredentialId(x.passkey) /\ sign_count[x.passkey] = x.stored

RecordPasskeyUse(r) ==
    LET x == req[r] IN
    /\ x.pc = "record"
    /\ IF RecordUse(x)
       THEN sign_count' = [sign_count EXCEPT ![x.passkey] = x.counter] /\ Goto(r, "issue")
       ELSE Goto(r, "refused") /\ UNCHANGED sign_count
    /\ UNCHANGED <<challenges, failures, asserted, externalVars, tokens>>

\* ensure_account_usable, or Drop.
IssueForPasskey(r) ==
    LET x == req[r] IN
    /\ x.pc = "issue"
    /\ asserted' = asserted \cup {[serial |-> x.serial, passkey |-> x.passkey,
                                   challenge |-> x.challenge, counter |-> x.counter]}
    /\ Done(r)
    /\ UNCHANGED <<challenges, sign_count, failures, externalVars, tokens>>

\* A refusal counts against the address.
CountRefusal(r) ==
    /\ req[r].pc = "refused"
    /\ failures' = IF failures < MAX_FAILURES_BY_IP THEN failures + 1 ELSE failures
    /\ Done(r)
    /\ UNCHANGED <<challenges, sign_count, asserted, externalVars, tokens>>

PasskeyRemoved(p) ==
    /\ FindByCredentialId(p) /\ sign_count' = [sign_count EXCEPT ![p] = -1]
    /\ Single
    /\ UNCHANGED <<challenges, failures, asserted, externalVars, tokens>>

ChallengeExpires(c) ==
    /\ challenges' = challenges \ {c}
    /\ UNCHANGED <<req, started, sign_count, failures, asserted, externalVars, tokens>>

FailuresExpire ==
    /\ failures > 0 /\ failures' = 0
    /\ UNCHANGED <<req, started, challenges, sign_count, asserted, externalVars, tokens>>

PasskeyNext ==
    \/ PostAuthenticationOptions
    \/ \E r \in Reqs, p \in Passkeys, c \in 1..started, n \in 0..MaxCount : PasskeySignIn(r, p, c, n)
    \/ \E r \in Reqs : \/ VerifyChallenge(r) \/ VerifyAssertion(r) \/ RecordPasskeyUse(r)
                       \/ IssueForPasskey(r) \/ CountRefusal(r)
    \/ \E p \in Passkeys : PasskeyRemoved(p)
    \/ \E c \in challenges : ChallengeExpires(c)
    \/ FailuresExpire

-----------------------------------------------------------------------------
(***************************************************************************)
(* External identities.                                                    *)
(***************************************************************************)
\* start: the state, and the binding the browser keeps.
Start(b, intent, u) ==
    LET f == [flow |-> Serial, browser |-> b, intent |-> intent, user |-> u] IN
    /\ flows' = flows \cup {f} /\ begun' = begun \cup {f}
    /\ Single
    /\ UNCHANGED <<passkeyVars, outcomes, identity, completed, tokens>>

StartLink(b, u) == Start(b, "link", u)

PostStartSignIn == \E b \in Browsers : Start(b, "sign_in", None)
PostStartLink == \E b \in Browsers, u \in Users : StartLink(b, u)

\* GETDEL.
TakePendingFlow(f) == flows' = flows \ {f}

\* identify asks the provider: a subject, or None when it refuses or its answer does not hold.
Identified == Subjects \cup {None}

Callback(r, f, x) ==
    /\ f \in flows /\ TakePendingFlow(f)
    /\ Begin(r, [pc |-> "settle", pending |-> f, subject |-> x,
                 code |-> Serial, user |-> None, identity |-> 0, error |-> FALSE])
    /\ UNCHANGED <<passkeyVars, outcomes, identity, begun, completed, tokens>>

\* Anyone can be made to open the callback.
GetCallback(r) == \E f \in flows, x \in Identified : Callback(r, f, x)

FindBySubject(x) == identity[x]

\* An unknown person cannot sign in; one linked elsewhere cannot be linked again.  Nothing is
\* linked here.
SettleError(f, x) ==
    \/ x = None
    \/ f.intent = "sign_in" /\ FindBySubject(x) = NoIdentity
    \/ f.intent = "link" /\ FindBySubject(x).user \notin {None, f.user}

Settle(r) ==
    LET x == req[r]
        error == SettleError(x.pending, x.subject) IN
    /\ x.pc = "settle"
    /\ req' = [req EXCEPT ![r].pc = "outcome", ![r].error = error,
                  ![r].user = IF error THEN None
                              ELSE IF x.pending.intent = "link" THEN x.pending.user
                              ELSE FindBySubject(x.subject).user,
                  ![r].identity = IF error THEN 0 ELSE FindBySubject(x.subject).id]
    /\ UNCHANGED <<started, accessVars>>

StoreOutcome(r) ==
    LET x == req[r] IN
    /\ x.pc = "outcome"
    /\ outcomes' = outcomes \cup {x}
    /\ Done(r)
    /\ UNCHANGED <<passkeyVars, flows, identity, begun, completed, tokens>>

\* Mutant: any browser may take the outcome.
BoundToNobody(o, b) == TRUE

BoundTo(o, b) == o.pending.browser = b

\* take_outcome: GETDEL, then the checks; the outcome is gone either way.
TakeOutcome(o, b, intent) == BoundTo(o, b) /\ o.pending.intent = intent /\ ~o.error

Completion(o, b, u) == [code |-> o.code, flow |-> o.pending.flow, browser |-> b,
                        intent |-> o.pending.intent, user |-> u]

CompleteSignIn(b, o) ==
    /\ o \in outcomes /\ outcomes' = outcomes \ {o}
    /\ completed' = IF TakeOutcome(o, b, "sign_in")
                    THEN completed \cup {Completion(o, b, o.user)} ELSE completed
    /\ Single
    /\ UNCHANGED <<passkeyVars, flows, identity, begun, tokens>>

\* An identity the account held already is only shown again.
CompleteLink(r, b, u, o) ==
    /\ o \in outcomes /\ outcomes' = outcomes \ {o}
    /\ IF TakeOutcome(o, b, "link") /\ o.user = u /\ o.identity = 0
       THEN Begin(r, [pc |-> "link", outcome |-> o, browser |-> b, user |-> u, id |-> Serial])
       ELSE Single
    /\ UNCHANGED <<passkeyVars, flows, identity, begun, completed, tokens>>

PostCompleteSignIn == \E b \in Browsers, o \in outcomes : CompleteSignIn(b, o)
PostCompleteLink(r) ==
    \E b \in Browsers, u \in Users, o \in outcomes : CompleteLink(r, b, u, o)

\* The unique index refuses a subject linked meanwhile.
InsertLink(s, id, u) ==
    /\ identity[s] = NoIdentity
    /\ identity' = [identity EXCEPT ![s] = [id |-> id, user |-> u]]

Link(r) ==
    LET x == req[r]  s == x.outcome.subject IN
    /\ x.pc = "link"
    /\ \/ identity[s] # NoIdentity /\ UNCHANGED <<identity, completed>>
       \/ /\ InsertLink(s, x.id, x.user)
          /\ completed' = completed \cup {Completion(x.outcome, x.browser, x.user)}
    /\ Done(r)
    /\ UNCHANGED <<passkeyVars, flows, outcomes, begun, tokens>>

DeleteOwned(u, s) ==
    /\ identity[s].user = u
    /\ identity' = [identity EXCEPT ![s] = NoIdentity]

Unlink(u, s) == DeleteOwned(u, s) /\ Single

DeleteIdentity ==
    /\ \E u \in Users, s \in Subjects : Unlink(u, s)
    /\ UNCHANGED <<passkeyVars, flows, outcomes, begun, completed, tokens>>

FlowExpires ==
    /\ \/ \E f \in flows : flows' = flows \ {f} /\ UNCHANGED outcomes
       \/ \E o \in outcomes : outcomes' = outcomes \ {o} /\ UNCHANGED flows
    /\ UNCHANGED <<req, started, passkeyVars, identity, begun, completed, tokens>>

ExternalNext ==
    \/ PostStartSignIn \/ PostStartLink \/ PostCompleteSignIn \/ DeleteIdentity
    \/ \E r \in Reqs : \/ GetCallback(r) \/ Settle(r) \/ StoreOutcome(r)
                       \/ PostCompleteLink(r) \/ Link(r)
    \/ FlowExpires

-----------------------------------------------------------------------------
(***************************************************************************)
(* Personal access tokens of one account.                                  *)
(***************************************************************************)
Active == {n \in DOMAIN tokens : tokens[n] = "active"}

CreateToken(r) == Begin(r, [pc |-> "count", token |-> Serial])

PostToken(r) == CreateToken(r) /\ UNCHANGED accessVars

\* Mutant: no lock.
NoLock == TRUE

\* pg_advisory_xact_lock, held to the commit.
AdvisoryLock == \A s \in Reqs : req[s].pc # "insert_token"

CountActive(r) ==
    /\ req[r].pc = "count" /\ AdvisoryLock
    /\ IF Cardinality(Active) < MAX_ACTIVE THEN Goto(r, "insert_token") ELSE Done(r)
    /\ UNCHANGED accessVars

\* The session and the token, then the commit.
InsertToken(r) ==
    /\ req[r].pc = "insert_token"
    /\ tokens' = [tokens EXCEPT ![req[r].token] = "active"]
    /\ Done(r)
    /\ UNCHANGED <<passkeyVars, externalVars>>

FindOwned(n) == tokens[n] # "none"

RevokeToken(n) == FindOwned(n) /\ tokens' = [tokens EXCEPT ![n] = "revoked"]

DeleteToken ==
    /\ \E n \in DOMAIN tokens : RevokeToken(n)
    /\ Single
    /\ UNCHANGED <<passkeyVars, externalVars>>

TokenExpires(n) ==
    /\ tokens[n] = "active" /\ tokens' = [tokens EXCEPT ![n] = "expired"]
    /\ UNCHANGED <<req, started, passkeyVars, externalVars>>

PatNext ==
    \/ \E r \in Reqs : PostToken(r) \/ CountActive(r) \/ InsertToken(r)
    \/ DeleteToken
    \/ \E n \in DOMAIN tokens : TokenExpires(n)

-----------------------------------------------------------------------------
DropAccess(r) == req[r] # Idle /\ Done(r) /\ UNCHANGED accessVars

AccessDrop == \E r \in Reqs : DropAccess(r)

AccessNext == PasskeyNext \/ ExternalNext \/ PatNext \/ AccessDrop

AccessSpec == RequestsInit /\ AccessInit /\ [][AccessNext]_<<req, started, accessVars>>

-----------------------------------------------------------------------------
(***************************************************************************)
(* Properties.                                                             *)
(***************************************************************************)
\* A passkey challenge signs in once, however often its answer is presented, and two
\* authenticators with the same key cannot both sign in at the same count, not even at the
\* same moment: the copy is caught by the counter.
PasskeySignsInOnce ==
    \A a, b \in asserted :
        \/ a.challenge = b.challenge
        \/ a.passkey = b.passkey /\ a.counter = b.counter /\ a.counter # 0
        => a = b

\* A sign-in or a link ends once, in the browser that began it, as what it began, and a
\* link on the account that began it, whoever carried the provider's answer, opened it
\* twice or presents the code.
FlowEndsWhereItBegan ==
    \A c \in completed :
        /\ \A d \in completed : c.flow = d.flow => c = d
        /\ \E f \in begun :
            /\ f.flow = c.flow /\ f.browser = c.browser /\ f.intent = c.intent
            /\ f.intent = "link" => f.user = c.user

\* No order of creations gives an account more live tokens than the limit.
TokensBounded == Cardinality(Active) <= MAX_ACTIVE
=============================================================================
