---------------------------- MODULE SecondFactor ----------------------------
(***************************************************************************)
(* What follows the first factor of one account: a sign-in with the        *)
(* password or a mailed link pauses for a second factor when one is        *)
(* enrolled, and a challenge kept in Redis is completed with a TOTP code,  *)
(* a mailed code or a recovery code.  A password reset meanwhile ends the  *)
(* sessions, the links and the challenges of the account.                  *)
(*                                                                         *)
(* A proof is the number of resets before the first factor was proven.     *)
(* The account is active and keeps its second factor; the budgets by       *)
(* client address have the shape of the account's and are left out.        *)
(***************************************************************************)
EXTENDS Integers, FiniteSets

CONSTANTS
    Reqs,           \* requests running at once
    Operations,     \* what they may be
    Challenges,     \* the tokens handed out, each once
    Methods,        \* the second factor enrolled, None for none
    TotpCodes,      \* codes of the current time steps
    RecoveryCodes,
    Links,          \* sign-in links
    MaxOpen,        \* MAX_OPEN_CHALLENGES
    MaxFailures,    \* MAX_TOTP_FAILURES, MAX_RECOVERY_FAILURES, MAX_FAILURES
    AccountLimit,   \* the account's budget of each kind
    MaxCodes,       \* bound on codes mailed
    MaxResets,      \* bound on password resets
    MaxRequests,    \* bound on requests started
    MaxAborts,      \* bound on handlers dropped
    None, Guess

Kinds == {"totp", "email", "recovery"}

ASSUME SecondFactorAssumption ==
    /\ Operations \subseteq Kinds \cup {"login", "link", "resend", "reset"}
    /\ Methods \subseteq {"totp", "email", None}
    /\ MaxOpen \in Nat \ {0} /\ MaxFailures \in Nat \ {0} /\ AccountLimit \in Nat \ {0}
    /\ MaxCodes \in Nat /\ MaxResets \in Nat
    /\ MaxRequests \in Nat /\ MaxAborts \in Nat
    /\ IsFiniteSet(Reqs)
    /\ None \notin Kinds \cup {"login", "link", "resend", "reset"}

VARIABLES
    method,     \* the primary method
    resets,     \* the password's version
    challenge,  \* pre_auth: the state of each challenge
    index,      \* user_pre_auth: the challenges of the account
    fails,      \* totp_fail, email2fa_fail, rc_fail of each challenge
    account,    \* totp_user_fail, email2fa_user_fail, rc_user_fail
    used,       \* used_totp_codes and the recovery codes spent
    mailed,     \* email_2fa_codes unused
    codes,      \* number of codes mailed
    link,       \* magic_link_tokens
    live,       \* the proofs of the live sessions
    req,
    started, aborts,
    \* history
    wrong,      \* wrong codes checked for each challenge since its budget began
    signed,     \* sign-ins completed for each challenge
    spent,      \* sign-ins completed with each code
    outdated    \* links that were live when another one was used

factorVars == <<method, resets, challenge, index, fails, account, used, mailed, codes, link, live, req,
          started, aborts, wrong, signed, spent, outdated>>

mail == <<mailed, codes>>
budgets == <<fails, account, wrong>>
history == <<signed, spent, outdated>>
bounds == <<started, aborts>>

MailedCodes == [challenge: Challenges, id: 1..MaxCodes]
Codes == TotpCodes \cup RecoveryCodes \cup MailedCodes \cup Links

\* A code is of one kind.
ASSUME CodesAssumption ==
    /\ TotpCodes \cap RecoveryCodes = {}
    /\ (TotpCodes \cup RecoveryCodes) \cap MailedCodes = {}
    /\ Links \cap (TotpCodes \cup RecoveryCodes \cup MailedCodes) = {}

Challenge == [state: {"none", "open", "gone"}, proof: Nat]

Req == [pc: {"idle", "find", "link", "locked", "method", "store", "count", "pop", "drop", "index",
             "send", "mail", "load", "budget", "verify", "clear", "take", "after", "issue",
             "commit", "list", "purge", "unlist", "afresh"},
        op: Operations \cup {None},
        challenge: Challenges \cup {None},
        code: Codes \cup {Guess, None},     \* Guess: a code that is not right
        proof: Nat,
        n: Nat,                             \* the challenges to drop; the number of a code
        read: SUBSET (Challenges \cup MailedCodes),
        young: BOOLEAN]                     \* history: counted by the budget as it is now

Idle == [pc |-> "idle", op |-> None, challenge |-> None, code |-> None, proof |-> 0,
         n |-> 0, read |-> {}, young |-> FALSE]

SecondFactorInit ==
    /\ method \in Methods
    /\ resets = 0
    /\ challenge = [c \in Challenges |-> [state |-> "none", proof |-> 0]]
    /\ index = {}
    /\ fails = [c \in Challenges |-> [k \in Kinds |-> 0]]
    /\ account = [k \in Kinds |-> 0]
    /\ used = {}
    /\ mailed = {} /\ codes = 0
    /\ link = [l \in Links |-> "unsent"]
    /\ live = {}
    /\ req = [r \in Reqs |-> Idle]
    /\ started = 0 /\ aborts = 0
    /\ wrong = [c \in Challenges |-> [k \in Kinds |-> 0]]
    /\ signed = [c \in Challenges |-> 0]
    /\ spent = [x \in Codes |-> 0]
    /\ outdated = {}

Begin(r, op) ==
    /\ req[r].pc = "idle" /\ op \in Operations
    /\ started < MaxRequests /\ started' = started + 1

Goto(r, pc) == req' = [req EXCEPT ![r].pc = pc]
Done(r) == req' = [req EXCEPT ![r] = Idle]

-----------------------------------------------------------------------------
(***************************************************************************)
(* The first factor.                                                       *)
(***************************************************************************)
\* The right password, checked against the row read.
LoginBegin(r) ==
    /\ Begin(r, "login")
    /\ req' = [req EXCEPT ![r] = [Idle EXCEPT !.pc = "method", !.op = "login", !.proof = resets]]
    /\ UNCHANGED <<method, resets, challenge, index, budgets, used, mail, link, live, aborts,
                   history>>

\* add_magic_link: earlier links stay usable.
AddMagicLink(l) == link' = [link EXCEPT ![l] = "live"]

\* send_link: the mailbox budget allows as many links as Links has; the audit entry and
\* the mail follow.
SendLink(l) == link[l] = "unsent" /\ AddMagicLink(l)

\* request_magic_link, by the owner or anyone who knows the address; its other outcomes
\* change nothing.
RequestMagicLink(l) ==
    /\ "link" \in Operations /\ SendLink(l)
    /\ started < MaxRequests /\ started' = started + 1
    /\ UNCHANGED <<method, resets, challenge, index, budgets, used, mail, live, req, aborts,
                   history>>

\* complete_magic_link: the link is looked up and found valid.
LinkBegin(r, l) ==
    /\ Begin(r, "link") /\ link[l] = "live"
    /\ req' = [req EXCEPT ![r] = [Idle EXCEPT !.pc = "link", !.op = "link", !.code = l]]
    /\ UNCHANGED <<method, resets, challenge, index, budgets, used, mail, link, live, aborts,
                   history>>

\* The handlers.
PostMagicLink == \E l \in Links : RequestMagicLink(l)
CompleteMagicLink(r) == \E l \in Links : LinkBegin(r, l)

\* The link whose row a running transaction has updated.
LockedLinks == {req[r].code : r \in {s \in Reqs : req[s].pc = "locked"}}

\* consume_magic_link, its first UPDATE: used_at is looked at again under the row's lock.
LinkConsume(r) ==
    /\ req[r].pc = "link" /\ req[r].code \notin LockedLinks
    /\ IF link[req[r].code] = "live" THEN Goto(r, "locked") ELSE Done(r)
    /\ UNCHANGED <<method, resets, challenge, index, budgets, used, mail, link, live, bounds,
                   history>>

\* Its second UPDATE waits for the other links' rows, then the transaction commits.
LinkConsumeOthers(r) ==
    /\ req[r].pc = "locked"
    /\ LockedLinks = {req[r].code}
    /\ link' = [l \in Links |-> IF link[l] = "live" THEN "used" ELSE link[l]]
    /\ outdated' = outdated \cup ({l \in Links : link[l] = "live"} \ {req[r].code})
    /\ spent' = [spent EXCEPT ![req[r].code] = @ + 1]
    /\ req' = [req EXCEPT ![r].pc = "method", ![r].proof = resets]
    /\ UNCHANGED <<method, resets, challenge, index, budgets, used, mail, live, bounds, signed>>

\* Two of them wait for each other: PostgreSQL rolls one back.
LinkDeadlock(r) ==
    /\ req[r].pc = "locked"
    /\ LockedLinks # {req[r].code}
    /\ Done(r)
    /\ UNCHANGED <<method, resets, challenge, index, budgets, used, mail, link, live, bounds,
                   history>>

\* first_factor_proven: a challenge when a second factor is enrolled.
FirstFactorProven(r) ==
    /\ req[r].pc = "method"
    /\ Goto(r, IF method = None THEN "issue" ELSE "store")
    /\ UNCHANGED <<method, resets, challenge, index, budgets, used, mail, link, live, bounds,
                   history>>

-----------------------------------------------------------------------------
(***************************************************************************)
(* Opening a challenge.                                                    *)
(***************************************************************************)
ChallengeStore(r, c) ==
    /\ req[r].pc = "store" /\ challenge[c].state = "none"
    /\ challenge' = [challenge EXCEPT ![c] = [state |-> "open", proof |-> req[r].proof]]
    /\ req' = [req EXCEPT ![r].pc = "count", ![r].challenge = c]
    /\ UNCHANGED <<method, resets, index, budgets, used, mail, link, live, bounds, history>>

\* SCARD: at most MaxOpen - 1 stay beside the new one.
ChallengeCount(r) ==
    /\ req[r].pc = "count"
    /\ LET open == Cardinality(index)
       IN req' = [req EXCEPT ![r].pc = IF open < MaxOpen THEN "index" ELSE "pop",
                             ![r].n = IF open < MaxOpen THEN 0 ELSE open - (MaxOpen - 1)]
    /\ UNCHANGED <<method, resets, challenge, index, budgets, used, mail, link, live, bounds,
                   history>>

\* SPOP takes any of them out of the index.
ChallengePop(r) ==
    /\ req[r].pc = "pop"
    /\ \/ /\ req[r].n > 0
          /\ \E c \in index :
              /\ index' = index \ {c}
              /\ req' = [req EXCEPT ![r].pc = "drop", ![r].n = @ - 1, ![r].read = {c}]
       \/ /\ req[r].n = 0 \/ index = {}
          /\ Goto(r, "index")
          /\ UNCHANGED index
    /\ UNCHANGED <<method, resets, challenge, budgets, used, mail, link, live, bounds, history>>

\* The keys of a challenge deleted: its state and its budgets.
Deleted(cs) == [c \in Challenges |-> IF c \in cs THEN [challenge[c] EXCEPT !.state = "gone"]
                                     ELSE challenge[c]]
Cleared(cs, ks) == [c \in Challenges |-> [k \in Kinds |-> IF c \in cs /\ k \in ks THEN 0
                                                          ELSE fails[c][k]]]
ClearedWrong(cs, ks) == [c \in Challenges |-> [k \in Kinds |-> IF c \in cs /\ k \in ks THEN 0
                                                               ELSE wrong[c][k]]]
Older(cs, ks) == [r \in Reqs |-> IF req[r].challenge \in cs /\ req[r].op \in ks
                                 THEN [req[r] EXCEPT !.young = FALSE] ELSE req[r]]

DeleteKeys(cs) ==
    /\ challenge' = Deleted(cs)
    /\ fails' = Cleared(cs, Kinds)
    /\ wrong' = ClearedWrong(cs, Kinds)

ChallengeDrop(r) ==
    /\ req[r].pc = "drop"
    /\ DeleteKeys(req[r].read)
    /\ req' = [Older(req[r].read, Kinds) EXCEPT ![r].pc = "pop", ![r].read = {}]
    /\ UNCHANGED <<method, resets, index, account, used, mail, link, live, bounds, history>>

ChallengeIndex(r) ==
    /\ req[r].pc = "index"
    /\ index' = index \cup {req[r].challenge}
    /\ IF method = "email" THEN Goto(r, "send") ELSE Done(r)
    /\ UNCHANGED <<method, resets, challenge, budgets, used, mail, link, live, bounds, history>>

-----------------------------------------------------------------------------
(***************************************************************************)
(* Mailing a code: send_code, for a new challenge or a resend.             *)
(***************************************************************************)
ResendBegin(r, c) ==
    /\ Begin(r, "resend") /\ method = "email" /\ challenge[c].state = "open"
    /\ req' = [req EXCEPT ![r] = [Idle EXCEPT !.pc = "send", !.op = "resend", !.challenge = c]]
    /\ UNCHANGED <<method, resets, challenge, index, budgets, used, mail, link, live, aborts,
                   history>>

\* Mutant: the code in use is replaced.
SendReplacesAll(r) ==
    /\ req[r].pc = "send"
    /\ \/ /\ codes < MaxCodes
          /\ codes' = codes + 1
          /\ req' = [req EXCEPT ![r].pc = "mail", ![r].n = codes', ![r].read = mailed]
       \/ /\ Done(r)
          /\ UNCHANGED codes
    /\ UNCHANGED <<method, resets, challenge, index, budgets, used, mailed, link, live, bounds,
                   history>>

\* The cooldown and the hourly budget refuse, or the transaction begins: all
\* unused codes but the latest are to be deleted.
Send(r) ==
    /\ req[r].pc = "send"
    /\ \/ /\ codes < MaxCodes
          /\ codes' = codes + 1
          /\ req' = [req EXCEPT ![r].pc = "mail", ![r].n = codes',
                                ![r].read = {x \in mailed : \E y \in mailed : x.id < y.id}]
       \/ /\ Done(r)
          /\ UNCHANGED codes
    /\ UNCHANGED <<method, resets, challenge, index, budgets, used, mailed, link, live, bounds,
                   history>>

\* The new code is stored with the deletion of the old ones.
SendCommit(r) ==
    /\ req[r].pc = "mail"
    /\ mailed' = (mailed \ req[r].read) \cup {[challenge |-> req[r].challenge,
                                               id |-> req[r].n]}
    /\ Done(r)
    /\ UNCHANGED <<method, resets, challenge, index, budgets, used, codes, link, live, bounds,
                   history>>

-----------------------------------------------------------------------------
(***************************************************************************)
(* Completing a challenge.                                                 *)
(***************************************************************************)
\* What may be typed: a right code of the kind, a mailed one of any challenge, a guess.
Typed(k) == {Guess} \cup (CASE k = "totp" -> TotpCodes
                            [] k = "recovery" -> RecoveryCodes
                            [] k = "email" -> mailed)

\* A token handed out is completed by its method, or by a recovery code.
CompleteBegin(r, k, c, code) ==
    /\ Begin(r, k) /\ challenge[c].state # "none"
    /\ req' = [req EXCEPT ![r] = [Idle EXCEPT !.pc = "load", !.op = k, !.challenge = c,
                                              !.code = code]]
    /\ UNCHANGED <<method, resets, challenge, index, budgets, used, mail, link, live, aborts,
                   history>>

CompleteLoad(r) ==
    LET c == req[r].challenge
    IN /\ req[r].pc = "load"
       /\ IF challenge[c].state = "open" /\ req[r].op \in {method, "recovery"}
          THEN req' = [req EXCEPT ![r].pc = "budget", ![r].proof = challenge[c].proof]
          ELSE Done(r)
       /\ UNCHANGED <<method, resets, challenge, index, budgets, used, mail, link, live, bounds,
                      history>>

\* The handlers, one for each kind of code.
CompleteTwoFactor(r, c) == \E code \in Typed("totp") : CompleteBegin(r, "totp", c, code)
CompleteEmailTwoFactor(r, c) == \E code \in Typed("email") : CompleteBegin(r, "email", c, code)
RecoveryLogin(r, c) == \E code \in Typed("recovery") : CompleteBegin(r, "recovery", c, code)

Incr(n, limit) == IF n > limit THEN n ELSE n + 1

\* account_budget_exceeded, or the challenge's own budget.
Exceeded(c, k) == fails'[c][k] > MaxFailures \/ account'[k] > AccountLimit

\* The attempt is counted against the challenge and the account before its code is looked at.
CompleteBudget(r) ==
    LET c == req[r].challenge
        k == req[r].op
    IN /\ req[r].pc = "budget"
       /\ fails' = [fails EXCEPT ![c][k] = Incr(@, MaxFailures)]
       /\ account' = [account EXCEPT ![k] = Incr(@, AccountLimit)]
       /\ IF Exceeded(c, k) THEN Done(r)
          ELSE req' = [req EXCEPT ![r].pc = "verify", ![r].young = TRUE]
       /\ UNCHANGED <<method, resets, challenge, index, wrong, used, mail, link, live, bounds,
                      history>>

\* Whether the code is right and nobody has spent it: a mailed code belongs to its challenge.
Right(r) ==
    CASE req[r].op = "email" -> req[r].code \in mailed /\ req[r].code.challenge = req[r].challenge
      [] OTHER -> req[r].code # Guess /\ req[r].code \notin used

\* used_totp_codes, or the recovery code's used_at.
Spent(r) == IF req[r].op = "email" THEN used ELSE used \cup {req[r].code}

\* record_second_factor_failure: recorded beside the password's failures, and never
\* counted towards the lockout.
RecordSecondFactorFailure(r) ==
    /\ wrong' = [wrong EXCEPT ![req[r].challenge][req[r].op] = IF req[r].young THEN @ + 1 ELSE @]
    /\ Done(r)

\* The code is checked and spent in one statement; a mailed one ends the others.
CompleteVerify(r) ==
    LET k == req[r].op
    IN /\ req[r].pc = "verify"
       /\ k = "email" => \A s \in Reqs : req[s].pc = "mail" => req[s].read = {}   \* row locks
       /\ IF Right(r)
          THEN /\ used' = Spent(r)
               /\ mailed' = IF k = "email" THEN {} ELSE mailed
               /\ Goto(r, IF k = "recovery" THEN "take" ELSE "clear")
               /\ UNCHANGED wrong
          ELSE RecordSecondFactorFailure(r) /\ UNCHANGED <<used, mailed>>
       /\ UNCHANGED <<method, resets, challenge, index, fails, account, codes, link, live, bounds,
                      history>>

\* After a right TOTP or mailed code the account's budget starts afresh; with a
\* mailed one the challenge's too.
CompleteClear(r) ==
    LET c == req[r].challenge
    IN /\ req[r].pc = "clear"
       /\ account' = [account EXCEPT ![req[r].op] = 0]
       /\ IF req[r].op = "email"
          THEN /\ fails' = Cleared({c}, {"email"})
               /\ wrong' = ClearedWrong({c}, {"email"})
               /\ req' = [Older({c}, {"email"}) EXCEPT ![r].pc = "take"]
          ELSE /\ Goto(r, "take")
               /\ UNCHANGED <<fails, wrong>>
       /\ UNCHANGED <<method, resets, challenge, index, used, mail, link, live, bounds, history>>

\* Mutant: the challenge is removed without looking whether it was there.
CompleteTakeAnyway(r) ==
    LET c == req[r].challenge
    IN /\ req[r].pc = "take"
       /\ challenge' = Deleted({c})
       /\ index' = index \ {c}
       /\ Goto(r, IF req[r].op = "recovery" THEN "after" ELSE "issue")
       /\ UNCHANGED <<method, resets, budgets, used, mail, link, live, bounds, history>>

\* take_pre_auth: of concurrent completions, the one that removes the challenge goes on.
CompleteTake(r) ==
    LET c == req[r].challenge
        ks == {req[r].op} \ {"email"}
    IN /\ req[r].pc = "take"
       /\ IF challenge[c].state = "open"
          THEN /\ challenge' = Deleted({c})
               /\ fails' = Cleared({c}, ks)
               /\ wrong' = ClearedWrong({c}, ks)
               /\ index' = index \ {c}
               /\ req' = [Older({c}, ks) EXCEPT ![r].pc = IF req[r].op = "recovery" THEN "after"
                                                          ELSE "issue"]
          ELSE /\ Done(r)
               /\ UNCHANGED <<challenge, fails, wrong, index>>
       /\ UNCHANGED <<method, resets, account, used, mail, link, live, bounds, history>>

\* After a recovery code the account's budget starts afresh once the challenge is taken.
CompleteAfter(r) ==
    /\ req[r].pc = "after"
    /\ account' = [account EXCEPT !["recovery"] = 0]
    /\ Goto(r, "issue")
    /\ UNCHANGED <<method, resets, challenge, index, fails, wrong, used, mail, link, live, bounds,
                   history>>

\* issue_tokens.
Issue(r) ==
    /\ req[r].pc = "issue"
    /\ live' = live \cup {req[r].proof}
    /\ IF req[r].op \in Kinds
       THEN /\ signed' = [signed EXCEPT ![req[r].challenge] = @ + 1]
            /\ spent' = [spent EXCEPT ![req[r].code] = @ + 1]
       ELSE UNCHANGED <<signed, spent>>
    /\ Done(r)
    /\ UNCHANGED <<method, resets, challenge, index, budgets, used, mail, link, bounds, outdated>>

-----------------------------------------------------------------------------
(***************************************************************************)
(* A password reset.                                                       *)
(***************************************************************************)
ResetBegin(r) ==
    /\ Begin(r, "reset") /\ resets < MaxResets
    /\ \A s \in Reqs : req[s].op # "reset"      \* bound: one at a time
    /\ req' = [req EXCEPT ![r] = [Idle EXCEPT !.pc = "commit", !.op = "reset"]]
    /\ UNCHANGED <<method, resets, challenge, index, budgets, used, mail, link, live, aborts,
                   history>>

\* The new hash, the sessions revoked and the links ended, in one transaction.
ResetCommit(r) ==
    /\ req[r].pc = "commit"
    /\ LockedLinks = {}
    /\ resets' = resets + 1
    /\ live' = {}
    /\ outdated' = outdated \cup {l \in Links : link[l] = "live"}
    /\ link' = [l \in Links |-> IF link[l] = "live" THEN "used" ELSE link[l]]
    /\ Goto(r, "list")
    /\ UNCHANGED <<method, challenge, index, budgets, used, mail, bounds, signed, spent>>

\* purge_user_pre_auth_and_email_change: SMEMBERS, the challenges' keys, the index.
PurgeList(r) ==
    /\ req[r].pc = "list"
    /\ req' = [req EXCEPT ![r].pc = "purge", ![r].read = index]
    /\ UNCHANGED <<method, resets, challenge, index, budgets, used, mail, link, live, bounds,
                   history>>

PurgeDelete(r) ==
    /\ req[r].pc = "purge"
    /\ DeleteKeys(req[r].read)
    /\ req' = [Older(req[r].read, Kinds) EXCEPT ![r].pc = "unlist"]
    /\ UNCHANGED <<method, resets, index, account, used, mail, link, live, bounds, history>>

PurgeIndex(r) ==
    /\ req[r].pc = "unlist"
    /\ index' = {}
    /\ Goto(r, "afresh")
    /\ UNCHANGED <<method, resets, challenge, budgets, used, mail, link, live, bounds, history>>

ResetBudgets(r) ==
    /\ req[r].pc = "afresh"
    /\ account' = [k \in Kinds |-> 0]
    /\ Done(r)
    /\ UNCHANGED <<method, resets, challenge, index, fails, wrong, used, mail, link, live, bounds,
                   history>>

-----------------------------------------------------------------------------
\* A challenge's five minutes end; the index lives on with younger ones.
ChallengeExpires(c) ==
    /\ challenge[c].state = "open"
    /\ challenge' = Deleted({c})
    /\ UNCHANGED <<method, resets, index, budgets, used, mail, link, live, req, bounds, history>>

\* A handler is dropped: the client left, or the instance stopped.
Abort(r) ==
    /\ req[r].pc # "idle" /\ aborts < MaxAborts
    /\ Done(r)
    /\ aborts' = aborts + 1
    /\ UNCHANGED <<method, resets, challenge, index, budgets, used, mail, link, live, started,
                   history>>

SecondFactorNext ==
    \/ \E r \in Reqs :
        \/ LoginBegin(r) \/ CompleteMagicLink(r)
        \/ LinkConsume(r) \/ LinkConsumeOthers(r) \/ LinkDeadlock(r) \/ FirstFactorProven(r)
        \/ \E c \in Challenges : ChallengeStore(r, c) \/ ResendBegin(r, c)
        \/ ChallengeCount(r) \/ ChallengePop(r) \/ ChallengeDrop(r) \/ ChallengeIndex(r)
        \/ Send(r) \/ SendCommit(r)
        \/ \E c \in Challenges :
            CompleteTwoFactor(r, c) \/ CompleteEmailTwoFactor(r, c) \/ RecoveryLogin(r, c)
        \/ CompleteLoad(r) \/ CompleteBudget(r) \/ CompleteVerify(r) \/ CompleteClear(r)
        \/ CompleteTake(r) \/ CompleteAfter(r) \/ Issue(r)
        \/ ResetBegin(r) \/ ResetCommit(r) \/ PurgeList(r) \/ PurgeDelete(r) \/ PurgeIndex(r)
        \/ ResetBudgets(r)
        \/ Abort(r)
    \/ \E c \in Challenges : ChallengeExpires(c)
    \/ PostMagicLink

SecondFactorSpec == SecondFactorInit /\ [][SecondFactorNext]_factorVars

-----------------------------------------------------------------------------
(***************************************************************************)
(* Properties.                                                             *)
(***************************************************************************)
\* take_pre_auth, consume_magic_link, try_consume_totp_code, recovery_code::consume: a
\* challenge opens at most one session, whatever right codes of whatever kinds are
\* presented for it at once, a code signs in once, and of the links that were live
\* together only one does; and no challenge has more wrong codes looked at than its
\* budget allows.
OneSignInPerProof ==
    /\ \A c \in Challenges : signed[c] <= 1 /\ \A k \in Kinds : wrong[c][k] <= MaxFailures
    /\ \A x \in Codes : spent[x] <= 1
    /\ \A l \in outdated : spent[l] = 0

\* replace_active_in_tx: a resend, asked for by anyone holding the challenge,
\* never takes away the latest code mailed, which its owner may be typing.
ResendKeepsTheCode ==
    [][mailed' # {} => \A x \in mailed : (\A y \in mailed : y.id <= x.id) => x \in mailed']_factorVars
=============================================================================
