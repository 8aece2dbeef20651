------------------------------ MODULE Accounts ------------------------------
(***************************************************************************)
(* The life of an account: registration, verification by link, password    *)
(* reset by link, change of password, change of address in four requests   *)
(* kept in Redis, and erasure.                                             *)
(*                                                                         *)
(* Requests run at once and each is a few steps; a transaction is one step *)
(* (a rollback is a dropped request).  Owner starts active at Home with    *)
(* live sessions; other accounts are registered.  A link or a code is      *)
(* known to whoever reads the mailbox it was sent to.  Left out: names and *)
(* locales, budgets and cooldowns (they only refuse; SecondFactor and      *)
(* Lockout are about them), audit entries and events (Outbox).             *)
(***************************************************************************)
EXTENDS Integers, Sequences, FiniteSets

CONSTANTS
    Users, Owner,       \* accounts, and the one that is active at first
    Addresses, Home,    \* addresses, and the Owner's at first
    Passwords,
    Sessions,           \* sessions of the Owner
    Flows,              \* flow tokens, each handed out once
    Reqs,               \* requests running at once
    Operations,         \* what they may be
    MaxLinks,           \* bound on links mailed
    MaxRequests,        \* bound on requests started
    None

ASSUME AccountsAssumption ==
    /\ Owner \in Users /\ Home \in Addresses
    /\ None \notin Users \cup Addresses \cup Passwords \cup Sessions \cup Flows
    /\ None \notin {"new_submit", "new_verify", "done"}
    /\ Operations \subseteq {"register", "resend", "verify", "forgot", "reset", "password",
                             "erase", "start", "current", "submit", "confirm"}
    /\ MaxLinks \in Nat /\ MaxRequests \in Nat

VARIABLES
    user,       \* users
    link,       \* email_verification_tokens and password_reset_tokens, in the order created
    live,       \* the Owner's live sessions
    flow,       \* email_change_flow
    active,     \* email_change_active of the Owner
    req,
    started,
    \* history
    chosen,     \* the password last chosen by someone who proved the account is theirs
    proven      \* addresses proven for each account by a link or a code sent to them

accountVars == <<user, link, live, flow, active, req, started, chosen, proven>>

redis == <<flow, active>>
history == <<chosen, proven>>

Status == {"none", "pending", "active", "gone"}
User == [status: Status, email: Addresses \cup {None}, password: Passwords \cup {None}]
NoUser == [status |-> "none", email |-> None, password |-> None]

\* password: the credentials a registration on a pending account gave its link.
Link == [kind: {"verification", "reset"}, user: Users, to: Addresses,
         password: Passwords \cup {None}, used: BOOLEAN]

\* The code is the pair of the step it was made at and the mailbox it was sent to;
\* confirmed: history.
Flow == [step: {"none", "current_verify", "new_submit", "new_verify", "gone"},
         code: Addresses \cup {None},       \* where the code was sent, None if nowhere
         email: Addresses \cup {None},      \* new_email
         confirmed: BOOLEAN]
NoFlow == [step |-> "none", code |-> None, email |-> None, confirmed |-> FALSE]

Req == [pc: {"idle", "create", "issue", "verify", "send", "reset", "password", "erase", "cancel",
             "save", "activate", "current", "submit", "confirm", "purge", "drop"},
        user: Users \cup {None}, address: Addresses \cup {None}, password: Passwords \cup {None},
        link: Nat, session: Sessions \cup {None}, flow: Flows \cup {None}, read: Flow,
        found: Flows \cup {None}]
Idle == [pc |-> "idle", user |-> None, address |-> None, password |-> None, link |-> 0,
         session |-> None, flow |-> None, read |-> NoFlow, found |-> None]

AccountsInit ==
    /\ \E p \in Passwords :
          /\ user = [u \in Users |-> IF u = Owner
                        THEN [status |-> "active", email |-> Home, password |-> p] ELSE NoUser]
          /\ chosen = [u \in Users |-> IF u = Owner THEN p ELSE None]
    /\ proven = [u \in Users |-> IF u = Owner THEN {Home} ELSE {}]
    /\ link = <<>> /\ live = Sessions
    /\ flow = [f \in Flows |-> NoFlow] /\ active = None
    /\ req = [r \in Reqs |-> Idle]
    /\ started = 0

Begin(r, op, record) ==
    /\ req[r].pc = "idle" /\ op \in Operations /\ started < MaxRequests
    /\ started' = started + 1
    /\ req' = [req EXCEPT ![r] = record]

Goto(r, pc) == req' = [req EXCEPT ![r].pc = pc]
Done(r) == req' = [req EXCEPT ![r] = Idle]

Exists(u) == user[u].status \in {"pending", "active"}

\* A handler whose first step only reads.
Reads == UNCHANGED <<user, link, live, redis, history>>

\* find_by_email: the account of an address, if there is one.
Holders(a) == {u \in Users : Exists(u) /\ user[u].email = a}

\* The rows of the links: find_verification_by_hash, find_password_reset_by_hash.
FindVerification(i) == i \in DOMAIN link /\ link[i].kind = "verification"
FindPasswordReset(i) == i \in DOMAIN link /\ link[i].kind = "reset"

\* check_one_time_token, and the condition of the two UPDATEs below: a link past its time
\* is one nobody uses.
Valid(i) == ~link[i].used

ConsumeVerification(i) == [link EXCEPT ![i].used = TRUE]
ConsumePasswordReset(i) == [link EXCEPT ![i].used = TRUE]

\* A link of an account that is still there.
Mail(u, kind, to, password) ==
    /\ Len(link) < MaxLinks
    /\ link' = IF Exists(u)
               THEN Append(link, [kind |-> kind, user |-> u, to |-> to, password |-> password,
                                  used |-> FALSE])
               ELSE link

CreateVerification(u, to, password) == Mail(u, "verification", to, password)
CreatePasswordReset(u, to) == Mail(u, "reset", to, None)

Revoked(links, u, kinds) ==
    [i \in DOMAIN links |-> IF links[i].user = u /\ links[i].kind \in kinds
                            THEN [links[i] EXCEPT !.used = TRUE] ELSE links[i]]
RevokeActiveVerification(links, u) == Revoked(links, u, {"verification"})
RevokeActivePasswordReset(links, u) == Revoked(links, u, {"reset"})

\* revoke_mailbox_links; sign-in links are SecondFactor's.
RevokeMailboxLinks(links, u) == RevokeActivePasswordReset(links, u)

\* Statements on the account's row.
Created(u, a, p) == [user EXCEPT ![u] = [status |-> "pending", email |-> a, password |-> p]]
UpdatePasswordHash(rows, u, p) == [rows EXCEPT ![u].password = p]
MarkEmailVerified(rows, u) ==
    [rows EXCEPT ![u].status = IF @ = "pending" THEN "active" ELSE @]
ChangeEmail(rows, u, a) == [rows EXCEPT ![u].email = a]

-----------------------------------------------------------------------------
(***************************************************************************)
(* Registration and verification.                                          *)
(***************************************************************************)
\* register_account up to the look-up of the address.
RegisterAccount(r, a, p) ==
    \/ /\ Holders(a) = {}
       /\ Begin(r, "register", [Idle EXCEPT !.pc = "create", !.address = a, !.password = p])
    \/ \E u \in Holders(a) :
          /\ user[u].status = "pending"
          /\ Begin(r, "register", [Idle EXCEPT !.pc = "issue", !.user = u, !.address = a,
                                               !.password = p])

Register(r, a, p) == RegisterAccount(r, a, p) /\ Reads

\* Its transaction: the UNIQUE constraint decides between registrations at once, and
\* between a registration and a change of address.
RegisterCreate(r) ==
    /\ req[r].pc = "create"
    /\ \/ /\ Holders(req[r].address) = {}
          /\ Len(link) < MaxLinks
          /\ \E u \in Users :
                /\ user[u].status = "none"
                /\ user' = Created(u, req[r].address, req[r].password)
                /\ link' = Append(link, [kind |-> "verification", user |-> u,
                                         to |-> req[r].address, password |-> None, used |-> FALSE])
       \/ Holders(req[r].address) # {} /\ UNCHANGED <<user, link>>
    /\ Done(r)
    /\ UNCHANGED <<live, redis, started, history>>

\* resend_verification: an account found pending is mailed another link.
FindPending(r, a) ==
    \E u \in Holders(a) :
       /\ user[u].status = "pending"
       /\ Begin(r, "resend", [Idle EXCEPT !.pc = "issue", !.user = u, !.address = a])

ResendVerification(r, a) == FindPending(r, a) /\ Reads

\* issue_verification, with the credentials of the registration that asks for it.
IssueVerification(r) ==
    /\ req[r].pc = "issue"
    /\ CreateVerification(req[r].user, req[r].address, req[r].password)
    /\ Done(r)
    /\ UNCHANGED <<user, live, redis, started, history>>

\* The password a link asks for: its registration's, or the account's.
Expected(i) == IF link[i].password # None THEN link[i].password ELSE user[link[i].user].password

\* verify_email up to the check of the password.
CheckVerification(r, i, p) ==
    /\ FindVerification(i) /\ Valid(i) /\ Exists(link[i].user)
    /\ p = Expected(i)
    /\ Begin(r, "verify", [Idle EXCEPT !.pc = "verify", !.link = i, !.user = link[i].user,
                                       !.password = p])

VerifyEmail(r, i, p) == CheckVerification(r, i, p) /\ Reads

\* Mutant: whatever the status of the account.
AdoptAlways(u, p) == IF p # None THEN p ELSE user[u].password

\* adopt_pending_credentials: an account that is verified keeps its own.
Adopt(u, p) == IF p # None /\ user[u].status = "pending" THEN p ELSE user[u].password

\* The transaction of verify_email.
VerifyCommit(r) ==
    LET u == req[r].user  i == req[r].link IN
    /\ req[r].pc = "verify"
    /\ IF Valid(i) /\ Exists(u)
       THEN /\ user' = MarkEmailVerified(
                            UpdatePasswordHash(user, u, Adopt(u, link[i].password)), u)
            /\ link' = RevokeActiveVerification(ConsumeVerification(i), u)
            /\ proven' = [proven EXCEPT ![u] = @ \cup {link[i].to}]
            /\ chosen' = IF user[u].status = "pending"
                         THEN [chosen EXCEPT ![u] = req[r].password] ELSE chosen
       ELSE UNCHANGED <<user, link, proven, chosen>>
    /\ Done(r)
    /\ UNCHANGED <<live, redis, started>>

-----------------------------------------------------------------------------
(***************************************************************************)
(* A forgotten password.                                                   *)
(***************************************************************************)
\* issue_password_reset: the account of the address is read.
IssuePasswordReset(r, a) ==
    \E u \in Holders(a) :
       Begin(r, "forgot", [Idle EXCEPT !.pc = "send", !.user = u, !.address = a])

ForgotPassword(r, a) == IssuePasswordReset(r, a) /\ Reads

\* send_reset_link: to the address read, for the account as it is now.
SendResetLink(r) ==
    /\ req[r].pc = "send"
    /\ CreatePasswordReset(req[r].user, req[r].address)
    /\ Done(r)
    /\ UNCHANGED <<user, live, redis, started, history>>

\* reset_password up to its transaction.
CheckReset(r, i, p) ==
    /\ FindPasswordReset(i) /\ Valid(i)
    /\ Begin(r, "reset", [Idle EXCEPT !.pc = "reset", !.link = i, !.user = link[i].user,
                                      !.password = p])

ResetPassword(r, i, p) == CheckReset(r, i, p) /\ Reads

\* verify_if_pending: the links of the registrations die when the reset activates.
ResetRevokes(links, u) ==
    IF user[u].status = "pending" THEN RevokeActiveVerification(links, u) ELSE links

\* The transaction of reset_password.
ResetCommit(r) ==
    LET u == req[r].user  i == req[r].link IN
    /\ req[r].pc = "reset"
    /\ IF Valid(i) /\ Exists(u)
       THEN /\ user' = MarkEmailVerified(UpdatePasswordHash(user, u, req[r].password), u)
            /\ link' = RevokeMailboxLinks(ResetRevokes(ConsumePasswordReset(i), u), u)
            /\ live' = IF u = Owner THEN {} ELSE live
            /\ chosen' = [chosen EXCEPT ![u] = req[r].password]
            /\ proven' = [proven EXCEPT ![u] = @ \cup {link[i].to}]
            /\ Goto(r, "purge")
       ELSE Done(r) /\ UNCHANGED <<user, link, live, history>>
    /\ UNCHANGED <<redis, started>>

\* purge_user_pre_auth_and_email_change: the flow the account's key names ...
Purge(r) ==
    /\ req[r].pc = "purge"
    /\ IF req[r].user = Owner /\ active # None
       THEN req' = [req EXCEPT ![r].pc = "drop", ![r].found = active]
       ELSE IF req[r].flow # None THEN Goto(r, "drop") ELSE Done(r)
    /\ UNCHANGED <<user, link, live, redis, started, history>>

\* ... is deleted with the key; confirm_new then deletes its own.
PurgeDelete(r) ==
    /\ req[r].pc = "drop"
    /\ flow' = [f \in Flows |-> IF f \in {req[r].found, req[r].flow}
                                THEN [flow[f] EXCEPT !.step = "gone"] ELSE flow[f]]
    /\ active' = None
    /\ Done(r)
    /\ UNCHANGED <<user, link, live, started, history>>

-----------------------------------------------------------------------------
(***************************************************************************)
(* Signed in.                                                              *)
(***************************************************************************)
\* require_recent_reauth_or_password: a session whose holder knows the password, or proved
\* it a short while ago.
Reauthenticated(s) == s \in live

\* change_password up to its transaction.
ChangePassword(r, s, p) ==
    /\ Reauthenticated(s)
    /\ Begin(r, "password", [Idle EXCEPT !.pc = "password", !.user = Owner, !.session = s,
                                         !.password = p])
    /\ Reads

PasswordCommit(r) ==
    /\ req[r].pc = "password"
    /\ IF Exists(Owner)
       THEN /\ user' = UpdatePasswordHash(user, Owner, req[r].password)
            /\ chosen' = [chosen EXCEPT ![Owner] = req[r].password]
            /\ link' = RevokeMailboxLinks(link, Owner)
            /\ \E kept \in {{}, {req[r].session}} : live' = live \cap kept
            /\ Goto(r, "purge")
       ELSE Done(r) /\ UNCHANGED <<user, chosen, link, live>>
    /\ UNCHANGED <<redis, started, proven>>

\* delete_account.
DeleteAccount(r, s) ==
    /\ Reauthenticated(s)
    /\ Begin(r, "erase", [Idle EXCEPT !.pc = "erase", !.user = Owner])
    /\ Reads

\* forget_account_traces deletes the row, and what refers to it goes with it.
Erased(u) ==
    /\ user' = [user EXCEPT ![u] = [NoUser EXCEPT !.status = "gone"]]
    /\ link' = Revoked(link, u, {"verification", "reset"})

\* erase_account.
EraseCommit(r) ==
    /\ req[r].pc = "erase"
    /\ Erased(Owner)
    /\ live' = {}
    /\ Done(r)
    /\ UNCHANGED <<redis, started, history>>

\* purge_unverified_accounts.
PurgeUnverified(u) ==
    /\ user[u].status = "pending"
    /\ Erased(u)
    /\ UNCHANGED <<live, redis, req, started, history>>

-----------------------------------------------------------------------------
(***************************************************************************)
(* The change of address.                                                  *)
(***************************************************************************)
\* Mutant: the new address may be submitted at the first step.
AfterSkips(step) ==
    CASE step = "current_verify" -> "new_verify"
      [] step = "new_submit" -> "new_verify"
      [] step = "new_verify" -> "done"
      [] OTHER -> None

\* FlowStep::after.
After(step) ==
    CASE step = "current_verify" -> "new_submit"
      [] step = "new_submit" -> "new_verify"
      [] step = "new_verify" -> "done"
      [] OTHER -> None

StartEmailChange(r, s) ==
    /\ Reauthenticated(s)
    /\ Begin(r, "start", [Idle EXCEPT !.pc = "cancel", !.user = Owner, !.session = s])
    /\ Reads

\* start: the flow in progress is looked up ...
StartCancel(r) ==
    /\ req[r].pc = "cancel"
    /\ req' = [req EXCEPT ![r].pc = "save", ![r].found = active]
    /\ UNCHANGED <<user, link, live, redis, started, history>>

\* save_flow.
Saved(f, state) == flow' = [flow EXCEPT ![f] = state]

\* ... and deleted, and the new one is saved with a code for the current address.
StartSave(r) ==
    /\ req[r].pc = "save"
    /\ \E f \in Flows :
          /\ flow[f].step = "none"
          /\ IF Exists(Owner)
             THEN /\ flow' = [g \in Flows |->
                        IF g = f THEN [NoFlow EXCEPT !.step = "current_verify",
                                           !.code = user[Owner].email]
                        ELSE IF g = req[r].found THEN [flow[g] EXCEPT !.step = "gone"] ELSE flow[g]]
                  /\ req' = [req EXCEPT ![r].pc = "activate", ![r].flow = f]
             ELSE Done(r) /\ UNCHANGED flow
    /\ UNCHANGED <<user, link, live, active, started, history>>

\* The key of the active flow is set and the code mailed.
StartActivate(r) ==
    /\ req[r].pc = "activate"
    /\ active' = req[r].flow
    /\ Done(r)
    /\ UNCHANGED <<user, link, live, flow, started, history>>

\* A flow is known to its starter once start has answered.
Known(f) == \A r \in Reqs : ~(req[r].pc = "activate" /\ req[r].flow = f)

\* load_flow.
Load(r, s, f, op) ==
    /\ s \in live /\ flow[f].step \notin {"none", "gone"} /\ Known(f)
    /\ Begin(r, op, [Idle EXCEPT !.pc = op, !.user = Owner, !.session = s, !.flow = f,
                                 !.read = flow[f]])
    /\ Reads

\* verify_otp: a right code is one that was sent; wrong ones only use up budgets.
VerifyOtp(f) == flow[f].code # None

\* The code sent to the current address is right.
VerifyCurrentEmail(r, s, f) ==
    /\ After(flow[f].step) = "new_submit" /\ VerifyOtp(f)
    /\ Load(r, s, f, "current")

\* verify_current.
CurrentSave(r) ==
    /\ req[r].pc = "current"
    /\ Saved(req[r].flow, [req[r].read EXCEPT !.step = "new_submit", !.code = None,
                                              !.confirmed = TRUE])
    /\ Done(r)
    /\ UNCHANGED <<user, link, live, active, started, history>>

SubmitNewEmail(r, s, f) ==
    /\ After(flow[f].step) = "new_verify"
    /\ Load(r, s, f, "submit")

\* The code a submission sends: none to an address that is taken.
CodeFor(a) == IF Holders(a) \ {Owner} = {} THEN a ELSE None

\* submit_new: the address, its code and the next step are saved at once.
SubmitSave(r, a) ==
    /\ req[r].pc = "submit"
    /\ Saved(req[r].flow, [req[r].read EXCEPT !.step = "new_verify", !.code = CodeFor(a),
                                              !.email = a])
    /\ Done(r)
    /\ UNCHANGED <<user, link, live, active, started, history>>

\* The code is right, so it was read in a mailbox.
ConfirmNewEmail(r, s, f) ==
    /\ After(flow[f].step) = "done" /\ VerifyOtp(f)
    /\ Load(r, s, f, "confirm")

\* The transaction of confirm_new: the address is looked at again, and the constraint decides.
ConfirmCommit(r) ==
    LET a == req[r].read.email IN
    /\ req[r].pc = "confirm"
    /\ IF Exists(Owner) /\ Holders(a) \ {Owner} = {}
       THEN /\ user' = ChangeEmail(user, Owner, a)
            /\ link' = RevokeMailboxLinks(RevokeActiveVerification(link, Owner), Owner)
            /\ live' = live \cap {req[r].session}
            /\ proven' = [proven EXCEPT ![Owner] = @ \cup {req[r].read.code}]
            /\ Goto(r, "purge")
       ELSE Done(r) /\ UNCHANGED <<user, link, live, proven>>
    /\ UNCHANGED <<redis, started, chosen>>

-----------------------------------------------------------------------------
\* Past its time, which save_flow starts again: FLOW_TTL_SECS.
FlowExpires(f) ==
    /\ flow[f].step \notin {"none", "gone"} /\ Known(f)
    /\ flow' = [flow EXCEPT ![f].step = "gone"]
    /\ UNCHANGED <<user, link, live, active, req, started, history>>

\* The key of the active flow is set once and ends FLOW_TTL_SECS later.
ActiveExpires ==
    /\ active # None /\ active' = None
    /\ UNCHANGED <<user, link, live, flow, req, started, history>>

\* The client goes away, or a step fails and the transaction is rolled back.
Drop(r) ==
    /\ req[r].pc # "idle"
    /\ Done(r)
    /\ UNCHANGED <<user, link, live, redis, started, history>>

Step(r) ==
    \/ \E a \in Addresses, p \in Passwords : Register(r, a, p)
    \/ RegisterCreate(r)
    \/ \E a \in Addresses : ResendVerification(r, a)
    \/ IssueVerification(r)
    \/ \E i \in 1..MaxLinks, p \in Passwords : VerifyEmail(r, i, p)
    \/ VerifyCommit(r)
    \/ \E a \in Addresses : ForgotPassword(r, a)
    \/ SendResetLink(r)
    \/ \E i \in 1..MaxLinks, p \in Passwords : ResetPassword(r, i, p)
    \/ ResetCommit(r)
    \/ Purge(r)
    \/ PurgeDelete(r)
    \/ \E s \in Sessions, p \in Passwords : ChangePassword(r, s, p)
    \/ PasswordCommit(r)
    \/ \E s \in Sessions : DeleteAccount(r, s) \/ StartEmailChange(r, s)
    \/ EraseCommit(r)
    \/ StartCancel(r)
    \/ StartSave(r)
    \/ StartActivate(r)
    \/ \E s \in Sessions, f \in Flows :
          VerifyCurrentEmail(r, s, f) \/ SubmitNewEmail(r, s, f) \/ ConfirmNewEmail(r, s, f)
    \/ CurrentSave(r)
    \/ \E a \in Addresses : SubmitSave(r, a)
    \/ ConfirmCommit(r)
    \/ Drop(r)

AccountsNext ==
    \/ \E r \in Reqs : Step(r)
    \/ \E u \in Users : PurgeUnverified(u)
    \/ \E f \in Flows : FlowExpires(f)
    \/ ActiveExpires

AccountsSpec == AccountsInit /\ [][AccountsNext]_accountVars

-----------------------------------------------------------------------------
(***************************************************************************)
(* The password of an active account is the one last chosen by someone who *)
(* proved the account theirs: with a link and the password of the          *)
(* registration that sent it, with a reset link, or signed in.  Of several *)
(* registrations on one address, none activates it with another's          *)
(* password, and one whose link is issued after the account was activated  *)
(* changes nothing (register.rs:92, adopt_pending_credentials).  Its       *)
(* address was proven for it, by a link or a code sent to that address:    *)
(* two submissions, cancelled flows and a registration at once never leave *)
(* an address behind another's code.                                       *)
(***************************************************************************)
AccountIsItsOwners ==
    \A u \in Users : user[u].status = "active" =>
        user[u].password = chosen[u] /\ user[u].email \in proven[u]

(***************************************************************************)
(* The Owner's address changes only by a flow in which the code sent to    *)
(* the former address was confirmed: a step is neither skipped nor         *)
(* replayed, however requests of the flow overlap (domain/email_change.rs). *)
(***************************************************************************)
ChangeNeedsBothMailboxes ==
    [][user'[Owner].email # user[Owner].email /\ user'[Owner].status = "active" =>
          \E r \in Reqs : req[r].pc = "confirm" /\ req[r].read.confirmed]_accountVars
=============================================================================
