----------------------------- MODULE Enrolment ------------------------------
(***************************************************************************)
(* How one account gets, confirms and loses its second factors: the TOTP   *)
(* and the mailed-code method, the recovery codes behind them, passkeys;   *)
(* and the rotation of the key TOTP and webhook secrets are stored under.  *)
(*                                                                         *)
(* Confirming a method is several statements, each committed on its own;   *)
(* removing one is one transaction of several statements at READ           *)
(* COMMITTED: what it deleted or promoted stays as it was for readers      *)
(* until the commit, and a writer of those rows waits.  A refusal, a       *)
(* failing call or a dropped connection ends a request in Drop, which      *)
(* rolls its transaction back.  Recent re-authentication only reads; the   *)
(* rule that administrators keep a factor is Administration's; sign-in     *)
(* with these factors is SecondFactor's.  A correct TOTP code stands for   *)
(* the secret it was computed from.                                        *)
(***************************************************************************)
EXTENDS RequestSteps

CONSTANTS
    UserSessions,           \* sessions the owner works from
    Credentials,            \* credential ids authenticators may present
    MAX_PASSKEYS,
    MAX_SETUP_FAILURES      \* MAX_TOTP_SETUP_FAILURES, MAX_FAILURES

VARIABLES
    row,        \* two_factor_methods of the account, at most one of each type
    hook,       \* the secret of a webhook endpoint
    used,       \* used_totp_codes
    fails,      \* attempt budgets of the two confirmations
    mailed,     \* live mailed codes
    cooling,    \* cooldowns claimed: "send", "regenerate"
    codes,      \* recovery_codes
    pending,    \* passkey_reg:{session}, a challenge or 0
    passkeys,
    ring,       \* keys the service is deployed with
    clean,      \* the last rotation under them had nothing to rewrite
    \* history
    written,    \* the secrets their owners were last given
    cut,        \* a confirmation stopped between its statements
    overlooked  \* a confirmation met a removal between its statements

methods == <<row, used, fails, mailed>>
keys == <<hook, ring, clean>>
enrolmentVars == <<methods, keys, cooling, codes, pending, passkeys, written, cut, overlooked>>

Kinds == {"totp", "email"}
Other(k) == CHOOSE j \in Kinds : j # k

ASSUME EnrolmentAssumption == None \notin Kinds

NoRow == [id |-> 0, verified |-> FALSE, primary |-> FALSE, secret |-> 0, key |-> "none"]
NoCodes == [batch |-> 0, usable |-> FALSE]

-----------------------------------------------------------------------------
(***************************************************************************)
(* The keyring.                                                            *)
(***************************************************************************)
CurrentKid == IF ring = "old" THEN "old" ELSE "new"
Kids == {CurrentKid} \cup (IF ring = "both" THEN {"old"} ELSE {})

\* Encrypt: a stored value names its key.
Encrypt(secret) == [secret |-> secret, key |-> CurrentKid]
CanDecrypt(stored) == stored.key \in Kids
NeedsRotation(stored) == stored.key # CurrentKid

\* The TOTP secret as it is stored.
Stored(m) == [secret |-> m.secret, key |-> m.key]

\* An account with no method, one, or both, set up before; its TOTP secret is number 0.
Before == {
    [k \in Kinds |-> NoRow],
    [k \in Kinds |-> IF k = "email" THEN [NoRow EXCEPT !.id = -1]
                     ELSE [id |-> -2, verified |-> TRUE, primary |-> TRUE, secret |-> 0, key |-> "old"]],
    [k \in Kinds |-> IF k = "email" THEN [NoRow EXCEPT !.id = -1, !.verified = TRUE, !.primary = TRUE]
                     ELSE [id |-> -2, verified |-> FALSE, primary |-> FALSE, secret |-> 0, key |-> "old"]],
    [k \in Kinds |-> IF k = "email" THEN [NoRow EXCEPT !.id = -1, !.verified = TRUE]
                     ELSE [id |-> -2, verified |-> TRUE, primary |-> TRUE, secret |-> 0, key |-> "old"]]}

EnrolmentInit ==
    /\ row \in Before
    /\ hook = [secret |-> 0, key |-> "old"]
    /\ used = {} /\ fails = [k \in Kinds |-> 0] /\ mailed = 0 /\ cooling = {}
    /\ codes = IF \E k \in Kinds : row[k].verified THEN [batch |-> -1, usable |-> TRUE] ELSE NoCodes
    /\ pending = [s \in UserSessions |-> 0] /\ passkeys = {}
    /\ ring = "old" /\ clean = FALSE
    /\ written = [x \in {"totp", "hook"} |-> 0]
    /\ cut = FALSE /\ overlooked = FALSE

-----------------------------------------------------------------------------
(***************************************************************************)
(* Row locks of a removal that has not committed.                          *)
(***************************************************************************)
Removing(r) == req[r].pc \in {"promote", "count", "commit"}
Deleted(k) == \E r \in Reqs : Removing(r) /\ req[r].kind = k
Locked(k) == \/ Deleted(k)
             \/ \E r \in Reqs : req[r].pc \in {"count", "commit"} /\ req[r].promoted = k

\* lock_row: one removal at a time holds the account.
AccountLocked == \E r \in Reqs : Removing(r)

-----------------------------------------------------------------------------
(***************************************************************************)
(* Setting a method up.                                                    *)
(***************************************************************************)
\* setup_totp draws a secret and encrypts it; the mailed-code method has none.
SetupTotp(r) ==
    LET stored == Encrypt(Serial) IN
    Begin(r, [pc |-> "replace", kind |-> "totp", id |-> Serial, secret |-> stored.secret, key |-> stored.key])

SetupEmail(r) ==
    Begin(r, [pc |-> "replace", kind |-> "email", id |-> Serial, secret |-> 0, key |-> "none"])

PostSetupTotp(r) == SetupTotp(r) /\ UNCHANGED enrolmentVars
PostSetupEmailOtp(r) == SetupEmail(r) /\ UNCHANGED enrolmentVars

Hand(x) == written' = IF x.kind = "totp" THEN [written EXCEPT !.totp = x.secret] ELSE written

\* replace_pending: an abandoned enrolment keeps its id.
ReplacePending(r) ==
    LET x == req[r]  m == row[x.kind] IN
    /\ x.pc = "replace" /\ ~Locked(x.kind)
    /\ \/ /\ m.id # 0 /\ ~m.verified
          /\ row' = [row EXCEPT ![x.kind].secret = x.secret, ![x.kind].key = x.key]
          /\ Hand(x) /\ Done(r)
       \/ /\ m.id = 0 \/ m.verified
          /\ Goto(r, "create") /\ UNCHANGED <<row, written>>
    /\ UNCHANGED <<used, fails, mailed, keys, cooling, codes, pending, passkeys, cut, overlooked>>

\* create: the unique index refuses a second method of the type.  A mailed-code method has
\* its attempt budget under its own id.
CreateMethod(r) ==
    LET x == req[r] IN
    /\ x.pc = "create" /\ ~Locked(x.kind)
    /\ IF row[x.kind].id # 0
       THEN UNCHANGED <<row, fails, written>>
       ELSE /\ row' = [row EXCEPT ![x.kind] = [NoRow EXCEPT !.id = x.id, !.secret = x.secret, !.key = x.key]]
            /\ fails' = IF x.kind = "email" THEN [fails EXCEPT !.email = 0] ELSE fails
            /\ Hand(x)
    /\ Done(r)
    /\ UNCHANGED <<used, mailed, keys, cooling, codes, pending, passkeys, cut, overlooked>>

\* replace_active_in_tx keeps the latest code beside the new one.
ReplaceActive == mailed' = IF mailed = 0 THEN 1 ELSE 2

SendCode ==
    /\ "send" \notin cooling /\ cooling' = cooling \cup {"send"}
    /\ ReplaceActive

\* Only while a method waits for confirmation.
SendEmailOtpCode ==
    /\ row["email"].id # 0 /\ ~row["email"].verified
    /\ SendCode /\ Single
    /\ UNCHANGED <<row, used, fails, keys, codes, pending, passkeys, written, cut, overlooked>>

-----------------------------------------------------------------------------
(***************************************************************************)
(* Confirming it.                                                          *)
(***************************************************************************)
FindByIdAndUser(k) == row[k].id # 0

VerifySetup(r, k) ==
    /\ FindByIdAndUser(k) /\ ~row[k].verified
    /\ Begin(r, [pc |-> "budget", kind |-> k, id |-> row[k].id, batch |-> Serial,
                 secret |-> row[k].secret, key |-> row[k].key])
    /\ UNCHANGED enrolmentVars

VerifyTotpSetup(r) == VerifySetup(r, "totp")
VerifyEmailOtpSetup(r) == VerifySetup(r, "email")

\* The attempt is counted before the code is looked at; a request over the limit goes no further.
AttemptsLeft(k) == fails[k] < MAX_SETUP_FAILURES

ConsumeSetupBudget(r) ==
    LET k == req[r].kind IN
    /\ req[r].pc = "budget"
    /\ IF AttemptsLeft(k)
       THEN fails' = [fails EXCEPT ![k] = @ + 1] /\ Goto(r, "code")
       ELSE Done(r) /\ UNCHANGED fails
    /\ UNCHANGED <<row, used, mailed, keys, cooling, codes, pending, passkeys, written, cut, overlooked>>

TryConsumeTotpCode(secret) == secret \notin used /\ used' = used \cup {secret}

\* verify_code, against the secret that was read.
TotpAccepted(x) == CanDecrypt(Stored(x)) /\ TryConsumeTotpCode(x.secret) /\ UNCHANGED mailed

\* Every live code ends with the one that worked.
ConsumeMailedCode == mailed' = 0

\* verify_otp: find_active_by_user_and_hash, then consume.
MailedCodeAccepted == mailed > 0 /\ ConsumeMailedCode /\ UNCHANGED used

\* A correct code gives the budget back; a wrong one ends in Drop.
CheckSetupCode(r) ==
    LET x == req[r] IN
    /\ x.pc = "code"
    /\ IF x.kind = "totp" THEN TotpAccepted(x) ELSE MailedCodeAccepted
    /\ fails' = [fails EXCEPT ![x.kind] = 0]
    /\ Goto(r, "mark")
    /\ UNCHANGED <<row, keys, cooling, codes, pending, passkeys, written, cut, overlooked>>

\* mark_verified names the row by its id only.
MarkVerified(r) ==
    LET x == req[r] IN
    /\ x.pc = "mark" /\ ~Locked(x.kind)
    /\ row' = IF row[x.kind].id = x.id THEN [row EXCEPT ![x.kind].verified = TRUE] ELSE row
    /\ Goto(r, "primary")
    /\ UNCHANGED <<used, fails, mailed, keys, cooling, codes, pending, passkeys, written, cut, overlooked>>

\* find_primary_by_user sees a row whose removal has not committed.
Primaries == {k \in Kinds : row[k].primary}

FindPrimary(r) ==
    LET found == Primaries IN
    /\ req[r].pc = "primary"
    /\ Goto(r, IF found = {} THEN "set" ELSE "codes")
    /\ overlooked' = (overlooked \/ \E k \in found : Deleted(k))
    /\ UNCHANGED <<methods, keys, cooling, codes, pending, passkeys, written, cut>>

\* set_primary clears every primary flag, and sets it where the id is still there.
SetPrimary(r) ==
    LET x == req[r] IN
    /\ x.pc = "set"
    /\ \A k \in Kinds : row[k].primary \/ k = x.kind => ~Locked(k)
    /\ row' = [k \in Kinds |->
                  [row[k] EXCEPT !.primary = k = x.kind /\ row[k].id = x.id /\ row[k].verified]]
    /\ overlooked' = (overlooked \/ row[x.kind].id # x.id)
    /\ Goto(r, "codes")
    /\ UNCHANGED <<used, fails, mailed, keys, cooling, codes, pending, passkeys, written, cut>>

\* replace_all_by_user waits for a removal that deletes the same codes.
ReplaceAllByUser(batch) ==
    /\ \A s \in Reqs : req[s].pc = "commit" /\ req[s].dropped # 0 => req[s].dropped # codes.batch
    /\ codes' = [batch |-> batch, usable |-> TRUE]

CreateRecoveryCodes(r) ==
    /\ req[r].pc = "codes"
    /\ ReplaceAllByUser(req[r].batch)
    /\ Done(r)
    /\ UNCHANGED <<methods, keys, cooling, pending, passkeys, written, cut, overlooked>>

-----------------------------------------------------------------------------
(***************************************************************************)
(* Removing it.                                                            *)
(***************************************************************************)
DisableMethod(r, k) ==
    /\ row[k].id # 0
    /\ Begin(r, [pc |-> "delete", kind |-> k, id |-> row[k].id, was_primary |-> FALSE,
                 promoted |-> None, dropped |-> 0])
    /\ UNCHANGED enrolmentVars

DisableTotp(r) == DisableMethod(r, "totp")
DisableEmailOtp(r) == DisableMethod(r, "email")

\* lock_row, then the DELETE of remove_method.
RemoveMethod(r) ==
    LET x == req[r] IN
    /\ x.pc = "delete" /\ ~AccountLocked
    /\ IF row[x.kind].id = x.id
       THEN /\ req' = [req EXCEPT ![r].pc = "promote", ![r].was_primary = row[x.kind].primary]
            /\ UNCHANGED started
       ELSE Done(r)
    /\ UNCHANGED enrolmentVars

\* Mutant: nothing takes the place of a removed primary method.
PromoteNobody(r) == req[r].pc = "promote" /\ Goto(r, "count") /\ UNCHANGED enrolmentVars

Promote(r) ==
    LET x == req[r] IN
    /\ x.pc = "promote"
    /\ req' = [req EXCEPT ![r].pc = "count",
                          ![r].promoted = IF x.was_primary /\ row[Other(x.kind)].verified
                                          THEN Other(x.kind) ELSE None]
    /\ UNCHANGED <<started, enrolmentVars>>

\* The recovery codes go with the last verified method.
CountRemaining(r) ==
    LET x == req[r] IN
    /\ x.pc = "count"
    /\ req' = [req EXCEPT ![r].pc = "commit",
                          ![r].dropped = IF row[Other(x.kind)].verified THEN 0 ELSE codes.batch]
    /\ UNCHANGED <<started, enrolmentVars>>

CommitRemoval(r) ==
    LET x == req[r] IN
    /\ x.pc = "commit"
    /\ row' = [k \in Kinds |-> IF k = x.kind THEN NoRow
                               ELSE [row[k] EXCEPT !.primary = @ \/ x.promoted = k]]
    /\ codes' = IF x.dropped # 0 /\ x.dropped = codes.batch THEN NoCodes ELSE codes
    /\ Done(r)
    /\ UNCHANGED <<used, fails, mailed, keys, cooling, pending, passkeys, written, cut, overlooked>>

-----------------------------------------------------------------------------
(***************************************************************************)
(* Recovery codes.                                                         *)
(***************************************************************************)
RegenerateRecoveryCodes(r) ==
    /\ Begin(r, [pc |-> "cooldown", batch |-> Serial])
    /\ UNCHANGED enrolmentVars

\* claim_cooldown_strict, before anything is replaced.
ClaimRegeneration(r) ==
    /\ req[r].pc = "cooldown"
    /\ IF "regenerate" \in cooling
       THEN Done(r) /\ UNCHANGED cooling
       ELSE /\ cooling' = cooling \cup {"regenerate"}
            /\ req' = [req EXCEPT ![r] = [pc |-> "codes", batch |-> @.batch, claimed |-> TRUE]]
            /\ UNCHANGED started
    /\ UNCHANGED <<methods, keys, codes, pending, passkeys, written, cut, overlooked>>

\* A failing replacement gives the cooldown back.
RegenerationFails(r) ==
    /\ req[r].pc = "codes" /\ "claimed" \in DOMAIN req[r]
    /\ cooling' = cooling \ {"regenerate"}
    /\ Done(r)
    /\ UNCHANGED <<methods, keys, codes, pending, passkeys, written, cut, overlooked>>

\* The last of them spent at a sign-in.
SpendLastRecoveryCode ==
    /\ codes.usable /\ codes' = [codes EXCEPT !.usable = FALSE]
    /\ Single
    /\ UNCHANGED <<methods, keys, cooling, pending, passkeys, written, cut, overlooked>>

-----------------------------------------------------------------------------
(***************************************************************************)
(* Passkeys.                                                               *)
(***************************************************************************)
RegistrationOptions(r, s) ==
    /\ Cardinality(passkeys) < MAX_PASSKEYS
    /\ Begin(r, [pc |-> "pending", session |-> s, challenge |-> Serial])

PostRegistrationOptions(r) ==
    \E s \in UserSessions : RegistrationOptions(r, s) /\ UNCHANGED enrolmentVars

StorePending(r) ==
    LET x == req[r] IN
    /\ x.pc = "pending"
    /\ pending' = [pending EXCEPT ![x.session] = x.challenge]
    /\ Done(r)
    /\ UNCHANGED <<methods, keys, cooling, codes, passkeys, written, cut, overlooked>>

\* The authenticator answers the challenge its session was given.
Register(r, s, c) ==
    /\ pending[s] # 0
    /\ Begin(r, [pc |-> "take", session |-> s, credential |-> c, challenge |-> pending[s],
                 batch |-> Serial])
    /\ UNCHANGED enrolmentVars

\* GETDEL.
TakePending(s) == pending' = [pending EXCEPT ![s] = 0]

\* check_client_data: the answer is to the challenge that was pending.
CheckRegistration(r) ==
    LET x == req[r] IN
    /\ x.pc = "take"
    /\ TakePending(x.session)
    /\ IF pending[x.session] = x.challenge THEN Goto(r, "insert") ELSE Done(r)
    /\ UNCHANGED <<methods, keys, cooling, codes, passkeys, written, cut, overlooked>>

\* INSERT ... ON CONFLICT DO NOTHING.
InsertPasskey(x) ==
    /\ \A p \in passkeys : p.credential # x.credential
    /\ passkeys' = passkeys \cup {[credential |-> x.credential, challenge |-> x.challenge]}

\* A credential that is registered already is refused.
CreatePasskey(r) ==
    /\ req[r].pc = "insert"
    /\ \/ InsertPasskey(req[r]) /\ Goto(r, "usable")
       \/ /\ \E p \in passkeys : p.credential = req[r].credential
          /\ Done(r) /\ UNCHANGED passkeys
    /\ UNCHANGED <<methods, keys, cooling, codes, pending, written, cut, overlooked>>

CountUsableByUser == IF codes.usable THEN 1 ELSE 0

\* An account without a usable code gets a new set.
CountUsable(r) ==
    /\ req[r].pc = "usable"
    /\ IF CountUsableByUser # 0 THEN Done(r) ELSE Goto(r, "codes")
    /\ UNCHANGED enrolmentVars

\* One transaction, under the account's lock.
RemovePasskey(p) ==
    /\ p \in passkeys /\ ~AccountLocked
    /\ passkeys' = passkeys \ {p}
    /\ Single
    /\ UNCHANGED <<methods, keys, cooling, codes, pending, written, cut, overlooked>>

DeletePasskey == \E p \in passkeys : RemovePasskey(p)

-----------------------------------------------------------------------------
\* find_all_totp_secrets; without a row there is nothing to rewrite.
FindTotpSecret == IF row["totp"].id # 0 THEN Stored(row["totp"]) ELSE Encrypt(0)

RotateTotpEncryptionKey(r) ==
    /\ Begin(r, [pc |-> "rewrap_hook", hook |-> hook, totp |-> FindTotpSecret,
                 id |-> row["totp"].id, results |-> {}])
    /\ UNCHANGED enrolmentVars

\* Mutant: the value that was read is stored again whatever is there now.
ReplaceWhatever(x) == row["totp"].id = x.id

\* Only if the row still holds what was read.
ReplaceTotpSecret(x) == row["totp"].id = x.id /\ Stored(row["totp"]) = x.totp
RewrapSecret(x) == hook = x.hook

\* What became of one secret; ok: whether its statement succeeds, replaced: whether it found
\* the row as it was read.
RewrapResult(secret, replaced, ok) ==
    CASE ~NeedsRotation(secret) -> "skipped"
      [] NeedsRotation(secret) /\ ~(CanDecrypt(secret) /\ ok) -> "failed"
      [] OTHER -> IF replaced THEN "rotated" ELSE "skipped"

RewrapHook(r, ok) ==
    LET x == req[r]
        result == RewrapResult(x.hook, RewrapSecret(x), ok) IN
    /\ x.pc = "rewrap_hook"
    /\ hook' = IF result = "rotated" THEN Encrypt(x.hook.secret) ELSE hook
    /\ req' = [req EXCEPT ![r].pc = "rewrap_totp", ![r].results = {result}]
    /\ UNCHANGED <<started, methods, ring, clean, cooling, codes, pending, passkeys, written, cut, overlooked>>

RewrapTotp(r, ok) ==
    LET x == req[r]
        result == RewrapResult(x.totp, ReplaceTotpSecret(x), ok) IN
    /\ x.pc = "rewrap_totp" /\ ~Locked("totp")
    /\ row' = IF result = "rotated"
              THEN [row EXCEPT !["totp"].secret = x.totp.secret, !["totp"].key = Encrypt(x.totp.secret).key]
              ELSE row
    /\ clean' = (x.results \cup {result} = {"skipped"})
    /\ Done(r)
    /\ UNCHANGED <<used, fails, mailed, hook, ring, cooling, codes, pending, passkeys, written, cut, overlooked>>

\* An administrator moves the endpoint to another host, which gives it a new secret.
ReplaceEndpointSecret ==
    /\ hook' = Encrypt(Serial) /\ written' = [written EXCEPT !.hook = Serial]
    /\ Single
    /\ UNCHANGED <<methods, ring, clean, cooling, codes, pending, passkeys, cut, overlooked>>

\* secrets_under_unknown_keys: the service does not start on a secret it cannot read.
Readable(kids) == {hook.key, row["totp"].key} \subseteq kids \cup {"none"}

\* A confirmation past mark_verified.
BetweenStatements(r) == req[r].pc \in {"primary", "set", "codes"} /\ "kind" \in DOMAIN req[r]

\* Requests still running are dropped.
Redeploy(next) ==
    /\ \/ ring = "old" /\ next = "both"
       \/ ring = "both" /\ next = "new" /\ clean /\ Readable({"new"})
    /\ ring' = next /\ clean' = FALSE
    /\ cut' = (cut \/ \E r \in Reqs : BetweenStatements(r))
    /\ req' = [r \in Reqs |-> Idle]
    /\ UNCHANGED <<started, methods, hook, cooling, codes, pending, passkeys, written, overlooked>>

-----------------------------------------------------------------------------
Drop(r) ==
    /\ req[r] # Idle /\ Done(r)
    /\ cut' = (cut \/ BetweenStatements(r))
    /\ UNCHANGED <<methods, keys, cooling, codes, pending, passkeys, written, overlooked>>

\* A window, a cooldown or a code runs out.
Expire ==
    /\ \/ used # {} /\ used' = {} /\ UNCHANGED <<fails, mailed, cooling, pending>>
       \/ \E k \in Kinds : fails[k] > 0 /\ fails' = [fails EXCEPT ![k] = 0]
                           /\ UNCHANGED <<used, mailed, cooling, pending>>
       \/ mailed > 0 /\ mailed' = 0 /\ UNCHANGED <<used, fails, cooling, pending>>
       \/ \E c \in cooling : cooling' = cooling \ {c} /\ UNCHANGED <<used, fails, mailed, pending>>
       \/ \E s \in UserSessions : pending[s] # 0 /\ pending' = [pending EXCEPT ![s] = 0]
                                  /\ UNCHANGED <<used, fails, mailed, cooling>>
    /\ UNCHANGED <<req, started, row, keys, codes, passkeys, written, cut, overlooked>>

Confirmation(r) ==
    \/ ConsumeSetupBudget(r) \/ CheckSetupCode(r) \/ MarkVerified(r) \/ FindPrimary(r)
    \/ SetPrimary(r) \/ CreateRecoveryCodes(r)

Removal(r) == RemoveMethod(r) \/ Promote(r) \/ CountRemaining(r) \/ CommitRemoval(r)

EnrolmentNext ==
    \/ \E r \in Reqs :
          \/ PostSetupTotp(r) \/ PostSetupEmailOtp(r) \/ ReplacePending(r) \/ CreateMethod(r)
          \/ VerifyTotpSetup(r) \/ VerifyEmailOtpSetup(r) \/ Confirmation(r)
          \/ DisableTotp(r) \/ DisableEmailOtp(r) \/ Removal(r)
          \/ RegenerateRecoveryCodes(r) \/ ClaimRegeneration(r) \/ RegenerationFails(r)
          \/ PostRegistrationOptions(r)
          \/ \E s \in UserSessions, c \in Credentials : Register(r, s, c)
          \/ StorePending(r) \/ CheckRegistration(r) \/ CreatePasskey(r) \/ CountUsable(r)
          \/ RotateTotpEncryptionKey(r)
          \/ \E ok \in BOOLEAN : RewrapHook(r, ok) \/ RewrapTotp(r, ok)
          \/ Drop(r)
    \/ SendEmailOtpCode \/ SpendLastRecoveryCode \/ ReplaceEndpointSecret
    \/ DeletePasskey
    \/ \E next \in {"both", "new"} : Redeploy(next)
    \/ Expire

EnrolmentSpec == RequestsInit /\ EnrolmentInit /\ [][EnrolmentNext]_<<req, started, enrolmentVars>>

-----------------------------------------------------------------------------
(***************************************************************************)
(* Properties.                                                             *)
(***************************************************************************)
\* A rotation beside live traffic never brings an older secret back: what is stored is the
\* secret its owner was given last, whichever key it is under.  And once a rotation reports
\* nothing rewritten and nothing failed, no stored secret needs the old key: retiring it
\* loses none, enrolments running beside the rotation included.
SecretsSurviveRotation ==
    /\ row["totp"].id # 0 => row["totp"].secret = written.totp
    /\ hook.secret = written.hook
    /\ clean /\ ring = "both" => Readable({"new"})

Confirming == \E r \in Reqs : req[r].pc \in {"primary", "set"}

\* An account with a confirmed method has a primary one, the only one a sign-in asks for,
\* and recovery codes behind it: removing a method, confirming the other and both at once
\* leave none that is silently off, unless a confirmation was cut short or met a removal
\* between its statements (two_factor.rs:242).
SecondFactorIsAsked ==
    (\E k \in Kinds : row[k].verified) /\ ~cut =>
        /\ ~Confirming /\ ~overlooked => \E k \in Kinds : row[k].primary
        /\ (\A r \in Reqs : ~BetweenStatements(r)) => codes.batch # 0
=============================================================================
