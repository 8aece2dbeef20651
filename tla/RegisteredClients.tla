------------------------- MODULE RegisteredClients --------------------------
(***************************************************************************)
(* Client applications: how administrators and the command line register   *)
(* them, and how a client authenticates and obtains tokens of its own.     *)
(*                                                                         *)
(* An administrator's change is one transaction that locks the client's    *)
(* row, if there is one, before it looks at it; the command line is the    *)
(* only one to change the primary client, whose sessions are first-party.  *)
(* Settings are reduced to what the rules here tell apart: whether the     *)
(* client is primary, is limited to scopes, has a secret, may use the      *)
(* client credentials grant, may introspect.  The budget of requests per   *)
(* minute only refuses: that, like every refusal, is Drop.                 *)
(***************************************************************************)
EXTENDS RequestSteps

CONSTANTS
    ClientIds,
    MAX_CLIENT_AUTH_FAILURES    \* wrong secrets per address, client and window

VARIABLES
    client,         \* registered_clients
    secret_fails,   \* oauth_client_fail:{address}:{client}
    service_tokens, \* tokens of the clients themselves
    \* history
    wrong,          \* wrong secrets looked at in this window
    overwritten     \* primary clients changed by an administrator who saw them as others

clientVars == <<client, secret_fails, service_tokens, wrong, overwritten>>

\* secret: the request that drew it, 0 for a public client.
NoClient == [exists |-> FALSE, primary |-> FALSE, scoped |-> FALSE, secret |-> 0,
             credentials |-> FALSE, introspection |-> FALSE]

ClientsInit ==
    /\ client \in [ClientIds -> {NoClient, [NoClient EXCEPT !.exists = TRUE],
                                 [NoClient EXCEPT !.exists = TRUE, !.primary = TRUE]}]
    /\ secret_fails = [c \in ClientIds |-> 0] /\ wrong = [c \in ClientIds |-> 0]
    /\ service_tokens = {} /\ overwritten = {}

-----------------------------------------------------------------------------
(***************************************************************************)
(* Changing a client.                                                      *)
(***************************************************************************)
\* A transaction that found the row holds it until it ends.
RowLocked(c) == \E r \in Reqs : req[r].pc = "apply" /\ req[r].client = c /\ req[r].locked

AdminChange(r, op, c, settings) ==
    /\ Begin(r, [pc |-> "lock", op |-> op, client |-> c, settings |-> settings,
                 locked |-> FALSE, seen |-> FALSE, serial |-> Serial])
    /\ UNCHANGED clientVars

\* An Option<bool> of the request, and the setting it makes of the row's.
Choice == {"keep", "allow", "forbid"}
Chosen(choice, was) == IF choice = "keep" THEN was ELSE choice = "allow"

\* check_settings and unknown_permissions: a client without scopes is one only if it says so.
Settings == [scoped: BOOLEAN, credentials: Choice, introspection: Choice]

NoSettings == [scoped |-> FALSE, credentials |-> "keep", introspection |-> "keep"]

SaveClient(r, c, settings) == settings \in Settings /\ AdminChange(r, "save", c, settings)
DeleteClient(r, c) == AdminChange(r, "delete", c, NoSettings)
RotateSecret(r, c) == AdminChange(r, "rotate", c, NoSettings)
RemoveSecret(r, c) == AdminChange(r, "remove", c, NoSettings)

\* Mutant: the row is read without a lock.
ReadExisting(c) == FALSE

\* lock_existing; a client that is not there leaves nothing to lock.
LockExisting(c) == client[c].exists

\* refuse_primary, and the same check in save.
RefusePrimary(r) ==
    LET x == req[r] IN
    /\ x.pc = "lock" /\ ~RowLocked(x.client)
    /\ IF client[x.client].primary THEN Done(r)
       ELSE /\ req' = [req EXCEPT ![r].pc = "apply", ![r].locked = LockExisting(x.client),
                                  ![r].seen = client[x.client].exists]
            /\ UNCHANGED started
    /\ UNCHANGED clientVars

\* upsert leaves the secret and the grants of an existing client alone.
Upsert(c, primary, scoped) == [client[c] EXCEPT !.exists = TRUE, !.primary = primary, !.scoped = scoped]

\* The table's constraints on the client credentials grant.
Constrained(row) == row.credentials => row.secret # 0 /\ row.scoped

SetClientCredentials(row, choice) == [row EXCEPT !.credentials = Chosen(choice, @)]

SetIntrospection(row, choice) == [row EXCEPT !.introspection = Chosen(choice, @)]

\* Without a secret the client credentials grant goes too.
SetSecretHash(row, secret) ==
    [row EXCEPT !.secret = secret, !.credentials = @ /\ secret # 0]

Changed(x) ==
    LET c == x.client IN
    CASE x.op = "save" -> SetIntrospection(
                             SetClientCredentials(Upsert(c, FALSE, x.settings.scoped),
                                                  x.settings.credentials),
                             x.settings.introspection)
      [] x.op = "delete" -> NoClient
      [] x.op = "rotate" -> SetSecretHash(client[c], x.serial)
      [] x.op = "remove" -> SetSecretHash(client[c], 0)

\* Deleting, or changing the secret of, a client that is not there answers 404.
ApplyChange(r) ==
    LET x == req[r]  c == x.client IN
    /\ x.pc = "apply" /\ (x.locked \/ ~RowLocked(c))
    /\ x.op = "save" \/ client[c].exists
    /\ x.op = "save" => Constrained(Upsert(c, FALSE, x.settings.scoped))
    /\ Constrained(Changed(x))
    /\ client' = [client EXCEPT ![c] = Changed(x)]
    /\ overwritten' = IF client[c].primary /\ x.seen THEN overwritten \cup {c} ELSE overwritten
    /\ Done(r)
    /\ UNCHANGED <<secret_fails, service_tokens, wrong>>

\* register_client, on the server: the same rows, and one primary client at most.
RegisterClient(c, primary, scoped) ==
    /\ ~RowLocked(c)
    /\ primary => \A d \in ClientIds \ {c} : ~client[d].primary
    /\ Constrained(Upsert(c, primary, scoped))
    /\ client' = [client EXCEPT ![c] = Upsert(c, primary, scoped)]
    /\ Single
    /\ UNCHANGED <<secret_fails, service_tokens, wrong, overwritten>>

-----------------------------------------------------------------------------
SecretBudget(c) == secret_fails[c] < MAX_CLIENT_AUTH_FAILURES

\* secret: 0 when none is presented, which cannot be a guess.
AuthenticateClient(r, c, secret) ==
    /\ secret # 0 => SecretBudget(c)
    /\ Begin(r, [pc |-> "identify", client |-> c, secret |-> secret, read |-> NoClient])
    /\ UNCHANGED clientVars

\* A secret for a public client and none for a confidential one are refused alike.
FindClient(c) == client[c]

IdentifyClient(r) ==
    LET x == req[r]
        found == FindClient(x.client)
        known == found.exists /\ found.secret = x.secret IN
    /\ x.pc = "identify"
    /\ IF known THEN /\ req' = [req EXCEPT ![r].pc = "grant", ![r].read = found]
                     /\ UNCHANGED started
       ELSE IF x.secret # 0 THEN Goto(r, "miss")
       ELSE Done(r)
    /\ UNCHANGED clientVars

CountMiss(r) ==
    LET c == req[r].client IN
    /\ req[r].pc = "miss"
    /\ secret_fails' = IF SecretBudget(c) THEN [secret_fails EXCEPT ![c] = @ + 1] ELSE secret_fails
    /\ wrong' = [wrong EXCEPT ![c] = @ + 1]
    /\ Done(r)
    /\ UNCHANGED <<client, service_tokens, overwritten>>

\* A token of the client's own, on the client as it was read.
ClientCredentials(r) ==
    LET x == req[r] IN
    /\ x.pc = "grant"
    /\ service_tokens' = IF x.read.secret # 0 /\ x.read.credentials
                         THEN service_tokens \cup {x.client} ELSE service_tokens
    /\ Done(r)
    /\ UNCHANGED <<client, secret_fails, wrong, overwritten>>

SecretWindowEnds(c) ==
    /\ secret_fails[c] > 0
    /\ secret_fails' = [secret_fails EXCEPT ![c] = 0] /\ wrong' = [wrong EXCEPT ![c] = 0]
    /\ UNCHANGED <<req, started, client, service_tokens, overwritten>>

ClientsDrop(r) == req[r] # Idle /\ Done(r) /\ UNCHANGED clientVars

ClientsNext ==
    \/ \E r \in Reqs, c \in ClientIds :
          \/ \E settings \in Settings : SaveClient(r, c, settings)
          \/ DeleteClient(r, c) \/ RotateSecret(r, c) \/ RemoveSecret(r, c)
          \/ \E secret \in 0..started : AuthenticateClient(r, c, secret)
    \/ \E r \in Reqs : \/ RefusePrimary(r) \/ ApplyChange(r) \/ IdentifyClient(r) \/ CountMiss(r)
                       \/ ClientCredentials(r) \/ ClientsDrop(r)
    \/ \E c \in ClientIds, primary, scoped \in BOOLEAN : RegisterClient(c, primary, scoped)
    \/ \E c \in ClientIds : SecretWindowEnds(c)

ClientsSpec == RequestsInit /\ ClientsInit /\ [][ClientsNext]_<<req, started, clientVars>>

-----------------------------------------------------------------------------
(***************************************************************************)
(* Properties.                                                             *)
(***************************************************************************)
\* Whatever runs on the server meanwhile, an administrator's request never changes, weakens or
\* deletes a client that has become primary since it was looked at.
PrimaryIsTheOperators == overwritten = {}
=============================================================================
