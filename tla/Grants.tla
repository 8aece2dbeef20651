------------------------------- MODULE Grants -------------------------------
(***************************************************************************)
(* How an application obtains a session from a signed-in user: the device  *)
(* flow (RFC 8628) and the authorization request behind the consent page,  *)
(* both kept in Redis, and the client's own revocation of what it got.     *)
(*                                                                         *)
(* A request is a few steps, one per call to Redis or the database that    *)
(* others can come between; load_entry's two reads are one (the entry a    *)
(* code points at is the same one while it lives).  A request refused by a *)
(* check, or dropped, ends in Drop.  A key expires at any time; a user     *)
(* code, reserved before its entry with the same lifetime, expires first.  *)
(* The code an approved request ends in, its redemption and the session    *)
(* limit are AuthCode's; rotation is Sessions'; here a refresh only makes  *)
(* a new token.  Left out: the marker behind slow_down, which only words   *)
(* the answer to a poll that is too early; auth_time; ID tokens.           *)
(***************************************************************************)
EXTENDS Integers, FiniteSets

CONSTANTS
    Users,
    Clients,
    Scopes,             \* permissions a client may ask for
    Flows,              \* device codes, each drawn once
    Earlier,            \* those whose device has its session already
    UserCodes,          \* human codes, which may be drawn again
    Ids,                \* authorization requests, each drawn once
    Reqs,               \* requests running at once
    MAX_UNKNOWN_CODES,  \* per user and window
    MaxRequests,        \* bound on requests started
    MaxTokens,          \* bound on refresh tokens of a session
    None

ASSUME GrantsAssumption ==
    /\ Earlier \subseteq Flows
    /\ None \notin Users \cup Clients \cup Flows \cup UserCodes \cup Ids \cup Scopes
    /\ Flows \cap Ids = {}
    /\ MAX_UNKNOWN_CODES \in Nat \ {0} /\ MaxRequests \in Nat /\ MaxTokens \in Nat \ {0}

VARIABLES
    device,     \* device:{hash}
    uc,         \* device_uc:{user_code}
    scan,       \* device_scan:user
    request,    \* oauth_request:{id}
    held,       \* permissions of each user
    session,    \* what the device of each flow received
    req,
    started,
    \* history
    answered,   \* decisions on a flow or a request their author was told of
    shown,      \* who was shown a request
    consented,  \* what the approver of a flow held
    outlived,   \* flows whose user code is no longer theirs
    revoked     \* flows whose latest token the client revoked

vars == <<device, uc, scan, request, held, session, req, started,
          answered, shown, consented, outlived, revoked>>

redis == <<device, uc, scan, request>>
history == <<answered, shown, consented, outlived, revoked>>

\* scopes: None is unrestricted, the device acts as the account.
Entry == [status: {"none", "pending", "authorized", "denied", "gone"},
          code: UserCodes \cup {None}, client: Clients \cup {None},
          user: Users \cup {None}, scopes: {{None}} \cup SUBSET Scopes]
NoEntry == [status |-> "none", code |-> None, client |-> None, user |-> None, scopes |-> {None}]

Stored == [status: {"none", "open", "gone"}, viewer: Users \cup {None}]
NoRequest == [status |-> "none", viewer |-> None]

\* issued: sessions opened for the flow; token: its latest refresh token; ended: the rows
\* revoked, by a rotation or otherwise.
Session == [issued: Nat, user: Users \cup {None}, scopes: {{None}} \cup SUBSET Scopes,
            client: Clients \cup {None}, token: 0..MaxTokens, ended: SUBSET (0..MaxTokens)]
NoSession == [issued |-> 0, user |-> None, scopes |-> {None}, client |-> None, token |-> 0, ended |-> {}]

Idle == [pc |-> "idle", op |-> "none", user |-> None, client |-> None, code |-> None, flow |-> None,
         read |-> NoEntry, scopes |-> {None}, id |-> None, seen |-> NoRequest, token |-> 0]

Init ==
    /\ device = [f \in Flows |-> IF f \in Earlier THEN [NoEntry EXCEPT !.status = "gone"] ELSE NoEntry]
    /\ uc = [c \in UserCodes |-> None]
    /\ scan = [u \in Users |-> 0]
    /\ request = [i \in Ids |-> NoRequest]
    /\ held \in [Users -> SUBSET Scopes]
    /\ \E u \in Users, c \in Clients :
          /\ session = [f \in Flows |-> IF f \in Earlier
                           THEN [NoSession EXCEPT !.issued = 1, !.user = u, !.client = c, !.token = 1]
                           ELSE NoSession]
          /\ answered = {[grant |-> f, op |-> "authorized", user |-> u] : f \in Earlier}
    /\ req = [r \in Reqs |-> Idle] /\ started = 0
    /\ shown = {} /\ outlived = {} /\ revoked = {}
    /\ consented = [f \in Flows |-> {}]

Begin(r, record) ==
    /\ req[r].pc = "idle" /\ started < MaxRequests
    /\ started' = started + 1
    /\ req' = [req EXCEPT ![r] = record]

\* A handler whose first step only reads.
Reads == UNCHANGED <<redis, held, session, history>>

Goto(r, pc) == req' = [req EXCEPT ![r].pc = pc]
Done(r) == req' = [req EXCEPT ![r] = Idle]

Live(f) == device[f].status \in {"pending", "authorized", "denied"}

-----------------------------------------------------------------------------
(***************************************************************************)
(* The device asks.                                                        *)
(***************************************************************************)
\* check_scopes, requested_scopes: what the client may ask for; a client without scopes asks
\* for none and is unrestricted.
RequestedScopes == {{None}} \cup ((SUBSET Scopes) \ {{}})
CheckScopes(asked) == asked \in RequestedScopes

DeviceAuthorization(r, c, f, asked) ==
    /\ CheckScopes(asked)
    /\ device[f].status = "none" /\ \A s \in Reqs : req[s].flow # f
    /\ Begin(r, [Idle EXCEPT !.pc = "reserve", !.op = "initiate", !.client = c, !.flow = f,
                             !.scopes = asked])

PostDeviceAuthorization(r, c, f, asked) == DeviceAuthorization(r, c, f, asked) /\ Reads

\* reserve_user_code: SET NX; a code in use is drawn again.
ReserveFree(r, c) == uc[c] = None

Reserve(r, c) ==
    /\ req[r].pc = "reserve"
    /\ ReserveFree(r, c)
    /\ uc' = [uc EXCEPT ![c] = req[r].flow]
    /\ req' = [req EXCEPT ![r].pc = "entry", ![r].code = c]
    /\ UNCHANGED <<device, scan, request, held, session, started, history>>

Initiate(r) ==
    LET x == req[r] IN
    /\ x.pc = "entry"
    /\ device' = [device EXCEPT ![x.flow] =
                     [status |-> "pending", code |-> x.code, client |-> x.client, user |-> None,
                      scopes |-> x.scopes]]
    /\ Done(r)
    /\ UNCHANGED <<uc, scan, request, held, session, started, history>>

\* Any key may expire; a code before the entry it was reserved for.
Expire ==
    /\ \/ \E c \in UserCodes :
             /\ uc[c] # None
             /\ uc' = [uc EXCEPT ![c] = None]
             /\ outlived' = outlived \cup {uc[c]}
             /\ UNCHANGED <<device, scan, request>>
       \/ \E f \in Flows :
             /\ Live(f) /\ uc[device[f].code] # f
             /\ device' = [device EXCEPT ![f] = [NoEntry EXCEPT !.status = "gone"]]
             /\ UNCHANGED <<uc, scan, request, outlived>>
       \/ \E u \in Users :
             /\ scan[u] > 0
             /\ scan' = [scan EXCEPT ![u] = 0]
             /\ UNCHANGED <<device, uc, request, outlived>>
       \/ \E i \in Ids :
             /\ request[i].status = "open"
             /\ request' = [request EXCEPT ![i].status = "gone"]
             /\ UNCHANGED <<device, uc, scan, outlived>>
    /\ UNCHANGED <<held, session, req, started, answered, shown, consented, revoked>>

-----------------------------------------------------------------------------
\* guard_code_scan.
GuardCodeScan(u) == scan[u] < MAX_UNKNOWN_CODES

\* load_entry: the entry a code points at.
Found(c) == uc[c] # None /\ Live(uc[c])

\* note_unknown_code.
NoteUnknownCode(r) ==
    LET u == req[r].user IN
    /\ scan' = [scan EXCEPT ![u] = @ + 1]
    /\ Done(r)
    /\ UNCHANGED <<device, uc, request, held, session, started,
                   answered, shown, consented, outlived, revoked>>

\* GET of the preview and POST of the decision: each starts with the guard.
DescribeDevice(r, u, c) ==
    /\ GuardCodeScan(u)
    /\ Begin(r, [Idle EXCEPT !.pc = "preview", !.op = "describe", !.user = u, !.code = c])
    /\ Reads

\* describe: what it shows changes nothing, a miss is counted.
Describe(r) ==
    /\ req[r].pc = "preview"
    /\ \/ ~Found(req[r].code) /\ NoteUnknownCode(r)
       \/ /\ Found(req[r].code) /\ device[uc[req[r].code]].status = "pending"
          /\ Done(r)
          /\ UNCHANGED <<redis, held, session, started, history>>

\* verify goes on to the second factor and the password.
Approve(r, u, c) ==
    /\ GuardCodeScan(u)
    /\ Begin(r, [Idle EXCEPT !.pc = "verify", !.op = "authorized", !.user = u, !.code = c])
    /\ Reads

\* deny asks for no proof: whoever knows the code may refuse.
Deny(r, u, c) ==
    /\ GuardCodeScan(u)
    /\ Begin(r, [Idle EXCEPT !.pc = "load", !.op = "denied", !.user = u, !.code = c])
    /\ Reads

VerifyDevice(r, u, c) == Approve(r, u, c) \/ Deny(r, u, c)

\* verify up to the password: the second factor asked for the instance's own application and
\* the re-authentication refuse or let through.
Verify(r) ==
    /\ req[r].pc = "verify"
    /\ \/ ~Found(req[r].code) /\ NoteUnknownCode(r)
       \/ /\ Found(req[r].code)
          /\ Goto(r, "guard")
          /\ UNCHANGED <<redis, held, session, started, history>>

VerifyGuard(r) ==
    /\ req[r].pc = "guard"
    /\ GuardCodeScan(req[r].user)
    /\ Goto(r, "load")
    /\ UNCHANGED <<redis, held, session, started, history>>

UpdateStatusLoad(r) ==
    LET x == req[r] f == uc[x.code] IN
    /\ x.pc = "load"
    /\ \/ ~Found(x.code) /\ NoteUnknownCode(r)
       \/ /\ Found(x.code) /\ device[f].status = "pending"
          /\ req' = [req EXCEPT ![r].pc = "swap", ![r].flow = f, ![r].read = device[f],
                                ![r].scopes = held[x.user]]
          /\ UNCHANGED <<redis, held, session, started, history>>

\* Mutant: what was asked for.
ConsentAll(asked, holds) == asked

\* consent: what was asked for and the approver holds.
Consent(asked, holds) == IF asked = {None} THEN asked ELSE asked \cap holds

Decided(x) ==
    [x.read EXCEPT !.status = x.op, !.user = IF x.op = "authorized" THEN x.user ELSE None,
                   !.scopes = IF x.op = "authorized" THEN Consent(x.read.scopes, x.scopes) ELSE @]

\* Mutant: the entry is replaced whatever it has become.
SetAnyway(r) == Live(req[r].flow)

\* COMPARE_AND_SET.
CompareAndSet(r) == device[req[r].flow] = req[r].read

UpdateStatus(r) ==
    LET x == req[r] IN
    /\ x.pc = "swap"
    /\ CompareAndSet(r)
    /\ device' = [device EXCEPT ![x.flow] = Decided(x)]
    /\ answered' = answered \cup {[grant |-> x.flow, op |-> x.op, user |-> x.user]}
    /\ consented' = [consented EXCEPT ![x.flow] = x.scopes]
    /\ Done(r)
    /\ UNCHANGED <<uc, scan, request, held, session, started, shown, outlived, revoked>>

-----------------------------------------------------------------------------
(***************************************************************************)
(* The device polls.                                                       *)
(***************************************************************************)
\* The token endpoint, for the client the code was issued to.
DeviceGrant(r, c, f) ==
    /\ Live(f) /\ device[f].client = c
    /\ Begin(r, [Idle EXCEPT !.pc = "poll", !.op = "poll", !.client = c, !.flow = f])

\* poll: GET of the entry and poll_outcome.
Poll(r) ==
    LET x == req[r] IN
    /\ x.pc = "poll" /\ Live(x.flow)
    /\ \/ /\ device[x.flow].status = "pending"
          /\ Done(r)
       \/ /\ device[x.flow].status = "denied"
          /\ req' = [req EXCEPT ![r].pc = "clear", ![r].read = device[x.flow]]
       \/ /\ device[x.flow].status = "authorized"
          /\ req' = [req EXCEPT ![r].pc = "claim", ![r].read = device[x.flow]]
    /\ UNCHANGED <<device, uc, scan, request, held, session, started, history>>

\* A refused flow is removed; its code after it.
PollDenied(r) ==
    /\ req[r].pc = "clear"
    /\ device' = [device EXCEPT ![req[r].flow] = [NoEntry EXCEPT !.status = "gone"]]
    /\ req' = [req EXCEPT ![r].pc = "forget", ![r].op = "denied"]
    /\ UNCHANGED <<uc, scan, request, held, session, started, history>>

\* The DEL that removes the entry.
Claimed(f) == Live(f)

\* The client, the account and the allowance are read again first (AuthCode has the limit).
PollClaim(r) ==
    LET f == req[r].flow IN
    /\ req[r].pc = "claim"
    /\ Claimed(f)
    /\ device' = [device EXCEPT ![f] = [NoEntry EXCEPT !.status = "gone"]]
    /\ Goto(r, "forget")
    /\ UNCHANGED <<uc, scan, request, held, session, started, history>>

\* The DEL of the user code, whoever holds it by now.
PollForget(r) ==
    LET c == req[r].read.code IN
    /\ req[r].pc = "forget"
    /\ uc' = [uc EXCEPT ![c] = None]
    /\ outlived' = outlived \cup ({uc[c]} \ {None})
    /\ IF req[r].op = "denied" THEN Done(r) ELSE Goto(r, "issue")
    /\ UNCHANGED <<device, scan, request, held, session, started,
                   answered, shown, consented, revoked>>

\* issue_tokens, set_auth_time and the end of the lock's transaction.
PollIssue(r) ==
    LET x == req[r] IN
    /\ x.pc = "issue"
    /\ session' = [session EXCEPT ![x.flow] =
                      [issued |-> @.issued + 1, user |-> x.read.user, scopes |-> x.read.scopes,
                       client |-> x.client, token |-> 1, ended |-> {}]]
    /\ Done(r)
    /\ UNCHANGED <<redis, held, started, history>>

\* A role granted or withdrawn (Administration).
ChangeHeld(u, s) ==
    /\ held[u] # s /\ started < MaxRequests
    /\ held' = [held EXCEPT ![u] = s] /\ started' = started + 1
    /\ UNCHANGED <<redis, session, req, history>>

-----------------------------------------------------------------------------
(***************************************************************************)
(* The authorization request behind the consent page.                      *)
(***************************************************************************)
\* Once the parameters are found good.
StartAuthorization(i) ==
    /\ request[i].status = "none"
    /\ request' = [request EXCEPT ![i].status = "open"]

Authorize(i) ==
    /\ StartAuthorization(i)
    /\ UNCHANGED <<device, uc, scan, held, session, req, started, history>>

\* load_request, for the page, the approval or the refusal.
LoadRequest(r, u, i, op) ==
    /\ request[i].status = "open"
    /\ Begin(r, [Idle EXCEPT !.pc = "viewer", !.op = op, !.user = u, !.id = i, !.seen = request[i]])

DescribeRequest(r, u, i) == LoadRequest(r, u, i, "describe") /\ Reads
ApproveRequest(r, u, i) == LoadRequest(r, u, i, "authorized") /\ Reads
DenyRequest(r, u, i) == LoadRequest(r, u, i, "denied") /\ Reads

\* CLAIM_REQUEST.
StillAsRead(r) == request[req[r].id] = req[r].seen

\* claim_request: the first to look keeps it.
ClaimRequest(r) ==
    LET x == req[r] IN
    /\ x.pc = "viewer"
    /\ \/ x.seen.viewer = x.user /\ UNCHANGED request
       \/ /\ x.seen.viewer = None
          /\ StillAsRead(r)
          /\ request' = [request EXCEPT ![x.id].viewer = x.user]
    /\ \/ /\ x.op = "describe"
          /\ shown' = shown \cup {[grant |-> x.id, user |-> x.user]}
          /\ Done(r)
       \/ x.op # "describe" /\ Goto(r, "take") /\ UNCHANGED shown
    /\ UNCHANGED <<device, uc, scan, held, session, started,
                   answered, consented, outlived, revoked>>

\* take_request, after the redirect and the password are checked.
TakeRequest(r) ==
    LET x == req[r] IN
    /\ x.pc = "take" /\ request[x.id].status = "open"
    /\ request' = [request EXCEPT ![x.id].status = "gone"]
    /\ Goto(r, "answer")
    /\ UNCHANGED <<device, uc, scan, held, session, started, history>>

\* The redirect: with a code (AuthCode) or with access_denied.
AnswerRequest(r) ==
    LET x == req[r] IN
    /\ x.pc = "answer"
    /\ answered' = answered \cup {[grant |-> x.id, op |-> x.op, user |-> x.user]}
    /\ Done(r)
    /\ UNCHANGED <<redis, held, session, started, shown, consented, outlived, revoked>>

-----------------------------------------------------------------------------
(***************************************************************************)
(* The client refreshes and revokes what it got.                           *)
(***************************************************************************)
\* find_by_token_hash: a token of the client that asks.
FindToken(r, c, f, op) ==
    LET s == session[f] IN
    /\ s.issued > 0 /\ s.client = c /\ s.token \notin s.ended
    /\ Begin(r, [Idle EXCEPT !.pc = op, !.op = op, !.client = c, !.flow = f, !.token = s.token])

RefreshGrant(r, c, f) == FindToken(r, c, f, "rotate")
Token(r, c, f) == DeviceGrant(r, c, f) \/ RefreshGrant(r, c, f)
PostToken(r, c, f) == Token(r, c, f) /\ Reads

Revoke(r, c, f) == FindToken(r, c, f, "revoke")
PostRevoke(r, c, f) == Revoke(r, c, f) /\ Reads

\* Mutant: what was read of the row stands.
RotateAnyway(s, n) == TRUE

\* rotate: refused when the row, read again under its lock, is revoked.
Rotates(s, n) == n \notin s.ended

RefreshRotate(r) ==
    LET x == req[r] s == session[x.flow] IN
    /\ x.pc = "rotate"
    /\ Rotates(s, x.token) /\ s.token < MaxTokens
    /\ session' = [session EXCEPT ![x.flow].token = @ + 1, ![x.flow].ended = @ \cup {x.token}]
    /\ Done(r)
    /\ UNCHANGED <<redis, held, started, history>>

\* The UPDATE of a row not revoked yet, and the caches.
RevokeRow(r) ==
    LET x == req[r] IN
    /\ x.pc = "revoke"
    /\ session' = [session EXCEPT ![x.flow].ended = @ \cup {x.token}]
    /\ revoked' = IF x.token \in session[x.flow].ended THEN revoked ELSE revoked \cup {x.flow}
    /\ Done(r)
    /\ UNCHANGED <<redis, held, started, answered, shown, consented, outlived>>

\* introspect: whether the flow's latest refresh token is active.
Introspects(f) == session[f].issued > 0 /\ session[f].token \notin session[f].ended

\* Refused, failed or dropped.
Drop(r) ==
    /\ req[r].pc # "idle"
    /\ Done(r)
    /\ UNCHANGED <<redis, held, session, started, history>>

-----------------------------------------------------------------------------
Next ==
    \/ \E r \in Reqs, c \in Clients, f \in Flows :
          \/ \E asked \in RequestedScopes : PostDeviceAuthorization(r, c, f, asked)
          \/ PostToken(r, c, f) \/ PostRevoke(r, c, f)
    \/ \E r \in Reqs, u \in Users, c \in UserCodes :
          \/ DescribeDevice(r, u, c)
          \/ VerifyDevice(r, u, c)
    \/ \E r \in Reqs, u \in Users, i \in Ids :
          DescribeRequest(r, u, i) \/ ApproveRequest(r, u, i) \/ DenyRequest(r, u, i)
    \/ \E r \in Reqs :
          \/ (\E c \in UserCodes : Reserve(r, c)) \/ Initiate(r)
          \/ Describe(r) \/ Verify(r) \/ VerifyGuard(r) \/ UpdateStatusLoad(r) \/ UpdateStatus(r)
          \/ Poll(r) \/ PollDenied(r) \/ PollClaim(r) \/ PollForget(r) \/ PollIssue(r)
          \/ ClaimRequest(r) \/ TakeRequest(r) \/ AnswerRequest(r)
          \/ RefreshRotate(r) \/ RevokeRow(r) \/ Drop(r)
    \/ \E i \in Ids : Authorize(i)
    \/ \E u \in Users, s \in SUBSET Scopes : ChangeHeld(u, s)
    \/ Expire

Spec == Init /\ [][Next]_vars

-----------------------------------------------------------------------------
(***************************************************************************)
(* An approval opens one session at most, however many polls read it       *)
(* before the first removes the entry (device.rs:345).  It is the          *)
(* approver's, with no permission the approver did not hold when they      *)
(* approved: one gained later does not reach the device (device.rs:655).   *)
(* Two flows never share a user code, so an approval reaches the device    *)
(* the user was shown (reserve_user_code, device.rs:181); a flow whose     *)
(* code ran out before its entry did is the exception.                     *)
(***************************************************************************)
SessionIsWhatWasApproved ==
    /\ \A f \in Flows : session[f].issued > 0 =>
        /\ session[f].issued = 1
        /\ [grant |-> f, op |-> "authorized", user |-> session[f].user] \in answered
        /\ session[f].scopes \subseteq consented[f] \cup {None}
    /\ \A f, g \in Flows \ outlived :
        f # g /\ Live(f) /\ Live(g) => device[f].code # device[g].code

(***************************************************************************)
(* Of the decisions on one device or one request, made at once by one user *)
(* or several, one author is told theirs stands (device.rs:61,             *)
(* take_request in oauth.rs:549); a request belongs to the first user who  *)
(* looked at it, and nobody else is shown it or decides it (claim_request, *)
(* oauth.rs:596).                                                          *)
(***************************************************************************)
DecisionIsFinal ==
    /\ \A a, b \in answered : a.grant = b.grant => a = b
    /\ \A i \in Ids :
        Cardinality({a.user : a \in {b \in shown \cup answered : b.grant = i}}) <= 1

(***************************************************************************)
(* Once a client revoked the latest refresh token of a grant, no token of  *)
(* it is active again, not even by a refresh that read the row before      *)
(* (oauth.rs:1244, rotate in session.rs:144).                              *)
(***************************************************************************)
RevocationEndsTheGrant == \A f \in revoked : ~Introspects(f)
=============================================================================
