---------------------------- MODULE GrantsProofs ----------------------------
(***************************************************************************)
(* For any number of users, devices, authorization requests and requests   *)
(* running at once: a device's session is what was approved, a decision is *)
(* final, and a revoked grant stays ended.                                 *)
(*                                                                         *)
(* An entry only moves on: none, pending, decided, gone.  What a request   *)
(* read of it before is compared with what it is (UpdateStatus) or is      *)
(* taken by the one that removes it (PollClaim, TakeRequest), so at most   *)
(* one request is past that point; the invariants below say which, and     *)
(* what it carries.                                                        *)
(***************************************************************************)
EXTENDS Grants, FiniteSetTheorems, TLAPS

Steps == {"idle", "reserve", "entry", "preview", "verify", "guard", "load", "swap", "poll", "clear",
          "claim", "forget", "issue", "viewer", "take", "answer", "rotate", "revoke"}
Ops == {"none", "initiate", "describe", "authorized", "denied", "poll", "rotate", "revoke"}

Req == [pc: Steps, op: Ops, user: Users \cup {None}, client: Clients \cup {None},
        code: UserCodes \cup {None}, flow: Flows \cup {None}, read: Entry,
        scopes: {{None}} \cup SUBSET Scopes, id: Ids \cup {None}, seen: Stored, token: 0..MaxTokens]

Answers == [grant: Flows \cup Ids, op: Ops, user: Users]

Typed ==
    /\ device \in [Flows -> Entry] /\ uc \in [UserCodes -> Flows \cup {None}]
    /\ request \in [Ids -> Stored] /\ held \in [Users -> SUBSET Scopes]
    /\ session \in [Flows -> Session] /\ req \in [Reqs -> Req]
    /\ answered \in SUBSET Answers /\ shown \in SUBSET [grant: Ids, user: Users]
    /\ consented \in [Flows -> SUBSET Scopes] /\ revoked \in SUBSET Flows

\* What each kind of request carries, whatever the others do.
Carries(x) ==
    /\ x.pc \in {"preview", "verify", "guard", "load", "swap", "viewer", "take", "answer"} => x.user \in Users
    /\ x.pc \in {"verify", "guard", "load", "swap", "take", "answer"} => x.op \in {"authorized", "denied"}
    /\ x.pc \in {"preview", "verify", "guard", "load"} => x.code \in UserCodes
    /\ x.pc = "reserve" => x.op = "initiate"
    /\ x.pc \in {"reserve", "entry", "swap", "poll", "clear", "claim", "forget", "issue", "rotate", "revoke"}
         => x.flow \in Flows
    /\ x.pc = "entry" => x.code \in UserCodes
    /\ x.pc = "swap" => x.read.status = "pending" /\ x.read.code \in UserCodes /\ x.scopes \in SUBSET Scopes
    /\ x.pc \in {"clear", "claim", "forget", "issue"} => x.read.code \in UserCodes
    /\ x.pc \in {"poll", "claim", "issue"} => x.op = "poll"
    /\ x.pc = "forget" => x.op \in {"poll", "denied"}
    /\ x.pc = "viewer" => x.seen.status = "open" /\ x.op \in {"describe", "authorized", "denied"}
    /\ x.pc \in {"viewer", "take", "answer"} => x.id \in Ids

\* A device code is being set up by one request, and its user code is its own until it outlives it.
SetsUp(x) == x.pc \in {"reserve", "entry"}
SetUpInv ==
    /\ \A r \in Reqs : /\ SetsUp(req[r]) => device[req[r].flow].status = "none"
                       /\ req[r].pc = "entry" =>
                            uc[req[r].code] = req[r].flow \/ req[r].flow \in outlived
    /\ \A r, s \in Reqs : r # s /\ SetsUp(req[r]) /\ SetsUp(req[s]) => req[r].flow # req[s].flow
    /\ \A f \in Flows : Live(f) => /\ device[f].code \in UserCodes
                                   /\ uc[device[f].code] = f \/ f \in outlived

\* u approved f, and held what scopes restricts it to.
Approved(answers, consents, f, u, scopes) ==
    /\ [grant |-> f, op |-> "authorized", user |-> u] \in answers
    /\ scopes \subseteq consents[f] \cup {None}

\* A poll that read an approval, and one that removed it.
Polls(x) == x.pc = "claim" \/ x.pc = "issue" \/ (x.pc = "forget" /\ x.op = "poll")
Won(x) == x.pc = "issue" \/ (x.pc = "forget" /\ x.op = "poll")
ClaimInv ==
    /\ \A r \in Reqs : Polls(req[r]) =>
         /\ Approved(answered, consented, req[r].flow, req[r].read.user, req[r].read.scopes)
         /\ device[req[r].flow].status \in {"authorized", "gone"}
    /\ \A r \in Reqs : Won(req[r]) =>
         device[req[r].flow].status = "gone" /\ session[req[r].flow].issued = 0
    /\ \A r \in Reqs : req[r].pc = "clear" => device[req[r].flow].status \in {"denied", "gone"}
    /\ \A r, s \in Reqs : r # s /\ Won(req[r]) /\ Won(req[s]) => req[r].flow # req[s].flow
    /\ \A f \in Flows : device[f].status = "authorized" =>
         Approved(answered, consented, f, device[f].user, device[f].scopes)
    /\ \A f \in Flows : session[f].issued > 0 =>
         /\ session[f].issued = 1 /\ device[f].status = "gone"
         /\ Approved(answered, consented, f, session[f].user, session[f].scopes)
    /\ \A a \in answered, f \in Flows :
         a.grant = f => device[f].status \in {"authorized", "denied", "gone"}

\* An authorization request is its first viewer's, and one request takes it.
ViewInv ==
    /\ \A r \in Reqs : req[r].pc = "viewer" /\ req[r].seen.viewer # None =>
         request[req[r].id].viewer = req[r].seen.viewer
    /\ \A r \in Reqs : req[r].pc \in {"take", "answer"} => request[req[r].id].viewer = req[r].user
    /\ \A r \in Reqs : req[r].pc = "answer" =>
         request[req[r].id].status = "gone" /\ \A a \in answered : a.grant # req[r].id
    /\ \A r, s \in Reqs : r # s /\ req[r].pc = "answer" /\ req[s].pc = "answer" => req[r].id # req[s].id
    /\ \A a \in answered, i \in Ids :
         a.grant = i => request[i].status = "gone" /\ request[i].viewer = a.user
    /\ \A a \in shown : request[a.grant].viewer = a.user

\* Of a session's refresh tokens all but the latest have ended.
TokenInv ==
    /\ \A r \in Reqs : req[r].pc \in {"rotate", "revoke"} =>
         session[req[r].flow].issued > 0 /\ req[r].token \in 1..session[req[r].flow].token
    /\ \A f \in Flows : session[f].issued > 0 =>
         session[f].token > 0 /\ \A n \in 1..session[f].token : n # session[f].token => n \in session[f].ended
    /\ \A f \in revoked : session[f].issued > 0 /\ session[f].token \in session[f].ended

OneAnswer == \A a, b \in answered : a.grant = b.grant => a = b

IInv ==
    /\ Typed /\ \A r \in Reqs : Carries(req[r])
    /\ SetUpInv /\ ClaimInv /\ ViewInv /\ TokenInv /\ OneAnswer
-----------------------------------------------------------------------------
LEMMA IdleOK ==
    /\ Idle \in Req /\ Idle.pc = "idle" /\ Carries(Idle)
    /\ NoEntry \in Entry /\ NoSession \in Session
BY GrantsAssumption DEF Idle, Req, NoEntry, Entry, NoRequest, Stored, NoSession, Session, Steps, Ops, Carries

LEMMA GoneOK ==
    [NoEntry EXCEPT !.status = "gone"] \in Entry /\ [NoEntry EXCEPT !.status = "gone"].status = "gone"
BY DEF NoEntry, Entry

LEMMA InitOK == Init => IInv
<1> SUFFICES ASSUME Init PROVE IInv
  OBVIOUS
<1> USE GrantsAssumption
<1>1. PICK u \in Users, c \in Clients :
          /\ session = [f \in Flows |-> IF f \in Earlier
                           THEN [NoSession EXCEPT !.issued = 1, !.user = u, !.client = c, !.token = 1]
                           ELSE NoSession]
          /\ answered = {[grant |-> f, op |-> "authorized", user |-> u] : f \in Earlier}
  BY DEF Init
<1>2. /\ session \in [Flows -> Session]
      /\ \A f \in Flows : /\ f \in Earlier => /\ session[f].issued = 1 /\ session[f].user = u
                                              /\ session[f].scopes = {None} /\ session[f].token = 1
                          /\ f \notin Earlier => session[f].issued = 0
  <2> DEFINE first == [NoSession EXCEPT !.issued = 1, !.user = u, !.client = c, !.token = 1]
  <2>0. NoSession \in Session /\ NoSession.issued = 0 /\ NoSession.scopes = {None} /\ 1 \in 0..MaxTokens
    BY IdleOK DEF NoSession
  <2>1. /\ first.issued = 1 /\ first.user = u /\ first.scopes = {None} /\ first.token = 1
        /\ first \in Session
    BY <2>0 DEF Session
  <2> HIDE DEF first
  <2>2. session = [f \in Flows |-> IF f \in Earlier THEN first ELSE NoSession]
    BY <1>1 DEF first
  <2> QED  BY <2>0, <2>1, <2>2
<1>3. /\ device \in [Flows -> Entry]
      /\ \A f \in Flows : /\ f \in Earlier => device[f].status = "gone"
                          /\ f \notin Earlier => device[f].status = "none"
  BY IdleOK, GoneOK DEF Init, NoEntry
<1>4. req \in [Reqs -> Req] /\ \A r \in Reqs : req[r] = Idle /\ req[r].pc = "idle" /\ Carries(req[r])
  BY IdleOK DEF Init
<1>5. /\ answered \in SUBSET Answers
      /\ \A a \in answered : a.grant \in Earlier /\ a = [grant |-> a.grant, op |-> "authorized", user |-> u]
      /\ \A f \in Earlier : [grant |-> f, op |-> "authorized", user |-> u] \in answered
  BY <1>1 DEF Answers, Ops
<1>6. /\ uc \in [UserCodes -> Flows \cup {None}] /\ request \in [Ids -> Stored]
      /\ held \in [Users -> SUBSET Scopes] /\ consented \in [Flows -> SUBSET Scopes]
      /\ shown = {} /\ revoked = {}
  BY DEF Init, NoRequest, Stored
<1>7. Typed
  BY <1>2, <1>3, <1>4, <1>5, <1>6 DEF Typed
<1>8. SetUpInv
  BY <1>3, <1>4 DEF SetUpInv, SetsUp, Live
<1>9. ClaimInv
  BY <1>2, <1>3, <1>4, <1>5 DEF ClaimInv, Polls, Won, Approved
<1>10. ViewInv
  BY <1>4, <1>5, <1>6 DEF ViewInv
<1>11. TokenInv
  BY <1>2, <1>4, <1>6 DEF TokenInv
<1>12. OneAnswer
  BY <1>5 DEF OneAnswer
<1> QED  BY <1>4, <1>7, <1>8, <1>9, <1>10, <1>11, <1>12 DEF IInv
-----------------------------------------------------------------------------
(***************************************************************************)
(* A step of one request, and the parts of the invariant it leaves.        *)
(***************************************************************************)
Updates(r, x) == /\ req' \in [Reqs -> Req] /\ req'[r] = x
                 /\ \A s \in Reqs : s # r => req'[s] = req[s]

LEMMA UpdatesOK ==
    ASSUME IInv, NEW r \in Reqs, NEW x \in Req, Carries(x), req' = [req EXCEPT ![r] = x]
    PROVE  Updates(r, x) /\ \A s \in Reqs : Carries(req'[s])
BY DEF IInv, Typed, Updates

LEMMA SetUpKept ==
    ASSUME IInv, NEW r \in Reqs, NEW x \in Req, Updates(r, x), ~SetsUp(x), UNCHANGED <<uc, outlived>>,
           \A f \in Flows : /\ device[f].status = "none" => device'[f].status = "none"
                            /\ device'[f].status \in {"pending", "authorized", "denied"} =>
                                 Live(f) /\ device'[f].code = device[f].code
    PROVE  SetUpInv'
BY DEF IInv, SetUpInv, Updates, SetsUp, Live, Carries

LEMMA ClaimKept ==
    ASSUME IInv, NEW r \in Reqs, NEW x \in Req, Updates(r, x), ~Polls(x), x.pc # "clear",
           UNCHANGED consented,
           \A f \in Flows : /\ session'[f].issued = session[f].issued /\ session'[f].user = session[f].user
                            /\ session'[f].scopes = session[f].scopes,
           \A f \in Flows : device'[f] = device[f] \/ device'[f].status = "gone",
           answered \subseteq answered', \A a \in answered' : a \in answered \/ a.grant \in Ids
    PROVE  ClaimInv'
<1> USE DEF Updates
<1>0. \A s \in Reqs : Polls(req[s]) \/ Won(req[s]) \/ req[s].pc = "clear" => req[s].flow \in Flows
  BY DEF IInv, Carries, Polls, Won
<1>1. \A s \in Reqs : /\ Polls(req'[s]) => s # r /\ req'[s] = req[s] /\ Polls(req[s])
                      /\ Won(req'[s]) => s # r /\ req'[s] = req[s] /\ Won(req[s])
  BY DEF Polls, Won
<1>2. \A f, u, scopes : Approved(answered, consented, f, u, scopes) =>
                          Approved(answered', consented', f, u, scopes)
  BY DEF Approved
<1>3. ASSUME NEW s \in Reqs, Polls(req'[s])
      PROVE  /\ Approved(answered', consented', req'[s].flow, req'[s].read.user, req'[s].read.scopes)
             /\ device'[req'[s].flow].status \in {"authorized", "gone"}
  BY <1>0, <1>1, <1>2, <1>3 DEF IInv, ClaimInv
<1>4. ASSUME NEW s \in Reqs, Won(req'[s])
      PROVE  device'[req'[s].flow].status = "gone" /\ session'[req'[s].flow].issued = 0
  BY <1>0, <1>1, <1>4 DEF IInv, ClaimInv
<1>5. ASSUME NEW s \in Reqs, NEW t \in Reqs, s # t, Won(req'[s]), Won(req'[t])
      PROVE  req'[s].flow # req'[t].flow
  BY <1>1, <1>5 DEF IInv, ClaimInv
<1>6. ASSUME NEW f \in Flows, device'[f].status = "authorized"
      PROVE  Approved(answered', consented', f, device'[f].user, device'[f].scopes)
  BY <1>2, <1>6 DEF IInv, ClaimInv
<1>7. ASSUME NEW f \in Flows, session'[f].issued > 0
      PROVE  /\ session'[f].issued = 1 /\ device'[f].status = "gone"
             /\ Approved(answered', consented', f, session'[f].user, session'[f].scopes)
  BY <1>2, <1>7 DEF IInv, ClaimInv
<1>8. ASSUME NEW a \in answered', NEW f \in Flows, a.grant = f
      PROVE  device'[f].status \in {"authorized", "denied", "gone"}
  BY <1>8, GrantsAssumption DEF IInv, ClaimInv
<1>9. ASSUME NEW s \in Reqs, req'[s].pc = "clear"
      PROVE  device'[req'[s].flow].status \in {"denied", "gone"}
  BY <1>0, <1>9 DEF IInv, ClaimInv
<1> QED  BY <1>3, <1>4, <1>5, <1>6, <1>7, <1>8, <1>9 DEF ClaimInv

LEMMA ViewKept ==
    ASSUME IInv, NEW r \in Reqs, NEW x \in Req, Updates(r, x), x.pc \notin {"viewer", "take", "answer"},
           UNCHANGED shown,
           \A i \in Ids : /\ request'[i].viewer = request[i].viewer
                          /\ request[i].status = "gone" => request'[i].status = "gone",
           \A a \in answered' : a \in answered \/ a.grant \in Flows
    PROVE  ViewInv'
<1> USE DEF Updates
<1>0. \A s \in Reqs : req[s].pc \in {"viewer", "take", "answer"} => req[s].id \in Ids
  BY DEF IInv, Carries
<1>1. \A s \in Reqs : req'[s].pc \in {"viewer", "take", "answer"} => s # r /\ req'[s] = req[s]
  OBVIOUS
<1>2. \A a \in shown : a.grant \in Ids
  BY DEF IInv, Typed
<1> QED  BY <1>0, <1>1, <1>2, GrantsAssumption DEF IInv, ViewInv

LEMMA TokenKept ==
    ASSUME IInv, NEW r \in Reqs, NEW x \in Req, Updates(r, x), x.pc \notin {"rotate", "revoke"},
           UNCHANGED <<session, revoked>>
    PROVE  TokenInv'
BY DEF IInv, TokenInv, Updates

\* What the requests share.
shared == <<device, uc, request, session, answered, shown, consented, outlived, revoked>>

\* The parts of the invariant about what is shared, when that stays and only the request moves on.
LEMMA OthersKept ==
    ASSUME IInv, NEW r \in Reqs, NEW x \in Req, Carries(x), req' = [req EXCEPT ![r] = x],
           UNCHANGED <<shared, held>>
    PROVE  /\ Updates(r, x) /\ \A s \in Reqs : Carries(req'[s])
           /\ Typed' /\ OneAnswer'
           /\ ~SetsUp(x) => SetUpInv'
           /\ ~Polls(x) /\ x.pc # "clear" => ClaimInv'
           /\ x.pc \notin {"viewer", "take", "answer"} => ViewInv'
           /\ x.pc \notin {"rotate", "revoke"} => TokenInv'
<1>0. /\ device' = device /\ uc' = uc /\ request' = request /\ session' = session
      /\ answered' = answered /\ shown' = shown /\ consented' = consented /\ outlived' = outlived
      /\ revoked' = revoked /\ held' = held
  BY DEF shared
<1>1. Updates(r, x) /\ \A s \in Reqs : Carries(req'[s])
  BY UpdatesOK
<1>2. ~SetsUp(x) => SetUpInv'
  BY <1>0, <1>1, SetUpKept DEF Live
<1>3. ~Polls(x) /\ x.pc # "clear" => ClaimInv'
  BY <1>0, <1>1, ClaimKept
<1>4. x.pc \notin {"viewer", "take", "answer"} => ViewInv'
  BY <1>0, <1>1, ViewKept
<1>5. x.pc \notin {"rotate", "revoke"} => TokenInv'
  BY <1>0, <1>1, TokenKept
<1>6. Typed' /\ OneAnswer'
  BY <1>0, <1>1 DEF IInv, Typed, OneAnswer, Updates
<1> QED  BY <1>1, <1>2, <1>3, <1>4, <1>5, <1>6

LEMMA ReqOnly ==
    ASSUME IInv, NEW r \in Reqs, NEW x \in Req, Carries(x), req' = [req EXCEPT ![r] = x],
           UNCHANGED <<shared, held>>, ~SetsUp(x), ~Polls(x),
           x.pc \notin {"clear", "viewer", "take", "answer", "rotate", "revoke"}
    PROVE  IInv'
BY OthersKept DEF IInv

\* The same request with another step.
LEMMA GotoOK ==
    ASSUME IInv, NEW r \in Reqs, NEW pc \in Steps, Goto(r, pc)
    PROVE  \E x \in Req : /\ req' = [req EXCEPT ![r] = x] /\ x = [req[r] EXCEPT !.pc = pc]
                          /\ x.pc = pc /\ x.op = req[r].op /\ x.user = req[r].user /\ x.client = req[r].client
                          /\ x.code = req[r].code /\ x.flow = req[r].flow /\ x.read = req[r].read
                          /\ x.scopes = req[r].scopes /\ x.id = req[r].id /\ x.seen = req[r].seen
                          /\ x.token = req[r].token
<1> DEFINE x == [req[r] EXCEPT !.pc = pc]
<1>1. req[r] \in Req
  BY DEF IInv, Typed
<1>2. /\ x \in Req /\ x.pc = pc /\ x.op = req[r].op /\ x.user = req[r].user /\ x.client = req[r].client
      /\ x.code = req[r].code /\ x.flow = req[r].flow /\ x.read = req[r].read
      /\ x.scopes = req[r].scopes /\ x.id = req[r].id /\ x.seen = req[r].seen
      /\ x.token = req[r].token
  BY <1>1 DEF Req
<1>3. req' = [req EXCEPT ![r] = x]
  BY DEF Goto
<1> QED  BY <1>2, <1>3

LEMMA DoneStep ==
    ASSUME IInv, NEW r \in Reqs, Done(r), UNCHANGED <<shared, held>>
    PROVE  IInv'
BY IdleOK, ReqOnly DEF Done, SetsUp, Polls

LEMMA UnknownStep ==
    ASSUME IInv, NEW r \in Reqs, NoteUnknownCode(r)
    PROVE  IInv'
BY DoneStep DEF NoteUnknownCode, shared

LEMMA DropStep ==
    ASSUME IInv, NEW r \in Reqs, Drop(r)
    PROVE  IInv'
BY DoneStep DEF Drop, redis, history, shared

\* A request that starts from nothing and only looks.
LEMMA DescribeDeviceStep ==
    ASSUME IInv, NEW r \in Reqs, NEW u \in Users, NEW c \in UserCodes, DescribeDevice(r, u, c)
    PROVE  IInv'
<1> DEFINE x == [Idle EXCEPT !.pc = "preview", !.op = "describe", !.user = u, !.code = c]
<1>1. x \in Req /\ x.pc = "preview" /\ x.user = u /\ x.code = c
  BY IdleOK DEF Req, Steps, Ops
<1>2. req' = [req EXCEPT ![r] = x] /\ UNCHANGED <<shared, held>>
  BY DEF DescribeDevice, Begin, Reads, redis, history, shared
<1> HIDE DEF x
<1> QED  BY <1>1, <1>2, ReqOnly DEF Carries, SetsUp, Polls

LEMMA VerifyDeviceStep ==
    ASSUME IInv, NEW r \in Reqs, NEW u \in Users, NEW c \in UserCodes, VerifyDevice(r, u, c)
    PROVE  IInv'
<1>1. PICK pc \in {"verify", "load"}, op \in {"authorized", "denied"} :
         /\ req' = [req EXCEPT ![r] = [Idle EXCEPT !.pc = pc, !.op = op, !.user = u, !.code = c]]
         /\ UNCHANGED <<shared, held>>
  BY DEF VerifyDevice, Approve, Deny, Begin, Reads, redis, history, shared
<1> DEFINE x == [Idle EXCEPT !.pc = pc, !.op = op, !.user = u, !.code = c]
<1>2. x \in Req /\ x.pc = pc /\ x.user = u /\ x.code = c /\ x.op = op
  BY IdleOK DEF Req, Steps, Ops
<1>3. req' = [req EXCEPT ![r] = x] /\ UNCHANGED <<shared, held>>
  BY <1>1
<1> HIDE DEF x
<1> QED  BY <1>2, <1>3, ReqOnly DEF Carries, SetsUp, Polls

LEMMA DeviceGrantStep ==
    ASSUME IInv, NEW r \in Reqs, NEW c \in Clients, NEW f \in Flows, DeviceGrant(r, c, f), Reads
    PROVE  IInv'
<1> DEFINE x == [Idle EXCEPT !.pc = "poll", !.op = "poll", !.client = c, !.flow = f]
<1>1. x \in Req /\ x.pc = "poll" /\ x.flow = f /\ x.op = "poll"
  BY IdleOK DEF Req, Steps, Ops
<1>2. req' = [req EXCEPT ![r] = x] /\ UNCHANGED <<shared, held>>
  BY DEF DeviceGrant, Begin, Reads, redis, history, shared
<1> HIDE DEF x
<1> QED  BY <1>1, <1>2, ReqOnly DEF Carries, SetsUp, Polls

LEMMA DescribeStep ==
    ASSUME IInv, NEW r \in Reqs, Describe(r)
    PROVE  IInv'
<1>1. CASE NoteUnknownCode(r)
  BY <1>1, UnknownStep
<1>2. CASE Done(r) /\ UNCHANGED <<redis, held, session, started, history>>
  BY <1>2, DoneStep DEF redis, history, shared
<1> QED  BY <1>1, <1>2 DEF Describe

LEMMA VerifyStep ==
    ASSUME IInv, NEW r \in Reqs, Verify(r) \/ VerifyGuard(r)
    PROVE  IInv'
<1>1. CASE NoteUnknownCode(r)
  BY <1>1, UnknownStep
<1>2. ASSUME NEW pc \in {"guard", "load"}, req[r].pc \in {"verify", "guard"}, Goto(r, pc),
             UNCHANGED <<redis, held, session, started, history>>
      PROVE  IInv'
  <2>1. pc \in Steps
    BY DEF Steps
  <2>2. PICK x \in Req : /\ req' = [req EXCEPT ![r] = x] /\ x.pc = pc /\ x.op = req[r].op
                         /\ x.user = req[r].user /\ x.code = req[r].code
    BY <1>2, <2>1, GotoOK
  <2>3. Carries(req[r])
    BY DEF IInv
  <2>4. Carries(x) /\ ~SetsUp(x) /\ ~Polls(x)
    BY <1>2, <2>2, <2>3 DEF Carries, SetsUp, Polls
  <2> QED  BY <1>2, <2>2, <2>4, ReqOnly DEF redis, history, shared
<1> QED  BY <1>1, <1>2 DEF Verify, VerifyGuard

LEMMA UpdateStatusLoadStep ==
    ASSUME IInv, NEW r \in Reqs, UpdateStatusLoad(r)
    PROVE  IInv'
<1> DEFINE f == uc[req[r].code]
<1>1. CASE NoteUnknownCode(r)
  BY <1>1, UnknownStep
<1>2. CASE /\ Found(req[r].code) /\ device[f].status = "pending"
           /\ req' = [req EXCEPT ![r].pc = "swap", ![r].flow = f, ![r].read = device[f],
                                 ![r].scopes = held[req[r].user]]
           /\ UNCHANGED <<redis, held, session, started, history>>
  <2> DEFINE x == [req[r] EXCEPT !.pc = "swap", !.flow = f, !.read = device[f],
                                 !.scopes = held[req[r].user]]
  <2>1. req[r].pc = "load" /\ req[r] \in Req /\ Carries(req[r])
    BY DEF UpdateStatusLoad, IInv, Typed
  <2>2. req[r].user \in Users /\ req[r].op \in {"authorized", "denied"} /\ req[r].code \in UserCodes
    BY <2>1 DEF Carries
  <2>3. f \in Flows /\ device[f] \in Entry /\ device[f].code \in UserCodes
    BY <1>2, <2>2 DEF IInv, Typed, Found, SetUpInv
  <2>4. held[req[r].user] \in SUBSET Scopes
    BY <2>2 DEF IInv, Typed
  <2>5. /\ x \in Req /\ x.pc = "swap" /\ x.flow = f /\ x.read = device[f]
        /\ x.scopes = held[req[r].user] /\ x.user = req[r].user /\ x.op = req[r].op
    BY <2>1, <2>3, <2>4 DEF Req, Steps
  <2>6. req' = [req EXCEPT ![r] = x]
    BY <1>2
  <2> HIDE DEF x, f
  <2>7. Carries(x) /\ ~SetsUp(x) /\ ~Polls(x)
    BY <1>2, <2>2, <2>3, <2>4, <2>5 DEF Carries, SetsUp, Polls
  <2> QED  BY <1>2, <2>5, <2>6, <2>7, ReqOnly DEF redis, history, shared
<1> QED  BY <1>1, <1>2 DEF UpdateStatusLoad
-----------------------------------------------------------------------------
(***************************************************************************)
(* The device asks, and its code is reserved.                              *)
(***************************************************************************)
LEMMA DeviceAuthorizationStep ==
    ASSUME IInv, NEW r \in Reqs, NEW c \in Clients, NEW f \in Flows, NEW asked \in RequestedScopes,
           PostDeviceAuthorization(r, c, f, asked)
    PROVE  IInv'
<1> DEFINE x == [Idle EXCEPT !.pc = "reserve", !.op = "initiate", !.client = c, !.flow = f, !.scopes = asked]
<1>1. x \in Req /\ x.pc = "reserve" /\ x.op = "initiate" /\ x.flow = f
  BY IdleOK DEF Req, Steps, Ops, RequestedScopes
<1>2. /\ req' = [req EXCEPT ![r] = x] /\ UNCHANGED <<shared, held>>
      /\ device[f].status = "none" /\ \A s \in Reqs : req[s].flow # f
  BY DEF PostDeviceAuthorization, DeviceAuthorization, Begin, Reads, redis, history, shared
<1> HIDE DEF x
<1>3. Carries(x) /\ ~Polls(x)
  BY <1>1 DEF Carries, Polls
<1>4. /\ Updates(r, x) /\ \A s \in Reqs : Carries(req'[s])
      /\ Typed' /\ OneAnswer' /\ ClaimInv' /\ ViewInv' /\ TokenInv'
  BY <1>1, <1>2, <1>3, OthersKept
<1>5. SetUpInv'
  BY <1>1, <1>2, <1>4 DEF IInv, SetUpInv, Updates, SetsUp, Live, shared
<1> QED  BY <1>4, <1>5 DEF IInv

LEMMA ReserveStep ==
    ASSUME IInv, NEW r \in Reqs, NEW c \in UserCodes, Reserve(r, c)
    PROVE  IInv'
<1> DEFINE x == [req[r] EXCEPT !.pc = "entry", !.code = c]
<1>0. req[r] \in Req /\ Carries(req[r]) /\ req[r].pc = "reserve"
  BY DEF IInv, Typed, Reserve
<1>1. x \in Req /\ x.pc = "entry" /\ x.code = c /\ x.flow = req[r].flow /\ req[r].flow \in Flows
  BY <1>0 DEF Req, Steps, Carries
<1>2. /\ req' = [req EXCEPT ![r] = x] /\ uc[c] = None /\ uc' = [uc EXCEPT ![c] = req[r].flow]
      /\ device' = device /\ request' = request /\ held' = held /\ session' = session
      /\ answered' = answered /\ shown' = shown /\ consented' = consented /\ outlived' = outlived
      /\ revoked' = revoked
  BY DEF Reserve, ReserveFree, history
<1> HIDE DEF x
<1>3. Carries(x) /\ ~Polls(x)
  BY <1>1 DEF Carries, Polls
<1>4. Updates(r, x) /\ \A s \in Reqs : Carries(req'[s])
  BY <1>1, <1>2, <1>3, UpdatesOK
<1>5. ClaimInv'
  BY <1>1, <1>2, <1>3, <1>4, ClaimKept
<1>6. ViewInv'
  BY <1>1, <1>2, <1>4, ViewKept
<1>7. TokenInv'
  BY <1>1, <1>2, <1>4, TokenKept
<1>8. uc' \in [UserCodes -> Flows \cup {None}] /\ uc'[c] = req[r].flow
      /\ \A d \in UserCodes : uc[d] # None => uc'[d] = uc[d]
  BY <1>1, <1>2 DEF IInv, Typed
<1>9. Typed' /\ OneAnswer'
  BY <1>2, <1>4, <1>8 DEF IInv, Typed, OneAnswer, Updates
<1>10. SetUpInv'
  <2>1. SetUpInv /\ SetsUp(req[r]) /\ SetsUp(x)
    BY <1>0, <1>1 DEF IInv, SetsUp
  <2>2. \A s \in Reqs : /\ req'[s].flow = req[s].flow /\ (SetsUp(req'[s]) <=> SetsUp(req[s]))
    BY <1>1, <1>4, <2>1 DEF Updates
  <2>3. ASSUME NEW s \in Reqs, req'[s].pc = "entry"
        PROVE  uc'[req'[s].code] = req'[s].flow \/ req'[s].flow \in outlived'
    <3>1. CASE s = r
      BY <3>1, <1>1, <1>2, <1>4, <1>8 DEF Updates
    <3>2. CASE s # r
      <4>1. req'[s] = req[s] /\ req[s].code \in UserCodes /\ req[s].flow \in Flows
        BY <3>2, <2>3, <1>4 DEF Updates, IInv, Carries
      <4> QED  BY <4>1, <2>1, <2>3, <1>2, <1>8, GrantsAssumption DEF SetUpInv
    <3> QED  BY <3>1, <3>2
  <2>4. \A f \in Flows : Live(f) => /\ device[f].code \in UserCodes
                                    /\ uc'[device[f].code] = f \/ f \in outlived
    BY <2>1, <1>8, GrantsAssumption DEF SetUpInv
  <2> QED  BY <2>1, <2>2, <2>3, <2>4, <1>2 DEF SetUpInv, Live
<1> QED  BY <1>4, <1>5, <1>6, <1>7, <1>9, <1>10 DEF IInv

LEMMA InitiateStep ==
    ASSUME IInv, NEW r \in Reqs, Initiate(r)
    PROVE  IInv'
<1> DEFINE f == req[r].flow
           e == [status |-> "pending", code |-> req[r].code, client |-> req[r].client, user |-> None,
                 scopes |-> req[r].scopes]
<1>0. req[r] \in Req /\ Carries(req[r]) /\ req[r].pc = "entry"
  BY DEF IInv, Typed, Initiate
<1>1. f \in Flows /\ e \in Entry /\ e.status = "pending" /\ e.code = req[r].code /\ e.code \in UserCodes
  BY <1>0 DEF Req, Carries, Entry
<1>2. /\ req' = [req EXCEPT ![r] = Idle] /\ device' = [device EXCEPT ![f] = e]
      /\ uc' = uc /\ request' = request /\ held' = held /\ session' = session
      /\ answered' = answered /\ shown' = shown /\ consented' = consented /\ outlived' = outlived
      /\ revoked' = revoked
  BY DEF Initiate, Done, history
<1> HIDE DEF e
<1>3. Updates(r, Idle) /\ \A s \in Reqs : Carries(req'[s])
  BY <1>2, IdleOK, UpdatesOK
<1>4. /\ device' \in [Flows -> Entry] /\ device'[f] = e
      /\ \A g \in Flows : g # f => device'[g] = device[g]
  BY <1>1, <1>2 DEF IInv, Typed
<1>5. Typed' /\ OneAnswer'
  BY <1>2, <1>3, <1>4 DEF IInv, Typed, OneAnswer, Updates
<1>6. ViewInv'
  BY <1>2, <1>3, IdleOK, ViewKept
<1>7. TokenInv'
  BY <1>2, <1>3, IdleOK, TokenKept
<1>8. /\ device[f].status = "none" /\ (uc[req[r].code] = f \/ f \in outlived)
      /\ \A s \in Reqs : s # r /\ SetsUp(req[s]) => req[s].flow # f
  BY <1>0 DEF IInv, SetUpInv, SetsUp
<1>9. SetUpInv'
  <2>1. SetUpInv /\ \A s \in Reqs : SetsUp(req'[s]) => s # r /\ req'[s] = req[s] /\ req[s].flow \in Flows
    BY <1>3, IdleOK DEF IInv, Updates, SetsUp, Carries
  <2>2. \A s \in Reqs : req'[s].pc = "entry" => SetsUp(req'[s])
    BY DEF SetsUp
  <2> QED  BY <2>1, <2>2, <1>1, <1>2, <1>4, <1>8 DEF SetUpInv, Live
<1>10. ClaimInv'
  <2>0. ClaimInv
    BY DEF IInv
  <2>1. \A s \in Reqs : /\ Polls(req'[s]) => s # r /\ req'[s] = req[s] /\ Polls(req[s])
                        /\ Won(req'[s]) => s # r /\ req'[s] = req[s] /\ Won(req[s])
                        /\ req'[s].pc = "clear" => s # r /\ req'[s] = req[s]
                        /\ Polls(req[s]) \/ Won(req[s]) \/ req[s].pc = "clear" => req[s].flow \in Flows \ {f}
    <3>1. \A s \in Reqs : Polls(req[s]) \/ Won(req[s]) => Polls(req[s]) /\ req[s].flow \in Flows
      BY DEF IInv, Carries, Polls, Won
    <3>2. \A s \in Reqs : /\ Polls(req'[s]) => s # r /\ req'[s] = req[s] /\ Polls(req[s])
                          /\ Won(req'[s]) => s # r /\ req'[s] = req[s] /\ Won(req[s])
                          /\ req'[s].pc = "clear" => s # r /\ req'[s] = req[s]
      BY <1>3, IdleOK DEF Updates, Polls, Won
    <3>3. \A s \in Reqs : req[s].pc = "clear" => req[s].flow \in Flows
      BY DEF IInv, Carries
    <3> QED  BY <3>1, <3>2, <3>3, <2>0, <1>8 DEF ClaimInv
  <2>2. session[f].issued > 0 => FALSE
    BY <2>0, <1>1, <1>8 DEF ClaimInv
  <2>3. \A a \in answered : a.grant # f
    BY <2>0, <1>1, <1>8 DEF ClaimInv
  <2> QED  BY <2>0, <2>1, <2>2, <2>3, <1>1, <1>2, <1>4 DEF ClaimInv
<1> QED  BY <1>3, <1>5, <1>6, <1>7, <1>9, <1>10 DEF IInv
-----------------------------------------------------------------------------
(***************************************************************************)
(* The decision on a device, and its polls.                                *)
(***************************************************************************)
\* The pending entry a decision replaces: nothing was decided on it yet, and no poll is past it.
LEMMA PendingFacts ==
    ASSUME IInv, NEW f \in Flows, device[f].status = "pending"
    PROVE  /\ \A a \in answered : a.grant # f
           /\ \A s \in Reqs : Polls(req[s]) \/ Won(req[s]) \/ req[s].pc = "clear" \/ SetsUp(req[s]) =>
                                req[s].flow \in Flows \ {f}
           /\ ~(session[f].issued > 0)
<1>1. \A s \in Reqs : Polls(req[s]) \/ Won(req[s]) \/ req[s].pc = "clear" \/ SetsUp(req[s]) =>
                        req[s].flow \in Flows /\ (Won(req[s]) => Polls(req[s]))
  BY DEF IInv, Carries, Polls, Won, SetsUp
<1>2. ClaimInv /\ SetUpInv
  BY DEF IInv
<1>3. \A s \in Reqs : SetsUp(req[s]) => req[s].flow # f
  BY <1>2 DEF SetUpInv
<1>4. \A s \in Reqs : Polls(req[s]) \/ req[s].pc = "clear" => req[s].flow # f
  BY <1>2 DEF ClaimInv
<1>5. ~(session[f].issued > 0) /\ \A a \in answered : a.grant # f
  BY <1>2 DEF ClaimInv
<1> QED  BY <1>1, <1>3, <1>4, <1>5

LEMMA UpdateStatusStep ==
    ASSUME IInv, NEW r \in Reqs, UpdateStatus(r)
    PROVE  IInv'
<1> DEFINE x == req[r]
           f == req[r].flow
           e == Decided(req[r])
           a == [grant |-> f, op |-> x.op, user |-> x.user]
<1>0. x \in Req /\ Carries(x) /\ x.pc = "swap"
  BY DEF IInv, Typed, UpdateStatus
<1>1. /\ f \in Flows /\ x.user \in Users /\ x.op \in {"authorized", "denied"} /\ x.scopes \in SUBSET Scopes
      /\ x.read \in Entry /\ x.read.status = "pending"
  BY <1>0 DEF Req, Carries
<1>2. /\ req' = [req EXCEPT ![r] = Idle] /\ device[f] = x.read /\ device' = [device EXCEPT ![f] = e]
      /\ answered' = answered \cup {a} /\ consented' = [consented EXCEPT ![f] = x.scopes]
      /\ uc' = uc /\ request' = request /\ held' = held /\ session' = session
      /\ shown' = shown /\ outlived' = outlived /\ revoked' = revoked
  BY DEF UpdateStatus, CompareAndSet, Done
<1>3. Consent(x.read.scopes, x.scopes) \in {{None}} \cup SUBSET Scopes
      /\ Consent(x.read.scopes, x.scopes) \subseteq x.scopes \cup {None}
  <2>1. x.read.scopes \in {{None}} \cup SUBSET Scopes
    BY <1>1 DEF Entry
  <2> QED  BY <2>1, <1>1 DEF Consent
<1>4. /\ e \in Entry /\ e.status = x.op /\ e.code = x.read.code
      /\ x.op = "authorized" => e.user = x.user /\ e.scopes \subseteq x.scopes \cup {None}
  BY <1>1, <1>3 DEF Decided, Entry
<1>5. a \in Answers /\ a.grant = f /\ a.op = x.op /\ a.user = x.user
  BY <1>1 DEF Answers, Ops
<1> HIDE DEF e
<1>6. Updates(r, Idle) /\ \A s \in Reqs : Carries(req'[s])
  BY <1>2, IdleOK, UpdatesOK
<1>7. /\ device' \in [Flows -> Entry] /\ device'[f] = e
      /\ \A g \in Flows : g # f => device'[g] = device[g]
  BY <1>1, <1>2, <1>4 DEF IInv, Typed
<1>8. /\ consented' \in [Flows -> SUBSET Scopes] /\ consented'[f] = x.scopes
      /\ \A g \in Flows : g # f => consented'[g] = consented[g]
  BY <1>1, <1>2 DEF IInv, Typed
<1>9. /\ \A b \in answered : b.grant # f
      /\ \A s \in Reqs : Polls(req[s]) \/ Won(req[s]) \/ req[s].pc = "clear" \/ SetsUp(req[s]) =>
                           req[s].flow \in Flows \ {f}
      /\ ~(session[f].issued > 0)
  BY <1>1, <1>2, PendingFacts
<1>10. Typed'
  BY <1>2, <1>5, <1>6, <1>7, <1>8 DEF IInv, Typed, Updates
<1>11. OneAnswer'
  BY <1>2, <1>5, <1>9 DEF IInv, OneAnswer
<1>12. ViewInv'
  BY <1>1, <1>2, <1>5, <1>6, IdleOK, ViewKept
<1>13. TokenInv'
  BY <1>2, <1>6, IdleOK, TokenKept
<1>14. SetUpInv'
  <2>1. Live(f)
    BY <1>1, <1>2 DEF Live
  <2> QED  BY <2>1, <1>1, <1>2, <1>4, <1>6, <1>7, IdleOK, SetUpKept DEF Live, SetsUp
<1>15. ClaimInv'
  <2>0. ClaimInv
    BY DEF IInv
  <2>1. \A s \in Reqs : /\ Polls(req'[s]) => s # r /\ req'[s] = req[s] /\ Polls(req[s])
                        /\ Won(req'[s]) => s # r /\ req'[s] = req[s] /\ Won(req[s])
                        /\ req'[s].pc = "clear" => s # r /\ req'[s] = req[s]
    BY <1>6, IdleOK DEF Updates, Polls, Won
  <2>2. \A g \in Flows : \A u, scopes : Approved(answered, consented, g, u, scopes) /\ g # f =>
                                        Approved(answered', consented', g, u, scopes)
    BY <1>2, <1>8 DEF Approved
  <2>3. ASSUME NEW s \in Reqs, Polls(req'[s])
        PROVE  /\ Approved(answered', consented', req'[s].flow, req'[s].read.user, req'[s].read.scopes)
               /\ device'[req'[s].flow].status \in {"authorized", "gone"}
    BY <2>0, <2>1, <2>2, <2>3, <1>7, <1>9 DEF ClaimInv
  <2>4. ASSUME NEW s \in Reqs, Won(req'[s])
        PROVE  device'[req'[s].flow].status = "gone" /\ session'[req'[s].flow].issued = 0
    BY <2>0, <2>1, <2>4, <1>2, <1>7, <1>9 DEF ClaimInv
  <2>5. ASSUME NEW s \in Reqs, req'[s].pc = "clear"
        PROVE  device'[req'[s].flow].status \in {"denied", "gone"}
    BY <2>0, <2>1, <2>5, <1>7, <1>9 DEF ClaimInv
  <2>6. ASSUME NEW s \in Reqs, NEW t \in Reqs, s # t, Won(req'[s]), Won(req'[t])
        PROVE  req'[s].flow # req'[t].flow
    BY <2>0, <2>1, <2>6 DEF ClaimInv
  <2>7. ASSUME NEW g \in Flows, device'[g].status = "authorized"
        PROVE  Approved(answered', consented', g, device'[g].user, device'[g].scopes)
    <3>1. CASE g = f
      <4>1. x.op = "authorized" /\ a \in answered'
        BY <3>1, <2>7, <1>2, <1>4, <1>7
      <4> QED  BY <3>1, <4>1, <1>4, <1>7, <1>8 DEF Approved
    <3>2. CASE g # f
      BY <3>2, <2>0, <2>2, <2>7, <1>7 DEF ClaimInv
    <3> QED  BY <3>1, <3>2
  <2>8. ASSUME NEW g \in Flows, session'[g].issued > 0
        PROVE  /\ session'[g].issued = 1 /\ device'[g].status = "gone"
               /\ Approved(answered', consented', g, session'[g].user, session'[g].scopes)
    BY <2>0, <2>2, <2>8, <1>2, <1>7, <1>9 DEF ClaimInv
  <2>9. ASSUME NEW b \in answered', NEW g \in Flows, b.grant = g
        PROVE  device'[g].status \in {"authorized", "denied", "gone"}
    BY <2>0, <2>9, <1>1, <1>2, <1>4, <1>5, <1>7 DEF ClaimInv
  <2> QED  BY <2>3, <2>4, <2>5, <2>6, <2>7, <2>8, <2>9 DEF ClaimInv
<1> QED  BY <1>6, <1>10, <1>11, <1>12, <1>13, <1>14, <1>15 DEF IInv

LEMMA PollStep ==
    ASSUME IInv, NEW r \in Reqs, Poll(r)
    PROVE  IInv'
<1> DEFINE f == req[r].flow
<1>0. /\ req[r] \in Req /\ Carries(req[r]) /\ req[r].pc = "poll" /\ Live(f)
      /\ UNCHANGED <<shared, held>>
  BY DEF IInv, Typed, Poll, history, shared
<1>1. f \in Flows /\ device[f] \in Entry /\ device[f].code \in UserCodes /\ req[r].op = "poll"
  BY <1>0 DEF IInv, Typed, Carries, SetUpInv
<1>2. CASE Done(r)
  BY <1>0, <1>2, DoneStep
<1>3. ASSUME NEW pc \in {"clear", "claim"}, device[f].status = IF pc = "clear" THEN "denied" ELSE "authorized",
             req' = [req EXCEPT ![r].pc = pc, ![r].read = device[f]]
      PROVE  IInv'
  <2> DEFINE x == [req[r] EXCEPT !.pc = pc, !.read = device[f]]
  <2>1. x \in Req /\ x.pc = pc /\ x.flow = f /\ x.op = "poll" /\ x.read = device[f]
    BY <1>0, <1>1 DEF Req, Steps
  <2>2. req' = [req EXCEPT ![r] = x]
    BY <1>3
  <2> HIDE DEF x
  <2>3. Carries(x) /\ ~SetsUp(x) /\ ~Won(x) /\ (Polls(x) <=> pc = "claim")
    BY <2>1, <1>1 DEF Carries, SetsUp, Won, Polls
  <2>4. /\ Updates(r, x) /\ \A s \in Reqs : Carries(req'[s])
        /\ Typed' /\ OneAnswer' /\ SetUpInv' /\ ViewInv' /\ TokenInv'
    BY <1>0, <2>1, <2>2, <2>3, OthersKept
  <2>5. ClaimInv'
    <3>0. ClaimInv /\ device' = device /\ answered' = answered /\ consented' = consented /\ session' = session
      BY <1>0 DEF IInv, shared
    <3>1. \A s \in Reqs : s # r => req'[s] = req[s]
      BY <2>4 DEF Updates
    <3>2. req'[r] = x
      BY <2>4 DEF Updates
    <3>3. ASSUME NEW s \in Reqs, Polls(req'[s])
          PROVE  /\ Approved(answered, consented, req'[s].flow, req'[s].read.user, req'[s].read.scopes)
                 /\ device[req'[s].flow].status \in {"authorized", "gone"}
      <4>1. CASE s = r
        <5>1. device[f].status = "authorized"
          BY <4>1, <3>2, <3>3, <2>3, <1>3
        <5> QED  BY <5>1, <4>1, <3>0, <3>2, <2>1, <1>1 DEF ClaimInv
      <4>2. CASE s # r
        BY <4>2, <3>0, <3>1, <3>3 DEF ClaimInv
      <4> QED  BY <4>1, <4>2
    <3>4. \A s \in Reqs : Won(req'[s]) => s # r
      BY <3>2, <2>3
    <3>5. ASSUME NEW s \in Reqs, req'[s].pc = "clear"
          PROVE  device[req'[s].flow].status \in {"denied", "gone"}
      <4>1. CASE s = r
        <5>1. pc = "clear"
          BY <4>1, <3>2, <3>5, <2>1
        <5>2. device[f].status = "denied"
          BY <5>1, <1>3
        <5> QED  BY <5>2, <4>1, <3>2, <2>1
      <4>2. CASE s # r
        BY <4>2, <3>0, <3>1, <3>5 DEF ClaimInv
      <4> QED  BY <4>1, <4>2
    <3> QED  BY <3>0, <3>1, <3>3, <3>4, <3>5 DEF ClaimInv
  <2> QED  BY <2>4, <2>5 DEF IInv
<1>4. CASE device[f].status = "denied" /\ req' = [req EXCEPT ![r].pc = "clear", ![r].read = device[f]]
  BY <1>3, <1>4
<1>5. CASE device[f].status = "authorized" /\ req' = [req EXCEPT ![r].pc = "claim", ![r].read = device[f]]
  BY <1>3, <1>5
<1> QED  BY <1>2, <1>4, <1>5 DEF Poll

LEMMA PollDeniedStep ==
    ASSUME IInv, NEW r \in Reqs, PollDenied(r)
    PROVE  IInv'
<1> DEFINE f == req[r].flow
           x == [req[r] EXCEPT !.pc = "forget", !.op = "denied"]
           gone == [NoEntry EXCEPT !.status = "gone"]
<1>0. req[r] \in Req /\ Carries(req[r]) /\ req[r].pc = "clear"
  BY DEF IInv, Typed, PollDenied
<1>1. /\ f \in Flows /\ req[r].read.code \in UserCodes
      /\ x \in Req /\ x.pc = "forget" /\ x.op = "denied" /\ x.flow = f /\ x.read = req[r].read
  BY <1>0 DEF Req, Carries, Steps, Ops
<1>2. /\ req' = [req EXCEPT ![r] = x] /\ device' = [device EXCEPT ![f] = gone]
      /\ uc' = uc /\ request' = request /\ held' = held /\ session' = session
      /\ answered' = answered /\ shown' = shown /\ consented' = consented /\ outlived' = outlived
      /\ revoked' = revoked
  BY DEF PollDenied, history
<1>3. gone \in Entry /\ gone.status = "gone"
  BY GoneOK
<1>4. device[f].status \in {"denied", "gone"}
  BY <1>0 DEF IInv, ClaimInv
<1> HIDE DEF x, gone
<1>5. Carries(x) /\ ~Polls(x) /\ ~SetsUp(x)
  BY <1>1 DEF Carries, Polls, SetsUp
<1>6. Updates(r, x) /\ \A s \in Reqs : Carries(req'[s])
  BY <1>1, <1>2, <1>5, UpdatesOK
<1>7. /\ device' \in [Flows -> Entry] /\ device'[f].status = "gone"
      /\ \A g \in Flows : g # f => device'[g] = device[g]
  BY <1>1, <1>2, <1>3 DEF IInv, Typed
<1>8. Typed' /\ OneAnswer'
  BY <1>2, <1>6, <1>7 DEF IInv, Typed, OneAnswer, Updates
<1>9. SetUpInv'
  BY <1>1, <1>2, <1>4, <1>5, <1>6, <1>7, SetUpKept DEF Live
<1>10. ClaimInv'
  BY <1>1, <1>2, <1>5, <1>6, <1>7, ClaimKept
<1>11. ViewInv'
  BY <1>1, <1>2, <1>6, ViewKept
<1>12. TokenInv'
  BY <1>1, <1>2, <1>6, TokenKept
<1> QED  BY <1>6, <1>8, <1>9, <1>10, <1>11, <1>12 DEF IInv

\* The poll that removes the entry is the only one: the flow has no session and no other winner.
LEMMA PollClaimStep ==
    ASSUME IInv, NEW r \in Reqs, PollClaim(r)
    PROVE  IInv'
<1> DEFINE f == req[r].flow
           gone == [NoEntry EXCEPT !.status = "gone"]
<1>0. req[r] \in Req /\ Carries(req[r]) /\ req[r].pc = "claim" /\ Goto(r, "forget") /\ Live(f)
  BY DEF IInv, Typed, PollClaim, Claimed
<1>1. PICK x \in Req : /\ req' = [req EXCEPT ![r] = x] /\ x.pc = "forget" /\ x.op = req[r].op
                       /\ x.flow = req[r].flow /\ x.read = req[r].read
  <2>1. "forget" \in Steps
    BY DEF Steps
  <2> QED  BY <1>0, <2>1, GotoOK
<1>2. /\ device' = [device EXCEPT ![f] = gone]
      /\ uc' = uc /\ request' = request /\ held' = held /\ session' = session
      /\ answered' = answered /\ shown' = shown /\ consented' = consented /\ outlived' = outlived
      /\ revoked' = revoked
  BY DEF PollClaim, history
<1>3. gone \in Entry /\ gone.status = "gone"
  BY GoneOK
<1>4. f \in Flows /\ req[r].read.code \in UserCodes /\ req[r].op = "poll" /\ Polls(req[r])
  BY <1>0 DEF Carries, Polls
<1> HIDE DEF gone
<1>5. Carries(x) /\ Won(x) /\ Polls(x) /\ ~SetsUp(x)
  BY <1>1, <1>4 DEF Carries, Won, Polls, SetsUp
<1>6. Updates(r, x) /\ \A s \in Reqs : Carries(req'[s])
  BY <1>1, <1>5, UpdatesOK
<1>7. /\ device' \in [Flows -> Entry] /\ device'[f].status = "gone"
      /\ \A g \in Flows : g # f => device'[g] = device[g]
  BY <1>2, <1>3, <1>4 DEF IInv, Typed
<1>8. Typed' /\ OneAnswer'
  BY <1>2, <1>6, <1>7 DEF IInv, Typed, OneAnswer, Updates
<1>9. SetUpInv'
  BY <1>0, <1>2, <1>4, <1>5, <1>6, <1>7, SetUpKept DEF Live
<1>10. ViewInv'
  BY <1>1, <1>2, <1>6, ViewKept
<1>11. TokenInv'
  BY <1>1, <1>2, <1>6, TokenKept
<1>12. ClaimInv'
  <2>0. ClaimInv
    BY DEF IInv
  <2>1. device[f].status = "authorized"
    BY <2>0, <1>0, <1>4 DEF ClaimInv, Live
  <2>2. session[f].issued = 0 /\ \A s \in Reqs : Won(req[s]) => req[s].flow # f
    <3>1. session[f].issued \in Nat /\ ~(session[f].issued > 0)
      BY <2>0, <2>1, <1>4 DEF ClaimInv, IInv, Typed, Session
    <3>2. \A s \in Reqs : Won(req[s]) => req[s].flow # f
      BY <2>0, <2>1 DEF ClaimInv
    <3> QED  BY <3>1, <3>2
  <2>3. req'[r] = x /\ \A s \in Reqs : s # r => req'[s] = req[s]
    BY <1>6 DEF Updates
  <2>4. \A s \in Reqs : Polls(req[s]) \/ Won(req[s]) \/ req[s].pc = "clear" => req[s].flow \in Flows
    BY DEF IInv, Carries, Polls, Won
  <2>5. ASSUME NEW s \in Reqs, Polls(req'[s])
        PROVE  /\ Approved(answered, consented, req'[s].flow, req'[s].read.user, req'[s].read.scopes)
               /\ device'[req'[s].flow].status \in {"authorized", "gone"}
    <3>1. Polls(req[s]) /\ req'[s].flow = req[s].flow /\ req'[s].read = req[s].read
      BY <2>3, <2>5, <1>1, <1>4
    <3> QED  BY <3>1, <2>0, <2>4, <1>7 DEF ClaimInv
  <2>6. ASSUME NEW s \in Reqs, Won(req'[s])
        PROVE  /\ device'[req'[s].flow].status = "gone" /\ session[req'[s].flow].issued = 0
               /\ s # r => Won(req[s]) /\ req'[s].flow # f
    <3>1. CASE s = r
      BY <3>1, <2>2, <2>3, <1>1, <1>7
    <3>2. CASE s # r
      BY <3>2, <2>0, <2>2, <2>3, <2>4, <2>6, <1>7 DEF ClaimInv
    <3> QED  BY <3>1, <3>2
  <2>7. ASSUME NEW s \in Reqs, req'[s].pc = "clear"
        PROVE  device'[req'[s].flow].status \in {"denied", "gone"}
    BY <2>0, <2>3, <2>4, <2>7, <1>1, <1>7 DEF ClaimInv
  <2>8. ASSUME NEW s \in Reqs, NEW t \in Reqs, s # t, Won(req'[s]), Won(req'[t])
        PROVE  req'[s].flow # req'[t].flow
    <3>1. CASE s = r
      BY <3>1, <2>3, <2>6, <2>8, <1>1
    <3>2. CASE t = r
      BY <3>2, <2>3, <2>6, <2>8, <1>1
    <3>3. CASE s # r /\ t # r
      BY <3>3, <2>0, <2>3, <2>8 DEF ClaimInv
    <3> QED  BY <3>1, <3>2, <3>3
  <2>9. \A g \in Flows : device'[g].status = "authorized" =>
          Approved(answered, consented, g, device'[g].user, device'[g].scopes)
    BY <2>0, <1>7 DEF ClaimInv
  <2>10. \A g \in Flows : session[g].issued > 0 =>
           /\ session[g].issued = 1 /\ device'[g].status = "gone"
           /\ Approved(answered, consented, g, session[g].user, session[g].scopes)
    BY <2>0, <1>7 DEF ClaimInv
  <2>11. \A a \in answered, g \in Flows : a.grant = g => device'[g].status \in {"authorized", "denied", "gone"}
    BY <2>0, <1>7 DEF ClaimInv
  <2> QED  BY <2>5, <2>6, <2>7, <2>8, <2>9, <2>10, <2>11, <1>2 DEF ClaimInv
<1> QED  BY <1>6, <1>8, <1>9, <1>10, <1>11, <1>12 DEF IInv

\* A code removed or expired: every flow it pointed at has outlived it.
LEMMA CodeGone ==
    ASSUME IInv, NEW c \in UserCodes, uc' = [uc EXCEPT ![c] = None], device' = device,
           outlived' = outlived \cup ({uc[c]} \ {None}),
           \A s \in Reqs : SetsUp(req'[s]) => req'[s] = req[s]
    PROVE  SetUpInv' /\ uc' \in [UserCodes -> Flows \cup {None}]
<1>0. SetUpInv /\ uc \in [UserCodes -> Flows \cup {None}]
  BY DEF IInv, Typed
<1>1. /\ uc' \in [UserCodes -> Flows \cup {None}] /\ outlived \subseteq outlived'
      /\ \A d \in UserCodes : uc'[d] = uc[d] \/ uc[d] = None \/ uc[d] \in outlived'
  BY <1>0
<1>2. \A s \in Reqs : SetsUp(req'[s]) => req[s].flow \in Flows /\ (req[s].pc = "entry" => req[s].code \in UserCodes)
  BY DEF IInv, Carries, SetsUp
<1>3. \A s \in Reqs : req'[s].pc = "entry" => SetsUp(req'[s])
  BY DEF SetsUp
<1>4. \A s \in Reqs : req'[s].pc = "entry" => uc'[req'[s].code] = req'[s].flow \/ req'[s].flow \in outlived'
  BY <1>0, <1>1, <1>2, <1>3, GrantsAssumption DEF SetUpInv
<1>5. \A f \in Flows : Live(f) => /\ device[f].code \in UserCodes
                                  /\ uc'[device[f].code] = f \/ f \in outlived'
  BY <1>0, <1>1, GrantsAssumption DEF SetUpInv
<1> QED  BY <1>0, <1>1, <1>4, <1>5 DEF SetUpInv, Live

LEMMA PollForgetStep ==
    ASSUME IInv, NEW r \in Reqs, PollForget(r)
    PROVE  IInv'
<1> DEFINE c == req[r].read.code
<1>0. req[r] \in Req /\ Carries(req[r]) /\ req[r].pc = "forget"
  BY DEF IInv, Typed, PollForget
<1>1. c \in UserCodes /\ req[r].flow \in Flows
  BY <1>0 DEF Carries
<1>2. /\ uc' = [uc EXCEPT ![c] = None] /\ outlived' = outlived \cup ({uc[c]} \ {None})
      /\ device' = device /\ request' = request /\ held' = held /\ session' = session
      /\ answered' = answered /\ shown' = shown /\ consented' = consented /\ revoked' = revoked
  BY DEF PollForget
<1>3. PICK x \in Req : /\ req' = [req EXCEPT ![r] = x] /\ Carries(x) /\ x.pc \in {"idle", "issue"}
                       /\ x.pc = "issue" => req[r].op # "denied" /\ x.flow = req[r].flow /\ x.read = req[r].read
  <2>1. CASE req[r].op = "denied"
    <3>1. req' = [req EXCEPT ![r] = Idle]
      BY <2>1 DEF PollForget, Done
    <3> QED  BY <3>1, IdleOK
  <2>2. CASE req[r].op # "denied"
    <3>1. Goto(r, "issue") /\ "issue" \in Steps
      BY <2>2 DEF PollForget, Steps
    <3>2. PICK x \in Req : /\ req' = [req EXCEPT ![r] = x] /\ x.pc = "issue" /\ x.op = req[r].op
                           /\ x.flow = req[r].flow /\ x.read = req[r].read
      BY <3>1, GotoOK
    <3>3. Carries(x)
      BY <3>2, <2>2, <1>0, <1>1 DEF Carries
    <3> QED  BY <3>2, <3>3, <2>2
  <2> QED  BY <2>1, <2>2
<1>4. Updates(r, x) /\ \A s \in Reqs : Carries(req'[s])
  BY <1>3, UpdatesOK
<1>5. SetUpInv' /\ uc' \in [UserCodes -> Flows \cup {None}]
  <2>1. \A s \in Reqs : SetsUp(req'[s]) => req'[s] = req[s]
    BY <1>3, <1>4 DEF Updates, SetsUp
  <2> QED  BY <2>1, <1>1, <1>2, CodeGone
<1>6. Typed' /\ OneAnswer'
  BY <1>2, <1>4, <1>5 DEF IInv, Typed, OneAnswer, Updates
<1>7. ViewInv'
  BY <1>2, <1>3, <1>4, ViewKept
<1>8. TokenInv'
  BY <1>2, <1>3, <1>4, TokenKept
<1>9. ClaimInv'
  <2>0. ClaimInv
    BY DEF IInv
  <2>1. req'[r] = x /\ \A s \in Reqs : s # r => req'[s] = req[s]
    BY <1>4 DEF Updates
  <2>2. \A s \in Reqs : /\ Polls(req'[s]) => Polls(req[s]) /\ req'[s].flow = req[s].flow /\ req'[s].read = req[s].read
                        /\ Won(req'[s]) => Won(req[s]) /\ req'[s].flow = req[s].flow
                        /\ req'[s].pc = "clear" => req'[s] = req[s]
    <3>1. x.pc = "issue" => req[r].op = "poll"
      BY <1>0, <1>3 DEF Carries
    <3> QED  BY <2>1, <3>1, <1>0, <1>3 DEF Polls, Won
  <2> QED  BY <2>0, <2>2, <1>2 DEF ClaimInv
<1> QED  BY <1>4, <1>5, <1>6, <1>7, <1>8, <1>9 DEF IInv

LEMMA PollIssueStep ==
    ASSUME IInv, NEW r \in Reqs, PollIssue(r)
    PROVE  IInv'
<1> DEFINE f == req[r].flow
           n == [issued |-> session[f].issued + 1, user |-> req[r].read.user, scopes |-> req[r].read.scopes,
                 client |-> req[r].client, token |-> 1, ended |-> {}]
<1>0. req[r] \in Req /\ Carries(req[r]) /\ req[r].pc = "issue" /\ Won(req[r]) /\ Polls(req[r])
  BY DEF IInv, Typed, PollIssue, Won, Polls
<1>1. f \in Flows /\ session[f].issued = 0 /\ device[f].status = "gone"
  BY <1>0 DEF Carries, IInv, ClaimInv
<1>2. /\ req' = [req EXCEPT ![r] = Idle] /\ session' = [session EXCEPT ![f] = n]
      /\ uc' = uc /\ request' = request /\ held' = held /\ device' = device
      /\ answered' = answered /\ shown' = shown /\ consented' = consented /\ outlived' = outlived
      /\ revoked' = revoked
  BY DEF PollIssue, Done, redis, history
<1>3. /\ n \in Session /\ n.issued = 1 /\ n.user = req[r].read.user /\ n.scopes = req[r].read.scopes
      /\ n.token = 1 /\ n.ended = {}
  <2>1. /\ req[r].read \in Entry /\ req[r].client \in Clients \cup {None} /\ 1 \in 0..MaxTokens
        /\ session[f].issued + 1 = 1
    BY <1>0, <1>1, GrantsAssumption DEF Req
  <2>2. req[r].read.user \in Users \cup {None} /\ req[r].read.scopes \in {{None}} \cup SUBSET Scopes
    BY <2>1 DEF Entry
  <2> QED  BY <2>1, <2>2 DEF Session
<1> HIDE DEF n
<1>4. Updates(r, Idle) /\ \A s \in Reqs : Carries(req'[s])
  BY <1>2, IdleOK, UpdatesOK
<1>5. /\ session' \in [Flows -> Session] /\ session'[f] = n
      /\ \A g \in Flows : g # f => session'[g] = session[g]
  BY <1>1, <1>2, <1>3 DEF IInv, Typed
<1>6. Typed' /\ OneAnswer'
  BY <1>2, <1>4, <1>5 DEF IInv, Typed, OneAnswer, Updates
<1>7. SetUpInv'
  BY <1>2, <1>4, IdleOK, SetUpKept DEF Live, SetsUp
<1>8. ViewInv'
  BY <1>2, <1>4, IdleOK, ViewKept
<1>9. ClaimInv'
  <2>0. ClaimInv
    BY DEF IInv
  <2>1. \A s \in Reqs : /\ Polls(req'[s]) => s # r /\ req'[s] = req[s] /\ Polls(req[s])
                        /\ Won(req'[s]) => s # r /\ req'[s] = req[s] /\ Won(req[s]) /\ req[s].flow \in Flows
                        /\ req'[s].pc = "clear" => s # r /\ req'[s] = req[s]
    BY <1>4, IdleOK DEF Updates, Polls, Won, IInv, Carries
  <2>2. \A s \in Reqs : Won(req'[s]) => req[s].flow # f
    BY <2>0, <2>1, <1>0 DEF ClaimInv
  <2>3. Approved(answered, consented, f, n.user, n.scopes)
    BY <2>0, <1>0, <1>3 DEF ClaimInv
  <2>4. \A g \in Flows : session'[g].issued > 0 =>
          /\ session'[g].issued = 1 /\ device[g].status = "gone"
          /\ Approved(answered, consented, g, session'[g].user, session'[g].scopes)
    BY <2>0, <2>3, <1>1, <1>3, <1>5 DEF ClaimInv
  <2>5. \A s \in Reqs : Won(req'[s]) => device[req'[s].flow].status = "gone" /\ session'[req'[s].flow].issued = 0
    BY <2>0, <2>1, <2>2, <1>5 DEF ClaimInv
  <2> QED  BY <2>0, <2>1, <2>4, <2>5, <1>2 DEF ClaimInv
<1>10. TokenInv'
  <2>0. TokenInv
    BY DEF IInv
  <2>1. \A s \in Reqs : req'[s].pc \in {"rotate", "revoke"} =>
                          s # r /\ req'[s] = req[s] /\ req[s].flow \in Flows /\ req[s].flow # f
    <3>1. \A s \in Reqs : req'[s].pc \in {"rotate", "revoke"} => s # r /\ req'[s] = req[s] /\ req[s].flow \in Flows
      BY <1>4, IdleOK DEF Updates, IInv, Carries
    <3> QED  BY <3>1, <2>0, <1>1 DEF TokenInv
  <2>2. f \notin revoked /\ revoked \subseteq Flows
    BY <2>0, <1>1 DEF TokenInv, IInv, Typed
  <2>3. session'[f].issued > 0 /\ session'[f].token > 0
        /\ \A k \in 1..session'[f].token : k # session'[f].token => k \in session'[f].ended
    BY <1>3, <1>5
  <2> QED  BY <2>0, <2>1, <2>2, <2>3, <1>2, <1>5 DEF TokenInv
<1> QED  BY <1>4, <1>6, <1>7, <1>8, <1>9, <1>10 DEF IInv
-----------------------------------------------------------------------------
(***************************************************************************)
(* The authorization request behind the consent page.                      *)
(***************************************************************************)
LEMMA LoadRequestStep ==
    ASSUME IInv, NEW r \in Reqs, NEW u \in Users, NEW i \in Ids, NEW op \in {"describe", "authorized", "denied"},
           LoadRequest(r, u, i, op), Reads
    PROVE  IInv'
<1> DEFINE x == [Idle EXCEPT !.pc = "viewer", !.op = op, !.user = u, !.id = i, !.seen = request[i]]
<1>0. request[i] \in Stored /\ request[i].status = "open"
  BY DEF IInv, Typed, LoadRequest
<1>1. x \in Req /\ x.pc = "viewer" /\ x.user = u /\ x.id = i /\ x.op = op /\ x.seen = request[i]
  BY <1>0, IdleOK DEF Req, Steps, Ops
<1>2. req' = [req EXCEPT ![r] = x] /\ UNCHANGED <<shared, held>>
  BY DEF LoadRequest, Begin, Reads, redis, history, shared
<1> HIDE DEF x
<1>3. Carries(x) /\ ~SetsUp(x) /\ ~Polls(x)
  BY <1>0, <1>1 DEF Carries, SetsUp, Polls
<1>4. /\ Updates(r, x) /\ \A s \in Reqs : Carries(req'[s])
      /\ Typed' /\ OneAnswer' /\ SetUpInv' /\ ClaimInv' /\ TokenInv'
  BY <1>1, <1>2, <1>3, OthersKept
<1>5. ViewInv'
  <2>1. ViewInv /\ request' = request /\ answered' = answered /\ shown' = shown
    BY <1>2 DEF IInv, shared
  <2>2. req'[r] = x /\ \A s \in Reqs : s # r => req'[s] = req[s]
    BY <1>4 DEF Updates
  <2> QED  BY <2>1, <2>2, <1>1 DEF ViewInv
<1> QED  BY <1>4, <1>5 DEF IInv

\* A request is claimed by its first viewer or stays as it is.
LEMMA ClaimRequestStep ==
    ASSUME IInv, NEW r \in Reqs, ClaimRequest(r)
    PROVE  IInv'
<1> DEFINE i == req[r].id
           u == req[r].user
<1>0. req[r] \in Req /\ Carries(req[r]) /\ req[r].pc = "viewer" /\ ViewInv
  BY DEF IInv, Typed, ClaimRequest
<1>1. i \in Ids /\ u \in Users /\ req[r].op \in {"describe", "authorized", "denied"} /\ None \notin Users
  BY <1>0, GrantsAssumption DEF Carries
<1>2. /\ request' \in [Ids -> Stored] /\ request'[i].viewer = u
      /\ request[i].viewer \in {None, u} /\ request'[i].status = request[i].status
      /\ \A j \in Ids : j # i => request'[j] = request[j]
  <2>0. request \in [Ids -> Stored]
    BY DEF IInv, Typed
  <2>1. CASE req[r].seen.viewer = u /\ request' = request
    BY <2>0, <2>1, <1>0, <1>1 DEF ViewInv
  <2>2. CASE req[r].seen.viewer = None /\ request[i] = req[r].seen /\ request' = [request EXCEPT ![i].viewer = u]
    BY <2>0, <2>2, <1>1 DEF Stored
  <2> QED  BY <2>1, <2>2 DEF ClaimRequest, StillAsRead
<1>3. PICK x \in Req : /\ req' = [req EXCEPT ![r] = x] /\ Carries(x) /\ x.pc \in {"idle", "take"}
                       /\ x.pc = "take" => x.id = i /\ x.user = u
                       /\ shown' = shown \/ shown' = shown \cup {[grant |-> i, user |-> u]}
  <2>1. CASE Done(r) /\ shown' = shown \cup {[grant |-> i, user |-> u]}
    BY <2>1, IdleOK DEF Done
  <2>2. CASE req[r].op # "describe" /\ Goto(r, "take") /\ shown' = shown
    <3>1. PICK x \in Req : /\ req' = [req EXCEPT ![r] = x] /\ x.pc = "take" /\ x.op = req[r].op
                           /\ x.id = i /\ x.user = u
      <4>1. "take" \in Steps
        BY DEF Steps
      <4> QED  BY <4>1, <2>2, GotoOK
    <3>2. Carries(x)
      BY <3>1, <2>2, <1>1 DEF Carries
    <3> QED  BY <3>1, <3>2, <2>2
  <2> QED  BY <2>1, <2>2 DEF ClaimRequest
<1>4. /\ device' = device /\ uc' = uc /\ held' = held /\ session' = session
      /\ answered' = answered /\ consented' = consented /\ outlived' = outlived /\ revoked' = revoked
  BY DEF ClaimRequest
<1>5. Updates(r, x) /\ \A s \in Reqs : Carries(req'[s])
  BY <1>3, UpdatesOK
<1>6. shown' \in SUBSET [grant: Ids, user: Users]
  BY <1>1, <1>3 DEF IInv, Typed
<1>7. Typed' /\ OneAnswer'
  BY <1>2, <1>4, <1>5, <1>6 DEF IInv, Typed, OneAnswer, Updates
<1>8. SetUpInv'
  BY <1>3, <1>4, <1>5, SetUpKept DEF Live, SetsUp
<1>9. ClaimInv'
  BY <1>3, <1>4, <1>5, ClaimKept DEF Polls
<1>10. TokenInv'
  BY <1>3, <1>4, <1>5, TokenKept
<1>11. ViewInv'
  <2>1. req'[r] = x /\ \A s \in Reqs : s # r => req'[s] = req[s]
    BY <1>5 DEF Updates
  <2>2. \A s \in Reqs : req'[s].pc \in {"viewer", "answer"} => s # r /\ req'[s] = req[s] /\ req[s].id \in Ids
    BY <2>1, <1>3 DEF IInv, Carries
  <2>3. \A j \in Ids : /\ request'[j].status = request[j].status
                       /\ request'[j].viewer = request[j].viewer \/ request[j].viewer = None
    BY <1>2
  <2>4. ASSUME NEW s \in Reqs, req'[s].pc = "viewer", req'[s].seen.viewer # None
        PROVE  request'[req'[s].id].viewer = req'[s].seen.viewer
    BY <2>2, <2>3, <2>4, <1>0 DEF ViewInv
  <2>5. ASSUME NEW s \in Reqs, req'[s].pc \in {"take", "answer"}
        PROVE  request'[req'[s].id].viewer = req'[s].user
    <3>1. CASE s = r
      BY <3>1, <2>1, <2>5, <1>2, <1>3
    <3>2. CASE s # r
      <4>1. req'[s] = req[s] /\ req[s].id \in Ids /\ req[s].user \in Users
        BY <3>2, <2>1, <2>5 DEF IInv, Carries
      <4> QED  BY <4>1, <2>3, <2>5, <1>0, <1>1 DEF ViewInv
    <3> QED  BY <3>1, <3>2
  <2>6. ASSUME NEW s \in Reqs, req'[s].pc = "answer"
        PROVE  request'[req'[s].id].status = "gone" /\ \A a \in answered' : a.grant # req'[s].id
    BY <2>2, <2>3, <2>6, <1>0, <1>4 DEF ViewInv
  <2>7. ASSUME NEW s \in Reqs, NEW t \in Reqs, s # t, req'[s].pc = "answer", req'[t].pc = "answer"
        PROVE  req'[s].id # req'[t].id
    BY <2>2, <2>7, <1>0 DEF ViewInv
  <2>8. ASSUME NEW a \in answered', NEW j \in Ids, a.grant = j
        PROVE  request'[j].status = "gone" /\ request'[j].viewer = a.user
    <3>1. a \in answered /\ a.user \in Users
      BY <1>4 DEF IInv, Typed, Answers
    <3>2. request[j].status = "gone" /\ request[j].viewer = a.user
      BY <3>1, <2>8, <1>0 DEF ViewInv
    <3> QED  BY <3>1, <3>2, <2>3, <1>1
  <2>9. ASSUME NEW a \in shown'
        PROVE  request'[a.grant].viewer = a.user
    <3>1. CASE a = [grant |-> i, user |-> u]
      BY <3>1, <1>2
    <3>2. CASE a \in shown
      <4>1. a.grant \in Ids /\ a.user \in Users
        BY <3>2 DEF IInv, Typed
      <4> QED  BY <3>2, <4>1, <2>3, <1>0, <1>1 DEF ViewInv
    <3> QED  BY <3>1, <3>2, <1>3
  <2> QED  BY <2>4, <2>5, <2>6, <2>7, <2>8, <2>9 DEF ViewInv
<1> QED  BY <1>5, <1>7, <1>8, <1>9, <1>10, <1>11 DEF IInv

LEMMA TakeRequestStep ==
    ASSUME IInv, NEW r \in Reqs, TakeRequest(r)
    PROVE  IInv'
<1> DEFINE i == req[r].id
<1>0. /\ req[r] \in Req /\ Carries(req[r]) /\ req[r].pc = "take" /\ ViewInv
      /\ request[i].status = "open" /\ Goto(r, "answer") /\ "answer" \in Steps
  BY DEF IInv, Typed, TakeRequest, Steps
<1>1. i \in Ids /\ req[r].user \in Users
  BY <1>0 DEF Carries
<1>2. PICK x \in Req : /\ req' = [req EXCEPT ![r] = x] /\ x.pc = "answer" /\ x.op = req[r].op
                       /\ x.id = i /\ x.user = req[r].user
  BY <1>0, GotoOK
<1>3. Carries(x) /\ ~SetsUp(x) /\ ~Polls(x)
  BY <1>0, <1>2 DEF Carries, SetsUp, Polls
<1>4. /\ request' = [request EXCEPT ![i].status = "gone"]
      /\ device' = device /\ uc' = uc /\ held' = held /\ session' = session /\ shown' = shown
      /\ answered' = answered /\ consented' = consented /\ outlived' = outlived /\ revoked' = revoked
  BY DEF TakeRequest, history
<1>5. /\ request' \in [Ids -> Stored] /\ request'[i].status = "gone" /\ request'[i].viewer = request[i].viewer
      /\ \A j \in Ids : j # i => request'[j] = request[j]
  BY <1>1, <1>4 DEF IInv, Typed, Stored
<1>6. Updates(r, x) /\ \A s \in Reqs : Carries(req'[s])
  BY <1>2, <1>3, UpdatesOK
<1>7. Typed' /\ OneAnswer'
  BY <1>4, <1>5, <1>6 DEF IInv, Typed, OneAnswer, Updates
<1>8. SetUpInv'
  BY <1>3, <1>4, <1>6, SetUpKept DEF Live
<1>9. ClaimInv'
  BY <1>2, <1>3, <1>4, <1>6, ClaimKept
<1>10. TokenInv'
  BY <1>2, <1>4, <1>6, TokenKept
<1>11. ViewInv'
  <2>1. req'[r] = x /\ \A s \in Reqs : s # r => req'[s] = req[s]
    BY <1>6 DEF Updates
  <2>2. \A j \in Ids : /\ request'[j].viewer = request[j].viewer
                       /\ request[j].status = "gone" => request'[j].status = "gone"
    BY <1>5
  <2>3. \A s \in Reqs : req[s].pc \in {"viewer", "take", "answer"} => req[s].id \in Ids
    BY DEF IInv, Carries
  <2>4. \A s \in Reqs : req[s].pc = "answer" => req[s].id # i
    BY <1>0 DEF ViewInv
  <2>5. \A a \in answered : a.grant # i
    BY <1>0, <1>1 DEF ViewInv
  <2>6. ASSUME NEW s \in Reqs, req'[s].pc \in {"viewer", "take", "answer"}
        PROVE  /\ req'[s].id \in Ids
               /\ req'[s].pc = "viewer" /\ req'[s].seen.viewer # None =>
                    request'[req'[s].id].viewer = req'[s].seen.viewer
               /\ req'[s].pc \in {"take", "answer"} => request'[req'[s].id].viewer = req'[s].user
               /\ req'[s].pc = "answer" =>
                    request'[req'[s].id].status = "gone" /\ \A a \in answered' : a.grant # req'[s].id
    <3>1. CASE s = r
      BY <3>1, <2>1, <2>2, <2>5, <1>0, <1>1, <1>2, <1>4, <1>5 DEF ViewInv
    <3>2. CASE s # r
      BY <3>2, <2>1, <2>2, <2>3, <2>6, <1>0, <1>4 DEF ViewInv
    <3> QED  BY <3>1, <3>2
  <2>7. ASSUME NEW s \in Reqs, NEW t \in Reqs, s # t, req'[s].pc = "answer", req'[t].pc = "answer"
        PROVE  req'[s].id # req'[t].id
    BY <2>1, <2>4, <2>7, <1>0, <1>2 DEF ViewInv
  <2>8. \A a \in answered, j \in Ids : a.grant = j => request'[j].status = "gone" /\ request'[j].viewer = a.user
    BY <2>2, <1>0 DEF ViewInv
  <2>9. \A a \in shown : request'[a.grant].viewer = a.user
    <3>1. \A a \in shown : a.grant \in Ids
      BY DEF IInv, Typed
    <3> QED  BY <3>1, <2>2, <1>0 DEF ViewInv
  <2> QED  BY <2>6, <2>7, <2>8, <2>9, <1>4 DEF ViewInv
<1> QED  BY <1>6, <1>7, <1>8, <1>9, <1>10, <1>11 DEF IInv

LEMMA AnswerRequestStep ==
    ASSUME IInv, NEW r \in Reqs, AnswerRequest(r)
    PROVE  IInv'
<1> DEFINE i == req[r].id
           a == [grant |-> i, op |-> req[r].op, user |-> req[r].user]
<1>0. req[r] \in Req /\ Carries(req[r]) /\ req[r].pc = "answer" /\ ViewInv
  BY DEF IInv, Typed, AnswerRequest
<1>1. i \in Ids /\ req[r].user \in Users /\ a \in Answers /\ a.grant = i /\ a.user = req[r].user
  BY <1>0 DEF Carries, Answers, Ops
<1>2. /\ req' = [req EXCEPT ![r] = Idle] /\ answered' = answered \cup {a}
      /\ device' = device /\ uc' = uc /\ held' = held /\ session' = session /\ shown' = shown
      /\ request' = request /\ consented' = consented /\ outlived' = outlived /\ revoked' = revoked
  BY DEF AnswerRequest, Done, redis
<1>3. Updates(r, Idle) /\ \A s \in Reqs : Carries(req'[s])
  BY <1>2, IdleOK, UpdatesOK
<1>4. Typed'
  BY <1>1, <1>2, <1>3 DEF IInv, Typed, Updates
<1>5. SetUpInv'
  BY <1>2, <1>3, IdleOK, SetUpKept DEF Live, SetsUp
<1>6. ClaimInv'
  BY <1>1, <1>2, <1>3, IdleOK, ClaimKept DEF Polls
<1>7. TokenInv'
  BY <1>2, <1>3, IdleOK, TokenKept
<1>8. \A b \in answered : b.grant # i
  BY <1>0 DEF ViewInv
<1>9. OneAnswer'
  BY <1>1, <1>2, <1>8 DEF IInv, OneAnswer
<1>10. ViewInv'
  <2>1. \A s \in Reqs : req'[s].pc \in {"viewer", "take", "answer"} => s # r /\ req'[s] = req[s]
    BY <1>3, IdleOK DEF Updates
  <2>2. \A s \in Reqs : req'[s].pc = "answer" => req'[s].id # i
    BY <2>1, <1>0 DEF ViewInv
  <2>3. request[i].status = "gone" /\ request[i].viewer = a.user
    BY <1>0, <1>1 DEF ViewInv
  <2> HIDE DEF a
  <2> QED  BY <2>1, <2>2, <2>3, <1>0, <1>1, <1>2 DEF ViewInv
<1> QED  BY <1>3, <1>4, <1>5, <1>6, <1>7, <1>9, <1>10 DEF IInv
-----------------------------------------------------------------------------
(***************************************************************************)
(* The client refreshes and revokes.                                       *)
(***************************************************************************)
LEMMA FindTokenStep ==
    ASSUME IInv, NEW r \in Reqs, NEW c \in Clients, NEW f \in Flows, NEW op \in {"rotate", "revoke"},
           FindToken(r, c, f, op), Reads
    PROVE  IInv'
<1> DEFINE x == [Idle EXCEPT !.pc = op, !.op = op, !.client = c, !.flow = f, !.token = session[f].token]
<1>0. session[f].token \in 0..MaxTokens /\ session[f].issued > 0 /\ TokenInv
  BY DEF IInv, Typed, Session, FindToken
<1>1. x \in Req /\ x.pc = op /\ x.flow = f /\ x.token = session[f].token
  BY <1>0, IdleOK DEF Req, Steps, Ops
<1>2. req' = [req EXCEPT ![r] = x] /\ UNCHANGED <<shared, held>>
  BY DEF FindToken, Begin, Reads, redis, history, shared
<1> HIDE DEF x
<1>3. Carries(x) /\ ~SetsUp(x) /\ ~Polls(x)
  BY <1>1 DEF Carries, SetsUp, Polls
<1>4. /\ Updates(r, x) /\ \A s \in Reqs : Carries(req'[s])
      /\ Typed' /\ OneAnswer' /\ SetUpInv' /\ ClaimInv' /\ ViewInv'
  BY <1>1, <1>2, <1>3, OthersKept
<1>5. TokenInv'
  <2>1. session' = session /\ revoked' = revoked
    BY <1>2 DEF shared
  <2>2. req'[r] = x /\ \A s \in Reqs : s # r => req'[s] = req[s]
    BY <1>4 DEF Updates
  <2>3. session[f].token > 0
    BY <1>0 DEF TokenInv
  <2>4. session[f].token \in 1..session[f].token
    BY <2>3, <1>0
  <2> QED  BY <2>1, <2>2, <2>4, <1>0, <1>1 DEF TokenInv
<1> QED  BY <1>4, <1>5 DEF IInv

\* A change of the tokens of one session, by a request that ends.
LEMMA TokensChange ==
    ASSUME IInv, NEW r \in Reqs, NEW f \in Flows, NEW n \in Session,
           n.issued = session[f].issued, n.user = session[f].user, n.scopes = session[f].scopes,
           session' = [session EXCEPT ![f] = n], Done(r), UNCHANGED <<redis, held>>,
           UNCHANGED <<answered, shown, consented, outlived>>, revoked' \in SUBSET Flows, TokenInv'
    PROVE  IInv'
<1>1. /\ device' = device /\ uc' = uc /\ held' = held /\ shown' = shown /\ answered' = answered
      /\ request' = request /\ consented' = consented /\ outlived' = outlived
      /\ req' = [req EXCEPT ![r] = Idle]
  BY DEF redis, Done
<1>2. Updates(r, Idle) /\ \A s \in Reqs : Carries(req'[s])
  BY <1>1, IdleOK, UpdatesOK
<1>3. session' \in [Flows -> Session] /\ session'[f] = n /\ \A g \in Flows : g # f => session'[g] = session[g]
  BY DEF IInv, Typed
<1>4. Typed' /\ OneAnswer'
  BY <1>1, <1>2, <1>3 DEF IInv, Typed, OneAnswer, Updates
<1>5. SetUpInv'
  BY <1>1, <1>2, IdleOK, SetUpKept DEF Live, SetsUp
<1>6. ClaimInv'
  BY <1>1, <1>2, <1>3, IdleOK, ClaimKept DEF Polls
<1>7. ViewInv'
  BY <1>1, <1>2, IdleOK, ViewKept
<1> QED  BY <1>2, <1>4, <1>5, <1>6, <1>7 DEF IInv

\* What a request that rotates or revokes knows of the session.
LEMMA TokenFacts ==
    ASSUME IInv, NEW r \in Reqs, req[r].pc \in {"rotate", "revoke"}
    PROVE  LET s == session[req[r].flow] IN
           /\ req[r].flow \in Flows /\ s \in Session /\ s.issued > 0 /\ s.token \in Nat
           /\ req[r].token \in 1..s.token
           /\ req[r].token \notin s.ended => req[r].token = s.token /\ req[r].flow \notin revoked
<1> DEFINE s == session[req[r].flow]
<1>1. req[r].flow \in Flows /\ Carries(req[r]) /\ TokenInv
  BY DEF IInv, Carries
<1>2. s \in Session /\ s.token \in Nat
  BY <1>1 DEF IInv, Typed, Session
<1>3. s.issued > 0 /\ req[r].token \in 1..s.token
  BY <1>1 DEF TokenInv
<1>4. req[r].token \notin s.ended => req[r].token = s.token
  BY <1>1, <1>3 DEF TokenInv
<1>5. req[r].flow \in revoked => s.token \in s.ended
  BY <1>1 DEF TokenInv
<1> QED  BY <1>1, <1>2, <1>3, <1>4, <1>5

LEMMA RefreshRotateStep ==
    ASSUME IInv, NEW r \in Reqs, RefreshRotate(r)
    PROVE  IInv'
<1> DEFINE f == req[r].flow
           s == session[f]
           n == [s EXCEPT !.token = @ + 1, !.ended = @ \cup {req[r].token}]
<1>0. /\ req[r].pc = "rotate" /\ req[r].token \notin s.ended /\ s.token < MaxTokens
      /\ session' = [session EXCEPT ![f].token = @ + 1, ![f].ended = @ \cup {req[r].token}]
      /\ Done(r) /\ UNCHANGED <<redis, held>> /\ revoked' = revoked
      /\ UNCHANGED <<answered, shown, consented, outlived>>
  BY DEF RefreshRotate, Rotates, history
<1>1. /\ f \in Flows /\ s \in Session /\ s.issued > 0 /\ s.token \in Nat /\ s.token \in 1..s.token
      /\ req[r].token = s.token /\ f \notin revoked
  BY <1>0, TokenFacts
<1>2. /\ n \in Session /\ n.issued = s.issued /\ n.user = s.user /\ n.scopes = s.scopes
      /\ n.token = s.token + 1 /\ n.ended = s.ended \cup {s.token}
  <2>1. s.token + 1 \in 0..MaxTokens /\ s.token \in 0..MaxTokens
    BY <1>0, <1>1, GrantsAssumption
  <2> QED  BY <1>1, <2>1 DEF Session
<1>3. session' = [session EXCEPT ![f] = n]
  BY <1>0, <1>1 DEF IInv, Typed
<1> HIDE DEF n
<1>4. session'[f] = n /\ \A g \in Flows : g # f => session'[g] = session[g]
  BY <1>1, <1>3 DEF IInv, Typed
<1>5. TokenInv'
  <2>0. TokenInv /\ revoked \in SUBSET Flows
    BY DEF IInv, Typed
  <2>1. \A t \in Reqs : req'[t].pc \in {"rotate", "revoke"} => req'[t] = req[t] /\ req[t].flow \in Flows
    <3>1. Updates(r, Idle)
      BY <1>0, IdleOK, UpdatesOK DEF Done
    <3> QED  BY <3>1, IdleOK DEF Updates, IInv, Carries
  <2>2. \A k \in 1..s.token : k \in 1..(s.token + 1)
    BY <1>1
  <2>3. \A k \in 1..n.token : k # n.token => k \in n.ended
    <3>1. ASSUME NEW k \in 1..n.token, k # n.token
          PROVE  k \in n.ended
      <4>1. k \in 1..s.token
        BY <3>1, <1>1, <1>2
      <4>2. k # s.token => k \in s.ended
        BY <4>1, <2>0, <1>1 DEF TokenInv
      <4> QED  BY <4>2, <1>2
    <3> QED  BY <3>1
  <2>4. n.issued > 0 /\ n.token > 0
    BY <1>1, <1>2
  <2>5. ASSUME NEW t \in Reqs, req'[t].pc \in {"rotate", "revoke"}
        PROVE  session'[req'[t].flow].issued > 0 /\ req'[t].token \in 1..session'[req'[t].flow].token
    <3>1. session[req[t].flow].issued > 0 /\ req[t].token \in 1..session[req[t].flow].token
      BY <2>0, <2>1, <2>5 DEF TokenInv
    <3>2. CASE req[t].flow = f
      BY <3>1, <3>2, <2>1, <2>2, <2>4, <2>5, <1>2, <1>4
    <3>3. CASE req[t].flow # f
      BY <3>1, <3>3, <2>1, <2>5, <1>4
    <3> QED  BY <3>2, <3>3
  <2>6. \A g \in Flows : session'[g].issued > 0 =>
          session'[g].token > 0 /\ \A k \in 1..session'[g].token : k # session'[g].token => k \in session'[g].ended
    BY <2>0, <2>3, <2>4, <1>4 DEF TokenInv
  <2>7. \A g \in revoked : session'[g].issued > 0 /\ session'[g].token \in session'[g].ended
    BY <2>0, <1>1, <1>4 DEF TokenInv
  <2> QED  BY <2>5, <2>6, <2>7, <1>0 DEF TokenInv
<1>6. revoked' \in SUBSET Flows
  BY <1>0 DEF IInv, Typed
<1> QED  BY <1>0, <1>1, <1>2, <1>3, <1>5, <1>6, TokensChange

LEMMA RevokeRowStep ==
    ASSUME IInv, NEW r \in Reqs, RevokeRow(r)
    PROVE  IInv'
<1> DEFINE f == req[r].flow
           s == session[f]
           n == [s EXCEPT !.ended = @ \cup {req[r].token}]
<1>0. /\ req[r].pc = "revoke"
      /\ session' = [session EXCEPT ![f].ended = @ \cup {req[r].token}]
      /\ revoked' = IF req[r].token \in s.ended THEN revoked ELSE revoked \cup {f}
      /\ Done(r) /\ UNCHANGED <<redis, held>>
      /\ UNCHANGED <<answered, shown, consented, outlived>>
  BY DEF RevokeRow
<1>1. /\ f \in Flows /\ s \in Session /\ s.issued > 0 /\ s.token \in Nat /\ req[r].token \in 1..s.token
      /\ req[r].token \notin s.ended => req[r].token = s.token
  BY <1>0, TokenFacts
<1>2. /\ n \in Session /\ n.issued = s.issued /\ n.user = s.user /\ n.scopes = s.scopes
      /\ n.token = s.token /\ n.ended = s.ended \cup {req[r].token}
  <2>1. req[r].token \in 0..MaxTokens
    BY DEF IInv, Typed, Req
  <2> QED  BY <1>1, <2>1 DEF Session
<1>3. session' = [session EXCEPT ![f] = n]
  BY <1>0, <1>1 DEF IInv, Typed
<1> HIDE DEF n
<1>4. session'[f] = n /\ \A g \in Flows : g # f => session'[g] = session[g]
  BY <1>1, <1>3 DEF IInv, Typed
<1>5. /\ revoked' \in SUBSET Flows
      /\ \A g \in revoked' : g \in revoked \/ (g = f /\ req[r].token = s.token)
  BY <1>0, <1>1 DEF IInv, Typed
<1>6. TokenInv'
  <2>0. TokenInv /\ revoked \in SUBSET Flows
    BY DEF IInv, Typed
  <2>1. \A t \in Reqs : req'[t].pc \in {"rotate", "revoke"} => req'[t] = req[t] /\ req[t].flow \in Flows
    <3>1. Updates(r, Idle)
      BY <1>0, IdleOK, UpdatesOK DEF Done
    <3> QED  BY <3>1, IdleOK DEF Updates, IInv, Carries
  <2>2. \A g \in Flows : /\ session'[g].issued = session[g].issued /\ session'[g].token = session[g].token
                         /\ session[g].ended \subseteq session'[g].ended
    BY <1>2, <1>4
  <2>3. ASSUME NEW t \in Reqs, req'[t].pc \in {"rotate", "revoke"}
        PROVE  session'[req'[t].flow].issued > 0 /\ req'[t].token \in 1..session'[req'[t].flow].token
    BY <2>0, <2>1, <2>2, <2>3 DEF TokenInv
  <2>4. \A g \in Flows : session'[g].issued > 0 =>
          session'[g].token > 0 /\ \A k \in 1..session'[g].token : k # session'[g].token => k \in session'[g].ended
    BY <2>0, <2>2 DEF TokenInv
  <2>5. \A g \in revoked' : session'[g].issued > 0 /\ session'[g].token \in session'[g].ended
    BY <2>0, <2>2, <1>1, <1>2, <1>4, <1>5 DEF TokenInv
  <2> QED  BY <2>3, <2>4, <2>5 DEF TokenInv
<1> QED  BY <1>0, <1>1, <1>2, <1>3, <1>5, <1>6, TokensChange
-----------------------------------------------------------------------------
(***************************************************************************)
(* What happens to the keys and the roles, with no request of its own.     *)
(***************************************************************************)
LEMMA HeldStep ==
    ASSUME IInv, UNCHANGED <<shared, req>>, held' \in [Users -> SUBSET Scopes]
    PROVE  IInv'
<1>1. /\ device' = device /\ uc' = uc /\ request' = request /\ session' = session
      /\ answered' = answered /\ shown' = shown /\ consented' = consented /\ outlived' = outlived
      /\ revoked' = revoked /\ req' = req
  BY DEF shared
<1> QED  BY <1>1 DEF IInv, Typed, SetUpInv, ClaimInv, ViewInv, TokenInv, OneAnswer, Live

\* An authorization request is stored, or its key expires; nobody is looking at one not stored.
LEMMA RequestKeyStep ==
    ASSUME IInv, NEW i \in Ids, request[i].status # "gone", NEW status \in {"open", "gone"},
           request' = [request EXCEPT ![i].status = status],
           UNCHANGED <<device, uc, held, session, req, answered, shown, consented, outlived, revoked>>
    PROVE  IInv'
<1>1. /\ request' \in [Ids -> Stored] /\ request'[i].status = status
      /\ \A j \in Ids : request'[j].viewer = request[j].viewer /\ (j # i => request'[j] = request[j])
  BY DEF IInv, Typed, Stored
<1>2. Typed' /\ \A r \in Reqs : Carries(req'[r])
  BY <1>1 DEF IInv, Typed
<1>3. SetUpInv' /\ ClaimInv' /\ TokenInv' /\ OneAnswer'
  BY DEF IInv, SetUpInv, ClaimInv, TokenInv, OneAnswer, Live
<1>4. ViewInv'
  <2>1. /\ \A r \in Reqs : req[r].pc \in {"viewer", "take", "answer"} => req[r].id \in Ids
        /\ \A a \in shown : a.grant \in Ids
        /\ ViewInv
    BY DEF IInv, Carries, Typed
  <2>2. \A j \in Ids : request[j].status = "gone" => request'[j].status = "gone"
    BY <1>1
  <2> QED  BY <2>1, <2>2, <1>1 DEF ViewInv
<1> QED  BY <1>2, <1>3, <1>4 DEF IInv

LEMMA ExpireStep ==
    ASSUME IInv, Expire
    PROVE  IInv'
<1>0. /\ held' = held /\ session' = session /\ req' = req /\ answered' = answered
      /\ shown' = shown /\ consented' = consented /\ revoked' = revoked
  BY DEF Expire
<1>1. ASSUME NEW c \in UserCodes, uc[c] # None, uc' = [uc EXCEPT ![c] = None],
             outlived' = outlived \cup {uc[c]}, device' = device, request' = request
      PROVE  IInv'
  <2>1. outlived' = outlived \cup ({uc[c]} \ {None})
    BY <1>1
  <2>2. SetUpInv' /\ uc' \in [UserCodes -> Flows \cup {None}]
    BY <2>1, <1>0, <1>1, CodeGone
  <2> QED  BY <2>2, <1>0, <1>1 DEF IInv, Typed, ClaimInv, ViewInv, TokenInv, OneAnswer
<1>2. ASSUME NEW f \in Flows, Live(f), device' = [device EXCEPT ![f] = [NoEntry EXCEPT !.status = "gone"]],
             uc' = uc, request' = request, outlived' = outlived
      PROVE  IInv'
  <2>1. /\ device' \in [Flows -> Entry] /\ device'[f].status = "gone"
        /\ \A g \in Flows : g # f => device'[g] = device[g]
    BY <1>2, GoneOK DEF IInv, Typed
  <2>2. Typed' /\ \A r \in Reqs : Carries(req'[r])
    BY <2>1, <1>0, <1>2 DEF IInv, Typed
  <2>3. SetUpInv'
    <3>1. SetUpInv /\ device[f].status # "none"
      BY <1>2 DEF IInv, Live
    <3>2. \A r \in Reqs : SetsUp(req[r]) => req[r].flow \in Flows \ {f}
      BY <3>1 DEF IInv, Carries, SetsUp, SetUpInv
    <3> QED  BY <3>1, <3>2, <2>1, <1>0, <1>2 DEF SetUpInv, Live
  <2>4. ClaimInv'
    <3>1. ClaimInv /\ \A r \in Reqs : Polls(req[r]) \/ Won(req[r]) \/ req[r].pc = "clear" => req[r].flow \in Flows
      BY DEF IInv, Carries, Polls, Won
    <3>2. \A r \in Reqs : /\ Polls(req[r]) => device'[req[r].flow].status \in {"authorized", "gone"}
                          /\ Won(req[r]) => device'[req[r].flow].status = "gone"
                          /\ req[r].pc = "clear" => device'[req[r].flow].status \in {"denied", "gone"}
      BY <3>1, <2>1 DEF ClaimInv
    <3>3. \A g \in Flows : /\ device'[g].status = "authorized" => device'[g] = device[g]
                           /\ session[g].issued > 0 => device'[g].status = "gone"
                           /\ device[g].status \in {"authorized", "denied", "gone"} =>
                                device'[g].status \in {"authorized", "denied", "gone"}
      BY <3>1, <2>1 DEF ClaimInv
    <3> QED  BY <3>1, <3>2, <3>3, <1>0 DEF ClaimInv
  <2>5. ViewInv' /\ TokenInv' /\ OneAnswer'
    BY <1>0, <1>2 DEF IInv, ViewInv, TokenInv, OneAnswer
  <2> QED  BY <2>2, <2>3, <2>4, <2>5 DEF IInv
<1>3. CASE UNCHANGED <<device, uc, request, outlived>>
  BY <1>0, <1>3, HeldStep DEF shared, IInv, Typed
<1>4. ASSUME NEW i \in Ids, request[i].status = "open", request' = [request EXCEPT ![i].status = "gone"],
             UNCHANGED <<device, uc, scan, outlived>>
      PROVE  IInv'
  BY <1>0, <1>4, RequestKeyStep
<1> QED  BY <1>1, <1>2, <1>3, <1>4 DEF Expire

LEMMA InvStep == IInv /\ [Next]_vars => IInv'
<1> SUFFICES ASSUME IInv, [Next]_vars PROVE IInv'
  OBVIOUS
<1>1. CASE UNCHANGED vars
  BY <1>1, HeldStep DEF vars, shared, IInv, Typed
<1>2. ASSUME NEW r \in Reqs, NEW c \in Clients, NEW f \in Flows,
             \/ \E asked \in RequestedScopes : PostDeviceAuthorization(r, c, f, asked)
             \/ PostToken(r, c, f) \/ PostRevoke(r, c, f)
      PROVE  IInv'
  <2>1. ASSUME NEW asked \in RequestedScopes, PostDeviceAuthorization(r, c, f, asked) PROVE IInv'
    BY <2>1, DeviceAuthorizationStep
  <2>2. CASE PostToken(r, c, f)
    BY <2>2, DeviceGrantStep, FindTokenStep DEF PostToken, Token, RefreshGrant
  <2>3. CASE PostRevoke(r, c, f)
    BY <2>3, FindTokenStep DEF PostRevoke, Revoke
  <2> QED  BY <1>2, <2>1, <2>2, <2>3
<1>3. ASSUME NEW r \in Reqs, NEW u \in Users, NEW c \in UserCodes,
             DescribeDevice(r, u, c) \/ VerifyDevice(r, u, c)
      PROVE  IInv'
  BY <1>3, DescribeDeviceStep, VerifyDeviceStep
<1>4. ASSUME NEW r \in Reqs, NEW u \in Users, NEW i \in Ids,
             DescribeRequest(r, u, i) \/ ApproveRequest(r, u, i) \/ DenyRequest(r, u, i)
      PROVE  IInv'
  BY <1>4, LoadRequestStep DEF DescribeRequest, ApproveRequest, DenyRequest
<1>5. ASSUME NEW r \in Reqs,
             \/ (\E c \in UserCodes : Reserve(r, c)) \/ Initiate(r)
             \/ Describe(r) \/ Verify(r) \/ VerifyGuard(r) \/ UpdateStatusLoad(r) \/ UpdateStatus(r)
             \/ Poll(r) \/ PollDenied(r) \/ PollClaim(r) \/ PollForget(r) \/ PollIssue(r)
             \/ ClaimRequest(r) \/ TakeRequest(r) \/ AnswerRequest(r)
             \/ RefreshRotate(r) \/ RevokeRow(r) \/ Drop(r)
      PROVE  IInv'
  BY <1>5, ReserveStep, InitiateStep, DescribeStep, VerifyStep, UpdateStatusLoadStep, UpdateStatusStep,
     PollStep, PollDeniedStep, PollClaimStep, PollForgetStep, PollIssueStep, ClaimRequestStep,
     TakeRequestStep, AnswerRequestStep, RefreshRotateStep, RevokeRowStep, DropStep
<1>6. ASSUME NEW i \in Ids, Authorize(i) PROVE IInv'
  BY <1>6, RequestKeyStep DEF Authorize, StartAuthorization, history
<1>7. ASSUME NEW u \in Users, NEW s \in SUBSET Scopes, ChangeHeld(u, s) PROVE IInv'
  <2>1. held' \in [Users -> SUBSET Scopes]
    BY <1>7 DEF ChangeHeld, IInv, Typed
  <2> QED  BY <1>7, <2>1, HeldStep DEF ChangeHeld, redis, history, shared
<1>8. CASE Expire
  BY <1>8, ExpireStep
<1> QED  BY <1>1, <1>2, <1>3, <1>4, <1>5, <1>6, <1>7, <1>8 DEF Next

LEMMA Invariance == Spec => []IInv
BY InitOK, InvStep, PTL DEF Spec
-----------------------------------------------------------------------------
LEMMA ApprovedInv == IInv => SessionIsWhatWasApproved
<1> SUFFICES ASSUME IInv PROVE SessionIsWhatWasApproved
  OBVIOUS
<1>1. ASSUME NEW f \in Flows, session[f].issued > 0
      PROVE  /\ session[f].issued = 1
             /\ [grant |-> f, op |-> "authorized", user |-> session[f].user] \in answered
             /\ session[f].scopes \subseteq consented[f] \cup {None}
  BY <1>1 DEF IInv, ClaimInv, Approved
<1>2. ASSUME NEW f \in Flows \ outlived, NEW g \in Flows \ outlived, f # g, Live(f), Live(g)
      PROVE  device[f].code # device[g].code
  <2>1. uc[device[f].code] = f /\ uc[device[g].code] = g
    BY <1>2 DEF IInv, SetUpInv
  <2> QED  BY <1>2, <2>1
<1> QED  BY <1>1, <1>2 DEF SessionIsWhatWasApproved

LEMMA FinalInv == IInv => DecisionIsFinal
<1> SUFFICES ASSUME IInv PROVE DecisionIsFinal
  OBVIOUS
<1>1. ASSUME NEW i \in Ids
      PROVE  Cardinality({a.user : a \in {b \in shown \cup answered : b.grant = i}}) <= 1
  <2> DEFINE S == {a.user : a \in {b \in shown \cup answered : b.grant = i}}
             v == request[i].viewer
  <2>1. S \subseteq {v}
    BY DEF IInv, ViewInv
  <2>2. IsFiniteSet({v}) /\ Cardinality({v}) = 1
    BY FS_Singleton
  <2>3. IsFiniteSet(S) /\ Cardinality(S) <= Cardinality({v})
    BY <2>1, <2>2, FS_Subset
  <2> QED  BY <2>2, <2>3
<1> QED  BY <1>1 DEF DecisionIsFinal, IInv, OneAnswer

(***************************************************************************)
(* For any number of users, devices and polls: an approval opens one       *)
(* session at most, the approver's and with no permission the approver did *)
(* not hold, and no two live flows share a user code unless one outlived   *)
(* its own (device.rs).                                                    *)
(***************************************************************************)
THEOREM SessionApproved == Spec => []SessionIsWhatWasApproved
BY Invariance, ApprovedInv, PTL

(***************************************************************************)
(* However many decide at once on one device or one authorization request, *)
(* one author is told theirs stands, and a request is shown to and decided *)
(* by its first viewer alone (device.rs, oauth.rs).                        *)
(***************************************************************************)
THEOREM FinalDecision == Spec => []DecisionIsFinal
BY Invariance, FinalInv, PTL

(***************************************************************************)
(* A grant whose latest refresh token the client revoked has no active     *)
(* token again, whatever refreshes had read the row before (oauth.rs,      *)
(* session.rs).                                                            *)
(***************************************************************************)
THEOREM RevocationEnds == Spec => []RevocationEndsTheGrant
<1>1. IInv => RevocationEndsTheGrant
  BY DEF IInv, TokenInv, RevocationEndsTheGrant, Introspects
<1> QED  BY <1>1, Invariance, PTL
=============================================================================
