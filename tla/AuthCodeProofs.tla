--------------------------- MODULE AuthCodeProofs ---------------------------
(***************************************************************************)
(* For any number of codes, clients and handlers, and any size of the      *)
(* pool: a code answers one set of tokens at most, a replay that was dealt *)
(* with leaves no session, and a client's limit holds.                     *)
(*                                                                         *)
(* The row lock of the code makes its redemptions take turns, and the one  *)
(* that goes on has the code unconsumed until it commits; the advisory     *)
(* lock does the same for the sessions of a client between the count and   *)
(* the session it allowed.                                                 *)
(***************************************************************************)
EXTENDS AuthCode, FiniteSetTheorems, TLAPS

\* What each step of a handler carries.
Carries(q) ==
    /\ q.pc # "idle" => q.client \in Clients
    /\ q.kind = "device" => q.code = None
    /\ q.kind = "code" /\ q.pc # "idle" => q.code \in Codes
    /\ q.pc \in {"consume", "checks", "burn", "find", "revoke"} => q.kind = "code"
    /\ q.pc \in {"consume", "checks", "lock"} => ~q.locked
    /\ q.pc \in {"count", "issue", "attach"} => q.locked
    /\ q.pc \in {"attach", "revoke"} => q.sess \in SessionIds

\* The advisory lock: one handler at a time between the count and its session.
CountIn(ss, cl) == Cardinality({s \in SessionIds : ss[s].client = cl /\ ss[s].alive})
HoldsClient(q) == q.pc \in ClientHeld /\ q.locked
LockInv ==
    /\ \A r, x \in Reqs : r # x /\ HoldsClient(req[r]) /\ HoldsClient(req[x]) => req[r].client # req[x].client
    /\ \A r \in Reqs : req[r].pc = "issue" => CountIn(sess, req[r].client) < Limit
    /\ \A cl \in Clients : CountIn(sess, cl) <= Limit

\* The sessions that are open, which are finitely many.
Open(ss) == {s \in SessionIds : ss[s].alive}
OpenInv == IsFiniteSet(Open(sess))

\* The row lock: one handler at a time holds a code, stored and not consumed.
HoldsCode(q) == q.kind = "code" /\ q.pc \in CodeHeld
CodeInv ==
    /\ \A r \in Reqs : HoldsCode(req[r]) => code[req[r].code].state = "stored" /\ ~code[req[r].code].consumed
    /\ \A r, x \in Reqs : r # x /\ HoldsCode(req[r]) /\ HoldsCode(req[x]) => req[r].code # req[x].code

\* The session a handler opened is its own, and nobody has its tokens yet.
IssueInv ==
    /\ \A r \in Reqs : req[r].pc = "attach" =>
         /\ sess[req[r].sess].client # None /\ sess[req[r].sess].code = req[r].code
         /\ req[r].sess \notin delivered
    /\ \A r, x \in Reqs : r # x /\ req[r].pc = "attach" /\ req[x].pc = "attach" => req[r].sess # req[x].sess

\* The tokens of a code are those of the session it names; a refused one names none.
DeliverInv ==
    /\ \A s \in delivered : sess[s].client # None
    /\ \A s \in delivered : sess[s].code # None => code[sess[s].code].sess = s
    /\ \A c \in refused : code[c].consumed /\ code[c].sess = None

\* A replay revokes the session the code names.
ReplayInv ==
    /\ \A c \in replayed : code[c].consumed
    /\ \A r \in Reqs : req[r].pc = "revoke" => code[req[r].code].consumed /\ code[req[r].code].sess = req[r].sess
    /\ ReplayEndsTheSession

IInv ==
    /\ TypeOK /\ \A r \in Reqs : Carries(req[r])
    /\ LockInv /\ OpenInv /\ CodeInv /\ IssueInv /\ DeliverInv /\ ReplayInv
-----------------------------------------------------------------------------
Row == [state: {"none", "stored", "swept"}, consumed: BOOLEAN, sess: SessionIds \cup {None}]
Sess == [client: Clients \cup {None}, code: Codes \cup {None}, alive: BOOLEAN]

LEMMA IdleOK == Idle \in Req /\ Idle.pc = "idle" /\ Idle.kind = "code" /\ Carries(Idle)
BY DEF Idle, Req, Presenters, Carries

LEMMA InitOK == Init => IInv
<1> SUFFICES ASSUME Init PROVE IInv
  OBVIOUS
<1>1. req \in [Reqs -> Req] /\ \A r \in Reqs : Carries(req[r]) /\ req[r].pc = "idle"
  BY IdleOK DEF Init
<1>2. TypeOK
  BY <1>1 DEF Init, TypeOK
<1>3. Open(sess) = {} /\ \A cl \in Clients : {s \in SessionIds : sess[s].client = cl /\ sess[s].alive} = {}
  BY DEF Init, Open
<1>4. IsFiniteSet({}) /\ Cardinality({}) = 0
  BY FS_EmptySet
<1>5. OpenInv /\ \A cl \in Clients : CountIn(sess, cl) <= Limit
  BY <1>3, <1>4, AuthCodeAssumption DEF OpenInv, CountIn
<1>6. LockInv
  BY <1>1, <1>5 DEF LockInv, HoldsClient, ClientHeld
<1>7. CodeInv /\ IssueInv
  BY <1>1 DEF CodeInv, HoldsCode, CodeHeld, IssueInv
<1>8. DeliverInv /\ ReplayInv
  BY <1>1 DEF Init, DeliverInv, ReplayInv, ReplayEndsTheSession
<1> QED  BY <1>1, <1>2, <1>5, <1>6, <1>7, <1>8 DEF IInv
-----------------------------------------------------------------------------
(***************************************************************************)
(* Counting the sessions of a client.                                      *)
(***************************************************************************)
LEMMA CountFewer ==
    ASSUME NEW ss, NEW tt, IsFiniteSet(Open(ss)), NEW cl,
           \A s \in SessionIds : tt[s].alive => ss[s].alive /\ tt[s].client = ss[s].client
    PROVE  IsFiniteSet(Open(tt)) /\ CountIn(tt, cl) <= CountIn(ss, cl) /\ CountIn(ss, cl) \in Nat
<1> DEFINE S == {s \in SessionIds : ss[s].client = cl /\ ss[s].alive}
           T == {s \in SessionIds : tt[s].client = cl /\ tt[s].alive}
<1>1. Open(tt) \subseteq Open(ss) /\ S \subseteq Open(ss) /\ T \subseteq S
  BY DEF Open
<1>2. IsFiniteSet(Open(tt)) /\ IsFiniteSet(S)
  BY <1>1, FS_Subset
<1>3. Cardinality(T) <= Cardinality(S) /\ Cardinality(S) \in Nat
  BY <1>1, <1>2, FS_Subset, FS_CardinalityType
<1> QED  BY <1>2, <1>3 DEF CountIn

\* One session more, of a client that had not reached its limit.
LEMMA CountOneMore ==
    ASSUME NEW ss, NEW tt, IsFiniteSet(Open(ss)), NEW s \in SessionIds, NEW cl,
           \A x \in SessionIds : x # s => tt[x] = ss[x], tt[s].client # cl \/ CountIn(ss, cl) < Limit,
           CountIn(ss, cl) <= Limit, ~(ss[s].alive /\ ss[s].client = cl)
    PROVE  IsFiniteSet(Open(tt)) /\ CountIn(tt, cl) <= Limit
                                 /\ (tt[s].client # cl => CountIn(tt, cl) = CountIn(ss, cl))
<1> DEFINE S == {x \in SessionIds : ss[x].client = cl /\ ss[x].alive}
           T == {x \in SessionIds : tt[x].client = cl /\ tt[x].alive}
<1>1. Open(tt) \subseteq Open(ss) \cup {s} /\ S \subseteq Open(ss) /\ T \subseteq S \cup {s} /\ s \notin S
  BY DEF Open
<1>2. IsFiniteSet(Open(ss) \cup {s}) /\ IsFiniteSet(S)
  BY <1>1, FS_Subset, FS_AddElement
<1>3. IsFiniteSet(S \cup {s}) /\ Cardinality(S \cup {s}) = Cardinality(S) + 1 /\ Cardinality(S) \in Nat
  BY <1>1, <1>2, FS_AddElement, FS_CardinalityType
<1>4. IsFiniteSet(Open(tt)) /\ IsFiniteSet(T) /\ Cardinality(T) <= Cardinality(S \cup {s}) /\ Cardinality(T) \in Nat
  BY <1>1, <1>2, <1>3, FS_Subset, FS_CardinalityType
<1>5. CASE tt[s].client # cl
  <2>1. T = S
    BY <1>1, <1>5
  <2> QED  BY <2>1, <1>4 DEF CountIn
<1>6. CASE tt[s].client = cl
  <2>1. Cardinality(S) < Limit
    BY <1>6 DEF CountIn
  <2>2. Cardinality(T) <= Limit
    BY <2>1, <1>3, <1>4, AuthCodeAssumption
  <2> QED  BY <2>2, <1>4, <1>6 DEF CountIn
<1> QED  BY <1>5, <1>6
-----------------------------------------------------------------------------
(***************************************************************************)
(* A step of one handler, and the parts of the invariant it leaves.        *)
(***************************************************************************)
Updates(r, q) == /\ req' \in [Reqs -> Req] /\ req'[r] = q
                 /\ \A x \in Reqs : x # r => req'[x] = req[x]

LEMMA UpdatesOK ==
    ASSUME IInv, NEW r \in Reqs, NEW q \in Req, Carries(q), SetReq(r, q)
    PROVE  Updates(r, q) /\ \A x \in Reqs : Carries(req'[x])
BY DEF IInv, TypeOK, Updates, SetReq

\* The locks a handler has in its next step it had before, or nobody has.
KeepsClient(r, q) == HoldsClient(q) =>
    \/ HoldsClient(req[r]) /\ q.client = req[r].client
    \/ \A x \in Reqs \ {r} : HoldsClient(req[x]) => req[x].client # q.client
KeepsCode(r, q) == HoldsCode(q) =>
    \/ HoldsCode(req[r]) /\ q.code = req[r].code
    \/ /\ code[q.code].state = "stored" /\ ~code[q.code].consumed
       /\ \A x \in Reqs \ {r} : HoldsCode(req[x]) => req[x].code # q.code

LEMMA LockKept ==
    ASSUME IInv, NEW r \in Reqs, NEW q \in Req, Updates(r, q), KeepsClient(r, q), sess' = sess,
           q.pc = "issue" => CountIn(sess, q.client) < Limit
    PROVE  LockInv' /\ OpenInv'
<1>0. LockInv /\ OpenInv
  BY DEF IInv
<1>1. OpenInv'
  BY <1>0 DEF OpenInv
<1>2. ASSUME NEW x \in Reqs, NEW y \in Reqs, x # y, HoldsClient(req'[x]), HoldsClient(req'[y])
      PROVE  req'[x].client # req'[y].client
  BY <1>0, <1>2 DEF LockInv, Updates, KeepsClient
<1>3. \A x \in Reqs : req'[x].pc = "issue" => CountIn(sess', req'[x].client) < Limit
  BY <1>0 DEF LockInv, Updates
<1> QED  BY <1>0, <1>1, <1>2, <1>3 DEF LockInv

LEMMA CodeKept ==
    ASSUME IInv, NEW r \in Reqs, NEW q \in Req, Updates(r, q), KeepsCode(r, q), code' = code
    PROVE  CodeInv'
<1>0. CodeInv
  BY DEF IInv
<1>1. ASSUME NEW x \in Reqs, NEW y \in Reqs, x # y, HoldsCode(req'[x]), HoldsCode(req'[y])
      PROVE  req'[x].code # req'[y].code
  BY <1>0, <1>1 DEF CodeInv, Updates, KeepsCode
<1>2. ASSUME NEW x \in Reqs, HoldsCode(req'[x])
      PROVE  code[req'[x].code].state = "stored" /\ ~code[req'[x].code].consumed
  BY <1>0, <1>2 DEF CodeInv, Updates, KeepsCode
<1> QED  BY <1>1, <1>2 DEF CodeInv

LEMMA IssueKept ==
    ASSUME IInv, NEW r \in Reqs, NEW q \in Req, Updates(r, q), q.pc # "attach",
           UNCHANGED <<sess, delivered>>
    PROVE  IssueInv'
BY DEF IInv, IssueInv, Updates

\* Only the handler moves on; what is said of replays is left to show.
LEMMA ReqMovesBut ==
    ASSUME IInv, NEW r \in Reqs, NEW q \in Req, Carries(q), SetReq(r, q),
           UNCHANGED <<pool, code, expired, sess, delivered, refused>>, replayed' \subseteq Codes,
           KeepsClient(r, q), KeepsCode(r, q), q.pc # "attach",
           q.pc = "issue" => CountIn(sess, q.client) < Limit,
           ReplayInv'
    PROVE  IInv'
<1>1. Updates(r, q) /\ \A x \in Reqs : Carries(req'[x])
  BY UpdatesOK
<1>2. TypeOK'
  BY <1>1 DEF IInv, TypeOK, Updates
<1>3. LockInv' /\ OpenInv'
  BY <1>1, LockKept
<1>4. CodeInv'
  BY <1>1, CodeKept
<1>5. IssueInv'
  BY <1>1, IssueKept
<1>6. DeliverInv'
  BY DEF IInv, DeliverInv
<1> QED  BY <1>1, <1>2, <1>3, <1>4, <1>5, <1>6 DEF IInv

LEMMA ReqMoves ==
    ASSUME IInv, NEW r \in Reqs, NEW q \in Req, Carries(q), SetReq(r, q),
           UNCHANGED <<pool, code, expired, sess, delivered, refused, replayed>>,
           KeepsClient(r, q), KeepsCode(r, q), q.pc # "attach",
           q.pc = "issue" => CountIn(sess, q.client) < Limit,
           q.pc = "revoke" => code[q.code].consumed /\ code[q.code].sess = q.sess
    PROVE  IInv'
<1>1. Updates(r, q)
  BY UpdatesOK
<1>2. ReplayInv' /\ replayed' \subseteq Codes
  BY <1>1 DEF IInv, TypeOK, ReplayInv, ReplayEndsTheSession, Updates
<1> QED  BY <1>2, ReqMovesBut

LEMMA GotoOK ==
    ASSUME IInv, NEW r \in Reqs, NEW step \in TxSteps \cup {"find", "revoke"}, Goto(r, step)
    PROVE  \E q \in Req : /\ SetReq(r, q) /\ q.pc = step /\ q.kind = req[r].kind /\ q.code = req[r].code
                          /\ q.client = req[r].client /\ q.locked = req[r].locked /\ q.sess = req[r].sess
<1> DEFINE q == [req[r] EXCEPT !.pc = step]
<1>1. req[r] \in Req
  BY DEF IInv, TypeOK
<1>2. /\ q \in Req /\ q.pc = step /\ q.kind = req[r].kind /\ q.code = req[r].code
      /\ q.client = req[r].client /\ q.locked = req[r].locked /\ q.sess = req[r].sess
  BY <1>1 DEF Req
<1>3. SetReq(r, q)
  BY DEF Goto
<1> QED  BY <1>2, <1>3

LEMMA DoneStep ==
    ASSUME IInv, NEW r \in Reqs, SetReq(r, Idle),
           UNCHANGED <<pool, code, expired, sess, delivered, refused, replayed>>
    PROVE  IInv'
BY IdleOK, ReqMoves DEF KeepsClient, KeepsCode, HoldsClient, HoldsCode, ClientHeld, CodeHeld

\* The handler goes on within its transaction, or leaves it to look for a replay.
LEMMA GotoStep ==
    ASSUME IInv, NEW r \in Reqs, NEW step \in {"lock", "burn", "find"}, Goto(r, step), req[r].kind = "code",
           req[r].pc \in {"checks", "count", "consume"}, step = "lock" => req[r].pc = "checks",
           req[r].pc = "consume" => step = "find",
           UNCHANGED <<pool, code, expired, sess, delivered, refused, replayed>>
    PROVE  IInv'
<1>1. step \in TxSteps \cup {"find", "revoke"} /\ Carries(req[r])
  BY DEF TxSteps, IInv
<1>2. PICK q \in Req : /\ SetReq(r, q) /\ q.pc = step /\ q.kind = req[r].kind /\ q.code = req[r].code
                       /\ q.client = req[r].client /\ q.locked = req[r].locked /\ q.sess = req[r].sess
  BY <1>1, GotoOK
<1>3. Carries(q)
  BY <1>1, <1>2 DEF Carries
<1>4. KeepsClient(r, q)
  BY <1>1, <1>2 DEF KeepsClient, HoldsClient, ClientHeld, Carries
<1>5. KeepsCode(r, q)
  BY <1>1, <1>2 DEF KeepsCode, HoldsCode, CodeHeld
<1> QED  BY <1>2, <1>3, <1>4, <1>5, ReqMoves

LEMMA RedeemBeginStep ==
    ASSUME IInv, NEW r \in Reqs, RedeemBegin(r)
    PROVE  IInv'
<1>1. PICK c \in Codes, by \in Presenters :
         /\ SetReq(r, [Idle EXCEPT !.pc = "consume", !.code = c, !.client = ClientOf[c],
                                   !.by = by, !.live = c \notin expired])
         /\ UNCHANGED <<pool, code, expired, sess, delivered, refused, replayed>>
  BY DEF RedeemBegin
<1> DEFINE q == [Idle EXCEPT !.pc = "consume", !.code = c, !.client = ClientOf[c],
                             !.by = by, !.live = c \notin expired]
<1>2. /\ q \in Req /\ q.pc = "consume" /\ q.kind = "code" /\ q.code \in Codes /\ q.client \in Clients
      /\ q.locked = FALSE
  BY AuthCodeAssumption DEF Idle, Req, TxSteps
<1>3. SetReq(r, q)
  BY <1>1
<1> HIDE DEF q
<1>4. Carries(q)
  BY <1>2 DEF Carries
<1>5. KeepsClient(r, q) /\ KeepsCode(r, q)
  BY <1>2 DEF KeepsClient, HoldsClient, ClientHeld, KeepsCode, HoldsCode, CodeHeld
<1> QED  BY <1>1, <1>2, <1>3, <1>4, <1>5, ReqMoves

LEMMA DeviceBeginStep ==
    ASSUME IInv, NEW r \in Reqs, DeviceBegin(r)
    PROVE  IInv'
<1>1. PICK cl \in Clients :
         /\ SetReq(r, [Idle EXCEPT !.pc = "lock", !.kind = "device", !.client = cl])
         /\ UNCHANGED <<pool, code, expired, sess, delivered, refused, replayed>>
  BY DEF DeviceBegin
<1> DEFINE q == [Idle EXCEPT !.pc = "lock", !.kind = "device", !.client = cl]
<1>2. q \in Req /\ q.pc = "lock" /\ q.kind = "device" /\ q.code = None /\ q.client \in Clients /\ q.locked = FALSE
  BY DEF Idle, Req, TxSteps, Presenters
<1>3. SetReq(r, q)
  BY <1>1
<1> HIDE DEF q
<1>4. Carries(q)
  BY <1>2 DEF Carries
<1>5. KeepsClient(r, q) /\ KeepsCode(r, q)
  BY <1>2 DEF KeepsClient, HoldsClient, ClientHeld, KeepsCode, HoldsCode, CodeHeld
<1> QED  BY <1>1, <1>2, <1>3, <1>4, <1>5, ReqMoves

\* The row is free: the code is this handler's from here.
LEMMA RedeemConsumeStep ==
    ASSUME IInv, NEW r \in Reqs, RedeemConsume(r)
    PROVE  IInv'
<1>0. /\ req[r].pc = "consume" /\ ~CodeLocked(r, req[r].code) /\ Carries(req[r])
      /\ UNCHANGED <<pool, code, expired, sess, delivered, refused, replayed>>
  BY DEF RedeemConsume, IInv
<1>1. req[r].kind = "code" /\ req[r].code \in Codes /\ ~req[r].locked
  BY <1>0 DEF Carries
<1>2. CASE Goto(r, "find")
  BY <1>0, <1>1, <1>2, GotoStep
<1>3. ASSUME NEW step \in {"checks", "burn"}, Goto(r, step),
             code[req[r].code].state = "stored", ~code[req[r].code].consumed
      PROVE  IInv'
  <2>1. step \in TxSteps \cup {"find", "revoke"}
    BY DEF TxSteps
  <2>2. PICK q \in Req : /\ SetReq(r, q) /\ q.pc = step /\ q.kind = req[r].kind /\ q.code = req[r].code
                         /\ q.client = req[r].client /\ q.locked = req[r].locked /\ q.sess = req[r].sess
    BY <1>3, <2>1, GotoOK
  <2>3. Carries(q) /\ KeepsClient(r, q)
    BY <1>0, <1>1, <2>2 DEF Carries, KeepsClient, HoldsClient
  <2>4. KeepsCode(r, q)
    BY <1>0, <1>3, <2>2 DEF KeepsCode, HoldsCode, CodeLocked
  <2> QED  BY <1>0, <2>2, <2>3, <2>4, ReqMoves
<1> QED  BY <1>2, <1>3 DEF RedeemConsume

LEMMA RedeemChecksStep ==
    ASSUME IInv, NEW r \in Reqs, RedeemChecks(r)
    PROVE  IInv'
<1>1. req[r].kind = "code" /\ req[r].pc = "checks"
  BY DEF RedeemChecks, IInv, Carries
<1> QED  BY <1>1, GotoStep DEF RedeemChecks

\* The client is free: its sessions are this handler's to count from here.
LEMMA RedeemLockStep ==
    ASSUME IInv, NEW r \in Reqs, RedeemLock(r)
    PROVE  IInv'
<1> DEFINE q == [req[r] EXCEPT !.pc = "count", !.locked = TRUE]
<1>0. /\ req[r].pc = "lock" /\ ~ClientLocked(r, req[r].client) /\ Carries(req[r]) /\ req[r] \in Req
      /\ SetReq(r, q) /\ UNCHANGED <<pool, code, expired, sess, delivered, refused, replayed>>
  BY DEF RedeemLock, IInv, TypeOK
<1>1. /\ q \in Req /\ q.pc = "count" /\ q.kind = req[r].kind /\ q.code = req[r].code
      /\ q.client = req[r].client /\ q.locked = TRUE
  BY <1>0 DEF Req, TxSteps
<1> HIDE DEF q
<1>2. Carries(q)
  BY <1>0, <1>1 DEF Carries
<1>3. KeepsClient(r, q)
  BY <1>0, <1>1 DEF KeepsClient, HoldsClient, ClientLocked
<1>4. KeepsCode(r, q)
  BY <1>0, <1>1 DEF KeepsCode, HoldsCode, CodeHeld
<1> QED  BY <1>0, <1>1, <1>2, <1>3, <1>4, ReqMoves

LEMMA RedeemCountStep ==
    ASSUME IInv, NEW r \in Reqs, RedeemCount(r)
    PROVE  IInv'
<1>0. /\ req[r].pc = "count" /\ Carries(req[r])
      /\ UNCHANGED <<pool, code, expired, sess, delivered, refused, replayed>>
  BY DEF RedeemCount, IInv
<1>1. CASE SetReq(r, Idle)
  BY <1>0, <1>1, DoneStep
<1>2. CASE req[r].kind = "code" /\ Goto(r, "burn")
  BY <1>0, <1>2, GotoStep
<1>3. CASE SessionAllowance(req[r].client) /\ Goto(r, "issue")
  <2>1. PICK q \in Req : /\ SetReq(r, q) /\ q.pc = "issue" /\ q.kind = req[r].kind /\ q.code = req[r].code
                         /\ q.client = req[r].client /\ q.locked = req[r].locked /\ q.sess = req[r].sess
    <3>1. "issue" \in TxSteps \cup {"find", "revoke"}
      BY DEF TxSteps
    <3> QED  BY <1>3, <3>1, GotoOK
  <2>2. Carries(q)
    BY <1>0, <2>1 DEF Carries
  <2>3. KeepsClient(r, q) /\ KeepsCode(r, q)
    BY <1>0, <2>1 DEF KeepsClient, HoldsClient, ClientHeld, KeepsCode, HoldsCode, CodeHeld
  <2>4. CountIn(sess, q.client) < Limit
    BY <1>3, <2>1 DEF SessionAllowance, count_active_by_client, CountIn
  <2> QED  BY <1>0, <2>1, <2>2, <2>3, <2>4, ReqMoves
<1> QED  BY <1>1, <1>2, <1>3 DEF RedeemCount

\* The session opened is within the limit: nobody else could open one since the count.
LEMMA RedeemIssueStep ==
    ASSUME IInv, NEW r \in Reqs, RedeemIssue(r)
    PROVE  IInv'
<1>0. req[r].pc = "issue" /\ Carries(req[r]) /\ req[r] \in Req /\ TypeOK
  BY DEF RedeemIssue, IInv, TypeOK
<1>1. req[r].client \in Clients /\ req[r].client # None /\ req[r].locked /\ req[r].code \in Codes \cup {None}
  BY <1>0, AuthCodeAssumption DEF Carries, Req
<1>2. PICK s \in SessionIds :
         /\ sess[s].client = None
         /\ sess' = [sess EXCEPT ![s] = [client |-> req[r].client, code |-> req[r].code, alive |-> TRUE]]
         /\ SetReq(r, [req[r] EXCEPT !.pc = "attach", !.sess = s])
         /\ UNCHANGED <<pool, code, expired, delivered, refused, replayed>>
  BY DEF RedeemIssue
<1> DEFINE q == [req[r] EXCEPT !.pc = "attach", !.sess = s]
<1>3. /\ q \in Req /\ q.pc = "attach" /\ q.sess = s /\ q.kind = req[r].kind /\ q.code = req[r].code
      /\ q.client = req[r].client /\ q.locked = req[r].locked
  BY <1>0 DEF Req, TxSteps
<1>4. SetReq(r, q)
  BY <1>2
<1> HIDE DEF q
<1>5. Carries(q)
  BY <1>0, <1>3 DEF Carries
<1>6. Updates(r, q) /\ \A x \in Reqs : Carries(req'[x])
  BY <1>3, <1>4, <1>5, UpdatesOK
<1>7. /\ sess' \in [SessionIds -> Sess]
      /\ sess'[s].client = req[r].client /\ sess'[s].code = req[r].code /\ sess'[s].alive
      /\ \A x \in SessionIds : x # s => sess'[x] = sess[x]
  BY <1>0, <1>1, <1>2 DEF TypeOK, Sess
<1>8. TypeOK'
  BY <1>0, <1>2, <1>6, <1>7 DEF TypeOK, Sess, Updates
<1>9. LockInv' /\ OpenInv'
  <2>0. LockInv /\ OpenInv /\ HoldsClient(req[r]) /\ HoldsClient(q)
    BY <1>0, <1>1, <1>3 DEF IInv, HoldsClient, ClientHeld
  <2>1. CountIn(sess, req[r].client) < Limit
    BY <2>0, <1>0 DEF LockInv
  <2>2. ASSUME NEW cl \in Clients
        PROVE  /\ IsFiniteSet(Open(sess')) /\ CountIn(sess', cl) <= Limit
               /\ cl # req[r].client => CountIn(sess', cl) = CountIn(sess, cl)
    <3>1. sess[s].client # cl /\ IsFiniteSet(Open(sess)) /\ CountIn(sess, cl) <= Limit
      BY <2>0, <1>2, AuthCodeAssumption DEF LockInv, OpenInv
    <3>2. sess'[s].client # cl \/ CountIn(sess, cl) < Limit
      BY <2>1, <1>7
    <3> QED  BY <3>1, <3>2, <1>7, CountOneMore
  <2>3. ASSUME NEW x \in Reqs, NEW y \in Reqs, x # y, HoldsClient(req'[x]), HoldsClient(req'[y])
        PROVE  req'[x].client # req'[y].client
    BY <2>0, <2>3, <1>3, <1>6 DEF LockInv, Updates
  <2>4. ASSUME NEW x \in Reqs, req'[x].pc = "issue"
        PROVE  CountIn(sess', req'[x].client) < Limit
    <3>1. x # r /\ req'[x] = req[x] /\ Carries(req[x])
      BY <2>4, <1>3, <1>6 DEF Updates, IInv
    <3>2. HoldsClient(req[x]) /\ req[x].client \in Clients
      BY <3>1, <2>4 DEF Carries, HoldsClient, ClientHeld
    <3>3. req[x].client # req[r].client /\ CountIn(sess, req[x].client) < Limit
      BY <3>1, <3>2, <2>0, <2>4 DEF LockInv
    <3> QED  BY <3>1, <3>2, <3>3, <2>2
  <2> QED  BY <2>2, <2>3, <2>4, <1>1 DEF LockInv, OpenInv
<1>10. CodeInv'
  <2>1. KeepsCode(r, q)
    BY <1>0, <1>3 DEF KeepsCode, HoldsCode, CodeHeld
  <2> QED  BY <2>1, <1>2, <1>3, <1>6, CodeKept
<1>11. s \notin delivered /\ \A x \in Reqs : req[x].pc = "attach" => req[x].sess \in SessionIds \ {s}
  BY <1>2 DEF IInv, DeliverInv, IssueInv, Carries
<1>12. IssueInv'
  <2>0. IssueInv /\ req'[r] = q /\ \A x \in Reqs : x # r => req'[x] = req[x]
    BY <1>6 DEF IInv, Updates
  <2>1. ASSUME NEW x \in Reqs, req'[x].pc = "attach"
        PROVE  /\ sess'[req'[x].sess].client # None /\ sess'[req'[x].sess].code = req'[x].code
               /\ req'[x].sess \notin delivered'
    <3>1. CASE x = r
      BY <3>1, <2>0, <1>1, <1>2, <1>3, <1>7, <1>11
    <3>2. CASE x # r
      BY <3>2, <2>0, <2>1, <1>2, <1>7, <1>11 DEF IssueInv
    <3> QED  BY <3>1, <3>2
  <2>2. ASSUME NEW x \in Reqs, NEW y \in Reqs, x # y, req'[x].pc = "attach", req'[y].pc = "attach"
        PROVE  req'[x].sess # req'[y].sess
    BY <2>0, <2>2, <1>3, <1>11 DEF IssueInv
  <2> QED  BY <2>1, <2>2 DEF IssueInv
<1>13. delivered \subseteq SessionIds \ {s}
  BY <1>0, <1>11 DEF TypeOK
<1>14. DeliverInv'
  BY <1>2, <1>7, <1>13 DEF IInv, DeliverInv
<1>15. ReplayInv'
  BY <1>2, <1>3, <1>6, <1>7, <1>13 DEF IInv, ReplayInv, ReplayEndsTheSession, Updates
<1> QED  BY <1>6, <1>8, <1>9, <1>10, <1>12, <1>14, <1>15 DEF IInv

\* The row of c as it is committed: consumed, and by nobody else before.
LEMMA ConsumeRow ==
    ASSUME IInv, NEW r \in Reqs, HoldsCode(req[r]), NEW row \in Row, row.consumed,
           code' = [code EXCEPT ![req[r].code] = row], SetReq(r, Idle)
    PROVE  /\ req[r].code \in Codes /\ code[req[r].code].sess = None
           /\ req[r].code \notin refused /\ req[r].code \notin replayed
           /\ \A s \in delivered : sess[s].code # req[r].code
           /\ code' \in [Codes -> Row] /\ code'[req[r].code] = row
           /\ \A c \in Codes : c # req[r].code => code'[c] = code[c]
           /\ \A x \in Reqs : req[x].pc = "revoke" => req[x].code \in Codes \ {req[r].code}
           /\ CodeInv'
<1> DEFINE c == req[r].code
<1>1. c \in Codes /\ ~code[c].consumed /\ TypeOK
  BY DEF IInv, Carries, HoldsCode, CodeInv, CodeHeld
<1>2. code[c].sess = None
  BY <1>1 DEF TypeOK
<1>3. c \notin refused /\ c \notin replayed
  BY <1>1 DEF IInv, DeliverInv, ReplayInv
<1>4. \A s \in delivered : sess[s].code # c
  <2>1. ASSUME NEW s \in delivered, sess[s].code = c PROVE FALSE
    <3>1. code[c].sess = s /\ s \in SessionIds
      BY <2>1, <1>1, AuthCodeAssumption DEF IInv, DeliverInv, TypeOK
    <3> QED  BY <3>1, <1>2, AuthCodeAssumption
  <2> QED  BY <2>1
<1>5. /\ code' \in [Codes -> Row] /\ code'[c] = row
      /\ \A d \in Codes : d # c => code'[d] = code[d]
  BY <1>1 DEF TypeOK, Row
<1>6. \A x \in Reqs : req[x].pc = "revoke" => req[x].code \in Codes \ {c}
  BY <1>1 DEF IInv, ReplayInv, Carries
<1>7. CodeInv'
  <2>1. Updates(r, Idle)
    BY IdleOK, UpdatesOK
  <2>2. \A x \in Reqs : HoldsCode(req'[x]) => /\ x # r /\ req'[x] = req[x] /\ HoldsCode(req[x])
                                              /\ req[x].code \in Codes
    BY <2>1, IdleOK DEF Updates, HoldsCode, CodeHeld, IInv, Carries
  <2>3. \A x \in Reqs : HoldsCode(req'[x]) => req[x].code # c
    BY <2>2 DEF IInv, CodeInv
  <2> QED  BY <2>2, <2>3, <1>5 DEF IInv, CodeInv
<1> QED  BY <1>1, <1>2, <1>3, <1>4, <1>5, <1>6, <1>7

LEMMA RedeemCommitStep ==
    ASSUME IInv, NEW r \in Reqs, RedeemCommit(r)
    PROVE  IInv'
<1> DEFINE c == req[r].code
           s == req[r].sess
<1>0. req[r].pc = "attach" /\ Carries(req[r]) /\ req[r] \in Req /\ TypeOK
  BY DEF RedeemCommit, IInv, TypeOK
<1>1. /\ SetReq(r, Idle) /\ delivered' \in {delivered, delivered \cup {s}}
      /\ pool' = pool /\ expired' = expired /\ sess' = sess /\ refused' = refused /\ replayed' = replayed
  BY DEF RedeemCommit
<1>2. s \in SessionIds /\ sess[s].client # None /\ sess[s].code = c /\ s \notin delivered
  BY <1>0 DEF Carries, IInv, IssueInv
<1>3. Updates(r, Idle) /\ \A x \in Reqs : Carries(req'[x])
  BY <1>1, IdleOK, UpdatesOK
<1>4. LockInv' /\ OpenInv'
  BY <1>1, <1>3, IdleOK, LockKept DEF KeepsClient, HoldsClient, ClientHeld
<1>5. IssueInv'
  BY <1>0, <1>1, <1>3, IdleOK DEF IInv, IssueInv, Updates
<1>6. CASE req[r].kind = "code"
  <2> DEFINE row == [code[c] EXCEPT !.consumed = TRUE, !.sess = s]
  <2>0. HoldsCode(req[r]) /\ c \in Codes /\ code[c] \in Row
    BY <1>0, <1>6 DEF HoldsCode, CodeHeld, Carries, TypeOK, Row
  <2>1. row \in Row /\ row.consumed /\ row.sess = s
    BY <2>0, <1>2 DEF Row
  <2>2. code' = [code EXCEPT ![c] = row]
    BY <2>0, <1>0, <1>6 DEF RedeemCommit, TypeOK
  <2> HIDE DEF row
  <2>3. /\ code[c].sess = None
        /\ c \notin refused /\ c \notin replayed
        /\ \A t \in delivered : sess[t].code # c
        /\ code' \in [Codes -> Row] /\ code'[c] = row
        /\ \A d \in Codes : d # c => code'[d] = code[d]
        /\ \A x \in Reqs : req[x].pc = "revoke" => req[x].code \in Codes \ {c}
        /\ CodeInv'
    BY <2>0, <2>1, <2>2, <1>1, ConsumeRow
  <2>4. TypeOK'
    BY <2>1, <2>3, <1>0, <1>1, <1>2, <1>3 DEF TypeOK, Row, Updates
  <2>5. DeliverInv'
    <3>0. DeliverInv /\ refused \subseteq Codes /\ \A t \in delivered : sess[t].code \in Codes \cup {None}
      BY <1>0 DEF IInv, TypeOK
    <3>1. ASSUME NEW t \in delivered', sess[t].code # None
          PROVE  code'[sess[t].code].sess = t
      BY <3>0, <3>1, <2>1, <2>3, <1>1, <1>2 DEF DeliverInv
    <3> QED  BY <3>0, <3>1, <2>3, <1>1, <1>2 DEF DeliverInv
  <2>6. ReplayInv'
    <3>0. ReplayInv /\ replayed \subseteq Codes
      BY <1>0 DEF IInv, TypeOK
    <3>1. \A x \in Reqs : req'[x].pc = "revoke" => req'[x] = req[x]
      BY <1>3, IdleOK DEF Updates
    <3>2. ReplayEndsTheSession'
      BY <3>0, <2>3, <1>1, <1>2 DEF ReplayInv, ReplayEndsTheSession
    <3> QED  BY <3>0, <3>1, <3>2, <2>3, <1>1 DEF ReplayInv
  <2> QED  BY <2>3, <2>4, <2>5, <2>6, <1>3, <1>4, <1>5 DEF IInv
<1>7. CASE req[r].kind # "code"
  <2>0. code' = code /\ c = None
    BY <1>0, <1>7 DEF RedeemCommit, Carries, Req
  <2>1. TypeOK'
    BY <2>0, <1>0, <1>1, <1>2, <1>3 DEF TypeOK, Updates
  <2>2. CodeInv'
    BY <2>0, <1>3, IdleOK, CodeKept DEF KeepsCode, HoldsCode, CodeHeld
  <2>3. DeliverInv'
    BY <2>0, <1>1, <1>2 DEF IInv, DeliverInv
  <2>4. ReplayInv'
    BY <2>0, <1>0, <1>1, <1>2, <1>3, IdleOK, AuthCodeAssumption
       DEF IInv, ReplayInv, ReplayEndsTheSession, Updates, TypeOK
  <2> QED  BY <2>1, <2>2, <2>3, <2>4, <1>3, <1>4, <1>5 DEF IInv
<1> QED  BY <1>6, <1>7

LEMMA RedeemBurnStep ==
    ASSUME IInv, NEW r \in Reqs, RedeemBurn(r)
    PROVE  IInv'
<1> DEFINE c == req[r].code
           row == [code[c] EXCEPT !.consumed = TRUE]
<1>0. req[r].pc = "burn" /\ Carries(req[r]) /\ TypeOK
  BY DEF RedeemBurn, IInv
<1>1. /\ SetReq(r, Idle) /\ code' = [code EXCEPT ![c].consumed = TRUE] /\ refused' = refused \cup {c}
      /\ pool' = pool /\ expired' = expired /\ sess' = sess /\ delivered' = delivered /\ replayed' = replayed
  BY DEF RedeemBurn
<1>2. HoldsCode(req[r]) /\ c \in Codes /\ code[c] \in Row
  BY <1>0 DEF HoldsCode, CodeHeld, Carries, TypeOK, Row
<1>3. row \in Row /\ row.consumed /\ row.sess = code[c].sess
  BY <1>2 DEF Row
<1>4. code' = [code EXCEPT ![c] = row]
  BY <1>1, <1>2, <1>0 DEF TypeOK
<1> HIDE DEF row
<1>5. /\ code[c].sess = None
      /\ c \notin refused /\ c \notin replayed
      /\ \A t \in delivered : sess[t].code # c
      /\ code' \in [Codes -> Row] /\ code'[c] = row
      /\ \A d \in Codes : d # c => code'[d] = code[d]
      /\ \A x \in Reqs : req[x].pc = "revoke" => req[x].code \in Codes \ {c}
      /\ CodeInv'
  BY <1>1, <1>2, <1>3, <1>4, ConsumeRow
<1>6. Updates(r, Idle) /\ \A x \in Reqs : Carries(req'[x])
  BY <1>1, IdleOK, UpdatesOK
<1>7. LockInv' /\ OpenInv'
  BY <1>1, <1>6, IdleOK, LockKept DEF KeepsClient, HoldsClient, ClientHeld
<1>8. IssueInv'
  BY <1>1, <1>6, IdleOK, IssueKept
<1>9. TypeOK'
  BY <1>0, <1>1, <1>2, <1>3, <1>5, <1>6 DEF TypeOK, Row, Updates
<1>10. DeliverInv'
  <2>0. DeliverInv /\ refused \subseteq Codes /\ \A t \in delivered : sess[t].code \in Codes \cup {None}
    BY <1>0 DEF IInv, TypeOK
  <2> QED  BY <2>0, <1>1, <1>3, <1>5 DEF DeliverInv
<1>11. ReplayInv'
  <2>0. ReplayInv /\ replayed \subseteq Codes
    BY <1>0 DEF IInv, TypeOK
  <2>1. \A x \in Reqs : req'[x].pc = "revoke" => req'[x] = req[x]
    BY <1>6, IdleOK DEF Updates
  <2> QED  BY <2>0, <2>1, <1>1, <1>3, <1>5 DEF ReplayInv, ReplayEndsTheSession
<1> QED  BY <1>5, <1>6, <1>7, <1>8, <1>9, <1>10, <1>11 DEF IInv
-----------------------------------------------------------------------------
(***************************************************************************)
(* Replays, and what ends a handler.                                       *)
(***************************************************************************)
\* A code consumed without a session has no tokens out, and never will.
LEMMA ReplayFindStep ==
    ASSUME IInv, NEW r \in Reqs, ReplayFind(r)
    PROVE  IInv'
<1> DEFINE c == req[r].code
           ours == code[c].state = "stored" /\ code[c].consumed /\ req[r].by # "other"
<1>0. req[r].pc = "find" /\ Carries(req[r]) /\ req[r] \in Req /\ TypeOK
      /\ UNCHANGED <<pool, code, expired, sess, delivered, refused>>
  BY DEF ReplayFind, IInv, TypeOK
<1>1. req[r].kind = "code" /\ c \in Codes /\ code[c].sess \in SessionIds \cup {None}
  BY <1>0 DEF Carries, TypeOK
<1>2. CASE ours /\ code[c].sess # None
  <2> DEFINE q == [req[r] EXCEPT !.pc = "revoke", !.sess = code[c].sess]
  <2>1. SetReq(r, q) /\ replayed' = replayed
    BY <1>2 DEF ReplayFind
  <2>2. /\ q \in Req /\ q.pc = "revoke" /\ q.sess = code[c].sess /\ q.kind = "code" /\ q.code = c
        /\ q.client = req[r].client
    BY <1>0, <1>1 DEF Req
  <2> HIDE DEF q
  <2>3. Carries(q)
    BY <2>2, <1>0, <1>1, <1>2 DEF Carries
  <2>4. KeepsClient(r, q) /\ KeepsCode(r, q)
    BY <2>2 DEF KeepsClient, KeepsCode, HoldsClient, HoldsCode, ClientHeld, CodeHeld
  <2> QED  BY <2>1, <2>2, <2>3, <2>4, <1>0, <1>2, ReqMoves
<1>3. CASE ~(ours /\ code[c].sess # None)
  <2>1. SetReq(r, Idle) /\ replayed' = IF ours THEN replayed \cup {c} ELSE replayed
    BY <1>3 DEF ReplayFind
  <2>2. Updates(r, Idle)
    BY <2>1, IdleOK, UpdatesOK
  <2>3. ReplayInv'
    <3>0. ReplayInv /\ DeliverInv
      BY DEF IInv
    <3>1. ours => \A s \in delivered : sess[s].code # c
      <4>1. ASSUME ours, NEW s \in delivered, sess[s].code = c PROVE FALSE
        <5>1. code[c].sess = s /\ s \in SessionIds
          BY <4>1, <3>0, <1>0, <1>1, AuthCodeAssumption DEF DeliverInv, TypeOK
        <5> QED  BY <5>1, <4>1, <1>3, AuthCodeAssumption
      <4> QED  BY <4>1
    <3>2. \A x \in Reqs : req'[x].pc = "revoke" => req'[x] = req[x]
      BY <2>2, IdleOK DEF Updates
    <3>3. ReplayEndsTheSession'
      BY <3>0, <3>1, <2>1, <1>0 DEF ReplayInv, ReplayEndsTheSession
    <3>4. \A d \in replayed' : code[d].consumed
      BY <3>0, <2>1 DEF ReplayInv
    <3> QED  BY <3>0, <3>2, <3>3, <3>4, <1>0 DEF ReplayInv
  <2>4. replayed' \subseteq Codes
    BY <2>1, <1>0, <1>1 DEF TypeOK
  <2> QED  BY <2>1, <2>3, <2>4, <1>0, IdleOK, ReqMovesBut
           DEF KeepsClient, KeepsCode, HoldsClient, HoldsCode, ClientHeld, CodeHeld
<1> QED  BY <1>2, <1>3

\* The end of some sessions: the counts only fall.
LEMMA SessionsEnd ==
    ASSUME IInv, sess' \in [SessionIds -> Sess],
           \A s \in SessionIds : /\ sess'[s].client = sess[s].client /\ sess'[s].code = sess[s].code
                                 /\ sess'[s].alive => sess[s].alive,
           \A x \in Reqs : req'[x] = req[x] \/ req'[x] = Idle
    PROVE  LockInv' /\ OpenInv'
<1>0. LockInv /\ OpenInv
  BY DEF IInv
<1>1. \A cl : IsFiniteSet(Open(sess')) /\ CountIn(sess', cl) <= CountIn(sess, cl) /\ CountIn(sess, cl) \in Nat
  BY <1>0, CountFewer DEF OpenInv
<1>2. \A cl : CountIn(sess', cl) \in Nat
  <2>1. IsFiniteSet(Open(sess'))
    BY <1>1
  <2> QED  BY <2>1, CountFewer
<1>3. \A cl : /\ CountIn(sess, cl) <= Limit => CountIn(sess', cl) <= Limit
              /\ CountIn(sess, cl) < Limit => CountIn(sess', cl) < Limit
  BY <1>1, <1>2, AuthCodeAssumption
<1>4. \A x \in Reqs : HoldsClient(req'[x]) \/ req'[x].pc = "issue" => req'[x] = req[x]
  BY IdleOK DEF HoldsClient, ClientHeld
<1>5. OpenInv'
  BY <1>1 DEF OpenInv
<1> QED  BY <1>0, <1>3, <1>4, <1>5 DEF LockInv

LEMMA ReplayRevokeStep ==
    ASSUME IInv, NEW r \in Reqs, ReplayRevoke(r)
    PROVE  IInv'
<1> DEFINE c == req[r].code
           s == req[r].sess
<1>0. /\ req[r].pc = "revoke" /\ Carries(req[r]) /\ TypeOK /\ SetReq(r, Idle)
      /\ sess' = [sess EXCEPT ![s].alive = FALSE] /\ replayed' = replayed \cup {c}
      /\ pool' = pool /\ code' = code /\ expired' = expired /\ delivered' = delivered /\ refused' = refused
  BY DEF ReplayRevoke, RevokeFamily, IInv
<1>1. c \in Codes /\ s \in SessionIds /\ code[c].consumed /\ code[c].sess = s
  BY <1>0 DEF Carries, IInv, ReplayInv
<1>2. /\ sess' \in [SessionIds -> Sess] /\ ~sess'[s].alive
      /\ \A t \in SessionIds : /\ sess'[t].client = sess[t].client /\ sess'[t].code = sess[t].code
                               /\ sess'[t].alive => sess[t].alive
  BY <1>0, <1>1 DEF TypeOK, Sess
<1>3. Updates(r, Idle) /\ \A x \in Reqs : Carries(req'[x])
  BY <1>0, IdleOK, UpdatesOK
<1>4. \A x \in Reqs : req'[x] = req[x] \/ req'[x] = Idle
  BY <1>3 DEF Updates
<1>5. LockInv' /\ OpenInv'
  BY <1>2, <1>4, SessionsEnd
<1>6. TypeOK'
  BY <1>0, <1>1, <1>2, <1>3 DEF TypeOK, Sess, Updates
<1>7. CodeInv'
  BY <1>0, <1>3, IdleOK, CodeKept DEF KeepsCode, HoldsCode, CodeHeld
<1>8. IssueInv'
  BY <1>0, <1>2, <1>3, IdleOK DEF IInv, IssueInv, Updates, Carries
<1>9. DeliverInv'
  BY <1>0, <1>2 DEF IInv, DeliverInv, TypeOK
<1>10. ReplayInv'
  <2>0. ReplayInv /\ DeliverInv /\ delivered \subseteq SessionIds
    BY <1>0 DEF IInv, TypeOK
  <2>1. \A x \in Reqs : req'[x].pc = "revoke" => req'[x] = req[x]
    BY <1>3, IdleOK DEF Updates
  <2>2. \A t \in delivered : sess[t].code = c => t = s
    BY <2>0, <1>1, AuthCodeAssumption DEF DeliverInv
  <2>3. ReplayEndsTheSession'
    BY <2>0, <2>2, <1>0, <1>2 DEF ReplayInv, ReplayEndsTheSession
  <2> QED  BY <2>0, <2>1, <2>3, <1>0, <1>1 DEF ReplayInv
<1> QED  BY <1>3, <1>5, <1>6, <1>7, <1>8, <1>9, <1>10 DEF IInv

LEMMA PoolTimeoutStep ==
    ASSUME IInv, NEW r \in Reqs, PoolTimeout(r)
    PROVE  IInv'
<1>1. CASE req[r].kind = "code" /\ req[r].pc \in {"checks", "count"} /\ Goto(r, "burn")
  BY <1>1, GotoStep DEF PoolTimeout
<1>2. CASE SetReq(r, Idle)
  BY <1>2, DoneStep DEF PoolTimeout
<1> QED  BY <1>1, <1>2 DEF PoolTimeout

LEMMA AbortStep ==
    ASSUME IInv, NEW r \in Reqs, Abort(r)
    PROVE  IInv'
BY DoneStep DEF Abort
-----------------------------------------------------------------------------
(***************************************************************************)
(* What happens to codes and sessions without a handler.                   *)
(***************************************************************************)
\* A code is stored or swept; no handler has one that is not stored.
LEMMA RowStep ==
    ASSUME IInv, NEW c \in Codes, NEW state \in {"stored", "swept"}, code' = [code EXCEPT ![c].state = state],
           code[c].state = "stored" => \A r \in Reqs : req[r].code # c,
           UNCHANGED <<pool, expired, sess, req, delivered, refused, replayed>>
    PROVE  IInv'
<1>0. TypeOK
  BY DEF IInv
<1>1. /\ code' \in [Codes -> Row]
      /\ \A d \in Codes : /\ code'[d].consumed = code[d].consumed /\ code'[d].sess = code[d].sess
                          /\ d # c => code'[d] = code[d]
  BY <1>0 DEF TypeOK, Row
<1>2. TypeOK' /\ \A r \in Reqs : Carries(req'[r])
  BY <1>0, <1>1 DEF TypeOK, Row, IInv
<1>3. LockInv' /\ OpenInv' /\ IssueInv'
  BY DEF IInv, LockInv, OpenInv, IssueInv
<1>4. CodeInv'
  <2>1. \A r \in Reqs : HoldsCode(req[r]) => req[r].code \in Codes
    BY DEF IInv, Carries, HoldsCode, CodeHeld
  <2>2. \A r \in Reqs : HoldsCode(req[r]) => req[r].code # c
    BY DEF IInv, CodeInv
  <2> QED  BY <2>1, <2>2, <1>1 DEF IInv, CodeInv
<1>5. DeliverInv'
  <2>1. refused \subseteq Codes /\ \A s \in delivered : sess[s].code \in Codes \cup {None}
    BY <1>0 DEF TypeOK
  <2> QED  BY <2>1, <1>1 DEF IInv, DeliverInv
<1>6. ReplayInv'
  <2>1. replayed \subseteq Codes /\ \A r \in Reqs : req[r].pc = "revoke" => req[r].code \in Codes
    BY <1>0 DEF TypeOK, IInv, Carries
  <2> QED  BY <2>1, <1>1 DEF IInv, ReplayInv, ReplayEndsTheSession
<1> QED  BY <1>2, <1>3, <1>4, <1>5, <1>6 DEF IInv

LEMMA ExpiredStep ==
    ASSUME IInv, expired' \subseteq Codes, UNCHANGED <<pool, code, sess, req, delivered, refused, replayed>>
    PROVE  IInv'
BY DEF IInv, TypeOK, LockInv, OpenInv, CodeInv, IssueInv, DeliverInv, ReplayInv, ReplayEndsTheSession

LEMMA EndSessionStep ==
    ASSUME IInv, NEW s \in SessionIds, EndSession(s)
    PROVE  IInv'
<1>0. /\ TypeOK /\ sess' = [sess EXCEPT ![s].alive = FALSE]
      /\ pool' = pool /\ code' = code /\ expired' = expired /\ req' = req /\ delivered' = delivered
      /\ refused' = refused /\ replayed' = replayed
  BY DEF EndSession, IInv
<1>1. /\ sess' \in [SessionIds -> Sess]
      /\ \A t \in SessionIds : /\ sess'[t].client = sess[t].client /\ sess'[t].code = sess[t].code
                               /\ sess'[t].alive => sess[t].alive
  BY <1>0 DEF TypeOK, Sess
<1>2. LockInv' /\ OpenInv'
  BY <1>0, <1>1, SessionsEnd
<1>3. TypeOK' /\ \A r \in Reqs : Carries(req'[r])
  BY <1>0, <1>1 DEF TypeOK, Sess, IInv
<1>4. CodeInv'
  BY <1>0 DEF IInv, CodeInv
<1>5. IssueInv'
  BY <1>0, <1>1 DEF IInv, IssueInv, Carries
<1>6. DeliverInv' /\ ReplayInv'
  BY <1>0, <1>1 DEF IInv, DeliverInv, ReplayInv, ReplayEndsTheSession, TypeOK
<1> QED  BY <1>2, <1>3, <1>4, <1>5, <1>6 DEF IInv

LEMMA InvStep == IInv /\ [Next]_vars => IInv'
<1> SUFFICES ASSUME IInv, [Next]_vars PROVE IInv'
  OBVIOUS
<1>1. CASE UNCHANGED vars
  BY <1>1, ExpiredStep DEF vars, IInv, TypeOK
<1>2. ASSUME NEW c \in Codes, approve(c) \/ Expire(c) \/ SweepCode(c) PROVE IInv'
  <2>1. CASE approve(c)
    BY <2>1, RowStep DEF approve
  <2>2. CASE Expire(c)
    BY <2>2, ExpiredStep DEF Expire, IInv, TypeOK
  <2>3. CASE SweepCode(c)
    BY <2>3, RowStep DEF SweepCode
  <2> QED  BY <1>2, <2>1, <2>2, <2>3
<1>3. ASSUME NEW s \in SessionIds, EndSession(s) PROVE IInv'
  BY <1>3, EndSessionStep
<1>4. ASSUME NEW r \in Reqs, RedeemBegin(r) \/ DeviceBegin(r) \/ Step(r) \/ Abort(r) PROVE IInv'
  BY <1>4, RedeemBeginStep, DeviceBeginStep, RedeemConsumeStep, RedeemChecksStep, RedeemLockStep,
     RedeemCountStep, RedeemIssueStep, RedeemCommitStep, RedeemBurnStep, ReplayFindStep, ReplayRevokeStep,
     PoolTimeoutStep, AbortStep DEF Step
<1> QED  BY <1>1, <1>2, <1>3, <1>4 DEF Next

LEMMA Invariance == Spec => []IInv
BY InitOK, InvStep, PTL DEF Spec
-----------------------------------------------------------------------------
(***************************************************************************)
(* Types, for every number of codes, clients, sessions and handlers.       *)
(***************************************************************************)
THEOREM TypeCorrect == Spec => []TypeOK
<1>1. IInv => TypeOK
  BY DEF IInv
<1> QED  BY <1>1, Invariance, PTL

(***************************************************************************)
(* However many redemptions of one code race, time out or are retried, it  *)
(* answers at most one set of tokens, and none once it was refused         *)
(* (redeem in oauth.rs, consume in the code's repository).                 *)
(***************************************************************************)
THEOREM OneDelivery == Spec => []OneDeliveryPerCode
<1>1. IInv => OneDeliveryPerCode
  <2> SUFFICES ASSUME IInv, NEW c \in Codes
               PROVE  Cardinality({s \in delivered : sess[s].code = c}) <= IF c \in refused THEN 0 ELSE 1
    BY DEF OneDeliveryPerCode
  <2> DEFINE S == {s \in delivered : sess[s].code = c}
             v == code[c].sess
  <2>1. \A s \in S : s = v /\ v # None
    BY AuthCodeAssumption DEF IInv, DeliverInv, TypeOK
  <2>2. IsFiniteSet({v}) /\ Cardinality({v}) = 1 /\ IsFiniteSet({}) /\ Cardinality({}) = 0
    BY FS_Singleton, FS_EmptySet
  <2>3. CASE c \in refused
    <3>1. S = {}
      BY <2>1, <2>3 DEF IInv, DeliverInv
    <3> QED  BY <3>1, <2>2, <2>3
  <2>4. CASE c \notin refused
    <3>1. S \subseteq {v}
      BY <2>1
    <3>2. Cardinality(S) <= Cardinality({v})
      BY <3>1, <2>2, FS_Subset
    <3> QED  BY <3>2, <2>2, <2>4
  <2> QED  BY <2>3, <2>4
<1> QED  BY <1>1, Invariance, PTL

(***************************************************************************)
(* A replay of a code by its own client, once dealt with, leaves no        *)
(* session its tokens were answered for alive (revoke_on_replay).          *)
(***************************************************************************)
THEOREM ReplayEnds == Spec => []ReplayEndsTheSession
<1>1. IInv => ReplayEndsTheSession
  BY DEF IInv, ReplayInv
<1> QED  BY <1>1, Invariance, PTL

(***************************************************************************)
(* Redemptions and device flows together never open more sessions than the *)
(* client allows, whatever the size of the pool (lock_client_sessions,     *)
(* session_allowance).                                                     *)
(***************************************************************************)
THEOREM LimitHeld == Spec => []SessionLimitHeld
<1>1. IInv => SessionLimitHeld
  BY DEF IInv, LockInv, SessionLimitHeld, count_active_by_client, CountIn
<1> QED  BY <1>1, Invariance, PTL
=============================================================================
