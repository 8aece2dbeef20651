--------------------------- MODULE SurfaceProofs ---------------------------
(***************************************************************************)
(* The parts of the service that share no state with another, each for any *)
(* number of requests at once: the proof of the password again, the        *)
(* registered clients, the audit log, the other ways in, the enrolment of  *)
(* second factors with the rotation of the key, and the rate limiter.      *)
(*                                                                         *)
(* A request is a record whose fields depend on where it is; each part     *)
(* first says which records its requests are.                              *)
(***************************************************************************)
EXTENDS Enrolment, AccessItems, RegisteredClients, Reauth, RateLimit, AuditLog, FiniteSetTheorems, TLAPS

-----------------------------------------------------------------------------
(***************************************************************************)
(* Recent re-authentication.  The two budgets begin and end at different   *)
(* times: RoomInv compares how long each has left.  A session's budget     *)
(* that ends before the account's began before it, so one attempt at least *)
(* was counted before the account's key was there.                         *)
(***************************************************************************)
Proving == [pc: {"reserve", "verify", "audit", "mark"}, session: AllSessions, right: BOOLEAN, hash: Nat]
Changing == [pc: {"change"}, session: AllSessions, keep: BOOLEAN]
Ending == [pc: {"revoke", "clear"}, ends: SUBSET AllSessions]

ReauthTyped ==
    /\ req \in [Reqs -> {Idle} \cup Proving \cup Changing \cup Ending]
    /\ live \subseteq AllSessions /\ password \in Nat
    /\ DOMAIN marker = AllSessions
    /\ budget \in [BudgetKeys -> [count: Nat, left: Nat]]
    /\ share \in Nat

\* A key that counts has a time left, FAIL_TTL at most.
KeysExpire ==
    \A k \in BudgetKeys :
        /\ budget[k].count = 0 => budget[k].left = 0
        /\ budget[k].left <= FAIL_TTL

Least2(m, n) == IF m < n THEN m ELSE n

Room(s, a, n) ==
    /\ a.count = 0 => n = 0
    /\ s.count = 0 => n <= LOCKOUT_THRESHOLD - 1
    /\ s.count > 0 /\ s.left < a.left => n <= Least2(s.count, LOCKOUT_THRESHOLD) - 1
    /\ s.count > 0 => n <= LOCKOUT_THRESHOLD - 1 + Least2(s.count, LOCKOUT_THRESHOLD)

RoomInv == Room(budget[StolenSession], budget[Account], share)

\* Who stands has the password of now, or chose it.
UpToDate(s, proof) == s \in live => proof = password \/ s = chooser

ProofInv ==
    /\ \A s \in AllSessions : HasRecentReauth(s) => UpToDate(s, marker[s])
    /\ \A r \in Reqs : req[r] \in Proving => UpToDate(req[r].session, req[r].hash)

ReauthInv == ReauthTyped /\ KeysExpire /\ RoomInv /\ ProofInv

\* What a request is after its step, when one request moves.
LEMMA OneMoves ==
    ASSUME NEW S, req \in [Reqs -> S], NEW r \in Reqs, NEW x, req' = [req EXCEPT ![r] = x]
    PROVE  /\ req' = [p \in Reqs |-> IF p = r THEN x ELSE req[p]]
           /\ x \in S => req' \in [Reqs -> S]
  OBVIOUS

LEMMA ReauthShapes ==
    /\ \A x \in Proving : x.pc \in {"reserve", "verify", "audit", "mark"}
    /\ \A x \in Changing : x.pc = "change"
    /\ \A x \in Ending : x.pc \in {"revoke", "clear"}
    /\ Idle.pc = "idle"
    /\ Idle \notin Proving
    /\ \A x \in Proving : \A pc \in {"verify", "audit", "mark"} :
          LET y == [x EXCEPT !.pc = pc] IN y \in Proving /\ y.session = x.session /\ y.hash = x.hash
    /\ \A x \in Ending : [x EXCEPT !.pc = "clear"] \in Ending
<1>1. /\ \A x \in Proving : x.pc \in {"reserve", "verify", "audit", "mark"}
      /\ \A x \in Changing : x.pc = "change"
      /\ \A x \in Ending : x.pc \in {"revoke", "clear"}
      /\ Idle.pc = "idle"
  BY DEF Proving, Changing, Ending, Idle
<1>2. Idle \notin Proving
  BY <1>1
<1>3. \A x \in Proving : \A pc \in {"verify", "audit", "mark"} :
          LET y == [x EXCEPT !.pc = pc] IN y \in Proving /\ y.session = x.session /\ y.hash = x.hash
  BY DEF Proving
<1>4. \A x \in Ending : [x EXCEPT !.pc = "clear"] \in Ending
  BY DEF Ending
<1> QED  BY <1>1, <1>2, <1>3, <1>4

\* The proofs under way: begun now, or going on with what they read.
LEMMA ReauthRequests ==
    ASSUME ReauthTyped, ReauthNext
    PROVE  /\ req' \in [Reqs -> {Idle} \cup Proving \cup Changing \cup Ending]
           /\ \A p \in Reqs : req'[p] \in Proving =>
                \/ req'[p].hash = password /\ UNCHANGED <<live, password, chooser>>
                \/ req[p] \in Proving /\ req'[p].session = req[p].session /\ req'[p].hash = req[p].hash
<1> DEFINE S == {Idle} \cup Proving \cup Changing \cup Ending
           Goal == /\ req' \in [Reqs -> S]
                   /\ \A p \in Reqs : req'[p] \in Proving =>
                        \/ req'[p].hash = password /\ UNCHANGED <<live, password, chooser>>
                        \/ req[p] \in Proving /\ req'[p].session = req[p].session /\ req'[p].hash = req[p].hash
<1> SUFFICES Goal
  OBVIOUS
<1>1. req \in [Reqs -> S]
  BY DEF ReauthTyped
<1>2. ASSUME NEW r \in Reqs, NEW x \in S, req' = [req EXCEPT ![r] = x],
             x \in Proving => \/ x.hash = password /\ UNCHANGED <<live, password, chooser>>
                              \/ req[r] \in Proving /\ x.session = req[r].session /\ x.hash = req[r].hash
      PROVE  Goal
  <2>1. req' = [p \in Reqs |-> IF p = r THEN x ELSE req[p]] /\ req' \in [Reqs -> S]
    BY <1>1, <1>2, OneMoves
  <2> QED  BY <2>1, <1>2
<1>3. ASSUME NEW r \in Reqs, Done(r) PROVE Goal
  BY <1>2, <1>3, ReauthShapes DEF Done
<1>4. ASSUME NEW r \in Reqs, NEW pc \in {"verify", "audit", "mark"}, Goto(r, pc), req[r] \in Proving PROVE Goal
  <2>1. PICK x : x = [req[r] EXCEPT !.pc = pc]
    OBVIOUS
  <2>2. x \in Proving /\ x.session = req[r].session /\ x.hash = req[r].hash
    BY <1>4, <2>1, ReauthShapes
  <2>3. req' = [req EXCEPT ![r] = x]
    BY <1>1, <1>4, <2>1 DEF Goto
  <2> QED  BY <1>2, <1>4, <2>2, <2>3
<1>5. ASSUME NEW r \in Reqs, NEW x \in Changing \cup Ending, req' = [req EXCEPT ![r] = x] PROVE Goal
  <2>1. x \notin Proving
    BY <1>5, ReauthShapes
  <2> QED  BY <1>2, <1>5, <2>1
<1>6. CASE UNCHANGED req
  BY <1>1, <1>6
<1>7. ASSUME NEW r \in Reqs, NEW s \in AllSessions, NEW b \in BOOLEAN, PostReauth(r, s, b) PROVE Goal
  <2>1. PICK x : x = [pc |-> "reserve", session |-> s, right |-> b, hash |-> password]
    OBVIOUS
  <2>2. x \in Proving /\ x.hash = password
    BY <1>7, <2>1 DEF Proving, ReauthTyped
  <2>3. req' = [req EXCEPT ![r] = x] /\ UNCHANGED <<live, password, chooser>>
    BY <1>7, <2>1 DEF PostReauth, Begin, reauthVars
  <2> QED  BY <1>2, <2>2, <2>3
<1>8. ASSUME NEW r \in Reqs, NEW s \in AllSessions, NEW b \in BOOLEAN, NEW other \in AllSessions,
             PostChangePassword(r, s, b) \/ DeleteSessions(r, s, b) \/ DeleteSession(r, s, other) \/ Logout(r, s)
      PROVE Goal
  <2>1. /\ [pc |-> "change", session |-> s, keep |-> b] \in Changing
        /\ \A e \in SUBSET AllSessions : [pc |-> "revoke", ends |-> e] \in Ending
        /\ \A e \in SUBSET AllSessions : [pc |-> "clear", ends |-> e] \in Ending
    BY DEF Changing, Ending
  <2>2. {s} \in SUBSET AllSessions /\ {other} \in SUBSET AllSessions
        /\ live \ {s} \in SUBSET AllSessions /\ live \in SUBSET AllSessions
    BY DEF ReauthTyped
  <2>3. CASE PostChangePassword(r, s, b)
    BY <1>5, <2>1, <2>3 DEF PostChangePassword, RequireRecentReauth, Begin
  <2>4. CASE DeleteSessions(r, s, b)
    <3>1. PICK e \in SUBSET AllSessions : req' = [req EXCEPT ![r] = [pc |-> "revoke", ends |-> e]]
      BY <2>2, <2>4 DEF DeleteSessions, RequireRecentReauth, Begin
    <3> QED  BY <1>5, <2>1, <3>1
  <2>5. CASE DeleteSession(r, s, other)
    BY <1>5, <2>1, <2>2, <2>5 DEF DeleteSession, RequireRecentReauth, Begin
  <2>6. CASE Logout(r, s)
    BY <1>5, <2>1, <2>2, <2>6 DEF Logout, Begin
  <2> QED  BY <1>8, <2>3, <2>4, <2>5, <2>6
<1>9. ASSUME NEW r \in Reqs, ReserveAttempt(r) \/ VerifyPassword(r) \/ RecordReauthEvent(r) PROVE Goal
  <2>1. req[r] \in Proving
    BY <1>1, <1>9, ReauthShapes DEF ReserveAttempt, VerifyPassword, RecordReauthEvent
  <2> QED  BY <1>3, <1>4, <1>9, <2>1 DEF ReserveAttempt, VerifyPassword, RecordReauthEvent
<1>10. ASSUME NEW r \in Reqs, RevokeSessions(r) PROVE Goal
  <2>1. req[r] \in Ending /\ req' = [req EXCEPT ![r] = [req[r] EXCEPT !.pc = "clear"]]
    BY <1>1, <1>10, ReauthShapes DEF RevokeSessions, Goto
  <2> QED  BY <1>5, <2>1, ReauthShapes
<1>11. ASSUME NEW r \in Reqs, MarkRecentReauth(r) \/ ChangePassword(r) \/ ClearRecentReauth(r) \/ ReauthDrops(r)
       PROVE  Goal
  BY <1>3, <1>11 DEF MarkRecentReauth, ChangePassword, ClearRecentReauth, ReauthDrops
<1>12. CASE UnlockBudget \/ ReauthTick \/ \E s \in AllSessions : MarkerExpires(s)
  BY <1>6, <1>12 DEF UnlockBudget, ReauthTick, MarkerExpires
<1>13. CASE \E r \in Reqs, s \in AllSessions :
              \/ \E b \in BOOLEAN : PostReauth(r, s, b) \/ PostChangePassword(r, s, b) \/ DeleteSessions(r, s, b)
              \/ \E other \in AllSessions : DeleteSession(r, s, other)
              \/ Logout(r, s)
  BY <1>7, <1>8, <1>13
<1>14. CASE \E r \in Reqs :
              \/ ReserveAttempt(r) \/ VerifyPassword(r) \/ RecordReauthEvent(r) \/ MarkRecentReauth(r)
              \/ ChangePassword(r) \/ RevokeSessions(r) \/ ClearRecentReauth(r) \/ ReauthDrops(r)
  BY <1>9, <1>10, <1>11, <1>14
<1> HIDE DEF Goal
<1> QED  BY <1>12, <1>13, <1>14 DEF ReauthNext

\* What a step does to the sessions, their markers and the password.
LEMMA ReauthWorld ==
    ASSUME ReauthTyped, ReauthNext
    PROVE  /\ live' \subseteq live /\ password' \in Nat /\ DOMAIN marker' = AllSessions
           /\ \/ UNCHANGED <<password, chooser>>
              \/ live' \subseteq {chooser'}
           /\ \A s \in AllSessions :
                \/ marker'[s] \in {marker[s], None}
                \/ /\ UNCHANGED <<live, password, chooser>>
                   /\ \E r \in Reqs : req[r] \in Proving /\ req[r].session = s /\ marker'[s] = req[r].hash
<1> DEFINE Goal == /\ live' \subseteq live /\ password' \in Nat /\ DOMAIN marker' = AllSessions
                   /\ \/ UNCHANGED <<password, chooser>>
                      \/ live' \subseteq {chooser'}
                   /\ \A s \in AllSessions :
                        \/ marker'[s] \in {marker[s], None}
                        \/ /\ UNCHANGED <<live, password, chooser>>
                           /\ \E r \in Reqs : req[r] \in Proving /\ req[r].session = s /\ marker'[s] = req[r].hash
<1> SUFFICES Goal
  OBVIOUS
<1>1. /\ live \subseteq AllSessions /\ password \in Nat /\ DOMAIN marker = AllSessions
      /\ req \in [Reqs -> {Idle} \cup Proving \cup Changing \cup Ending]
  BY DEF ReauthTyped
<1>2. CASE UNCHANGED <<live, password, chooser, marker>>
  BY <1>1, <1>2
<1>3. ASSUME NEW r \in Reqs, MarkRecentReauth(r) PROVE Goal
  <2>1. req[r] \in Proving
    BY <1>1, <1>3, ReauthShapes DEF MarkRecentReauth
  <2>2. CASE marker' = [marker EXCEPT ![req[r].session] = req[r].hash]
    BY <1>1, <1>3, <2>1, <2>2 DEF MarkRecentReauth
  <2> QED  BY <1>2, <1>3, <2>2 DEF MarkRecentReauth
<1>4. ASSUME NEW r \in Reqs, ChangePassword(r) PROVE Goal
  <2>1. live' \subseteq live /\ live' \subseteq {chooser'} /\ password' = password + 1 /\ marker' = marker
    BY <1>4 DEF ChangePassword
  <2> QED  BY <1>1, <2>1
<1>5. ASSUME NEW r \in Reqs, NEW s \in AllSessions, RevokeSessions(r) \/ Logout(r, s) PROVE Goal
  BY <1>1, <1>5 DEF RevokeSessions, Logout
<1>6. ASSUME NEW e, marker' = Cleared(e), UNCHANGED <<live, password, chooser>> PROVE Goal
  BY <1>1, <1>6 DEF Cleared
<1>7. CASE \E r \in Reqs : ClearRecentReauth(r)
  BY <1>6, <1>7 DEF ClearRecentReauth
<1>8. CASE \E s \in AllSessions : MarkerExpires(s)
  BY <1>6, <1>8 DEF MarkerExpires
<1>9. CASE UnlockBudget \/ ReauthTick
  BY <1>2, <1>9 DEF UnlockBudget, ReauthTick
<1>10. CASE \E r \in Reqs : ReserveAttempt(r) \/ VerifyPassword(r) \/ RecordReauthEvent(r) \/ ReauthDrops(r)
  BY <1>2, <1>10 DEF ReserveAttempt, VerifyPassword, RecordReauthEvent, ReauthDrops, reauthVars
<1>11. CASE \E r \in Reqs, s \in AllSessions :
              \/ \E b \in BOOLEAN : PostReauth(r, s, b) \/ PostChangePassword(r, s, b) \/ DeleteSessions(r, s, b)
              \/ \E other \in AllSessions : DeleteSession(r, s, other)
  BY <1>2, <1>11 DEF PostReauth, PostChangePassword, DeleteSessions, DeleteSession, RequireRecentReauth, reauthVars
<1>12. CASE \E r \in Reqs, s \in AllSessions : RevokeSessions(r) \/ Logout(r, s)
  BY <1>5, <1>12
<1>13. CASE \E r \in Reqs : RevokeSessions(r)
  <2>1. StolenSession \in AllSessions
    BY DEF AllSessions
  <2> QED  BY <1>5, <1>13, <2>1
<1> HIDE DEF Goal
<1> QED  BY <1>3, <1>4, <1>7, <1>8, <1>9, <1>10, <1>11, <1>12, <1>13 DEF ReauthNext

LEMMA ProofStep ==
    ASSUME ReauthTyped, ProofInv, ReauthNext
    PROVE  ProofInv'
<1>1. ASSUME NEW s \in AllSessions, NEW h, UpToDate(s, h), s \in live'
      PROVE  h = password' \/ s = chooser'
  <2>1. s \in live /\ (UNCHANGED <<password, chooser>> \/ live' \subseteq {chooser'})
    BY <1>1, ReauthWorld
  <2> QED  BY <1>1, <2>1 DEF UpToDate
<1>2. ASSUME NEW s \in AllSessions, marker'[s] # None, s \in live'
      PROVE  marker'[s] = password' \/ s = chooser'
  <2>1. CASE marker'[s] \in {marker[s], None}
    BY <1>1, <1>2, <2>1 DEF ProofInv, HasRecentReauth
  <2>2. CASE \E r \in Reqs : req[r] \in Proving /\ req[r].session = s /\ marker'[s] = req[r].hash
    BY <1>1, <1>2, <2>2 DEF ProofInv
  <2> QED  BY <2>1, <2>2, ReauthWorld
<1>3. ASSUME NEW r \in Reqs, req'[r] \in Proving, req'[r].session \in live'
      PROVE  req'[r].hash = password' \/ req'[r].session = chooser'
  <2>1. CASE req'[r].hash = password /\ UNCHANGED <<live, password, chooser>>
    BY <2>1
  <2>2. CASE req[r] \in Proving /\ req'[r].session = req[r].session /\ req'[r].hash = req[r].hash
    BY <1>1, <1>3, <2>2 DEF ProofInv, Proving
  <2> QED  BY <1>3, <2>1, <2>2, ReauthRequests
<1> QED  BY <1>2, <1>3 DEF ProofInv, UpToDate, HasRecentReauth

\* A step on the budgets, by the two that matter.
BudgetsOK(b, n) == 
    /\ b \in [BudgetKeys -> [count: Nat, left: Nat]]
    /\ n \in Nat
    /\ \A k \in BudgetKeys : (b[k].count = 0 => b[k].left = 0) /\ b[k].left <= FAIL_TTL
    /\ Room(b[StolenSession], b[Account], n)

LEMMA ReauthKeys ==
    /\ StolenSession \in BudgetKeys /\ Account \in BudgetKeys /\ AllSessions \subseteq BudgetKeys
    /\ \A s \in AllSessions : s # Account
    /\ StolenSession \in AllSessions /\ StolenSession # Account
  BY ReauthAssumption DEF BudgetKeys, AllSessions, Account

LEMMA IncrType ==
    ASSUME BudgetsOK(budget, share), NEW k \in BudgetKeys
    PROVE  /\ Incr(k) \in [count: Nat, left: Nat]
           /\ Incr(k).count = budget[k].count + 1
           /\ Incr(k).left = IF budget[k].count = 0 THEN FAIL_TTL ELSE budget[k].left
           /\ Incr(k).left <= FAIL_TTL
  BY ReauthAssumption DEF BudgetsOK, Incr

LEMMA ReserveRoom ==
    ASSUME ReauthTyped, BudgetsOK(budget, share), NEW r \in Reqs, ReserveAttempt(r)
    PROVE  BudgetsOK(budget', share')
<1> DEFINE s == req[r].session
           S == budget[StolenSession]
           A == budget[Account]
<1>1. s \in AllSessions
  BY ReauthShapes DEF ReauthTyped, ReserveAttempt, Proving
<1>2. /\ S.count \in Nat /\ S.left \in Nat /\ A.count \in Nat /\ A.left \in Nat /\ share \in Nat
      /\ LOCKOUT_THRESHOLD \in Nat \ {0} /\ FAIL_TTL \in Nat \ {0}
      /\ S.left <= FAIL_TTL /\ A.left <= FAIL_TTL
      /\ (S.count = 0 => S.left = 0) /\ (A.count = 0 => A.left = 0)
  BY ReauthKeys, ReauthAssumption DEF BudgetsOK
<1>3. /\ budget' \in [BudgetKeys -> [count: Nat, left: Nat]] /\ share' \in Nat
      /\ \A k \in BudgetKeys : (budget'[k].count = 0 => budget'[k].left = 0) /\ budget'[k].left <= FAIL_TTL
      /\ budget'[s] = Incr(s)
      /\ \A k \in AllSessions \ {s} : budget'[k] = budget[k]
      /\ budget'[Account] = IF Exceeds(s) THEN budget[Account] ELSE Incr(Account)
  <2>1. s \in BudgetKeys /\ s # Account /\ Account \in BudgetKeys
    BY <1>1, ReauthKeys
  <2>2. /\ Incr(s) \in [count: Nat, left: Nat] /\ Incr(s).count # 0 /\ Incr(s).left <= FAIL_TTL
        /\ Incr(Account) \in [count: Nat, left: Nat] /\ Incr(Account).count # 0 /\ Incr(Account).left <= FAIL_TTL
    BY <2>1, IncrType DEF BudgetsOK
  <2>3. budget' = IF Exceeds(s) THEN [budget EXCEPT ![s] = Incr(s)]
                  ELSE [budget EXCEPT ![s] = Incr(s), ![Account] = Incr(Account)]
    BY DEF ReserveAttempt, ConsumeInOrder
  <2>4. share' \in Nat
    BY <1>2 DEF ReserveAttempt
  <2>5. budget \in [BudgetKeys -> [count: Nat, left: Nat]]
        /\ \A k \in BudgetKeys : (budget[k].count = 0 => budget[k].left = 0) /\ budget[k].left <= FAIL_TTL
    BY DEF BudgetsOK
  <2> HIDE DEF s
  <2> QED  BY <2>1, <2>2, <2>3, <2>4, <2>5, ReauthKeys
<1>4. Room(S, A, share)
  BY DEF BudgetsOK
<1>5. CASE s # StolenSession
  <2>1. budget'[StolenSession] = S /\ share' = share /\ budget'[Account] \in {A, Incr(Account)}
    BY <1>3, <1>5 DEF ReserveAttempt, AllSessions
  <2>2. Incr(Account).count = A.count + 1 /\ Incr(Account).left = IF A.count = 0 THEN FAIL_TTL ELSE A.left
    BY IncrType, ReauthKeys
  <2>3. Room(S, Incr(Account), share)
    BY <1>2, <1>4, <2>2 DEF Room, Least2
  <2> QED  BY <1>3, <1>4, <2>1, <2>3 DEF BudgetsOK
<1>6. CASE s = StolenSession /\ Exceeds(s)
  <2>1. budget'[StolenSession] = Incr(StolenSession) /\ share' = share /\ budget'[Account] = A
    BY <1>3, <1>6 DEF ReserveAttempt
  <2>2. /\ Incr(StolenSession).count = S.count + 1 /\ S.count + 1 > LOCKOUT_THRESHOLD
        /\ Incr(StolenSession).left = IF S.count = 0 THEN FAIL_TTL ELSE S.left
    BY <1>6, IncrType, ReauthKeys DEF Exceeds, BudgetLimit
  <2>3. Room(Incr(StolenSession), A, share)
    BY <1>2, <1>4, <2>2 DEF Room, Least2
  <2> QED  BY <1>3, <2>1, <2>3 DEF BudgetsOK
<1>7. CASE s = StolenSession /\ ~Exceeds(s)
  <2>1. budget'[StolenSession] = Incr(StolenSession) /\ budget'[Account] = Incr(Account)
    BY <1>3, <1>7
  <2>2. /\ Incr(StolenSession).count = S.count + 1 /\ S.count + 1 <= LOCKOUT_THRESHOLD
        /\ Incr(StolenSession).left = IF S.count = 0 THEN FAIL_TTL ELSE S.left
    BY <1>2, <1>7, IncrType, ReauthKeys DEF Exceeds, BudgetLimit
  <2>3. Incr(Account).count = A.count + 1 /\ Incr(Account).left = IF A.count = 0 THEN FAIL_TTL ELSE A.left
    BY IncrType, ReauthKeys
  <2>4. share' = share + 1
    BY <1>2, <1>7, <2>1, <2>3 DEF ReserveAttempt
  <2>5. Room(Incr(StolenSession), Incr(Account), share + 1)
    BY <1>2, <1>4, <2>2, <2>3 DEF Room, Least2
  <2> QED  BY <1>3, <2>1, <2>4, <2>5 DEF BudgetsOK
<1> QED  BY <1>5, <1>6, <1>7

LEMMA ResetRoom ==
    ASSUME BudgetsOK(budget, share), NEW ks, ResetBudgets(ks), Account \in ks
    PROVE  BudgetsOK(budget', share')
<1>1. /\ NoBudget \in [count: Nat, left: Nat] /\ NoBudget.count = 0 /\ NoBudget.left = 0
      /\ FAIL_TTL \in Nat \ {0} /\ LOCKOUT_THRESHOLD \in Nat \ {0}
  BY ReauthAssumption DEF NoBudget
<1>2. /\ budget' = [k \in BudgetKeys |-> IF k \in ks THEN NoBudget ELSE budget[k]] /\ share' = 0
  BY DEF ResetBudgets
<1>3. /\ budget' \in [BudgetKeys -> [count: Nat, left: Nat]] /\ share' \in Nat
      /\ \A k \in BudgetKeys : (budget'[k].count = 0 => budget'[k].left = 0) /\ budget'[k].left <= FAIL_TTL
  BY <1>1, <1>2 DEF BudgetsOK
<1>4. budget'[Account].left = 0 /\ budget'[StolenSession].count \in Nat /\ budget'[StolenSession].left \in Nat
  BY <1>1, <1>2, <1>3, ReauthKeys
<1>5. Room(budget'[StolenSession], budget'[Account], 0)
  BY <1>1, <1>4 DEF Room, Least2
<1> QED  BY <1>2, <1>3, <1>5 DEF BudgetsOK

LEMMA TickRoom ==
    ASSUME BudgetsOK(budget, share), ReauthTick
    PROVE  BudgetsOK(budget', share')
<1> DEFINE S == budget[StolenSession]
           A == budget[Account]
           Next1(b) == IF b.left <= 1 THEN NoBudget ELSE [b EXCEPT !.left = @ - 1]
<1>1. /\ NoBudget \in [count: Nat, left: Nat] /\ NoBudget.count = 0 /\ NoBudget.left = 0
      /\ FAIL_TTL \in Nat \ {0} /\ LOCKOUT_THRESHOLD \in Nat \ {0}
  BY ReauthAssumption DEF NoBudget
<1>2. \A b \in [count: Nat, left: Nat] :
        /\ Next1(b) \in [count: Nat, left: Nat]
        /\ Next1(b).count = IF b.left <= 1 THEN 0 ELSE b.count
        /\ Next1(b).left = IF b.left <= 1 THEN 0 ELSE b.left - 1
  BY <1>1
<1>3. budget' = [k \in BudgetKeys |-> Next1(budget[k])]
  BY DEF ReauthTick
<1> HIDE DEF Next1
<1>4. /\ budget \in [BudgetKeys -> [count: Nat, left: Nat]] /\ share \in Nat
      /\ \A k \in BudgetKeys : (budget[k].count = 0 => budget[k].left = 0) /\ budget[k].left <= FAIL_TTL
      /\ Room(S, A, share)
  BY DEF BudgetsOK
<1>5. /\ budget' \in [BudgetKeys -> [count: Nat, left: Nat]] /\ share' \in Nat
      /\ \A k \in BudgetKeys : (budget'[k].count = 0 => budget'[k].left = 0) /\ budget'[k].left <= FAIL_TTL
  BY <1>1, <1>2, <1>3, <1>4 DEF ReauthTick
<1>6. /\ budget'[StolenSession].count = IF S.left <= 1 THEN 0 ELSE S.count
      /\ budget'[StolenSession].left = IF S.left <= 1 THEN 0 ELSE S.left - 1
      /\ budget'[Account].count = IF A.left <= 1 THEN 0 ELSE A.count
      /\ budget'[Account].left = IF A.left <= 1 THEN 0 ELSE A.left - 1
      /\ S.left \in Nat /\ S.count \in Nat /\ A.left \in Nat /\ A.count \in Nat
      /\ (S.count = 0 => S.left = 0) /\ (A.count = 0 => A.left = 0)
  BY <1>2, <1>3, <1>4, ReauthKeys
<1>7. share' = share \/ share' = 0
  BY DEF ReauthTick
<1>8. A.left <= 1 => share' = 0
  <2>1. A.left <= 1 => budget'[Account] = NoBudget
    BY <1>3, ReauthKeys DEF Next1
  <2> QED  BY <2>1 DEF ReauthTick
<1>9. Room(budget'[StolenSession], budget'[Account], share')
  BY <1>1, <1>4, <1>5, <1>6, <1>7, <1>8 DEF Room, Least2
<1> QED  BY <1>5, <1>9 DEF BudgetsOK

LEMMA BudgetStep ==
    ASSUME ReauthTyped, BudgetsOK(budget, share), ReauthNext
    PROVE  BudgetsOK(budget', share')
<1>1. CASE UNCHANGED <<budget, share>>
  BY <1>1
<1>2. CASE \E r \in Reqs : ReserveAttempt(r)
  BY <1>2, ReserveRoom
<1>3. CASE \E r \in Reqs : VerifyPassword(r)
  <2>1. CASE UNCHANGED <<budget, share>>
    BY <1>1, <2>1
  <2>2. CASE \E s : ResetBudgets({s, Account})
    BY <2>2, ResetRoom
  <2> QED  BY <1>3, <2>1, <2>2 DEF VerifyPassword
<1>4. CASE UnlockBudget
  BY <1>4, ResetRoom DEF UnlockBudget
<1>5. CASE ReauthTick
  BY <1>5, TickRoom
<1>6. CASE \E r \in Reqs : \/ RecordReauthEvent(r) \/ ReauthDrops(r) \/ MarkRecentReauth(r)
                           \/ ChangePassword(r) \/ RevokeSessions(r) \/ ClearRecentReauth(r)
  BY <1>1, <1>6 DEF RecordReauthEvent, ReauthDrops, MarkRecentReauth, ChangePassword, RevokeSessions,
                    ClearRecentReauth, reauthVars
<1>7. CASE \E r \in Reqs, s \in AllSessions :
              \/ \E b \in BOOLEAN : PostReauth(r, s, b) \/ PostChangePassword(r, s, b) \/ DeleteSessions(r, s, b)
              \/ \E other \in AllSessions : DeleteSession(r, s, other)
              \/ Logout(r, s)
  BY <1>1, <1>7 DEF PostReauth, PostChangePassword, DeleteSessions, DeleteSession, Logout,
                    RequireRecentReauth, reauthVars
<1>8. CASE \E s \in AllSessions : MarkerExpires(s)
  BY <1>1, <1>8 DEF MarkerExpires
<1> QED  BY <1>2, <1>3, <1>4, <1>5, <1>6, <1>7, <1>8 DEF ReauthNext

LEMMA ReauthStart ==
    ASSUME RequestsInit, ReauthInit
    PROVE  ReauthInv
<1>1. /\ NoBudget \in [count: Nat, left: Nat] /\ NoBudget.count = 0 /\ NoBudget.left = 0
      /\ FAIL_TTL \in Nat \ {0} /\ LOCKOUT_THRESHOLD \in Nat \ {0}
  BY ReauthAssumption DEF NoBudget
<1>2. ReauthTyped /\ KeysExpire
  BY <1>1 DEF RequestsInit, ReauthInit, ReauthTyped, KeysExpire
<1>3. RoomInv
  BY <1>1, ReauthKeys DEF ReauthInit, RoomInv, Room, Least2
<1>4. ProofInv
  BY ReauthShapes DEF RequestsInit, ReauthInit, ProofInv, HasRecentReauth
<1> QED  BY <1>2, <1>3, <1>4 DEF ReauthInv

LEMMA ReauthStep ==
    ASSUME ReauthInv, [ReauthNext]_<<req, started, reauthVars>>
    PROVE  ReauthInv'
<1>1. CASE UNCHANGED <<req, started, reauthVars>>
  BY <1>1 DEF ReauthInv, ReauthTyped, KeysExpire, RoomInv, ProofInv, UpToDate, HasRecentReauth, reauthVars
<1>2. CASE ReauthNext
  <2>1. ReauthTyped /\ ProofInv /\ BudgetsOK(budget, share)
    BY DEF ReauthInv, ReauthTyped, KeysExpire, RoomInv, BudgetsOK
  <2>2. BudgetsOK(budget', share')
    BY <1>2, <2>1, BudgetStep
  <2>3. KeysExpire' /\ RoomInv'
    BY <2>2 DEF KeysExpire, RoomInv, BudgetsOK
  <2>4. ProofInv'
    BY <1>2, <2>1, ProofStep
  <2>5. /\ req' \in [Reqs -> {Idle} \cup Proving \cup Changing \cup Ending]
        /\ live' \subseteq AllSessions /\ password' \in Nat /\ DOMAIN marker' = AllSessions
    BY <1>2, <2>1, ReauthRequests, ReauthWorld DEF ReauthTyped
  <2>6. ReauthTyped'
    BY <2>2, <2>5 DEF ReauthTyped, BudgetsOK
  <2> QED  BY <2>3, <2>4, <2>6 DEF ReauthInv
<1> QED  BY <1>1, <1>2

\* verify_password: however many sessions the owner has and however requests, expiries and
\* resets overlap, a thief who guesses through one session never takes twice its budget
\* of the account's.
THEOREM RoomForTheOwner == ReauthSpec => []OwnerKeepsRoom
<1>1. RequestsInit /\ ReauthInit => ReauthInv
  BY ReauthStart
<1>2. ReauthInv /\ [ReauthNext]_<<req, started, reauthVars>> => ReauthInv'
  BY ReauthStep
<1>3. ReauthInv => OwnerKeepsRoom
  <2>1. SUFFICES ASSUME ReauthInv PROVE OwnerKeepsRoom
    OBVIOUS
  <2>2. budget[StolenSession].count \in Nat /\ share \in Nat /\ LOCKOUT_THRESHOLD \in Nat \ {0}
    BY <2>1, ReauthKeys, ReauthAssumption DEF ReauthInv, ReauthTyped
  <2> QED  BY <2>1, <2>2 DEF ReauthInv, RoomInv, Room, Least2, OwnerKeepsRoom
<1> QED  BY <1>1, <1>2, <1>3, PTL DEF ReauthSpec

\* change_password: a proof of a former password, also one still being recorded when the
\* password changed, marks no session that stands but the one it was changed from.
THEOREM ProofsAreCurrent == ReauthSpec => []ProofIsOfThisPassword
<1>1. RequestsInit /\ ReauthInit => ReauthInv
  BY ReauthStart
<1>2. ReauthInv /\ [ReauthNext]_<<req, started, reauthVars>> => ReauthInv'
  BY ReauthStep
<1>3. ReauthInv => ProofIsOfThisPassword
  BY DEF ReauthInv, ReauthTyped, ProofInv, UpToDate, ProofIsOfThisPassword
<1> QED  BY <1>1, <1>2, <1>3, PTL DEF ReauthSpec

-----------------------------------------------------------------------------
(***************************************************************************)
(* Registered clients.  A transaction that saw the row has it locked, one  *)
(* at a time, and while it does the row does not become primary.           *)
(***************************************************************************)
IsChange(x) ==
    /\ x = [pc |-> x.pc, op |-> x.op, client |-> x.client, settings |-> x.settings,
            locked |-> x.locked, seen |-> x.seen, serial |-> x.serial]
    /\ x.client \in ClientIds

IsSignIn(x) == x = [pc |-> x.pc, client |-> x.client, secret |-> x.secret, read |-> x.read]

IsRequest(x) ==
    /\ x.pc \in {"lock", "apply"} => IsChange(x)
    /\ x.pc = "identify" => IsSignIn(x)

Holds(x, c) == x.pc = "apply" /\ x.client = c /\ x.locked

ClientsTyped ==
    /\ DOMAIN req = Reqs
    /\ \A r \in Reqs : IsRequest(req[r])
    /\ DOMAIN client = ClientIds

LockedInv ==
    /\ \A r \in Reqs : req[r].pc = "apply" => req[r].seen = req[r].locked
    /\ \A r, s \in Reqs, c \in ClientIds : Holds(req[r], c) /\ Holds(req[s], c) => r = s
    /\ \A r \in Reqs, c \in ClientIds : Holds(req[r], c) => ~client[c].primary

ClientsInv == ClientsTyped /\ LockedInv /\ PrimaryIsTheOperators

\* A step after which a request holds no row, and no row becomes primary.
LEMMA NothingHeld ==
    ASSUME ClientsInv, NEW r \in Reqs, NEW x, req' = [req EXCEPT ![r] = x],
           x.pc # "apply", IsRequest(x),
           UNCHANGED <<client, overwritten>>
    PROVE  ClientsInv'
<1>1. req' = [p \in Reqs |-> IF p = r THEN x ELSE req[p]]
  BY DEF ClientsInv, ClientsTyped
<1>2. ClientsTyped'
  BY <1>1 DEF ClientsInv, ClientsTyped
<1>3. LockedInv'
  BY <1>1 DEF ClientsInv, LockedInv, Holds
<1> QED  BY <1>2, <1>3 DEF ClientsInv, PrimaryIsTheOperators

LEMMA ClientsDone ==
    ASSUME ClientsInv, NEW r \in Reqs, Done(r), UNCHANGED <<client, overwritten>>
    PROVE  ClientsInv'
<1>1. Idle.pc = "idle" /\ req' = [req EXCEPT ![r] = Idle]
  BY DEF Idle, Done
<1> QED  BY <1>1, NothingHeld DEF IsRequest

LEMMA ChangeBegins ==
    ASSUME ClientsInv, NEW r \in Reqs, NEW c \in ClientIds, NEW settings, NEW op, AdminChange(r, op, c, settings)
    PROVE  ClientsInv'
<1>1. PICK x : x = [pc |-> "lock", op |-> op, client |-> c, settings |-> settings,
                    locked |-> FALSE, seen |-> FALSE, serial |-> Serial]
  OBVIOUS
<1>2. IsChange(x) /\ x.pc = "lock"
  BY <1>1 DEF IsChange
<1>3. req' = [req EXCEPT ![r] = x] /\ UNCHANGED <<client, overwritten>>
  BY <1>1 DEF AdminChange, Begin, clientVars
<1> QED  BY <1>2, <1>3, NothingHeld DEF IsRequest

\* lock_existing: who finds the row takes it, unlocked and not primary.
LEMMA RowTaken ==
    ASSUME ClientsInv, NEW r \in Reqs, RefusePrimary(r)
    PROVE  ClientsInv'
<1> DEFINE x == req[r]
<1>1. IsChange(x) /\ UNCHANGED clientVars
  BY DEF ClientsInv, ClientsTyped, IsRequest, RefusePrimary
<1>2. CASE client[x.client].primary
  BY <1>1, <1>2, ClientsDone DEF RefusePrimary, clientVars
<1>3. CASE ~client[x.client].primary
  <2>1. PICK y : y = [x EXCEPT !.pc = "apply", !.locked = LockExisting(x.client), !.seen = client[x.client].exists]
    OBVIOUS
  <2>2. /\ IsChange(y) /\ y.pc = "apply" /\ y.client = x.client
        /\ y.locked = client[x.client].exists /\ y.seen = y.locked
    BY <1>1, <2>1 DEF IsChange, LockExisting
  <2>3. req' = [req EXCEPT ![r] = y]
    BY <1>3, <2>1 DEF RefusePrimary
  <2>4. req' = [p \in Reqs |-> IF p = r THEN y ELSE req[p]]
    BY <2>3 DEF ClientsInv, ClientsTyped
  <2>5. \A s \in Reqs : ~Holds(req[s], x.client)
    BY DEF RefusePrimary, RowLocked, Holds
  <2>6. ClientsTyped'
    BY <1>1, <2>2, <2>4 DEF ClientsInv, ClientsTyped, IsRequest, clientVars
  <2>7. LockedInv'
    <3>1. \A s \in Reqs : req'[s].pc = "apply" => req'[s].seen = req'[s].locked
      BY <2>2, <2>4 DEF ClientsInv, LockedInv
    <3>2. \A s, t \in Reqs, c \in ClientIds : Holds(req'[s], c) /\ Holds(req'[t], c) => s = t
      BY <2>2, <2>4, <2>5 DEF ClientsInv, LockedInv, Holds
    <3>3. \A s \in Reqs, c \in ClientIds : Holds(req'[s], c) => ~client'[c].primary
      BY <1>1, <1>3, <2>2, <2>4 DEF ClientsInv, LockedInv, Holds, clientVars
    <3> QED  BY <3>1, <3>2, <3>3 DEF LockedInv, Holds
  <2> QED  BY <1>1, <2>6, <2>7 DEF ClientsInv, PrimaryIsTheOperators, clientVars
<1> QED  BY <1>2, <1>3

\* A change of a row that nobody else holds.
LEMMA RowWritten ==
    ASSUME ClientsInv, NEW c \in ClientIds, NEW value, client' = [client EXCEPT ![c] = value],
           DOMAIN req' = Reqs, overwritten' = overwritten,
           \A s \in Reqs : req'[s] = req[s] \/ req'[s] = Idle,
           \A s \in Reqs : ~Holds(req'[s], c)
    PROVE  ClientsInv'
<1>1. Idle.pc = "idle"
  BY DEF Idle
<1>2. ClientsTyped'
  BY <1>1 DEF ClientsInv, ClientsTyped, IsRequest
<1>3. \A s \in Reqs : req'[s].pc = "apply" => req'[s] = req[s]
  BY <1>1
<1>4. \A s \in Reqs, d \in ClientIds : Holds(req'[s], d) => Holds(req[s], d) /\ client'[d] = client[d]
  BY <1>3 DEF Holds, ClientsInv, ClientsTyped
<1>5. LockedInv'
  BY <1>3, <1>4 DEF ClientsInv, LockedInv, Holds
<1> QED  BY <1>2, <1>5 DEF ClientsInv, PrimaryIsTheOperators

LEMMA ClientsStep ==
    ASSUME ClientsInv, [ClientsNext]_<<req, started, clientVars>>
    PROVE  ClientsInv'
<1>1. CASE UNCHANGED <<req, started, clientVars>>
  BY <1>1 DEF ClientsInv, ClientsTyped, LockedInv, Holds, PrimaryIsTheOperators, clientVars
<1>2. CASE \E r \in Reqs, c \in ClientIds :
              \/ \E settings \in Settings : SaveClient(r, c, settings)
              \/ DeleteClient(r, c) \/ RotateSecret(r, c) \/ RemoveSecret(r, c)
  BY <1>2, ChangeBegins DEF SaveClient, DeleteClient, RotateSecret, RemoveSecret
<1>3. ASSUME NEW r \in Reqs, NEW c \in ClientIds, NEW secret, AuthenticateClient(r, c, secret)
      PROVE  ClientsInv'
  <2>1. PICK x : x = [pc |-> "identify", client |-> c, secret |-> secret, read |-> NoClient]
    OBVIOUS
  <2>2. x.pc = "identify" /\ IsRequest(x) /\ req' = [req EXCEPT ![r] = x] /\ UNCHANGED <<client, overwritten>>
    BY <1>3, <2>1 DEF AuthenticateClient, Begin, clientVars, IsRequest, IsSignIn
  <2> QED  BY <2>2, NothingHeld
<1>4. CASE \E r \in Reqs : RefusePrimary(r)
  BY <1>4, RowTaken
<1>5. ASSUME NEW r \in Reqs, ApplyChange(r) PROVE ClientsInv'
  <2> DEFINE x == req[r]
             c == req[r].client
  <2>1. IsChange(x) /\ c \in ClientIds /\ x.pc = "apply"
    BY <1>5 DEF ClientsInv, ClientsTyped, IsRequest, ApplyChange, IsChange
  <2>2. x.locked => Holds(x, c)
    BY <2>1 DEF Holds
  <2>3. x.seen => ~client[c].primary
    BY <2>1, <2>2 DEF ClientsInv, LockedInv
  <2>4. req' = [p \in Reqs |-> IF p = r THEN Idle ELSE req[p]]
    BY <1>5 DEF ApplyChange, Done, ClientsInv, ClientsTyped
  <2>5. \A s \in Reqs : ~Holds(req'[s], c)
    <3>1. \A s \in Reqs \ {r} : ~Holds(req[s], c)
      BY <1>5, <2>1, <2>2 DEF ApplyChange, RowLocked, ClientsInv, LockedInv, Holds
    <3>2. ~Holds(Idle, c)
      BY DEF Holds, Idle
    <3> QED  BY <2>4, <3>1, <3>2
  <2>6. client' = [client EXCEPT ![c] = Changed(x)] /\ overwritten' = overwritten
    BY <1>5, <2>3 DEF ApplyChange
  <2> QED  BY <2>1, <2>4, <2>5, <2>6, RowWritten
<1>6. ASSUME NEW c \in ClientIds, NEW primary, NEW scoped, RegisterClient(c, primary, scoped) PROVE ClientsInv'
  <2>1. \A s \in Reqs : ~Holds(req[s], c)
    BY <1>6 DEF RegisterClient, RowLocked, Holds
  <2>2. req' = req /\ overwritten' = overwritten /\ client' = [client EXCEPT ![c] = Upsert(c, primary, scoped)]
    BY <1>6 DEF RegisterClient, Single
  <2> QED  BY <2>1, <2>2, RowWritten DEF ClientsInv, ClientsTyped
<1>7. ASSUME NEW r \in Reqs, IdentifyClient(r) PROVE ClientsInv'
  <2>1. CASE Done(r)
    BY <1>7, <2>1, ClientsDone DEF IdentifyClient, clientVars
  <2>2. req[r] = [pc |-> req[r].pc, client |-> req[r].client, secret |-> req[r].secret, read |-> req[r].read]
    BY <1>7 DEF IdentifyClient, ClientsInv, ClientsTyped, IsRequest, IsSignIn
  <2>3. ASSUME NEW x, req' = [req EXCEPT ![r] = x], x.pc \in {"grant", "miss"} PROVE ClientsInv'
    BY <1>7, <2>3, NothingHeld DEF IdentifyClient, clientVars, IsRequest
  <2>4. CASE Goto(r, "miss")
    <3>1. PICK x : x = [req[r] EXCEPT !.pc = "miss"]
      OBVIOUS
    <3> QED  BY <2>2, <2>3, <2>4, <3>1 DEF Goto
  <2>5. CASE \E found : req' = [req EXCEPT ![r].pc = "grant", ![r].read = found]
    <3>1. PICK found : req' = [req EXCEPT ![r].pc = "grant", ![r].read = found]
      BY <2>5
    <3>2. PICK x : x = [req[r] EXCEPT !.pc = "grant", !.read = found]
      OBVIOUS
    <3>3. x.pc = "grant"
      BY <2>2, <3>2
    <3>4. req' = [req EXCEPT ![r] = x]
      BY <3>1, <3>2 DEF ClientsInv, ClientsTyped
    <3> QED  BY <2>3, <3>3, <3>4
  <2> QED  BY <1>7, <2>1, <2>4, <2>5 DEF IdentifyClient
<1>8. CASE \E r \in Reqs : CountMiss(r) \/ ClientCredentials(r) \/ ClientsDrop(r)
  BY <1>8, ClientsDone DEF CountMiss, ClientCredentials, ClientsDrop, clientVars
<1>9. CASE \E c \in ClientIds : SecretWindowEnds(c)
  BY <1>1, <1>9 DEF SecretWindowEnds, ClientsInv, ClientsTyped, LockedInv, Holds, PrimaryIsTheOperators
<1> QED  BY <1>1, <1>2, <1>3, <1>4, <1>5, <1>6, <1>7, <1>8, <1>9 DEF ClientsNext

\* refuse_primary, lock_existing: for any number of administrators and whatever the command
\* line registers meanwhile, no administrator's transaction changes a client that was made
\* primary after it looked.
THEOREM PrimaryKept == ClientsSpec => []PrimaryIsTheOperators
<1>1. RequestsInit /\ ClientsInit => ClientsInv
  BY DEF RequestsInit, Idle, ClientsInit, ClientsInv, ClientsTyped, IsRequest, LockedInv, Holds, PrimaryIsTheOperators
<1>2. ClientsInv /\ [ClientsNext]_<<req, started, clientVars>> => ClientsInv'
  BY ClientsStep
<1>3. ClientsInv => PrimaryIsTheOperators
  BY DEF ClientsInv
<1> QED  BY <1>1, <1>2, <1>3, PTL DEF ClientsSpec

-----------------------------------------------------------------------------
(***************************************************************************)
(* The audit log.  What every change of it has in common: it adds at most  *)
(* one entry, and then keeps some of the entries, each as it is or with    *)
(* less of a name or an address.                                           *)
(***************************************************************************)
Entry == [id: Int, at: Int, user: People \cup {Nobody}, address: {"full", "network", "none"}]

AuditTyped ==
    /\ month \in Int /\ rotated \in Int
    /\ entries \subseteq Entry /\ logged \subseteq Entry
    /\ IsFiniteSet(entries)
    /\ people \in [People -> {"pending", "active", "gone"}]

\* The partitions made ahead last until the next rotation.
AheadInv ==
    /\ rotated <= month /\ month <= rotated + MaxIdle
    /\ (rotated - 1)..(rotated + LOOKAHEAD_MONTHS) \subseteq partitions

\* The entry as it was written, of an entry of the log.
Origin(e, w) ==
    /\ w.id = e.id /\ w.at = e.at
    /\ w.user = e.user \/ (e.user = Nobody /\ e.address = "none")

TrailInv ==
    /\ \A v, w \in logged : v.id = w.id => v = w
    /\ \A e, f \in entries : e.id = f.id => e = f
    /\ \A e \in entries : \E w \in logged : Origin(e, w)
    /\ \A w \in logged : w.at >= month - FLOOR_MONTHS => \E e \in entries : e.id = w.id
    /\ \A e \in entries : e.at \in partitions
    /\ \A e \in entries : e.user # Nobody => people[e.user] # "gone"

\* A reader has come to the cursor: the pages before it are read, the rest is to come.
Readers ==
    [pc: {"none", "paging", "read"}, of: People \cup {Nobody}, cursor: Entry \cup {Nobody},
     first: SUBSET Int, seen: Seq(SUBSET Int)]

Passed(c, w) == c # Nobody /\ ~Newer(c, w)

ToCome(c, e) == c = Nobody \/ Newer(c, e)

Belongs(e, of) == of = Nobody \/ e.user = of

\* The reader p, of the entries es of which lg were written.
PageOK(p, es, lg) ==
    /\ p \in Readers
    /\ p.first \subseteq {w.id : w \in lg}
    /\ p.cursor # Nobody => \E w \in lg : w.id = p.cursor.id /\ w.at = p.cursor.at
    /\ \A j, k \in 1..Len(p.seen) : j # k => p.seen[j] \cap p.seen[k] = {}
    /\ p.pc = "paging" =>
        \A k \in 1..Len(p.seen) : \A i \in p.seen[k] :
            \E w \in lg : w.id = i /\ Passed(p.cursor, w)
    /\ p.pc # "none" =>
        \A e \in es : e.id \in p.first /\ Belongs(e, p.of) =>
            \/ \E k \in 1..Len(p.seen) : e.id \in p.seen[k]
            \/ p.pc = "paging" /\ ToCome(p.cursor, e)

AuditInv == AuditTyped /\ AheadInv /\ TrailInv /\ PageOK(page, entries, logged)

\* What may become of an entry e that is kept: the same, or with less in it.
Kept(e, f) ==
    /\ f.id = e.id /\ f.at = e.at
    /\ f.user = e.user \/ (f.user = Nobody /\ f.address = "none")
    /\ e.address = "none" => f.address = "none"

\* A change adds the entries N, then keeps K of all, each e as F[e].
LogChange(N, K, F) ==
    /\ N \subseteq Entry /\ IsFiniteSet(N) /\ logged' = logged \cup N
    /\ \A n, m \in N : n = m
    /\ \A n \in N : \A w \in logged : n.id # w.id
    /\ K \subseteq entries \cup N /\ F \in [entries \cup N -> Entry]
    /\ entries' = {F[e] : e \in K}
    /\ \A e \in entries \cup N : Kept(e, F[e])
    /\ \A e \in entries \cup N : e \notin K => e.at < month' - FLOOR_MONTHS
    /\ month' \in Int /\ month <= month'
    /\ \A e \in K : e.at \in partitions'
    /\ \A e \in K : F[e].user # Nobody => people'[F[e].user] # "gone"

\* A change of the log leaves the trail whole.
LEMMA TrailStep ==
    ASSUME AuditTyped, TrailInv, NEW N, NEW K, NEW F, LogChange(N, K, F)
    PROVE  TrailInv' /\ entries' \subseteq Entry /\ logged' \subseteq Entry /\ IsFiniteSet(entries')
<1> FLOOR_MONTHS \in Nat  BY AuditAssumption
<1> entries' \subseteq Entry /\ logged' \subseteq Entry
  BY DEF AuditTyped, LogChange
<1>f. IsFiniteSet(entries')
  <2>1. IsFiniteSet(K)
    BY FS_Union, FS_Subset DEF LogChange, AuditTyped
  <2> DEFINE G == [e \in K |-> F[e]]
  <2>2. G \in Surjection(K, entries')
    BY DEF LogChange, Surjection
  <2> QED  BY <2>1, <2>2, FS_Surjection
<1>u. \A e, f \in entries \cup N : e.id = f.id => e = f
  BY DEF TrailInv, Origin, LogChange
<1>1. \A v, w \in logged' : v.id = w.id => v = w
  BY DEF TrailInv, LogChange
<1>2. \A e, f \in entries' : e.id = f.id => e = f
  BY <1>u DEF LogChange, Kept
<1>3. \A e \in entries' : \E w \in logged' : Origin(e, w)
  <2> TAKE f \in entries'
  <2>1. PICK e \in K : f = F[e]  BY DEF LogChange
  <2>2. e \in entries \cup N /\ Kept(e, f)  BY <2>1 DEF LogChange
  <2>3. \E w \in logged' : Origin(e, w)
    BY <2>2 DEF LogChange, TrailInv, Origin
  <2>4. PICK w \in logged' : Origin(e, w)  BY <2>3
  <2> QED  BY <2>2, <2>4 DEF Origin, Kept
<1>4. \A w \in logged' : w.at >= month' - FLOOR_MONTHS => \E e \in entries' : e.id = w.id
  <2> TAKE w \in logged'
  <2> HAVE w.at >= month' - FLOOR_MONTHS
  <2>1. \E e \in entries \cup N : e.id = w.id /\ e.at = w.at
    <3>1. CASE w \in N  BY <3>1
    <3>2. CASE w \in logged
      <4>1. w.at >= month - FLOOR_MONTHS
        BY <3>2 DEF AuditTyped, LogChange, Entry
      <4>2. PICK e \in entries : e.id = w.id  BY <3>2, <4>1 DEF TrailInv
      <4>3. e.at = w.at  BY <3>2, <4>2 DEF TrailInv, Origin
      <4> QED  BY <4>2, <4>3
    <3> QED  BY <3>1, <3>2 DEF LogChange
  <2>2. PICK e \in entries \cup N : e.id = w.id /\ e.at = w.at  BY <2>1
  <2>3. e \in K
    BY <2>2 DEF LogChange, AuditTyped, Entry
  <2>4. F[e] \in entries' /\ F[e].id = w.id
    BY <2>2, <2>3 DEF LogChange, Kept
  <2> QED  BY <2>4
<1>5. \A e \in entries' : e.at \in partitions'
  BY DEF LogChange, Kept
<1>6. \A e \in entries' : e.user # Nobody => people'[e.user] # "gone"
  BY DEF LogChange
<1> QED  BY <1>f, <1>1, <1>2, <1>3, <1>4, <1>5, <1>6 DEF TrailInv

\* A reader who does not turn the page is where it was.
LEMMA ReaderWaits ==
    ASSUME AuditTyped, TrailInv, NEW N, NEW K, NEW F, LogChange(N, K, F),
           NEW p, PageOK(p, entries, logged)
    PROVE  PageOK(p, entries', logged')
<1>1. logged \subseteq logged'  BY DEF LogChange
<1>2. ASSUME NEW f \in entries', f.id \in p.first, Belongs(f, p.of), p.pc # "none"
      PROVE  \/ \E k \in 1..Len(p.seen) : f.id \in p.seen[k]
             \/ p.pc = "paging" /\ ToCome(p.cursor, f)
  <2>1. PICK e \in K : f = F[e]  BY DEF LogChange
  <2>2. e \in entries \cup N /\ Kept(e, f)  BY <2>1 DEF LogChange
  <2>3. e \in entries /\ e.id = f.id /\ e.at = f.at
    BY <1>2, <2>2 DEF LogChange, PageOK, Kept
  <2>4. Belongs(e, p.of)
    BY <1>2, <2>2 DEF Belongs, Kept
  <2>5. \/ \E k \in 1..Len(p.seen) : e.id \in p.seen[k]
        \/ p.pc = "paging" /\ ToCome(p.cursor, e)
    BY <1>2, <2>3, <2>4 DEF PageOK
  <2>6. ToCome(p.cursor, e) => ToCome(p.cursor, f)
    BY <2>3 DEF ToCome, Newer
  <2> QED  BY <2>3, <2>5, <2>6
<1>3. p.first \subseteq {w.id : w \in logged'}
  BY <1>1 DEF PageOK
<1> QED  BY <1>1, <1>2, <1>3 DEF PageOK

\* Nothing is added and the log is as it was, in a month that may have begun.
LEMMA LogStands ==
    ASSUME AuditTyped, TrailInv, entries' = entries, logged' = logged, people' = people,
           partitions \subseteq partitions', month' \in Int, month <= month'
    PROVE  LogChange({}, entries, [e \in entries |-> e])
<1> QED  BY FS_EmptySet DEF LogChange, AuditTyped, TrailInv, Kept

\* The month that is written has its partition.
LEMMA MonthAhead ==
    ASSUME AuditTyped, AheadInv
    PROVE  month \in partitions
<1> LOOKAHEAD_MONTHS \in Nat /\ MaxIdle \in Nat /\ MaxIdle <= LOOKAHEAD_MONTHS  BY AuditAssumption
<1>1. month \in (rotated - 1)..(rotated + LOOKAHEAD_MONTHS)
  BY DEF AuditTyped, AheadInv
<1> QED  BY <1>1 DEF AheadInv

\* append.
LEMMA Appended ==
    ASSUME AuditTyped, AheadInv, TrailInv, NEW e \in Entry, e.at = month,
           \A w \in logged : e.id # w.id, e.user # Nobody => people[e.user] # "gone",
           entries' = entries \cup {e}, logged' = logged \cup {e},
           UNCHANGED <<month, partitions, people>>
    PROVE  LogChange({e}, entries \cup {e}, [f \in entries \cup {e} |-> f])
<1> DEFINE F == [f \in entries \cup {e} |-> f]
<1>1. IsFiniteSet({e})  BY FS_Singleton
<1>2. F \in [entries \cup {e} -> Entry]  BY DEF AuditTyped
<1>3. \A f \in entries \cup {e} : Kept(f, F[f])  BY DEF Kept
<1>4. entries' = {F[f] : f \in entries \cup {e}}  OBVIOUS
<1>5. \A f \in entries \cup {e} : f.at \in partitions'
  BY MonthAhead DEF TrailInv
<1>6. \A f \in entries \cup {e} : F[f].user # Nobody => people'[F[f].user] # "gone"
  BY DEF TrailInv
<1>7. /\ {e} \subseteq Entry /\ \A n, m \in {e} : n = m
      /\ \A n \in {e} : \A w \in logged : n.id # w.id
  OBVIOUS
<1>8. month' \in Int /\ month <= month'  BY DEF AuditTyped
<1> HIDE DEF F
<1>9. LogChange({e}, entries \cup {e}, F)
  BY <1>1, <1>2, <1>3, <1>4, <1>5, <1>6, <1>7, <1>8 DEF LogChange
<1> QED  BY <1>9 DEF F

\* erase_account and purge_unverified_accounts.
LEMMA Erased ==
    ASSUME AuditTyped, AheadInv, TrailInv, NEW e \in Entry, e.at = month, NEW p \in People,
           \A w \in logged : e.id # w.id, e.user = p,
           entries' = Forgotten(entries \cup {e}, {p}), logged' = logged \cup {e},
           people' = [people EXCEPT ![p] = "gone"],
           UNCHANGED <<month, partitions>>
    PROVE  LogChange({e}, entries \cup {e},
                     [f \in entries \cup {e} |-> IF f.user \in {p} THEN Traceless(f) ELSE f])
<1> DEFINE F == [f \in entries \cup {e} |-> IF f.user \in {p} THEN Traceless(f) ELSE f]
<1>1. IsFiniteSet({e})  BY FS_Singleton
<1>t. \A f \in Entry : Traceless(f) \in Entry /\ Kept(f, Traceless(f)) /\ Traceless(f).user = Nobody
  BY DEF Traceless, Entry, Kept
<1>2. F \in [entries \cup {e} -> Entry]  BY <1>t DEF AuditTyped
<1>3. \A f \in entries \cup {e} : Kept(f, F[f])  BY <1>t DEF Kept, AuditTyped
<1>4. entries' = {F[f] : f \in entries \cup {e}}  BY DEF Forgotten
<1>5. \A f \in entries \cup {e} : f.at \in partitions'
  BY MonthAhead DEF TrailInv
<1>6. \A f \in entries \cup {e} : F[f].user # Nobody => people'[F[f].user] # "gone"
  <2> TAKE f \in entries \cup {e}
  <2> HAVE F[f].user # Nobody
  <2>1. f.user # p /\ F[f] = f  BY <1>t DEF AuditTyped
  <2>2. f \in entries /\ f.user \in People  BY <2>1 DEF AuditTyped, Entry
  <2>3. people[f.user] # "gone"  BY <2>1, <2>2 DEF TrailInv
  <2> QED  BY <2>1, <2>2, <2>3 DEF AuditTyped
<1>7. /\ {e} \subseteq Entry /\ \A n, m \in {e} : n = m
      /\ \A n \in {e} : \A w \in logged : n.id # w.id
  OBVIOUS
<1>8. month' \in Int /\ month <= month'  BY DEF AuditTyped
<1> HIDE DEF F
<1>9. LogChange({e}, entries \cup {e}, F)
  BY <1>1, <1>2, <1>3, <1>4, <1>5, <1>6, <1>7, <1>8 DEF LogChange
<1> QED  BY <1>9 DEF F

\* coarsen_audit_addresses.
LEMMA Coarsened ==
    ASSUME AuditTyped, TrailInv, NEW due,
           entries' = {IF e \in due THEN Coarse(e) ELSE e : e \in entries},
           UNCHANGED <<month, partitions, people, logged>>
    PROVE  LogChange({}, entries, [e \in entries |-> IF e \in due THEN Coarse(e) ELSE e])
<1> DEFINE F == [e \in entries |-> IF e \in due THEN Coarse(e) ELSE e]
<1>t. \A f \in Entry : Coarse(f) \in Entry /\ Kept(f, Coarse(f)) /\ Coarse(f).user = f.user
  BY DEF Coarse, Entry, Kept
<1>2. F \in [entries -> Entry]  BY <1>t DEF AuditTyped
<1>3. \A f \in entries : Kept(f, F[f]) /\ F[f].user = f.user  BY <1>t DEF Kept, AuditTyped
<1>4. entries' = {F[f] : f \in entries}  OBVIOUS
<1> QED  BY <1>2, <1>3, <1>4, FS_EmptySet DEF LogChange, AuditTyped, TrailInv

\* rotate_audit_log_partitions.
LEMMA Rotated ==
    ASSUME AuditTyped, AheadInv, TrailInv, NEW retention \in Retentions, RotateAuditLog(retention),
           UNCHANGED <<month, people, logged>>
    PROVE  /\ \E K, F : LogChange({}, K, F)
           /\ AheadInv' /\ rotated' \in Int
<1> FLOOR_MONTHS \in Nat /\ retention \in Nat /\ LOOKAHEAD_MONTHS \in Nat /\ MaxIdle \in Nat
  BY AuditAssumption
<1>1. CASE UNCHANGED <<partitions, entries, rotated>>
  <2>1. LogChange({}, entries, [e \in entries |-> e])
    BY <1>1, LogStands DEF AuditTyped
  <2> QED  BY <1>1, <2>1 DEF AheadInv, AuditTyped
<1>2. CASE ~ UNCHANGED <<partitions, entries, rotated>>
  <2> DEFINE all == partitions \cup Creates
  <2> DEFINE dropped == IF retention <= 0 THEN {} ELSE {m \in all : m < KeepFrom(retention)}
  <2>1. partitions' = all \ dropped /\ entries' = {e \in entries : e.at \notin dropped} /\ rotated' = month
    BY <1>2 DEF RotateAuditLog
  <2>2. \A m \in Int : m \in dropped => m < month - FLOOR_MONTHS /\ m < month - 1
    BY DEF KeepFrom, AuditTyped
  <2> HIDE DEF dropped
  <2> DEFINE K == {e \in entries : e.at \notin dropped}
  <2> DEFINE F == [e \in entries |-> e]
  <2>3. \A e \in entries : e \notin K => e.at < month' - FLOOR_MONTHS
    BY <2>2 DEF AuditTyped, Entry
  <2>4. \A e \in K : e.at \in partitions'
    BY <2>1 DEF TrailInv
  <2>5. F \in [entries -> Entry] /\ \A e \in entries : Kept(e, F[e])
    BY DEF AuditTyped, Kept
  <2>6. entries' = {F[e] : e \in K}  BY <2>1
  <2>7. LogChange({}, K, F)
    BY <2>3, <2>4, <2>5, <2>6, FS_EmptySet DEF LogChange, AuditTyped, TrailInv
  <2>8. Creates \subseteq partitions'
    BY <2>1, <2>2 DEF Creates, AuditTyped
  <2>9. AheadInv' /\ rotated' \in Int
    BY <2>1, <2>8 DEF AheadInv, Creates, AuditTyped
  <2> QED  BY <2>7, <2>9
<1> QED  BY <1>1, <1>2

\* Every step but the reader's leaves the reader where it was, and changes the log as
\* LogChange says.
LEMMA AuditChange ==
    ASSUME AuditTyped, AheadInv, TrailInv, UpkeepNext
    PROVE  /\ \E N, K, F : LogChange(N, K, F)
           /\ AheadInv' /\ month' \in Int /\ rotated' \in Int
           /\ people' \in [People -> {"pending", "active", "gone"}]
           /\ page' = page
<1> DEFINE Goal == /\ \E N, K, F : LogChange(N, K, F)
                   /\ AheadInv' /\ month' \in Int /\ rotated' \in Int
                   /\ people' \in [People -> {"pending", "active", "gone"}]
                   /\ page' = page
<1> SUFFICES Goal  OBVIOUS
<1> MaxEntries \in Nat /\ Nobody \notin People  BY AuditAssumption
<1>n. ASSUME NEW id \in 1..MaxEntries, NEW user \in People \cup {Nobody}, NEW address \in {"full", "none"}
      PROVE  /\ NewAuditEntry(id, user, address) \in Entry
             /\ NewAuditEntry(id, user, address).at = month
             /\ NewAuditEntry(id, user, address).id = id
             /\ NewAuditEntry(id, user, address).user = user
  BY DEF NewAuditEntry, Entry, AuditTyped
<1>s. ASSUME UNCHANGED <<month, partitions, rotated>>
      PROVE  AheadInv' /\ month' \in Int /\ rotated' \in Int
  BY <1>s DEF AheadInv, AuditTyped
<1>w. ASSUME UNCHANGED <<month, entries, partitions, people, page, rotated, logged>>
      PROVE  Goal
  <2>1. LogChange({}, entries, [e \in entries |-> e])
    BY <1>w, LogStands DEF AuditTyped
  <2> QED  BY <1>w, <1>s, <2>1 DEF AuditTyped
<1>e. ASSUME NEW p \in People, NEW id \in 1..MaxEntries, NEW address \in {"full", "none"},
             id \notin {x.id : x \in logged},
             logged' = logged \cup {NewAuditEntry(id, p, address)},
             entries' = Forgotten(entries \cup {NewAuditEntry(id, p, address)}, {p}),
             people' = [people EXCEPT ![p] = "gone"],
             UNCHANGED <<month, partitions, page, rotated>>
      PROVE  Goal
  <2>1. PICK e : e = NewAuditEntry(id, p, address)  OBVIOUS
  <2>2. e \in Entry /\ e.at = month /\ e.user = p /\ \A w \in logged : e.id # w.id
    BY <1>e, <1>n, <2>1
  <2>3. \E N, K, F : LogChange(N, K, F)
    BY <1>e, <2>1, <2>2, Erased
  <2> QED  BY <1>e, <1>s, <2>3 DEF AuditTyped
<1>1. CASE Record
  <2>1. PICK id \in 1..MaxEntries, user \in People \cup {Nobody} : AppendEntry(id, user, "full")
    BY <1>1 DEF Record
  <2>2. PICK e : e = NewAuditEntry(id, user, "full")  OBVIOUS
  <2>3. e \in Entry /\ e.at = month /\ e.user = user /\ \A w \in logged : e.id # w.id
    BY <1>n, <2>1, <2>2 DEF AppendEntry
  <2>4. entries' = entries \cup {e} /\ logged' = logged \cup {e} /\ (e.user # Nobody => people[e.user] # "gone")
    BY <2>1, <2>2, <2>3 DEF AppendEntry
  <2>5. \E N, K, F : LogChange(N, K, F)
    BY <1>1, <2>3, <2>4, Appended DEF Record
  <2> QED  BY <1>1, <1>s, <2>5 DEF AuditTyped, Record
<1>2. CASE NextMonth
  <2>1. LogChange({}, entries, [e \in entries |-> e])
    BY <1>2, LogStands DEF AuditTyped, NextMonth
  <2>2. AheadInv'
    BY <1>2, AuditAssumption DEF AheadInv, NextMonth, AuditTyped
  <2> QED  BY <1>2, <2>1, <2>2 DEF AuditTyped, NextMonth
<1>3. ASSUME NEW p \in People, Erase(p)  PROVE Goal
  BY <1>3, <1>e DEF Erase
<1>4. ASSUME NEW i \in Instances, StartUp(i)  PROVE Goal
  <2>1. PICK retention \in Retentions : RotateAuditLog(retention)  BY <1>4 DEF StartUp
  <2>2. UNCHANGED <<month, people, logged, page>>  BY <1>4 DEF StartUp
  <2> QED  BY <2>1, <2>2, Rotated DEF AuditTyped
<1>5. ASSUME NEW p \in People, Verify(p)  PROVE Goal
  <2>1. LogChange({}, entries, [e \in entries |-> e])
    BY <1>5, FS_EmptySet DEF LogChange, AuditTyped, TrailInv, Kept, Verify, Entry
  <2>2. people' \in [People -> {"pending", "active", "gone"}]
    BY <1>5 DEF AuditTyped, Verify
  <2> QED  BY <1>5, <1>s, <2>1, <2>2 DEF Verify
<1>6. ASSUME NEW i \in Instances, RunOnce(i) \/ CoarsenFind(i) \/ TaskStops(i)  PROVE Goal
  BY <1>6, <1>w DEF RunOnce, CoarsenFind, TaskStops
<1>7. ASSUME NEW i \in Instances, CoarsenUpdate(i)  PROVE Goal
  <2> DEFINE due == {e \in entries : e.id \in task[i].due}
  <2>1. CASE UNCHANGED entries
    BY <1>7, <1>w, <2>1 DEF CoarsenUpdate
  <2>2. CASE entries' = {IF e \in due THEN Coarse(e) ELSE e : e \in entries}
    <3>1. \E N, K, F : LogChange(N, K, F)
      BY <1>7, <2>2, Coarsened DEF CoarsenUpdate
    <3> QED  BY <1>7, <1>s, <3>1 DEF CoarsenUpdate, AuditTyped
  <2> QED  BY <1>7, <2>1, <2>2 DEF CoarsenUpdate
<1>8. ASSUME NEW i \in Instances, PurgeUnverified(i)  PROVE Goal
  <2>1. CASE UNCHANGED <<entries, logged, people>>
    BY <1>8, <1>w, <2>1 DEF PurgeUnverified
  <2>2. CASE \E p \in People, id \in 1..MaxEntries :
                /\ id \notin {x.id : x \in logged}
                /\ logged' = logged \cup {NewAuditEntry(id, p, "none")}
                /\ entries' = Forgotten(entries \cup {NewAuditEntry(id, p, "none")}, {p})
                /\ people' = [people EXCEPT ![p] = "gone"]
    <3>1. UNCHANGED <<month, partitions, page, rotated>>  BY <1>8 DEF PurgeUnverified
    <3> QED  BY <2>2, <3>1, <1>e
  <2> QED  BY <1>8, <2>1, <2>2 DEF PurgeUnverified
<1>9. ASSUME NEW i \in Instances, TaskRotates(i)  PROVE Goal
  <2>1. PICK retention \in Retentions : RotateAuditLog(retention)  BY <1>9 DEF TaskRotates
  <2>2. UNCHANGED <<month, people, logged, page>>  BY <1>9 DEF TaskRotates
  <2> QED  BY <2>1, <2>2, Rotated DEF AuditTyped
<1> HIDE DEF Goal
<1> QED  BY <1>1, <1>2, <1>3, <1>4, <1>5, <1>6, <1>7, <1>8, <1>9 DEF UpkeepNext, WriteNext

-----------------------------------------------------------------------------
(***************************************************************************)
(* The order of the log: by time, then by id.                              *)
(***************************************************************************)
LEMMA NewerIsAnOrder ==
    ASSUME NEW e \in Entry, NEW f \in Entry, NEW g \in Entry
    PROVE  /\ ~Newer(e, e)
           /\ Newer(e, f) /\ Newer(f, g) => Newer(e, g)
           /\ e.id # f.id => Newer(e, f) \/ Newer(f, e)
  BY DEF Newer, Entry

\* Every set of numbers has a least one.
LEMMA Least ==
    ASSUME NEW T, T \subseteq Nat, T # {}
    PROVE  \E n \in T : \A m \in T : n <= m
<1>1. \E x \in T : \A y \in T : <<y, x>> \notin OpToRel(<, Nat)
  BY NatLessThanWellFounded, WFMin, Zenon
<1>2. \E x \in T : \A y \in T : ~(y < x)
  BY <1>1, Zenon DEF OpToRel
<1> QED  BY <1>2

\* A finite set that is not empty has a minimal element in any order Q.
LEMMA Minimal ==
    ASSUME NEW S, IsFiniteSet(S), S # {}, NEW Q,
           \A x \in S : <<x, x>> \notin Q,
           \A x, y, z \in S : <<x, y>> \in Q /\ <<y, z>> \in Q => <<x, z>> \in Q
    PROVE  \E x \in S : \A y \in S : <<y, x>> \notin Q
<1> DEFINE Below(x) == {y \in S : <<y, x>> \in Q}
           T == {Cardinality(Below(x)) : x \in S}
<1>1. \A x \in S : IsFiniteSet(Below(x)) /\ Cardinality(Below(x)) \in Nat
  BY FS_Subset, FS_CardinalityType
<1>2. T \subseteq Nat /\ T # {}
  <2>1. ASSUME NEW n \in T  PROVE n \in Nat
    <3>1. PICK x \in S : n = Cardinality(Below(x))  BY Zenon
    <3> HIDE DEF Below
    <3> QED  BY <1>1, <3>1
  <2>2. PICK x : x \in S  OBVIOUS
  <2>3. Cardinality(Below(x)) \in T  BY <2>2, Zenon
  <2> HIDE DEF T
  <2> QED  BY <2>1, <2>3
<1>3. PICK n \in T : \A m \in T : n <= m  
  <2> HIDE DEF T
  <2> QED  BY <1>2, Least
<1>4. PICK x \in S : n = Cardinality(Below(x))  OBVIOUS
<1>5. ASSUME NEW y \in S, <<y, x>> \in Q  PROVE FALSE
  <2>1. Below(y) \in SUBSET Below(x)  BY <1>5
  <2>2. y \in Below(x) /\ y \notin Below(y)  BY <1>5
  <2>a. Cardinality(Below(y)) \in T  BY Zenon
  <2> HIDE DEF Below, T
  <2>3. Cardinality(Below(x)) <= Cardinality(Below(y))  BY <1>3, <1>4, <2>a
  <2>4. Cardinality(Below(y)) <= Cardinality(Below(x))
        /\ (Cardinality(Below(x)) = Cardinality(Below(y)) => Below(x) = Below(y))
    BY <1>1, <2>1, FS_Subset
  <2> QED  BY <1>1, <2>2, <2>3, <2>4
<1> QED  BY <1>5

LEMMA Ends ==
    ASSUME NEW S, S \subseteq Entry, IsFiniteSet(S), S # {}
    PROVE  /\ \E e \in S : \A f \in S : ~Newer(f, e)
           /\ \E e \in S : \A f \in S : ~Newer(e, f)
<1> DEFINE Q == {p \in S \X S : Newer(p[1], p[2])}
           R == {p \in S \X S : Newer(p[2], p[1])}
<1>q. \A x, y \in S : <<x, y>> \in Q <=> Newer(x, y)  OBVIOUS
<1>r. \A x, y \in S : <<x, y>> \in R <=> Newer(y, x)  OBVIOUS
<1> HIDE DEF Q, R
<1>1. \A x \in S : <<x, x>> \notin Q /\ <<x, x>> \notin R
  BY <1>q, <1>r, NewerIsAnOrder
<1>2. \A x, y, z \in S : <<x, y>> \in Q /\ <<y, z>> \in Q => <<x, z>> \in Q
  BY <1>q, NewerIsAnOrder
<1>3. \A x, y, z \in S : <<x, y>> \in R /\ <<y, z>> \in R => <<x, z>> \in R
  BY <1>r, NewerIsAnOrder
<1>4. \E e \in S : \A f \in S : <<f, e>> \notin Q  BY <1>1, <1>2, Minimal
<1>5. \E e \in S : \A f \in S : <<f, e>> \notin R  BY <1>1, <1>3, Minimal
<1> QED  BY <1>4, <1>5, <1>q, <1>r

\* split_page: a page with more behind it has rows, and the last of them is the cursor:
\* no row is before it on the page, and every row left out is behind it.  Without more,
\* every row is on the page.
LEMMA PageSplit ==
    ASSUME NEW rows, rows \subseteq Entry, IsFiniteSet(rows),
           \A e, f \in rows : e.id = f.id => e = f,
           NEW limit \in Nat \ {0},
           NEW split, split = SplitPage(rows, limit)
    PROVE  /\ split.rows \subseteq rows
           /\ split.more => /\ Cursor(split.rows) \in split.rows
                            /\ \A e \in split.rows : ~Newer(Cursor(split.rows), e)
                            /\ \A e \in rows \ split.rows : Newer(Cursor(split.rows), e)
           /\ ~split.more => split.rows = rows
<1> DEFINE Ahead(e) == {f \in rows : Newer(f, e)}
<1>1. /\ split.rows = {e \in rows : Cardinality(Ahead(e)) < limit}
      /\ split.more = (Cardinality(rows) > limit)
  BY DEF SplitPage
<1>2. \A e \in rows : Ahead(e) \in SUBSET rows /\ e \notin Ahead(e)
  BY NewerIsAnOrder
<1>3. \A e, f \in rows : Newer(e, f) => Ahead(e) \in SUBSET Ahead(f)
  BY NewerIsAnOrder
<1>z. \A e \in rows : (\A f \in rows : ~Newer(f, e)) => Ahead(e) = {}
  OBVIOUS
<1> HIDE DEF Ahead
<1>4. \A e \in rows : IsFiniteSet(Ahead(e)) /\ Cardinality(Ahead(e)) \in Nat
  BY <1>2, FS_Subset, FS_CardinalityType
<1>5. Cardinality(rows) \in Nat  BY FS_CardinalityType
<1>6. ~split.more => split.rows = rows
  <2> SUFFICES ASSUME ~split.more, NEW e \in rows  PROVE Cardinality(Ahead(e)) < limit
    BY <1>1
  <2>1. Cardinality(Ahead(e)) <= Cardinality(rows)
        /\ (Cardinality(rows) = Cardinality(Ahead(e)) => rows = Ahead(e))
    BY <1>2, FS_Subset
  <2>2. ~(Cardinality(rows) > limit) /\ rows # Ahead(e)  BY <1>1, <1>2
  <2> QED  BY <1>4, <1>5, <2>1, <2>2
<1>7. ASSUME split.more
      PROVE  /\ Cursor(split.rows) \in split.rows
             /\ \A e \in split.rows : ~Newer(Cursor(split.rows), e)
             /\ \A e \in rows \ split.rows : Newer(Cursor(split.rows), e)
  <2>1. rows # {}
    <3>1. Cardinality(rows) > limit  BY <1>1, <1>7
    <3> QED  BY <3>1, FS_EmptySet
  <2>2. PICK n \in rows : \A f \in rows : ~Newer(f, n)  BY <2>1, Ends
  <2>3. n \in split.rows
    <3>1. Cardinality(Ahead(n)) = 0  BY <1>z, <2>2, FS_EmptySet
    <3> QED  BY <1>1, <3>1
  <2>4. IsFiniteSet(split.rows) /\ split.rows \subseteq Entry
    BY <1>1, FS_Subset
  <2>5. \E e \in split.rows : \A f \in split.rows : ~Newer(e, f)
    BY <2>3, <2>4, Ends
  <2>6. PICK c : c = Cursor(split.rows)  OBVIOUS
  <2>7. c \in split.rows /\ \A f \in split.rows : ~Newer(c, f)
    BY <2>5, <2>6 DEF Cursor
  <2>8. ASSUME NEW e \in rows \ split.rows  PROVE Newer(c, e)
    <3> SUFFICES ASSUME ~Newer(c, e)  PROVE FALSE  OBVIOUS
    <3>1. c \in rows /\ Cardinality(Ahead(c)) < limit /\ ~(Cardinality(Ahead(e)) < limit)
      BY <1>1, <2>7
    <3>2. Newer(e, c)  BY <2>7, <3>1, NewerIsAnOrder
    <3>3. Cardinality(Ahead(e)) <= Cardinality(Ahead(c))
      BY <1>3, <1>4, <3>1, <3>2, FS_Subset
    <3> QED  BY <1>4, <3>1, <3>3
  <2> QED  BY <2>6, <2>7, <2>8
<1> QED  BY <1>1, <1>6, <1>7

\* find_page, find_page_by_user: the reader turns the page.
LEMMA PageTurned ==
    ASSUME AuditTyped, TrailInv, PageOK(page, entries, logged), page.pc = "paging",
           NEW requested \in PageLimits, NextPage(requested)
    PROVE  PageOK(page', entries, logged)
<1> Nobody \notin Entry /\ MAX_LIMIT \in Nat \ {0} /\ requested \in Int
  BY AuditAssumption DEF Entry
<1> DEFINE rows == FindPage(page.of, page.cursor)
<1>1. PICK limit : limit = PageLimit(requested)  OBVIOUS
<1>2. PICK split : split = SplitPage(rows, limit)  OBVIOUS
<1>3. limit \in Nat \ {0}  BY <1>1 DEF PageLimit
<1>4. /\ rows \subseteq entries /\ rows \subseteq Entry /\ IsFiniteSet(rows)
      /\ \A e \in entries : e \in rows <=> Belongs(e, page.of) /\ ToCome(page.cursor, e)
  <2>1. /\ rows \subseteq entries
        /\ \A e \in entries : e \in rows <=> Belongs(e, page.of) /\ ToCome(page.cursor, e)
    BY DEF FindPage, Belongs, ToCome
  <2> QED  BY <2>1, FS_Subset DEF AuditTyped
<1> HIDE DEF rows
<1>5. PICK c : c = Cursor(split.rows)  OBVIOUS
<1>6. /\ split.rows \subseteq rows
      /\ split.more => /\ c \in split.rows
                       /\ \A e \in split.rows : ~Newer(c, e)
                       /\ \A e \in rows \ split.rows : Newer(c, e)
      /\ ~split.more => split.rows = rows
  <2>1. \A e, f \in rows : e.id = f.id => e = f  BY <1>4 DEF TrailInv
  <2> QED  BY <1>2, <1>3, <1>4, <1>5, <2>1, PageSplit
<1>7. PICK ids : ids = {e.id : e \in split.rows}  OBVIOUS
<1>8. ids \in SUBSET Int
  BY <1>4, <1>6, <1>7 DEF Entry
<1>9. page' = [page EXCEPT !.seen = Append(page.seen, ids),
                           !.cursor = IF split.more THEN c ELSE page.cursor,
                           !.pc = IF split.more THEN "paging" ELSE "read"]
  BY <1>1, <1>2, <1>5, <1>7 DEF NextPage, rows
<1>10. page \in Readers /\ page.seen \in Seq(SUBSET Int) /\ Len(page.seen) \in Nat
  BY DEF PageOK, Readers
<1>11. /\ page'.seen = Append(page.seen, ids)
       /\ page'.cursor = IF split.more THEN c ELSE page.cursor
       /\ page'.pc = IF split.more THEN "paging" ELSE "read"
       /\ page'.first = page.first /\ page'.of = page.of
  BY <1>9, <1>10 DEF Readers
<1>12. /\ Len(page'.seen) = Len(page.seen) + 1
       /\ page'.seen[Len(page.seen) + 1] = ids
       /\ \A k \in 1..Len(page.seen) : page'.seen[k] = page.seen[k]
  BY <1>8, <1>10, <1>11
<1>13. split.more => c \in Entry /\ c # Nobody /\ c \in rows
  BY <1>4, <1>6
<1>14. page' \in Readers
  <2>1. page'.seen \in Seq(SUBSET Int)  BY <1>8, <1>10, <1>11
  <2>2. page'.cursor \in Entry \cup {Nobody}  BY <1>10, <1>11, <1>13 DEF Readers
  <2>3. page' = [pc |-> page'.pc, of |-> page'.of, cursor |-> page'.cursor,
                 first |-> page'.first, seen |-> page'.seen]
    BY <1>9, <1>10 DEF Readers
  <2> QED  BY <1>10, <1>11, <2>1, <2>2, <2>3 DEF Readers
\* Of a row, the entry as it was written stands at the same place.
<1>15. ASSUME NEW e \in rows
       PROVE  \E w \in logged : w.id = e.id /\ w.at = e.at /\ w \in Entry
  BY <1>4 DEF TrailInv, Origin, AuditTyped
<1>16. \A e \in split.rows : e \in rows /\ ToCome(page.cursor, e)
  BY <1>4, <1>6
<1>17. ASSUME NEW k \in 1..Len(page.seen), NEW i \in page.seen[k], i \in ids  PROVE FALSE
  <2>1. PICK w \in logged : w.id = i /\ Passed(page.cursor, w)  BY <1>17 DEF PageOK
  <2>2. PICK e \in split.rows : e.id = i  BY <1>7, <1>17
  <2>3. PICK v \in logged : v.id = e.id /\ v.at = e.at  BY <1>15, <1>16
  <2>4. v = w  BY <2>1, <2>2, <2>3 DEF TrailInv
  <2> QED  BY <1>16, <2>1, <2>2, <2>3, <2>4 DEF Passed, ToCome, Newer
<1>18. \A j, k \in 1..Len(page'.seen) : j # k => page'.seen[j] \cap page'.seen[k] = {}
  <2> SUFFICES ASSUME NEW j \in 1..(Len(page.seen) + 1), NEW k \in 1..(Len(page.seen) + 1), j # k,
                      NEW i, i \in page'.seen[j], i \in page'.seen[k]
               PROVE  FALSE
    BY <1>12
  <2>1. CASE j = Len(page.seen) + 1
    <3>1. k \in 1..Len(page.seen)  BY <1>10, <2>1
    <3> QED  BY <1>12, <1>17, <2>1, <3>1
  <2>2. CASE k = Len(page.seen) + 1
    <3>1. j \in 1..Len(page.seen)  BY <1>10, <2>2
    <3> QED  BY <1>12, <1>17, <2>2, <3>1
  <2>3. CASE j # Len(page.seen) + 1 /\ k # Len(page.seen) + 1
    <3>1. j \in 1..Len(page.seen) /\ k \in 1..Len(page.seen)  BY <1>10, <2>3
    <3> QED  BY <1>12, <3>1 DEF PageOK
  <2> QED  BY <2>1, <2>2, <2>3
<1>19. page'.cursor # Nobody => \E w \in logged : w.id = page'.cursor.id /\ w.at = page'.cursor.at
  BY <1>11, <1>13, <1>15 DEF PageOK
<1>20. ASSUME page'.pc = "paging", NEW k \in 1..Len(page'.seen), NEW i \in page'.seen[k]
       PROVE  \E w \in logged : w.id = i /\ Passed(page'.cursor, w)
  <2>1. split.more /\ page'.cursor = c  BY <1>11, <1>20
  <2>2. CASE k = Len(page.seen) + 1
    <3>1. PICK e \in split.rows : e.id = i  BY <1>7, <1>12, <1>20, <2>2
    <3>2. PICK w \in logged : w.id = e.id /\ w.at = e.at  BY <1>15, <1>16
    <3> QED  BY <1>6, <1>13, <2>1, <3>1, <3>2 DEF Passed, Newer
  <2>3. CASE k # Len(page.seen) + 1
    <3>1. k \in 1..Len(page.seen)  BY <1>10, <1>12, <1>20, <2>3
    <3>2. PICK w \in logged : w.id = i /\ Passed(page.cursor, w)
      BY <1>12, <1>20, <3>1 DEF PageOK
    <3>3. page.cursor \in Entry /\ w \in Entry  BY <1>10, <3>2 DEF Readers, AuditTyped, Passed
    <3>4. Newer(page.cursor, c)  BY <1>6, <1>16, <2>1, <3>2 DEF ToCome, Passed
    <3>5. ~Newer(c, w)  BY <1>13, <2>1, <3>2, <3>3, <3>4, NewerIsAnOrder DEF Passed
    <3> QED  BY <1>13, <2>1, <3>2, <3>5 DEF Passed
  <2> QED  BY <2>2, <2>3
<1>21. ASSUME NEW e \in entries, e.id \in page.first, Belongs(e, page.of)
       PROVE  \/ \E k \in 1..Len(page'.seen) : e.id \in page'.seen[k]
              \/ page'.pc = "paging" /\ ToCome(page'.cursor, e)
  <2>1. CASE \E k \in 1..Len(page.seen) : e.id \in page.seen[k]
    <3>1. PICK k \in 1..Len(page.seen) : e.id \in page.seen[k]  BY <2>1
    <3>2. k \in 1..Len(page'.seen)  BY <1>10, <1>12
    <3> QED  BY <1>12, <3>1, <3>2
  <2>2. CASE e \in split.rows
    <3>1. e.id \in ids  BY <1>7, <2>2
    <3>2. Len(page.seen) + 1 \in 1..Len(page'.seen)  BY <1>10, <1>12
    <3> QED  BY <1>12, <3>1, <3>2
  <2>3. CASE ToCome(page.cursor, e) /\ e \notin split.rows
    <3>1. e \in rows  BY <1>4, <1>21, <2>3
    <3> QED  BY <1>6, <1>11, <2>3, <3>1 DEF ToCome
  <2> QED  BY <1>21, <2>1, <2>2, <2>3 DEF PageOK
<1> QED  BY <1>11, <1>14, <1>18, <1>19, <1>20, <1>21 DEF PageOK

\* A reader who opens the log has nothing behind and everything to come.
LEMMA ReaderOpens ==
    ASSUME AuditTyped, TrailInv, NEW of \in People \cup {Nobody}, NEW mine, mine \subseteq entries
    PROVE  PageOK([pc |-> "paging", of |-> of, cursor |-> Nobody, seen |-> <<>>,
                   first |-> {e.id : e \in mine}], entries, logged)
<1>1. {e.id : e \in mine} \subseteq {w.id : w \in logged}
  BY DEF TrailInv, Origin
<1>2. {e.id : e \in mine} \subseteq Int  BY DEF AuditTyped, Entry
<1>3. PICK first : first = {e.id : e \in mine}  OBVIOUS
<1>4. PICK p : p = [pc |-> "paging", of |-> of, cursor |-> Nobody, seen |-> <<>>, first |-> first]
  OBVIOUS
<1>5. p \in Readers /\ p.first = first /\ p.cursor = Nobody /\ Len(p.seen) = 0 /\ p.pc = "paging"
  BY <1>2, <1>3, <1>4 DEF Readers
<1>6. 1..0 = {}  OBVIOUS
<1>7. PageOK(p, entries, logged)
  BY <1>1, <1>3, <1>5, <1>6 DEF PageOK, ToCome
<1> QED  BY <1>3, <1>4, <1>7

LEMMA NoReaderOK == PageOK(NoReader, entries, logged)
<1>1. PICK p : p = NoReader  OBVIOUS
<1>2. p \in Readers /\ p.first = {} /\ p.cursor = Nobody /\ Len(p.seen) = 0 /\ p.pc = "none"
  BY <1>1 DEF NoReader, Readers
<1>3. 1..0 = {}  OBVIOUS
<1> QED  BY <1>1, <1>2, <1>3 DEF PageOK

LEMMA AuditStarts == AuditInit => AuditInv
<1> SUFFICES ASSUME AuditInit  PROVE AuditInv  OBVIOUS
<1> LOOKAHEAD_MONTHS \in Nat /\ MaxIdle \in Nat  BY AuditAssumption
<1>1. AuditTyped  BY FS_EmptySet DEF AuditInit, AuditTyped
<1>2. AheadInv  BY DEF AuditInit, AheadInv
<1>3. TrailInv  BY DEF AuditInit, TrailInv
<1>4. PageOK(page, entries, logged)  BY NoReaderOK DEF AuditInit
<1> QED  BY <1>1, <1>2, <1>3, <1>4 DEF AuditInv

LEMMA AuditStep == AuditInv /\ [UpkeepNext \/ ReadNext]_auditVars => AuditInv'
<1> SUFFICES ASSUME AuditInv, [UpkeepNext \/ ReadNext]_auditVars  PROVE AuditInv'  OBVIOUS
<1> AuditTyped /\ AheadInv /\ TrailInv /\ PageOK(page, entries, logged)  BY DEF AuditInv
<1> MaxEntries \in Nat /\ Nobody \notin People  BY AuditAssumption
<1>c. ASSUME NEW N, NEW K, NEW F, LogChange(N, K, F), AheadInv', month' \in Int, rotated' \in Int,
             people' \in [People -> {"pending", "active", "gone"}],
             PageOK(page', entries, logged)
      PROVE  AuditInv'
  <2>1. TrailInv' /\ entries' \subseteq Entry /\ logged' \subseteq Entry /\ IsFiniteSet(entries')
    BY <1>c, TrailStep
  <2>2. PageOK(page', entries', logged')  BY <1>c, ReaderWaits
  <2>3. PageOK(page, entries, logged)'  BY <2>2
  <2> QED  BY <1>c, <2>1, <2>3 DEF AuditInv, AuditTyped
<1>p. ASSUME UNCHANGED <<month, entries, partitions, people, rotated, logged>>,
             PageOK(page', entries, logged)
      PROVE  AuditInv'
  <2>1. PageOK(page, entries, logged)'  BY <1>p
  <2>2. AuditTyped' /\ AheadInv' /\ TrailInv'
    BY <1>p DEF AuditTyped, AheadInv, TrailInv, Origin
  <2> QED  BY <2>1, <2>2 DEF AuditInv
<1>1. CASE UpkeepNext
  <2>1. /\ \E N, K, F : LogChange(N, K, F)
        /\ AheadInv' /\ month' \in Int /\ rotated' \in Int
        /\ people' \in [People -> {"pending", "active", "gone"}]
        /\ page' = page
    BY <1>1, AuditChange
  <2> QED  BY <2>1, <1>c
<1>2. ASSUME NEW p \in People, OpenHistory(p)  PROVE AuditInv'
  <2>1. {x \in entries : x.user = p} \subseteq entries  OBVIOUS
  <2> QED  BY <1>2, <1>p, <2>1, ReaderOpens DEF OpenHistory
<1>3. CASE OpenLog
  BY <1>3, <1>p, ReaderOpens DEF OpenLog
<1>4. CASE CloseLog
  BY <1>4, <1>p, NoReaderOK DEF CloseLog
<1>5. ASSUME NEW requested \in PageLimits, ListHistory(requested)  PROVE AuditInv'
  BY <1>5, <1>p, PageTurned DEF ListHistory
<1>6. ASSUME NEW requested \in PageLimits, ListLog(requested)  PROVE AuditInv'
  <2>1. PageOK(page', entries, logged)  BY <1>6, PageTurned DEF ListLog
  <2>2. PICK id \in 1..MaxEntries : AppendEntry(id, Nobody, "full")  BY <1>6 DEF ListLog
  <2>3. PICK e : e = NewAuditEntry(id, Nobody, "full")  OBVIOUS
  <2>4. e \in Entry /\ e.at = month /\ e.user = Nobody /\ \A w \in logged : e.id # w.id
    BY <2>2, <2>3 DEF NewAuditEntry, Entry, AuditTyped, AppendEntry
  <2>5. entries' = entries \cup {e} /\ logged' = logged \cup {e}  BY <2>2, <2>3 DEF AppendEntry
  <2>6. UNCHANGED <<month, partitions, people, rotated>>  BY <1>6 DEF ListLog
  <2>7. \E N, K, F : LogChange(N, K, F)  BY <2>4, <2>5, <2>6, Appended
  <2>8. AheadInv' /\ month' \in Int /\ rotated' \in Int
        /\ people' \in [People -> {"pending", "active", "gone"}]
    BY <2>6 DEF AheadInv, AuditTyped
  <2> QED  BY <1>c, <2>1, <2>7, <2>8
<1>7. CASE UNCHANGED auditVars
  BY <1>7, <1>p DEF auditVars
<1>8. CASE WriteNext
  BY <1>1, <1>8 DEF UpkeepNext
<1> QED  BY <1>1, <1>2, <1>3, <1>4, <1>5, <1>6, <1>7, <1>8 DEF ReadNext

LEMMA AuditHolds == AuditSpec => []AuditInv
<1>1. AuditInit => AuditInv  BY AuditStarts
<1>2. AuditInv /\ [UpkeepNext \/ ReadNext]_auditVars => AuditInv'  BY AuditStep
<1> QED  BY <1>1, <1>2, PTL DEF AuditSpec

\* rotate_audit_log_partitions, forget_account_traces, coarsen_audit_addresses: for any
\* number of instances, accounts and entries, whatever retention each instance is
\* configured with and wherever a retention task stops, an entry is in the log as long
\* as the floor says, none lies in the default partition of a month to be created, and
\* nothing an erased account did names it or an address.
THEOREM TheTrailIsKept == AuditSpec => []AuditTrailKept
<1>1. AuditInv => AuditTrailKept
  <2> SUFFICES ASSUME AuditTyped, AheadInv, TrailInv  PROVE AuditTrailKept  BY DEF AuditInv
  <2>1. \A w \in logged : w.at >= month - FLOOR_MONTHS => w.id \in {e.id : e \in entries}
    BY DEF TrailInv
  <2>2. \A e \in Default : e.at \notin Creates
    BY DEF TrailInv, Default
  <2>3. ASSUME NEW w \in logged, NEW e \in entries, w.id = e.id, w.user # Nobody,
               people[w.user] = "gone"
        PROVE  e.user = Nobody /\ e.address = "none"
    <3>1. PICK v \in logged : Origin(e, v)  BY DEF TrailInv
    <3>2. v = w  BY <2>3, <3>1 DEF TrailInv, Origin
    <3>3. e.user # Nobody => people[e.user] # "gone"  BY DEF TrailInv
    <3> QED  BY <2>3, <3>1, <3>2, <3>3 DEF Origin
  <2> QED  BY <2>1, <2>2, <2>3 DEF AuditTrailKept
<1> QED  BY <1>1, AuditHolds, PTL

\* find_page, find_page_by_user, split_page: for logs and pages of any size, a reader
\* who came to the last page has read every entry that was there at first and still is,
\* and none twice, whatever was appended, coarsened, forgotten and dropped meanwhile.
THEOREM PagesAreWhole == AuditSpec => []PagesMissNothing
<1>1. AuditInv => PagesMissNothing
  <2> SUFFICES ASSUME AuditInv, page.pc = "read"
               PROVE  /\ page.first \cap {e.id : e \in {x \in entries : page.of = Nobody \/ x.user = page.of}}
                            \subseteq UNION {page.seen[k] : k \in 1..Len(page.seen)}
                      /\ \A j, k \in 1..Len(page.seen) : j # k => page.seen[j] \cap page.seen[k] = {}
    BY DEF PagesMissNothing
  <2> PageOK(page, entries, logged)  BY DEF AuditInv
  <2>1. ASSUME NEW i \in page.first, NEW e \in entries, e.id = i, Belongs(e, page.of)
        PROVE  i \in UNION {page.seen[k] : k \in 1..Len(page.seen)}
    BY <2>1 DEF PageOK
  <2>2. \A j, k \in 1..Len(page.seen) : j # k => page.seen[j] \cap page.seen[k] = {}
    BY DEF PageOK
  <2> QED  BY <2>1, <2>2 DEF Belongs
<1> QED  BY <1>1, AuditHolds, PTL

-----------------------------------------------------------------------------
(***************************************************************************)
(* The other ways in.  Passkeys: a challenge is live or in the hands of    *)
(* one request, and the counter of a credential never falls.  External     *)
(* identities: a flow is in one place, pending, carried by a request, an   *)
(* outcome or completed.  Tokens: one request at a time is about to insert *)
(* one, and there is room for it.                                          *)
(***************************************************************************)
PasskeyPcs == {"challenge", "credential", "record", "issue", "refused"}

IsItem(x, n) ==
    /\ x.pc \in PasskeyPcs =>
        /\ x = [pc |-> x.pc, passkey |-> x.passkey, challenge |-> x.challenge, counter |-> x.counter,
                stored |-> x.stored, serial |-> x.serial]
        /\ x.passkey \in Passkeys /\ x.challenge \in 1..n /\ x.counter \in Nat /\ x.stored \in Int
    /\ x.pc \in {"settle", "outcome"} =>
        x = [pc |-> x.pc, pending |-> x.pending, subject |-> x.subject, code |-> x.code,
             user |-> x.user, identity |-> x.identity, error |-> x.error]
    /\ x.pc = "link" =>
        x = [pc |-> x.pc, outcome |-> x.outcome, browser |-> x.browser, user |-> x.user, id |-> x.id]
    /\ x.pc \in {"count", "insert_token"} =>
        x = [pc |-> x.pc, token |-> x.token] /\ x.token \in 1..MaxRequests

AccessTyped ==
    /\ DOMAIN req = Reqs /\ started \in Nat
    /\ \A r \in Reqs : IsItem(req[r], started)

\* The request holds a challenge that it took.
Took(x) == x.pc \in {"credential", "record", "issue"}

ChallengeInv ==
    /\ challenges \subseteq 1..started
    /\ \A r \in Reqs : Took(req[r]) => req[r].challenge \notin challenges
    /\ \A r, s \in Reqs : Took(req[r]) /\ Took(req[s]) /\ req[r].challenge = req[s].challenge => r = s
    /\ \A a \in asserted :
        /\ a.challenge \in 1..started /\ a.challenge \notin challenges
        /\ \A r \in Reqs : Took(req[r]) => req[r].challenge # a.challenge
    /\ \A a, b \in asserted : a.challenge = b.challenge => a = b

\* The counter n of a credential has been recorded.
Recorded(p, n) == sign_count[p] = -1 \/ n <= sign_count[p]

SameCount(a, b) == a.passkey = b.passkey /\ a.counter = b.counter /\ a.counter # 0

CounterInv ==
    /\ sign_count \in [Passkeys -> Int]
    /\ \A r \in Reqs : req[r].pc = "record" => ~CounterRegressed(req[r].stored, req[r].counter)
    /\ \A r \in Reqs : req[r].pc = "issue" => Recorded(req[r].passkey, req[r].counter)
    /\ \A a \in asserted : a.passkey \in Passkeys /\ a.counter \in Nat /\ Recorded(a.passkey, a.counter)
    /\ \A r, s \in Reqs : req[r].pc = "issue" /\ req[s].pc = "issue" /\ SameCount(req[r], req[s]) => r = s
    /\ \A r \in Reqs, a \in asserted : req[r].pc = "issue" => ~SameCount(req[r], a)
    /\ \A a, b \in asserted : SameCount(a, b) => a = b

\* The flow a request carries, 0 without one.
FlowOf(x) ==
    IF x.pc \in {"settle", "outcome"} THEN x.pending.flow
    ELSE IF x.pc = "link" THEN x.outcome.pending.flow ELSE 0

\* What an outcome o says of the flow it is of.
OutcomeOK(o) ==
    /\ o.pending \in begun
    /\ o.pending.intent = "link" /\ ~o.error => o.user = o.pending.user

PlacesInv ==
    /\ flows \subseteq begun
    /\ \A f \in begun : f.flow \in 1..started
    /\ \A f, g \in begun : f.flow = g.flow => f = g
    /\ \A r \in Reqs : req[r].pc = "settle" => req[r].pending \in begun
    /\ \A r \in Reqs : req[r].pc = "outcome" => OutcomeOK(req[r])
    /\ \A r \in Reqs : req[r].pc = "link" =>
        LET f == req[r].outcome.pending IN
        f \in begun /\ f.browser = req[r].browser /\ f.user = req[r].user /\ f.intent = "link"
    /\ \A o \in outcomes : OutcomeOK(o)
    /\ \A c \in completed : \E f \in begun :
        /\ f.flow = c.flow /\ f.browser = c.browser /\ f.intent = c.intent
        /\ f.intent = "link" => f.user = c.user

OnePlaceInv ==
    /\ \A r, s \in Reqs : FlowOf(req[r]) # 0 /\ FlowOf(req[r]) = FlowOf(req[s]) => r = s
    /\ \A r \in Reqs, o \in outcomes : FlowOf(req[r]) # o.pending.flow
    /\ \A r \in Reqs, c \in completed : FlowOf(req[r]) # c.flow
    /\ \A r \in Reqs, f \in flows : FlowOf(req[r]) # f.flow
    /\ \A o, p \in outcomes : o.pending.flow = p.pending.flow => o = p
    /\ \A o \in outcomes, c \in completed : o.pending.flow # c.flow
    /\ \A o \in outcomes, f \in flows : o.pending.flow # f.flow
    /\ \A c, d \in completed : c.flow = d.flow => c = d
    /\ \A c \in completed, f \in flows : c.flow # f.flow

PatInv ==
    /\ DOMAIN tokens = 1..MaxRequests
    /\ Cardinality(Active) <= MAX_ACTIVE
    /\ \A r \in Reqs : req[r].pc = "insert_token" => Cardinality(Active) < MAX_ACTIVE
    /\ \A r, s \in Reqs : req[r].pc = "insert_token" /\ req[s].pc = "insert_token" => r = s

AccessInv == AccessTyped /\ ChallengeInv /\ CounterInv /\ PlacesInv /\ OnePlaceInv /\ PatInv

\* Every request is as it was or somewhere outside pcs.
Apart(pcs) == \A s \in Reqs : req'[s] = req[s] \/ req'[s].pc \notin pcs

LEMMA ItemMoves ==
    ASSUME AccessTyped, NEW r \in Reqs, NEW x, req' = [req EXCEPT ![r] = x],
           started' \in Nat, started <= started', IsItem(x, started')
    PROVE  /\ AccessTyped'
           /\ req' = [s \in Reqs |-> IF s = r THEN x ELSE req[s]]
           /\ \A pcs : x.pc \notin pcs => Apart(pcs)
<1>1. req' = [s \in Reqs |-> IF s = r THEN x ELSE req[s]]
  BY DEF AccessTyped
<1>2. \A y : IsItem(y, started) => IsItem(y, started')
  BY DEF IsItem, AccessTyped
<1>3. AccessTyped'
  BY <1>1, <1>2 DEF AccessTyped
<1>4. \A pcs : x.pc \notin pcs => Apart(pcs)
  BY <1>1 DEF Apart
<1> QED  BY <1>1, <1>3, <1>4

LEMMA ItemsStay ==
    ASSUME AccessTyped, req' = req, started' \in Nat, started <= started'
    PROVE  AccessTyped' /\ \A pcs : Apart(pcs)
<1>2. \A y : IsItem(y, started) => IsItem(y, started')
  BY DEF IsItem, AccessTyped
<1> QED  BY <1>2 DEF AccessTyped, Apart

LEMMA CountedUp ==
    ASSUME AccessTyped, Counted
    PROVE  started' = started + 1 /\ started' \in Nat /\ started <= started' /\ started' \in 1..MaxRequests
  BY RequestsAssumption DEF AccessTyped, Counted, Serial

LEMMA ItemDone ==
    ASSUME AccessTyped, NEW r \in Reqs, Done(r)
    PROVE  /\ AccessTyped' /\ started' = started
           /\ req' = [s \in Reqs |-> IF s = r THEN Idle ELSE req[s]]
           /\ \A pcs : "idle" \notin pcs => Apart(pcs)
<1>1. IsItem(Idle, started) /\ Idle.pc = "idle"  BY DEF IsItem, Idle, PasskeyPcs
<1>2. started' = started /\ started' \in Nat /\ started <= started'  BY DEF Done, AccessTyped
<1>3. PICK x : x = Idle  OBVIOUS
<1>4. req' = [req EXCEPT ![r] = x] /\ IsItem(x, started') /\ x.pc = "idle"  BY <1>1, <1>2, <1>3 DEF Done
<1>5. /\ AccessTyped' /\ req' = [s \in Reqs |-> IF s = r THEN x ELSE req[s]]
      /\ \A pcs : x.pc \notin pcs => Apart(pcs)
  BY <1>2, <1>4, ItemMoves
<1> QED  BY <1>2, <1>3, <1>4, <1>5

\* What each part keeps when others move.
LEMMA ChallengesApart ==
    ASSUME AccessTyped, ChallengeInv, Apart({"credential", "record", "issue"}), asserted' = asserted,
           challenges' \subseteq challenges, started' \in Nat, started <= started'
    PROVE  ChallengeInv'
<1>1. \A s \in Reqs : Took(req'[s]) => Took(req[s]) /\ req'[s].challenge = req[s].challenge
  BY DEF Apart, Took
<1>2. 1..started \subseteq 1..started'  BY DEF AccessTyped
<1>3. challenges' \subseteq 1..started'  BY <1>2 DEF ChallengeInv
<1>4. \A r, s \in Reqs : Took(req'[r]) /\ Took(req'[s]) /\ req'[r].challenge = req'[s].challenge => r = s
  BY <1>1 DEF ChallengeInv
<1>5. \A a \in asserted :
        /\ a.challenge \in 1..started' /\ a.challenge \notin challenges'
        /\ \A r \in Reqs : Took(req'[r]) => req'[r].challenge # a.challenge
  BY <1>1, <1>2 DEF ChallengeInv
<1>6. \A r \in Reqs : Took(req'[r]) => req'[r].challenge \notin challenges'
  BY <1>1 DEF ChallengeInv
<1> QED  BY <1>3, <1>4, <1>5, <1>6 DEF ChallengeInv, Took

LEMMA CountersApart ==
    ASSUME CounterInv, Apart({"record", "issue"}), UNCHANGED <<sign_count, asserted>>
    PROVE  CounterInv'
<1>1. \A s \in Reqs : req'[s].pc \in {"record", "issue"} => req'[s] = req[s]
  BY DEF Apart
<1> QED  BY <1>1 DEF CounterInv, Recorded, SameCount

LEMMA FlowsApart ==
    ASSUME AccessTyped, PlacesInv, OnePlaceInv, Apart({"settle", "outcome", "link"}),
           UNCHANGED <<begun, completed>>, flows' \subseteq flows, outcomes' \subseteq outcomes,
           started' \in Nat, started <= started'
    PROVE  PlacesInv' /\ OnePlaceInv'
<1>1. \A s \in Reqs : req'[s] = req[s] \/ (FlowOf(req'[s]) = 0 /\ req'[s].pc \notin {"settle", "outcome", "link"})
  BY DEF Apart, FlowOf
<1>2. PlacesInv'
  <2>1. 1..started \subseteq 1..started'  BY DEF AccessTyped
  <2>2. \A s \in Reqs : req'[s].pc \in {"settle", "outcome", "link"} => req'[s] = req[s]  BY <1>1
  <2> QED  BY <2>1, <2>2 DEF PlacesInv, OutcomeOK
<1>3. /\ \A o \in outcomes : o.pending.flow # 0
      /\ \A f \in flows : f.flow # 0
      /\ \A c \in completed : c.flow # 0
  BY DEF PlacesInv, OutcomeOK, AccessTyped
<1>4. OnePlaceInv'
  BY <1>1, <1>3 DEF OnePlaceInv
<1> QED  BY <1>2, <1>4

LEMMA TokensApart ==
    ASSUME PatInv, Apart({"insert_token"}), tokens' = tokens
    PROVE  PatInv'
<1>1. \A s \in Reqs : req'[s].pc = "insert_token" => req[s].pc = "insert_token"
  BY DEF Apart
<1>2. Active' = Active  BY DEF Active
<1> QED  BY <1>1, <1>2 DEF PatInv

\* A request that is over, or begins or goes on where no part holds anything.
LEMMA AllApart ==
    ASSUME AccessInv, AccessTyped', started' \in Nat, started <= started', UNCHANGED accessVars,
           Apart({"credential", "record", "issue", "settle", "outcome", "link", "insert_token"})
    PROVE  AccessInv'
<1>1. /\ Apart({"credential", "record", "issue"}) /\ Apart({"record", "issue"})
      /\ Apart({"settle", "outcome", "link"}) /\ Apart({"insert_token"})
  BY DEF Apart
<1> QED  BY <1>1, ChallengesApart, CountersApart, FlowsApart, TokensApart
         DEF AccessInv, accessVars, passkeyVars, externalVars

\* A step of a passkey's sign-in leaves the flows and the tokens alone.
LEMMA PasskeyApart ==
    ASSUME AccessInv, AccessTyped', started' \in Nat, started <= started',
           UNCHANGED <<externalVars, tokens>>, Apart({"settle", "outcome", "link", "insert_token"}),
           ChallengeInv', CounterInv'
    PROVE  AccessInv'
<1>1. Apart({"settle", "outcome", "link"}) /\ Apart({"insert_token"})  BY DEF Apart
<1> QED  BY <1>1, FlowsApart, TokensApart DEF AccessInv, externalVars

\* A sign-in that goes on, with what it presented.
OnWith(r, pc, stored) ==
    req' = [req EXCEPT ![r] = [req[r] EXCEPT !.pc = pc, !.stored = stored]] /\ started' = started

LEMMA GoesOnWith ==
    ASSUME AccessTyped, NEW r \in Reqs, req[r].pc \in PasskeyPcs, NEW pc \in PasskeyPcs, NEW stored \in Int,
           OnWith(r, pc, stored)
    PROVE  /\ AccessTyped' /\ started' \in Nat /\ started <= started'
           /\ DOMAIN req' = Reqs /\ (\A s \in Reqs \ {r} : req'[s] = req[s])
           /\ req'[r].pc = pc /\ req'[r].passkey = req[r].passkey /\ req'[r].challenge = req[r].challenge
           /\ req'[r].counter = req[r].counter /\ req'[r].stored = stored
           /\ \A pcs : pc \notin pcs => Apart(pcs)
<1>1. /\ req[r] = [pc |-> req[r].pc, passkey |-> req[r].passkey, challenge |-> req[r].challenge,
                   counter |-> req[r].counter, stored |-> req[r].stored, serial |-> req[r].serial]
      /\ req[r].passkey \in Passkeys /\ req[r].challenge \in 1..started /\ req[r].counter \in Nat
  BY DEF AccessTyped, IsItem
<1>2. PICK x : x = [req[r] EXCEPT !.pc = pc, !.stored = stored]  OBVIOUS
<1>3. x = [pc |-> pc, passkey |-> req[r].passkey, challenge |-> req[r].challenge,
           counter |-> req[r].counter, stored |-> stored, serial |-> req[r].serial]
  BY <1>1, <1>2
<1>4. pc \notin {"settle", "outcome", "link", "count", "insert_token"}  BY DEF PasskeyPcs
<1>5. /\ x.pc = pc /\ x.passkey = req[r].passkey /\ x.challenge = req[r].challenge
      /\ x.counter = req[r].counter /\ x.stored = stored
  BY <1>3
<1>6. IsItem(x, started)  BY <1>1, <1>3, <1>4 DEF IsItem
<1>7. started' \in Nat /\ started <= started' /\ IsItem(x, started')  BY <1>6 DEF AccessTyped, OnWith
<1>8. req' = [req EXCEPT ![r] = x]  BY <1>2 DEF OnWith
<1>9. /\ AccessTyped' /\ req' = [s \in Reqs |-> IF s = r THEN x ELSE req[s]]
      /\ \A pcs : x.pc \notin pcs => Apart(pcs)
  BY <1>7, <1>8, ItemMoves
<1>10. req'[r] = x  BY <1>9
<1> QED  BY <1>5, <1>7, <1>9, <1>10 DEF AccessTyped

LEMMA GoesTo ==
    ASSUME AccessTyped, NEW r \in Reqs, req[r].pc \in PasskeyPcs, NEW pc \in PasskeyPcs, Goto(r, pc)
    PROVE  /\ AccessTyped' /\ started' = started /\ started' \in Nat /\ started <= started'
           /\ DOMAIN req' = Reqs /\ (\A s \in Reqs \ {r} : req'[s] = req[s])
           /\ req'[r].pc = pc /\ req'[r].passkey = req[r].passkey /\ req'[r].challenge = req[r].challenge
           /\ req'[r].counter = req[r].counter /\ req'[r].stored = req[r].stored
           /\ \A pcs : pc \notin pcs => Apart(pcs)
<1>1. /\ req[r] = [pc |-> req[r].pc, passkey |-> req[r].passkey, challenge |-> req[r].challenge,
                   counter |-> req[r].counter, stored |-> req[r].stored, serial |-> req[r].serial]
      /\ req[r].stored \in Int
  BY DEF AccessTyped, IsItem
<1>2. [req[r] EXCEPT !.pc = pc] = [req[r] EXCEPT !.pc = pc, !.stored = req[r].stored]
  BY <1>1
<1>3. OnWith(r, pc, req[r].stored) /\ started' = started
  BY <1>2 DEF Goto, AccessTyped, OnWith
<1> QED  BY <1>1, <1>3, GoesOnWith

\* begin_authentication and the requests begun or ended.
LEMMA ChallengeIssued ==
    ASSUME AccessInv, PostAuthenticationOptions  PROVE AccessInv'
<1> AccessTyped  BY DEF AccessInv
<1>1. Counted /\ req' = req /\ challenges' = challenges \cup {started + 1}
  BY DEF PostAuthenticationOptions, AuthenticationOptions, Single, Serial
<1>2. started' = started + 1 /\ started' \in Nat /\ started <= started'  BY <1>1, CountedUp
<1>3. AccessTyped' /\ \A pcs : Apart(pcs)  BY <1>1, <1>2, ItemsStay
<1>4. UNCHANGED <<sign_count, asserted, externalVars, tokens>>  BY DEF PostAuthenticationOptions
<1>5. CounterInv'  BY <1>3, <1>4, CountersApart DEF AccessInv
<1>6. ChallengeInv'
  <2>1. \A r \in Reqs : Took(req[r]) => req[r].challenge # started + 1
    BY DEF AccessTyped, IsItem, Took, PasskeyPcs
  <2>2. \A a \in asserted : a.challenge \in 1..started /\ a.challenge # started + 1
    BY DEF AccessInv, ChallengeInv, AccessTyped
  <2>3. 1..started \subseteq 1..started' /\ started + 1 \in 1..started'  BY <1>2 DEF AccessTyped
  <2> QED  BY <1>1, <1>4, <2>1, <2>2, <2>3 DEF AccessInv, ChallengeInv, Took
<1> QED  BY <1>2, <1>3, <1>4, <1>5, <1>6, PasskeyApart

LEMMA AssertionPresented ==
    ASSUME AccessInv, NEW r \in Reqs, NEW p \in Passkeys, NEW c \in 1..started, NEW n \in 0..MaxCount,
           PasskeySignIn(r, p, c, n)
    PROVE  AccessInv'
<1> AccessTyped  BY DEF AccessInv
<1>1. PICK x : x = [pc |-> "challenge", passkey |-> p, challenge |-> c, counter |-> n, stored |-> 0,
                    serial |-> Serial]
  OBVIOUS
<1>2. Counted /\ req' = [req EXCEPT ![r] = x] /\ UNCHANGED accessVars
  BY <1>1 DEF PasskeySignIn, Begin
<1>3. started' \in Nat /\ started <= started' /\ started' = started + 1  BY <1>2, CountedUp
<1>4. c \in 1..started' /\ n \in Nat  BY <1>3, AccessAssumption DEF AccessTyped
<1>5. IsItem(x, started') /\ x.pc = "challenge"
  BY <1>1, <1>4 DEF IsItem, PasskeyPcs
<1>6. AccessTyped' /\ \A pcs : x.pc \notin pcs => Apart(pcs)
  BY <1>2, <1>3, <1>5, ItemMoves
<1> QED  BY <1>2, <1>3, <1>5, <1>6, AllApart

\* The challenge is taken by one request.
LEMMA ChallengeTaken ==
    ASSUME AccessInv, NEW r \in Reqs, VerifyChallenge(r)  PROVE AccessInv'
<1> AccessTyped /\ ChallengeInv /\ CounterInv  BY DEF AccessInv
<1> DEFINE c == req[r].challenge
<1>1. req[r].pc \in PasskeyPcs /\ challenges' = challenges \ {c}
      /\ UNCHANGED <<sign_count, asserted, externalVars, tokens>>
  BY DEF VerifyChallenge, UseChallenge, PasskeyPcs
<1>2. CASE c \in challenges
  <2>1. Goto(r, "credential")  BY <1>2 DEF VerifyChallenge
  <2>2. /\ AccessTyped' /\ started' = started /\ started' \in Nat /\ started <= started'
        /\ DOMAIN req' = Reqs /\ (\A s \in Reqs \ {r} : req'[s] = req[s])
        /\ req'[r].pc = "credential" /\ req'[r].challenge = c
        /\ \A pcs : "credential" \notin pcs => Apart(pcs)
    BY <1>1, <2>1, GoesTo DEF PasskeyPcs
  <2>3. Apart({"record", "issue"}) /\ Apart({"settle", "outcome", "link", "insert_token"})  BY <2>2
  <2>4. CounterInv'  BY <1>1, <2>3, CountersApart
  <2>5. \A s \in Reqs \ {r} : Took(req[s]) => req[s].challenge # c  BY <1>2 DEF ChallengeInv
  <2>6. ChallengeInv'
    <3>1. \A s \in Reqs : Took(req'[s]) => req'[s].challenge \notin challenges'
      BY <1>1, <2>2 DEF ChallengeInv
    <3>2. \A s, t \in Reqs : Took(req'[s]) /\ Took(req'[t]) /\ req'[s].challenge = req'[t].challenge => s = t
      BY <2>2, <2>5 DEF ChallengeInv
    <3>3. \A a \in asserted : \A s \in Reqs : Took(req'[s]) => req'[s].challenge # a.challenge
      BY <1>2, <2>2 DEF ChallengeInv
    <3> QED  BY <1>1, <2>2, <3>1, <3>2, <3>3 DEF ChallengeInv, Took
  <2> QED  BY <1>1, <2>2, <2>3, <2>4, <2>6, PasskeyApart
<1>3. CASE c \notin challenges
  <2>1. Goto(r, "refused") /\ challenges' = challenges  BY <1>1, <1>3 DEF VerifyChallenge
  <2>2. /\ AccessTyped' /\ started' \in Nat /\ started <= started'
        /\ \A pcs : "refused" \notin pcs => Apart(pcs)
    BY <1>1, <2>1, GoesTo DEF PasskeyPcs
  <2>3. Apart({"credential", "record", "issue"}) /\ Apart({"record", "issue"})
        /\ Apart({"settle", "outcome", "link", "insert_token"})
    BY <2>2
  <2> QED  BY <1>1, <2>1, <2>2, <2>3, ChallengesApart, CountersApart, PasskeyApart
<1> QED  BY <1>2, <1>3

\* A step from one of the places where a challenge is held to another, or to a refusal.
LEMMA ChallengeKept ==
    ASSUME AccessTyped, ChallengeInv, NEW r \in Reqs, Took(req[r]), DOMAIN req' = Reqs,
           \A s \in Reqs \ {r} : req'[s] = req[s],
           req'[r].challenge = req[r].challenge, UNCHANGED <<challenges, asserted, started>>
    PROVE  ChallengeInv'
<1>1. \A s \in Reqs : Took(req'[s]) => Took(req[s]) /\ req'[s].challenge = req[s].challenge
  OBVIOUS
<1> QED  BY <1>1 DEF ChallengeInv, Took

LEMMA Unregressed ==
    ASSUME NEW stored \in Int, NEW n \in Nat, ~CounterRegressed(stored, n), 0 <= stored
    PROVE  stored <= n /\ (n = 0 \/ stored < n)
  BY DEF CounterRegressed

LEMMA AssertionVerified ==
    ASSUME AccessInv, NEW r \in Reqs, VerifyAssertion(r)  PROVE AccessInv'
<1> AccessTyped /\ ChallengeInv /\ CounterInv  BY DEF AccessInv
<1>1. /\ req[r].pc \in PasskeyPcs /\ Took(req[r]) /\ req[r].pc = "credential" /\ UNCHANGED accessVars
      /\ req[r].passkey \in Passkeys
  BY DEF VerifyAssertion, PasskeyPcs, Took, AccessTyped, IsItem
<1>a. UNCHANGED <<challenges, asserted, sign_count, externalVars, tokens>>
  BY <1>1 DEF accessVars, passkeyVars
<1>2. CASE Goto(r, "refused")
  <2>2. /\ AccessTyped' /\ started' \in Nat /\ started <= started'
        /\ \A pcs : "refused" \notin pcs => Apart(pcs)
    BY <1>1, <1>2, GoesTo DEF PasskeyPcs
  <2> QED  BY <1>1, <2>2, AllApart
<1>3. CASE /\ ~CounterRegressed(sign_count[req[r].passkey], req[r].counter)
           /\ req' = [req EXCEPT ![r].pc = "record", ![r].stored = sign_count[req[r].passkey]]
           /\ UNCHANGED started
  <2>1. PICK stored \in Int : stored = sign_count[req[r].passkey]  BY <1>1 DEF CounterInv
  <2>2. OnWith(r, "record", stored)
    BY <1>3, <2>1 DEF OnWith, AccessTyped
  <2>3. /\ AccessTyped' /\ started' = started /\ started' \in Nat /\ started <= started'
        /\ DOMAIN req' = Reqs /\ (\A s \in Reqs \ {r} : req'[s] = req[s])
        /\ req'[r].pc = "record" /\ req'[r].challenge = req[r].challenge
        /\ req'[r].counter = req[r].counter /\ req'[r].stored = stored
        /\ \A pcs : "record" \notin pcs => Apart(pcs)
    BY <1>1, <1>3, <2>2, GoesOnWith DEF PasskeyPcs
  <2>4. ChallengeInv'  BY <1>1, <1>a, <2>3, ChallengeKept
  <2>5. CounterInv'
    <3>1. \A s \in Reqs : req'[s].pc = "record" => ~CounterRegressed(req'[s].stored, req'[s].counter)
      BY <1>3, <2>1, <2>3 DEF CounterInv
    <3>2. \A s \in Reqs : req'[s].pc = "issue" => req'[s] = req[s]  BY <2>3
    <3> QED  BY <1>a, <3>1, <3>2 DEF CounterInv, Recorded, SameCount
  <2>6. Apart({"settle", "outcome", "link", "insert_token"})  BY <2>3
  <2> QED  BY <1>a, <2>3, <2>4, <2>5, <2>6, PasskeyApart
<1> QED  BY <1>2, <1>3 DEF VerifyAssertion

\* record_passkey_use: only from the count that was read, so the count never falls.
LEMMA UseRecorded ==
    ASSUME AccessInv, NEW r \in Reqs, RecordPasskeyUse(r)  PROVE AccessInv'
<1> AccessTyped /\ ChallengeInv /\ CounterInv  BY DEF AccessInv
<1> DEFINE p == req[r].passkey
           n == req[r].counter
<1>1. /\ req[r].pc \in PasskeyPcs /\ Took(req[r]) /\ req[r].pc = "record"
      /\ p \in Passkeys /\ n \in Nat /\ req[r].stored \in Int
  BY DEF RecordPasskeyUse, PasskeyPcs, Took, AccessTyped, IsItem
<1>a. UNCHANGED <<challenges, asserted, externalVars, tokens>>
  BY DEF RecordPasskeyUse
<1>2. CASE ~RecordUse(req[r])
  <2>1. Goto(r, "refused") /\ UNCHANGED sign_count  BY <1>2 DEF RecordPasskeyUse
  <2>2. /\ AccessTyped' /\ started' \in Nat /\ started <= started' /\ started' = started
        /\ DOMAIN req' = Reqs /\ (\A s \in Reqs \ {r} : req'[s] = req[s])
        /\ req'[r].challenge = req[r].challenge
        /\ \A pcs : "refused" \notin pcs => Apart(pcs)
    BY <1>1, <2>1, GoesTo DEF PasskeyPcs
  <2>3. Apart({"record", "issue"}) /\ Apart({"settle", "outcome", "link", "insert_token"})  BY <2>2
  <2>4. ChallengeInv'  BY <1>1, <1>a, <2>2, ChallengeKept
  <2>5. CounterInv'  BY <1>a, <2>1, <2>3, CountersApart
  <2> QED  BY <1>a, <2>2, <2>3, <2>4, <2>5, PasskeyApart
<1>3. CASE RecordUse(req[r])
  <2>1. Goto(r, "issue") /\ sign_count' = [sign_count EXCEPT ![p] = n]  BY <1>3 DEF RecordPasskeyUse
  <2>2. /\ AccessTyped' /\ started' \in Nat /\ started <= started' /\ started' = started
        /\ DOMAIN req' = Reqs /\ (\A s \in Reqs \ {r} : req'[s] = req[s])
        /\ req'[r].pc = "issue" /\ req'[r].challenge = req[r].challenge
        /\ req'[r].passkey = p /\ req'[r].counter = n
        /\ \A pcs : "issue" \notin pcs => Apart(pcs)
    BY <1>1, <2>1, GoesTo DEF PasskeyPcs
  <2>3. Apart({"settle", "outcome", "link", "insert_token"})  BY <2>2
  <2>4. ChallengeInv'  BY <1>1, <1>a, <2>2, ChallengeKept
  <2>5. sign_count[p] \in Int /\ 0 <= sign_count[p] /\ sign_count[p] <= n /\ (n = 0 \/ sign_count[p] < n)
    <3>1. sign_count[p] = req[r].stored /\ 0 <= sign_count[p]
      BY <1>3 DEF RecordUse, FindByCredentialId
    <3>2. ~CounterRegressed(req[r].stored, n)  BY <1>1 DEF CounterInv
    <3> QED  BY <1>1, <3>1, <3>2, Unregressed
  <2>6. sign_count' \in [Passkeys -> Int] /\ sign_count'[p] = n
        /\ \A q \in Passkeys : q # p => sign_count'[q] = sign_count[q]
    BY <1>1, <2>1 DEF CounterInv
  <2>7. \A q \in Passkeys, m \in Nat : Recorded(q, m) => sign_count'[q] = -1 \/ m <= sign_count'[q]
    BY <1>1, <2>5, <2>6 DEF Recorded, CounterInv
  <2>8. \A m \in Nat : Recorded(p, m) => n = 0 \/ m # n
    BY <1>1, <2>5 DEF Recorded
  <2>9. CounterInv'
    <3>1. \A s \in Reqs \ {r} : req'[s].pc \in {"record", "issue"} =>
            req'[s] = req[s] /\ req[s].passkey \in Passkeys /\ req[s].counter \in Nat
      BY <2>2 DEF AccessTyped, IsItem, PasskeyPcs
    <3>2. \A s \in Reqs : req'[s].pc = "record" => ~CounterRegressed(req'[s].stored, req'[s].counter)
      BY <2>2, <3>1 DEF CounterInv
    <3>3. \A s \in Reqs : req'[s].pc = "issue" =>
            sign_count'[req'[s].passkey] = -1 \/ req'[s].counter <= sign_count'[req'[s].passkey]
      BY <1>1, <2>2, <2>6, <2>7, <3>1 DEF CounterInv
    <3>4. \A a \in asserted : a.passkey \in Passkeys /\ a.counter \in Nat
            /\ (sign_count'[a.passkey] = -1 \/ a.counter <= sign_count'[a.passkey])
      BY <2>7 DEF CounterInv
    <3>5. \A s \in Reqs \ {r} : req[s].pc = "issue" => ~SameCount(req'[r], req[s]) /\ ~SameCount(req[s], req'[r])
      BY <2>2, <2>8, <3>1 DEF CounterInv, SameCount
    <3>6. \A s, t \in Reqs : req'[s].pc = "issue" /\ req'[t].pc = "issue" /\ SameCount(req'[s], req'[t]) => s = t
      BY <2>2, <3>5 DEF CounterInv
    <3>7. \A s \in Reqs, a \in asserted : req'[s].pc = "issue" => ~SameCount(req'[s], a)
      BY <2>2, <2>8, <3>4 DEF CounterInv, SameCount
    <3> QED  BY <1>a, <2>6, <3>2, <3>3, <3>4, <3>6, <3>7 DEF CounterInv, Recorded, SameCount
  <2> QED  BY <1>a, <2>2, <2>3, <2>4, <2>9, PasskeyApart
<1> QED  BY <1>2, <1>3

LEMMA PasskeySignedIn ==
    ASSUME AccessInv, NEW r \in Reqs, IssueForPasskey(r)  PROVE AccessInv'
<1> AccessTyped /\ ChallengeInv /\ CounterInv  BY DEF AccessInv
<1>1. req[r].pc = "issue" /\ Took(req[r]) /\ req[r].passkey \in Passkeys /\ req[r].counter \in Nat
      /\ req[r].challenge \in 1..started
  BY DEF IssueForPasskey, PasskeyPcs, Took, AccessTyped, IsItem
<1>2. PICK a : a = [serial |-> req[r].serial, passkey |-> req[r].passkey,
                    challenge |-> req[r].challenge, counter |-> req[r].counter]
  OBVIOUS
<1>3. /\ asserted' = asserted \cup {a} /\ Done(r)
      /\ UNCHANGED <<challenges, sign_count, externalVars, tokens>>
  BY <1>2 DEF IssueForPasskey
<1>4. a.passkey = req[r].passkey /\ a.challenge = req[r].challenge /\ a.counter = req[r].counter
  BY <1>2
<1>5. /\ AccessTyped' /\ started' = started
      /\ req' = [s \in Reqs |-> IF s = r THEN Idle ELSE req[s]]
      /\ \A pcs : "idle" \notin pcs => Apart(pcs)
  BY <1>3, ItemDone
<1>6. Apart({"settle", "outcome", "link", "insert_token"}) /\ started' \in Nat /\ started <= started'
  BY <1>5 DEF AccessTyped
<1>7. \A s \in Reqs : req'[s].pc \in {"credential", "record", "issue"} => s # r /\ req'[s] = req[s]
  BY <1>5 DEF Idle
<1>8. \A s \in Reqs : Took(req'[s]) => s # r /\ req'[s] = req[s] /\ Took(req[s])
  BY <1>7 DEF Took
<1>9. ChallengeInv'
  <2>1. \A s \in Reqs : Took(req'[s]) => req'[s].challenge # a.challenge
    BY <1>1, <1>4, <1>8 DEF ChallengeInv
  <2>2. \A b \in asserted : b.challenge # a.challenge
    BY <1>1, <1>4 DEF ChallengeInv
  <2>3. a.challenge \in 1..started /\ a.challenge \notin challenges
    BY <1>1, <1>4 DEF ChallengeInv
  <2>4. \A s, t \in Reqs : Took(req'[s]) /\ Took(req'[t]) /\ req'[s].challenge = req'[t].challenge => s = t
    BY <1>8 DEF ChallengeInv
  <2>5. \A s \in Reqs : Took(req'[s]) => req'[s].challenge \notin challenges
    BY <1>8 DEF ChallengeInv
  <2>6. \A b \in asserted : /\ b.challenge \in 1..started /\ b.challenge \notin challenges
                            /\ \A s \in Reqs : Took(req'[s]) => req'[s].challenge # b.challenge
    BY <1>8 DEF ChallengeInv
  <2>7. \A b, c \in asserted' : b.challenge = c.challenge => b = c
    BY <1>3, <2>2 DEF ChallengeInv
  <2>8. challenges \subseteq 1..started  BY DEF ChallengeInv
  <2> QED  BY <1>3, <1>5, <2>1, <2>3, <2>4, <2>5, <2>6, <2>7, <2>8 DEF ChallengeInv, Took
<1>10. CounterInv'
  <2>1. \A s \in Reqs : req'[s].pc = "issue" => ~SameCount(req'[s], a)
    BY <1>1, <1>4, <1>7 DEF CounterInv, SameCount
  <2>2. \A b \in asserted : ~SameCount(a, b) /\ ~SameCount(b, a)
    BY <1>1, <1>4 DEF CounterInv, SameCount
  <2>3. Recorded(a.passkey, a.counter)
    BY <1>1, <1>4 DEF CounterInv
  <2>4. \A b, c \in asserted' : SameCount(b, c) => b = c
    BY <1>3, <2>2 DEF CounterInv
  <2>5. \A s \in Reqs : req'[s].pc \in {"record", "issue"} => req'[s] = req[s]
    BY <1>7
  <2> QED  BY <1>1, <1>3, <1>4, <2>1, <2>3, <2>4, <2>5 DEF CounterInv, Recorded, SameCount
<1> QED  BY <1>3, <1>5, <1>6, <1>9, <1>10, PasskeyApart

LEMMA PasskeyStep ==
    ASSUME AccessInv, PasskeyNext  PROVE AccessInv'
<1> AccessTyped /\ ChallengeInv /\ CounterInv  BY DEF AccessInv
<1>1. ASSUME NEW r \in Reqs, CountRefusal(r)  PROVE AccessInv'
  <2>1. Done(r) /\ UNCHANGED <<challenges, sign_count, asserted, externalVars, tokens>>
    BY <1>1 DEF CountRefusal
  <2>2. AccessTyped' /\ started' = started /\ \A pcs : "idle" \notin pcs => Apart(pcs)
    BY <2>1, ItemDone
  <2>3. /\ Apart({"credential", "record", "issue"}) /\ Apart({"record", "issue"})
        /\ Apart({"settle", "outcome", "link", "insert_token"}) /\ started' \in Nat /\ started <= started'
    BY <2>2 DEF AccessTyped
  <2> QED  BY <2>1, <2>2, <2>3, ChallengesApart, CountersApart, PasskeyApart
<1>2. ASSUME NEW p \in Passkeys, PasskeyRemoved(p)  PROVE AccessInv'
  <2>1. /\ sign_count' = [sign_count EXCEPT ![p] = -1] /\ Counted /\ req' = req
        /\ UNCHANGED <<challenges, asserted, externalVars, tokens>>
    BY <1>2 DEF PasskeyRemoved, Single
  <2>2. started' \in Nat /\ started <= started'  BY <2>1, CountedUp
  <2>3. AccessTyped' /\ \A pcs : Apart(pcs)  BY <2>1, <2>2, ItemsStay
  <2>4. ChallengeInv'  BY <2>1, <2>2, <2>3, ChallengesApart
  <2>5. CounterInv'
    <3>1. \A r \in Reqs : req[r].pc = "issue" => req[r].passkey \in Passkeys
      BY DEF AccessTyped, IsItem, PasskeyPcs
    <3>2. sign_count' \in [Passkeys -> Int]
          /\ \A q \in Passkeys : sign_count'[q] = -1 \/ sign_count'[q] = sign_count[q]
      BY <2>1 DEF CounterInv
    <3> QED  BY <2>1, <3>1, <3>2 DEF CounterInv, Recorded, SameCount
  <2> QED  BY <2>1, <2>2, <2>3, <2>4, <2>5, PasskeyApart
<1>3. ASSUME req' = req, started' = started, challenges' \subseteq challenges,
             UNCHANGED <<sign_count, asserted, externalVars, tokens>>
      PROVE  AccessInv'
  <2>1. started' \in Nat /\ started <= started'  BY <1>3 DEF AccessTyped
  <2>2. AccessTyped' /\ \A pcs : Apart(pcs)  BY <1>3, <2>1, ItemsStay
  <2> QED  BY <1>3, <2>1, <2>2, ChallengesApart, CountersApart, PasskeyApart
<1>4. CASE (\E c \in challenges : ChallengeExpires(c)) \/ FailuresExpire
  BY <1>3, <1>4 DEF ChallengeExpires, FailuresExpire
<1> QED  BY <1>1, <1>2, <1>4, ChallengeIssued, AssertionPresented, ChallengeTaken, AssertionVerified,
            UseRecorded, PasskeySignedIn
         DEF PasskeyNext

-----------------------------------------------------------------------------
(***************************************************************************)
(* Personal access tokens.                                                 *)
(***************************************************************************)
LEMMA PatApart ==
    ASSUME AccessInv, AccessTyped', started' \in Nat, started <= started',
           UNCHANGED <<passkeyVars, externalVars>>,
           Apart({"credential", "record", "issue", "settle", "outcome", "link"}), PatInv'
    PROVE  AccessInv'
<1>1. /\ Apart({"credential", "record", "issue"}) /\ Apart({"record", "issue"})
      /\ Apart({"settle", "outcome", "link"})
  BY DEF Apart
<1> QED  BY <1>1, ChallengesApart, CountersApart, FlowsApart DEF AccessInv, externalVars, passkeyVars

\* Of the tokens ts, the active ones.
LEMMA FewerActive ==
    ASSUME PatInv, NEW n \in DOMAIN tokens, NEW state, state # "active",
           tokens' = [tokens EXCEPT ![n] = state]
    PROVE  /\ DOMAIN tokens' = 1..MaxRequests
           /\ Cardinality(Active') <= Cardinality(Active)
           /\ Cardinality(Active) \in Nat /\ Cardinality(Active') \in Nat
<1> MaxRequests \in Nat  BY RequestsAssumption
<1>1. IsFiniteSet(1..MaxRequests)  BY FS_Interval
<1>2. Active \in SUBSET (1..MaxRequests)  BY DEF PatInv, Active
<1>3. IsFiniteSet(Active)  BY <1>1, <1>2, FS_Subset
<1>4. Active' \in SUBSET Active  BY DEF Active
<1> QED  BY <1>3, <1>4, FS_Subset, FS_CardinalityType DEF PatInv

LEMMA PatStep ==
    ASSUME AccessInv, PatNext  PROVE AccessInv'
<1> AccessTyped /\ PatInv  BY DEF AccessInv
<1> MAX_ACTIVE \in Nat /\ MaxRequests \in Nat  BY AccessAssumption, RequestsAssumption
<1>1. ASSUME NEW r \in Reqs, PostToken(r)  PROVE AccessInv'
  <2>1. PICK x : x = [pc |-> "count", token |-> started + 1]  OBVIOUS
  <2>2. req' = [req EXCEPT ![r] = x] /\ Counted /\ UNCHANGED accessVars
    BY <1>1, <2>1 DEF PostToken, CreateToken, Begin, Serial
  <2>3. started' = started + 1 /\ started' \in Nat /\ started <= started' /\ started' \in 1..MaxRequests
    BY <2>2, CountedUp
  <2>4. IsItem(x, started') /\ x.pc = "count"  BY <2>1, <2>3 DEF IsItem, PasskeyPcs
  <2>5. AccessTyped' /\ \A pcs : x.pc \notin pcs => Apart(pcs)  BY <2>2, <2>3, <2>4, ItemMoves
  <2> QED  BY <2>2, <2>3, <2>4, <2>5, AllApart
<1>2. ASSUME NEW r \in Reqs, CountActive(r)  PROVE AccessInv'
  <2>1. CASE Done(r)
    <3>1. AccessTyped' /\ started' = started /\ \A pcs : "idle" \notin pcs => Apart(pcs)
      BY <2>1, ItemDone
    <3> QED  BY <1>2, <3>1, AllApart DEF CountActive, AccessTyped
  <2>2. CASE Cardinality(Active) < MAX_ACTIVE /\ Goto(r, "insert_token")
    <3>1. req[r] = [pc |-> "count", token |-> req[r].token] /\ req[r].token \in 1..MaxRequests
      BY <1>2 DEF CountActive, AccessTyped, IsItem
    <3>2. PICK x : x = [req[r] EXCEPT !.pc = "insert_token"]  OBVIOUS
    <3>3. req' = [req EXCEPT ![r] = x] /\ started' = started  BY <2>2, <3>2 DEF Goto, AccessTyped
    <3>4. x = [pc |-> "insert_token", token |-> req[r].token]  BY <3>1, <3>2
    <3>5. x.pc = "insert_token" /\ IsItem(x, started')
      BY <3>1, <3>4 DEF IsItem, PasskeyPcs
    <3>6. started' \in Nat /\ started <= started'  BY <3>3 DEF AccessTyped
    <3>7. /\ AccessTyped' /\ req' = [s \in Reqs |-> IF s = r THEN x ELSE req[s]]
          /\ \A pcs : x.pc \notin pcs => Apart(pcs)
      BY <3>3, <3>5, <3>6, ItemMoves
    <3>8. UNCHANGED <<passkeyVars, externalVars, tokens>>  BY <1>2 DEF CountActive, accessVars
    <3>9. Active' = Active  BY <3>8 DEF Active
    <3>10. \A s \in Reqs : s # r => req'[s].pc # "insert_token"
      BY <1>2, <3>7 DEF CountActive, AdvisoryLock
    <3>11. PatInv'  BY <2>2, <3>8, <3>9, <3>10 DEF PatInv
    <3>12. Apart({"credential", "record", "issue", "settle", "outcome", "link"})  BY <3>5, <3>7
    <3> QED  BY <3>6, <3>7, <3>8, <3>11, <3>12, PatApart
  <2> QED  BY <1>2, <2>1, <2>2 DEF CountActive
<1>3. ASSUME NEW r \in Reqs, InsertToken(r)  PROVE AccessInv'
  <2>1. Done(r) /\ tokens' = [tokens EXCEPT ![req[r].token] = "active"] /\ UNCHANGED <<passkeyVars, externalVars>>
    BY <1>3 DEF InsertToken
  <2>2. req[r].token \in 1..MaxRequests /\ Cardinality(Active) < MAX_ACTIVE
        /\ \A s \in Reqs \ {r} : req[s].pc # "insert_token"
    BY <1>3 DEF InsertToken, AccessTyped, IsItem, PatInv
  <2>3. /\ AccessTyped' /\ started' = started /\ req' = [s \in Reqs |-> IF s = r THEN Idle ELSE req[s]]
        /\ \A pcs : "idle" \notin pcs => Apart(pcs)
    BY <2>1, ItemDone
  <2>4. \A s \in Reqs : req'[s].pc # "insert_token"  BY <2>2, <2>3 DEF Idle
  <2>5. Active' = Active \cup {req[r].token} /\ DOMAIN tokens' = 1..MaxRequests
    BY <2>1, <2>2 DEF Active, PatInv
  <2>6. IsFiniteSet(Active) /\ Cardinality(Active) \in Nat
    <3>1. Active \in SUBSET (1..MaxRequests)  BY DEF PatInv, Active
    <3>2. IsFiniteSet(1..MaxRequests)  BY FS_Interval
    <3> QED  BY <3>1, <3>2, FS_Subset, FS_CardinalityType
  <2>7. Cardinality(Active') <= MAX_ACTIVE
    <3>1. Cardinality(Active \cup {req[r].token}) <= Cardinality(Active) + 1
      BY <2>6, FS_AddElement
    <3>2. Cardinality(Active \cup {req[r].token}) \in Nat
      BY <2>6, FS_AddElement, FS_CardinalityType
    <3> QED  BY <2>2, <2>5, <2>6, <3>1, <3>2
  <2>8. PatInv'  BY <2>4, <2>5, <2>7 DEF PatInv
  <2>9. Apart({"credential", "record", "issue", "settle", "outcome", "link"}) /\ started' \in Nat /\ started <= started'
    BY <2>3 DEF AccessTyped
  <2> QED  BY <2>1, <2>3, <2>8, <2>9, PatApart
<1>4. ASSUME NEW n \in DOMAIN tokens, NEW state \in {"revoked", "expired"},
             tokens' = [tokens EXCEPT ![n] = state], req' = req, started' \in Nat, started <= started',
             UNCHANGED <<passkeyVars, externalVars>>
      PROVE  AccessInv'
  <2>1. AccessTyped' /\ \A pcs : Apart(pcs)  BY <1>4, ItemsStay
  <2>2. /\ DOMAIN tokens' = 1..MaxRequests
        /\ Cardinality(Active') <= Cardinality(Active)
        /\ Cardinality(Active) \in Nat /\ Cardinality(Active') \in Nat
    BY <1>4, FewerActive
  <2>3. PatInv'  BY <1>4, <2>2 DEF PatInv
  <2> QED  BY <1>4, <2>1, <2>3, PatApart
<1>5. CASE DeleteToken
  <2>1. PICK n \in DOMAIN tokens : tokens' = [tokens EXCEPT ![n] = "revoked"]
    BY <1>5 DEF DeleteToken, RevokeToken
  <2>2. Counted /\ req' = req /\ UNCHANGED <<passkeyVars, externalVars>>  BY <1>5 DEF DeleteToken, Single
  <2>3. started' \in Nat /\ started <= started'  BY <2>2, CountedUp
  <2> QED  BY <1>4, <2>1, <2>2, <2>3
<1>6. CASE \E n \in DOMAIN tokens : TokenExpires(n)
  <2>1. started' \in Nat /\ started <= started'  BY <1>6 DEF TokenExpires, AccessTyped
  <2> QED  BY <1>4, <1>6, <2>1 DEF TokenExpires
<1> QED  BY <1>1, <1>2, <1>3, <1>5, <1>6 DEF PatNext

-----------------------------------------------------------------------------
(***************************************************************************)
(* External identities.                                                    *)
(***************************************************************************)
LEMMA ExternalApart ==
    ASSUME AccessInv, AccessTyped', started' \in Nat, started <= started',
           UNCHANGED <<passkeyVars, tokens>>,
           Apart({"credential", "record", "issue", "insert_token"}), PlacesInv', OnePlaceInv'
    PROVE  AccessInv'
<1>1. /\ Apart({"credential", "record", "issue"}) /\ Apart({"record", "issue"})
      /\ Apart({"insert_token"})
  BY DEF Apart
<1> QED  BY <1>1, ChallengesApart, CountersApart, TokensApart DEF AccessInv, passkeyVars

\* Every flow that is somewhere was begun, and its number is not 0.
LEMMA FlowNumbers ==
    ASSUME AccessTyped, PlacesInv
    PROVE  /\ \A f \in begun : f.flow \in 1..started /\ f.flow # 0 /\ f.flow # started + 1
           /\ \A r \in Reqs : FlowOf(req[r]) # started + 1
           /\ \A o \in outcomes : o.pending.flow # 0 /\ o.pending.flow # started + 1
           /\ \A c \in completed : c.flow # 0 /\ c.flow # started + 1
           /\ \A f \in flows : f.flow # 0 /\ f.flow # started + 1
<1>1. \A f \in begun : f.flow \in 1..started /\ f.flow # 0 /\ f.flow # started + 1
  BY DEF PlacesInv, AccessTyped
<1>2. \A r \in Reqs : FlowOf(req[r]) # started + 1
  <2> TAKE r \in Reqs
  <2>1. 0 # started + 1  BY DEF AccessTyped
  <2>2. CASE req[r].pc = "settle"  BY <1>1, <2>2 DEF PlacesInv, FlowOf
  <2>3. CASE req[r].pc = "outcome"  BY <1>1, <2>3 DEF PlacesInv, FlowOf, OutcomeOK
  <2>4. CASE req[r].pc = "link"  BY <1>1, <2>4 DEF PlacesInv, FlowOf
  <2> QED  BY <2>1, <2>2, <2>3, <2>4 DEF FlowOf
<1>3. \A c \in completed : \E f \in begun : f.flow = c.flow  BY DEF PlacesInv
<1> QED  BY <1>1, <1>2, <1>3 DEF PlacesInv, OutcomeOK

LEMMA FlowBegins ==
    ASSUME AccessInv, NEW b, NEW intent, NEW u, Start(b, intent, u)  PROVE AccessInv'
<1> AccessTyped /\ PlacesInv /\ OnePlaceInv  BY DEF AccessInv
<1>1. PICK f : f = [flow |-> started + 1, browser |-> b, intent |-> intent, user |-> u]  OBVIOUS
<1>2. /\ flows' = flows \cup {f} /\ begun' = begun \cup {f} /\ Counted /\ req' = req
      /\ UNCHANGED <<passkeyVars, outcomes, completed, tokens>>
  BY <1>1 DEF Start, Single, Serial
<1>3. started' = started + 1 /\ started' \in Nat /\ started <= started'  BY <1>2, CountedUp
<1>4. AccessTyped' /\ \A pcs : Apart(pcs)  BY <1>2, <1>3, ItemsStay
<1>5. f.flow = started + 1  BY <1>1
<1>6. PlacesInv'
  <2>1. 1..started \subseteq 1..started' /\ f.flow \in 1..started'  BY <1>3, <1>5 DEF AccessTyped
  <2>2. \A g, h \in begun' : g.flow = h.flow => g = h
    BY <1>2, <1>5, FlowNumbers DEF PlacesInv
  <2>3. begun \subseteq begun'  BY <1>2
  <2>4. \A o : OutcomeOK(o) => OutcomeOK(o)'  BY <2>3 DEF OutcomeOK
  <2>5. \A o \in outcomes' : OutcomeOK(o)'  BY <1>2, <2>4 DEF PlacesInv
  <2>6. \A r \in Reqs : req'[r].pc = "outcome" => OutcomeOK(req[r])'
    BY <1>2 DEF PlacesInv, OutcomeOK
  <2> QED  BY <1>2, <2>1, <2>2, <2>3, <2>5, <2>6 DEF PlacesInv
<1>7. OnePlaceInv'
  BY <1>2, <1>5, FlowNumbers DEF OnePlaceInv, FlowOf
<1> QED  BY <1>2, <1>3, <1>4, <1>6, <1>7, ExternalApart

\* The callback takes the flow.
LEMMA FlowCalledBack ==
    ASSUME AccessInv, NEW r \in Reqs, NEW f \in flows, NEW subject, Callback(r, f, subject)  PROVE AccessInv'
<1> AccessTyped /\ PlacesInv /\ OnePlaceInv  BY DEF AccessInv
<1>1. PICK x : x = [pc |-> "settle", pending |-> f, subject |-> subject,
                    code |-> Serial, user |-> None, identity |-> 0, error |-> FALSE]
  OBVIOUS
<1>2. /\ req' = [req EXCEPT ![r] = x] /\ Counted /\ flows' = flows \ {f}
      /\ UNCHANGED <<passkeyVars, outcomes, begun, completed, tokens>>
  BY <1>1 DEF Callback, TakePendingFlow, Begin
<1>3. started' = started + 1 /\ started' \in Nat /\ started <= started'  BY <1>2, CountedUp
<1>4. x.pc = "settle" /\ x.pending = f /\ FlowOf(x) = f.flow  BY <1>1 DEF FlowOf
<1>5. IsItem(x, started')  BY <1>1, <1>4 DEF IsItem, PasskeyPcs
<1>6. /\ AccessTyped' /\ req' = [s \in Reqs |-> IF s = r THEN x ELSE req[s]]
      /\ \A pcs : x.pc \notin pcs => Apart(pcs)
  BY <1>2, <1>3, <1>5, ItemMoves
<1>7. f \in begun  BY DEF PlacesInv
<1>8. PlacesInv'
  <2>1. 1..started \subseteq 1..started'  BY <1>3 DEF AccessTyped
  <2>2. \A s \in Reqs : req'[s].pc \in {"outcome", "link"} => req'[s] = req[s]  BY <1>4, <1>6
  <2>3. \A s \in Reqs : req'[s].pc = "settle" => req'[s].pending \in begun  BY <1>4, <1>6, <1>7 DEF PlacesInv
  <2> QED  BY <1>2, <2>1, <2>2, <2>3 DEF PlacesInv, OutcomeOK
<1>9. OnePlaceInv'
  <2>1. \A s \in Reqs : FlowOf(req'[s]) = IF s = r THEN f.flow ELSE FlowOf(req[s])  BY <1>4, <1>6
  <2>2. \A s \in Reqs : FlowOf(req[s]) # f.flow  BY DEF OnePlaceInv
  <2>3. \A g \in flows' : g.flow # f.flow  BY <1>2, <1>7 DEF PlacesInv
  <2>4. \A s, t \in Reqs : FlowOf(req'[s]) # 0 /\ FlowOf(req'[s]) = FlowOf(req'[t]) => s = t
    BY <2>1, <2>2 DEF OnePlaceInv
  <2>5. \A s \in Reqs, o \in outcomes : FlowOf(req'[s]) # o.pending.flow  BY <2>1 DEF OnePlaceInv
  <2>6. \A s \in Reqs, c \in completed : FlowOf(req'[s]) # c.flow  BY <2>1 DEF OnePlaceInv
  <2>7. \A s \in Reqs, g \in flows' : FlowOf(req'[s]) # g.flow  BY <1>2, <2>1, <2>3 DEF OnePlaceInv
  <2> QED  BY <1>2, <2>4, <2>5, <2>6, <2>7 DEF OnePlaceInv
<1>10. Apart({"credential", "record", "issue", "insert_token"})  BY <1>4, <1>6
<1> QED  BY <1>2, <1>3, <1>6, <1>8, <1>9, <1>10, ExternalApart

LEMMA FlowSettled ==
    ASSUME AccessInv, NEW r \in Reqs, Settle(r)  PROVE AccessInv'
<1> AccessTyped /\ PlacesInv /\ OnePlaceInv  BY DEF AccessInv
<1>0. PICK error : error = SettleError(req[r].pending, req[r].subject)  OBVIOUS
<1>1. PICK user : user = IF error THEN None
                         ELSE IF req[r].pending.intent = "link" THEN req[r].pending.user
                         ELSE FindBySubject(req[r].subject).user
  OBVIOUS
<1>2. PICK id : id = IF error THEN 0 ELSE FindBySubject(req[r].subject).id  OBVIOUS
<1>3. req[r] = [pc |-> "settle", pending |-> req[r].pending, subject |-> req[r].subject, code |-> req[r].code,
                user |-> req[r].user, identity |-> req[r].identity, error |-> req[r].error]
  BY DEF AccessTyped, IsItem, Settle
<1>4. PICK x : x = [req[r] EXCEPT !.pc = "outcome", !.error = error, !.user = user, !.identity = id]  OBVIOUS
<1>5. x = [pc |-> "outcome", pending |-> req[r].pending, subject |-> req[r].subject, code |-> req[r].code,
           user |-> user, identity |-> id, error |-> error]
  BY <1>3, <1>4
<1>6. req' = [req EXCEPT ![r] = x] /\ UNCHANGED <<started, accessVars>>
  BY <1>0, <1>1, <1>2, <1>4 DEF Settle, AccessTyped
<1>7. x.pc = "outcome" /\ x.pending = req[r].pending /\ x.user = user /\ x.error = error  BY <1>5
<1>8. IsItem(x, started')  BY <1>5, <1>7 DEF IsItem, PasskeyPcs
<1>9. started' \in Nat /\ started <= started' /\ started' = started  BY <1>6 DEF AccessTyped
<1>10. /\ AccessTyped' /\ req' = [s \in Reqs |-> IF s = r THEN x ELSE req[s]]
       /\ \A pcs : x.pc \notin pcs => Apart(pcs)
  BY <1>6, <1>8, <1>9, ItemMoves
<1>11. UNCHANGED <<passkeyVars, flows, outcomes, begun, completed, tokens>>
  BY <1>6 DEF accessVars, externalVars
<1>12. req[r].pc = "settle" /\ req[r].pending \in begun  BY DEF Settle, PlacesInv
<1>13. PlacesInv'
  <2>1. OutcomeOK(x)  BY <1>1, <1>7, <1>12 DEF OutcomeOK
  <2>2. \A s \in Reqs : req'[s].pc = "outcome" => OutcomeOK(req'[s])  BY <1>10, <2>1 DEF PlacesInv
  <2>3. \A s \in Reqs : req'[s].pc \in {"settle", "link"} => req'[s] = req[s]  BY <1>7, <1>10
  <2> QED  BY <1>9, <1>11, <2>2, <2>3 DEF PlacesInv, OutcomeOK
<1>14. OnePlaceInv'
  <2>1. \A s \in Reqs : FlowOf(req'[s]) = FlowOf(req[s])  BY <1>7, <1>10, <1>12 DEF FlowOf
  <2> QED  BY <1>11, <2>1 DEF OnePlaceInv
<1>15. Apart({"credential", "record", "issue", "insert_token"})  BY <1>7, <1>10
<1> QED  BY <1>9, <1>10, <1>11, <1>13, <1>14, <1>15, ExternalApart

LEMMA OutcomeStored ==
    ASSUME AccessInv, NEW r \in Reqs, StoreOutcome(r)  PROVE AccessInv'
<1> AccessTyped /\ PlacesInv /\ OnePlaceInv  BY DEF AccessInv
<1>1. PICK x : x = req[r]  OBVIOUS
<1>2. /\ outcomes' = outcomes \cup {x} /\ Done(r) /\ x.pc = "outcome"
      /\ UNCHANGED <<passkeyVars, flows, begun, completed, tokens>>
  BY <1>1 DEF StoreOutcome
<1>3. /\ AccessTyped' /\ started' = started /\ req' = [s \in Reqs |-> IF s = r THEN Idle ELSE req[s]]
      /\ \A pcs : "idle" \notin pcs => Apart(pcs)
  BY <1>2, ItemDone
<1>4. started' \in Nat /\ started <= started' /\ Apart({"credential", "record", "issue", "insert_token"})
  BY <1>3 DEF AccessTyped
<1>5. FlowOf(Idle) = 0 /\ Idle.pc = "idle" /\ FlowOf(x) = x.pending.flow  BY <1>2 DEF FlowOf, Idle
<1>6. OutcomeOK(x)  BY <1>1, <1>2 DEF PlacesInv
<1>7. PlacesInv'
  <2>1. \A s \in Reqs : req'[s].pc \in {"settle", "outcome", "link"} => req'[s] = req[s]  BY <1>3, <1>5
  <2>2. \A o \in outcomes' : OutcomeOK(o)  BY <1>2, <1>6 DEF PlacesInv
  <2> QED  BY <1>2, <1>3, <2>1, <2>2 DEF PlacesInv, OutcomeOK
<1>8. OnePlaceInv'
  <2>1. \A s \in Reqs : FlowOf(req'[s]) = IF s = r THEN 0 ELSE FlowOf(req[s])  BY <1>3, <1>5
  <2>2. x.pending.flow # 0 /\ FlowOf(req[r]) = x.pending.flow  BY <1>1, <1>5, <1>6, FlowNumbers DEF OutcomeOK
  <2>3. \A s \in Reqs \ {r} : FlowOf(req[s]) # x.pending.flow  BY <2>2 DEF OnePlaceInv
  <2>4. \A s, t \in Reqs : FlowOf(req'[s]) # 0 /\ FlowOf(req'[s]) = FlowOf(req'[t]) => s = t
    BY <2>1 DEF OnePlaceInv
  <2>5. \A s \in Reqs, o \in outcomes' : FlowOf(req'[s]) # o.pending.flow
    BY <1>2, <2>1, <2>2, <2>3, FlowNumbers DEF OnePlaceInv
  <2>6. \A s \in Reqs, c \in completed : FlowOf(req'[s]) # c.flow
    BY <2>1, FlowNumbers DEF OnePlaceInv
  <2>7. \A s \in Reqs, g \in flows : FlowOf(req'[s]) # g.flow
    BY <2>1, FlowNumbers DEF OnePlaceInv
  <2>8. \A o, p \in outcomes' : o.pending.flow = p.pending.flow => o = p
    BY <1>2, <2>2 DEF OnePlaceInv
  <2>9. \A o \in outcomes', c \in completed : o.pending.flow # c.flow  BY <1>2, <2>2 DEF OnePlaceInv
  <2>10. \A o \in outcomes', f \in flows : o.pending.flow # f.flow  BY <1>2, <2>2 DEF OnePlaceInv
  <2> QED  BY <1>2, <2>4, <2>5, <2>6, <2>7, <2>8, <2>9, <2>10 DEF OnePlaceInv
<1> QED  BY <1>2, <1>3, <1>4, <1>7, <1>8, ExternalApart

\* A flow that nothing holds any more ends as it began.
LEMMA FlowCompleted ==
    ASSUME AccessTyped, PlacesInv, OnePlaceInv, started' \in Nat, started <= started',
           UNCHANGED <<flows, begun>>, outcomes' \subseteq outcomes,
           Apart({"settle", "outcome", "link"}),
           NEW c, completed' = completed \cup {c},
           NEW f \in begun, f.flow = c.flow, f.browser = c.browser, f.intent = c.intent,
           f.intent = "link" => f.user = c.user,
           \A s \in Reqs : FlowOf(req'[s]) # f.flow,
           \A o \in outcomes' : o.pending.flow # f.flow,
           \A d \in completed : d.flow # f.flow,
           \A g \in flows : g.flow # f.flow
    PROVE  PlacesInv' /\ OnePlaceInv'
<1>1. \A s \in Reqs : req'[s] = req[s] \/ (FlowOf(req'[s]) = 0 /\ req'[s].pc \notin {"settle", "outcome", "link"})
  BY DEF Apart, FlowOf
<1>2. PlacesInv'
  <2>1. \A s \in Reqs : req'[s].pc \in {"settle", "outcome", "link"} => req'[s] = req[s]  BY <1>1
  <2>2. \A d \in completed' : \E g \in begun :
        /\ g.flow = d.flow /\ g.browser = d.browser /\ g.intent = d.intent
        /\ g.intent = "link" => g.user = d.user
    BY DEF PlacesInv
  <2>3. 1..started \subseteq 1..started'  BY DEF AccessTyped
  <2> QED  BY <2>1, <2>2, <2>3 DEF PlacesInv, OutcomeOK
<1>3. OnePlaceInv'
  <2>1. \A s, t \in Reqs : FlowOf(req'[s]) # 0 /\ FlowOf(req'[s]) = FlowOf(req'[t]) => s = t
    BY <1>1 DEF OnePlaceInv
  <2>2. \A s \in Reqs, o \in outcomes' : FlowOf(req'[s]) # o.pending.flow
    BY <1>1, FlowNumbers DEF OnePlaceInv
  <2>3. \A s \in Reqs, d \in completed' : FlowOf(req'[s]) # d.flow
    BY <1>1, FlowNumbers DEF OnePlaceInv
  <2>4. \A s \in Reqs, g \in flows : FlowOf(req'[s]) # g.flow
    BY <1>1, FlowNumbers DEF OnePlaceInv
  <2>5. \A o \in outcomes', d \in completed' : o.pending.flow # d.flow  BY DEF OnePlaceInv
  <2>6. \A d, e \in completed' : d.flow = e.flow => d = e  BY DEF OnePlaceInv
  <2>7. \A d \in completed', g \in flows : d.flow # g.flow  BY DEF OnePlaceInv
  <2>8. \A o, p \in outcomes' : o.pending.flow = p.pending.flow => o = p  BY DEF OnePlaceInv
  <2>9. \A o \in outcomes', g \in flows : o.pending.flow # g.flow  BY DEF OnePlaceInv
  <2> QED  BY <2>1, <2>2, <2>3, <2>4, <2>5, <2>6, <2>7, <2>8, <2>9 DEF OnePlaceInv
<1> QED  BY <1>2, <1>3

LEMMA ExternalSignIn ==
    ASSUME AccessInv, NEW b, NEW o \in outcomes, CompleteSignIn(b, o)  PROVE AccessInv'
<1> AccessTyped /\ PlacesInv /\ OnePlaceInv  BY DEF AccessInv
<1>1. /\ outcomes' = outcomes \ {o} /\ Counted /\ req' = req
      /\ UNCHANGED <<passkeyVars, flows, begun, tokens>>
  BY DEF CompleteSignIn, Single
<1>2. started' \in Nat /\ started <= started' /\ started' = started + 1  BY <1>1, CountedUp
<1>3. AccessTyped' /\ \A pcs : Apart(pcs)  BY <1>1, <1>2, ItemsStay
<1>4. CASE completed' = completed
  BY <1>1, <1>2, <1>3, <1>4, FlowsApart, ExternalApart
<1>5. CASE TakeOutcome(o, b, "sign_in") /\ completed' = completed \cup {Completion(o, b, o.user)}
  <2>1. PICK c : c = Completion(o, b, o.user)  OBVIOUS
  <2>2. c.flow = o.pending.flow /\ c.browser = b /\ c.intent = o.pending.intent
    BY <2>1 DEF Completion
  <2>3. o.pending \in begun /\ o.pending.browser = b /\ o.pending.intent = "sign_in"
    BY <1>5 DEF PlacesInv, OutcomeOK, TakeOutcome, BoundTo
  <2>4. /\ \A s \in Reqs : FlowOf(req'[s]) # o.pending.flow
        /\ \A p \in outcomes' : p.pending.flow # o.pending.flow
        /\ \A d \in completed : d.flow # o.pending.flow
        /\ \A g \in flows : g.flow # o.pending.flow
    BY <1>1 DEF OnePlaceInv
  <2>5. completed' = completed \cup {c} /\ outcomes' \subseteq outcomes  BY <1>1, <1>5, <2>1
  <2>6. PlacesInv' /\ OnePlaceInv'
    BY <1>1, <1>2, <1>3, <2>2, <2>3, <2>4, <2>5, FlowCompleted
  <2> QED  BY <1>1, <1>2, <1>3, <2>6, ExternalApart
<1> QED  BY <1>4, <1>5 DEF CompleteSignIn

\* The outcome of a link passes to the request of the account that began it.
LEMMA LinkTaken ==
    ASSUME AccessInv, NEW r \in Reqs, NEW b, NEW u, NEW o \in outcomes, CompleteLink(r, b, u, o)
    PROVE  AccessInv'
<1> AccessTyped /\ PlacesInv /\ OnePlaceInv  BY DEF AccessInv
<1>1. /\ outcomes' = outcomes \ {o}
      /\ UNCHANGED <<passkeyVars, flows, begun, completed, tokens>>
  BY DEF CompleteLink
<1>2. CASE Single
  <2>1. Counted /\ req' = req  BY <1>2 DEF Single
  <2>2. started' \in Nat /\ started <= started'  BY <2>1, CountedUp
  <2>3. AccessTyped' /\ \A pcs : Apart(pcs)  BY <2>1, <2>2, ItemsStay
  <2>4. outcomes' \subseteq outcomes  BY <1>1
  <2> QED  BY <1>1, <2>2, <2>3, <2>4, FlowsApart, ExternalApart
<1>3. CASE /\ TakeOutcome(o, b, "link") /\ o.user = u
           /\ Begin(r, [pc |-> "link", outcome |-> o, browser |-> b, user |-> u, id |-> Serial])
  <2>1. PICK x : x = [pc |-> "link", outcome |-> o, browser |-> b, user |-> u, id |-> Serial]  OBVIOUS
  <2>2. req' = [req EXCEPT ![r] = x] /\ Counted  BY <1>3, <2>1 DEF Begin
  <2>3. x.pc = "link" /\ x.outcome = o /\ x.browser = b /\ x.user = u /\ FlowOf(x) = o.pending.flow
    BY <2>1 DEF FlowOf
  <2>4. started' \in Nat /\ started <= started'  BY <2>2, CountedUp
  <2>5. IsItem(x, started')  BY <2>1, <2>3 DEF IsItem, PasskeyPcs
  <2>6. /\ AccessTyped' /\ req' = [s \in Reqs |-> IF s = r THEN x ELSE req[s]]
        /\ \A pcs : x.pc \notin pcs => Apart(pcs)
    BY <2>2, <2>4, <2>5, ItemMoves
  <2>7. o.pending \in begun /\ o.pending.browser = b /\ o.pending.intent = "link" /\ o.pending.user = u
    BY <1>3 DEF PlacesInv, OutcomeOK, TakeOutcome, BoundTo
  <2>8. PlacesInv'
    <3>1. 1..started \subseteq 1..started'  BY <2>4 DEF AccessTyped
    <3>2. \A s \in Reqs : req'[s].pc \in {"settle", "outcome"} => req'[s] = req[s]  BY <2>3, <2>6
    <3>3. \A s \in Reqs : req'[s].pc = "link" =>
            LET f == req'[s].outcome.pending IN
            f \in begun /\ f.browser = req'[s].browser /\ f.user = req'[s].user /\ f.intent = "link"
      BY <2>3, <2>6, <2>7 DEF PlacesInv
    <3> QED  BY <1>1, <3>1, <3>2, <3>3 DEF PlacesInv, OutcomeOK
  <2>9. OnePlaceInv'
    <3>1. \A s \in Reqs : FlowOf(req'[s]) = IF s = r THEN o.pending.flow ELSE FlowOf(req[s])  BY <2>3, <2>6
    <3>2. \A s \in Reqs : FlowOf(req[s]) # o.pending.flow  BY DEF OnePlaceInv
    <3>3. \A p \in outcomes' : p \in outcomes /\ p.pending.flow # o.pending.flow  BY <1>1 DEF OnePlaceInv
    <3>4. \A s, t \in Reqs : FlowOf(req'[s]) # 0 /\ FlowOf(req'[s]) = FlowOf(req'[t]) => s = t
      BY <3>1, <3>2 DEF OnePlaceInv
    <3>5. \A s \in Reqs, p \in outcomes' : FlowOf(req'[s]) # p.pending.flow  BY <3>1, <3>3 DEF OnePlaceInv
    <3>6. \A s \in Reqs, c \in completed : FlowOf(req'[s]) # c.flow  BY <3>1 DEF OnePlaceInv
    <3>7. \A s \in Reqs, g \in flows : FlowOf(req'[s]) # g.flow  BY <3>1 DEF OnePlaceInv
    <3> QED  BY <1>1, <3>3, <3>4, <3>5, <3>6, <3>7 DEF OnePlaceInv
  <2>10. Apart({"credential", "record", "issue", "insert_token"})  BY <2>3, <2>6
  <2> QED  BY <1>1, <2>4, <2>6, <2>8, <2>9, <2>10, ExternalApart
<1> QED  BY <1>2, <1>3 DEF CompleteLink

LEMMA LinkMade ==
    ASSUME AccessInv, NEW r \in Reqs, Link(r)  PROVE AccessInv'
<1> AccessTyped /\ PlacesInv /\ OnePlaceInv  BY DEF AccessInv
<1>1. PICK x : x = req[r]  OBVIOUS
<1>2. x.pc = "link" /\ Done(r) /\ UNCHANGED <<passkeyVars, flows, outcomes, begun, tokens>>
  BY <1>1 DEF Link
<1>3. /\ AccessTyped' /\ started' = started /\ req' = [s \in Reqs |-> IF s = r THEN Idle ELSE req[s]]
      /\ \A pcs : "idle" \notin pcs => Apart(pcs)
  BY <1>2, ItemDone
<1>4. /\ started' \in Nat /\ started <= started'
      /\ Apart({"credential", "record", "issue", "insert_token"}) /\ Apart({"settle", "outcome", "link"})
  BY <1>3 DEF AccessTyped
<1>5. CASE completed' = completed
  BY <1>2, <1>3, <1>4, <1>5, FlowsApart, ExternalApart
<1>6. CASE completed' = completed \cup {Completion(x.outcome, x.browser, x.user)}
  <2>1. PICK c : c = Completion(x.outcome, x.browser, x.user)  OBVIOUS
  <2>2. /\ c.flow = x.outcome.pending.flow /\ c.browser = x.browser /\ c.user = x.user
        /\ c.intent = x.outcome.pending.intent
    BY <2>1 DEF Completion
  <2>3. PICK f \in begun : f = x.outcome.pending  BY <1>1, <1>2 DEF PlacesInv
  <2>4. f.flow = c.flow /\ f.browser = c.browser /\ f.intent = c.intent /\ f.user = c.user
    BY <1>1, <1>2, <2>2, <2>3 DEF PlacesInv
  <2>5. FlowOf(req[r]) = f.flow /\ f.flow # 0  BY <1>1, <1>2, <2>3, FlowNumbers DEF FlowOf
  <2>6. FlowOf(Idle) = 0  BY DEF FlowOf, Idle
  <2>7. \A s \in Reqs : FlowOf(req'[s]) # f.flow  BY <1>3, <2>5, <2>6 DEF OnePlaceInv
  <2>8. /\ \A o \in outcomes' : o.pending.flow # f.flow
        /\ \A d \in completed : d.flow # f.flow
        /\ \A g \in flows : g.flow # f.flow
    BY <1>2, <2>5 DEF OnePlaceInv
  <2>9. completed' = completed \cup {c} /\ outcomes' \subseteq outcomes  BY <1>2, <1>6, <2>1
  <2>10. PlacesInv' /\ OnePlaceInv'
    BY <1>2, <1>4, <2>4, <2>7, <2>8, <2>9, FlowCompleted
  <2> QED  BY <1>2, <1>3, <1>4, <2>10, ExternalApart
<1> QED  BY <1>1, <1>5, <1>6 DEF Link

LEMMA ExternalStep ==
    ASSUME AccessInv, ExternalNext  PROVE AccessInv'
<1> AccessTyped /\ PlacesInv /\ OnePlaceInv  BY DEF AccessInv
<1>1. ASSUME req' = req, started' \in Nat, started <= started', flows' \subseteq flows,
             outcomes' \subseteq outcomes, UNCHANGED <<passkeyVars, begun, completed, tokens>>
      PROVE  AccessInv'
  <2>1. AccessTyped' /\ \A pcs : Apart(pcs)  BY <1>1, ItemsStay
  <2> QED  BY <1>1, <2>1, FlowsApart, ExternalApart
<1>2. CASE DeleteIdentity
  <2>1. Counted /\ req' = req /\ UNCHANGED <<passkeyVars, flows, outcomes, begun, completed, tokens>>
    BY <1>2 DEF DeleteIdentity, Unlink, Single
  <2> QED  BY <1>1, <2>1, CountedUp
<1>3. CASE FlowExpires
  <2>1. started' \in Nat /\ started <= started'  BY <1>3 DEF FlowExpires, AccessTyped
  <2> QED  BY <1>1, <1>3, <2>1 DEF FlowExpires
<1>4. CASE PostStartSignIn \/ PostStartLink
  BY <1>4, FlowBegins DEF PostStartSignIn, PostStartLink, StartLink
<1>5. CASE PostCompleteSignIn
  BY <1>5, ExternalSignIn DEF PostCompleteSignIn
<1>6. ASSUME NEW r \in Reqs, GetCallback(r)  PROVE AccessInv'
  BY <1>6, FlowCalledBack DEF GetCallback
<1>7. ASSUME NEW r \in Reqs, PostCompleteLink(r)  PROVE AccessInv'
  BY <1>7, LinkTaken DEF PostCompleteLink
<1> QED  BY <1>2, <1>3, <1>4, <1>5, <1>6, <1>7, FlowSettled, OutcomeStored, LinkMade DEF ExternalNext

LEMMA AccessStarts == RequestsInit /\ AccessInit => AccessInv
<1> SUFFICES ASSUME RequestsInit, AccessInit  PROVE AccessInv  OBVIOUS
<1> MAX_ACTIVE \in Nat /\ MaxRequests \in Nat  BY AccessAssumption, RequestsAssumption
<1>1. DOMAIN req = Reqs /\ started = 0 /\ \A r \in Reqs : req[r] = Idle  BY DEF RequestsInit
<1>2. Idle.pc = "idle" /\ FlowOf(Idle) = 0  BY DEF Idle, FlowOf
<1>3. AccessTyped  BY <1>1, <1>2 DEF AccessTyped, IsItem, PasskeyPcs
<1>4. ChallengeInv  BY <1>1, <1>2 DEF ChallengeInv, Took, AccessInit
<1>5. CounterInv
  <2>1. sign_count \in [Passkeys -> Int]  BY DEF AccessInit
  <2> QED  BY <1>1, <1>2, <2>1 DEF CounterInv, AccessInit
<1>6. PlacesInv /\ OnePlaceInv  BY <1>1, <1>2 DEF PlacesInv, OnePlaceInv, AccessInit
<1>7. PatInv
  <2>1. DOMAIN tokens = 1..MaxRequests /\ Active = {}  BY DEF AccessInit, Active
  <2> QED  BY <1>1, <1>2, <2>1, FS_EmptySet DEF PatInv
<1> QED  BY <1>3, <1>4, <1>5, <1>6, <1>7 DEF AccessInv

LEMMA AccessStep ==
    AccessInv /\ [AccessNext]_<<req, started, accessVars>> => AccessInv'
<1> SUFFICES ASSUME AccessInv, [AccessNext]_<<req, started, accessVars>>  PROVE AccessInv'  OBVIOUS
<1> AccessTyped  BY DEF AccessInv
<1>1. CASE AccessDrop
  <2>1. PICK r \in Reqs : Done(r) /\ UNCHANGED accessVars  BY <1>1 DEF AccessDrop, DropAccess
  <2>2. AccessTyped' /\ started' = started /\ \A pcs : "idle" \notin pcs => Apart(pcs)
    BY <2>1, ItemDone
  <2> QED  BY <2>1, <2>2, AllApart DEF AccessTyped
<1>2. CASE UNCHANGED <<req, started, accessVars>>
  <2>1. started' \in Nat /\ started <= started'  BY <1>2 DEF AccessTyped
  <2>2. AccessTyped' /\ \A pcs : Apart(pcs)  BY <1>2, <2>1, ItemsStay
  <2> QED  BY <1>2, <2>1, <2>2, AllApart
<1> QED  BY <1>1, <1>2, PasskeyStep, ExternalStep, PatStep DEF AccessNext

LEMMA AccessHolds == AccessSpec => []AccessInv
<1> QED  BY AccessStarts, AccessStep, PTL DEF AccessSpec

\* verify_challenge, record_passkey_use: for any number of sign-ins at once, of any
\* number of credentials, a challenge signs in once, and a count that an authenticator
\* presented signs in once.
THEOREM OneSignInPerAssertion == AccessSpec => []PasskeySignsInOnce
<1>1. AccessInv => PasskeySignsInOnce
  BY DEF AccessInv, ChallengeInv, CounterInv, SameCount, PasskeySignsInOnce
<1> QED  BY <1>1, AccessHolds, PTL

\* callback, take_outcome, complete_link: for any number of browsers, people and flows, a
\* flow ends once, where it began, as what it began, on the account that began it.
THEOREM FlowsEndWhereTheyBegan == AccessSpec => []FlowEndsWhereItBegan
<1>1. AccessInv => FlowEndsWhereItBegan
  BY DEF AccessInv, PlacesInv, OnePlaceInv, FlowEndsWhereItBegan
<1> QED  BY <1>1, AccessHolds, PTL

\* create, count_active: for any number of creations at once and any limit.
THEOREM TokensAreBounded == AccessSpec => []TokensBounded
<1>1. AccessInv => TokensBounded
  BY DEF AccessInv, PatInv, TokensBounded
<1> QED  BY <1>1, AccessHolds, PTL

-----------------------------------------------------------------------------
(***************************************************************************)
(* Second-factor enrolment and the rotation of the key.  KeyInv: under     *)
(* both keys, what is stored under the old one is what every rotation that *)
(* runs has read, so one that skips a secret finds it under the new key.   *)
(* AskedInv: what a removal deletes or promotes stays as it found it; what *)
(* is confirmed behind its back is confirmed by a request that still has   *)
(* to look for a primary method and to replace the codes.                  *)
(***************************************************************************)
Rows == [id: Int, verified: BOOLEAN, primary: BOOLEAN, secret: Int, key: {"old", "new", "none"}]

IsSetup(x) ==
    /\ x = [pc |-> x.pc, kind |-> x.kind, id |-> x.id, secret |-> x.secret, key |-> x.key]
    /\ x.kind \in Kinds /\ x.id \in Nat \ {0} /\ x.secret \in Int /\ x.key \in {"old", "new", "none"}

IsConfirmation(x) ==
    /\ x = [pc |-> x.pc, kind |-> x.kind, id |-> x.id, batch |-> x.batch, secret |-> x.secret, key |-> x.key]
    /\ x.kind \in Kinds /\ x.id \in Int \ {0} /\ x.batch \in Nat \ {0}

IsRegeneration(x) == x = [pc |-> x.pc, batch |-> x.batch] /\ x.batch \in Nat \ {0}

IsReplacement(x) == x = [pc |-> x.pc, batch |-> x.batch, claimed |-> TRUE] /\ x.batch \in Nat \ {0}

IsRegistration(x) ==
    /\ x = [pc |-> x.pc, session |-> x.session, credential |-> x.credential, challenge |-> x.challenge,
            batch |-> x.batch]
    /\ x.batch \in Nat \ {0}

IsRemoval(x) ==
    /\ x = [pc |-> x.pc, kind |-> x.kind, id |-> x.id, was_primary |-> x.was_primary,
            promoted |-> x.promoted, dropped |-> x.dropped]
    /\ x.kind \in Kinds /\ x.was_primary \in BOOLEAN /\ x.dropped \in Int

IsRotation(x) ==
    x = [pc |-> x.pc, hook |-> x.hook, totp |-> x.totp, id |-> x.id, results |-> x.results]

SettingUp == {"replace", "create"}
ConfirmPcs == {"budget", "code", "mark", "primary", "set"}
RemovalPcs == {"delete", "promote", "count", "commit"}
RegisterPcs == {"take", "insert", "usable"}
RotationPcs == {"rewrap_hook", "rewrap_totp"}

IsEnrolment(x) ==
    /\ x.pc \in SettingUp => IsSetup(x)
    /\ x.pc \in ConfirmPcs => IsConfirmation(x)
    /\ x.pc = "codes" => \/ "kind" \in DOMAIN x /\ IsConfirmation(x)
                         \/ "claimed" \in DOMAIN x /\ IsReplacement(x)
                         \/ "session" \in DOMAIN x /\ IsRegistration(x)
    /\ x.pc = "cooldown" => IsRegeneration(x)
    /\ x.pc \in RegisterPcs => IsRegistration(x)
    /\ x.pc \in RemovalPcs => IsRemoval(x)
    /\ x.pc \in RotationPcs => IsRotation(x)

ReqsTyped ==
    /\ DOMAIN req = Reqs /\ started \in Nat
    /\ \A r \in Reqs : IsEnrolment(req[r])

RowsTyped ==
    /\ row \in [Kinds -> Rows]
    /\ \A k \in Kinds : row[k].id = 0 => row[k] = NoRow
    /\ hook \in [secret: Int, key: {"old", "new"}]
    /\ ring \in {"old", "both", "new"} /\ clean \in BOOLEAN /\ cut \in BOOLEAN /\ overlooked \in BOOLEAN
    /\ codes \in [batch: Int, usable: BOOLEAN]
    /\ written \in [{"totp", "hook"} -> Int]

RotationInv(x) ==
    /\ x.pc = "rewrap_hook" /\ hook.key = "old" => x.hook = hook
    /\ x.pc = "rewrap_totp" /\ x.results \subseteq {"skipped"} => hook.key # "old"
    /\ x.pc \in RotationPcs /\ row["totp"].key = "old" => x.totp = Stored(row["totp"]) /\ x.id = row["totp"].id

KeyInv ==
    /\ \A r \in Reqs : req[r].pc \in SettingUp => req[r].key \in {CurrentKid, "none"}
    /\ ring = "both" => \A r \in Reqs : RotationInv(req[r])
    /\ SecretsSurviveRotation

\* Every method has an id of its own.
IdInv ==
    /\ \A k \in Kinds : row[k].id <= started
    /\ \A r \in Reqs : req[r].pc \in SettingUp \cup ConfirmPcs => req[r].id <= started
    /\ \A r \in Reqs : req[r].pc \in SettingUp =>
        /\ \A k \in Kinds : row[k].id # req[r].id
        /\ \A s \in Reqs : s # r /\ req[s].pc \in SettingUp \cup ConfirmPcs => req[s].id # req[r].id

Drafting == ConfirmPcs \cup RegisterPcs \cup {"codes", "cooldown"}

\* Every batch of codes has a number of its own.
BatchInv ==
    /\ codes.batch <= started
    /\ \A r \in Reqs : req[r].pc = "commit" => req[r].dropped <= started
    /\ \A r \in Reqs : req[r].pc \in Drafting =>
        /\ req[r].batch <= started /\ req[r].batch # codes.batch
        /\ \A s \in Reqs : s # r /\ req[s].pc \in Drafting => req[s].batch # req[r].batch
        /\ \A s \in Reqs : req[s].pc = "commit" => req[s].dropped # req[r].batch

\* What is confirmed beside a removal that has looked already.
Excused == cut \/ overlooked \/ \E s \in Reqs : req[s].pc = "primary"

ConfirmedInv ==
    \A r \in Reqs : req[r].pc \in {"primary", "set"} /\ row[req[r].kind].id = req[r].id =>
        row[req[r].kind].verified

RemovalInv ==
    /\ \A r, s \in Reqs : Removing(r) /\ Removing(s) => r = s
    /\ \A r \in Reqs : Removing(r) => req[r].was_primary = row[req[r].kind].primary
    /\ \A r \in Reqs : req[r].pc \in {"count", "commit"} =>
        /\ req[r].promoted \in {None, Other(req[r].kind)}
        /\ req[r].promoted = Other(req[r].kind) => row[Other(req[r].kind)].verified
        /\ req[r].was_primary /\ req[r].promoted # Other(req[r].kind) /\ row[Other(req[r].kind)].verified => Excused

Between == \E s \in Reqs : BetweenStatements(s)

DroppedInv ==
    \A r \in Reqs : /\ req[r].pc = "commit" /\ req[r].dropped # 0 /\ req[r].dropped = codes.batch
                    /\ row[Other(req[r].kind)].verified
                    => cut \/ Between

AskedInv == IdInv /\ BatchInv /\ ConfirmedInv /\ RemovalInv /\ DroppedInv /\ SecondFactorIsAsked

EnrolmentInv == ReqsTyped /\ RowsTyped /\ KeyInv /\ AskedInv

-----------------------------------------------------------------------------
\* Only request r moves, to x.
Moves(r, x) ==
    /\ req' = [s \in Reqs |-> IF s = r THEN x ELSE req[s]]
    /\ ReqsTyped'

LEMMA EnrolmentMoves ==
    ASSUME ReqsTyped, NEW r \in Reqs, NEW x, req' = [req EXCEPT ![r] = x], IsEnrolment(x), started' \in Nat
    PROVE  Moves(r, x)
<1>1. req' = [s \in Reqs |-> IF s = r THEN x ELSE req[s]]
  BY DEF ReqsTyped
<1>2. ReqsTyped'
  BY <1>1 DEF ReqsTyped
<1> QED  BY <1>1, <1>2 DEF Moves

LEMMA EnrolmentDone ==
    ASSUME ReqsTyped, NEW r \in Reqs, Done(r)
    PROVE  Moves(r, Idle) /\ started' = started
<1>1. PICK x : x = Idle  OBVIOUS
<1>2. x.pc = "idle"  BY <1>1 DEF Idle
<1>3. IsEnrolment(x)
  BY <1>2 DEF IsEnrolment, SettingUp, ConfirmPcs, RegisterPcs, RemovalPcs, RotationPcs
<1>4. req' = [req EXCEPT ![r] = x] /\ started' = started /\ started' \in Nat  BY <1>1 DEF Done, ReqsTyped
<1>5. Moves(r, x)  BY <1>3, <1>4, EnrolmentMoves
<1> QED  BY <1>1, <1>4, <1>5

LEMMA EnrolmentBegins ==
    ASSUME ReqsTyped, NEW r \in Reqs, NEW x, Begin(r, x), IsEnrolment(x)
    PROVE  Moves(r, x) /\ started' = started + 1 /\ req[r] = Idle
<1>1. req' = [req EXCEPT ![r] = x] /\ started' = started + 1 /\ started' \in Nat /\ req[r] = Idle
  BY DEF Begin, Counted, Serial, ReqsTyped
<1> QED  BY <1>1, EnrolmentMoves

LEMMA SetupGoes ==
    ASSUME ReqsTyped, NEW r \in Reqs, req[r].pc \in SettingUp, NEW pc \in SettingUp, Goto(r, pc)
    PROVE  /\ started' = started
           /\ \E x : /\ Moves(r, x) /\ x.pc = pc /\ IsSetup(x)
                     /\ x.id = req[r].id /\ x.kind = req[r].kind /\ x.secret = req[r].secret /\ x.key = req[r].key
<1>1. IsSetup(req[r])  BY DEF ReqsTyped, IsEnrolment
<1>2. PICK x : x = [req[r] EXCEPT !.pc = pc]  OBVIOUS
<1>3. x = [pc |-> pc, kind |-> req[r].kind, id |-> req[r].id, secret |-> req[r].secret, key |-> req[r].key]
  BY <1>1, <1>2 DEF IsSetup
<1>4. /\ x.pc = pc /\ x.id = req[r].id /\ x.kind = req[r].kind /\ x.secret = req[r].secret /\ x.key = req[r].key
      /\ x = [pc |-> x.pc, kind |-> x.kind, id |-> x.id, secret |-> x.secret, key |-> x.key]
  BY <1>3
<1>5. IsSetup(x)  BY <1>1, <1>4 DEF IsSetup
<1>6. IsEnrolment(x)
  BY <1>4, <1>5 DEF IsEnrolment, SettingUp, ConfirmPcs, RegisterPcs, RemovalPcs, RotationPcs
<1>7. req' = [req EXCEPT ![r] = x] /\ started' = started /\ started' \in Nat
  BY <1>2 DEF Goto, ReqsTyped
<1>8. Moves(r, x)  BY <1>6, <1>7, EnrolmentMoves
<1> QED  BY <1>4, <1>5, <1>7, <1>8

LEMMA ConfirmationGoes ==
    ASSUME ReqsTyped, NEW r \in Reqs, req[r].pc \in ConfirmPcs, NEW pc \in ConfirmPcs \cup {"codes"}, Goto(r, pc)
    PROVE  /\ started' = started
           /\ \E x : /\ Moves(r, x) /\ x.pc = pc /\ IsConfirmation(x) /\ "kind" \in DOMAIN x
                     /\ x.id = req[r].id /\ x.kind = req[r].kind /\ x.batch = req[r].batch
<1>1. IsConfirmation(req[r])  BY DEF ReqsTyped, IsEnrolment
<1>2. PICK x : x = [req[r] EXCEPT !.pc = pc]  OBVIOUS
<1>3. x = [pc |-> pc, kind |-> req[r].kind, id |-> req[r].id, batch |-> req[r].batch,
           secret |-> req[r].secret, key |-> req[r].key]
  BY <1>1, <1>2 DEF IsConfirmation
<1>4. /\ x.pc = pc /\ x.id = req[r].id /\ x.kind = req[r].kind /\ x.batch = req[r].batch
      /\ x = [pc |-> x.pc, kind |-> x.kind, id |-> x.id, batch |-> x.batch, secret |-> x.secret, key |-> x.key]
      /\ "kind" \in DOMAIN x
  BY <1>3
<1>5. IsConfirmation(x)  BY <1>1, <1>4 DEF IsConfirmation
<1>6. IsEnrolment(x)
  BY <1>4, <1>5 DEF IsEnrolment, SettingUp, ConfirmPcs, RegisterPcs, RemovalPcs, RotationPcs
<1>7. req' = [req EXCEPT ![r] = x] /\ started' = started /\ started' \in Nat
  BY <1>2 DEF Goto, ReqsTyped
<1>8. Moves(r, x)  BY <1>6, <1>7, EnrolmentMoves
<1> QED  BY <1>4, <1>5, <1>7, <1>8

LEMMA RegistrationGoes ==
    ASSUME ReqsTyped, NEW r \in Reqs, req[r].pc \in RegisterPcs, NEW pc \in RegisterPcs \cup {"codes"}, Goto(r, pc)
    PROVE  /\ started' = started
           /\ \E x : /\ Moves(r, x) /\ x.pc = pc /\ IsRegistration(x) /\ "kind" \notin DOMAIN x
                     /\ x.batch = req[r].batch
<1>1. IsRegistration(req[r])  BY DEF ReqsTyped, IsEnrolment
<1>2. PICK x : x = [req[r] EXCEPT !.pc = pc]  OBVIOUS
<1>3. x = [pc |-> pc, session |-> req[r].session, credential |-> req[r].credential,
           challenge |-> req[r].challenge, batch |-> req[r].batch]
  BY <1>1, <1>2 DEF IsRegistration
<1>4. /\ x.pc = pc /\ x.batch = req[r].batch /\ "session" \in DOMAIN x /\ "kind" \notin DOMAIN x
      /\ x = [pc |-> x.pc, session |-> x.session, credential |-> x.credential, challenge |-> x.challenge,
              batch |-> x.batch]
  BY <1>3
<1>5. IsRegistration(x)  BY <1>1, <1>4 DEF IsRegistration
<1>6. IsEnrolment(x)
  BY <1>4, <1>5 DEF IsEnrolment, SettingUp, ConfirmPcs, RegisterPcs, RemovalPcs, RotationPcs
<1>7. req' = [req EXCEPT ![r] = x] /\ started' = started /\ started' \in Nat
  BY <1>2 DEF Goto, ReqsTyped
<1>8. Moves(r, x)  BY <1>6, <1>7, EnrolmentMoves
<1> QED  BY <1>4, <1>5, <1>7, <1>8

LEMMA OtherKind == Other("totp") = "email" /\ Other("email") = "totp"
  BY DEF Other, Kinds

\* What a request y that was x keeps of the numbers it drew.
IdKept(x, y) ==
    /\ y.pc \in SettingUp => x.pc \in SettingUp /\ y.id = x.id
    /\ y.pc \in ConfirmPcs => x.pc \in ConfirmPcs /\ y.id = x.id

BatchKept(x, y) ==
    /\ y.pc \in Drafting => x.pc \in Drafting /\ y.batch = x.batch
    /\ y.pc = "commit" => y = x

LEMMA IdsKept ==
    ASSUME ReqsTyped, ReqsTyped', IdInv, started <= started', \A s \in Reqs : IdKept(req[s], req'[s]),
           RowsTyped, \A k \in Kinds : row'[k].id \in {0, row[k].id}
    PROVE  IdInv'
<1>1. \A r \in Reqs : req[r].pc \in SettingUp => req[r].id \in Nat \ {0}
  BY DEF ReqsTyped, IsEnrolment, IsSetup
<1>2. started \in Nat /\ started' \in Nat /\ \A k \in Kinds : row[k].id \in Int  BY DEF ReqsTyped, RowsTyped, Rows
<1>3. \A r \in Reqs : req[r].pc \in SettingUp \cup ConfirmPcs => req[r].id \in Int
  BY DEF ReqsTyped, IsEnrolment, IsSetup, IsConfirmation
<1>4. \A k \in Kinds : row'[k].id <= started'  BY <1>2 DEF IdInv
<1>5. \A r \in Reqs : req'[r].pc \in SettingUp \cup ConfirmPcs => req'[r].id <= started'
  BY <1>2, <1>3 DEF IdInv, IdKept
<1>6. \A r \in Reqs : req'[r].pc \in SettingUp => \A k \in Kinds : row'[k].id # req'[r].id
  BY <1>1 DEF IdInv, IdKept
<1>7. \A r, s \in Reqs : req'[r].pc \in SettingUp /\ s # r /\ req'[s].pc \in SettingUp \cup ConfirmPcs =>
                         req'[s].id # req'[r].id
  BY DEF IdInv, IdKept
<1> QED  BY <1>4, <1>5, <1>6, <1>7 DEF IdInv

LEMMA BatchesKept ==
    ASSUME ReqsTyped, ReqsTyped', BatchInv, started <= started', \A s \in Reqs : BatchKept(req[s], req'[s]),
           RowsTyped, codes'.batch \in {0, codes.batch}
    PROVE  BatchInv'
<1>1. \A r \in Reqs : req[r].pc \in Drafting => req[r].batch \in Nat \ {0}
  BY DEF ReqsTyped, IsEnrolment, IsConfirmation, IsReplacement, IsRegistration, IsRegeneration, Drafting
<1>2. started \in Nat /\ started' \in Nat /\ codes.batch \in Int  BY DEF ReqsTyped, RowsTyped
<1>3. \A r \in Reqs : req[r].pc = "commit" => req[r].dropped \in Int
  BY DEF ReqsTyped, IsEnrolment, IsRemoval, RemovalPcs
<1>4. codes'.batch <= started'  BY <1>2 DEF BatchInv
<1>5. \A r \in Reqs : req'[r].pc = "commit" => req'[r].dropped <= started'
  BY <1>2, <1>3 DEF BatchInv, BatchKept
<1>6. \A r \in Reqs : req'[r].pc \in Drafting => req'[r].batch <= started' /\ req'[r].batch # codes'.batch
  BY <1>1, <1>2 DEF BatchInv, BatchKept
<1>7. \A r, s \in Reqs : req'[r].pc \in Drafting /\ s # r /\ req'[s].pc \in Drafting => req'[s].batch # req'[r].batch
  BY DEF BatchInv, BatchKept
<1>8. \A r, s \in Reqs : req'[r].pc \in Drafting /\ req'[s].pc = "commit" => req'[s].dropped # req'[r].batch
  BY DEF BatchInv, BatchKept
<1> QED  BY <1>4, <1>5, <1>6, <1>7, <1>8 DEF BatchInv

\* The flags of the methods are as they were.
MethodsKept ==
    \A k \in Kinds : row'[k].id = row[k].id /\ row'[k].verified = row[k].verified /\ row'[k].primary = row[k].primary

\* A request that is not between two statements of a confirmation or a removal.
Quiet(x, y) ==
    /\ IdKept(x, y) /\ BatchKept(x, y)
    /\ y.pc \in {"primary", "set", "promote", "count", "commit"} => y = x
    /\ x.pc \in {"primary", "set"} => y = x
    /\ x.pc = "codes" /\ "kind" \in DOMAIN x => y = x

LEMMA FlagsKept ==
    ASSUME ReqsTyped, ReqsTyped', RowsTyped, AskedInv, started <= started', IdInv', ConfirmedInv',
           \A k \in Kinds : row'[k].verified = row[k].verified /\ row'[k].primary = row[k].primary,
           codes'.batch = codes.batch, cut' = cut, overlooked' = overlooked,
           \A s \in Reqs : Quiet(req[s], req'[s])
    PROVE  AskedInv'
<1>1. BatchInv'
  BY BatchesKept DEF AskedInv, Quiet
<1>2. \A r \in Reqs : Removing(r) => req[r].kind \in Kinds /\ Other(req[r].kind) \in Kinds
  BY OtherKind DEF ReqsTyped, IsEnrolment, IsRemoval, RemovalPcs, Removing, Kinds
<1>3. Excused => Excused'
  BY DEF Excused, Quiet
<1>4. RemovalInv'
  <2>1. \A r \in Reqs : req'[r].pc \in {"promote", "count", "commit"} => req'[r] = req[r]  BY DEF Quiet
  <2>2. \A r, s \in Reqs : Removing(r)' /\ Removing(s)' => r = s
    BY <2>1 DEF AskedInv, RemovalInv, Removing
  <2>3. \A r \in Reqs : Removing(r)' => req'[r].was_primary = row'[req'[r].kind].primary
    BY <2>1, <1>2 DEF AskedInv, RemovalInv, Removing
  <2>4. \A r \in Reqs : req'[r].pc \in {"count", "commit"} =>
        /\ req'[r].promoted \in {None, Other(req'[r].kind)}
        /\ req'[r].promoted = Other(req'[r].kind) => row'[Other(req'[r].kind)].verified
        /\ req'[r].was_primary /\ req'[r].promoted # Other(req'[r].kind) /\ row'[Other(req'[r].kind)].verified => Excused'
    BY <2>1, <1>2, <1>3 DEF AskedInv, RemovalInv, Removing
  <2> QED  BY <2>2, <2>3, <2>4 DEF RemovalInv, Removing
<1>5. Between => Between'
  BY DEF Between, BetweenStatements, Quiet
<1>6. DroppedInv'
  BY <1>2, <1>5 DEF AskedInv, DroppedInv, Removing, Quiet
<1>7. Confirming => Confirming'
  BY DEF Confirming, Quiet
<1>8. SecondFactorIsAsked'
  BY <1>5, <1>7 DEF AskedInv, SecondFactorIsAsked, Between
<1> QED  BY <1>1, <1>4, <1>6, <1>8 DEF AskedInv

LEMMA AskedKept ==
    ASSUME ReqsTyped, ReqsTyped', RowsTyped, AskedInv, started <= started', MethodsKept,
           codes'.batch = codes.batch, cut' = cut, overlooked' = overlooked,
           \A s \in Reqs : Quiet(req[s], req'[s])
    PROVE  AskedInv'
<1>1. IdInv'
  BY IdsKept DEF AskedInv, MethodsKept, Quiet
<1>2. ConfirmedInv'
  <2>1. \A r \in Reqs : req[r].pc \in {"primary", "set"} => req[r].kind \in Kinds
    BY DEF ReqsTyped, IsEnrolment, IsConfirmation, ConfirmPcs
  <2> QED  BY <2>1 DEF AskedInv, ConfirmedInv, MethodsKept, Quiet
<1> QED  BY <1>1, <1>2, FlagsKept DEF MethodsKept

\* What a rotation and the enrolments beside it keep.
KeyKept(x, y) ==
    /\ y.pc \in SettingUp => x.pc \in SettingUp /\ y.key = x.key
    /\ y.pc \in RotationPcs => y = x

LEMMA KeysKept ==
    ASSUME KeyInv, UNCHANGED <<row, hook, ring, clean, written>>, \A s \in Reqs : KeyKept(req[s], req'[s])
    PROVE  KeyInv'
<1>1. SecretsSurviveRotation'
  BY DEF KeyInv, SecretsSurviveRotation, Readable
<1>2. \A r \in Reqs : req'[r].pc \in SettingUp => req'[r].key \in {CurrentKid', "none"}
  BY DEF KeyInv, KeyKept, CurrentKid
<1>3. ring' = "both" => \A r \in Reqs : RotationInv(req[r])'
  BY DEF KeyInv, KeyKept, RotationInv, Stored, RotationPcs
<1> QED  BY <1>1, <1>2, <1>3 DEF KeyInv

\* A step that changes neither a method, a secret nor a set of codes.
LEMMA QuietStep ==
    ASSUME EnrolmentInv, ReqsTyped', started <= started',
           UNCHANGED <<row, hook, ring, clean, written, cut, overlooked>>,
           codes' \in [batch: Int, usable: BOOLEAN], codes'.batch = codes.batch,
           \A s \in Reqs : Quiet(req[s], req'[s]) /\ KeyKept(req[s], req'[s])
    PROVE  EnrolmentInv'
<1>1. RowsTyped'  BY DEF EnrolmentInv, RowsTyped
<1>2. KeyInv'  BY KeysKept DEF EnrolmentInv
<1>3. MethodsKept  BY DEF MethodsKept
<1>4. AskedInv'  BY <1>3, AskedKept DEF EnrolmentInv
<1> QED  BY <1>1, <1>2, <1>4 DEF EnrolmentInv

LEMMA QuietMove ==
    ASSUME EnrolmentInv, NEW r \in Reqs, NEW x, Moves(r, x), started <= started',
           UNCHANGED <<row, hook, ring, clean, written, codes, cut, overlooked>>,
           Quiet(req[r], x), KeyKept(req[r], x)
    PROVE  EnrolmentInv'
<1>1. \A s \in Reqs : Quiet(req[s], req[s]) /\ KeyKept(req[s], req[s])
  BY DEF Quiet, KeyKept, IdKept, BatchKept
<1>2. \A s \in Reqs : Quiet(req[s], req'[s]) /\ KeyKept(req[s], req'[s])
  BY <1>1 DEF Moves
<1>3. ReqsTyped' /\ codes' \in [batch: Int, usable: BOOLEAN]  BY DEF Moves, EnrolmentInv, RowsTyped
<1> QED  BY <1>2, <1>3, QuietStep

\* What is written is not the enrolment's.
LEMMA QuietWrite ==
    ASSUME EnrolmentInv, req' = req, started' \in {started, started + 1},
           UNCHANGED <<row, hook, ring, clean, written, cut, overlooked>>,
           codes' \in [batch: Int, usable: BOOLEAN], codes'.batch = codes.batch
    PROVE  EnrolmentInv'
<1>1. \A s \in Reqs : Quiet(req[s], req'[s]) /\ KeyKept(req[s], req'[s])
  BY DEF Quiet, KeyKept, IdKept, BatchKept
<1>2. ReqsTyped' /\ started <= started'  BY DEF EnrolmentInv, ReqsTyped
<1> QED  BY <1>1, <1>2, QuietStep

LEMMA IdleIsQuiet ==
    ASSUME NEW x, x.pc \notin {"primary", "set"}, x.pc = "codes" => "kind" \notin DOMAIN x
    PROVE  Quiet(x, Idle) /\ KeyKept(x, Idle)
<1>1. Idle.pc = "idle"  BY DEF Idle
<1> QED  BY <1>1 DEF Quiet, KeyKept, IdKept, BatchKept, SettingUp, ConfirmPcs, RegisterPcs, RotationPcs, Drafting

LEMMA QuietDone ==
    ASSUME EnrolmentInv, NEW r \in Reqs, Done(r), req[r].pc \notin {"primary", "set"},
           req[r].pc = "codes" => "kind" \notin DOMAIN req[r],
           UNCHANGED <<row, hook, ring, clean, written, codes, cut, overlooked>>
    PROVE  EnrolmentInv'
<1>1. Moves(r, Idle) /\ started' = started  BY EnrolmentDone DEF EnrolmentInv
<1>2. Quiet(req[r], Idle) /\ KeyKept(req[r], Idle)  BY IdleIsQuiet
<1>3. started <= started'  BY <1>1 DEF EnrolmentInv, ReqsTyped
<1> QED  BY <1>1, <1>2, <1>3, QuietMove

LEMMA AttemptCounted ==
    ASSUME EnrolmentInv, NEW r \in Reqs, ConsumeSetupBudget(r) \/ CheckSetupCode(r)  PROVE EnrolmentInv'
<1> ReqsTyped /\ started \in Nat  BY DEF EnrolmentInv, ReqsTyped
<1>1. UNCHANGED <<row, hook, ring, clean, written, codes, cut, overlooked>> /\ req[r].pc \in {"budget", "code"}
  BY DEF ConsumeSetupBudget, CheckSetupCode, keys
<1>2. CASE Done(r)  BY <1>1, <1>2, QuietDone
<1>3. ASSUME NEW pc \in {"code", "mark"}, Goto(r, pc)  PROVE EnrolmentInv'
  <2>1. req[r].pc \in ConfirmPcs /\ pc \in ConfirmPcs \cup {"codes"}  BY <1>1 DEF ConfirmPcs
  <2>2. started' = started /\ \E x : /\ Moves(r, x) /\ x.pc = pc
                     /\ x.id = req[r].id /\ x.batch = req[r].batch
    BY <1>3, <2>1, ConfirmationGoes
  <2>3. PICK x : Moves(r, x) /\ x.pc = pc /\ x.id = req[r].id /\ x.batch = req[r].batch  BY <2>2
  <2>4. Quiet(req[r], x) /\ KeyKept(req[r], x)
    BY <1>1, <2>1, <2>3 DEF Quiet, KeyKept, IdKept, BatchKept, SettingUp, ConfirmPcs, RegisterPcs, RotationPcs, Drafting
  <2>5. started <= started'  BY <2>2
  <2> QED  BY <1>1, <2>3, <2>4, <2>5, QuietMove
<1>4. Done(r) \/ Goto(r, "code") \/ Goto(r, "mark")  BY DEF ConsumeSetupBudget, CheckSetupCode
<1> QED  BY <1>2, <1>3, <1>4

\* A request that begins with no number of its own.
LEMMA QuietBegin ==
    ASSUME EnrolmentInv, NEW r \in Reqs, NEW x, Begin(r, x), IsEnrolment(x), UNCHANGED enrolmentVars,
           x.pc \in {"delete", "pending"}
    PROVE  EnrolmentInv'
<1>1. Moves(r, x) /\ started' = started + 1 /\ req[r] = Idle /\ Idle.pc = "idle"
  BY EnrolmentBegins DEF EnrolmentInv, Idle
<1>2. Quiet(req[r], x) /\ KeyKept(req[r], x)
  BY <1>1 DEF Quiet, KeyKept, IdKept, BatchKept, SettingUp, ConfirmPcs, RegisterPcs, RotationPcs, Drafting
<1>3. started <= started'  BY <1>1 DEF EnrolmentInv, ReqsTyped
<1> QED  BY <1>1, <1>2, <1>3, QuietMove DEF enrolmentVars, methods, keys

LEMMA RemovalBegins ==
    ASSUME EnrolmentInv, NEW r \in Reqs, NEW k \in Kinds, DisableMethod(r, k)  PROVE EnrolmentInv'
<1>1. PICK x : x = [pc |-> "delete", kind |-> k, id |-> row[k].id, was_primary |-> FALSE,
                    promoted |-> None, dropped |-> 0]
  OBVIOUS
<1>2. x.pc = "delete" /\ IsRemoval(x)  BY <1>1 DEF IsRemoval
<1>3. IsEnrolment(x)  BY <1>2 DEF IsEnrolment, SettingUp, ConfirmPcs, RegisterPcs, RotationPcs
<1>4. Begin(r, x) /\ UNCHANGED enrolmentVars  BY <1>1 DEF DisableMethod
<1> QED  BY <1>2, <1>3, <1>4, QuietBegin

LEMMA RegenerationClaimed ==
    ASSUME EnrolmentInv, NEW r \in Reqs, ClaimRegeneration(r) \/ RegenerationFails(r)  PROVE EnrolmentInv'
<1> ReqsTyped /\ started \in Nat  BY DEF EnrolmentInv, ReqsTyped
<1>1. UNCHANGED <<row, hook, ring, clean, written, codes, cut, overlooked>>
  BY DEF ClaimRegeneration, RegenerationFails, keys, methods
<1>2. CASE Done(r) /\ ClaimRegeneration(r)  BY <1>1, <1>2, QuietDone DEF ClaimRegeneration
<1>3. CASE RegenerationFails(r)
  <2>1. req[r].pc = "codes" /\ "claimed" \in DOMAIN req[r] /\ Done(r)  BY <1>3 DEF RegenerationFails
  <2>2. "kind" \notin DOMAIN req[r]
    BY <2>1 DEF ReqsTyped, IsEnrolment, IsConfirmation, IsReplacement, IsRegistration
  <2> QED  BY <1>1, <2>1, <2>2, QuietDone
<1>4. CASE ClaimRegeneration(r) /\ ~Done(r)
  <2>1. /\ req[r].pc = "cooldown" /\ started' = started
        /\ req' = [req EXCEPT ![r] = [pc |-> "codes", batch |-> @.batch, claimed |-> TRUE]]
    BY <1>4 DEF ClaimRegeneration
  <2>2. req[r].batch \in Nat \ {0}  BY <2>1 DEF ReqsTyped, IsEnrolment, IsRegeneration
  <2>3. PICK x : x = [pc |-> "codes", batch |-> req[r].batch, claimed |-> TRUE]  OBVIOUS
  <2>4. /\ x.pc = "codes" /\ x.batch = req[r].batch /\ "claimed" \in DOMAIN x
        /\ x = [pc |-> x.pc, batch |-> x.batch, claimed |-> TRUE]
    BY <2>3
  <2>5. IsReplacement(x)  BY <2>2, <2>4 DEF IsReplacement
  <2>6. IsEnrolment(x)  BY <2>4, <2>5 DEF IsEnrolment, SettingUp, ConfirmPcs, RegisterPcs, RemovalPcs, RotationPcs
  <2>7. req' = [req EXCEPT ![r] = x]  BY <2>1, <2>3
  <2>8. req[r].pc = "cooldown" /\ started' \in Nat /\ started <= started'  BY <2>1
  <2>9. Moves(r, x)  BY <2>6, <2>7, <2>8, EnrolmentMoves
  <2>10. Quiet(req[r], x) /\ KeyKept(req[r], x)
    BY <2>4, <2>8 DEF Quiet, KeyKept, IdKept, BatchKept, SettingUp, ConfirmPcs, RegisterPcs, RotationPcs, Drafting
  <2> QED  BY <1>1, <2>8, <2>9, <2>10, QuietMove
<1> QED  BY <1>2, <1>3, <1>4

LEMMA PasskeyRegistered ==
    ASSUME EnrolmentInv, NEW r \in Reqs,
           StorePending(r) \/ CheckRegistration(r) \/ CreatePasskey(r) \/ CountUsable(r)
    PROVE  EnrolmentInv'
<1> ReqsTyped /\ started \in Nat  BY DEF EnrolmentInv, ReqsTyped
<1>1. /\ UNCHANGED <<row, hook, ring, clean, written, codes, cut, overlooked>>
      /\ req[r].pc \in {"pending", "take", "insert", "usable"}
  BY DEF StorePending, CheckRegistration, CreatePasskey, CountUsable, keys, methods, enrolmentVars
<1>2. CASE Done(r)  BY <1>1, <1>2, QuietDone
<1>3. ASSUME NEW pc \in {"insert", "usable", "codes"}, Goto(r, pc), req[r].pc # "pending"  PROVE EnrolmentInv'
  <2>1. req[r].pc \in RegisterPcs /\ pc \in RegisterPcs \cup {"codes"}  BY <1>1, <1>3 DEF RegisterPcs
  <2>2. started' = started /\ \E x : Moves(r, x) /\ x.pc = pc /\ x.batch = req[r].batch
    BY <1>3, <2>1, RegistrationGoes
  <2>3. PICK x : Moves(r, x) /\ x.pc = pc /\ x.batch = req[r].batch  BY <2>2
  <2>4. Quiet(req[r], x) /\ KeyKept(req[r], x)
    BY <1>1, <2>1, <2>3 DEF Quiet, KeyKept, IdKept, BatchKept, SettingUp, ConfirmPcs, RegisterPcs, RotationPcs, Drafting
  <2>5. started <= started'  BY <2>2
  <2> QED  BY <1>1, <2>3, <2>4, <2>5, QuietMove
<1>4. Done(r) \/ (req[r].pc # "pending" /\ (Goto(r, "insert") \/ Goto(r, "usable") \/ Goto(r, "codes")))
  BY DEF StorePending, CheckRegistration, CreatePasskey, CountUsable
<1> QED  BY <1>2, <1>3, <1>4

\* Numbers drawn: whatever was drawn before is smaller.
LEMMA Drawn ==
    ASSUME EnrolmentInv
    PROVE  /\ \A k \in Kinds : row[k].id # started + 1
           /\ codes.batch # started + 1
           /\ \A s \in Reqs : req[s].pc \in SettingUp \cup ConfirmPcs => req[s].id # started + 1
           /\ \A s \in Reqs : req[s].pc \in Drafting => req[s].batch # started + 1
           /\ \A s \in Reqs : req[s].pc = "commit" => req[s].dropped # started + 1
<1>1. started \in Nat /\ (\A k \in Kinds : row[k].id \in Int) /\ codes.batch \in Int
  BY DEF EnrolmentInv, ReqsTyped, RowsTyped, Rows
<1>2. \A s \in Reqs : req[s].pc \in SettingUp \cup ConfirmPcs => req[s].id \in Int
  BY DEF EnrolmentInv, ReqsTyped, IsEnrolment, IsSetup, IsConfirmation
<1>3. \A s \in Reqs : req[s].pc \in Drafting => req[s].batch \in Int
  BY DEF EnrolmentInv, ReqsTyped, IsEnrolment, IsConfirmation, IsReplacement, IsRegistration, IsRegeneration, Drafting
<1>4. \A s \in Reqs : req[s].pc = "commit" => req[s].dropped \in Int
  BY DEF EnrolmentInv, ReqsTyped, IsEnrolment, IsRemoval, RemovalPcs
<1> QED  BY <1>1, <1>2, <1>3, <1>4 DEF EnrolmentInv, AskedInv, IdInv, BatchInv

\* A request that begins with numbers of its own.
LEMMA NumberedBegin ==
    ASSUME EnrolmentInv, NEW r \in Reqs, NEW x, Begin(r, x), IsEnrolment(x),
           UNCHANGED <<row, codes, cut, overlooked>>,
           x.pc \in SettingUp \cup ConfirmPcs \cup Drafting, x.pc \notin {"primary", "set", "codes"},
           x.pc \in SettingUp => x.id = started + 1,
           x.pc \in ConfirmPcs => x.id = row[x.kind].id,
           x.pc \in Drafting => x.batch = started + 1
    PROVE  ReqsTyped' /\ AskedInv' /\ \A s \in Reqs \ {r} : req'[s] = req[s]
<1>1. Moves(r, x) /\ started' = started + 1 /\ req[r] = Idle /\ Idle.pc = "idle"
  BY EnrolmentBegins DEF EnrolmentInv, Idle
<1>2. /\ req' = [s \in Reqs |-> IF s = r THEN x ELSE req[s]] /\ ReqsTyped' /\ ReqsTyped /\ RowsTyped /\ AskedInv
      /\ started \in Nat
  BY <1>1 DEF Moves, EnrolmentInv, ReqsTyped
<1>3. x.pc \notin RemovalPcs /\ req[r].pc = "idle"
  BY <1>1 DEF RemovalPcs, SettingUp, ConfirmPcs, RegisterPcs, Drafting
<1>4. IdInv'
  <2>1. x.pc \in ConfirmPcs => x.kind \in Kinds  BY DEF IsEnrolment, IsConfirmation
  <2>2. x.pc \in SettingUp => x.pc \notin ConfirmPcs  BY DEF SettingUp, ConfirmPcs
  <2>3. \A k \in Kinds : row'[k].id <= started'  BY <1>1, <1>2 DEF AskedInv, IdInv, RowsTyped, Rows
  <2>4. \A s \in Reqs : req[s].pc \in SettingUp \cup ConfirmPcs => req[s].id \in Int
    BY DEF EnrolmentInv, ReqsTyped, IsEnrolment, IsSetup, IsConfirmation
  <2>5. x.pc \in SettingUp \cup ConfirmPcs => x.id <= started'
    BY <1>1, <1>2, <2>1, <2>3
  <2>6. \A s \in Reqs : req'[s].pc \in SettingUp \cup ConfirmPcs => req'[s].id <= started'
    BY <1>1, <1>2, <2>4, <2>5 DEF AskedInv, IdInv
  <2>7. \A s \in Reqs : req'[s].pc \in SettingUp => \A k \in Kinds : row'[k].id # req'[s].id
    BY <1>2, Drawn DEF AskedInv, IdInv
  <2>8. \A s, v \in Reqs : req'[s].pc \in SettingUp /\ v # s /\ req'[v].pc \in SettingUp \cup ConfirmPcs =>
                           req'[v].id # req'[s].id
    BY <1>2, <2>1, <2>2, Drawn DEF AskedInv, IdInv
  <2> QED  BY <2>3, <2>6, <2>7, <2>8 DEF IdInv
<1>5. BatchInv'
  <2>1. \A s \in Reqs : req'[s].pc = "commit" => req[s].pc = "commit" /\ req'[s].dropped = req[s].dropped
    BY <1>2, <1>3 DEF RemovalPcs
  <2>2. \A s \in Reqs : req[s].pc = "commit" => req[s].dropped \in Int
    BY <1>2 DEF ReqsTyped, IsEnrolment, IsRemoval, RemovalPcs
  <2>3. \A s \in Reqs : req[s].pc \in Drafting => req[s].batch \in Int
    BY <1>2 DEF ReqsTyped, IsEnrolment, IsConfirmation, IsReplacement, IsRegistration, IsRegeneration, Drafting
  <2>4. codes' = codes /\ codes.batch \in Int  BY <1>2 DEF RowsTyped
  <2>5. codes'.batch <= started' /\ \A s \in Reqs : req'[s].pc = "commit" => req'[s].dropped <= started'
    BY <1>1, <1>2, <2>1, <2>2, <2>4 DEF AskedInv, BatchInv
  <2>6. \A s \in Reqs : req'[s].pc \in Drafting => req'[s].batch <= started' /\ req'[s].batch # codes'.batch
    BY <1>1, <1>2, <2>3, <2>4, Drawn DEF AskedInv, BatchInv
  <2>7. \A s, v \in Reqs : req'[s].pc \in Drafting /\ v # s /\ req'[v].pc \in Drafting => req'[v].batch # req'[s].batch
    BY <1>2, Drawn DEF AskedInv, BatchInv
  <2>8. \A s, v \in Reqs : req'[s].pc \in Drafting /\ req'[v].pc = "commit" => req'[v].dropped # req'[s].batch
    BY <1>2, <2>1, Drawn DEF AskedInv, BatchInv
  <2> QED  BY <2>5, <2>6, <2>7, <2>8 DEF BatchInv
<1>6. \A s \in Reqs : req'[s].pc \in {"primary", "set", "codes", "promote", "count", "commit"} => req'[s] = req[s]
  BY <1>2, <1>3 DEF RemovalPcs
<1>7. \A s \in Reqs : req[s].pc \in {"primary", "set", "codes", "promote", "count", "commit"} => req'[s] = req[s]
  BY <1>2, <1>3
<1>8. (Excused => Excused') /\ (Between => Between') /\ (Confirming => Confirming')
  BY <1>7 DEF Excused, Between, BetweenStatements, Confirming
<1>9. ConfirmedInv'  BY <1>2, <1>6 DEF AskedInv, ConfirmedInv
<1>10. RemovalInv'  BY <1>2, <1>6, <1>8 DEF AskedInv, RemovalInv, Removing
<1>11. DroppedInv'  BY <1>2, <1>6, <1>8 DEF AskedInv, DroppedInv
<1>12. SecondFactorIsAsked'  BY <1>2, <1>8 DEF AskedInv, SecondFactorIsAsked, Between
<1> QED  BY <1>2, <1>4, <1>5, <1>9, <1>10, <1>11, <1>12 DEF AskedInv

LEMMA ConfirmationBegins ==
    ASSUME EnrolmentInv, NEW r \in Reqs, NEW k \in Kinds, VerifySetup(r, k)  PROVE EnrolmentInv'
<1>1. PICK x : x = [pc |-> "budget", kind |-> k, id |-> row[k].id, batch |-> Serial,
                    secret |-> row[k].secret, key |-> row[k].key]
  OBVIOUS
<1>2. /\ x.pc = "budget" /\ x.kind = k /\ x.id = row[k].id /\ x.batch = started + 1
      /\ x = [pc |-> x.pc, kind |-> x.kind, id |-> x.id, batch |-> x.batch, secret |-> x.secret, key |-> x.key]
  BY <1>1 DEF Serial
<1>3. row[k].id # 0 /\ row[k].id \in Int /\ started \in Nat
  BY DEF VerifySetup, FindByIdAndUser, EnrolmentInv, RowsTyped, Rows, ReqsTyped
<1>4. IsConfirmation(x)  BY <1>2, <1>3 DEF IsConfirmation
<1>5. IsEnrolment(x)  BY <1>2, <1>4 DEF IsEnrolment, SettingUp, RemovalPcs, RegisterPcs, RotationPcs
<1>6. Begin(r, x) /\ UNCHANGED enrolmentVars  BY <1>1 DEF VerifySetup
<1>7. UNCHANGED <<row, hook, ring, clean, written, codes, cut, overlooked>>
  BY <1>6 DEF enrolmentVars, methods, keys
<1>8. ReqsTyped' /\ AskedInv' /\ \A s \in Reqs \ {r} : req'[s] = req[s]
  BY <1>2, <1>5, <1>6, <1>7, NumberedBegin DEF SettingUp, ConfirmPcs, Drafting
<1>9. req'[r] = x  BY <1>6 DEF Begin, EnrolmentInv, ReqsTyped
<1>10. \A s \in Reqs : KeyKept(req[s], req'[s])
  BY <1>2, <1>8, <1>9 DEF KeyKept, SettingUp, RotationPcs
<1>11. KeyInv'  BY <1>7, <1>10, KeysKept DEF EnrolmentInv
<1>12. RowsTyped'  BY <1>7 DEF EnrolmentInv, RowsTyped
<1> QED  BY <1>8, <1>11, <1>12 DEF EnrolmentInv

LEMMA SetupBegins ==
    ASSUME EnrolmentInv, NEW r \in Reqs, NEW x, Begin(r, x), x.pc = "replace", IsSetup(x), x.id = started + 1,
           x.key \in {CurrentKid, "none"}, UNCHANGED enrolmentVars
    PROVE  EnrolmentInv'
<1>1. UNCHANGED <<row, hook, ring, clean, written, codes, cut, overlooked>>
  BY DEF enrolmentVars, methods, keys
<1>2. IsEnrolment(x)  BY DEF IsEnrolment, ConfirmPcs, RemovalPcs, RegisterPcs, RotationPcs
<1>3. ReqsTyped' /\ AskedInv' /\ \A s \in Reqs \ {r} : req'[s] = req[s]
  BY <1>1, <1>2, NumberedBegin DEF SettingUp, ConfirmPcs, RegisterPcs, Drafting
<1>4. req'[r] = x  BY DEF Begin, EnrolmentInv, ReqsTyped
<1>5. KeyInv'
  <2>1. SecretsSurviveRotation'  BY <1>1 DEF EnrolmentInv, KeyInv, SecretsSurviveRotation, Readable
  <2>2. \A s \in Reqs : req'[s].pc \in SettingUp => req'[s].key \in {CurrentKid', "none"}
    BY <1>1, <1>3, <1>4 DEF EnrolmentInv, KeyInv, CurrentKid
  <2>3. ring' = "both" => \A s \in Reqs : RotationInv(req[s])'
    BY <1>1, <1>3, <1>4 DEF EnrolmentInv, KeyInv, RotationInv, Stored, RotationPcs
  <2> QED  BY <2>1, <2>2, <2>3 DEF KeyInv
<1>6. RowsTyped'  BY <1>1 DEF EnrolmentInv, RowsTyped
<1> QED  BY <1>3, <1>5, <1>6 DEF EnrolmentInv

LEMMA SetupPosted ==
    ASSUME EnrolmentInv, NEW r \in Reqs, PostSetupTotp(r) \/ PostSetupEmailOtp(r)  PROVE EnrolmentInv'
<1> started \in Nat  BY DEF EnrolmentInv, ReqsTyped
<1>1. CurrentKid \in {"old", "new"}  BY DEF CurrentKid
<1>2. CASE PostSetupTotp(r)
  <2>1. PICK x : x = [pc |-> "replace", kind |-> "totp", id |-> Serial, secret |-> Encrypt(Serial).secret,
                      key |-> Encrypt(Serial).key]
    OBVIOUS
  <2>2. /\ x.pc = "replace" /\ x.kind = "totp" /\ x.id = started + 1 /\ x.secret = started + 1 /\ x.key = CurrentKid
        /\ x = [pc |-> x.pc, kind |-> x.kind, id |-> x.id, secret |-> x.secret, key |-> x.key]
    BY <2>1 DEF Serial, Encrypt
  <2>3. IsSetup(x)  BY <1>1, <2>2 DEF IsSetup, Kinds
  <2>4. Begin(r, x) /\ UNCHANGED enrolmentVars  BY <1>2, <2>1 DEF PostSetupTotp, SetupTotp
  <2> QED  BY <2>2, <2>3, <2>4, SetupBegins
<1>3. CASE PostSetupEmailOtp(r)
  <2>1. PICK x : x = [pc |-> "replace", kind |-> "email", id |-> Serial, secret |-> 0, key |-> "none"]
    OBVIOUS
  <2>2. /\ x.pc = "replace" /\ x.kind = "email" /\ x.id = started + 1 /\ x.secret = 0 /\ x.key = "none"
        /\ x = [pc |-> x.pc, kind |-> x.kind, id |-> x.id, secret |-> x.secret, key |-> x.key]
    BY <2>1 DEF Serial
  <2>3. IsSetup(x)  BY <2>2 DEF IsSetup, Kinds
  <2>4. Begin(r, x) /\ UNCHANGED enrolmentVars  BY <1>3, <2>1 DEF PostSetupEmailOtp, SetupEmail
  <2> QED  BY <2>2, <2>3, <2>4, SetupBegins
<1> QED  BY <1>2, <1>3

\* A new set of codes is on its way, for a regeneration or beside a passkey.
LEMMA BatchBegins ==
    ASSUME EnrolmentInv, NEW r \in Reqs, NEW x, Begin(r, x), x.pc \in {"cooldown", "take"}, IsEnrolment(x),
           x.batch = started + 1, UNCHANGED enrolmentVars
    PROVE  EnrolmentInv'
<1>1. UNCHANGED <<row, hook, ring, clean, written, codes, cut, overlooked>>
  BY DEF enrolmentVars, methods, keys
<1>2. ReqsTyped' /\ AskedInv' /\ \A s \in Reqs \ {r} : req'[s] = req[s]
  BY <1>1, NumberedBegin DEF SettingUp, ConfirmPcs, RegisterPcs, Drafting
<1>3. req'[r] = x  BY DEF Begin, EnrolmentInv, ReqsTyped
<1>4. \A s \in Reqs : KeyKept(req[s], req'[s])
  BY <1>2, <1>3 DEF KeyKept, SettingUp, RotationPcs
<1>5. KeyInv'  BY <1>1, <1>4, KeysKept DEF EnrolmentInv
<1>6. RowsTyped'  BY <1>1 DEF EnrolmentInv, RowsTyped
<1> QED  BY <1>2, <1>5, <1>6 DEF EnrolmentInv

LEMMA RegenerationAsked ==
    ASSUME EnrolmentInv, NEW r \in Reqs, RegenerateRecoveryCodes(r)  PROVE EnrolmentInv'
<1> started \in Nat  BY DEF EnrolmentInv, ReqsTyped
<1>1. PICK x : x = [pc |-> "cooldown", batch |-> Serial]  OBVIOUS
<1>2. x.pc = "cooldown" /\ x.batch = started + 1 /\ x = [pc |-> x.pc, batch |-> x.batch]  BY <1>1 DEF Serial
<1>3. IsRegeneration(x)  BY <1>2 DEF IsRegeneration
<1>4. IsEnrolment(x)  BY <1>2, <1>3 DEF IsEnrolment, SettingUp, ConfirmPcs, RemovalPcs, RegisterPcs, RotationPcs
<1>5. Begin(r, x) /\ UNCHANGED enrolmentVars  BY <1>1 DEF RegenerateRecoveryCodes
<1> QED  BY <1>2, <1>4, <1>5, BatchBegins

LEMMA RegistrationAnswered ==
    ASSUME EnrolmentInv, NEW r \in Reqs, NEW s \in UserSessions, NEW c \in Credentials, Register(r, s, c)
    PROVE  EnrolmentInv'
<1> started \in Nat  BY DEF EnrolmentInv, ReqsTyped
<1>1. PICK x : x = [pc |-> "take", session |-> s, credential |-> c, challenge |-> pending[s], batch |-> Serial]
  OBVIOUS
<1>2. /\ x.pc = "take" /\ x.batch = started + 1
      /\ x = [pc |-> x.pc, session |-> x.session, credential |-> x.credential, challenge |-> x.challenge,
              batch |-> x.batch]
  BY <1>1 DEF Serial
<1>3. IsRegistration(x)  BY <1>2 DEF IsRegistration
<1>4. IsEnrolment(x)  BY <1>2, <1>3 DEF IsEnrolment, SettingUp, ConfirmPcs, RemovalPcs, RotationPcs
<1>5. Begin(r, x) /\ UNCHANGED enrolmentVars  BY <1>1 DEF Register
<1> QED  BY <1>2, <1>4, <1>5, BatchBegins

LEMMA RegistrationOffered ==
    ASSUME EnrolmentInv, NEW r \in Reqs, PostRegistrationOptions(r)  PROVE EnrolmentInv'
<1>1. PICK s \in UserSessions : RegistrationOptions(r, s) /\ UNCHANGED enrolmentVars
  BY DEF PostRegistrationOptions
<1>2. PICK x : x = [pc |-> "pending", session |-> s, challenge |-> Serial]  OBVIOUS
<1>3. x.pc = "pending"  BY <1>2
<1>4. IsEnrolment(x)  BY <1>3 DEF IsEnrolment, SettingUp, ConfirmPcs, RemovalPcs, RegisterPcs, RotationPcs
<1>5. Begin(r, x)  BY <1>1, <1>2 DEF RegistrationOptions
<1> QED  BY <1>1, <1>3, <1>4, <1>5, QuietBegin

\* Rotation of the key.
LEMMA RotationBegins ==
    ASSUME EnrolmentInv, NEW r \in Reqs, RotateTotpEncryptionKey(r)  PROVE EnrolmentInv'
<1> started \in Nat  BY DEF EnrolmentInv, ReqsTyped
<1>1. PICK x : x = [pc |-> "rewrap_hook", hook |-> hook, totp |-> FindTotpSecret, id |-> row["totp"].id,
                    results |-> {}]
  OBVIOUS
<1>2. /\ x.pc = "rewrap_hook" /\ x.hook = hook /\ x.totp = FindTotpSecret /\ x.id = row["totp"].id
      /\ x = [pc |-> x.pc, hook |-> x.hook, totp |-> x.totp, id |-> x.id, results |-> x.results]
  BY <1>1
<1>3. IsEnrolment(x)
  BY <1>2 DEF IsEnrolment, IsRotation, SettingUp, ConfirmPcs, RemovalPcs, RegisterPcs, RotationPcs
<1>4. Begin(r, x) /\ UNCHANGED enrolmentVars  BY <1>1 DEF RotateTotpEncryptionKey
<1>5. UNCHANGED <<row, hook, ring, clean, written, codes, cut, overlooked>>
  BY <1>4 DEF enrolmentVars, methods, keys
<1>6. Moves(r, x) /\ started' = started + 1 /\ req[r] = Idle /\ Idle.pc = "idle"
  BY <1>3, <1>4, EnrolmentBegins DEF EnrolmentInv, Idle
<1>7. req' = [s \in Reqs |-> IF s = r THEN x ELSE req[s]] /\ ReqsTyped'  BY <1>6 DEF Moves
<1>8. RowsTyped'  BY <1>5 DEF EnrolmentInv, RowsTyped
<1>9. KeyInv'
  <2>1. SecretsSurviveRotation'  BY <1>5 DEF EnrolmentInv, KeyInv, SecretsSurviveRotation, Readable
  <2>2. \A s \in Reqs : req'[s].pc \in SettingUp => req'[s].key \in {CurrentKid', "none"}
    BY <1>2, <1>5, <1>7 DEF EnrolmentInv, KeyInv, CurrentKid, SettingUp
  <2>3. row["totp"].key = "old" => x.totp = Stored(row["totp"])
    BY <1>2 DEF FindTotpSecret, EnrolmentInv, RowsTyped, NoRow, Kinds
  <2>4. ring' = "both" => \A s \in Reqs : RotationInv(req[s])'
    BY <1>2, <1>5, <1>7, <2>3 DEF EnrolmentInv, KeyInv, RotationInv, Stored, RotationPcs
  <2> QED  BY <2>1, <2>2, <2>4 DEF KeyInv
<1>10. AskedInv'
  <2>1. \A s \in Reqs : Quiet(req[s], req'[s])
    BY <1>2, <1>6, <1>7 DEF Quiet, IdKept, BatchKept, SettingUp, ConfirmPcs, RegisterPcs, Drafting
  <2>2. MethodsKept /\ started <= started'  BY <1>5, <1>6 DEF MethodsKept
  <2> QED  BY <1>5, <1>7, <2>1, <2>2, AskedKept DEF EnrolmentInv
<1> QED  BY <1>7, <1>8, <1>9, <1>10 DEF EnrolmentInv

\* A secret is stored where nothing else of its row changes.
Stores(k, secret, key) == row' = [row EXCEPT ![k].secret = secret, ![k].key = key]

LEMMA SecretStored ==
    ASSUME EnrolmentInv, NEW secret \in Int, NEW key \in {"old", "new", "none"}, NEW k \in Kinds, row[k].id # 0,
           Stores(k, secret, key)
    PROVE  /\ row' \in [Kinds -> Rows] /\ (\A j \in Kinds : row'[j].id = 0 => row'[j] = NoRow)
           /\ row'[k].secret = secret /\ row'[k].key = key
           /\ (\A j \in Kinds \ {k} : row'[j] = row[j])
           /\ MethodsKept
<1>1. row \in [Kinds -> Rows] /\ \A j \in Kinds : row[j].id = 0 => row[j] = NoRow
  BY DEF EnrolmentInv, RowsTyped
<1>2. PICK m : m = [row[k] EXCEPT !.secret = secret, !.key = key]  OBVIOUS
<1>3. /\ m \in Rows /\ m.id = row[k].id /\ m.verified = row[k].verified /\ m.primary = row[k].primary
      /\ m.secret = secret /\ m.key = key
  BY <1>1, <1>2 DEF Rows
<1>4. row' = [row EXCEPT ![k] = m]  BY <1>1, <1>2 DEF Stores
<1>5. row'[k] = m /\ (\A j \in Kinds \ {k} : row'[j] = row[j]) /\ row' \in [Kinds -> Rows]  BY <1>1, <1>3, <1>4
<1> QED  BY <1>1, <1>3, <1>5 DEF MethodsKept

\* The key under which a secret was drawn is the current one.
LEMMA DrawnSecret ==
    ASSUME EnrolmentInv, NEW r \in Reqs, req[r].pc \in SettingUp
    PROVE  /\ req[r].kind \in Kinds /\ req[r].secret \in Int /\ req[r].id \in Nat \ {0}
           /\ req[r].key \in {"old", "new", "none"} /\ (ring = "both" => req[r].key # "old")
<1>1. IsSetup(req[r])  BY DEF EnrolmentInv, ReqsTyped, IsEnrolment
<1>2. ring = "both" => req[r].key # "old"  BY DEF EnrolmentInv, KeyInv, CurrentKid
<1> QED  BY <1>1, <1>2 DEF IsSetup

\* A secret its owner is given takes the place of the one that was there.
LEMMA KeysHanded ==
    ASSUME EnrolmentInv, NEW x, x.kind \in Kinds, Hand(x), UNCHANGED <<hook, ring, clean>>,
           \A k \in Kinds \ {x.kind} : row'[k] = row[k],
           x.kind = "totp" => row'["totp"].secret = x.secret /\ row'["totp"].key = x.key,
           ring = "both" => x.key # "old", x.key \in {"old", "new", "none"},
           \A s \in Reqs : KeyKept(req[s], req'[s])
    PROVE  KeyInv'
<1>1. written \in [{"totp", "hook"} -> Int]  BY DEF EnrolmentInv, RowsTyped
<1>2. SecretsSurviveRotation'
  <2>1. CASE x.kind = "totp"
    BY <1>1, <2>1 DEF EnrolmentInv, KeyInv, SecretsSurviveRotation, Readable, Hand
  <2>2. CASE x.kind = "email"
    <3>1. written' = written /\ row'["totp"] = row["totp"]  BY <2>2 DEF Hand, Kinds
    <3> QED  BY <3>1 DEF EnrolmentInv, KeyInv, SecretsSurviveRotation, Readable
  <2> QED  BY <2>1, <2>2 DEF Kinds
<1>3. \A s \in Reqs : req'[s].pc \in SettingUp => req'[s].key \in {CurrentKid', "none"}
  BY DEF EnrolmentInv, KeyInv, KeyKept, CurrentKid
<1>4. ring = "both" /\ row'["totp"].key = "old" => row'["totp"] = row["totp"]  BY DEF Kinds
<1>5. ring' = "both" => \A s \in Reqs : RotationInv(req[s])'
  BY <1>4 DEF EnrolmentInv, KeyInv, KeyKept, RotationInv, Stored, RotationPcs
<1> QED  BY <1>2, <1>3, <1>5 DEF KeyInv

LEMMA Handed ==
    ASSUME EnrolmentInv, NEW x, x.secret \in Int, Hand(x)
    PROVE  written' \in [{"totp", "hook"} -> Int]
  BY DEF EnrolmentInv, RowsTyped, Hand

LEMMA PendingReplaced ==
    ASSUME EnrolmentInv, NEW r \in Reqs, ReplacePending(r)  PROVE EnrolmentInv'
<1> ReqsTyped /\ RowsTyped /\ started \in Nat  BY DEF EnrolmentInv, ReqsTyped
<1>1. /\ req[r].pc = "replace" /\ req[r].pc \in SettingUp
      /\ UNCHANGED <<hook, ring, clean, codes, cut, overlooked>>
  BY DEF ReplacePending, keys, SettingUp
<1>2. CASE Goto(r, "create") /\ UNCHANGED <<row, written>>
  <2>1. started' = started /\ \E x : Moves(r, x) /\ x.pc = "create" /\ x.id = req[r].id /\ x.key = req[r].key
    BY <1>1, <1>2, SetupGoes DEF SettingUp
  <2>2. PICK x : Moves(r, x) /\ x.pc = "create" /\ x.id = req[r].id /\ x.key = req[r].key  BY <2>1
  <2>3. Quiet(req[r], x) /\ KeyKept(req[r], x)
    BY <1>1, <2>2 DEF Quiet, KeyKept, IdKept, BatchKept, SettingUp, ConfirmPcs, RegisterPcs, RotationPcs, Drafting
  <2>4. started <= started'  BY <2>1
  <2> QED  BY <1>1, <1>2, <2>2, <2>3, <2>4, QuietMove
<1>3. CASE ~(Goto(r, "create") /\ UNCHANGED <<row, written>>)
  <2> DEFINE x == req[r]
  <2>1. /\ row[x.kind].id # 0 /\ Hand(x) /\ Done(r)
        /\ Stores(x.kind, x.secret, x.key)
    BY <1>3 DEF ReplacePending, Stores
  <2>2. /\ x.kind \in Kinds /\ x.secret \in Int
        /\ x.key \in {"old", "new", "none"} /\ (ring = "both" => x.key # "old")
    BY <1>1, DrawnSecret
  <2>3. /\ row' \in [Kinds -> Rows] /\ (\A j \in Kinds : row'[j].id = 0 => row'[j] = NoRow)
        /\ row'[x.kind].secret = x.secret /\ row'[x.kind].key = x.key
        /\ (\A j \in Kinds \ {x.kind} : row'[j] = row[j])
        /\ MethodsKept
    BY <2>1, <2>2, SecretStored
  <2>4. Moves(r, Idle) /\ started' = started  BY <2>1, EnrolmentDone
  <2>5. Hand(x) /\ row[x.kind].id # 0  BY <2>1
  <2>6. /\ \A s \in Reqs : Quiet(req[s], req'[s]) /\ KeyKept(req[s], req'[s])
        /\ ReqsTyped'
    <3>1. Quiet(req[r], Idle) /\ KeyKept(req[r], Idle)  BY <1>1, IdleIsQuiet
    <3>2. \A s \in Reqs : Quiet(req[s], req[s]) /\ KeyKept(req[s], req[s])
      BY DEF Quiet, KeyKept, IdKept, BatchKept
    <3> QED  BY <2>4, <3>1, <3>2 DEF Moves
  <2>7. RowsTyped'
    <3>1. written' \in [{"totp", "hook"} -> Int]  BY <2>2, <2>5, Handed
    <3> QED  BY <1>1, <2>3, <3>1 DEF RowsTyped
  <2>8. KeyInv'  BY <1>1, <2>2, <2>3, <2>5, <2>6, KeysHanded
  <2>9. AskedInv'
    <3>1. started <= started'  BY <2>4
    <3> QED  BY <1>1, <2>3, <2>6, <3>1, AskedKept DEF EnrolmentInv
  <2> QED  BY <2>6, <2>7, <2>8, <2>9 DEF EnrolmentInv
<1> QED  BY <1>2, <1>3

\* A step that ends request r, which was setting a method up.
LEMMA SetupEnds ==
    ASSUME EnrolmentInv, NEW r \in Reqs, req[r].pc \in SettingUp \cup RotationPcs, Done(r)
    PROVE  /\ ReqsTyped' /\ started' = started /\ started <= started'
           /\ \A s \in Reqs : Quiet(req[s], req'[s]) /\ KeyKept(req[s], req'[s])
           /\ \A s \in Reqs : req'[s].pc \in SettingUp \cup ConfirmPcs => s # r /\ req'[s] = req[s]
<1> ReqsTyped /\ started \in Nat  BY DEF EnrolmentInv, ReqsTyped
<1>1. Moves(r, Idle) /\ started' = started  BY EnrolmentDone
<1>2. Quiet(req[r], Idle) /\ KeyKept(req[r], Idle)  BY IdleIsQuiet DEF SettingUp, RotationPcs
<1>3. \A s \in Reqs : Quiet(req[s], req[s]) /\ KeyKept(req[s], req[s])
  BY DEF Quiet, KeyKept, IdKept, BatchKept
<1>4. Idle.pc \notin SettingUp \cup ConfirmPcs  BY DEF Idle, SettingUp, ConfirmPcs
<1> QED  BY <1>1, <1>2, <1>3, <1>4 DEF Moves

LEMMA MethodCreated ==
    ASSUME EnrolmentInv, NEW r \in Reqs, CreateMethod(r)  PROVE EnrolmentInv'
<1> ReqsTyped /\ RowsTyped /\ started \in Nat  BY DEF EnrolmentInv, ReqsTyped
<1> DEFINE x == req[r]
           k == req[r].kind
<1>1. /\ x.pc \in SettingUp \cup RotationPcs /\ x.pc = "create" /\ Done(r)
      /\ UNCHANGED <<hook, ring, clean, codes, cut, overlooked>>
  BY DEF CreateMethod, keys, SettingUp
<1>2. CASE row[k].id # 0
  <2>1. UNCHANGED <<row, written>>  BY <1>2 DEF CreateMethod
  <2> QED  BY <1>1, <2>1, QuietDone
<1>3. CASE row[k].id = 0
  <2>1. row' = [row EXCEPT ![k] = [NoRow EXCEPT !.id = x.id, !.secret = x.secret, !.key = x.key]] /\ Hand(x)
    BY <1>3 DEF CreateMethod
  <2>2. /\ k \in Kinds /\ x.secret \in Int /\ x.id \in Nat \ {0}
        /\ x.key \in {"old", "new", "none"} /\ (ring = "both" => x.key # "old")
    BY <1>1, DrawnSecret DEF SettingUp
  <2>3. PICK m : m = [NoRow EXCEPT !.id = x.id, !.secret = x.secret, !.key = x.key]  OBVIOUS
  <2>4. m = [id |-> x.id, verified |-> FALSE, primary |-> FALSE, secret |-> x.secret, key |-> x.key]
    BY <2>3 DEF NoRow
  <2>5. m \in Rows /\ m.id = x.id /\ m.verified = FALSE /\ m.primary = FALSE /\ m.secret = x.secret /\ m.key = x.key
    BY <2>2, <2>4 DEF Rows
  <2>6. row' = [row EXCEPT ![k] = m]  BY <2>1, <2>3
  <2>7. row'[k] = m /\ (\A j \in Kinds \ {k} : row'[j] = row[j]) /\ row' \in [Kinds -> Rows]
    BY <2>2, <2>5, <2>6 DEF RowsTyped
  <2>8. row[k].verified = FALSE /\ row[k].primary = FALSE
    BY <1>3, <2>2 DEF RowsTyped, NoRow
  <2>9. /\ ReqsTyped' /\ started' = started /\ started <= started'
        /\ \A s \in Reqs : Quiet(req[s], req'[s]) /\ KeyKept(req[s], req'[s])
        /\ \A s \in Reqs : req'[s].pc \in SettingUp \cup ConfirmPcs => s # r /\ req'[s] = req[s]
    BY <1>1, SetupEnds
  <2>10. Hand(x)  BY <2>1
  <2>11. RowsTyped'
    <3>1. written' \in [{"totp", "hook"} -> Int]  BY <2>2, <2>10, Handed
    <3>2. \A j \in Kinds : row'[j].id = 0 => row'[j] = NoRow  BY <2>2, <2>5, <2>7 DEF RowsTyped
    <3> QED  BY <1>1, <2>7, <3>1, <3>2 DEF RowsTyped
  <2>12. KeyInv'
    <3>1. x.kind = "totp" => row'["totp"].secret = x.secret /\ row'["totp"].key = x.key  BY <2>5, <2>7
    <3> QED  BY <1>1, <2>2, <2>7, <2>9, <2>10, <3>1, KeysHanded
  <2>13. /\ \A s \in Reqs \ {r} : req[s].pc \in SettingUp \cup ConfirmPcs => req[s].id # x.id
         /\ x.id <= started
    BY <1>1 DEF EnrolmentInv, AskedInv, IdInv, SettingUp
  <2>14. IdInv'
    <3>1. \A j \in Kinds : row'[j].id <= started'
      BY <2>5, <2>7, <2>9, <2>13 DEF EnrolmentInv, AskedInv, IdInv
    <3>2. \A s \in Reqs : req'[s].pc \in SettingUp \cup ConfirmPcs => req'[s].id <= started'
      BY <2>9 DEF EnrolmentInv, AskedInv, IdInv
    <3>3. \A s \in Reqs : req'[s].pc \in SettingUp => \A j \in Kinds : row'[j].id # req'[s].id
      BY <2>5, <2>7, <2>9, <2>13 DEF EnrolmentInv, AskedInv, IdInv
    <3>4. \A s, v \in Reqs : req'[s].pc \in SettingUp /\ v # s /\ req'[v].pc \in SettingUp \cup ConfirmPcs =>
                             req'[v].id # req'[s].id
      BY <2>9 DEF EnrolmentInv, AskedInv, IdInv
    <3> QED  BY <3>1, <3>2, <3>3, <3>4 DEF IdInv
  <2>15. ConfirmedInv'
    <3>1. \A s \in Reqs : req'[s].pc \in {"primary", "set"} =>
              req'[s] = req[s] /\ req[s].id # x.id /\ req[s].kind \in Kinds
      BY <2>9, <2>13 DEF ConfirmPcs, ReqsTyped, IsEnrolment, IsConfirmation
    <3> QED  BY <2>5, <2>7, <3>1 DEF ConfirmedInv, EnrolmentInv, AskedInv
  <2>16. \A j \in Kinds : row'[j].verified = row[j].verified /\ row'[j].primary = row[j].primary
    BY <2>5, <2>7, <2>8
  <2>17. AskedInv'  BY <1>1, <2>9, <2>14, <2>15, <2>16, FlagsKept DEF EnrolmentInv
  <2> QED  BY <2>9, <2>11, <2>12, <2>17 DEF EnrolmentInv
<1> QED  BY <1>2, <1>3

\* What a rotation finds under the old key is what it has read.
LEMMA Rewrapped ==
    ASSUME NEW secret, NEW replaced \in BOOLEAN, NEW ok \in BOOLEAN
    PROVE  /\ RewrapResult(secret, replaced, ok) = "rotated" => replaced /\ CanDecrypt(secret)
           /\ RewrapResult(secret, replaced, ok) = "skipped" => secret.key = CurrentKid \/ ~replaced
  BY DEF RewrapResult, NeedsRotation

LEMMA HookRewrapped ==
    ASSUME EnrolmentInv, NEW r \in Reqs, NEW ok \in BOOLEAN, RewrapHook(r, ok)  PROVE EnrolmentInv'
<1> ReqsTyped /\ RowsTyped /\ started \in Nat  BY DEF EnrolmentInv, ReqsTyped
<1>1. PICK result : result = RewrapResult(req[r].hook, RewrapSecret(req[r]), ok)  OBVIOUS
<1>2. /\ req[r].pc = "rewrap_hook" /\ started' = started
      /\ hook' = IF result = "rotated" THEN Encrypt(req[r].hook.secret) ELSE hook
      /\ UNCHANGED <<row, ring, clean, written, codes, cut, overlooked>>
  BY <1>1 DEF RewrapHook, methods
<1>3. req' = [req EXCEPT ![r] = [req[r] EXCEPT !.pc = "rewrap_totp", !.results = {result}]]
  BY <1>1 DEF RewrapHook, ReqsTyped
<1>4. PICK x : x = [req[r] EXCEPT !.pc = "rewrap_totp", !.results = {result}]  OBVIOUS
<1>5. IsRotation(req[r])  BY <1>2 DEF ReqsTyped, IsEnrolment, RotationPcs
<1>6. x = [pc |-> "rewrap_totp", hook |-> req[r].hook, totp |-> req[r].totp, id |-> req[r].id, results |-> {result}]
  BY <1>4, <1>5 DEF IsRotation
<1>7. /\ x.pc = "rewrap_totp" /\ x.totp = req[r].totp /\ x.id = req[r].id /\ x.results = {result}
      /\ x = [pc |-> x.pc, hook |-> x.hook, totp |-> x.totp, id |-> x.id, results |-> x.results]
  BY <1>6
<1>8. IsEnrolment(x)
  BY <1>7 DEF IsEnrolment, IsRotation, SettingUp, ConfirmPcs, RemovalPcs, RegisterPcs, RotationPcs
<1>9. req' = [req EXCEPT ![r] = x]  BY <1>3, <1>4
<1>10. started' \in Nat /\ started <= started'  BY <1>2
<1>11. Moves(r, x)  BY <1>8, <1>9, <1>10, EnrolmentMoves
<1>12. req' = [s \in Reqs |-> IF s = r THEN x ELSE req[s]] /\ ReqsTyped'  BY <1>11 DEF Moves
<1>13. CurrentKid \in {"old", "new"} /\ (ring = "both" => CurrentKid = "new")  BY DEF CurrentKid
<1>14. result = "rotated" => req[r].hook = hook  BY <1>1, Rewrapped DEF RewrapSecret
<1>15. hook' \in [secret: Int, key: {"old", "new"}] /\ hook'.secret = hook.secret
       /\ (hook'.key = "old" /\ ring = "both" => hook' = hook)
  BY <1>2, <1>13, <1>14 DEF Encrypt, RowsTyped
<1>16. RowsTyped'  BY <1>2, <1>15 DEF RowsTyped
<1>17. KeyInv'
  <2>1. SecretsSurviveRotation'
    BY <1>2, <1>15 DEF EnrolmentInv, KeyInv, SecretsSurviveRotation, Readable, RowsTyped
  <2>2. \A s \in Reqs : req'[s].pc \in SettingUp => req'[s].key \in {CurrentKid', "none"}
    BY <1>2, <1>7, <1>12 DEF EnrolmentInv, KeyInv, CurrentKid, SettingUp
  <2>3. ring = "both" /\ {result} \subseteq {"skipped"} => hook'.key # "old"
    <3>1. ring = "both" => RotationInv(req[r])  BY DEF EnrolmentInv, KeyInv
    <3>2. result = "skipped" => req[r].hook.key = CurrentKid \/ req[r].hook # hook
      BY <1>1, Rewrapped DEF RewrapSecret
    <3> QED  BY <1>2, <1>13, <1>15, <3>1, <3>2 DEF RotationInv
  <2>4. ASSUME ring = "both", NEW s \in Reqs PROVE RotationInv(req[s])'
    <3>1. RotationInv(req[s])  BY <2>4 DEF EnrolmentInv, KeyInv
    <3>2. CASE s = r
      BY <1>2, <1>7, <1>12, <2>3, <2>4, <3>1, <3>2 DEF RotationInv, Stored, RotationPcs
    <3>3. CASE s # r
      BY <1>2, <1>12, <1>15, <2>4, <3>1, <3>3 DEF RotationInv, Stored, RotationPcs
    <3> QED  BY <3>2, <3>3
  <2> QED  BY <1>2, <2>1, <2>2, <2>4 DEF KeyInv
<1>18. AskedInv'
  <2>1. \A s \in Reqs : Quiet(req[s], req'[s])
    BY <1>2, <1>7, <1>12 DEF Quiet, IdKept, BatchKept, SettingUp, ConfirmPcs, RegisterPcs, Drafting
  <2>2. MethodsKept  BY <1>2 DEF MethodsKept
  <2> QED  BY <1>2, <1>10, <1>12, <2>1, <2>2, AskedKept DEF EnrolmentInv
<1> QED  BY <1>12, <1>16, <1>17, <1>18 DEF EnrolmentInv

LEMMA TotpRewrapped ==
    ASSUME EnrolmentInv, NEW r \in Reqs, NEW ok \in BOOLEAN, RewrapTotp(r, ok)  PROVE EnrolmentInv'
<1> ReqsTyped /\ RowsTyped /\ started \in Nat  BY DEF EnrolmentInv, ReqsTyped
<1> DEFINE x == req[r]
           m == row["totp"]
<1>1. PICK result : result = RewrapResult(x.totp, ReplaceTotpSecret(x), ok)  OBVIOUS
<1>2. /\ x.pc = "rewrap_totp" /\ Done(r) /\ clean' = (x.results \cup {result} = {"skipped"})
      /\ UNCHANGED <<hook, ring, written, codes, cut, overlooked>>
  BY <1>1 DEF RewrapTotp
<1>3. IF result = "rotated" THEN Stores("totp", x.totp.secret, Encrypt(x.totp.secret).key) ELSE row' = row
  BY <1>1 DEF RewrapTotp, Stores
<1>4. result = "rotated" => m.id = x.id /\ Stored(m) = x.totp /\ CanDecrypt(x.totp)
  BY <1>1, Rewrapped DEF ReplaceTotpSecret
<1>5. "totp" \in Kinds /\ m \in Rows /\ (m.id = 0 => m = NoRow)  BY DEF RowsTyped, Kinds
<1>6. result = "rotated" => x.totp.secret = m.secret /\ x.totp.key = m.key /\ m.id # 0
  <2>1. result = "rotated" => x.totp.secret = m.secret /\ x.totp.key = m.key  BY <1>4 DEF Stored
  <2>2. NoRow.key \notin Kids  BY DEF NoRow, Kids, CurrentKid
  <2> QED  BY <1>4, <1>5, <2>1, <2>2 DEF CanDecrypt
<1>7. CurrentKid \in {"old", "new"} /\ (ring = "both" => CurrentKid = "new")  BY DEF CurrentKid
<1>8. /\ row' \in [Kinds -> Rows] /\ (\A j \in Kinds : row'[j].id = 0 => row'[j] = NoRow) /\ MethodsKept
      /\ row'["totp"].secret = m.secret /\ (row'["totp"].key = "old" /\ ring = "both" => row' = row)
  <2>1. CASE result = "rotated"
    <3>1. Encrypt(x.totp.secret).key = CurrentKid  BY DEF Encrypt
    <3>2. PICK key : key = Encrypt(x.totp.secret).key  OBVIOUS
    <3>3. PICK secret : secret = x.totp.secret  OBVIOUS
    <3>4. key \in {"old", "new", "none"} /\ secret \in Int /\ Stores("totp", secret, key)
      BY <1>3, <1>5, <1>6, <1>7, <2>1, <3>1, <3>2, <3>3 DEF Rows
    <3>5. /\ row' \in [Kinds -> Rows] /\ (\A j \in Kinds : row'[j].id = 0 => row'[j] = NoRow) /\ MethodsKept
          /\ row'["totp"].secret = secret /\ row'["totp"].key = key
      BY <1>5, <1>6, <2>1, <3>4, SecretStored
    <3> QED  BY <1>6, <1>7, <2>1, <3>1, <3>2, <3>3, <3>5
  <2>2. CASE result # "rotated"  BY <1>3, <2>2 DEF RowsTyped, MethodsKept
  <2> QED  BY <2>1, <2>2
<1>9. /\ ReqsTyped' /\ started' = started /\ started <= started'
      /\ \A s \in Reqs : Quiet(req[s], req'[s]) /\ KeyKept(req[s], req'[s])
  BY <1>2, SetupEnds DEF RotationPcs
<1>10. clean' \in BOOLEAN  BY <1>2
<1>11. RowsTyped'  BY <1>2, <1>8, <1>10 DEF RowsTyped
<1>12. KeyInv'
  <2>1. ring = "both" => RotationInv(x)  BY DEF EnrolmentInv, KeyInv
  <2>2. ring = "both" /\ clean' => hook.key # "old" /\ row'["totp"].key # "old"
    <3>1. SUFFICES ASSUME ring = "both", clean' PROVE hook.key # "old" /\ row'["totp"].key # "old"  OBVIOUS
    <3>2. x.results \subseteq {"skipped"} /\ result = "skipped"  BY <1>2, <3>1
    <3>3. hook.key # "old"  BY <1>2, <2>1, <3>1, <3>2 DEF RotationInv
    <3>4. x.totp.key = "new" \/ ~ReplaceTotpSecret(x)  BY <1>1, <1>7, <3>1, <3>2, Rewrapped
    <3>5. m.key = "old" => x.totp = Stored(m) /\ x.id = m.id
      BY <1>2, <2>1, <3>1 DEF RotationInv, RotationPcs
    <3>6. m.key # "old"  BY <3>4, <3>5 DEF ReplaceTotpSecret, Stored
    <3>7. row' = row  BY <1>3, <3>2
    <3> QED  BY <3>3, <3>6, <3>7
  <2>3. SecretsSurviveRotation'
    <3>1. row'["totp"].id = m.id  BY <1>5, <1>8 DEF MethodsKept
    <3>2. hook.key \in {"old", "new"} /\ row'["totp"].key \in {"old", "new", "none"}
      BY <1>5, <1>8 DEF RowsTyped, Rows
    <3> QED  BY <1>2, <1>8, <2>2, <3>1, <3>2 DEF EnrolmentInv, KeyInv, SecretsSurviveRotation, Readable
  <2>4. \A s \in Reqs : req'[s].pc \in SettingUp => req'[s].key \in {CurrentKid', "none"}
    BY <1>2, <1>9 DEF EnrolmentInv, KeyInv, KeyKept, CurrentKid
  <2>5. ring' = "both" => \A s \in Reqs : RotationInv(req[s])'
    BY <1>2, <1>8, <1>9 DEF EnrolmentInv, KeyInv, KeyKept, RotationInv, Stored, RotationPcs
  <2> QED  BY <2>3, <2>4, <2>5 DEF KeyInv
<1>13. AskedInv'  BY <1>2, <1>8, <1>9, AskedKept DEF EnrolmentInv
<1> QED  BY <1>9, <1>11, <1>12, <1>13 DEF EnrolmentInv

LEMMA HookReplaced ==
    ASSUME EnrolmentInv, ReplaceEndpointSecret  PROVE EnrolmentInv'
<1> ReqsTyped /\ RowsTyped /\ started \in Nat  BY DEF EnrolmentInv, ReqsTyped
<1>1. /\ hook' = [secret |-> started + 1, key |-> CurrentKid] /\ written' = [written EXCEPT !.hook = started + 1]
      /\ started' = started + 1 /\ UNCHANGED <<req, row, ring, clean, codes, cut, overlooked>>
  BY DEF ReplaceEndpointSecret, Encrypt, Serial, Single, Counted, methods
<1>2. CurrentKid \in {"old", "new"} /\ (ring = "both" => CurrentKid = "new")  BY DEF CurrentKid
<1>3. RowsTyped'  BY <1>1, <1>2 DEF RowsTyped
<1>4. written'.totp = written.totp /\ written'.hook = started + 1  BY <1>1 DEF RowsTyped
<1>5. KeyInv'
  <2>1. SecretsSurviveRotation'
    BY <1>1, <1>2, <1>4 DEF EnrolmentInv, KeyInv, SecretsSurviveRotation, Readable
  <2>2. \A s \in Reqs : req'[s].pc \in SettingUp => req'[s].key \in {CurrentKid', "none"}
    BY <1>1 DEF EnrolmentInv, KeyInv, CurrentKid
  <2>3. ring' = "both" => \A s \in Reqs : RotationInv(req[s])'
    BY <1>1, <1>2 DEF EnrolmentInv, KeyInv, RotationInv, Stored
  <2> QED  BY <2>1, <2>2, <2>3 DEF KeyInv
<1>6. AskedInv'
  <2>1. \A s \in Reqs : Quiet(req[s], req'[s])  BY <1>1 DEF Quiet, IdKept, BatchKept
  <2>2. MethodsKept /\ started <= started' /\ ReqsTyped'  BY <1>1 DEF MethodsKept, ReqsTyped
  <2> QED  BY <1>1, <2>1, <2>2, AskedKept DEF EnrolmentInv
<1>7. ReqsTyped'  BY <1>1 DEF ReqsTyped
<1> QED  BY <1>3, <1>5, <1>6, <1>7 DEF EnrolmentInv

\* Requests end wherever they are; a confirmation that ends between its statements is known to.
LEMMA CutShort ==
    ASSUME EnrolmentInv, DOMAIN req' = Reqs, started' = started, UNCHANGED <<row, hook, codes, written, overlooked>>,
           \A s \in Reqs : req'[s] = req[s] \/ req'[s] = Idle,
           cut' = (cut \/ \E s \in Reqs : BetweenStatements(s) /\ req'[s] # req[s])
    PROVE  ReqsTyped' /\ AskedInv'
<1> ReqsTyped /\ RowsTyped /\ AskedInv /\ started \in Nat  BY DEF EnrolmentInv, ReqsTyped
<1>1. Idle.pc = "idle"  BY DEF Idle
<1>2. ReqsTyped'
  BY <1>1 DEF ReqsTyped, IsEnrolment, SettingUp, ConfirmPcs, RegisterPcs, RemovalPcs, RotationPcs
<1>3. IdInv'
  <2>1. \A s \in Reqs : IdKept(req[s], req'[s])  BY <1>1 DEF IdKept, SettingUp, ConfirmPcs
  <2> QED  BY <1>2, <2>1, IdsKept DEF AskedInv
<1>4. BatchInv'
  <2>1. \A s \in Reqs : BatchKept(req[s], req'[s])  BY <1>1 DEF BatchKept, Drafting, ConfirmPcs, RegisterPcs
  <2> QED  BY <1>2, <2>1, BatchesKept DEF AskedInv
<1>5. \A s \in Reqs : req'[s].pc \in {"primary", "set", "promote", "count", "commit"} => req'[s] = req[s]
  BY <1>1
<1>6. ConfirmedInv'  BY <1>5 DEF AskedInv, ConfirmedInv
<1>7. \A s \in Reqs : req[s].pc \in {"primary", "set"} => BetweenStatements(s)
  <2>1. \A s \in Reqs : req[s].pc \in {"primary", "set"} => IsConfirmation(req[s])
    BY DEF ReqsTyped, IsEnrolment, ConfirmPcs
  <2>2. \A s \in Reqs : IsConfirmation(req[s]) => "kind" \in DOMAIN req[s]  BY DEF IsConfirmation
  <2> QED  BY <2>1, <2>2 DEF BetweenStatements
<1>8. (Excused => Excused') /\ (Between => cut' \/ Between') /\ (Confirming => cut' \/ Confirming')
      /\ (cut => cut')
  BY <1>7 DEF Excused, Between, BetweenStatements, Confirming
<1>9. RemovalInv'  BY <1>5, <1>8 DEF AskedInv, RemovalInv, Removing
<1>10. DroppedInv'  BY <1>5, <1>8 DEF AskedInv, DroppedInv
<1>11. SecondFactorIsAsked'  BY <1>8 DEF AskedInv, SecondFactorIsAsked, Between
<1> QED  BY <1>2, <1>3, <1>4, <1>6, <1>9, <1>10, <1>11 DEF AskedInv

LEMMA RequestDropped ==
    ASSUME EnrolmentInv, NEW r \in Reqs, Drop(r)  PROVE EnrolmentInv'
<1>1. /\ Done(r) /\ req[r] # Idle /\ cut' = (cut \/ BetweenStatements(r))
      /\ UNCHANGED <<row, hook, ring, clean, codes, written, overlooked>>
  BY DEF Drop, methods, keys
<1>2. Moves(r, Idle) /\ started' = started  BY <1>1, EnrolmentDone DEF EnrolmentInv
<1>3. req' = [s \in Reqs |-> IF s = r THEN Idle ELSE req[s]]  BY <1>2 DEF Moves
<1>4. cut' = (cut \/ \E s \in Reqs : BetweenStatements(s) /\ req'[s] # req[s])  BY <1>1, <1>3
<1>5. ReqsTyped' /\ AskedInv'  BY <1>1, <1>2, <1>3, <1>4, CutShort
<1>6. \A s \in Reqs : KeyKept(req[s], req'[s])  BY <1>3 DEF KeyKept, Idle, SettingUp, RotationPcs
<1>7. KeyInv'  BY <1>1, <1>6, KeysKept DEF EnrolmentInv
<1>8. cut' \in BOOLEAN  BY <1>1 DEF EnrolmentInv, RowsTyped
<1>9. RowsTyped'  BY <1>1, <1>8 DEF EnrolmentInv, RowsTyped
<1> QED  BY <1>5, <1>7, <1>9 DEF EnrolmentInv

LEMMA ServiceRedeployed ==
    ASSUME EnrolmentInv, NEW next \in {"both", "new"}, Redeploy(next)  PROVE EnrolmentInv'
<1>1. /\ ring' = next /\ clean' = FALSE /\ cut' = (cut \/ \E r \in Reqs : BetweenStatements(r))
      /\ req' = [r \in Reqs |-> Idle] /\ started' = started
      /\ UNCHANGED <<row, hook, codes, written, overlooked>>
  BY DEF Redeploy, methods
<1>2. Idle.pc = "idle"  BY DEF Idle
<1>3. \A s \in Reqs : BetweenStatements(s) => req'[s] # req[s]  BY <1>1, <1>2 DEF BetweenStatements
<1>4. cut' = (cut \/ \E s \in Reqs : BetweenStatements(s) /\ req'[s] # req[s])  BY <1>1, <1>3
<1>5. ReqsTyped' /\ AskedInv'  BY <1>1, <1>4, CutShort
<1>6. KeyInv'
  <2>1. SecretsSurviveRotation'  BY <1>1 DEF EnrolmentInv, KeyInv, SecretsSurviveRotation
  <2>2. \A r \in Reqs : req'[r].pc \notin SettingUp \cup RotationPcs  BY <1>1, <1>2 DEF SettingUp, RotationPcs
  <2> QED  BY <2>1, <2>2 DEF KeyInv, RotationInv, RotationPcs
<1>7. cut' \in BOOLEAN  BY <1>1 DEF EnrolmentInv, RowsTyped
<1>8. RowsTyped'  BY <1>1, <1>7 DEF EnrolmentInv, RowsTyped
<1> QED  BY <1>5, <1>6, <1>8 DEF EnrolmentInv

\* Flags of the methods change, or one is removed.
LEMMA KeysStay ==
    ASSUME EnrolmentInv, UNCHANGED <<hook, ring, clean, written>>, \A s \in Reqs : KeyKept(req[s], req'[s]),
           \/ row'["totp"] = NoRow
           \/ /\ row'["totp"].id = row["totp"].id /\ row'["totp"].secret = row["totp"].secret
              /\ row'["totp"].key = row["totp"].key
    PROVE  KeyInv'
<1>1. NoRow.id = 0 /\ NoRow.key = "none"  BY DEF NoRow
<1>2. SecretsSurviveRotation'
  BY <1>1 DEF EnrolmentInv, KeyInv, SecretsSurviveRotation, Readable
<1>3. \A r \in Reqs : req'[r].pc \in SettingUp => req'[r].key \in {CurrentKid', "none"}
  BY DEF EnrolmentInv, KeyInv, KeyKept, CurrentKid
<1>4. row'["totp"].key = "old" =>
        /\ row["totp"].key = "old" /\ Stored(row'["totp"]) = Stored(row["totp"]) /\ row'["totp"].id = row["totp"].id
  BY <1>1 DEF Stored
<1>5. ring' = "both" => \A r \in Reqs : RotationInv(req[r])'
  BY <1>4 DEF EnrolmentInv, KeyInv, KeyKept, RotationInv, RotationPcs
<1> QED  BY <1>2, <1>3, <1>5 DEF KeyInv

\* A statement of a confirmation and the next one.
LEMMA ConfirmationOn ==
    ASSUME EnrolmentInv, NEW r \in Reqs, NEW x, Moves(r, x), req[r].pc \in ConfirmPcs,
           x.pc \in {"primary", "set", "codes"}, x.id = req[r].id, x.batch = req[r].batch,
           started' = started, \A k \in Kinds : row'[k].id = row[k].id, codes' = codes
    PROVE  /\ IdInv' /\ BatchInv' /\ ReqsTyped'
           /\ \A s \in Reqs : KeyKept(req[s], req'[s])
           /\ \A s \in Reqs : req'[s].pc \in {"promote", "count", "commit"} => req'[s] = req[s]
<1> ReqsTyped /\ RowsTyped /\ AskedInv /\ started \in Nat  BY DEF EnrolmentInv, ReqsTyped
<1>1. req' = [s \in Reqs |-> IF s = r THEN x ELSE req[s]] /\ ReqsTyped'  BY DEF Moves
<1>2. \A s \in Reqs : IdKept(req[s], req'[s]) /\ BatchKept(req[s], req'[s]) /\ KeyKept(req[s], req'[s])
  BY <1>1 DEF IdKept, BatchKept, KeyKept, SettingUp, ConfirmPcs, RegisterPcs, RotationPcs, Drafting
<1>3. started <= started'  OBVIOUS
<1>4. IdInv'  BY <1>1, <1>2, <1>3, IdsKept DEF AskedInv
<1>5. BatchInv'  BY <1>1, <1>2, <1>3, BatchesKept DEF AskedInv
<1> QED  BY <1>1, <1>2, <1>4, <1>5

LEMMA MethodVerified ==
    ASSUME EnrolmentInv, NEW r \in Reqs, MarkVerified(r)  PROVE EnrolmentInv'
<1> ReqsTyped /\ RowsTyped /\ AskedInv /\ started \in Nat  BY DEF EnrolmentInv, ReqsTyped
<1> DEFINE k == req[r].kind
<1>1. /\ req[r].pc = "mark" /\ Goto(r, "primary")
      /\ UNCHANGED <<hook, ring, clean, written, codes, cut, overlooked>>
  BY DEF MarkVerified, keys
<1>2. row' = IF row[k].id = req[r].id THEN [row EXCEPT ![k] = [row[k] EXCEPT !.verified = TRUE]] ELSE row
  BY DEF MarkVerified, RowsTyped
<1>3. /\ started' = started
      /\ \E x : /\ Moves(r, x) /\ x.pc = "primary" /\ IsConfirmation(x) /\ "kind" \in DOMAIN x
                /\ x.id = req[r].id /\ x.kind = k /\ x.batch = req[r].batch
  BY <1>1, ConfirmationGoes DEF ConfirmPcs
<1>4. PICK x : /\ Moves(r, x) /\ x.pc = "primary" /\ IsConfirmation(x) /\ "kind" \in DOMAIN x
               /\ x.id = req[r].id /\ x.kind = k /\ x.batch = req[r].batch
  BY <1>3
<1>5. k \in Kinds  BY <1>4 DEF IsConfirmation
<1>6. PICK m : m = [row[k] EXCEPT !.verified = TRUE]  OBVIOUS
<1>7. /\ m \in Rows /\ m.id = row[k].id /\ m.verified = TRUE /\ m.primary = row[k].primary
      /\ m.secret = row[k].secret /\ m.key = row[k].key
  <2>1. row[k] \in Rows  BY <1>5 DEF RowsTyped
  <2>2. m \in Rows  BY <1>6, <2>1 DEF Rows
  <2>3. m.id = row[k].id /\ m.verified = TRUE /\ m.secret = row[k].secret /\ m.key = row[k].key
    BY <1>6, <2>1 DEF Rows
  <2>4. m.primary = row[k].primary  BY <1>6, <2>1 DEF Rows
  <2> QED  BY <2>2, <2>3, <2>4
<1>8. row' = IF row[k].id = req[r].id THEN [row EXCEPT ![k] = m] ELSE row  BY <1>2, <1>6
<1>9. \A j \in Kinds : /\ row'[j].id = row[j].id /\ row'[j].primary = row[j].primary
                       /\ row'[j].secret = row[j].secret /\ row'[j].key = row[j].key
                       /\ row'[j].verified = (row[j].verified \/ (j = k /\ row[k].id = req[r].id))
  BY <1>5, <1>7, <1>8 DEF RowsTyped, Rows
<1>10. /\ IdInv' /\ BatchInv' /\ ReqsTyped'
       /\ \A s \in Reqs : KeyKept(req[s], req'[s])
       /\ \A s \in Reqs : req'[s].pc \in {"promote", "count", "commit"} => req'[s] = req[s]
  BY <1>1, <1>3, <1>4, <1>9, ConfirmationOn DEF ConfirmPcs
<1>11. req' = [s \in Reqs |-> IF s = r THEN x ELSE req[s]]  BY <1>4 DEF Moves
<1>12. req'[r] = x /\ Excused' /\ Between' /\ Confirming'
  BY <1>4, <1>11 DEF Excused, Between, BetweenStatements, Confirming
<1>13. ConfirmedInv'
  <2>1. \A s \in Reqs : req[s].pc \in {"primary", "set"} => req[s].kind \in Kinds
    BY DEF ReqsTyped, IsEnrolment, IsConfirmation, ConfirmPcs
  <2>2. \A s \in Reqs \ {r} : req'[s] = req[s]  BY <1>11
  <2>3. row'[x.kind].id = x.id => row'[x.kind].verified  BY <1>4, <1>5, <1>9
  <2>4. \A s \in Reqs \ {r} : req'[s].pc \in {"primary", "set"} /\ row'[req'[s].kind].id = req'[s].id =>
                                row'[req'[s].kind].verified
    <3>1. SUFFICES ASSUME NEW s \in Reqs \ {r}, req'[s].pc \in {"primary", "set"},
                          row'[req'[s].kind].id = req'[s].id
                   PROVE  row'[req'[s].kind].verified
      OBVIOUS
    <3>2. req'[s] = req[s] /\ req[s].kind \in Kinds  BY <2>1, <2>2, <3>1
    <3>3. row[req[s].kind].id = req[s].id  BY <1>9, <3>1, <3>2
    <3>4. row[req[s].kind].verified  BY <3>1, <3>2, <3>3 DEF AskedInv, ConfirmedInv
    <3>5. row'[req[s].kind].verified  BY <1>9, <3>2, <3>4, Zenon
    <3> QED  BY <3>2, <3>5
  <2>5. req'[r] = x  BY <1>12
  <2> QED  BY <2>3, <2>4, <2>5 DEF ConfirmedInv
<1>14. RemovalInv'
  <2>1. \A s \in Reqs : Removing(s) => req[s].kind \in Kinds /\ Other(req[s].kind) \in Kinds
    BY OtherKind DEF ReqsTyped, IsEnrolment, IsRemoval, RemovalPcs, Removing, Kinds
  <2>2. \A j \in Kinds : row[j].verified => row'[j].verified  BY <1>9, Zenon
  <2>3. \A j \in Kinds : row'[j].primary = row[j].primary  BY <1>9
  <2> QED  BY <1>10, <1>12, <2>1, <2>2, <2>3 DEF AskedInv, RemovalInv, Removing
<1>15. DroppedInv' /\ SecondFactorIsAsked'
  BY <1>12 DEF DroppedInv, SecondFactorIsAsked, Between
<1>16. RowsTyped'
  <2>1. row' \in [Kinds -> Rows]  BY <1>7, <1>8 DEF RowsTyped
  <2>2. \A j \in Kinds : row'[j].id = 0 => row'[j] = NoRow
    <3>1. req[r].id # 0  BY <1>4 DEF IsConfirmation
    <3> QED  BY <1>5, <1>7, <1>8, <3>1 DEF RowsTyped
  <2> QED  BY <1>1, <2>1, <2>2 DEF RowsTyped
<1>17. KeyInv'
  <2>1. "totp" \in Kinds  BY DEF Kinds
  <2> QED  BY <1>1, <1>9, <1>10, <2>1, KeysStay
<1> QED  BY <1>10, <1>13, <1>14, <1>15, <1>16, <1>17 DEF EnrolmentInv, AskedInv

LEMMA PrimaryFound ==
    ASSUME EnrolmentInv, NEW r \in Reqs, FindPrimary(r)  PROVE EnrolmentInv'
<1> ReqsTyped /\ RowsTyped /\ AskedInv /\ started \in Nat  BY DEF EnrolmentInv, ReqsTyped
<1>1. PICK pc : pc = IF Primaries = {} THEN "set" ELSE "codes"  OBVIOUS
<1>2. /\ req[r].pc = "primary" /\ Goto(r, pc) /\ pc \in {"set", "codes"}
      /\ overlooked' = (overlooked \/ \E k \in Primaries : Deleted(k))
      /\ UNCHANGED <<row, hook, ring, clean, written, codes, cut>>
  BY <1>1 DEF FindPrimary, methods, keys
<1>3. /\ started' = started
      /\ \E x : /\ Moves(r, x) /\ x.pc = pc /\ "kind" \in DOMAIN x
                /\ x.id = req[r].id /\ x.kind = req[r].kind /\ x.batch = req[r].batch
  BY <1>2, ConfirmationGoes DEF ConfirmPcs
<1>4. PICK x : /\ Moves(r, x) /\ x.pc = pc /\ "kind" \in DOMAIN x
               /\ x.id = req[r].id /\ x.kind = req[r].kind /\ x.batch = req[r].batch
  BY <1>3
<1>5. /\ IdInv' /\ BatchInv' /\ ReqsTyped'
      /\ \A s \in Reqs : KeyKept(req[s], req'[s])
      /\ \A s \in Reqs : req'[s].pc \in {"promote", "count", "commit"} => req'[s] = req[s]
  BY <1>2, <1>3, <1>4, ConfirmationOn DEF ConfirmPcs
<1>6. req' = [s \in Reqs |-> IF s = r THEN x ELSE req[s]]  BY <1>4 DEF Moves
<1>7. Between' /\ (pc = "set" => Confirming')
  BY <1>2, <1>4, <1>6 DEF Between, BetweenStatements, Confirming
<1>8. ConfirmedInv'  BY <1>2, <1>4, <1>6 DEF AskedInv, ConfirmedInv
<1>9. RemovalInv'
  <2>1. \A s \in Reqs : Removing(s) => req[s].kind \in Kinds
    BY DEF ReqsTyped, IsEnrolment, IsRemoval, RemovalPcs, Removing
  <2>2. \A s \in Reqs : Removing(s) /\ req[s].was_primary => overlooked'
    BY <1>2, <2>1 DEF AskedInv, RemovalInv, Primaries, Deleted
  <2>3. \A s \in Reqs : Removing(s) /\ req[s].was_primary => Excused'
    BY <2>2 DEF Excused
  <2> QED  BY <1>2, <1>5, <2>3 DEF AskedInv, RemovalInv, Removing
<1>10. DroppedInv'  BY <1>7 DEF DroppedInv
<1>11. SecondFactorIsAsked'
  <2>1. pc = "codes" => \E k \in Kinds : row'[k].primary  BY <1>1, <1>2 DEF Primaries
  <2> QED  BY <1>2, <1>7, <2>1 DEF SecondFactorIsAsked, Between
<1>12. overlooked' \in BOOLEAN  BY <1>2 DEF RowsTyped
<1>13. RowsTyped'  BY <1>2, <1>12 DEF RowsTyped
<1>14. KeyInv'  BY <1>2, <1>5, KeysKept DEF EnrolmentInv
<1> QED  BY <1>5, <1>8, <1>9, <1>10, <1>11, <1>13, <1>14 DEF EnrolmentInv, AskedInv

LEMMA RowFlagged ==
    ASSUME NEW m \in Rows, NEW p \in BOOLEAN, NEW n, n = [m EXCEPT !.primary = p]
    PROVE  /\ n \in Rows /\ n.id = m.id /\ n.secret = m.secret /\ n.key = m.key
           /\ (n.primary <=> p) /\ (n.verified <=> m.verified)
           /\ (m = NoRow /\ ~p => n = NoRow)
<1>1. n \in Rows  BY DEF Rows
<1>2. n.id = m.id /\ n.secret = m.secret /\ n.key = m.key  BY DEF Rows
<1>3. n.primary <=> p  BY DEF Rows
<1>4. n.verified <=> m.verified  BY DEF Rows
<1>5. m = NoRow /\ ~p => n = NoRow
  <2>1. SUFFICES ASSUME m = NoRow, p = FALSE PROVE n = NoRow  OBVIOUS
  <2> QED  BY <2>1 DEF NoRow
<1> QED  BY <1>1, <1>2, <1>3, <1>4, <1>5

LEMMA PrimaryMade ==
    ASSUME EnrolmentInv, NEW r \in Reqs, SetPrimary(r)  PROVE EnrolmentInv'
<1> ReqsTyped /\ RowsTyped /\ AskedInv /\ started \in Nat  BY DEF EnrolmentInv, ReqsTyped
<1> DEFINE P(k) == k = req[r].kind /\ row[k].id = req[r].id /\ row[k].verified
<1>1. /\ req[r].pc = "set" /\ Goto(r, "codes")
      /\ overlooked' = (overlooked \/ row[req[r].kind].id # req[r].id)
      /\ UNCHANGED <<hook, ring, clean, written, codes, cut>>
  BY DEF SetPrimary, keys
<1>2. \A k \in Kinds : row[k].primary \/ k = req[r].kind => ~Locked(k)  BY DEF SetPrimary
<1>3. row' = [k \in Kinds |-> [row[k] EXCEPT !.primary = P(k)]]  BY DEF SetPrimary
<1>4. /\ started' = started
      /\ \E x : /\ Moves(r, x) /\ x.pc = "codes" /\ "kind" \in DOMAIN x /\ IsConfirmation(x)
                /\ x.id = req[r].id /\ x.kind = req[r].kind /\ x.batch = req[r].batch
  BY <1>1, ConfirmationGoes DEF ConfirmPcs
<1>5. PICK x : /\ Moves(r, x) /\ x.pc = "codes" /\ "kind" \in DOMAIN x /\ IsConfirmation(x)
               /\ x.id = req[r].id /\ x.kind = req[r].kind /\ x.batch = req[r].batch
  BY <1>4
<1>6. req[r].kind \in Kinds /\ req[r].id # 0  BY <1>5 DEF IsConfirmation
<1>7. ASSUME NEW k \in Kinds
      PROVE  /\ row'[k] \in Rows /\ row'[k].id = row[k].id /\ row'[k].secret = row[k].secret
             /\ row'[k].key = row[k].key
             /\ (row'[k].primary <=> P(k)) /\ (row'[k].verified <=> row[k].verified)
             /\ (row[k].id = 0 => row'[k] = NoRow)
  <2>1. row[k] \in Rows /\ P(k) \in BOOLEAN /\ (row[k].id = 0 => row[k] = NoRow /\ ~P(k))
    BY <1>6 DEF RowsTyped, Rows
  <2>2. PICK n : n = [row[k] EXCEPT !.primary = P(k)]  OBVIOUS
  <2>3. PICK p : p = P(k)  OBVIOUS
  <2>4. p \in BOOLEAN /\ n = [row[k] EXCEPT !.primary = p]  BY <2>1, <2>2, <2>3
  <2>5. /\ n \in Rows /\ n.id = row[k].id /\ n.secret = row[k].secret /\ n.key = row[k].key
        /\ (n.primary <=> p) /\ (n.verified <=> row[k].verified)
        /\ (row[k] = NoRow /\ ~p => n = NoRow)
    BY <2>1, <2>4, RowFlagged
  <2>6. row'[k] = n  BY <1>3, <2>2
  <2> QED  BY <2>1, <2>3, <2>5, <2>6
<1>8. /\ IdInv' /\ BatchInv' /\ ReqsTyped'
      /\ \A s \in Reqs : KeyKept(req[s], req'[s])
      /\ \A s \in Reqs : req'[s].pc \in {"promote", "count", "commit"} => req'[s] = req[s]
  BY <1>1, <1>4, <1>5, <1>7, ConfirmationOn DEF ConfirmPcs
<1>9. req' = [s \in Reqs |-> IF s = r THEN x ELSE req[s]]  BY <1>5 DEF Moves
<1>10. Between' /\ (Excused => Excused')
  BY <1>1, <1>5, <1>9 DEF Between, BetweenStatements, Excused
<1>11. ConfirmedInv'
  <2>1. \A s \in Reqs : req'[s].pc \in {"primary", "set"} => req'[s] = req[s] /\ req[s].kind \in Kinds
    BY <1>5, <1>9 DEF ReqsTyped, IsEnrolment, IsConfirmation, ConfirmPcs
  <2> QED  BY <1>7, <2>1 DEF AskedInv, ConfirmedInv
<1>12. RemovalInv'
  <2>1. \A s \in Reqs : Removing(s) => req[s].kind \in Kinds /\ Other(req[s].kind) \in Kinds
                                       /\ req[s].was_primary \in BOOLEAN
    BY OtherKind DEF ReqsTyped, IsEnrolment, IsRemoval, RemovalPcs, Removing, Kinds
  <2>2. \A s \in Reqs : Removing(s) => ~row[req[s].kind].primary /\ req[s].kind # req[r].kind
    BY <1>2, <2>1 DEF Locked, Deleted
  <2>3. \A s \in Reqs : Removing(s) => ~row'[req[s].kind].primary
    BY <1>7, <2>1, <2>2
  <2>4. \A s \in Reqs : Removing(s) => row'[req[s].kind].primary = row[req[s].kind].primary
    <3>1. ASSUME NEW k \in Kinds PROVE row[k].primary \in BOOLEAN /\ row'[k].primary \in BOOLEAN
      <4>1. row[k] \in Rows /\ row'[k] \in Rows  BY <1>7 DEF RowsTyped
      <4> QED  BY <4>1 DEF Rows
    <3> QED  BY <2>1, <2>2, <2>3, <3>1
  <2>5. \A s \in Reqs : Removing(s)' => Removing(s) /\ req'[s] = req[s]  BY <1>8 DEF Removing
  <2>6. \A s, v \in Reqs : Removing(s)' /\ Removing(v)' => s = v  BY <2>5 DEF AskedInv, RemovalInv
  <2>7. \A s \in Reqs : Removing(s)' => req'[s].was_primary = row'[req'[s].kind].primary
    BY <2>4, <2>5 DEF AskedInv, RemovalInv
  <2>8. \A s \in Reqs : req'[s].pc \in {"count", "commit"} =>
        /\ req'[s].promoted \in {None, Other(req'[s].kind)}
        /\ req'[s].promoted = Other(req'[s].kind) => row'[Other(req'[s].kind)].verified
        /\ req'[s].was_primary /\ req'[s].promoted # Other(req'[s].kind) /\ row'[Other(req'[s].kind)].verified => Excused'
    BY <1>7, <1>8, <1>10, <2>1 DEF AskedInv, RemovalInv, Removing
  <2> QED  BY <2>6, <2>7, <2>8 DEF RemovalInv, Removing
<1>13. DroppedInv'  BY <1>10 DEF DroppedInv
<1>14. SecondFactorIsAsked'
  <2>1. row[req[r].kind].id = req[r].id => row'[req[r].kind].primary
    BY <1>1, <1>6, <1>7 DEF AskedInv, ConfirmedInv
  <2> QED  BY <1>1, <1>6, <1>10, <2>1 DEF SecondFactorIsAsked, Between
<1>15. RowsTyped'
  <2>1. overlooked' \in BOOLEAN  BY <1>1 DEF RowsTyped
  <2>2. row' \in [Kinds -> Rows]  BY <1>3, <1>7
  <2>3. \A k \in Kinds : row'[k].id = 0 => row'[k] = NoRow  BY <1>7
  <2> QED  BY <1>1, <2>1, <2>2, <2>3 DEF RowsTyped
<1>16. KeyInv'
  <2>1. "totp" \in Kinds  BY DEF Kinds
  <2> QED  BY <1>1, <1>7, <1>8, <2>1, KeysStay
<1> QED  BY <1>8, <1>11, <1>12, <1>13, <1>14, <1>15, <1>16 DEF EnrolmentInv, AskedInv

LEMMA CodesReplaced ==
    ASSUME EnrolmentInv, NEW r \in Reqs, CreateRecoveryCodes(r)  PROVE EnrolmentInv'
<1> ReqsTyped /\ RowsTyped /\ AskedInv /\ started \in Nat  BY DEF EnrolmentInv, ReqsTyped
<1>1. /\ req[r].pc = "codes" /\ Done(r) /\ codes' = [batch |-> req[r].batch, usable |-> TRUE]
      /\ UNCHANGED <<row, hook, ring, clean, written, cut, overlooked>>
  BY DEF CreateRecoveryCodes, ReplaceAllByUser, methods, keys
<1>2. Moves(r, Idle) /\ started' = started  BY <1>1, EnrolmentDone
<1>3. req' = [s \in Reqs |-> IF s = r THEN Idle ELSE req[s]] /\ ReqsTyped' /\ Idle.pc = "idle"
  BY <1>2 DEF Moves, Idle
<1>4. req[r].pc \in Drafting /\ req[r].batch \in Nat \ {0}
  BY <1>1 DEF Drafting, ReqsTyped, IsEnrolment, IsConfirmation, IsReplacement, IsRegistration
<1>5. codes'.batch = req[r].batch /\ codes' \in [batch: Int, usable: BOOLEAN]  BY <1>1, <1>4
<1>6. \A s \in Reqs : IdKept(req[s], req'[s]) /\ KeyKept(req[s], req'[s])
  BY <1>3 DEF IdKept, KeyKept, SettingUp, ConfirmPcs, RotationPcs
<1>7. IdInv'  BY <1>1, <1>2, <1>3, <1>6, IdsKept DEF AskedInv
<1>8. \A s \in Reqs : req'[s].pc \in Drafting \cup {"commit"} => s # r /\ req'[s] = req[s]
  BY <1>3 DEF Drafting, ConfirmPcs, RegisterPcs
<1>9. BatchInv'
  <2>1. codes'.batch <= started'  BY <1>2, <1>4, <1>5 DEF AskedInv, BatchInv
  <2>2. \A s \in Reqs : req'[s].pc = "commit" => req'[s].dropped <= started'
    BY <1>2, <1>8 DEF AskedInv, BatchInv
  <2>3. \A s \in Reqs : req'[s].pc \in Drafting => req'[s].batch <= started' /\ req'[s].batch # codes'.batch
    BY <1>2, <1>4, <1>5, <1>8 DEF AskedInv, BatchInv
  <2>4. \A s, v \in Reqs : req'[s].pc \in Drafting /\ v # s /\ req'[v].pc \in Drafting => req'[v].batch # req'[s].batch
    BY <1>8 DEF AskedInv, BatchInv
  <2>5. \A s, v \in Reqs : req'[s].pc \in Drafting /\ req'[v].pc = "commit" => req'[v].dropped # req'[s].batch
    BY <1>8 DEF AskedInv, BatchInv
  <2> QED  BY <2>1, <2>2, <2>3, <2>4, <2>5 DEF BatchInv
<1>10. \A s \in Reqs : req'[s].pc \in {"primary", "set", "promote", "count", "commit"} => req'[s] = req[s]
  BY <1>3
<1>11. (Excused => Excused') /\ (Confirming => Confirming')  BY <1>1, <1>3 DEF Excused, Confirming
<1>12. ConfirmedInv'  BY <1>1, <1>10 DEF AskedInv, ConfirmedInv
<1>13. RemovalInv'  BY <1>1, <1>10, <1>11 DEF AskedInv, RemovalInv, Removing
<1>14. \A s \in Reqs : req'[s].pc = "commit" => req'[s].dropped # codes'.batch
  BY <1>4, <1>5, <1>8 DEF AskedInv, BatchInv
<1>15. DroppedInv'  BY <1>14 DEF DroppedInv
<1>16. SecondFactorIsAsked'  BY <1>1, <1>4, <1>5, <1>11 DEF AskedInv, SecondFactorIsAsked
<1>17. RowsTyped'  BY <1>1, <1>5 DEF RowsTyped
<1>18. KeyInv'  BY <1>1, <1>6, KeysKept DEF EnrolmentInv
<1> QED  BY <1>3, <1>7, <1>9, <1>12, <1>13, <1>15, <1>16, <1>17, <1>18 DEF EnrolmentInv, AskedInv

\* A removal that goes on, with what it found.
RemovalOn(r, x) == req' = [req EXCEPT ![r] = x] /\ started' = started /\ x.pc \in {"promote", "count", "commit"}

LEMMA RemovalGoes ==
    ASSUME EnrolmentInv, NEW r \in Reqs, NEW x, RemovalOn(r, x), IsRemoval(x), req[r].pc \in RemovalPcs,
           UNCHANGED enrolmentVars, x.pc = "commit" => x.dropped \in {0, codes.batch},
           RemovalInv', DroppedInv'
    PROVE  EnrolmentInv'
<1> ReqsTyped /\ RowsTyped /\ AskedInv /\ started \in Nat  BY DEF EnrolmentInv, ReqsTyped
<1>1. UNCHANGED <<row, hook, ring, clean, written, codes, cut, overlooked>>  BY DEF enrolmentVars, methods, keys
<1>2. IsEnrolment(x)
  BY DEF RemovalOn, IsEnrolment, SettingUp, ConfirmPcs, RegisterPcs, RotationPcs
<1>3. Moves(r, x) /\ started' = started  BY <1>2, EnrolmentMoves DEF RemovalOn
<1>4. req' = [s \in Reqs |-> IF s = r THEN x ELSE req[s]] /\ ReqsTyped'  BY <1>3 DEF Moves
<1>5. x.pc \in {"promote", "count", "commit"}  BY DEF RemovalOn
<1>6. \A s \in Reqs : IdKept(req[s], req'[s]) /\ KeyKept(req[s], req'[s])
  BY <1>4, <1>5 DEF IdKept, KeyKept, SettingUp, ConfirmPcs, RotationPcs
<1>7. IdInv'  BY <1>1, <1>3, <1>4, <1>6, IdsKept DEF AskedInv
<1>8. BatchInv'
  <2>1. \A s \in Reqs : req'[s].pc \in Drafting => req'[s] = req[s]
    BY <1>4, <1>5 DEF Drafting, ConfirmPcs, RegisterPcs
  <2>2. \A s \in Reqs : req'[s].pc = "commit" => req'[s] = req[s] \/ req'[s].dropped \in {0, codes.batch}
    BY <1>4
  <2>3. \A s \in Reqs : req[s].pc \in Drafting => req[s].batch # 0
    BY DEF ReqsTyped, IsEnrolment, IsConfirmation, IsReplacement, IsRegistration, IsRegeneration, Drafting
  <2> QED  BY <1>1, <1>3, <2>1, <2>2, <2>3 DEF AskedInv, BatchInv
<1>9. \A s \in Reqs : /\ req'[s].pc \in {"primary", "set", "codes"} => req'[s] = req[s]
                      /\ req[s].pc \in {"primary", "set", "codes"} => req'[s] = req[s]
  BY <1>4, <1>5 DEF RemovalPcs
<1>10. ConfirmedInv'  BY <1>1, <1>9 DEF AskedInv, ConfirmedInv
<1>11. (Confirming => Confirming') /\ (Between => Between')
  BY <1>9 DEF Confirming, Between, BetweenStatements
<1>12. SecondFactorIsAsked'  BY <1>1, <1>11 DEF AskedInv, SecondFactorIsAsked, Between
<1>13. RowsTyped'  BY <1>1 DEF RowsTyped
<1>14. KeyInv'  BY <1>1, <1>6, KeysKept DEF EnrolmentInv
<1> QED  BY <1>4, <1>7, <1>8, <1>10, <1>12, <1>13, <1>14 DEF EnrolmentInv, AskedInv

\* What the other requests see of a removal that goes on.
LEMMA RemovalSeen ==
    ASSUME EnrolmentInv, NEW r \in Reqs, NEW x, RemovalOn(r, x), req[r].pc \in RemovalPcs, UNCHANGED enrolmentVars
    PROVE  /\ req'[r] = x /\ (\A s \in Reqs \ {r} : req'[s] = req[s])
           /\ UNCHANGED <<row, codes, cut, overlooked>>
           /\ (Excused => Excused') /\ (Between => Between')
<1>1. req'[r] = x /\ (\A s \in Reqs \ {r} : req'[s] = req[s])  BY DEF RemovalOn, EnrolmentInv, ReqsTyped
<1>2. UNCHANGED <<row, codes, cut, overlooked>>  BY DEF enrolmentVars, methods
<1>3. \A s \in Reqs : req[s].pc \in {"primary", "set", "codes"} => req'[s] = req[s]  BY <1>1 DEF RemovalPcs
<1> QED  BY <1>1, <1>2, <1>3 DEF Excused, Between, BetweenStatements

LEMMA RowDeleted ==
    ASSUME EnrolmentInv, NEW r \in Reqs, RemoveMethod(r)  PROVE EnrolmentInv'
<1> ReqsTyped /\ RowsTyped /\ AskedInv /\ started \in Nat  BY DEF EnrolmentInv, ReqsTyped
<1>1. req[r].pc = "delete" /\ ~AccountLocked /\ UNCHANGED enrolmentVars  BY DEF RemoveMethod
<1>2. CASE Done(r)  BY <1>1, <1>2, QuietDone DEF enrolmentVars, methods, keys
<1>3. CASE ~Done(r)
  <2> DEFINE w == row[req[r].kind].primary
  <2>1. IsRemoval(req[r])  BY <1>1 DEF ReqsTyped, IsEnrolment, RemovalPcs
  <2>2. req[r].kind \in Kinds /\ w \in BOOLEAN /\ req[r].dropped \in Int
    <3>1. req[r].kind \in Kinds /\ req[r].dropped \in Int  BY <2>1 DEF IsRemoval
    <3>2. row[req[r].kind] \in Rows  BY <3>1 DEF RowsTyped
    <3> QED  BY <3>1, <3>2 DEF Rows
  <2>3. PICK x : x = [req[r] EXCEPT !.pc = "promote", !.was_primary = w]  OBVIOUS
  <2>4. x = [pc |-> "promote", kind |-> req[r].kind, id |-> req[r].id, was_primary |-> w,
             promoted |-> req[r].promoted, dropped |-> req[r].dropped]
    BY <2>1, <2>3 DEF IsRemoval
  <2>5. req' = [req EXCEPT ![r] = [req[r] EXCEPT !.pc = "promote", !.was_primary = w]] /\ started' = started
    BY <1>3 DEF RemoveMethod, ReqsTyped
  <2>6. /\ x.pc = "promote" /\ x.kind = req[r].kind /\ x.was_primary = w
        /\ x = [pc |-> x.pc, kind |-> x.kind, id |-> x.id, was_primary |-> x.was_primary,
                promoted |-> x.promoted, dropped |-> x.dropped]
        /\ x.dropped = req[r].dropped
    BY <2>4
  <2>7. RemovalOn(r, x)  BY <2>3, <2>5, <2>6 DEF RemovalOn
  <2>8. IsRemoval(x)  BY <2>2, <2>6 DEF IsRemoval
  <2>9. req[r].pc \in RemovalPcs  BY <1>1 DEF RemovalPcs
  <2>10. /\ req'[r] = x /\ (\A s \in Reqs \ {r} : req'[s] = req[s])
         /\ UNCHANGED <<row, codes, cut, overlooked>>
         /\ (Excused => Excused') /\ (Between => Between')
    BY <1>1, <2>7, <2>9, RemovalSeen
  <2>11. \A s \in Reqs : ~Removing(s)  BY <1>1 DEF AccountLocked
  <2>12. \A s \in Reqs : Removing(s)' => s = r  BY <2>10, <2>11 DEF Removing
  <2>13. RemovalInv'  BY <2>6, <2>10, <2>12 DEF RemovalInv, Removing
  <2>14. DroppedInv'  BY <2>6, <2>10, <2>12 DEF DroppedInv, Removing
  <2>15. x.pc # "commit"  BY <2>6
  <2> QED  BY <1>1, <2>7, <2>8, <2>9, <2>13, <2>14, <2>15, RemovalGoes
<1> QED  BY <1>2, <1>3

LEMMA OtherPromoted ==
    ASSUME EnrolmentInv, NEW r \in Reqs, Promote(r)  PROVE EnrolmentInv'
<1> ReqsTyped /\ RowsTyped /\ AskedInv /\ started \in Nat  BY DEF EnrolmentInv, ReqsTyped
<1> DEFINE k == req[r].kind
<1>1. PICK p : p = IF req[r].was_primary /\ row[Other(k)].verified THEN Other(k) ELSE None  OBVIOUS
<1>2. req[r].pc = "promote" /\ UNCHANGED enrolmentVars  BY DEF Promote
<1>3. req' = [req EXCEPT ![r] = [req[r] EXCEPT !.pc = "count", !.promoted = p]] /\ started' = started
  BY <1>1 DEF Promote, ReqsTyped
<1>4. IsRemoval(req[r])  BY <1>2 DEF ReqsTyped, IsEnrolment, RemovalPcs
<1>5. PICK x : x = [req[r] EXCEPT !.pc = "count", !.promoted = p]  OBVIOUS
<1>6. x = [pc |-> "count", kind |-> k, id |-> req[r].id, was_primary |-> req[r].was_primary,
           promoted |-> p, dropped |-> req[r].dropped]
  BY <1>4, <1>5 DEF IsRemoval
<1>7. /\ x.pc = "count" /\ x.kind = k /\ x.was_primary = req[r].was_primary /\ x.promoted = p
      /\ x.dropped = req[r].dropped
      /\ x = [pc |-> x.pc, kind |-> x.kind, id |-> x.id, was_primary |-> x.was_primary,
              promoted |-> x.promoted, dropped |-> x.dropped]
  BY <1>6
<1>8. RemovalOn(r, x)  BY <1>3, <1>5, <1>7 DEF RemovalOn
<1>9. IsRemoval(x)  BY <1>4, <1>7 DEF IsRemoval
<1>10. req[r].pc \in RemovalPcs /\ Removing(r)  BY <1>2 DEF RemovalPcs, Removing
<1>11. /\ req'[r] = x /\ (\A s \in Reqs \ {r} : req'[s] = req[s])
       /\ UNCHANGED <<row, codes, cut, overlooked>>
       /\ (Excused => Excused') /\ (Between => Between')
  BY <1>2, <1>8, <1>10, RemovalSeen
<1>12. \A s \in Reqs : Removing(s)' => s = r  BY <1>10, <1>11 DEF Removing, AskedInv, RemovalInv
<1>13. RemovalInv'
  <2>1. x.was_primary = row[x.kind].primary  BY <1>7, <1>10 DEF AskedInv, RemovalInv
  <2>2. x.was_primary /\ row[Other(x.kind)].verified => x.promoted = Other(x.kind)  BY <1>1, <1>7
  <2>3. /\ x.promoted \in {None, Other(x.kind)}
        /\ x.promoted = Other(x.kind) => row[Other(x.kind)].verified
    <3>1. Other(x.kind) # None
      BY <1>4, <1>7, OtherKind, EnrolmentAssumption DEF IsRemoval, Kinds
    <3> QED  BY <1>1, <1>7, <3>1
  <2> QED  BY <1>11, <1>12, <2>1, <2>2, <2>3 DEF RemovalInv, Removing
<1>14. DroppedInv'  BY <1>7, <1>11, <1>12 DEF DroppedInv, Removing
<1>15. x.pc # "commit"  BY <1>7
<1> QED  BY <1>2, <1>8, <1>9, <1>10, <1>13, <1>14, <1>15, RemovalGoes

LEMMA RestCounted ==
    ASSUME EnrolmentInv, NEW r \in Reqs, CountRemaining(r)  PROVE EnrolmentInv'
<1> ReqsTyped /\ RowsTyped /\ AskedInv /\ started \in Nat  BY DEF EnrolmentInv, ReqsTyped
<1> DEFINE k == req[r].kind
<1>1. PICK d : d = IF row[Other(k)].verified THEN 0 ELSE codes.batch  OBVIOUS
<1>2. req[r].pc = "count" /\ UNCHANGED enrolmentVars  BY DEF CountRemaining
<1>3. req' = [req EXCEPT ![r] = [req[r] EXCEPT !.pc = "commit", !.dropped = d]] /\ started' = started
  BY <1>1 DEF CountRemaining, ReqsTyped
<1>4. IsRemoval(req[r])  BY <1>2 DEF ReqsTyped, IsEnrolment, RemovalPcs
<1>5. PICK x : x = [req[r] EXCEPT !.pc = "commit", !.dropped = d]  OBVIOUS
<1>6. x = [pc |-> "commit", kind |-> k, id |-> req[r].id, was_primary |-> req[r].was_primary,
           promoted |-> req[r].promoted, dropped |-> d]
  BY <1>4, <1>5 DEF IsRemoval
<1>7. /\ x.pc = "commit" /\ x.kind = k /\ x.was_primary = req[r].was_primary /\ x.promoted = req[r].promoted
      /\ x.dropped = d
      /\ x = [pc |-> x.pc, kind |-> x.kind, id |-> x.id, was_primary |-> x.was_primary,
              promoted |-> x.promoted, dropped |-> x.dropped]
  BY <1>6
<1>8. RemovalOn(r, x)  BY <1>3, <1>5, <1>7 DEF RemovalOn
<1>9. d \in {0, codes.batch} /\ d \in Int  BY <1>1 DEF RowsTyped
<1>10. IsRemoval(x)  BY <1>4, <1>7, <1>9 DEF IsRemoval
<1>11. req[r].pc \in RemovalPcs /\ Removing(r)  BY <1>2 DEF RemovalPcs, Removing
<1>12. /\ req'[r] = x /\ (\A s \in Reqs \ {r} : req'[s] = req[s])
       /\ UNCHANGED <<row, codes, cut, overlooked>>
       /\ (Excused => Excused') /\ (Between => Between')
  BY <1>2, <1>8, <1>11, RemovalSeen
<1>13. \A s \in Reqs : Removing(s)' => s = r  BY <1>11, <1>12 DEF Removing, AskedInv, RemovalInv
<1>14. RemovalInv'
  <2>1. x.was_primary = row[x.kind].primary  BY <1>7, <1>11 DEF AskedInv, RemovalInv
  <2>2. x.was_primary /\ x.promoted # Other(x.kind) /\ row[Other(x.kind)].verified => Excused
    BY <1>2, <1>7 DEF AskedInv, RemovalInv
  <2>3. /\ x.promoted \in {None, Other(x.kind)}
        /\ x.promoted = Other(x.kind) => row[Other(x.kind)].verified
    BY <1>2, <1>7 DEF AskedInv, RemovalInv
  <2> QED  BY <1>12, <1>13, <2>1, <2>2, <2>3 DEF RemovalInv, Removing
<1>15. DroppedInv'  BY <1>1, <1>7, <1>12, <1>13 DEF DroppedInv, Removing
<1> QED  BY <1>2, <1>7, <1>8, <1>9, <1>10, <1>11, <1>14, <1>15, RemovalGoes

LEMMA RemovalCommitted ==
    ASSUME EnrolmentInv, NEW r \in Reqs, CommitRemoval(r)  PROVE EnrolmentInv'
<1> ReqsTyped /\ RowsTyped /\ AskedInv /\ started \in Nat  BY DEF EnrolmentInv, ReqsTyped
<1> DEFINE x == req[r]
           k == req[r].kind
           P(j) == row[j].primary \/ req[r].promoted = j
<1>1. /\ x.pc = "commit" /\ Done(r) /\ UNCHANGED <<hook, ring, clean, written, cut, overlooked>>
      /\ codes' = IF x.dropped # 0 /\ x.dropped = codes.batch THEN NoCodes ELSE codes
  BY DEF CommitRemoval, keys
<1>2. row' = [j \in Kinds |-> IF j = k THEN NoRow ELSE [row[j] EXCEPT !.primary = P(j)]]  BY DEF CommitRemoval
<1>3. k \in Kinds /\ Other(k) \in Kinds /\ (\A j \in Kinds : j = k \/ j = Other(k)) /\ Other(k) # k /\ Removing(r)
  BY <1>1, OtherKind DEF ReqsTyped, IsEnrolment, IsRemoval, RemovalPcs, Removing, Kinds
<1>4. PICK o : o = Other(k)  OBVIOUS
<1>5. PICK p : p = P(o)  OBVIOUS
<1>6. PICK n : n = [row[o] EXCEPT !.primary = p]  OBVIOUS
<1>7. row'[k] = NoRow /\ row'[o] = n  BY <1>2, <1>3, <1>4, <1>5, <1>6
<1>8. row[o] \in Rows /\ row[k] \in Rows  BY <1>3, <1>4 DEF RowsTyped
<1>9. p \in BOOLEAN  BY <1>5, <1>8 DEF Rows
<1>10. /\ n \in Rows /\ n.id = row[o].id /\ n.secret = row[o].secret /\ n.key = row[o].key
       /\ (n.primary <=> p) /\ (n.verified <=> row[o].verified)
       /\ (row[o] = NoRow /\ ~p => n = NoRow)
  BY <1>6, <1>8, <1>9, RowFlagged
<1>11. NoRow \in Rows /\ NoRow.id = 0 /\ ~NoRow.verified /\ ~NoRow.primary  BY DEF NoRow, Rows
<1>12. RowsTyped'
  <2>1. row[o] = NoRow => ~p
    BY <1>1, <1>4, <1>5, <1>11 DEF AskedInv, RemovalInv
  <2>2. row' \in [Kinds -> Rows]  BY <1>2, <1>3, <1>4, <1>7, <1>10, <1>11
  <2>3. \A j \in Kinds : row'[j].id = 0 => row'[j] = NoRow
    BY <1>3, <1>4, <1>7, <1>10, <2>1 DEF RowsTyped
  <2>4. codes' \in [batch: Int, usable: BOOLEAN]  BY <1>1 DEF RowsTyped, NoCodes
  <2> QED  BY <1>1, <2>2, <2>3, <2>4 DEF RowsTyped
<1>13. Moves(r, Idle) /\ started' = started  BY <1>1, EnrolmentDone
<1>14. req' = [s \in Reqs |-> IF s = r THEN Idle ELSE req[s]] /\ ReqsTyped' /\ Idle.pc = "idle"
  BY <1>13 DEF Moves, Idle
<1>15. \A s \in Reqs : IdKept(req[s], req'[s]) /\ BatchKept(req[s], req'[s]) /\ KeyKept(req[s], req'[s])
  BY <1>14 DEF IdKept, BatchKept, KeyKept, SettingUp, ConfirmPcs, RegisterPcs, RotationPcs, Drafting
<1>16. started <= started' /\ codes'.batch \in {0, codes.batch}  BY <1>1, <1>13 DEF NoCodes
<1>17. \A j \in Kinds : row'[j].id \in {0, row[j].id}  BY <1>3, <1>4, <1>7, <1>10, <1>11
<1>18. IdInv' /\ BatchInv'  BY <1>14, <1>15, <1>16, <1>17, IdsKept, BatchesKept DEF AskedInv
<1>19. KeyInv'
  <2>1. \/ row'["totp"] = NoRow
        \/ /\ row'["totp"].id = row["totp"].id /\ row'["totp"].secret = row["totp"].secret
           /\ row'["totp"].key = row["totp"].key
    BY <1>3, <1>4, <1>7, <1>10 DEF Kinds
  <2> QED  BY <1>1, <1>15, <2>1, KeysStay
<1>20. \A s \in Reqs : /\ req[s].pc \in {"primary", "set", "codes"} => req'[s] = req[s]
                       /\ req'[s].pc \in {"primary", "set", "codes"} => req'[s] = req[s]
  BY <1>1, <1>14
<1>21. (Excused => Excused') /\ (Between => Between') /\ (Confirming => Confirming')
  BY <1>1, <1>20 DEF Excused, Between, BetweenStatements, Confirming
<1>22. ConfirmedInv'
  <2>1. SUFFICES ASSUME NEW s \in Reqs, req'[s].pc \in {"primary", "set"}, row'[req'[s].kind].id = req'[s].id
                 PROVE  row'[req'[s].kind].verified
    BY DEF ConfirmedInv
  <2>2. req'[s] = req[s] /\ req[s].kind \in Kinds /\ req[s].id # 0
    BY <1>20, <2>1 DEF ReqsTyped, IsEnrolment, IsConfirmation, ConfirmPcs
  <2>3. req[s].kind = o  BY <1>3, <1>4, <1>7, <1>11, <2>1, <2>2
  <2>4. row[o].verified  BY <1>7, <1>10, <2>1, <2>2, <2>3 DEF AskedInv, ConfirmedInv
  <2> QED  BY <1>7, <1>10, <2>2, <2>3, <2>4
<1>23. \A s \in Reqs : ~Removing(s)'
  BY <1>3, <1>14 DEF Removing, AskedInv, RemovalInv
<1>24. RemovalInv' /\ DroppedInv'  BY <1>23 DEF RemovalInv, DroppedInv, Removing
<1>25. SecondFactorIsAsked'
  <2>1. SUFFICES ASSUME \E j \in Kinds : row'[j].verified, ~cut'
                 PROVE  /\ ~Confirming' /\ ~overlooked' => \E j \in Kinds : row'[j].primary
                        /\ (\A s \in Reqs : ~BetweenStatements(s)') => codes'.batch # 0
    BY DEF SecondFactorIsAsked
  <2>2. row[o].verified /\ ~cut /\ o \in Kinds  BY <1>1, <1>3, <1>4, <1>7, <1>10, <1>11, <2>1
  <2>3. ~Confirming' /\ ~overlooked' => \E j \in Kinds : row'[j].primary
    <3>1. SUFFICES ASSUME ~Confirming', ~overlooked' PROVE row'[o].primary  BY <2>2
    <3>2. ~Confirming /\ ~overlooked /\ ~Excused  BY <1>1, <1>21, <2>2, <3>1 DEF Excused, Confirming
    <3>3. row[o].primary \/ row[k].primary
      BY <1>3, <1>4, <2>2, <3>2 DEF AskedInv, SecondFactorIsAsked
    <3>4. row[k].primary => x.was_primary  BY <1>3 DEF AskedInv, RemovalInv
    <3>5. x.was_primary => x.promoted = o  BY <1>1, <1>4, <2>2, <3>2 DEF AskedInv, RemovalInv
    <3>6. p  BY <1>5, <3>3, <3>4, <3>5
    <3> QED  BY <1>7, <1>10, <3>6
  <2>4. (\A s \in Reqs : ~BetweenStatements(s)') => codes'.batch # 0
    <3>1. SUFFICES ASSUME ~Between' PROVE codes'.batch # 0  BY DEF Between
    <3>2. ~Between  BY <1>21, <3>1
    <3>3. codes.batch # 0  BY <2>2, <3>2 DEF AskedInv, SecondFactorIsAsked, Between
    <3>4. ~(x.dropped # 0 /\ x.dropped = codes.batch)
      BY <1>1, <1>4, <2>2, <3>2 DEF AskedInv, DroppedInv
    <3> QED  BY <1>1, <3>3, <3>4
  <2> QED  BY <2>3, <2>4
<1> QED  BY <1>12, <1>14, <1>18, <1>19, <1>22, <1>24, <1>25 DEF EnrolmentInv, AskedInv

LEMMA EnrolmentStarts == RequestsInit /\ EnrolmentInit => EnrolmentInv
<1> SUFFICES ASSUME RequestsInit, EnrolmentInit PROVE EnrolmentInv  OBVIOUS
<1>1. Idle.pc = "idle" /\ req = [r \in Reqs |-> Idle] /\ started = 0  BY DEF Idle, RequestsInit
<1>2. ReqsTyped
  BY <1>1 DEF ReqsTyped, IsEnrolment, SettingUp, ConfirmPcs, RegisterPcs, RemovalPcs, RotationPcs
<1>3. \A r \in Reqs : req[r].pc = "idle"  BY <1>1
<1>4. /\ row \in [Kinds -> Rows] /\ (\A k \in Kinds : row[k].id = 0 => row[k] = NoRow)
      /\ (\A k \in Kinds : row[k].id <= 0)
      /\ ((\E k \in Kinds : row[k].verified) => \E k \in Kinds : row[k].primary)
      /\ row["totp"].secret = 0
  <2> DEFINE Goal == /\ row \in [Kinds -> Rows] /\ (\A k \in Kinds : row[k].id = 0 => row[k] = NoRow)
                     /\ (\A k \in Kinds : row[k].id <= 0)
                     /\ ((\E k \in Kinds : row[k].verified) => \E k \in Kinds : row[k].primary)
                     /\ row["totp"].secret = 0
  <2> SUFFICES Goal  OBVIOUS
  <2>1. row \in Before  BY DEF EnrolmentInit
  <2>2. PICK e, f : row = [k \in Kinds |-> IF k = "email" THEN e ELSE f]
                    /\ e \in Rows /\ f \in Rows /\ (e.id = 0 => e = NoRow) /\ (f.id = 0 => f = NoRow)
                    /\ e.id <= 0 /\ f.id <= 0 /\ f.secret = 0
                    /\ (e.verified \/ f.verified => e.primary \/ f.primary)
    <3> DEFINE OK(e, f) == row = [k \in Kinds |-> IF k = "email" THEN e ELSE f]
                    /\ e \in Rows /\ f \in Rows /\ (e.id = 0 => e = NoRow) /\ (f.id = 0 => f = NoRow)
                    /\ e.id <= 0 /\ f.id <= 0 /\ f.secret = 0
                    /\ (e.verified \/ f.verified => e.primary \/ f.primary)
               With(id, v, p) == [id |-> id, verified |-> v, primary |-> p, secret |-> 0, key |-> "old"]
               Without(id, v, p) == [id |-> id, verified |-> v, primary |-> p, secret |-> 0, key |-> "none"]
    <3>1. CASE row = [k \in Kinds |-> NoRow]
      <4>1. OK(NoRow, NoRow)  BY <3>1 DEF NoRow, Rows
      <4> QED  BY <4>1
    <3>2. CASE row = [k \in Kinds |-> IF k = "email" THEN [NoRow EXCEPT !.id = -1] ELSE With(-2, TRUE, TRUE)]
      <4>1. PICK m : m = [NoRow EXCEPT !.id = -1]  OBVIOUS
      <4>2. m = Without(-1, FALSE, FALSE)  BY <4>1 DEF NoRow
      <4>3. row = [k \in Kinds |-> IF k = "email" THEN m ELSE With(-2, TRUE, TRUE)]  BY <3>2, <4>1
      <4>4. OK(m, With(-2, TRUE, TRUE))  BY <4>2, <4>3 DEF Rows
      <4> QED  BY <4>4
    <3>3. CASE row = [k \in Kinds |-> IF k = "email"
                         THEN [NoRow EXCEPT !.id = -1, !.verified = TRUE, !.primary = TRUE]
                         ELSE With(-2, FALSE, FALSE)]
      <4>1. PICK m : m = [NoRow EXCEPT !.id = -1, !.verified = TRUE, !.primary = TRUE]  OBVIOUS
      <4>2. m = Without(-1, TRUE, TRUE)  BY <4>1 DEF NoRow
      <4>3. row = [k \in Kinds |-> IF k = "email" THEN m ELSE With(-2, FALSE, FALSE)]  BY <3>3, <4>1
      <4>4. OK(m, With(-2, FALSE, FALSE))  BY <4>2, <4>3 DEF Rows
      <4> QED  BY <4>4
    <3>4. CASE row = [k \in Kinds |-> IF k = "email" THEN [NoRow EXCEPT !.id = -1, !.verified = TRUE]
                                      ELSE With(-2, TRUE, TRUE)]
      <4>1. PICK m : m = [NoRow EXCEPT !.id = -1, !.verified = TRUE]  OBVIOUS
      <4>2. m = Without(-1, TRUE, FALSE)  BY <4>1 DEF NoRow
      <4>3. row = [k \in Kinds |-> IF k = "email" THEN m ELSE With(-2, TRUE, TRUE)]  BY <3>4, <4>1
      <4>4. OK(m, With(-2, TRUE, TRUE))  BY <4>2, <4>3 DEF Rows
      <4> QED  BY <4>4
    <3> QED  BY <2>1, <3>1, <3>2, <3>3, <3>4 DEF Before
  <2>3. "email" \in Kinds /\ "totp" \in Kinds /\ row["email"] = e /\ row["totp"] = f
        /\ \A k \in Kinds : row[k] = e \/ row[k] = f
    BY <2>2 DEF Kinds
  <2>4. row \in [Kinds -> Rows]  BY <2>2
  <2> QED  BY <2>2, <2>3, <2>4
<1>5. /\ hook = [secret |-> 0, key |-> "old"] /\ ring = "old" /\ clean = FALSE /\ cut = FALSE /\ overlooked = FALSE
      /\ written = [y \in {"totp", "hook"} |-> 0]
      /\ codes = IF \E k \in Kinds : row[k].verified THEN [batch |-> -1, usable |-> TRUE] ELSE NoCodes
  BY DEF EnrolmentInit
<1>6. RowsTyped
  <2>1. codes \in [batch: Int, usable: BOOLEAN]  BY <1>5 DEF NoCodes
  <2>2. hook \in [secret: Int, key: {"old", "new"}] /\ written \in [{"totp", "hook"} -> Int]  BY <1>5
  <2> QED  BY <1>4, <1>5, <2>1, <2>2 DEF RowsTyped
<1>7. KeyInv
  <2>1. SecretsSurviveRotation  BY <1>4, <1>5 DEF SecretsSurviveRotation
  <2> QED  BY <1>3, <1>5, <2>1 DEF KeyInv, SettingUp
<1>8. IdInv  BY <1>1, <1>3, <1>4 DEF IdInv, SettingUp, ConfirmPcs
<1>9. codes.batch \in {0, -1} /\ ((\E k \in Kinds : row[k].verified) => codes.batch # 0)  BY <1>5 DEF NoCodes
<1>10. BatchInv  BY <1>1, <1>3, <1>9 DEF BatchInv, Drafting, ConfirmPcs, RegisterPcs
<1>11. ConfirmedInv /\ RemovalInv /\ DroppedInv
  BY <1>3 DEF ConfirmedInv, RemovalInv, DroppedInv, Removing
<1>12. SecondFactorIsAsked  BY <1>4, <1>9 DEF SecondFactorIsAsked
<1> QED  BY <1>2, <1>6, <1>7, <1>8, <1>10, <1>11, <1>12 DEF EnrolmentInv, AskedInv

LEMMA EnrolmentStep ==
    ASSUME EnrolmentInv, [EnrolmentNext]_<<req, started, enrolmentVars>>
    PROVE  EnrolmentInv'
<1> started \in Nat /\ codes \in [batch: Int, usable: BOOLEAN]  BY DEF EnrolmentInv, ReqsTyped, RowsTyped
<1>1. CASE UNCHANGED <<req, started, enrolmentVars>>
  BY <1>1, QuietWrite DEF enrolmentVars, methods, keys
<1>2. ASSUME NEW r \in Reqs, PostSetupTotp(r) \/ PostSetupEmailOtp(r) \/ ReplacePending(r) \/ CreateMethod(r)
      PROVE  EnrolmentInv'
  BY <1>2, SetupPosted, PendingReplaced, MethodCreated
<1>3. ASSUME NEW r \in Reqs, VerifyTotpSetup(r) \/ VerifyEmailOtpSetup(r) \/ Confirmation(r)  PROVE EnrolmentInv'
  BY <1>3, ConfirmationBegins, AttemptCounted, MethodVerified, PrimaryFound, PrimaryMade, CodesReplaced
     DEF VerifyTotpSetup, VerifyEmailOtpSetup, Confirmation, Kinds
<1>4. ASSUME NEW r \in Reqs, DisableTotp(r) \/ DisableEmailOtp(r) \/ Removal(r)  PROVE EnrolmentInv'
  BY <1>4, RemovalBegins, RowDeleted, OtherPromoted, RestCounted, RemovalCommitted
     DEF DisableTotp, DisableEmailOtp, Removal, Kinds
<1>5. ASSUME NEW r \in Reqs, RegenerateRecoveryCodes(r) \/ ClaimRegeneration(r) \/ RegenerationFails(r)
      PROVE  EnrolmentInv'
  BY <1>5, RegenerationAsked, RegenerationClaimed
<1>6. ASSUME NEW r \in Reqs,
             \/ PostRegistrationOptions(r)
             \/ \E s \in UserSessions, c \in Credentials : Register(r, s, c)
             \/ StorePending(r) \/ CheckRegistration(r) \/ CreatePasskey(r) \/ CountUsable(r)
      PROVE  EnrolmentInv'
  BY <1>6, RegistrationOffered, RegistrationAnswered, PasskeyRegistered
<1>7. ASSUME NEW r \in Reqs,
             \/ RotateTotpEncryptionKey(r)
             \/ \E ok \in BOOLEAN : RewrapHook(r, ok) \/ RewrapTotp(r, ok)
             \/ Drop(r)
      PROVE  EnrolmentInv'
  BY <1>7, RotationBegins, HookRewrapped, TotpRewrapped, RequestDropped
<1>8. CASE SendEmailOtpCode \/ DeletePasskey
  BY <1>8, QuietWrite DEF SendEmailOtpCode, SendCode, DeletePasskey, RemovePasskey, Single, Counted, Serial, methods, keys
<1>9. CASE SpendLastRecoveryCode
  <2>1. codes' \in [batch: Int, usable: BOOLEAN] /\ codes'.batch = codes.batch
    BY <1>9 DEF SpendLastRecoveryCode
  <2> QED  BY <1>9, <2>1, QuietWrite DEF SpendLastRecoveryCode, Single, Counted, Serial, methods, keys
<1>10. CASE ReplaceEndpointSecret  BY <1>10, HookReplaced
<1>11. CASE \E next \in {"both", "new"} : Redeploy(next)  BY <1>11, ServiceRedeployed
<1>12. CASE Expire
  BY <1>12, QuietWrite DEF Expire, keys
<1> QED
  BY <1>1, <1>2, <1>3, <1>4, <1>5, <1>6, <1>7, <1>8, <1>9, <1>10, <1>11, <1>12 DEF EnrolmentNext

LEMMA EnrolmentHolds == EnrolmentSpec => []EnrolmentInv
<1>1. EnrolmentInv /\ [EnrolmentNext]_<<req, started, enrolmentVars>> => EnrolmentInv'
  BY EnrolmentStep
<1> QED  BY <1>1, EnrolmentStarts, PTL DEF EnrolmentSpec

\* A rotation beside live enrolments brings no older secret back, and when it reports a clean
\* pass the old key can be retired without losing one (rotate_totp_encryption_key).
THEOREM SecretsOutliveTheKey == EnrolmentSpec => []SecretsSurviveRotation
<1>1. EnrolmentInv => SecretsSurviveRotation
  BY DEF EnrolmentInv, KeyInv
<1> QED  BY <1>1, EnrolmentHolds, PTL

\* However confirmations and removals of the two methods run beside each other, a confirmed
\* method leaves a primary one and recovery codes (mark_verified, remove_method).
THEOREM AFactorIsAsked == EnrolmentSpec => []SecondFactorIsAsked
<1>1. EnrolmentInv => SecondFactorIsAsked
  BY DEF EnrolmentInv, AskedInv
<1> QED  BY <1>1, EnrolmentHolds, PTL
-----------------------------------------------------------------------------
(***************************************************************************)
(* The rate limiter.  What a bucket counts in this window is what it let   *)
(* through in it, and what it remembers of the window before is no less    *)
(* than what of that window lies within the last minute.  The estimate     *)
(* lets this window fill up only when nothing is remembered.               *)
(***************************************************************************)
Stamp == [at: Nat, n: Nat]

RateTyped ==
    /\ now \in Nat
    /\ hash \in [Names \X Clients -> [w: Int, c: Nat, p: Nat]]
    /\ \A k \in Names \X Clients : hash[k].w <= current
    /\ served \in [Names \X Subscribers -> SUBSET Stamp]

\* The stamps of a subscriber: of the last minute, and numbered.
Numbered(reqs) ==
    /\ IsFiniteSet(reqs)
    /\ \A x \in reqs : now - Window < x.at /\ x.at <= now
    /\ \A x \in AtOnce(reqs) : x.n <= Cardinality(AtOnce(reqs))

\* The two counts n of bucket b, of what was let through.
Covers(b, n, reqs) ==
    /\ n.c = Cardinality(ThisWindow(reqs))
    /\ Cardinality(reqs \ ThisWindow(reqs)) <= n.p
    /\ n.c <= Limit(b) /\ n.p <= Limit(b)
    /\ n.c = Limit(b) => n.p = 0

RateInv ==
    /\ RateTyped
    /\ \A k \in Names \X Subscribers : Numbered(served[k])
    /\ \A b \in Names, ip \in Addresses :
         Covers(b, Counts(b, IpBucket(ip)), served[<<b, Subscriber(ip)>>])

LEMMA LimitPositive == \A b : Limit(b) \in Nat \ {0}
BY RateLimitAssumption DEF Limit

\* The two names of a client name the same clients.
LEMMA OneClient ==
    ASSUME NEW ip \in Addresses, NEW jp \in Addresses
    PROVE  IpBucket(ip) = IpBucket(jp) <=> Subscriber(ip) = Subscriber(jp)
<1>1. /\ ip.family \in {"v4", "mapped", "v6"} /\ ip.net \in Nat /\ ip.host \in Nat
      /\ jp.family \in {"v4", "mapped", "v6"} /\ jp.net \in Nat /\ jp.host \in Nat
  BY RateLimitAssumption
<1> QED  BY <1>1 DEF IpBucket, Subscriber

\* Products grow with their factors.
LEMMA Products ==
    ASSUME NEW a \in Int, NEW b \in Int, NEW m \in Nat
    PROVE  /\ a * m \in Int /\ (a <= b => a * m <= b * m)
           /\ (a + 1) * m = a * m + m
  OBVIOUS

\* The window an instant lies in.
LEMMA Division ==
    ASSUME NEW n \in Nat
    PROVE  /\ n \div Window \in Nat /\ n % Window \in 0..(Window - 1)
           /\ n = Window * (n \div Window) + (n % Window)
BY RateLimitAssumption

LEMMA Quotient ==
    ASSUME NEW q \in Nat, NEW m \in 0..(Window - 1)
    PROVE  (Window * q + m) \div Window = q /\ (Window * q + m) % Window = m
<1> DEFINE n == Window * q + m
<1>0. Window \in Nat \ {0} /\ n \in Nat
  BY RateLimitAssumption
<1>1. /\ n \div Window \in Nat /\ n % Window \in 0..(Window - 1)
      /\ n = Window * (n \div Window) + (n % Window)
  BY <1>0, Division
<1> HIDE DEF n
<1> DEFINE d == n \div Window
<1>2. ASSUME d + 1 <= q PROVE FALSE
  <2>1. (d + 1) * Window <= q * Window /\ (d + 1) * Window = d * Window + Window
    BY <1>0, <1>1, <1>2, Products
  <2> QED  BY <1>0, <1>1, <2>1 DEF n
<1>3. ASSUME q + 1 <= d PROVE FALSE
  <2>1. (q + 1) * Window <= d * Window /\ (q + 1) * Window = q * Window + Window
    BY <1>0, <1>1, <1>3, Products
  <2> QED  BY <1>0, <1>1, <2>1 DEF n
<1>4. d = q
  BY <1>1, <1>2, <1>3
<1> QED  BY <1>0, <1>1, <1>4 DEF n

LEMMA TickOfTheClock ==
    ASSUME now \in Nat, now' = now + 1
    PROVE  \/ current' = current /\ into' = into + 1 /\ into + 1 < Window
           \/ current' = current + 1 /\ into' = 0 /\ into = Window - 1
<1>0. Window \in Nat \ {0}
  BY RateLimitAssumption
<1>1. /\ current \in Nat /\ into \in 0..(Window - 1) /\ now = Window * current + into
  BY Division DEF current, into
<1>2. CASE into + 1 < Window
  <2>1. now + 1 = Window * current + (into + 1) /\ into + 1 \in 0..(Window - 1)
    BY <1>0, <1>1, <1>2
  <2>2. (now + 1) \div Window = current /\ (now + 1) % Window = into + 1
    BY <1>1, <2>1, Quotient
  <2> QED  BY <1>2, <2>2 DEF current, into
<1>3. CASE into + 1 = Window
  <2>1. now + 1 = Window * (current + 1) + 0 /\ 0 \in 0..(Window - 1) /\ current + 1 \in Nat
    BY <1>0, <1>1, <1>3
  <2>2. (now + 1) \div Window = current + 1 /\ (now + 1) % Window = 0
    BY <1>1, <2>1, Quotient
  <2> QED  BY <1>0, <1>1, <1>3, <2>2 DEF current, into
<1> QED  BY <1>0, <1>1, <1>2, <1>3

\* What the estimate lets through.
LEMMA NotOver ==
    ASSUME now \in Nat, NEW b, NEW c \in Nat, NEW p \in Nat, ~Over(b, [c |-> c, p |-> p])
    PROVE  c + 1 <= Limit(b) /\ (c + 1 = Limit(b) => p = 0)
<1>0. Window \in Nat \ {0} /\ Limit(b) \in Nat \ {0} /\ into \in 0..(Window - 1)
  BY RateLimitAssumption, LimitPositive, Division DEF into
<1> DEFINE l == Limit(b)  v == Window - into
<1>1. p * v + (c + 1) * Window <= l * Window /\ v \in Nat \ {0}
  BY <1>0 DEF Over
<1>2. p * v \in Nat /\ (p # 0 => p * v >= v)
  <2>1. p # 0 => 1 * v <= p * v
    BY <1>1, Products
  <2> QED  BY <1>1, <2>1
<1>3. ASSUME l + 1 <= c + 1 PROVE FALSE
  <2>1. (l + 1) * Window <= (c + 1) * Window /\ (l + 1) * Window = l * Window + Window
    BY <1>0, <1>3, Products
  <2> QED  BY <1>0, <1>1, <1>2, <2>1
<1>4. ASSUME c + 1 = l PROVE p = 0
  BY <1>0, <1>1, <1>2, <1>4
<1> QED  BY <1>0, <1>3, <1>4

LEMMA LayerNames ==
    ASSUME NEW strict \in BOOLEAN
    PROVE  {Layer(strict)[i] : i \in 1..Len(Layer(strict))} \subseteq Names
BY DEF Layer, Names, Buckets

LEMMA CountsTyped ==
    ASSUME RateTyped, NEW b \in Names, NEW c \in Clients
    PROVE  Counts(b, c).c \in Nat /\ Counts(b, c).p \in Nat
           /\ Counts(b, c) = [c |-> Counts(b, c).c, p |-> Counts(b, c).p]
<1>1. hash[<<b, c>>] \in [w: Int, c: Nat, p: Nat]
  BY DEF RateTyped
<1> QED  BY <1>1 DEF Counts

\* One more request at this instant.
LEMMA OneMore ==
    ASSUME now \in Nat, NEW reqs \in SUBSET Stamp, Numbered(reqs)
    PROVE  /\ WithOneMore(reqs) \in SUBSET Stamp /\ Numbered(WithOneMore(reqs))
           /\ Cardinality(ThisWindow(WithOneMore(reqs))) = Cardinality(ThisWindow(reqs)) + 1
           /\ WithOneMore(reqs) \ ThisWindow(WithOneMore(reqs)) = reqs \ ThisWindow(reqs)
<1> DEFINE x == [at |-> now, n |-> Cardinality(AtOnce(reqs)) + 1]
<1>0. Window \in Nat \ {0} /\ into \in 0..(Window - 1)
  BY RateLimitAssumption, Division DEF into
<1>1. /\ IsFiniteSet(reqs) /\ IsFiniteSet(AtOnce(reqs)) /\ IsFiniteSet(ThisWindow(reqs))
  <2>1. IsFiniteSet(reqs) /\ AtOnce(reqs) \subseteq reqs /\ ThisWindow(reqs) \subseteq reqs
    BY DEF Numbered, AtOnce, ThisWindow
  <2> QED  BY <2>1, FS_Subset
<1>2. Cardinality(AtOnce(reqs)) \in Nat
  BY <1>1, FS_CardinalityType
<1>3. x \in Stamp /\ x.at = now /\ x.n = Cardinality(AtOnce(reqs)) + 1 /\ x \notin reqs
  <2>1. x \in Stamp /\ x.at = now /\ x.n = Cardinality(AtOnce(reqs)) + 1
    BY <1>2 DEF Stamp
  <2>2. ASSUME x \in reqs PROVE FALSE
    <3>1. x \in AtOnce(reqs)
      BY <2>1, <2>2 DEF AtOnce
    <3>2. x.n <= Cardinality(AtOnce(reqs))
      BY <3>1 DEF Numbered
    <3> QED  BY <1>2, <2>1, <3>2
  <2> QED  BY <2>1, <2>2
<1>4. WithOneMore(reqs) = reqs \cup {x}
  BY DEF WithOneMore
<1> HIDE DEF x
<1>5. /\ AtOnce(reqs \cup {x}) = AtOnce(reqs) \cup {x} /\ x \notin AtOnce(reqs)
      /\ ThisWindow(reqs \cup {x}) = ThisWindow(reqs) \cup {x} /\ x \notin ThisWindow(reqs)
  BY <1>0, <1>3 DEF AtOnce, ThisWindow
<1>6. /\ IsFiniteSet(reqs \cup {x})
      /\ Cardinality(AtOnce(reqs) \cup {x}) = Cardinality(AtOnce(reqs)) + 1
      /\ Cardinality(ThisWindow(reqs) \cup {x}) = Cardinality(ThisWindow(reqs)) + 1
  BY <1>1, <1>5, FS_AddElement
<1>7. \A y \in reqs \cup {x} : now - Window < y.at /\ y.at <= now
  BY <1>0, <1>3 DEF Numbered
<1>8. \A y \in AtOnce(reqs) \cup {x} : y.n <= Cardinality(AtOnce(reqs)) + 1
  <2>1. \A y \in AtOnce(reqs) : y.n \in Nat /\ y.n <= Cardinality(AtOnce(reqs))
    BY DEF Numbered, AtOnce, Stamp
  <2> QED  BY <1>2, <1>3, <2>1
<1>9. Numbered(reqs \cup {x})
  BY <1>5, <1>6, <1>7, <1>8 DEF Numbered
<1> QED  BY <1>3, <1>4, <1>5, <1>6, <1>9

LEMMA RateQuiet ==
    ASSUME RateInv, now' = now, hash' = hash, served' = served
    PROVE  RateInv'
<1>1. RateTyped'
  BY DEF RateInv, RateTyped, current
<1>2. \A k \in Names \X Subscribers : Numbered(served[k])'
  BY DEF RateInv, Numbered, AtOnce
<1>3. \A b \in Names, c \in Clients : Counts(b, c)' = Counts(b, c)
  BY DEF Counts, current
<1>4. ASSUME NEW b \in Names, NEW ip \in Addresses
      PROVE  Covers(b, Counts(b, IpBucket(ip)), served[<<b, Subscriber(ip)>>])'
  <2>1. Covers(b, Counts(b, IpBucket(ip)), served[<<b, Subscriber(ip)>>])
    BY DEF RateInv
  <2>2. Counts(b, IpBucket(ip))' = Counts(b, IpBucket(ip))
    BY <1>3 DEF Clients
  <2>3. ThisWindow(served[<<b, Subscriber(ip)>>])' = ThisWindow(served[<<b, Subscriber(ip)>>])
    BY DEF ThisWindow, into
  <2> QED  BY <2>1, <2>2, <2>3 DEF Covers
<1> QED  BY <1>1, <1>2, <1>4 DEF RateInv

\* A request that the buckets of a layer count, or none of them.
LEMMA CheckKeeps ==
    ASSUME RateInv, NEW ip \in Addresses, NEW strict \in BOOLEAN, Check(ip, Layer(strict)), now' = now
    PROVE  RateInv'
<1> DEFINE layer == Layer(strict)
           names == {layer[i] : i \in 1..Len(layer)}
           c == IpBucket(ip)  s == Subscriber(ip)
           clear == \A i \in 1..Len(layer) : ~Over(layer[i], Counts(layer[i], c))
<1>0. /\ names \subseteq Names /\ c \in Clients /\ s \in Subscribers
      /\ current' = current /\ into' = into
      /\ RateTyped /\ DOMAIN hash = Names \X Clients /\ DOMAIN served = Names \X Subscribers
  BY LayerNames DEF Clients, Subscribers, current, into, RateInv, RateTyped
<1>1. CASE ~clear
  <2>1. hash' = hash /\ served' = served
    <3>1. CountedIn(c, layer) = {} /\ Answer(c, layer) # "clear"
      BY <1>1 DEF CountedIn, Answer
    <3>2. hash' = [k \in DOMAIN hash |-> hash[k]] /\ served' = [k \in DOMAIN served |-> served[k]]
      BY <3>1 DEF Check
    <3> QED  BY <1>0, <3>2 DEF RateTyped
  <2> QED  BY <2>1, RateQuiet
<1>2. CASE clear
  <2>0. CountedIn(c, layer) = names /\ Answer(c, layer) = "clear"
    BY <1>2 DEF CountedIn, Answer
  <2>1. \A b \in Names, d \in Clients : hash'[<<b, d>>] =
             IF d = c /\ b \in names
             THEN [w |-> current, c |-> Counts(b, c).c + 1, p |-> Counts(b, c).p]
             ELSE hash[<<b, d>>]
    BY <1>0, <2>0 DEF Check
  <2>1a. hash' = [k \in Names \X Clients |-> hash'[k]]
    BY <1>0, <2>0 DEF Check
  <2>2. \A b \in Names, t \in Subscribers : served'[<<b, t>>] =
             IF t = s /\ b \in names THEN WithOneMore(served[<<b, t>>]) ELSE served[<<b, t>>]
    BY <1>0, <2>0 DEF Check
  <2>2a. served' = [k \in Names \X Subscribers |-> served'[k]]
    BY <1>0, <2>0 DEF Check
  <2> HIDE DEF names, clear, c, s
  <2>3. \A b \in Names, t \in Subscribers :
           served[<<b, t>>] \in SUBSET Stamp /\ Numbered(served[<<b, t>>])
    BY DEF RateInv, RateTyped
  <2>4. \A b \in Names, t \in Subscribers :
           served'[<<b, t>>] \in SUBSET Stamp /\ Numbered(served'[<<b, t>>])
    <3>1. now \in Nat
      BY <1>0 DEF RateTyped
    <3> SUFFICES ASSUME NEW b \in Names, NEW t \in Subscribers
                 PROVE  served'[<<b, t>>] \in SUBSET Stamp /\ Numbered(served'[<<b, t>>])
      OBVIOUS
    <3>2. CASE t = s /\ b \in names
      BY <2>2, <2>3, <3>1, <3>2, OneMore
    <3>3. CASE ~(t = s /\ b \in names)
      BY <2>2, <2>3, <3>3
    <3> QED  BY <3>2, <3>3
  <2>5. \A b \in Names, d \in Clients : hash'[<<b, d>>] \in [w: Int, c: Nat, p: Nat] /\ hash'[<<b, d>>].w <= current
    <3> SUFFICES ASSUME NEW b \in Names, NEW d \in Clients
                 PROVE  hash'[<<b, d>>] \in [w: Int, c: Nat, p: Nat] /\ hash'[<<b, d>>].w <= current
      OBVIOUS
    <3>1. hash[<<b, d>>] \in [w: Int, c: Nat, p: Nat] /\ hash[<<b, d>>].w <= current
      BY <1>0 DEF RateTyped
    <3>2. Counts(b, c).c \in Nat /\ Counts(b, c).p \in Nat /\ current \in Nat
      BY <1>0, CountsTyped, Division DEF RateTyped, current
    <3>3. [w |-> current, c |-> Counts(b, c).c + 1, p |-> Counts(b, c).p] \in [w: Int, c: Nat, p: Nat]
      BY <3>2
    <3>4. CASE d = c /\ b \in names
      <4>1. hash'[<<b, d>>] = [w |-> current, c |-> Counts(b, c).c + 1, p |-> Counts(b, c).p]
        BY <2>1, <3>4
      <4> QED  BY <3>2, <3>3, <4>1
    <3>5. CASE ~(d = c /\ b \in names)
      BY <2>1, <3>1, <3>5
    <3> QED  BY <3>4, <3>5
  <2>6. RateTyped'
    BY <1>0, <2>1a, <2>2a, <2>4, <2>5 DEF RateTyped
  <2>7. \A k \in Names \X Subscribers : Numbered(served[k])'
    BY <2>4, <1>0 DEF Numbered, AtOnce
  <2>8. ASSUME NEW b \in Names, NEW d \in Clients, NEW t \in Subscribers, d = c <=> t = s,
               Covers(b, Counts(b, d), served[<<b, t>>])
        PROVE  Covers(b, Counts(b, d), served[<<b, t>>])'
    <3>2. CASE d = c /\ b \in names
      <4>0. hash'[<<b, d>>] = [w |-> current, c |-> Counts(b, c).c + 1, p |-> Counts(b, c).p]
        BY <2>1, <2>8, <3>2
      <4>1. Counts(b, d)' = [c |-> Counts(b, c).c + 1, p |-> Counts(b, c).p]
        <5>1. hash'[<<b, d>>].w = current' /\ hash'[<<b, d>>].c = Counts(b, c).c + 1 /\ hash'[<<b, d>>].p = Counts(b, c).p
          BY <1>0, <4>0
        <5>2. Counts(b, d)' = [c |-> hash'[<<b, d>>].c, p |-> hash'[<<b, d>>].p]
          <6>1. current' \in Nat
            BY <1>0, Division DEF current, RateTyped
          <6> QED  BY <5>1, <6>1 DEF Counts
        <5> QED  BY <5>1, <5>2
      <4>2. ~Over(b, Counts(b, c))
        BY <1>2, <3>2 DEF names, clear
      <4>3. /\ Counts(b, c).c \in Nat /\ Counts(b, c).p \in Nat
            /\ Counts(b, c).c + 1 <= Limit(b) /\ (Counts(b, c).c + 1 = Limit(b) => Counts(b, c).p = 0)
        BY <1>0, <4>2, CountsTyped, NotOver DEF RateTyped
      <4>4. served'[<<b, t>>] = WithOneMore(served[<<b, t>>])
        BY <2>2, <2>8, <3>2
      <4>5. ThisWindow(served[<<b, t>>])' = ThisWindow(WithOneMore(served[<<b, t>>]))
        BY <1>0, <4>4 DEF ThisWindow
      <4>6. /\ Cardinality(ThisWindow(WithOneMore(served[<<b, t>>]))) = Cardinality(ThisWindow(served[<<b, t>>])) + 1
            /\ WithOneMore(served[<<b, t>>]) \ ThisWindow(WithOneMore(served[<<b, t>>]))
                 = served[<<b, t>>] \ ThisWindow(served[<<b, t>>])
        BY <1>0, <2>3, OneMore DEF RateTyped
      <4>7. Covers(b, Counts(b, c), served[<<b, t>>])
        BY <2>8, <3>2
      <4>8. /\ Counts(b, c).c + 1 = Cardinality(ThisWindow(served[<<b, t>>])')
            /\ Cardinality(served'[<<b, t>>] \ ThisWindow(served[<<b, t>>])') <= Counts(b, c).p
            /\ Counts(b, c).p <= Limit(b)
        BY <4>4, <4>5, <4>6, <4>7 DEF Covers
      <4>9. Counts(b, d)'.c = Counts(b, c).c + 1 /\ Counts(b, d)'.p = Counts(b, c).p
        BY <4>1
      <4> QED  BY <4>3, <4>8, <4>9 DEF Covers
    <3>3. CASE ~(d = c /\ b \in names)
      <4>1. hash'[<<b, d>>] = hash[<<b, d>>] /\ served'[<<b, t>>] = served[<<b, t>>]
        BY <2>1, <2>2, <2>8, <3>3
      <4>2. Counts(b, d)' = Counts(b, d) /\ ThisWindow(served[<<b, t>>])' = ThisWindow(served[<<b, t>>])
        BY <1>0, <4>1 DEF Counts, ThisWindow
      <4> QED  BY <2>8, <4>1, <4>2 DEF Covers
    <3> QED  BY <3>2, <3>3
  <2>9. ASSUME NEW b \in Names, NEW jp \in Addresses
        PROVE  Covers(b, Counts(b, IpBucket(jp)), served[<<b, Subscriber(jp)>>])'
    <3>1. /\ IpBucket(jp) \in Clients /\ Subscriber(jp) \in Subscribers
          /\ IpBucket(jp) = c <=> Subscriber(jp) = s
      BY OneClient DEF c, s, Clients, Subscribers
    <3>2. Covers(b, Counts(b, IpBucket(jp)), served[<<b, Subscriber(jp)>>])
      BY DEF RateInv
    <3> QED  BY <2>8, <3>1, <3>2
  <2> QED  BY <2>6, <2>7, <2>9 DEF RateInv
<1> QED  BY <1>1, <1>2

\* A finite set is at least as large as its parts, and their sum if they are all of it.
LEMMA Parts2 ==
    ASSUME NEW S, IsFiniteSet(S), NEW T, T \subseteq S
    PROVE  /\ Cardinality(T) \in Nat /\ Cardinality(S) \in Nat /\ Cardinality(T) <= Cardinality(S)
           /\ IsFiniteSet(T) /\ Cardinality(S \ T) \in Nat
           /\ Cardinality(S) = Cardinality(T) + Cardinality(S \ T)
<1>1. IsFiniteSet(T) /\ IsFiniteSet(S \ T) /\ Cardinality(T) <= Cardinality(S)
  BY FS_Subset, FS_Difference
<1>2. S = T \cup (S \ T) /\ T \cap (S \ T) = {}
  OBVIOUS
<1>3. Cardinality(T \cup (S \ T)) = Cardinality(T) + Cardinality(S \ T) - Cardinality({})
  BY <1>1, <1>2, FS_Union
<1>4. Cardinality(T) \in Nat /\ Cardinality(S) \in Nat /\ Cardinality(S \ T) \in Nat /\ Cardinality({}) = 0
  BY <1>1, FS_CardinalityType, FS_EmptySet
<1>5. Cardinality(S) = Cardinality(T) + Cardinality(S \ T) - 0
  BY <1>2, <1>3, <1>4
<1> QED  BY <1>1, <1>4, <1>5

LEMMA TickKeeps ==
    ASSUME RateInv, RateTick
    PROVE  RateInv'
<1> DEFINE kept(R) == {x \in R : x.at > now + 1 - Window}
<1>0. /\ Window \in Nat \ {0} /\ now \in Nat /\ current \in Nat /\ into \in 0..(Window - 1)
      /\ now' = now + 1 /\ hash' = hash
  BY RateLimitAssumption, Division DEF RateInv, RateTyped, RateTick, current, into
<1>1. \/ current' = current /\ into' = into + 1 /\ into + 1 < Window
      \/ current' = current + 1 /\ into' = 0 /\ into = Window - 1
  BY <1>0, TickOfTheClock
<1>2. served' = [k \in Names \X Subscribers |-> kept(served[k])]
  BY <1>0 DEF RateTick, RateInv, RateTyped
<1>3. RateTyped'
  <2>1. \A k \in Names \X Clients : hash[k].w \in Int /\ hash[k].w <= current
    BY DEF RateInv, RateTyped
  <2>2. \A k \in Names \X Clients : hash'[k].w <= current'
    BY <1>0, <1>1, <2>1
  <2>3. \A k \in Names \X Subscribers : kept(served[k]) \in SUBSET Stamp
    BY DEF RateInv, RateTyped
  <2> QED  BY <1>0, <1>2, <2>2, <2>3 DEF RateInv, RateTyped
<1>4. ASSUME NEW k \in Names \X Subscribers
      PROVE  Numbered(served[k])'
  <2>1. Numbered(served[k]) /\ served[k] \in SUBSET Stamp /\ served'[k] = kept(served[k])
    BY <1>2 DEF RateInv, RateTyped
  <2>2. IsFiniteSet(served'[k])
    BY <2>1, FS_Subset DEF Numbered
  <2>3. \A x \in served'[k] : x.at \in Nat /\ x.at <= now /\ x.at > now + 1 - Window
    BY <2>1 DEF Numbered, Stamp
  <2>4. AtOnce(served[k])' = {}
    BY <1>0, <2>3 DEF AtOnce
  <2> QED  BY <1>0, <2>2, <2>3, <2>4 DEF Numbered
<1>5. ASSUME NEW b \in Names, NEW c \in Clients, NEW t \in Subscribers,
             Covers(b, Counts(b, c), served[<<b, t>>])
      PROVE  Covers(b, Counts(b, c), served[<<b, t>>])'
  <2> DEFINE R == served[<<b, t>>]
  <2>1. /\ R \in SUBSET Stamp /\ IsFiniteSet(R) /\ R' = kept(R)
        /\ \A x \in R : x.at \in Nat /\ x.at <= now
    BY <1>2 DEF RateInv, RateTyped, Numbered, Stamp
  <2>2. hash[<<b, c>>] \in [w: Int, c: Nat, p: Nat] /\ hash[<<b, c>>].w <= current
    BY DEF RateInv, RateTyped
  <2>3. CASE current' = current /\ into' = into + 1 /\ into + 1 < Window
    <3>1. Counts(b, c)' = Counts(b, c)
      BY <1>0, <2>3 DEF Counts
    <3>2. ThisWindow(R)' = ThisWindow(R) /\ R' \ ThisWindow(R)' \subseteq R \ ThisWindow(R)
      <4>1. now' - into' = now - into /\ now + 1 - Window < now - into
        BY <1>0, <2>3
      <4> QED  BY <1>0, <2>1, <4>1 DEF ThisWindow
    <3>3. Cardinality(R' \ ThisWindow(R)') <= Cardinality(R \ ThisWindow(R))
      BY <2>1, <3>2, Parts2, FS_Difference
    <3>4. /\ Cardinality(R' \ ThisWindow(R)') \in Nat /\ Cardinality(R \ ThisWindow(R)) \in Nat
          /\ Counts(b, c).p \in Nat
      BY <2>1, <3>2, Parts2, FS_Difference, CountsTyped DEF RateInv
    <3>5. Cardinality(R' \ ThisWindow(R)') <= Counts(b, c)'.p
      BY <1>5, <3>1, <3>3, <3>4 DEF Covers
    <3> QED  BY <1>5, <3>1, <3>2, <3>5 DEF Covers
  <2>4. CASE current' = current + 1 /\ into' = 0 /\ into = Window - 1
    <3>1. ThisWindow(R)' = {} /\ R' \subseteq ThisWindow(R)
      <4>1. now' - into' = now + 1 /\ now - into = now + 1 - Window
        BY <1>0, <2>4
      <4> QED  BY <1>0, <2>1, <4>1 DEF ThisWindow
    <3>2. /\ Cardinality(R' \ ThisWindow(R)') <= Cardinality(ThisWindow(R))
          /\ Cardinality(ThisWindow(R)) \in Nat /\ Cardinality(ThisWindow(R)') = 0
      <4>1. ThisWindow(R) \subseteq R
        BY DEF ThisWindow
      <4> QED  BY <2>1, <3>1, <4>1, Parts2, FS_EmptySet
    <3>3. Counts(b, c)'.c = 0 /\ Counts(b, c)'.p = Counts(b, c).c
      <4>1. CASE hash[<<b, c>>].w = current
        BY <1>0, <2>2, <2>4, <4>1 DEF Counts, Never
      <4>2. CASE hash[<<b, c>>].w # current
        BY <1>0, <2>2, <2>4, <4>2 DEF Counts, Never
      <4> QED  BY <4>1, <4>2
    <3> QED  BY <1>5, <3>2, <3>3, LimitPositive DEF Covers
  <2> QED  BY <1>1, <2>3, <2>4
<1>6. ASSUME NEW b \in Names, NEW ip \in Addresses
      PROVE  Covers(b, Counts(b, IpBucket(ip)), served[<<b, Subscriber(ip)>>])'
  BY <1>5 DEF RateInv, Clients, Subscribers
<1> QED  BY <1>3, <1>4, <1>6 DEF RateInv

LEMMA RateStart == RateInit => RateInv
<1> SUFFICES ASSUME RateInit PROVE RateInv
  OBVIOUS
<1>1. now = 0 /\ current \in Nat
  BY Division DEF RateInit, current
<1>2. \A k \in Names \X Clients : hash[k] = [w |-> Never, c |-> 0, p |-> 0]
  BY DEF RateInit
<1>3. \A k \in Names \X Subscribers : served[k] = {}
  BY DEF RateInit
<1>4. IsFiniteSet({}) /\ Cardinality({}) = 0
  BY FS_EmptySet
<1>5. RateTyped
  BY <1>1, <1>2 DEF RateInit, RateTyped, Never
<1>6. AtOnce({}) = {} /\ ThisWindow({}) = {}
  BY DEF AtOnce, ThisWindow
<1>7. Numbered({})
  BY <1>4, <1>6 DEF Numbered
<1>8. ASSUME NEW b \in Names, NEW c \in Clients PROVE Covers(b, Counts(b, c), {})
  <2>1. Counts(b, c).c = 0 /\ Counts(b, c).p = 0
    BY <1>2 DEF Counts
  <2>2. {} \ ThisWindow({}) = {}
    OBVIOUS
  <2> QED  BY <1>4, <1>6, <2>1, <2>2, LimitPositive DEF Covers
<1> QED  BY <1>3, <1>5, <1>7, <1>8 DEF RateInv, Clients, Subscribers

\* In any minute a bucket lets fewer than twice its limit through for one subscriber, in a
\* fixed one the limit at most, and it counts what it let through and nothing else
\* (the script of middleware/rate_limit.rs), for any limits, window and addresses.
THEOREM FewerThanTwice == RateSpec => []AtMostTwiceTheLimit
<1>1. RateInv /\ [RateNext]_rateVars => RateInv'
  <2> SUFFICES ASSUME RateInv, [RateNext]_rateVars PROVE RateInv'
    OBVIOUS
  <2>1. CASE RateTick
    BY <2>1, TickKeeps
  <2>2. CASE LayerWithState
    <3>1. CASE UNCHANGED <<hash, served, promised>>
      BY <2>2, <3>1, RateQuiet DEF LayerWithState
    <3>2. ASSUME NEW ip \in Addresses, NEW strict \in BOOLEAN, Check(ip, Layer(strict)) PROVE RateInv'
      BY <2>2, <3>2, CheckKeeps DEF LayerWithState
    <3> QED  BY <2>2, <3>1, <3>2 DEF LayerWithState
  <2>3. CASE UNCHANGED rateVars
    BY <2>3, RateQuiet DEF rateVars
  <2> QED  BY <2>1, <2>2, <2>3 DEF RateNext
<1>2. RateInv => AtMostTwiceTheLimit
  <2> SUFFICES ASSUME RateInv, NEW b \in Names, NEW ip \in Addresses
               PROVE  LET R == served[<<b, Subscriber(ip)>>] IN
                      /\ Cardinality(R) < 2 * Limit(b)
                      /\ Cardinality(ThisWindow(R)) <= Limit(b)
                      /\ \A jp \in Addresses : Subscriber(jp) = Subscriber(ip) =>
                           Counts(b, IpBucket(jp)).c = Cardinality(ThisWindow(R))
    BY DEF AtMostTwiceTheLimit, Subscribers
  <2> DEFINE R == served[<<b, Subscriber(ip)>>]  n == Counts(b, IpBucket(ip))
  <2>1. Covers(b, n, R) /\ IsFiniteSet(R) /\ ThisWindow(R) \subseteq R
    BY DEF RateInv, Numbered, ThisWindow, Subscribers
  <2>2. /\ Cardinality(R) = Cardinality(ThisWindow(R)) + Cardinality(R \ ThisWindow(R))
        /\ Cardinality(ThisWindow(R)) \in Nat /\ Cardinality(R \ ThisWindow(R)) \in Nat
    BY <2>1, Parts2
  <2>3. n.c \in Nat /\ n.p \in Nat /\ Limit(b) \in Nat \ {0}
    BY CountsTyped, LimitPositive DEF RateInv, Clients
  <2>4. Cardinality(R) < 2 * Limit(b) /\ Cardinality(ThisWindow(R)) <= Limit(b)
    BY <2>1, <2>2, <2>3 DEF Covers
  <2>5. \A jp \in Addresses : Subscriber(jp) = Subscriber(ip) =>
           Counts(b, IpBucket(jp)).c = Cardinality(ThisWindow(R))
    BY DEF RateInv, Covers
  <2> QED  BY <2>4, <2>5
<1> QED  BY <1>1, <1>2, RateStart, PTL DEF RateSpec
=============================================================================
