--------------------------- MODULE SessionsProofs ---------------------------
(***************************************************************************)
(* Theorems about Sessions, for any number of sessions, accounts, clients  *)
(* and concurrent handlers.                                                *)
(***************************************************************************)
EXTENDS Sessions, TLAPS

-----------------------------------------------------------------------------
(***************************************************************************)
(* Records                                                                 *)
(***************************************************************************)
\* The idle request is a request, holding no session and reserving no id.
LEMMA IdleType ==
    /\ Idle \in Request
    /\ Idle.pc = "idle"
    /\ Idle.new = None
BY DEF Idle, Request, Steps, Scopes, Opt

LEMMA NoRowType == NoRow \in Row /\ NoRow.revoked = FALSE /\ NoRow.replacedBy = None
BY DEF NoRow, Row, Opt

\* The names of the steps and of the scopes.
LEMMA Names ==
    /\ "signIn" \in Steps /\ "user" \in Steps /\ "lock" \in Steps
    /\ "rotate" \in Steps /\ "lost" \in Steps /\ "familySnapshot" \in Steps
    /\ "familyApply" \in Steps /\ "snapshot" \in Steps /\ "apply" \in Steps
    /\ "one" \in Scopes /\ "user" \in Scopes /\ "others" \in Scopes
    /\ "suspend" \in Scopes /\ "client" \in Scopes
BY DEF Steps, Scopes

\* The expiry given to a session is a number, within the absolute lifetime.
LEMMA ExpiryType ==
    ASSUME NEW t \in Nat, NEW ttl \in Ttls \cup {0}, NEW start \in Nat
    PROVE  /\ capped_expiry(t, ttl, start) \in Int
           /\ capped_expiry(t, ttl, start) <= start + MaxLifetime
BY SessionsAssumption DEF capped_expiry, MinOf

LEMMA OptId == \A s \in SessionIds : s \in Opt(SessionIds)
BY DEF Opt

\* The requests the handlers start from are well typed.
LEMMA SignInRequestType ==
    ASSUME TypeOK, NEW u \in Users, NEW c \in Opt(Clients), NEW o \in Origins,
           NEW t \in Ttls, NEW n \in SessionIds
    PROVE  /\ SignInRequest(u, c, o, t, n) \in Request
           /\ SignInRequest(u, c, o, t, n).pc = "signIn"
           /\ SignInRequest(u, c, o, t, n).new = n
           /\ SignInRequest(u, c, o, t, n).user = u
<1>1. now \in Nat /\ u \in Opt(Users) /\ o \in Opt(Origins) /\ n \in Opt(SessionIds)
  BY DEF TypeOK, Opt
<1> QED
  BY <1>1, Names, IdleType DEF SignInRequest, Request

LEMMA RotationRequestType ==
    ASSUME TypeOK, NEW s \in rows, NEW o \in Origins, NEW n \in SessionIds
    PROVE  /\ RotationRequest(s, o, n) \in Request
           /\ RotationRequest(s, o, n).pc = "user"
           /\ RotationRequest(s, o, n).sess = s
           /\ RotationRequest(s, o, n).new = n
           /\ RotationRequest(s, o, n).user = session[s].user
<1>1. /\ s \in Opt(SessionIds) /\ o \in Opt(Origins) /\ n \in Opt(SessionIds)
      /\ session[s] \in Row
  BY DEF TypeOK, Opt
<1>2. /\ session[s].user \in Opt(Users) /\ session[s].client \in Opt(Clients)
      /\ session[s].ttl \in Ttls \cup {0}
  BY <1>1 DEF Row
<1> QED
  BY <1>1, <1>2, Names, IdleType DEF RotationRequest, Request

LEMMA ReplayRequestType ==
    ASSUME TypeOK, NEW s \in rows, NEW o \in Opt(Origins)
    PROVE  /\ ReplayRequest(s, o) \in Request
           /\ ReplayRequest(s, o).pc = "familySnapshot"
           /\ ReplayRequest(s, o).sess = s
           /\ ReplayRequest(s, o).new = None
<1>1. s \in Opt(SessionIds)
  BY DEF TypeOK, Opt
<1> QED
  BY <1>1, Names, IdleType DEF ReplayRequest, Request

LEMMA RevocationRequestType ==
    ASSUME NEW scope \in Scopes, NEW u \in Opt(Users), NEW c \in Opt(Clients),
           NEW s \in Opt(SessionIds), NEW t \in Nat
    PROVE  /\ RevocationRequest(scope, u, c, s, t) \in Request
           /\ RevocationRequest(scope, u, c, s, t).pc = "snapshot"
           /\ RevocationRequest(scope, u, c, s, t).new = None
<1>1. "snapshot" \in Steps /\ scope \in Opt(Scopes)
  BY Names DEF Opt
<1>2. RevocationRequest(scope, u, c, s, t) \in Request
  BY <1>1, IdleType DEF RevocationRequest, Request
<1>3. RevocationRequest(scope, u, c, s, t).pc = "snapshot"
  BY <1>1, IdleType DEF RevocationRequest, Request
<1>4. RevocationRequest(scope, u, c, s, t).new = None
  BY <1>1, IdleType DEF RevocationRequest, Request
<1> QED
  BY <1>2, <1>3, <1>4

\* A step of a running handler keeps its request well typed.
LEMMA GotoType ==
    ASSUME NEW q \in Request, NEW step \in Steps, NEW x, x = [q EXCEPT !.pc = step]
    PROVE  /\ x \in Request
           /\ x.pc = step /\ x.sess = q.sess /\ x.new = q.new
           /\ x.expires = q.expires /\ x.user = q.user
BY DEF Request

LEMMA ApplyingType ==
    ASSUME NEW q \in Request, NEW step \in Steps, NEW found \in SUBSET SessionIds
    PROVE  /\ Applying(q, step, found) \in Request
           /\ Applying(q, step, found).pc = step
           /\ Applying(q, step, found).sess = q.sess
           /\ Applying(q, step, found).new = q.new
           /\ Applying(q, step, found).snap = found
BY DEF Applying, Request

\* Replacing the state of one handler keeps the others.
LEMMA OneRequest ==
    ASSUME TypeOK, NEW r \in Reqs, NEW x \in Request, req' = [req EXCEPT ![r] = x],
           rows \subseteq rows', RequestOK(x, rows')
    PROVE  /\ req' \in [Reqs -> Request]
           /\ \A p \in Reqs : RequestOK(req'[p], rows')
BY DEF TypeOK, RequestOK

-----------------------------------------------------------------------------
(***************************************************************************)
(* Type correctness                                                        *)
(***************************************************************************)
\* Every step keeps the state well typed.
LEMMA TypeStep == TypeOK /\ [Next]_vars => TypeOK'
<1> SUFFICES ASSUME TypeOK, [Next]_vars PROVE TypeOK'
  OBVIOUS
<1> USE DEF RotationSteps, InsertSteps
<1>0. ASSUME NEW r \in Reqs, Finish(r), rows \subseteq rows'
      PROVE  req' \in [Reqs -> Request] /\ \A p \in Reqs : RequestOK(req'[p], rows')
  BY <1>0, IdleType, OneRequest DEF Finish, RequestOK
<1>1. ASSUME NEW r \in Reqs, SignInBegin(r) PROVE TypeOK'
  <2>1. PICK u \in Users, c \in Opt(Clients), o \in Origins, t \in Ttls, n \in FreshIds :
          /\ status[u] = "active"
          /\ req' = [req EXCEPT ![r] = SignInRequest(u, c, o, t, n)]
    BY <1>1, SessionsAssumption DEF SignInBegin, Opt
  <2>2. /\ SignInRequest(u, c, o, t, n) \in Request
        /\ RequestOK(SignInRequest(u, c, o, t, n), rows)
    BY SignInRequestType DEF FreshIds, RequestOK
  <2> QED
    BY <1>1, <2>1, <2>2, OneRequest DEF SignInBegin, TypeOK
<1>2. ASSUME NEW r \in Reqs, SignInCommit(r) PROVE TypeOK'
  <2>1. req[r] \in Request /\ req[r].begun \in Nat /\ req[r].ttl \in Ttls \cup {0}
    BY DEF Request, TypeOK
  <2>2. req[r].new \in SessionIds /\ req[r].user \in Users
    BY <1>2 DEF SignInCommit, RequestOK, TypeOK
  <2>3. PICK t \in req[r].begun .. now :
          session' = [session EXCEPT ![req[r].new] =
              NewRow(req[r], t, req[r].new, t, capped_expiry(t, req[r].ttl, t))]
    BY <1>2 DEF SignInCommit
  <2>4. t \in Nat
    BY <2>1 DEF TypeOK
  <2>5. PICK e \in Int : e = capped_expiry(t, req[r].ttl, t)
    BY <2>1, <2>4, ExpiryType
  <2>6. PICK x : x = NewRow(req[r], t, req[r].new, t, e)
    OBVIOUS
  <2>7. x \in Row /\ x.user = req[r].user /\ x.family = req[r].new
    <3>1. PICK q \in Request, n \in SessionIds : q = req[r] /\ n = req[r].new
      BY <2>1, <2>2
    <3>2. x = NewRow(q, t, n, t, e)
      BY <2>6, <3>1
    <3>3. x \in Row /\ x.user = q.user /\ x.family = n
      BY <2>4, <3>2, NoRowType, OptId DEF NewRow, Row, Request
    <3> QED
      BY <3>1, <3>3
  <2> QED
    BY <1>2, <1>0, <2>2, <2>3, <2>5, <2>6, <2>7 DEF SignInCommit, TypeOK
<1>3. ASSUME NEW r \in Reqs, RefreshRead(r) PROVE TypeOK'
  <2>1. CASE \E s \in rows, o \in Origins, n \in FreshIds :
               req' = [req EXCEPT ![r] = RotationRequest(s, o, n)]
    <3>1. PICK s \in rows, o \in Origins, n \in FreshIds :
            req' = [req EXCEPT ![r] = RotationRequest(s, o, n)]
      BY <2>1
    <3>2. RotationRequest(s, o, n) \in Request /\ RequestOK(RotationRequest(s, o, n), rows)
      BY RotationRequestType DEF FreshIds, RequestOK, TypeOK
    <3> QED
      BY <1>3, <3>1, <3>2, OneRequest DEF RefreshRead, TypeOK
  <2>2. CASE \E s \in rows, o \in Origins : DetectReplay(r, s, o)
    <3>1. PICK s \in rows, o \in Origins : req' = [req EXCEPT ![r] = ReplayRequest(s, o)]
      BY <2>2 DEF DetectReplay
    <3>2. ReplayRequest(s, o) \in Request /\ RequestOK(ReplayRequest(s, o), rows)
      BY ReplayRequestType DEF RequestOK, Opt
    <3> QED
      BY <1>3, <3>1, <3>2, OneRequest DEF RefreshRead, TypeOK
  <2> QED
    BY <1>3, <2>1, <2>2 DEF RefreshRead
<1>4. ASSUME NEW r \in Reqs, RefreshUser(r) PROVE TypeOK'
  <2>1. req[r] \in Request /\ req[r].ttl \in Ttls \cup {0}
    BY DEF Request, TypeOK
  <2>2. RequestOK(req[r], rows) /\ req[r].pc = "user" /\ req[r].sess \in rows
    BY <1>4 DEF RefreshUser, RequestOK, TypeOK
  <2>3. session[req[r].sess].familyCreated \in Nat /\ now \in Nat
    BY <2>2 DEF Row, TypeOK
  <2>4. PICK e \in Int : e = capped_expiry(now, req[r].ttl, session[req[r].sess].familyCreated)
    BY <2>1, <2>3, ExpiryType
  <2>5. PICK x : x = [req[r] EXCEPT !.pc = "lock", !.begun = now, !.expires = e]
    OBVIOUS
  <2>6. x \in Request /\ x.pc = "lock" /\ x.sess = req[r].sess /\ x.new = req[r].new
          /\ x.user = req[r].user
    <3>1. PICK q \in Request, t \in Nat : q = req[r] /\ t = now
      BY <2>1, <2>3
    <3>2. x = [q EXCEPT !.pc = "lock", !.begun = t, !.expires = e]
      BY <2>5, <3>1
    <3>3. x \in Request /\ x.pc = "lock" /\ x.sess = q.sess /\ x.new = q.new /\ x.user = q.user
      BY <3>2, Names DEF Request
    <3> QED
      BY <3>1, <3>3
  <2>7. RequestOK(x, rows)
    BY <2>2, <2>6 DEF RequestOK
  <2> QED
    BY <1>4, <1>0, <2>4, <2>5, <2>6, <2>7, OneRequest DEF RefreshUser, TypeOK
<1>6. ASSUME NEW r \in Reqs, RotateLock(r) PROVE TypeOK'
  <2>1. PICK step \in {"lost", "rotate"} : Goto(r, step)
    BY <1>6 DEF RotateLock
  <2>2. PICK x : x = [req[r] EXCEPT !.pc = step]
    OBVIOUS
  <2>3. x \in Request /\ x.pc = step /\ x.sess = req[r].sess /\ x.new = req[r].new
          /\ x.user = req[r].user
    BY <2>2, GotoType, Names DEF TypeOK
  <2>4. RequestOK(x, rows)
    BY <1>6, <2>3 DEF RotateLock, RequestOK, TypeOK
  <2> QED
    BY <1>6, <2>1, <2>2, <2>3, <2>4, OneRequest DEF RotateLock, Goto, TypeOK
<1>7. ASSUME NEW r \in Reqs, RotateCommit(r) PROVE TypeOK'
  <2>1. req[r] \in Request /\ req[r].begun \in Nat /\ req[r].expires \in Int
    BY DEF Request, TypeOK
  <2>2. req[r].sess \in rows /\ req[r].new \in SessionIds /\ req[r].user \in Users
    BY <1>7 DEF RotateCommit, RequestOK, TypeOK
  <2>3. /\ session[req[r].sess].familyCreated \in Nat
        /\ session[req[r].sess].family \in rows
    BY <2>2 DEF Row, TypeOK
  <2>4. PICK old : old = [session[req[r].sess] EXCEPT !.revoked = TRUE,
                              !.rotatedAt = req[r].begun, !.replacedBy = req[r].new]
    OBVIOUS
  <2>5. /\ old \in Row
        /\ old.user = session[req[r].sess].user
        /\ old.family = session[req[r].sess].family
    <3>1. session[req[r].sess] \in Row /\ req[r].new \in Opt(SessionIds)
      BY <2>2 DEF Opt, TypeOK
    <3> QED
      BY <2>1, <2>4, <3>1 DEF Row
  <2>6. PICK new : new = NewRow(req[r], req[r].begun, session[req[r].sess].family,
                                session[req[r].sess].familyCreated, req[r].expires)
    OBVIOUS
  <2>a. /\ new \in Row
        /\ new.user = req[r].user
        /\ new.family = session[req[r].sess].family
    <3>1. PICK q \in Request, t \in Nat, f \in SessionIds, start \in Nat, e \in Int :
            /\ q = req[r] /\ t = req[r].begun /\ f = session[req[r].sess].family
            /\ start = session[req[r].sess].familyCreated /\ e = req[r].expires
      BY <2>1, <2>3 DEF TypeOK
    <3>2. new = NewRow(q, t, f, start, e)
      BY <2>6, <3>1
    <3>3. new \in Row /\ new.user = q.user /\ new.family = f
      BY <3>2, NoRowType, OptId DEF NewRow, Row, Request
    <3> QED
      BY <3>1, <3>3
  <2>7. CASE /\ rows' = rows \cup {req[r].new}
             /\ session' = [session EXCEPT ![req[r].new] = new, ![req[r].sess] = old]
    BY <1>7, <1>0, <2>2, <2>3, <2>5, <2>a, <2>7 DEF RotateCommit, TypeOK
  <2>8. CASE UNCHANGED <<rows, session>>
    BY <1>7, <1>0, <2>8 DEF RotateCommit, TypeOK
  <2> QED
    BY <1>7, <2>4, <2>6, <2>7, <2>8 DEF RotateCommit
<1>8. ASSUME NEW r \in Reqs, RefreshLost(r) PROVE TypeOK'
  <2>1. req[r].sess \in rows /\ req[r].origin \in Opt(Origins)
    BY <1>8 DEF RefreshLost, Request, RequestOK, TypeOK
  <2>2. CASE Finish(r)
    BY <1>8, <1>0, <2>2 DEF RefreshLost, TypeOK
  <2>3. CASE DetectReplay(r, req[r].sess, req[r].origin)
    BY <1>8, <2>1, <2>3, ReplayRequestType, OneRequest
       DEF RefreshLost, DetectReplay, RequestOK, TypeOK
  <2> QED
    BY <1>8, <2>2, <2>3 DEF RefreshLost
<1>9. ASSUME NEW r \in Reqs, NEW step \in {"familyApply", "apply"}, NEW found \in SUBSET rows,
             rows' = rows, step = "familyApply" => req[r].sess \in rows,
             req' = [req EXCEPT ![r] = Applying(req[r], step, found)]
      PROVE  req' \in [Reqs -> Request] /\ \A p \in Reqs : RequestOK(req'[p], rows')
  <2>1. /\ Applying(req[r], step, found) \in Request
        /\ Applying(req[r], step, found).pc = step
        /\ Applying(req[r], step, found).sess = req[r].sess
    BY ApplyingType, Names DEF TypeOK
  <2>2. RequestOK(Applying(req[r], step, found), rows)
    BY <1>9, <2>1 DEF RequestOK
  <2> QED
    BY <1>9, <2>1, <2>2, OneRequest
<1>10. ASSUME NEW r \in Reqs, FamilySnapshot(r) PROVE TypeOK'
  <2>1. req[r].sess \in rows
    BY <1>10 DEF FamilySnapshot, RequestOK, TypeOK
  <2>2. PICK found \in SUBSET rows :
          req' = [req EXCEPT ![r] = Applying(req[r], "familyApply", found)]
    BY <1>10 DEF FamilySnapshot, Family
  <2> QED
    BY <1>10, <1>9, <2>1, <2>2 DEF FamilySnapshot, TypeOK
<1>11. ASSUME NEW r \in Reqs, FamilyApply(r) \/ RevokeApply(r) PROVE TypeOK'
  <2>1. \A s \in SessionIds :
          /\ [session[s] EXCEPT !.revoked = TRUE, !.compromised = TRUE] \in Row
          /\ [session[s] EXCEPT !.revoked = TRUE, !.compromised = TRUE].user = session[s].user
          /\ [session[s] EXCEPT !.revoked = TRUE, !.compromised = TRUE].family = session[s].family
          /\ [session[s] EXCEPT !.revoked = TRUE] \in Row
          /\ [session[s] EXCEPT !.revoked = TRUE].user = session[s].user
          /\ [session[s] EXCEPT !.revoked = TRUE].family = session[s].family
    BY DEF Row, TypeOK
  <2>2. CASE FamilyApply(r)
    <3>1. /\ session' \in [SessionIds -> Row]
          /\ \A s \in SessionIds : /\ session'[s].user = session[s].user
                                   /\ session'[s].family = session[s].family
      BY <2>1, <2>2 DEF FamilyApply, TypeOK
    <3>2. rows' = rows /\ now' = now /\ status' = status /\ Finish(r)
      BY <2>2 DEF FamilyApply
    <3> QED
      BY <1>0, <3>1, <3>2 DEF TypeOK
  <2>3. CASE RevokeApply(r)
    <3>1. /\ session' \in [SessionIds -> Row]
          /\ \A s \in SessionIds : /\ session'[s].user = session[s].user
                                   /\ session'[s].family = session[s].family
      BY <2>1, <2>3 DEF RevokeApply, TypeOK
    <3> QED
      BY <2>3, <1>0, <3>1 DEF RevokeApply, TypeOK
  <2> QED
    BY <1>11, <2>2, <2>3
<1>12. ASSUME NEW r \in Reqs, NEW scope \in Scopes, NEW u \in Opt(Users),
              NEW c \in Opt(Clients), NEW s \in Opt(SessionIds), NEW t \in Nat,
              req' = [req EXCEPT ![r] = RevocationRequest(scope, u, c, s, t)],
              UNCHANGED <<now, status, rows, session>>
       PROVE  TypeOK'
  <2>1. /\ RevocationRequest(scope, u, c, s, t) \in Request
        /\ RequestOK(RevocationRequest(scope, u, c, s, t), rows)
    BY RevocationRequestType DEF RequestOK
  <2> QED
    BY <1>12, <2>1, OneRequest DEF TypeOK
<1>13. ASSUME NEW r \in Reqs, RevokeOneBegin(r) \/ RevokeUserBegin(r) \/ RevokeClientBegin(r)
       PROVE  TypeOK'
  <2>1. CASE RevokeOneBegin(r)
    BY <2>1, <1>12, Names DEF RevokeOneBegin, Opt, TypeOK
  <2>2. CASE RevokeUserBegin(r)
    <3>1. PICK u \in Users, scope \in {"user", "others", "suspend"}, keep \in Opt(rows) :
            req' = [req EXCEPT ![r] = RevocationRequest(scope, u, None, keep, now)]
      BY <2>2 DEF RevokeUserBegin
    <3>2. /\ scope \in Scopes /\ u \in Opt(Users) /\ None \in Opt(Clients)
          /\ keep \in Opt(SessionIds) /\ now \in Nat
      BY Names DEF Opt, TypeOK
    <3> QED
      BY <2>2, <1>12, <3>1, <3>2 DEF RevokeUserBegin
  <2>3. CASE RevokeClientBegin(r)
    BY <2>3, <1>12, Names DEF RevokeClientBegin, Opt, TypeOK
  <2> QED
    BY <1>13, <2>1, <2>2, <2>3
<1>14. ASSUME NEW r \in Reqs, RevokeSnapshot(r) PROVE TypeOK'
  <2>1. Selected(req[r]) \in SUBSET rows
    BY DEF Selected
  <2>2. CASE req' = [req EXCEPT ![r] = Applying(req[r], "apply", Selected(req[r]))]
    BY <1>14, <1>9, <2>1, <2>2 DEF RevokeSnapshot, TypeOK
  <2>3. CASE Finish(r)
    BY <1>14, <1>0, <2>3 DEF RevokeSnapshot, TypeOK
  <2> QED
    BY <1>14, <2>2, <2>3 DEF RevokeSnapshot
<1>15. ASSUME NEW r \in Reqs, Abort(r) PROVE TypeOK'
  BY <1>15, <1>0 DEF Abort, TypeOK
<1>16. CASE Reactivate
  BY <1>16 DEF Reactivate, TypeOK
<1>17. CASE Tick
  BY <1>17 DEF Tick, TypeOK
<1>18. CASE UNCHANGED vars
  BY <1>18 DEF vars, TypeOK
<1> QED
  BY <1>1, <1>2, <1>3, <1>4, <1>6, <1>7, <1>8, <1>10, <1>11, <1>13, <1>14, <1>15,
     <1>16, <1>17, <1>18 DEF Next, Start, Progress

\* Every state the handlers reach is well typed: rows belong to accounts and
\* to families that exist, and a refresh under way holds an existing session.
THEOREM TypeCorrect == Spec => []TypeOK
<1>1. Init => TypeOK
  BY IdleType, NoRowType DEF Init, TypeOK, RequestOK, RotationSteps, InsertSteps
<1> QED
  BY <1>1, TypeStep, PTL DEF Spec

-----------------------------------------------------------------------------
(***************************************************************************)
(* One live session per family                                             *)
(***************************************************************************)
\* Ids reserved for insertions under way are fresh and distinct.
ReservedIds ==
    /\ \A r \in Reqs : req[r].new \notin rows
    /\ \A r, q \in Reqs : r # q /\ req[r].new # None => req[r].new # req[q].new

\* A rotation that holds a row lock is alone to hold it, and the row is live.
LockHolders ==
    /\ \A r \in Reqs : req[r].pc = "rotate" => ~session[req[r].sess].revoked
    /\ \A r, q \in Reqs :
        r # q /\ req[r].pc = "rotate" /\ req[q].pc = "rotate" => req[r].sess # req[q].sess

\* The inductive invariant.
IInv ==
    /\ TypeOK
    /\ ReservedIds
    /\ LockHolders
    /\ OnlySpentTokensCondemn
    /\ OneLiveSessionPerFamily

\* A step that writes no row keeps the invariant when the handler takes a lock
\* only on a live row nobody else holds.
LEMMA QuietStep ==
    ASSUME IInv, TypeOK', UNCHANGED <<rows, session>>,
           NEW r \in Reqs, NEW x \in Request, req' = [req EXCEPT ![r] = x],
           x.new = None \/ x.new = req[r].new \/ x.new \in FreshIds,
           x.pc = "rotate" => ~session[x.sess].revoked /\ ~LockedByOther(r, x.sess),
           x.pc \in {"lost", "familySnapshot", "familyApply"} => session[x.sess].revoked
    PROVE  IInv'
<1>1. \A p \in Reqs : req'[p] = IF p = r THEN x ELSE req[p]
  BY DEF IInv, TypeOK
<1>2. None \notin rows
  BY SessionsAssumption DEF IInv, TypeOK
<1>3. ReservedIds'
  BY <1>1, <1>2 DEF IInv, ReservedIds, FreshIds
<1>4. LockHolders'
  BY <1>1 DEF IInv, LockHolders, LockedByOther
<1>5. OnlySpentTokensCondemn'
  BY <1>1 DEF IInv, OnlySpentTokensCondemn
<1>6. OneLiveSessionPerFamily'
  BY DEF IInv, OneLiveSessionPerFamily, Live
<1> QED
  BY <1>3, <1>4, <1>5, <1>6 DEF IInv

\* A statement that only revokes rows no rotation holds keeps the invariant.
LEMMA RevokingStep ==
    ASSUME IInv, TypeOK', rows' = rows, NEW r \in Reqs, Finish(r),
           \A s \in SessionIds :
              /\ session'[s].family = session[s].family
              /\ session[s].revoked => session'[s].revoked
              /\ session'[s].revoked # session[s].revoked => ~LockedByOther(r, s)
    PROVE  IInv'
<1>1. \A p \in Reqs : req'[p] = IF p = r THEN Idle ELSE req[p]
  BY DEF IInv, TypeOK, Finish
<1>2. None \notin rows
  BY SessionsAssumption DEF IInv, TypeOK
<1>3. ReservedIds'
  BY <1>1, <1>2, IdleType DEF IInv, ReservedIds
<1>4. \A p \in Reqs : req[p].pc \in RotationSteps => req[p].sess \in rows /\ req[p].sess \in SessionIds
  BY DEF IInv, TypeOK, RequestOK
<1>a. \A s \in SessionIds : session[s].revoked \in BOOLEAN /\ session'[s].revoked \in BOOLEAN
  BY DEF IInv, TypeOK, Row
<1>5. LockHolders'
  BY <1>1, <1>4, <1>a, IdleType DEF IInv, LockHolders, LockedByOther, RotationSteps
<1>6. OnlySpentTokensCondemn'
  BY <1>1, <1>4, IdleType DEF IInv, OnlySpentTokensCondemn, RotationSteps
<1>7. OneLiveSessionPerFamily'
  BY DEF IInv, TypeOK, OneLiveSessionPerFamily, Live
<1> QED
  BY <1>3, <1>5, <1>6, <1>7 DEF IInv

\* What a committed sign-in writes: one live row, in a family of its own.
LEMMA SignInWrites ==
    ASSUME TypeOK, NEW r \in Reqs, SignInCommit(r)
    PROVE  /\ rows' = rows \cup {req[r].new} /\ Finish(r)
           /\ req[r].new \in SessionIds
           /\ session'[req[r].new].family = req[r].new
           /\ ~session'[req[r].new].revoked
           /\ \A s \in SessionIds : s # req[r].new => session'[s] = session[s]
<1>1. req[r].new \in SessionIds
  BY DEF SignInCommit, RequestOK, InsertSteps, TypeOK
<1>2. PICK t \in req[r].begun .. now :
        session' = [session EXCEPT ![req[r].new] =
            NewRow(req[r], t, req[r].new, t, capped_expiry(t, req[r].ttl, t))]
  BY DEF SignInCommit
<1>3. PICK e : e = capped_expiry(t, req[r].ttl, t)
  OBVIOUS
<1>4. PICK x : x = NewRow(req[r], t, req[r].new, t, e)
  OBVIOUS
<1>5. x.family = req[r].new /\ ~x.revoked
  BY <1>1, <1>4, NoRowType, OptId DEF NewRow, Row
<1> QED
  BY <1>1, <1>2, <1>3, <1>4, <1>5 DEF SignInCommit, TypeOK

\* What a committed rotation writes: the old row is revoked and linked to a
\* live row of the same family.
LEMMA RotationWrites ==
    ASSUME TypeOK, NEW r \in Reqs, RotateCommit(r), ~UNCHANGED <<rows, session>>
    PROVE  /\ rows' = rows \cup {req[r].new} /\ Finish(r)
           /\ req[r].new \in SessionIds /\ req[r].sess \in rows
           /\ req[r].new # req[r].sess =>
                /\ session'[req[r].new].family = session[req[r].sess].family
                /\ ~session'[req[r].new].revoked
           /\ session'[req[r].sess].family = session[req[r].sess].family
           /\ session'[req[r].sess].revoked
           /\ \A s \in SessionIds \ {req[r].new, req[r].sess} : session'[s] = session[s]
<1>1. req[r].new \in SessionIds /\ req[r].sess \in rows /\ req[r].sess \in SessionIds
  BY DEF RotateCommit, RequestOK, InsertSteps, RotationSteps, TypeOK
<1>2. PICK new : new = NewRow(req[r], req[r].begun, session[req[r].sess].family,
                              session[req[r].sess].familyCreated, req[r].expires)
  OBVIOUS
<1>3. new.family = session[req[r].sess].family /\ ~new.revoked
  BY <1>1, <1>2, NoRowType DEF NewRow, Row
<1>4. /\ rows' = rows \cup {req[r].new} /\ Finish(r)
      /\ session' = [session EXCEPT ![req[r].new] = new,
            ![req[r].sess] = [@ EXCEPT !.revoked = TRUE, !.rotatedAt = req[r].begun,
                                       !.replacedBy = req[r].new]]
  BY <1>2 DEF RotateCommit
<1>5. PICK old : old = [session[req[r].sess] EXCEPT !.revoked = TRUE,
                            !.rotatedAt = req[r].begun, !.replacedBy = req[r].new]
  OBVIOUS
<1>6. old.family = session[req[r].sess].family /\ old.revoked
  BY <1>1, <1>5 DEF Row, TypeOK
<1>7. CASE req[r].new # req[r].sess
  <2>1. session' = [session EXCEPT ![req[r].new] = new, ![req[r].sess] = old]
    BY <1>4, <1>5, <1>7 DEF TypeOK
  <2> QED
    BY <1>1, <1>3, <1>4, <1>6, <1>7, <2>1 DEF TypeOK
<1>8. CASE req[r].new = req[r].sess
  BY <1>1, <1>3, <1>4, <1>8 DEF Row, TypeOK
<1> QED
  BY <1>7, <1>8

\* Every step keeps the inductive invariant.
LEMMA InvStep == IInv /\ [Next]_vars => IInv'
<1> SUFFICES ASSUME IInv, [Next]_vars PROVE IInv'
  OBVIOUS
<1>1. TypeOK /\ TypeOK'
  BY TypeStep DEF IInv
<1>2. None \notin SessionIds
  BY SessionsAssumption
<1>3. ASSUME NEW r \in Reqs, Finish(r), UNCHANGED <<rows, session>> PROVE IInv'
  BY <1>1, <1>3, IdleType, QuietStep DEF Finish
<1>4. ASSUME NEW r \in Reqs, SignInBegin(r) PROVE IInv'
  <2>1. PICK u \in Users, c \in Opt(Clients), o \in Origins, t \in Ttls, n \in FreshIds :
          /\ status[u] = "active"
          /\ req' = [req EXCEPT ![r] = SignInRequest(u, c, o, t, n)]
    BY <1>4, SessionsAssumption DEF SignInBegin, Opt
  <2>2. /\ SignInRequest(u, c, o, t, n) \in Request
        /\ SignInRequest(u, c, o, t, n).pc = "signIn"
        /\ SignInRequest(u, c, o, t, n).new = n
    BY <1>1, SignInRequestType DEF FreshIds
  <2> QED
    BY <1>1, <1>4, <2>1, <2>2, QuietStep DEF SignInBegin
<1>5. ASSUME NEW r \in Reqs, SignInCommit(r) PROVE IInv'
  <2> DEFINE n == req[r].new
  <2>1. /\ rows' = rows \cup {n} /\ Finish(r)
        /\ n \in SessionIds
        /\ session'[n].family = n
        /\ ~session'[n].revoked
        /\ \A s \in SessionIds : s # n => session'[s] = session[s]
    BY <1>1, <1>5, SignInWrites
  <2>2. n \notin rows /\ \A s \in rows : s \in SessionIds /\ session[s].family \in rows
    BY <1>1 DEF IInv, ReservedIds, TypeOK
  <2>3. \A p \in Reqs : req'[p] = IF p = r THEN Idle ELSE req[p]
    BY <1>1, <2>1 DEF Finish, TypeOK
  <2>4. ReservedIds'
    BY <1>2, <2>1, <2>2, <2>3, IdleType DEF IInv, ReservedIds
  <2>5. \A p \in Reqs : req[p].pc \in RotationSteps => req[p].sess \in rows
    BY <1>1 DEF RequestOK, TypeOK
  <2>6. LockHolders'
    BY <2>1, <2>2, <2>3, <2>5, IdleType DEF IInv, LockHolders, RotationSteps
  <2>7. OnlySpentTokensCondemn'
    BY <2>1, <2>2, <2>3, <2>5, IdleType DEF IInv, OnlySpentTokensCondemn, RotationSteps
  <2>8. OneLiveSessionPerFamily'
    BY <2>1, <2>2 DEF IInv, OneLiveSessionPerFamily, Live
  <2> QED
    BY <1>1, <2>4, <2>6, <2>7, <2>8 DEF IInv
<1>6. ASSUME NEW r \in Reqs, RefreshRead(r) PROVE IInv'
  <2>1. CASE \E s \in rows, o \in Origins, n \in FreshIds :
               req' = [req EXCEPT ![r] = RotationRequest(s, o, n)]
    <3>1. PICK s \in rows, o \in Origins, n \in FreshIds :
            req' = [req EXCEPT ![r] = RotationRequest(s, o, n)]
      BY <2>1
    <3>2. /\ RotationRequest(s, o, n) \in Request
          /\ RotationRequest(s, o, n).pc = "user"
          /\ RotationRequest(s, o, n).new = n
      BY <1>1, RotationRequestType DEF FreshIds
    <3> QED
      BY <1>1, <1>6, <3>1, <3>2, QuietStep DEF RefreshRead
  <2>2. CASE \E s \in rows, o \in Origins : session[s].revoked /\ DetectReplay(r, s, o)
    <3>1. PICK s \in rows, o \in Origins :
            /\ session[s].revoked
            /\ req' = [req EXCEPT ![r] = ReplayRequest(s, o)]
      BY <2>2 DEF DetectReplay
    <3>2. /\ ReplayRequest(s, o) \in Request
          /\ ReplayRequest(s, o).pc = "familySnapshot"
          /\ ReplayRequest(s, o).sess = s
          /\ ReplayRequest(s, o).new = None
      BY <1>1, ReplayRequestType DEF Opt
    <3> QED
      BY <1>1, <1>6, <3>1, <3>2, QuietStep DEF RefreshRead
  <2>3. \A s \in rows, o \in Origins :
          refresh_verdict(s, o) \in {"ConcurrentRefresh", "Replay"} => session[s].revoked
    BY DEF refresh_verdict
  <2> QED
    BY <1>6, <2>1, <2>2, <2>3 DEF RefreshRead
<1>7. ASSUME NEW r \in Reqs, RefreshUser(r) PROVE IInv'
  <2>1. CASE Finish(r)
    BY <1>3, <1>7, <2>1 DEF RefreshUser
  <2>2. CASE req' = [req EXCEPT ![r] = [req[r] EXCEPT !.pc = "lock", !.begun = now,
              !.expires = capped_expiry(now, req[r].ttl, session[req[r].sess].familyCreated)]]
    <3>1. PICK x : x = [req[r] EXCEPT !.pc = "lock", !.begun = now,
              !.expires = capped_expiry(now, req[r].ttl, session[req[r].sess].familyCreated)]
      OBVIOUS
    <3>2. req' = [req EXCEPT ![r] = x]
      BY <2>2, <3>1
    <3>3. x = req'[r] /\ x \in Request
      BY <1>1, <3>2 DEF TypeOK
    <3>4. x.pc = "lock" /\ x.new = req[r].new
      BY <1>1, <3>1 DEF TypeOK, Request
    <3> QED
      BY <1>1, <1>7, <3>2, <3>3, <3>4, QuietStep DEF RefreshUser
  <2> QED
    BY <1>7, <2>1, <2>2 DEF RefreshUser
<1>8. ASSUME NEW r \in Reqs, RotateLock(r) PROVE IInv'
  <2>1. PICK step \in {"lost", "rotate"} :
          /\ Goto(r, step)
          /\ step = "lost" => session[req[r].sess].revoked
          /\ step = "rotate" => ~session[req[r].sess].revoked
    BY <1>8 DEF RotateLock
  <2>2. PICK x : x = [req[r] EXCEPT !.pc = step]
    OBVIOUS
  <2>3. x \in Request /\ x.pc = step /\ x.sess = req[r].sess /\ x.new = req[r].new
    BY <1>1, <2>2, GotoType, Names DEF TypeOK
  <2> QED
    BY <1>1, <1>8, <2>1, <2>2, <2>3, QuietStep DEF RotateLock, Goto
<1>9. ASSUME NEW r \in Reqs, RotateCommit(r) PROVE IInv'
  <2>1. CASE UNCHANGED <<rows, session>>
    BY <1>3, <1>9, <2>1 DEF RotateCommit
  <2>2. CASE ~UNCHANGED <<rows, session>>
    <3> DEFINE n == req[r].new
               o == req[r].sess
    <3>1. n \notin rows /\ \A s \in rows : s \in SessionIds
      BY <1>1 DEF IInv, ReservedIds, TypeOK
    <3>2. /\ rows' = rows \cup {n} /\ Finish(r)
          /\ n \in SessionIds /\ o \in rows
          /\ session'[n].family = session[o].family
          /\ ~session'[n].revoked
          /\ session'[o].family = session[o].family
          /\ session'[o].revoked
          /\ \A s \in SessionIds \ {n, o} : session'[s] = session[s]
      BY <1>1, <1>9, <2>2, <3>1, RotationWrites
    <3>3. ~session[o].revoked /\ \A q \in Reqs \ {r} : req[q].pc = "rotate" => req[q].sess # o
      BY <1>9 DEF IInv, LockHolders, RotateCommit
    <3>4. \A p \in Reqs : req'[p] = IF p = r THEN Idle ELSE req[p]
      BY <1>1, <3>2 DEF Finish, TypeOK
    <3>5. ReservedIds'
      BY <1>2, <3>1, <3>2, <3>4, IdleType DEF IInv, ReservedIds
    <3>6. \A p \in Reqs : req[p].pc \in RotationSteps => req[p].sess \in rows
      BY <1>1 DEF RequestOK, TypeOK
    <3>7. LockHolders'
      BY <3>1, <3>2, <3>3, <3>4, <3>6, IdleType DEF IInv, LockHolders, RotationSteps
    <3>8. OnlySpentTokensCondemn'
      BY <3>1, <3>2, <3>4, <3>6, IdleType DEF IInv, OnlySpentTokensCondemn, RotationSteps
    <3>9. OneLiveSessionPerFamily'
      BY <3>1, <3>2, <3>3 DEF IInv, OneLiveSessionPerFamily, Live
    <3> QED
      BY <1>1, <3>5, <3>7, <3>8, <3>9 DEF IInv
  <2> QED
    BY <2>1, <2>2
<1>10. ASSUME NEW r \in Reqs, RefreshLost(r) PROVE IInv'
  <2>1. CASE Finish(r)
    BY <1>3, <1>10, <2>1 DEF RefreshLost
  <2>2. CASE DetectReplay(r, req[r].sess, req[r].origin)
    <3>1. /\ req[r].sess \in rows /\ req[r].origin \in Opt(Origins)
          /\ session[req[r].sess].revoked
      BY <1>1, <1>10 DEF RefreshLost, RequestOK, RotationSteps, TypeOK, Request, IInv,
                         OnlySpentTokensCondemn
    <3>2. /\ ReplayRequest(req[r].sess, req[r].origin) \in Request
          /\ ReplayRequest(req[r].sess, req[r].origin).pc = "familySnapshot"
          /\ ReplayRequest(req[r].sess, req[r].origin).sess = req[r].sess
          /\ ReplayRequest(req[r].sess, req[r].origin).new = None
      BY <1>1, <3>1, ReplayRequestType
    <3> QED
      BY <1>1, <1>10, <2>2, <3>1, <3>2, QuietStep DEF RefreshLost, DetectReplay
  <2> QED
    BY <1>10, <2>1, <2>2 DEF RefreshLost
<1>11. ASSUME NEW r \in Reqs, NEW step \in {"familyApply", "apply"}, NEW found \in SUBSET rows,
              UNCHANGED <<rows, session>>,
              step = "familyApply" => session[req[r].sess].revoked,
              req' = [req EXCEPT ![r] = Applying(req[r], step, found)]
       PROVE  IInv'
  <2>1. /\ Applying(req[r], step, found) \in Request
        /\ Applying(req[r], step, found).pc = step
        /\ Applying(req[r], step, found).sess = req[r].sess
        /\ Applying(req[r], step, found).new = req[r].new
    BY <1>1, ApplyingType, Names DEF TypeOK
  <2> QED
    BY <1>1, <1>11, <2>1, QuietStep
<1>12. ASSUME NEW r \in Reqs, FamilySnapshot(r) PROVE IInv'
  <2>1. session[req[r].sess].revoked
    BY <1>12 DEF FamilySnapshot, IInv, OnlySpentTokensCondemn
  <2>2. PICK found \in SUBSET rows :
          req' = [req EXCEPT ![r] = Applying(req[r], "familyApply", found)]
    BY <1>12 DEF FamilySnapshot, Family
  <2> QED
    BY <1>11, <1>12, <2>1, <2>2 DEF FamilySnapshot
<1>13. ASSUME NEW r \in Reqs, FamilyApply(r) PROVE IInv'
  <2>1. \A s \in SessionIds :
          /\ [session[s] EXCEPT !.revoked = TRUE, !.compromised = TRUE].family = session[s].family
          /\ [session[s] EXCEPT !.revoked = TRUE, !.compromised = TRUE].revoked
    BY <1>1 DEF Row, TypeOK
  <2>2. \A s \in SessionIds :
          /\ session'[s].family = session[s].family
          /\ session[s].revoked => session'[s].revoked
          /\ session'[s].revoked # session[s].revoked => ~LockedByOther(r, s)
    BY <1>13, <2>1 DEF FamilyApply
  <2>3. rows' = rows /\ Finish(r)
    BY <1>13 DEF FamilyApply
  <2> QED
    BY <1>1, <2>2, <2>3, RevokingStep
<1>14. ASSUME NEW r \in Reqs, NEW scope \in Scopes, NEW u \in Opt(Users),
              NEW c \in Opt(Clients), NEW s \in Opt(SessionIds), NEW t \in Nat,
              req' = [req EXCEPT ![r] = RevocationRequest(scope, u, c, s, t)],
              UNCHANGED <<rows, session>>
       PROVE  IInv'
  <2>1. /\ RevocationRequest(scope, u, c, s, t) \in Request
        /\ RevocationRequest(scope, u, c, s, t).pc = "snapshot"
        /\ RevocationRequest(scope, u, c, s, t).new = None
    BY RevocationRequestType
  <2> QED
    BY <1>1, <1>14, <2>1, QuietStep
<1>15. ASSUME NEW r \in Reqs, RevokeOneBegin(r) \/ RevokeUserBegin(r) \/ RevokeClientBegin(r)
       PROVE  IInv'
  <2>1. CASE RevokeOneBegin(r)
    BY <1>1, <1>14, <2>1, Names DEF RevokeOneBegin, Opt, TypeOK
  <2>2. CASE RevokeUserBegin(r)
    <3>1. PICK u \in Users, scope \in {"user", "others", "suspend"}, keep \in Opt(rows) :
            req' = [req EXCEPT ![r] = RevocationRequest(scope, u, None, keep, now)]
      BY <2>2 DEF RevokeUserBegin
    <3>2. /\ scope \in Scopes /\ u \in Opt(Users) /\ None \in Opt(Clients)
          /\ keep \in Opt(SessionIds) /\ now \in Nat
      BY <1>1, Names DEF Opt, TypeOK
    <3> QED
      BY <1>14, <2>2, <3>1, <3>2 DEF RevokeUserBegin
  <2>3. CASE RevokeClientBegin(r)
    BY <1>1, <1>14, <2>3, Names DEF RevokeClientBegin, Opt, TypeOK
  <2> QED
    BY <1>15, <2>1, <2>2, <2>3
<1>16. ASSUME NEW r \in Reqs, RevokeSnapshot(r) PROVE IInv'
  <2>1. Selected(req[r]) \in SUBSET rows
    BY DEF Selected
  <2>2. CASE req' = [req EXCEPT ![r] = Applying(req[r], "apply", Selected(req[r]))]
    BY <1>11, <1>16, <2>1, <2>2 DEF RevokeSnapshot
  <2>3. CASE Finish(r)
    BY <1>3, <1>16, <2>3 DEF RevokeSnapshot
  <2> QED
    BY <1>16, <2>2, <2>3 DEF RevokeSnapshot
<1>17. ASSUME NEW r \in Reqs, RevokeApply(r) PROVE IInv'
  <2>1. \A s \in SessionIds :
          /\ [session[s] EXCEPT !.revoked = TRUE].family = session[s].family
          /\ [session[s] EXCEPT !.revoked = TRUE].revoked
    BY <1>1 DEF Row, TypeOK
  <2>2. \A s \in SessionIds :
          /\ session'[s].family = session[s].family
          /\ session[s].revoked => session'[s].revoked
          /\ session'[s].revoked # session[s].revoked => ~LockedByOther(r, s)
    BY <1>17, <2>1 DEF RevokeApply
  <2>3. rows' = rows /\ Finish(r)
    BY <1>17 DEF RevokeApply
  <2> QED
    BY <1>1, <2>2, <2>3, RevokingStep
<1>18. ASSUME NEW r \in Reqs, Abort(r) PROVE IInv'
  BY <1>3, <1>18 DEF Abort
<1>19. CASE UNCHANGED <<rows, session, req>>
  BY <1>1, <1>19 DEF IInv, ReservedIds, LockHolders, OnlySpentTokensCondemn,
                     OneLiveSessionPerFamily, Live
<1> QED
  BY <1>4, <1>5, <1>6, <1>7, <1>8, <1>9, <1>10, <1>12, <1>13, <1>15, <1>16, <1>17, <1>18, <1>19
     DEF Next, Start, Progress, Reactivate, Tick, vars

LEMMA InvInit == Init => IInv
BY IdleType, NoRowType, SessionsAssumption
   DEF Init, IInv, TypeOK, RequestOK, RotationSteps, InsertSteps, ReservedIds, LockHolders,
       OnlySpentTokensCondemn, OneLiveSessionPerFamily, Live

\* However many handlers refresh, replay and revoke the tokens of a family at
\* once, at most one of its sessions can be refreshed.
THEOREM OneLiveSession == Spec => []OneLiveSessionPerFamily
<1>1. IInv => OneLiveSessionPerFamily
  BY DEF IInv
<1> QED
  BY <1>1, InvInit, InvStep, PTL DEF Spec

\* refresh_token condemns a family only over a token that was already spent.
THEOREM SpentTokensCondemn == Spec => []OnlySpentTokensCondemn
<1>1. IInv => OnlySpentTokensCondemn
  BY DEF IInv
<1> QED
  BY <1>1, InvInit, InvStep, PTL DEF Spec

-----------------------------------------------------------------------------
(***************************************************************************)
(* A dead family stays dead                                                *)
(***************************************************************************)
\* Rows stay in their families and stay revoked.
RowsOnlyEnd ==
    /\ rows' = rows
    /\ \A s \in rows : /\ session'[s].family = session[s].family
                       /\ session[s].revoked => session'[s].revoked

\* Only a sign-in and a rotation insert a row; every other step at most ends some.
LEMMA OtherStepsOnlyEnd ==
    ASSUME TypeOK, [Next]_vars, \A r \in Reqs : ~SignInCommit(r) /\ ~RotateCommit(r)
    PROVE  RowsOnlyEnd
<1>1. CASE UNCHANGED <<rows, session>>
  BY <1>1 DEF RowsOnlyEnd
<1>2. ASSUME NEW r \in Reqs, FamilyApply(r) PROVE RowsOnlyEnd
  <2>1. \A s \in SessionIds :
          /\ [session[s] EXCEPT !.revoked = TRUE, !.compromised = TRUE].family = session[s].family
          /\ [session[s] EXCEPT !.revoked = TRUE, !.compromised = TRUE].revoked
    BY DEF Row, TypeOK
  <2> QED
    BY <1>2, <2>1 DEF FamilyApply, RowsOnlyEnd, TypeOK
<1>3. ASSUME NEW r \in Reqs, RevokeApply(r) PROVE RowsOnlyEnd
  <2>1. \A s \in SessionIds :
          /\ [session[s] EXCEPT !.revoked = TRUE].family = session[s].family
          /\ [session[s] EXCEPT !.revoked = TRUE].revoked
    BY DEF Row, TypeOK
  <2> QED
    BY <1>3, <2>1 DEF RevokeApply, RowsOnlyEnd, TypeOK
<1>4. ASSUME NEW r \in Reqs, Start(r) \/ Progress(r) \/ Abort(r) PROVE RowsOnlyEnd
  BY <1>1, <1>2, <1>3, <1>4
     DEF Start, Progress, Abort, SignInBegin, RefreshRead, RevokeOneBegin, RevokeUserBegin,
         RevokeClientBegin, RefreshUser, RotateLock, RefreshLost, FamilySnapshot, RevokeSnapshot
<1>5. CASE Reactivate \/ Tick \/ UNCHANGED vars
  BY <1>1, <1>5 DEF Reactivate, Tick, vars
<1> QED
  BY <1>4, <1>5 DEF Next

\* No step brings a family without live sessions back: the row a rotation
\* replaces is live when it commits, and a sign-in opens a family of its own.
LEMMA DeadStep ==
    ASSUME IInv, [Next]_vars, NEW f \in rows, \A s \in Family(f) : session[s].revoked,
           NEW t \in Family(f)'
    PROVE  session'[t].revoked
<1>1. TypeOK /\ t \in rows' /\ session'[t].family = f
  BY DEF IInv, Family
<1>2. \A s \in rows : s \in SessionIds
  BY <1>1 DEF TypeOK
<1>3. ASSUME NEW r \in Reqs, SignInCommit(r) PROVE session'[t].revoked
  <2>1. req[r].new \notin rows
    BY DEF IInv, ReservedIds
  <2>2. /\ rows' = rows \cup {req[r].new}
        /\ session'[req[r].new].family = req[r].new
        /\ \A s \in SessionIds : s # req[r].new => session'[s] = session[s]
    BY <1>1, <1>3, SignInWrites
  <2>3. t \in rows /\ t # req[r].new
    BY <1>1, <2>1, <2>2
  <2> QED
    BY <1>1, <1>2, <2>2, <2>3 DEF Family
<1>4. ASSUME NEW r \in Reqs, RotateCommit(r), ~UNCHANGED <<rows, session>>
      PROVE  session'[t].revoked
  <2>1. req[r].new \notin rows /\ ~session[req[r].sess].revoked
    BY <1>4 DEF IInv, ReservedIds, LockHolders, RotateCommit
  <2>2. /\ rows' = rows \cup {req[r].new} /\ req[r].sess \in rows
        /\ req[r].new # req[r].sess =>
             session'[req[r].new].family = session[req[r].sess].family
        /\ session'[req[r].sess].revoked
        /\ \A s \in SessionIds \ {req[r].new, req[r].sess} : session'[s] = session[s]
    BY <1>1, <1>4, RotationWrites
  <2>3. session[req[r].sess].family # f
    BY <2>1, <2>2 DEF Family
  <2>4. t \in rows /\ t # req[r].new
    BY <1>1, <2>1, <2>2, <2>3
  <2> QED
    BY <1>1, <1>2, <2>2, <2>4 DEF Family
<1>5. CASE RowsOnlyEnd
  BY <1>1, <1>5 DEF RowsOnlyEnd, Family
<1>6. CASE UNCHANGED <<rows, session>>
  BY <1>1, <1>6 DEF Family
<1> QED
  BY <1>1, <1>3, <1>4, <1>5, <1>6, OtherStepsOnlyEnd

\* A family that was logged out, condemned or suspended away is never refreshed
\* back to life by a handler that read its token before.
THEOREM DeadFamily == Spec => DeadFamilyStaysDead
<1>1. IInv /\ [Next]_vars =>
        [\A f \in rows : (\A s \in Family(f) : session[s].revoked) =>
            \A s \in Family(f)' : session'[s].revoked]_vars
  BY DeadStep
<1> QED
  BY <1>1, InvInit, InvStep, PTL DEF Spec, DeadFamilyStaysDead

-----------------------------------------------------------------------------
(***************************************************************************)
(* The sessions implement token families                                   *)
(***************************************************************************)
\* The holder of a family is its live session, if it has one.
HolderIsLive ==
    /\ Holder = [f \in SessionIds |-> Holder[f]]
    /\ \A f \in SessionIds :
        /\ \A s \in Family(f) : Live(s) => Holder[f] = s
        /\ (\A s \in Family(f) : ~Live(s)) => Holder[f] = None

LEMMA HolderOf == IInv => HolderIsLive
<1> SUFFICES ASSUME IInv, NEW f \in SessionIds
             PROVE  /\ \A s \in Family(f) : Live(s) => Holder[f] = s
                    /\ (\A s \in Family(f) : ~Live(s)) => Holder[f] = None
  BY DEF HolderIsLive, Holder
<1>1. \A s, t \in Family(f) : Live(s) /\ Live(t) => s = t
  BY DEF IInv, OneLiveSessionPerFamily, Family
<1>2. Holder[f] = IF \E s \in Family(f) : Live(s)
                  THEN CHOOSE s \in Family(f) : Live(s) ELSE None
  BY DEF Holder
<1>3. ASSUME NEW s \in Family(f), Live(s) PROVE Holder[f] = s
  <2>1. (CHOOSE x \in Family(f) : Live(x)) \in Family(f)
        /\ Live(CHOOSE x \in Family(f) : Live(x))
    BY <1>3
  <2> QED
    BY <1>1, <1>2, <1>3, <2>1
<1> QED
  BY <1>2, <1>3

\* A step that inserts no row ends the families it leaves without a live session.
LEMMA EndingStep ==
    ASSUME IInv, IInv', HolderIsLive, HolderIsLive', RowsOnlyEnd
    PROVE  Families!End({f \in SessionIds : Holder[f] # None /\ Holder'[f] = None})
<1>1. ASSUME NEW f \in SessionIds, Holder'[f] # None PROVE Holder'[f] = Holder[f]
  <2>1. PICK s \in Family(f)' : Live(s)'
    BY <1>1 DEF HolderIsLive
  <2>2. Holder'[f] = s
    BY <2>1 DEF HolderIsLive
  <2>3. s \in Family(f) /\ Live(s)
    BY <2>1 DEF RowsOnlyEnd, Family, Live
  <2> QED
    BY <2>2, <2>3 DEF HolderIsLive
<1>2. Holder' = [f \in SessionIds |->
                    IF f \in {g \in SessionIds : Holder[g] # None /\ Holder'[g] = None}
                    THEN None ELSE Holder[f]]
  <2>1. Holder' = [f \in SessionIds |-> Holder'[f]]
    BY DEF HolderIsLive
  <2>2. \A f \in SessionIds : Holder'[f] =
                    IF f \in {g \in SessionIds : Holder[g] # None /\ Holder'[g] = None}
                    THEN None ELSE Holder[f]
    BY <1>1
  <2> QED
    BY <2>1, <2>2
<1> QED
  BY <1>2 DEF Families!End, RowsOnlyEnd

\* A step that inserts one live row n into the family f, all else in the other
\* families unchanged, gives f the holder n.
LEMMA InsertingStep ==
    ASSUME IInv, IInv', HolderIsLive, HolderIsLive',
           NEW f \in SessionIds, NEW n \in SessionIds, rows' = rows \cup {n}, n \notin rows,
           session'[n].family = f, ~session'[n].revoked,
           \A s \in rows : session'[s].family = session[s].family,
           \A s \in rows : session[s].family # f => session'[s] = session[s]
    PROVE  Holder' = [Holder EXCEPT ![f] = n]
<1>1. n \in Family(f)' /\ Live(n)'
  BY DEF Family, Live
<1>2. Holder'[f] = n
  BY <1>1 DEF HolderIsLive
<1>3. ASSUME NEW g \in SessionIds, g # f PROVE Holder'[g] = Holder[g]
  <2>1. \A s : s \in Family(g)' <=> s \in Family(g)
    BY <1>3 DEF Family
  <2>2. \A s \in Family(g) : Live(s)' <=> Live(s)
    BY <1>3 DEF Family, Live
  <2>3. CASE \E s \in Family(g) : Live(s)
    BY <2>1, <2>2, <2>3 DEF HolderIsLive
  <2>4. CASE \A s \in Family(g) : ~Live(s)
    BY <2>1, <2>2, <2>4 DEF HolderIsLive
  <2> QED
    BY <2>3, <2>4
<1>4. Holder = [g \in SessionIds |-> Holder[g]] /\ Holder' = [g \in SessionIds |-> Holder'[g]]
  BY DEF HolderIsLive
<1> QED
  BY <1>2, <1>3, <1>4

\* Every step of the handlers is a step of the families, or none.
LEMMA FamiliesStep ==
    ASSUME IInv, IInv', HolderIsLive, HolderIsLive', [Next]_vars
    PROVE  [Families!Next]_(Families!vars)
<1>1. TypeOK /\ \A s \in rows : s \in SessionIds
  BY DEF IInv, TypeOK
<1>2. ASSUME NEW r \in Reqs, SignInCommit(r) PROVE Families!Next
  <2> DEFINE n == req[r].new
  <2>1. n \notin rows
    BY DEF IInv, ReservedIds
  <2>2. /\ rows' = rows \cup {n} /\ n \in SessionIds
        /\ session'[n].family = n /\ ~session'[n].revoked
        /\ \A s \in SessionIds : s # n => session'[s] = session[s]
    BY <1>1, <1>2, SignInWrites
  <2> HIDE DEF n
  <2>3. /\ \A s \in rows : session'[s].family = session[s].family
        /\ \A s \in rows : session[s].family # n => session'[s] = session[s]
    BY <1>1, <2>1, <2>2
  <2>4. Holder' = [Holder EXCEPT ![n] = n]
    BY <2>1, <2>2, <2>3, InsertingStep
  <2> QED
    BY <2>1, <2>2, <2>4 DEF Families!Next, Families!Open
<1>3. ASSUME NEW r \in Reqs, RotateCommit(r), ~UNCHANGED <<rows, session>> PROVE Families!Next
  <2> DEFINE n == req[r].new
             o == req[r].sess
             f == session[o].family
  <2>1. n \notin rows /\ ~session[o].revoked
    BY <1>3 DEF IInv, ReservedIds, LockHolders, RotateCommit
  <2>2. /\ rows' = rows \cup {n} /\ n \in SessionIds /\ o \in rows
        /\ n # o => session'[n].family = f /\ ~session'[n].revoked
        /\ session'[o].family = f
        /\ \A s \in SessionIds \ {n, o} : session'[s] = session[s]
    BY <1>1, <1>3, RotationWrites
  <2>3. f \in SessionIds
    BY <1>1, <2>2 DEF TypeOK
  <2>4. o \in Family(f) /\ Live(o)
    BY <2>1, <2>2 DEF Family, Live
  <2>5. o = Holder[f]
    BY <2>3, <2>4 DEF HolderIsLive
  <2>6. o # None
    BY <1>1, <2>2, SessionsAssumption
  <2>7. n # o
    BY <2>1, <2>2
  <2>8. /\ \A s \in rows : session'[s].family = session[s].family
        /\ \A s \in rows : session[s].family # f => session'[s] = session[s]
    BY <1>1, <2>1, <2>2
  <2> HIDE DEF n, o, f
  <2>9. Holder' = [Holder EXCEPT ![f] = n]
    BY <2>1, <2>2, <2>3, <2>7, <2>8, InsertingStep
  <2> QED
    BY <2>1, <2>2, <2>3, <2>5, <2>6, <2>9 DEF Families!Next, Families!Exchange
<1>4. CASE RowsOnlyEnd
  BY <1>4, EndingStep DEF Families!Next
<1>5. CASE UNCHANGED <<rows, session>>
  BY <1>4, <1>5 DEF RowsOnlyEnd
<1> QED
  BY <1>1, <1>2, <1>3, <1>4, <1>5, OtherStepsOnlyEnd

\* What sign-in, rotation, replay detection and revocation do to the table is
\* what token families promise: one credential, exchanged once, never revived.
THEOREM Implementation == Spec => ImplementsFamilies
<1>1. Init => Families!Init
  <2> SUFFICES ASSUME Init PROVE rows = {} /\ Holder = [f \in SessionIds |-> None]
    BY DEF Families!Init
  <2>1. HolderIsLive /\ rows = {}
    BY InvInit, HolderOf DEF Init
  <2> QED
    BY <2>1 DEF HolderIsLive, Family
<1>2. IInv /\ IInv' /\ HolderIsLive /\ HolderIsLive' /\ [Next]_vars
        => [Families!Next]_(Families!vars)
  BY FamiliesStep
<1> QED
  BY <1>1, <1>2, InvInit, InvStep, HolderOf, PTL DEF Spec, ImplementsFamilies, Families!Spec
-----------------------------------------------------------------------------
(***************************************************************************)
(* A family is a chain.  A rotation writes what the handler carries from   *)
(* the row it read, so what it carries must still be that row's; and it    *)
(* replaces a live row, which has no successor yet.                        *)
(***************************************************************************)
\* Row y is row x, perhaps ended since.
Ended(x, y) ==
    /\ y.user = x.user /\ y.family = x.family /\ y.client = x.client /\ y.origin = x.origin
    /\ y.ttl = x.ttl /\ y.created = x.created /\ y.familyCreated = x.familyCreated
    /\ y.expires = x.expires /\ y.rotatedAt = x.rotatedAt /\ y.replacedBy = x.replacedBy
    /\ (x.revoked => y.revoked) /\ (x.compromised => y.compromised)

\* What a refresh x carries of its session, among the rows R, S.
Carried(x, R, S) ==
    /\ x.pc \in {"user", "lock", "rotate"} =>
         /\ x.sess \in R
         /\ x.user = S[x.sess].user /\ x.client = S[x.sess].client /\ x.ttl = S[x.sess].ttl
    /\ x.pc \in {"lock", "rotate"} => x.expires <= S[x.sess].familyCreated + MaxLifetime

ChainInv ==
    /\ RotationChain
    /\ \A s \in rows : session[s].familyCreated = session[session[s].family].created
    /\ \A r \in Reqs : Carried(req[r], rows, session)

LEMMA OthersEndRows ==
    ASSUME TypeOK, [Next]_vars, \A r \in Reqs : ~SignInCommit(r) /\ ~RotateCommit(r)
    PROVE  rows' = rows /\ \A s \in SessionIds : Ended(session[s], session'[s])
<1>1. CASE UNCHANGED <<rows, session>>
  BY <1>1 DEF Ended
<1>2. ASSUME NEW r \in Reqs, FamilyApply(r) \/ RevokeApply(r)
      PROVE  rows' = rows /\ \A s \in SessionIds : Ended(session[s], session'[s])
  <2>1. ASSUME NEW x \in Row
        PROVE  /\ Ended(x, x) /\ Ended(x, [x EXCEPT !.revoked = TRUE])
               /\ Ended(x, [x EXCEPT !.revoked = TRUE, !.compromised = TRUE])
    BY DEF Row, Ended
  <2>2. \A s \in SessionIds : session[s] \in Row
    BY DEF TypeOK
  <2>3. CASE FamilyApply(r)
    <3>1. rows' = rows /\ \A s \in SessionIds : session'[s] \in
              {session[s], [session[s] EXCEPT !.revoked = TRUE, !.compromised = TRUE]}
      BY <2>3 DEF FamilyApply
    <3> QED  BY <3>1, <2>1, <2>2
  <2>4. CASE RevokeApply(r)
    <3>1. rows' = rows /\ \A s \in SessionIds : session'[s] \in {session[s], [session[s] EXCEPT !.revoked = TRUE]}
      BY <2>4 DEF RevokeApply
    <3> QED  BY <3>1, <2>1, <2>2
  <2> QED  BY <1>2, <2>3, <2>4
<1>3. ASSUME NEW r \in Reqs, Start(r) \/ Progress(r) \/ Abort(r)
      PROVE  rows' = rows /\ \A s \in SessionIds : Ended(session[s], session'[s])
  BY <1>1, <1>2, <1>3
     DEF Start, Progress, Abort, SignInBegin, RefreshRead, RevokeOneBegin, RevokeUserBegin,
         RevokeClientBegin, RefreshUser, RotateLock, RefreshLost, FamilySnapshot, RevokeSnapshot
<1>4. CASE Reactivate \/ Tick \/ UNCHANGED vars
  BY <1>1, <1>4 DEF Reactivate, Tick, vars
<1> QED  BY <1>3, <1>4 DEF Next

\* The row a sign-in writes begins a family of its own.
LEMMA SignInRow ==
    ASSUME TypeOK, NEW r \in Reqs, SignInCommit(r)
    PROVE  LET x == session'[req[r].new] IN
           /\ x.family = req[r].new /\ x.replacedBy = None /\ x.familyCreated = x.created
           /\ x.created \in Nat /\ x.expires <= x.created + MaxLifetime
<1>1. PICK n \in SessionIds, q \in Request : n = req[r].new /\ q = req[r]
  BY DEF SignInCommit, RequestOK, InsertSteps, TypeOK
<1>2. PICK t \in q.begun .. now :
        session' = [session EXCEPT ![n] = NewRow(q, t, n, t, capped_expiry(t, q.ttl, t))]
  BY <1>1 DEF SignInCommit
<1>3. t \in Nat
  BY <1>1 DEF TypeOK, Request
<1>4. PICK e \in Int : e = capped_expiry(t, q.ttl, t) /\ e <= t + MaxLifetime
  BY <1>1, <1>3, ExpiryType DEF Request
<1>5. PICK x : x = NewRow(q, t, n, t, e)
  OBVIOUS
<1>6. x.family = n /\ x.replacedBy = None /\ x.familyCreated = t /\ x.created = t /\ x.expires = e
  BY <1>5, NoRowType DEF NewRow, Row
<1>7. session'[n] = x
  BY <1>2, <1>4, <1>5 DEF TypeOK
<1> QED  BY <1>1, <1>3, <1>4, <1>6, <1>7

\* The row a rotation writes, and the row it ends.
LEMMA RotationRow ==
    ASSUME TypeOK, NEW r \in Reqs, RotateCommit(r), ~UNCHANGED <<rows, session>>,
           req[r].new # req[r].sess
    PROVE  LET q == req[r]
               o == session[q.sess]
               x == session'[q.new]
               y == session'[q.sess] IN
           /\ x.user = q.user /\ x.client = q.client /\ x.ttl = q.ttl /\ x.expires = q.expires
           /\ x.family = o.family /\ x.familyCreated = o.familyCreated /\ x.replacedBy = None
           /\ y.user = o.user /\ y.family = o.family /\ y.client = o.client /\ y.ttl = o.ttl
           /\ y.created = o.created /\ y.familyCreated = o.familyCreated /\ y.expires = o.expires
           /\ y.origin = o.origin /\ y.replacedBy = q.new /\ y.revoked
<1>1. PICK n \in SessionIds, s \in SessionIds, q \in Request :
        n = req[r].new /\ q = req[r] /\ s = req[r].sess
  BY DEF RotateCommit, RequestOK, InsertSteps, RotationSteps, TypeOK
<1>2. PICK o \in Row : o = session[s]
  BY DEF TypeOK
<1>3. PICK x : x = NewRow(q, q.begun, o.family, o.familyCreated, q.expires)
  OBVIOUS
<1>4. PICK y : y = [o EXCEPT !.revoked = TRUE, !.rotatedAt = q.begun, !.replacedBy = n]
  OBVIOUS
<1>5. session'[n] = x /\ session'[s] = y
  <2>1. session' = [session EXCEPT ![n] = x, ![s] = [@ EXCEPT !.revoked = TRUE, !.rotatedAt = q.begun,
                                                             !.replacedBy = n]]
    BY <1>1, <1>2, <1>3 DEF RotateCommit
  <2> QED  BY <2>1, <1>1, <1>2, <1>4 DEF TypeOK
<1>6. /\ x.user = q.user /\ x.client = q.client /\ x.ttl = q.ttl /\ x.expires = q.expires
      /\ x.family = o.family /\ x.familyCreated = o.familyCreated /\ x.replacedBy = None
  BY <1>3, NoRowType DEF NewRow, Row
<1>7. /\ y.user = o.user /\ y.family = o.family /\ y.client = o.client /\ y.ttl = o.ttl
      /\ y.created = o.created /\ y.familyCreated = o.familyCreated /\ y.expires = o.expires
      /\ y.origin = o.origin /\ y.replacedBy = n /\ y.revoked
  BY <1>4 DEF Row
<1> QED  BY <1>1, <1>2, <1>5, <1>6, <1>7

\* A handler carries what it read; the rows are those before the step.
LEMMA CarriedStep ==
    ASSUME IInv, ChainInv, [Next]_vars, NEW p \in Reqs
    PROVE  Carried(req'[p], rows, session)
<1>0. TypeOK /\ Carried(req[p], rows, session)
  BY DEF IInv, ChainInv
<1>1. CASE req'[p] = req[p]
  BY <1>0, <1>1
<1>2. ASSUME NEW r \in Reqs, NEW x, req' = [req EXCEPT ![r] = x], x.pc \notin {"user", "lock", "rotate"}
      PROVE  Carried(req'[p], rows, session)
  <2>1. req'[p] = IF p = r THEN x ELSE req[p]
    BY <1>0, <1>2 DEF TypeOK
  <2> QED  BY <2>1, <1>1, <1>2 DEF Carried
<1>3. ASSUME NEW r \in Reqs, Finish(r) PROVE Carried(req'[p], rows, session)
  BY <1>2, <1>3, IdleType DEF Finish
<1>4. ASSUME NEW r \in Reqs, SignInBegin(r) PROVE Carried(req'[p], rows, session)
  <2>1. PICK u \in Users, c \in Opt(Clients), o \in Origins, t \in Ttls, n \in FreshIds :
          req' = [req EXCEPT ![r] = SignInRequest(u, c, o, t, n)]
    BY <1>4, SessionsAssumption DEF SignInBegin, Opt
  <2> QED  BY <1>0, <1>2, <2>1, SignInRequestType DEF FreshIds
<1>5. ASSUME NEW r \in Reqs, RefreshRead(r) PROVE Carried(req'[p], rows, session)
  <2>1. CASE \E s \in rows, o \in Origins, n \in FreshIds :
               req' = [req EXCEPT ![r] = RotationRequest(s, o, n)]
    <3>1. PICK s \in rows, o \in Origins, n \in FreshIds :
            req' = [req EXCEPT ![r] = RotationRequest(s, o, n)]
      BY <2>1
    <3>2. PICK x : x = RotationRequest(s, o, n)
      OBVIOUS
    <3>3. /\ x.pc = "user" /\ x.sess = s /\ x.user = session[s].user
          /\ x.client = session[s].client /\ x.ttl = session[s].ttl
      BY <3>2, IdleType DEF RotationRequest, Request
    <3>4. req'[p] = IF p = r THEN x ELSE req[p]
      BY <1>0, <3>1, <3>2 DEF TypeOK
    <3> QED  BY <1>1, <3>3, <3>4 DEF Carried
  <2>2. CASE \E s \in rows, o \in Origins : DetectReplay(r, s, o)
    <3>1. PICK s \in rows, o \in Origins : req' = [req EXCEPT ![r] = ReplayRequest(s, o)]
      BY <2>2 DEF DetectReplay
    <3> QED  BY <1>0, <1>2, <3>1, ReplayRequestType DEF Opt
  <2> QED  BY <1>5, <2>1, <2>2 DEF RefreshRead
<1>6. ASSUME NEW r \in Reqs, RefreshUser(r) PROVE Carried(req'[p], rows, session)
  <2>1. CASE Finish(r)
    BY <1>3, <2>1
  <2>2. CASE req' = [req EXCEPT ![r] = [req[r] EXCEPT !.pc = "lock", !.begun = now,
              !.expires = capped_expiry(now, req[r].ttl, session[req[r].sess].familyCreated)]]
    <3>1. PICK q \in Request, start \in Nat :
            q = req[r] /\ start = session[req[r].sess].familyCreated /\ q.sess \in rows /\ q.pc = "user"
      BY <1>0, <1>6 DEF RefreshUser, TypeOK, RequestOK, RotationSteps, Row
    <3>2. PICK e \in Int : e = capped_expiry(now, q.ttl, start) /\ e <= start + MaxLifetime
      BY <1>0, <3>1, ExpiryType DEF TypeOK, Request
    <3>3. PICK x : x = [q EXCEPT !.pc = "lock", !.begun = now, !.expires = e]
      OBVIOUS
    <3>4. /\ x.pc = "lock" /\ x.sess = q.sess /\ x.user = q.user /\ x.client = q.client
          /\ x.ttl = q.ttl /\ x.expires = e
      BY <3>1, <3>3 DEF Request
    <3>5. req'[p] = IF p = r THEN x ELSE req[p]
      BY <1>0, <2>2, <3>1, <3>2, <3>3 DEF TypeOK
    <3>6. Carried(q, rows, session)
      BY <3>1 DEF ChainInv
    <3> QED  BY <1>1, <3>1, <3>2, <3>4, <3>5, <3>6 DEF Carried
  <2> QED  BY <1>6, <2>1, <2>2 DEF RefreshUser
<1>7. ASSUME NEW r \in Reqs, RotateLock(r) PROVE Carried(req'[p], rows, session)
  <2>1. PICK step \in {"lost", "rotate"} : Goto(r, step)
    BY <1>7 DEF RotateLock
  <2>2. PICK q \in Request : q = req[r] /\ q.pc = "lock"
    BY <1>0, <1>7 DEF RotateLock, TypeOK
  <2>3. PICK x : x = [q EXCEPT !.pc = step]
    OBVIOUS
  <2>4. /\ x.pc = step /\ x.sess = q.sess /\ x.user = q.user /\ x.client = q.client
        /\ x.ttl = q.ttl /\ x.expires = q.expires
    BY <2>2, <2>3 DEF Request
  <2>5. req'[p] = IF p = r THEN x ELSE req[p]
    BY <1>0, <2>1, <2>2, <2>3 DEF TypeOK, Goto
  <2>6. Carried(q, rows, session)
    BY <2>2 DEF ChainInv
  <2> QED  BY <1>1, <2>2, <2>4, <2>5, <2>6 DEF Carried
<1>8. ASSUME NEW r \in Reqs, RefreshLost(r) PROVE Carried(req'[p], rows, session)
  <2>1. CASE Finish(r)
    BY <1>3, <2>1
  <2>2. CASE DetectReplay(r, req[r].sess, req[r].origin)
    <3>1. req[r].sess \in rows /\ req[r].origin \in Opt(Origins)
      BY <1>0, <1>8 DEF RefreshLost, RequestOK, RotationSteps, TypeOK, Request
    <3> QED  BY <1>0, <1>2, <2>2, <3>1, ReplayRequestType DEF DetectReplay
  <2> QED  BY <1>8, <2>1, <2>2 DEF RefreshLost
<1>9. ASSUME NEW r \in Reqs, NEW step \in {"familyApply", "apply"}, NEW found \in SUBSET rows,
             req' = [req EXCEPT ![r] = Applying(req[r], step, found)]
      PROVE  Carried(req'[p], rows, session)
  <2>1. req[r] \in Request /\ found \in SUBSET SessionIds /\ step \in Steps
    BY <1>0, Names DEF TypeOK
  <2>2. Applying(req[r], step, found).pc = step
    BY <2>1, ApplyingType
  <2>3. Applying(req[r], step, found).pc \notin {"user", "lock", "rotate"}
    BY <2>2
  <2> QED  BY <1>2, <1>9, <2>3
<1>10. ASSUME NEW r \in Reqs, FamilySnapshot(r) \/ RevokeSnapshot(r)
       PROVE  Carried(req'[p], rows, session)
  <2>1. CASE FamilySnapshot(r)
    <3>1. PICK found \in SUBSET rows : req' = [req EXCEPT ![r] = Applying(req[r], "familyApply", found)]
      BY <2>1 DEF FamilySnapshot, Family
    <3> QED  BY <1>9, <3>1
  <2>2. CASE RevokeSnapshot(r)
    <3>1. Selected(req[r]) \in SUBSET rows
      BY DEF Selected
    <3> QED  BY <1>3, <1>9, <2>2, <3>1 DEF RevokeSnapshot
  <2> QED  BY <1>10, <2>1, <2>2
<1>11. ASSUME NEW r \in Reqs, RevokeOneBegin(r) \/ RevokeUserBegin(r) \/ RevokeClientBegin(r)
       PROVE  Carried(req'[p], rows, session)
  <2>1. PICK scope \in Scopes, u \in Opt(Users), c \in Opt(Clients), s \in Opt(SessionIds), t \in Nat :
          req' = [req EXCEPT ![r] = RevocationRequest(scope, u, c, s, t)]
    <3>1. CASE RevokeOneBegin(r)
      BY <1>0, <3>1, Names DEF RevokeOneBegin, Opt, TypeOK
    <3>2. CASE RevokeUserBegin(r)
      <4>1. PICK u \in Users, scope \in {"user", "others", "suspend"}, keep \in Opt(rows) :
              req' = [req EXCEPT ![r] = RevocationRequest(scope, u, None, keep, now)]
        BY <3>2 DEF RevokeUserBegin
      <4>2. /\ scope \in Scopes /\ u \in Opt(Users) /\ None \in Opt(Clients)
            /\ keep \in Opt(SessionIds) /\ now \in Nat
        BY <1>0, Names DEF Opt, TypeOK
      <4> QED  BY <4>1, <4>2
    <3>3. CASE RevokeClientBegin(r)
      BY <1>0, <3>3, Names DEF RevokeClientBegin, Opt, TypeOK
    <3> QED  BY <1>11, <3>1, <3>2, <3>3
  <2> QED  BY <1>2, <2>1, RevocationRequestType
<1>12. ASSUME NEW r \in Reqs, SignInCommit(r) \/ RotateCommit(r) \/ FamilyApply(r) \/ RevokeApply(r) \/ Abort(r)
       PROVE  Carried(req'[p], rows, session)
  BY <1>3, <1>12 DEF SignInCommit, RotateCommit, FamilyApply, RevokeApply, Abort
<1>13. CASE Reactivate \/ Tick \/ UNCHANGED vars
  BY <1>1, <1>13 DEF Reactivate, Tick, vars
<1> QED  BY <1>4, <1>5, <1>6, <1>7, <1>8, <1>10, <1>11, <1>12, <1>13 DEF Next, Start, Progress

LEMMA CarriedEnds ==
    ASSUME NEW x, NEW R, NEW S, NEW S2, Carried(x, R, S), NEW R2, R \subseteq R2,
           \A s \in R : /\ S2[s].user = S[s].user /\ S2[s].client = S[s].client /\ S2[s].ttl = S[s].ttl
                        /\ S2[s].familyCreated = S[s].familyCreated
    PROVE  Carried(x, R2, S2)
BY DEF Carried

LEMMA ChainStep ==
    ASSUME IInv, IInv', ChainInv, [Next]_vars
    PROVE  ChainInv'
<1>0. /\ TypeOK /\ RotationChain /\ rows \subseteq SessionIds
      /\ \A s \in rows : session[s].family \in rows
      /\ \A s \in rows : session[s].familyCreated = session[session[s].family].created
      /\ None \notin SessionIds
  BY SessionsAssumption DEF IInv, TypeOK, ChainInv
<1>1. ASSUME NEW r \in Reqs, SignInCommit(r) PROVE ChainInv'
  <2> DEFINE n == req[r].new
  <2>1. n \notin rows
    BY DEF IInv, ReservedIds
  <2>2. /\ rows' = rows \cup {n} /\ n \in SessionIds
        /\ \A s \in rows : session'[s] = session[s] /\ s # n
    BY <1>0, <1>1, <2>1, SignInWrites
  <2>3. /\ session'[n].family = n /\ session'[n].replacedBy = None
        /\ session'[n].familyCreated = session'[n].created
        /\ session'[n].expires <= session'[n].created + MaxLifetime
    BY <1>0, <1>1, SignInRow
  <2> HIDE DEF n
  <2>4. \A s \in rows : session'[s].familyCreated = session'[session'[s].family].created
    BY <2>2, <1>0
  <2>5. ASSUME NEW s \in rows'
        PROVE  session'[s].family = s \/ \E p \in rows' : /\ session'[p].replacedBy = s
                                                          /\ \A q \in rows' : session'[q].replacedBy = s => q = p
    <3>1. CASE s = n
      BY <3>1, <2>3
    <3>2. CASE s \in rows /\ session[s].family # s
      <4>1. PICK p \in rows : session[p].replacedBy = s /\ \A q \in rows : session[q].replacedBy = s => q = p
        BY <3>2, <1>0 DEF RotationChain
      <4> QED  BY <4>1, <3>2, <2>2, <2>3, <1>0
    <3>3. CASE s \in rows /\ session[s].family = s
      BY <3>3, <2>2
    <3> QED  BY <3>1, <3>2, <3>3, <2>2
  <2>6. ASSUME NEW s \in rows', session'[s].replacedBy # None
        PROVE  LET m == session'[session'[s].replacedBy] IN
               /\ session'[s].replacedBy \in rows' /\ session'[s].revoked
               /\ <<m.family, m.user, m.client, m.ttl, m.familyCreated>> =
                    <<session'[s].family, session'[s].user, session'[s].client,
                      session'[s].ttl, session'[s].familyCreated>>
    <3>1. s \in rows /\ session'[s] = session[s]
      BY <2>6, <2>2, <2>3
    <3>2. session[s].replacedBy \in rows /\ session'[session[s].replacedBy] = session[session[s].replacedBy]
      BY <3>1, <2>6, <2>2, <1>0 DEF RotationChain
    <3> QED  BY <3>1, <3>2, <2>6, <2>2, <1>0 DEF RotationChain
  <2>7. ASSUME NEW s \in rows' PROVE session'[s].expires <= session'[session'[s].family].created + MaxLifetime
    BY <2>2, <2>3, <1>0 DEF RotationChain
  <2>8. RotationChain'
    BY <2>5, <2>6, <2>7 DEF RotationChain
  <2>9. \A p \in Reqs : Carried(req'[p], rows', session')
    BY <2>2, CarriedStep, CarriedEnds
  <2> QED  BY <2>2, <2>3, <2>4, <2>8, <2>9 DEF ChainInv
<1>2. ASSUME NEW r \in Reqs, RotateCommit(r), ~UNCHANGED <<rows, session>> PROVE ChainInv'
  <2> DEFINE n == req[r].new
             o == req[r].sess
  <2>1. n \notin rows /\ ~session[o].revoked
    BY <1>2 DEF IInv, ReservedIds, LockHolders, RotateCommit
  <2>2. /\ rows' = rows \cup {n} /\ n \in SessionIds /\ o \in rows /\ n # o
        /\ \A s \in rows : s # o => session'[s] = session[s]
    BY <1>0, <1>2, <2>1, RotationWrites
  <2>3. /\ Carried(req[r], rows, session) /\ req[r].pc = "rotate"
    BY <1>2 DEF ChainInv, RotateCommit
  <2>4. /\ session'[n].user = req[r].user /\ session'[n].client = req[r].client
        /\ session'[n].ttl = req[r].ttl /\ session'[n].expires = req[r].expires
        /\ session'[n].family = session[o].family /\ session'[n].familyCreated = session[o].familyCreated
        /\ session'[n].replacedBy = None
        /\ session'[o].user = session[o].user /\ session'[o].family = session[o].family
        /\ session'[o].client = session[o].client /\ session'[o].ttl = session[o].ttl
        /\ session'[o].created = session[o].created
        /\ session'[o].familyCreated = session[o].familyCreated
        /\ session'[o].expires = session[o].expires
        /\ session'[o].replacedBy = n /\ session'[o].revoked
    BY <1>0, <1>2, <2>2, RotationRow
  <2>5. /\ session'[n].user = session[o].user /\ session'[n].client = session[o].client
        /\ session'[n].ttl = session[o].ttl /\ session'[n].expires <= session[o].familyCreated + MaxLifetime
    BY <2>3, <2>4 DEF Carried
  <2>6. session[o].replacedBy = None
    BY <2>1, <2>2, <1>0 DEF RotationChain
  <2> HIDE DEF n, o
  <2>7. \A s \in rows :
          /\ session'[s].user = session[s].user /\ session'[s].family = session[s].family
          /\ session'[s].client = session[s].client /\ session'[s].ttl = session[s].ttl
          /\ session'[s].created = session[s].created
          /\ session'[s].familyCreated = session[s].familyCreated
          /\ session'[s].expires = session[s].expires
          /\ s # o => session'[s].replacedBy = session[s].replacedBy /\ session'[s].revoked = session[s].revoked
    BY <2>2, <2>4
  <2>8. \A s \in rows' : session'[s].familyCreated = session'[session'[s].family].created
    BY <2>2, <2>4, <2>7, <1>0
  <2>9. ASSUME NEW s \in rows'
        PROVE  session'[s].family = s \/ \E p \in rows' : /\ session'[p].replacedBy = s
                                                          /\ \A q \in rows' : session'[q].replacedBy = s => q = p
    <3>1. CASE s = n
      <4>1. \A q \in rows : session[q].replacedBy # n
        BY <2>1, <2>2, <1>0 DEF RotationChain
      <4>2. \A q \in rows' : session'[q].replacedBy = n => q = o
        BY <4>1, <2>2, <2>4, <2>7, <1>0
      <4> QED  BY <4>2, <3>1, <2>2, <2>4
    <3>2. CASE s \in rows /\ session[s].family # s
      <4>1. PICK p \in rows : session[p].replacedBy = s /\ \A q \in rows : session[q].replacedBy = s => q = p
        BY <3>2, <1>0 DEF RotationChain
      <4>2. p # o /\ s # n /\ s # None
        BY <4>1, <3>2, <2>1, <2>6, <1>0
      <4>3. session'[p].replacedBy = s /\ \A q \in rows' : session'[q].replacedBy = s => q = p
        BY <4>1, <4>2, <2>2, <2>4, <2>7
      <4> QED  BY <4>3, <2>2
    <3>3. CASE s \in rows /\ session[s].family = s
      BY <3>3, <2>7
    <3> QED  BY <3>1, <3>2, <3>3, <2>2
  <2>10. ASSUME NEW s \in rows', session'[s].replacedBy # None
         PROVE  LET m == session'[session'[s].replacedBy] IN
                /\ session'[s].replacedBy \in rows' /\ session'[s].revoked
                /\ <<m.family, m.user, m.client, m.ttl, m.familyCreated>> =
                     <<session'[s].family, session'[s].user, session'[s].client,
                       session'[s].ttl, session'[s].familyCreated>>
    <3>1. CASE s = o
      BY <3>1, <2>2, <2>4, <2>5
    <3>2. CASE s \in rows /\ s # o
      <4> DEFINE k == session[s].replacedBy
      <4>1. session'[s].replacedBy = k /\ k # None
        BY <3>2, <2>7, <2>10
      <4>2. /\ k \in rows /\ session[s].revoked
            /\ session[k].family = session[s].family /\ session[k].user = session[s].user
            /\ session[k].client = session[s].client /\ session[k].ttl = session[s].ttl
            /\ session[k].familyCreated = session[s].familyCreated
        BY <4>1, <3>2, <1>0 DEF RotationChain
      <4> HIDE DEF k
      <4> QED  BY <4>1, <4>2, <3>2, <2>2, <2>7
    <3> QED  BY <3>1, <3>2, <2>2, <2>4, <2>10
  <2>11. ASSUME NEW s \in rows' PROVE session'[s].expires <= session'[session'[s].family].created + MaxLifetime
    <3>1. CASE s = n
      BY <3>1, <2>2, <2>4, <2>5, <2>7, <1>0
    <3>2. CASE s \in rows
      BY <3>2, <2>7, <1>0 DEF RotationChain
    <3> QED  BY <3>1, <3>2, <2>2
  <2>12. RotationChain'
    BY <2>9, <2>10, <2>11 DEF RotationChain
  <2>13. \A p \in Reqs : Carried(req'[p], rows', session')
    BY <2>2, <2>7, CarriedStep, CarriedEnds
  <2> QED  BY <2>8, <2>12, <2>13 DEF ChainInv
<1>3. ASSUME rows' = rows, \A s \in SessionIds : Ended(session[s], session'[s]) PROVE ChainInv'
  <2>1. \A s \in rows :
          /\ session'[s].user = session[s].user /\ session'[s].family = session[s].family
          /\ session'[s].client = session[s].client /\ session'[s].ttl = session[s].ttl
          /\ session'[s].created = session[s].created
          /\ session'[s].familyCreated = session[s].familyCreated
          /\ session'[s].expires = session[s].expires
          /\ session'[s].replacedBy = session[s].replacedBy
          /\ session[s].revoked => session'[s].revoked
    BY <1>3, <1>0 DEF Ended
  <2>2. \A s \in rows : session'[s].familyCreated = session'[session'[s].family].created
    BY <2>1, <1>0
  <2>3. \A s \in rows : session'[s].family = s \/
          \E p \in rows : session'[p].replacedBy = s /\ \A q \in rows : session'[q].replacedBy = s => q = p
    BY <2>1, <1>0 DEF RotationChain
  <2>4. ASSUME NEW s \in rows, session'[s].replacedBy # None
        PROVE  LET m == session'[session'[s].replacedBy] IN
               /\ session'[s].replacedBy \in rows /\ session'[s].revoked
               /\ <<m.family, m.user, m.client, m.ttl, m.familyCreated>> =
                    <<session'[s].family, session'[s].user, session'[s].client,
                      session'[s].ttl, session'[s].familyCreated>>
    <3> DEFINE k == session[s].replacedBy
    <3>1. session'[s].replacedBy = k /\ k # None
      BY <2>1, <2>4
    <3>2. /\ k \in rows /\ session[s].revoked
          /\ session[k].family = session[s].family /\ session[k].user = session[s].user
          /\ session[k].client = session[s].client /\ session[k].ttl = session[s].ttl
          /\ session[k].familyCreated = session[s].familyCreated
      BY <3>1, <1>0 DEF RotationChain
    <3> HIDE DEF k
    <3> QED  BY <3>1, <3>2, <2>1
  <2>5. \A s \in rows : session'[s].expires <= session'[session'[s].family].created + MaxLifetime
    BY <2>1, <1>0 DEF RotationChain
  <2>6. RotationChain'
    BY <2>3, <2>4, <2>5, <1>3 DEF RotationChain
  <2>7. \A p \in Reqs : Carried(req'[p], rows', session')
    BY <1>3, <2>1, CarriedStep, CarriedEnds
  <2> QED  BY <1>3, <2>2, <2>6, <2>7 DEF ChainInv
<1>4. CASE UNCHANGED <<rows, session>>
  BY <1>3, <1>4 DEF Ended
<1> QED  BY <1>0, <1>1, <1>2, <1>3, <1>4, OthersEndRows

\* However many refreshes, replays and revocations overlap, the sessions of a sign-in are one
\* chain of replacements that inherit its account, client, lifetime and start, and none
\* outlives the absolute lifetime counted from the sign-in.
THEOREM Chain == Spec => []RotationChain
<1>1. Init => ChainInv
  BY IdleType DEF Init, ChainInv, RotationChain, Carried
<1>2. IInv /\ IInv' /\ ChainInv /\ [Next]_vars => ChainInv'
  BY ChainStep
<1>3. ChainInv => RotationChain
  BY DEF ChainInv
<1> QED  BY <1>1, <1>2, <1>3, InvInit, InvStep, PTL DEF Spec
-----------------------------------------------------------------------------
(***************************************************************************)
(* Retries are forgiven, as long as the reads that tell them from replays  *)
(* do not fail.  What justified a condemnation cannot be undone: the spent *)
(* row has no rotation ahead, and its successor keeps its origin.          *)
(***************************************************************************)
Justified(x, R, S, t) ==
    x.pc \in {"familySnapshot", "familyApply"} =>
        /\ x.sess \in R /\ S[x.sess].revoked
        /\ \/ S[x.sess].replacedBy = None
           \/ S[x.sess].compromised
           \/ t - S[x.sess].rotatedAt > Grace
           \/ Device[S[S[x.sess].replacedBy].origin] # Device[x.origin]

JustifiedInv == \A r \in Reqs : Justified(req[r], rows, session, now)

LEMMA ReplayJustified ==
    ASSUME TypeOK, NEW s \in rows, NEW o \in Opt(Origins), session[s].revoked,
           ~(rotated_within_grace(s) /\ rotated_by_this_client(s, o))
    PROVE  Justified(ReplayRequest(s, o), rows, session, now)
<1>1. PICK x : x = ReplayRequest(s, o)
  OBVIOUS
<1>2. x.sess = s /\ x.origin = o
  BY <1>1, IdleType DEF ReplayRequest, Request
<1>3. session[s].rotatedAt \in Nat /\ now \in Nat
  BY DEF TypeOK, Row
<1> QED  BY <1>1, <1>2, <1>3, SessionsAssumption DEF Justified, rotated_within_grace, rotated_by_this_client

\* The handlers after a step; the rows and the time are those before.
LEMMA JustifiedStep ==
    ASSUME ~ReadErrors, IInv, JustifiedInv, [Next]_vars, NEW p \in Reqs
    PROVE  Justified(req'[p], rows, session, now)
<1>0. TypeOK /\ Justified(req[p], rows, session, now)
  BY DEF IInv, JustifiedInv
<1>1. CASE req'[p] = req[p]
  BY <1>0, <1>1
<1>2. ASSUME NEW r \in Reqs, NEW x, req' = [req EXCEPT ![r] = x], Justified(x, rows, session, now)
      PROVE  Justified(req'[p], rows, session, now)
  <2>1. req'[p] = IF p = r THEN x ELSE req[p]
    BY <1>0, <1>2 DEF TypeOK
  <2> QED  BY <2>1, <1>1, <1>2
<1>3. ASSUME NEW r \in Reqs, NEW x, req' = [req EXCEPT ![r] = x], x.pc \notin {"familySnapshot", "familyApply"}
      PROVE  Justified(req'[p], rows, session, now)
  BY <1>2, <1>3 DEF Justified
<1>4. ASSUME NEW r \in Reqs, Finish(r) PROVE Justified(req'[p], rows, session, now)
  BY <1>3, <1>4, IdleType DEF Finish
<1>5. ASSUME NEW r \in Reqs, SignInBegin(r) PROVE Justified(req'[p], rows, session, now)
  <2>1. PICK u \in Users, c \in Opt(Clients), o \in Origins, t \in Ttls, n \in FreshIds :
          req' = [req EXCEPT ![r] = SignInRequest(u, c, o, t, n)]
    BY <1>5, SessionsAssumption DEF SignInBegin, Opt
  <2> QED  BY <1>0, <1>3, <2>1, SignInRequestType DEF FreshIds
<1>6. ASSUME NEW r \in Reqs, RefreshRead(r) PROVE Justified(req'[p], rows, session, now)
  <2>1. PICK s \in rows, o \in Origins :
          LET verdict == refresh_verdict(s, o) IN
          \/ verdict = "Rotate" /\ \E n \in FreshIds : req' = [req EXCEPT ![r] = RotationRequest(s, o, n)]
          \/ verdict = "ConcurrentRefresh" /\ ~rotated_by_this_client(s, o) /\ DetectReplay(r, s, o)
          \/ verdict = "Replay" /\ DetectReplay(r, s, o)
    BY <1>6 DEF RefreshRead
  <2>2. CASE \E n \in FreshIds : req' = [req EXCEPT ![r] = RotationRequest(s, o, n)]
    <3>1. PICK n \in FreshIds : req' = [req EXCEPT ![r] = RotationRequest(s, o, n)]
      BY <2>2
    <3>2. RotationRequest(s, o, n).pc = "user"
      BY <1>0, RotationRequestType DEF FreshIds
    <3>3. RotationRequest(s, o, n).pc \notin {"familySnapshot", "familyApply"}
      BY <3>2
    <3> QED  BY <1>3, <3>1, <3>3
  <2>3. CASE /\ refresh_verdict(s, o) \in {"ConcurrentRefresh", "Replay"} /\ DetectReplay(r, s, o)
             /\ refresh_verdict(s, o) = "Replay" \/ ~rotated_by_this_client(s, o)
    <3>1. session[s].revoked /\ (refresh_verdict(s, o) = "Replay" => ~rotated_within_grace(s))
      BY <2>3 DEF refresh_verdict
    <3>2. Justified(ReplayRequest(s, o), rows, session, now)
      BY <1>0, <2>3, <3>1, ReplayJustified DEF Opt
    <3> QED  BY <1>2, <2>3, <3>2 DEF DetectReplay
  <2> QED  BY <2>1, <2>2, <2>3
<1>7. ASSUME NEW r \in Reqs, RefreshUser(r) \/ RotateLock(r) PROVE Justified(req'[p], rows, session, now)
  <2>1. req[r] \in Request
    BY <1>0 DEF TypeOK
  <2>2. CASE Finish(r)
    BY <1>4, <2>2
  <2>3. CASE \E step \in {"lost", "rotate"} : Goto(r, step)
    <3>1. PICK step \in {"lost", "rotate"} : Goto(r, step)
      BY <2>3
    <3>2. PICK x : x = [req[r] EXCEPT !.pc = step]
      OBVIOUS
    <3>3. x.pc = step /\ req' = [req EXCEPT ![r] = x]
      BY <2>1, <3>1, <3>2 DEF Goto, Request
    <3> QED  BY <1>3, <3>3
  <2>4. CASE \E t, e : req' = [req EXCEPT ![r] = [req[r] EXCEPT !.pc = "lock", !.begun = t, !.expires = e]]
    <3>1. PICK t, e : req' = [req EXCEPT ![r] = [req[r] EXCEPT !.pc = "lock", !.begun = t, !.expires = e]]
      BY <2>4
    <3>2. PICK x : x = [req[r] EXCEPT !.pc = "lock", !.begun = t, !.expires = e]
      OBVIOUS
    <3>3. x.pc = "lock"
      BY <2>1, <3>2 DEF Request
    <3> QED  BY <1>3, <3>1, <3>2, <3>3
  <2> QED  BY <1>7, <2>2, <2>3, <2>4 DEF RefreshUser, RotateLock
<1>8. ASSUME NEW r \in Reqs, RefreshLost(r) PROVE Justified(req'[p], rows, session, now)
  <2>1. CASE Finish(r)
    BY <1>4, <2>1
  <2>2. CASE /\ DetectReplay(r, req[r].sess, req[r].origin)
             /\ ~(rotated_within_grace(req[r].sess) /\ rotated_by_this_client(req[r].sess, req[r].origin))
    <3>1. req[r].sess \in rows /\ req[r].origin \in Opt(Origins) /\ session[req[r].sess].revoked
      BY <1>0, <1>8 DEF RefreshLost, RequestOK, RotationSteps, TypeOK, Request, IInv, OnlySpentTokensCondemn
    <3> QED  BY <1>0, <1>2, <2>2, <3>1, ReplayJustified DEF DetectReplay
  <2> QED  BY <1>8, <2>1, <2>2 DEF RefreshLost
<1>9. ASSUME NEW r \in Reqs, FamilySnapshot(r) PROVE Justified(req'[p], rows, session, now)
  <2>1. PICK found \in SUBSET rows : req' = [req EXCEPT ![r] = Applying(req[r], "familyApply", found)]
    BY <1>9 DEF FamilySnapshot, Family
  <2>2. PICK q \in Request : q = req[r] /\ q.pc = "familySnapshot" /\ Justified(q, rows, session, now)
    BY <1>0, <1>9 DEF TypeOK, FamilySnapshot, JustifiedInv
  <2>3. PICK x : x = Applying(q, "familyApply", found)
    OBVIOUS
  <2>4. x.sess = q.sess /\ x.origin = q.origin
    BY <2>2, <2>3 DEF Applying, Request
  <2> QED  BY <1>2, <2>1, <2>2, <2>3, <2>4 DEF Justified
<1>10. ASSUME NEW r \in Reqs, RevokeSnapshot(r) PROVE Justified(req'[p], rows, session, now)
  <2>1. CASE Finish(r)
    BY <1>4, <2>1
  <2>2. CASE req' = [req EXCEPT ![r] = Applying(req[r], "apply", Selected(req[r]))]
    <3>1. Selected(req[r]) \in SUBSET SessionIds /\ req[r] \in Request
      BY <1>0 DEF Selected, TypeOK
    <3>2. Applying(req[r], "apply", Selected(req[r])).pc = "apply"
      BY <3>1, ApplyingType, Names
    <3>3. Applying(req[r], "apply", Selected(req[r])).pc \notin {"familySnapshot", "familyApply"}
      BY <3>2
    <3> QED  BY <1>3, <2>2, <3>3
  <2> QED  BY <1>10, <2>1, <2>2 DEF RevokeSnapshot
<1>11. ASSUME NEW r \in Reqs, RevokeOneBegin(r) \/ RevokeUserBegin(r) \/ RevokeClientBegin(r)
       PROVE  Justified(req'[p], rows, session, now)
  <2>1. PICK scope, u, c, s, t : req' = [req EXCEPT ![r] = RevocationRequest(scope, u, c, s, t)]
    BY <1>11 DEF RevokeOneBegin, RevokeUserBegin, RevokeClientBegin
  <2>2. RevocationRequest(scope, u, c, s, t).pc = "snapshot"
    BY IdleType DEF RevocationRequest, Request
  <2>3. RevocationRequest(scope, u, c, s, t).pc \notin {"familySnapshot", "familyApply"}
    BY <2>2
  <2> QED  BY <1>3, <2>1, <2>3
<1>12. ASSUME NEW r \in Reqs, SignInCommit(r) \/ RotateCommit(r) \/ FamilyApply(r) \/ RevokeApply(r) \/ Abort(r)
       PROVE  Justified(req'[p], rows, session, now)
  BY <1>4, <1>12 DEF SignInCommit, RotateCommit, FamilyApply, RevokeApply, Abort
<1>13. CASE Reactivate \/ Tick \/ UNCHANGED vars
  BY <1>1, <1>13 DEF Reactivate, Tick, vars
<1> QED  BY <1>5, <1>6, <1>7, <1>8, <1>9, <1>10, <1>11, <1>12, <1>13 DEF Next, Start, Progress

\* Time passes and rows end; a spent row and its successor are otherwise as they were.
LEMMA JustifiedStays ==
    ASSUME IInv, IInv', ChainInv, [Next]_vars, NEW x, Justified(x, rows, session, now)
    PROVE  Justified(x, rows', session', now')
<1> SUFFICES ASSUME x.pc \in {"familySnapshot", "familyApply"}
             PROVE  Justified(x, rows', session', now')
  BY DEF Justified
<1> DEFINE s == x.sess
           k == session[s].replacedBy
<1>1. s \in rows /\ session[s].revoked
  BY DEF Justified
<1>2. /\ TypeOK /\ rows \subseteq SessionIds /\ None \notin SessionIds
      /\ k # None => k \in rows
  BY <1>1, SessionsAssumption DEF IInv, TypeOK, ChainInv, RotationChain
<1>3. session[s].rotatedAt \in Nat /\ now \in Nat /\ now' \in Nat /\ now <= now'
  <2>1. session[s].rotatedAt \in Nat /\ now \in Nat /\ now' \in Nat
    BY <1>1, <1>2 DEF IInv, TypeOK, Row
  <2>2. now' \in {now, now + 1}
    BY DEF Next, Start, Progress, Abort, SignInBegin, SignInCommit, RefreshRead, RefreshUser, RotateLock,
       RotateCommit, RefreshLost, FamilySnapshot, FamilyApply, RevokeOneBegin, RevokeUserBegin,
       RevokeClientBegin, RevokeSnapshot, RevokeApply, Reactivate, Tick, vars
  <2> QED  BY <2>1, <2>2
<1>4. /\ s \in rows' /\ session'[s].revoked /\ session'[s].replacedBy = k
      /\ session[s].compromised => session'[s].compromised
      /\ session'[s].rotatedAt = session[s].rotatedAt
      /\ k # None => session'[k].origin = session[k].origin
  <2>1. ASSUME NEW r \in Reqs, SignInCommit(r)
        PROVE  rows \subseteq rows' /\ \A t \in rows : session'[t] = session[t]
    <3>1. req[r].new \notin rows
      BY DEF IInv, ReservedIds
    <3> QED  BY <3>1, <2>1, <1>2, SignInWrites
  <2>2. ASSUME NEW r \in Reqs, RotateCommit(r), ~UNCHANGED <<rows, session>>
        PROVE  /\ rows \subseteq rows' /\ session'[s] = session[s]
               /\ k # None => session'[k].origin = session[k].origin
    <3>1. req[r].new \notin rows /\ ~session[req[r].sess].revoked /\ req[r].sess \in rows
      BY <2>2, <1>2 DEF IInv, ReservedIds, LockHolders, RotateCommit, TypeOK, RequestOK, RotationSteps
    <3>2. rows \subseteq rows' /\ \A t \in rows : t # req[r].sess => session'[t] = session[t]
      BY <3>1, <2>2, <1>2, RotationWrites
    <3>3. s # req[r].sess /\ session'[req[r].sess].origin = session[req[r].sess].origin
      BY <3>1, <2>2, <1>1, <1>2, RotationRow
    <3> QED  BY <3>2, <3>3, <1>1, <1>2
  <2>3. ASSUME rows' = rows, \A t \in SessionIds : Ended(session[t], session'[t])
        PROVE  /\ s \in rows' /\ session'[s].revoked /\ session'[s].replacedBy = k
               /\ session[s].compromised => session'[s].compromised
               /\ session'[s].rotatedAt = session[s].rotatedAt
               /\ k # None => session'[k].origin = session[k].origin
    BY <2>3, <1>1, <1>2 DEF Ended
  <2>4. CASE UNCHANGED <<rows, session>>
    BY <2>4, <1>1
  <2>5. CASE \E r \in Reqs : SignInCommit(r)
    BY <2>1, <2>5, <1>1, <1>2
  <2>6. CASE \E r \in Reqs : RotateCommit(r)
    BY <2>2, <2>4, <2>6, <1>1
  <2>7. CASE \A r \in Reqs : ~SignInCommit(r) /\ ~RotateCommit(r)
    BY <2>3, <2>7, <1>2, OthersEndRows
  <2> QED  BY <2>5, <2>6, <2>7
<1>5. CASE k = None \/ session[s].compromised
  BY <1>4, <1>5 DEF Justified
<1>6. CASE now - session[s].rotatedAt > Grace
  <2>1. now' - session'[s].rotatedAt > Grace
    BY <1>3, <1>4, <1>6, SessionsAssumption
  <2> QED  BY <2>1, <1>4 DEF Justified
<1>7. CASE k # None /\ Device[session[k].origin] # Device[x.origin]
  BY <1>4, <1>7 DEF Justified
<1> QED  BY <1>5, <1>6, <1>7 DEF Justified

\* When the reads that tell a retry from a replay do not fail, two refreshes of one token by the
\* same device within the grace window never condemn the family, for any number of handlers,
\* devices and sessions, whichever of them reads first and whoever wins the lock.
THEOREM Forgiven ==
    ASSUME ~ReadErrors
    PROVE  Spec => []RetriesAreForgiven
<1>1. Init => ChainInv /\ JustifiedInv
  BY IdleType DEF Init, ChainInv, RotationChain, Carried, JustifiedInv, Justified
<1>2. IInv /\ IInv' /\ ChainInv /\ [Next]_vars => ChainInv'
  BY ChainStep
<1>3. IInv /\ IInv' /\ ChainInv /\ JustifiedInv /\ [Next]_vars => JustifiedInv'
  BY JustifiedStep, JustifiedStays DEF JustifiedInv
<1>4. JustifiedInv => RetriesAreForgiven
  BY DEF JustifiedInv, Justified, RetriesAreForgiven
<1> QED  BY <1>1, <1>2, <1>3, <1>4, InvInit, InvStep, PTL DEF Spec
=============================================================================
