-------------------------- MODULE TokenStateProofs --------------------------
(***************************************************************************)
(* However long the behaviour, and whatever fails, a token is never        *)
(* accepted later than the cache lifetime and one request's duration after *)
(* its session ended.                                                      *)
(*                                                                         *)
(* The property is not inductive: it says nothing of the answers on their  *)
(* way into the cache.  CacheBounded and ReadBounded say how old they can  *)
(* be, both for a session that has ended and, by the clock, for one that   *)
(* may end at the next step.                                               *)
(***************************************************************************)
EXTENDS TokenState, TLAPS

\* What the argument needs of TypeOK.
Shapes ==
    /\ now \in Nat
    /\ row \in [Sessions -> [opened: Times, revoked: Times]]
    /\ cache \in [Sessions -> [value: CachedValues, until: Nat]]
    /\ check \in [Checks -> Check]

\* An "active" in the cache is of an open session, and expires in time.
CacheBounded ==
    \A s \in Sessions : cache[s].value # 0 =>
        /\ Opened(s)
        /\ cache[s].until <= now + CacheTtl
        /\ cache[s].until <= EndOf(s) + CacheTtl + MaxCheck

\* A check works on an open session; the row it read as active was read no later
\* than the session's end.
ReadBounded ==
    \A c \in Checks : check[c].pc # "idle" =>
        /\ check[c].sess \in Sessions
        /\ Opened(check[c].sess)
        /\ check[c].pc = "set" /\ check[c].active =>
            check[c].readAt <= now /\ check[c].readAt <= EndOf(check[c].sess)

\* What was accepted was accepted by now, and in time.
AcceptedInTime ==
    \A c \in Checks : check[c].pc = "accepted" =>
        /\ check[c].at <= now
        /\ check[c].at < EndOf(check[c].sess) + CacheTtl + MaxCheck

IInv == Shapes /\ CacheBounded /\ ReadBounded /\ AcceptedInTime

-----------------------------------------------------------------------------
LEMMA InvInit == Init => IInv
<1> SUFFICES ASSUME Init PROVE IInv
  OBVIOUS
<1>1. IdleCheck \in Check /\ IdleCheck.pc = "idle"
  BY DEF IdleCheck, Check
<1>2. Shapes
  BY <1>1 DEF Init, Shapes, Times, Never, Gone, CachedValues
<1>3. CacheBounded
  BY DEF Init, CacheBounded
<1>4. ReadBounded /\ AcceptedInTime
  BY <1>1 DEF Init, ReadBounded, AcceptedInTime
<1> QED
  BY <1>2, <1>3, <1>4 DEF IInv

\* The end of an open session is a number, after which it is not active.
LEMMA EndType ==
    ASSUME Shapes, NEW s \in Sessions, Opened(s)
    PROVE  /\ EndOf(s) \in Nat /\ expires_at(s) \in Nat /\ EndOf(s) <= expires_at(s)
           /\ is_active(s) => now <= EndOf(s)
BY TokenStateAssumption DEF Shapes, EndOf, expires_at, Opened, Times, Never, is_active

\* A step that only moves the checks keeps the rest, if each check it moves is
\* bounded.
LEMMA CheckStep ==
    ASSUME IInv, NEW c \in Checks, NEW k \in Check, SetCheck(c, k),
           UNCHANGED <<now, row>>, Shapes', CacheBounded',
           k.pc # "idle" => /\ k.sess \in Sessions /\ Opened(k.sess)
                            /\ k.pc = "set" /\ k.active =>
                                 k.readAt <= now /\ k.readAt <= EndOf(k.sess),
           k.pc = "accepted" => /\ k.at <= now
                                /\ k.at < EndOf(k.sess) + CacheTtl + MaxCheck
    PROVE  IInv'
<1>1. check' = [check EXCEPT ![c] = k]
  BY DEF SetCheck
<1>2. \A s \in Sessions : (Opened(s)' <=> Opened(s)) /\ EndOf(s)' = EndOf(s)
  BY DEF Opened, EndOf, expires_at
<1>3. \A d \in Checks : check'[d] = IF d = c THEN k ELSE check[d]
  BY <1>1 DEF IInv, Shapes
<1>4. ReadBounded'
  BY <1>2, <1>3 DEF IInv, ReadBounded, Opened, EndOf, expires_at
<1>5. AcceptedInTime'
  BY <1>3 DEF IInv, ReadBounded, AcceptedInTime, EndOf, expires_at
<1> QED
  BY <1>4, <1>5 DEF IInv

LEMMA ReadStep ==
    ASSUME IInv, NEW c \in Checks, CheckRead(c)
    PROVE  IInv'
<1>1. PICK s \in Sessions :
        LET begun == [IdleCheck EXCEPT !.pc = "db", !.sess = s, !.late = s \in loggedOut]
        IN  /\ Opened(s) /\ token_exp(s) > now
            /\ \/ /\ token_state(Blocklisted(s), Cached(s)) = "Active"
                  /\ SetCheck(c, Accepted(begun))
               \/ /\ token_state(Blocklisted(s), Cached(s)) = "Unknown"
                  /\ SetCheck(c, begun)
  BY DEF CheckRead
<1> DEFINE begun == [IdleCheck EXCEPT !.pc = "db", !.sess = s, !.late = s \in loggedOut]
<1>2. PICK b : b = begun
  OBVIOUS
<1>3. b \in Check /\ b.pc = "db" /\ b.sess = s
  <2>1. IdleCheck \in Check
    BY DEF IdleCheck, Check
  <2>2. CASE s \in loggedOut
    <3>1. b = [IdleCheck EXCEPT !.pc = "db", !.sess = s, !.late = TRUE]
      BY <1>2, <2>2
    <3> QED
      BY <2>1, <3>1 DEF Check
  <2>3. CASE s \notin loggedOut
    <3>0. (s \in loggedOut) = FALSE
      BY <2>3, SMT
    <3>1. b = [IdleCheck EXCEPT !.pc = "db", !.sess = s, !.late = FALSE]
      BY <1>2, <3>0, Zenon
    <3> QED
      BY <2>1, <3>1 DEF Check
  <2> QED
    BY <2>2, <2>3
<1>4. PICK a : a = Accepted(b)
  OBVIOUS
<1>5. now \in Nat
  BY DEF IInv, Shapes
<1>6. a \in Check /\ a.pc = "accepted" /\ a.sess = s /\ a.at = now
  BY <1>3, <1>4, <1>5 DEF Accepted, Check
<1>7. UNCHANGED <<now, row, cache>>
  BY DEF CheckRead
<1>8. CacheBounded'
  BY <1>7 DEF IInv, CacheBounded, Opened, EndOf, expires_at
<1>9. CASE token_state(Blocklisted(s), Cached(s)) = "Active" /\ SetCheck(c, a)
  <2>1. Cached(s) \in {1, 2}
    BY <1>9, TokenStateAssumption DEF token_state
  <2>2. cache[s].value # 0 /\ cache[s].until > now
    BY <2>1, TokenStateAssumption DEF Cached
  <2>3. cache[s].until <= EndOf(s) + CacheTtl + MaxCheck /\ cache[s].until \in Nat
    BY <2>2 DEF IInv, CacheBounded, Shapes
  <2>4. EndOf(s) \in Nat
    BY <1>1, EndType DEF IInv
  <2>5. now < EndOf(s) + CacheTtl + MaxCheck
    BY <1>5, <2>2, <2>3, <2>4, TokenStateAssumption
  <2>6. Shapes'
    BY <1>6, <1>7, <1>9 DEF IInv, Shapes, SetCheck
  <2> QED
    BY <1>1, <1>5, <1>6, <1>7, <1>8, <1>9, <2>5, <2>6, CheckStep
<1>10. CASE SetCheck(c, b)
  <2>1. Shapes'
    BY <1>3, <1>7, <1>10 DEF IInv, Shapes, SetCheck
  <2> QED
    BY <1>1, <1>3, <1>7, <1>8, <1>10, <2>1, CheckStep
<1> QED
  BY <1>1, <1>2, <1>4, <1>9, <1>10

LEMMA DbStep ==
    ASSUME IInv, NEW c \in Checks, CheckDb(c)
    PROVE  IInv'
<1>1. PICK k \in Check : k = check[c]
  BY DEF IInv, Shapes
<1>2. k.pc = "db" /\ k.sess \in Sessions /\ Opened(k.sess)
  BY <1>1 DEF CheckDb, IInv, ReadBounded
<1>3. PICK x : x = [k EXCEPT !.pc = "set", !.active = is_active(k.sess), !.readAt = now]
  OBVIOUS
<1>4. now \in Nat /\ is_active(k.sess) \in BOOLEAN
  BY DEF IInv, Shapes, is_active
<1>5. /\ x \in Check /\ x.pc = "set" /\ x.sess = k.sess
      /\ x.active = is_active(k.sess) /\ x.readAt = now
  BY <1>3, <1>4 DEF Check
<1>6. SetCheck(c, x) /\ UNCHANGED <<now, row, cache>>
  BY <1>1, <1>3 DEF CheckDb
<1>7. x.active => x.readAt <= now /\ x.readAt <= EndOf(x.sess)
  <2>1. PICK s \in Sessions : s = k.sess /\ Opened(s)
    BY <1>2
  <2>2. is_active(s) => now <= EndOf(s)
    BY <2>1, EndType DEF IInv
  <2> QED
    BY <1>4, <1>5, <2>1, <2>2
<1>8. CacheBounded'
  BY <1>6 DEF IInv, CacheBounded, Opened, EndOf, expires_at
<1>9. Shapes'
  BY <1>5, <1>6 DEF IInv, Shapes, SetCheck
<1> QED
  BY <1>2, <1>5, <1>6, <1>7, <1>8, <1>9, CheckStep

LEMMA EndsStep ==
    ASSUME IInv, NEW c \in Checks, CheckEnds(c)
    PROVE  IInv'
<1>1. IdleCheck \in Check /\ IdleCheck.pc = "idle"
  BY DEF IdleCheck, Check
<1>2. SetCheck(c, IdleCheck) /\ UNCHANGED <<now, row, cache>>
  BY DEF CheckEnds
<1>3. CacheBounded'
  BY <1>2 DEF IInv, CacheBounded, Opened, EndOf, expires_at
<1>4. Shapes'
  BY <1>1, <1>2 DEF IInv, Shapes, SetCheck
<1> QED
  BY <1>1, <1>2, <1>3, <1>4, CheckStep

LEMMA SetStep ==
    ASSUME IInv, NEW c \in Checks, CheckSet(c)
    PROVE  IInv'
<1>1. PICK k \in Check : k = check[c]
  BY DEF IInv, Shapes
<1>2. k.pc = "set" /\ k.sess \in Sessions /\ Opened(k.sess)
  BY <1>1 DEF CheckSet, IInv, ReadBounded
<1>3. now \in Nat /\ k.readAt \in Nat /\ now <= k.readAt + MaxCheck /\ EndOf(k.sess) \in Nat
  BY <1>1, <1>2, EndType DEF IInv, Shapes, CheckSet, Check
<1>4. k.active => now <= EndOf(k.sess) + MaxCheck
  BY <1>1, <1>2, <1>3, TokenStateAssumption DEF IInv, ReadBounded
<1>5. PICK w : w = [value |-> cached_value(k.active, k.sess \in FirstParty), until |-> now + CacheTtl]
  OBVIOUS
<1>6. k.active \in BOOLEAN
  BY <1>1 DEF Check
<1>7. /\ w \in [value: CachedValues, until: Nat] /\ w.until = now + CacheTtl
      /\ w.value # 0 => k.active
  BY <1>3, <1>5, <1>6, TokenStateAssumption DEF cached_value, CachedValues
<1>8. \/ cache' = [cache EXCEPT ![k.sess] = w]
      \/ UNCHANGED cache
  BY <1>1, <1>5 DEF CheckSet
<1>9. UNCHANGED <<now, row>>
  BY DEF CheckSet
<1>10. CacheBounded'
  <2>1. \A s \in Sessions : cache'[s] = cache[s] \/ (s = k.sess /\ cache'[s] = w)
    BY <1>8 DEF IInv, Shapes
  <2>2. SUFFICES ASSUME NEW s \in Sessions, cache'[s].value # 0
                 PROVE  /\ Opened(s)
                        /\ cache'[s].until <= now + CacheTtl
                        /\ cache'[s].until <= EndOf(s) + CacheTtl + MaxCheck
    BY <1>9 DEF CacheBounded, Opened, EndOf, expires_at
  <2>3. CASE cache'[s] = cache[s]
    BY <2>2, <2>3 DEF IInv, CacheBounded
  <2>4. CASE s = k.sess /\ cache'[s] = w
    BY <1>2, <1>3, <1>4, <1>7, <2>2, <2>4, TokenStateAssumption
  <2> QED
    BY <2>1, <2>3, <2>4
<1>11. PICK x : x = IF k.active THEN Accepted(k) ELSE IdleCheck
  OBVIOUS
<1>12. /\ x \in Check /\ x.pc # "set"
       /\ x.pc # "idle" => k.active /\ x.sess = k.sess /\ x.at = now
  BY <1>3, <1>11 DEF Accepted, IdleCheck, Check
<1>13. SetCheck(c, x)
  BY <1>1, <1>11 DEF CheckSet
<1>14. Shapes'
  BY <1>7, <1>8, <1>9, <1>12, <1>13 DEF IInv, Shapes, SetCheck
<1>15. x.pc = "accepted" => x.at <= now /\ x.at < EndOf(x.sess) + CacheTtl + MaxCheck
  BY <1>3, <1>4, <1>12, TokenStateAssumption
<1> QED
  BY <1>2, <1>9, <1>10, <1>12, <1>13, <1>14, <1>15, CheckStep

-----------------------------------------------------------------------------
\* A step that leaves the checks and the cache alone, and moves no session's end
\* before an instant that already passed.
LEMMA RowStep ==
    ASSUME IInv, UNCHANGED <<now, cache, check>>, Shapes',
           \A s \in Sessions : Opened(s) =>
               /\ Opened(s)'
               /\ EndOf(s)' \in Nat
               /\ EndOf(s)' = EndOf(s) \/ (EndOf(s)' = now /\ now <= EndOf(s))
    PROVE  IInv'
<1>1. now \in Nat /\ \A s \in Sessions : cache[s].until \in Nat
  BY DEF IInv, Shapes
<1>2. \A c \in Checks : check[c].at \in Nat /\ check[c].readAt \in Nat
  BY DEF IInv, Shapes, Check
<1>3. \A s \in Sessions : Opened(s) => EndOf(s) \in Nat
  BY EndType DEF IInv
<1>4. CacheBounded'
  BY <1>1, <1>3, TokenStateAssumption DEF IInv, CacheBounded
<1>5. ReadBounded'
  BY <1>1, <1>2, <1>3 DEF IInv, ReadBounded
<1>6. AcceptedInTime'
  BY <1>1, <1>2, <1>3, TokenStateAssumption DEF IInv, ReadBounded, AcceptedInTime
<1> QED
  BY <1>4, <1>5, <1>6 DEF IInv

LEMMA OpenStep ==
    ASSUME IInv, NEW s \in Sessions, Open(s)
    PROVE  IInv'
<1>1. /\ ~Opened(s) /\ row' = [row EXCEPT ![s].opened = now]
      /\ UNCHANGED <<now, cache, check>>
  BY DEF Open
<1>2. \A t \in Sessions : Opened(t) => row'[t] = row[t]
  BY <1>1 DEF IInv, Shapes
<1>3. Shapes'
  BY <1>1 DEF IInv, Shapes, Times
<1>4. \A t \in Sessions : Opened(t) => EndOf(t) \in Nat
  BY EndType DEF IInv
<1>5. \A t \in Sessions : Opened(t) => Opened(t)' /\ EndOf(t)' = EndOf(t)
  BY <1>2 DEF Opened, EndOf, expires_at
<1> QED
  BY <1>1, <1>3, <1>4, <1>5, RowStep

LEMMA CommitStep ==
    ASSUME IInv, NEW h \in Handlers, RevokeCommit(h)
    PROVE  IInv'
<1>1. UNCHANGED <<now, cache, check>>
  BY DEF RevokeCommit
<1>2. \A s \in Sessions :
        \/ row'[s] = row[s]
        \/ row[s].revoked = Never /\ row'[s] = [row[s] EXCEPT !.revoked = now]
  BY DEF RevokeCommit
<1>3. \A s \in Sessions : /\ row[s] \in [opened: Times, revoked: Times]
                          /\ now \in Nat /\ now \in Times
  BY DEF IInv, Shapes, Times
<1>4. Shapes'
  <2>1. \A s \in Sessions : row'[s] \in [opened: Times, revoked: Times]
    BY <1>2, <1>3
  <2>2. row' \in [Sessions -> [opened: Times, revoked: Times]]
    BY <2>1 DEF RevokeCommit
  <2> QED
    BY <1>1, <2>2 DEF IInv, Shapes
<1>5. ASSUME NEW s \in Sessions, Opened(s)
      PROVE  /\ Opened(s)'
             /\ EndOf(s)' \in Nat
             /\ EndOf(s)' = EndOf(s) \/ (EndOf(s)' = now /\ now <= EndOf(s))
  <2>1. EndOf(s) \in Nat /\ expires_at(s) \in Nat
    BY <1>5, EndType DEF IInv
  <2>2. CASE row'[s] = row[s]
    BY <1>5, <2>1, <2>2 DEF Opened, EndOf, expires_at
  <2>3. CASE row[s].revoked = Never /\ row'[s] = [row[s] EXCEPT !.revoked = now]
    <3>1. row'[s].opened = row[s].opened /\ row'[s].revoked = now
      BY <1>3, <2>3
    <3>2. EndOf(s) = expires_at(s) /\ expires_at(s)' = expires_at(s)
      BY <2>3, <3>1 DEF EndOf, expires_at
    <3>3. EndOf(s)' = IF now < expires_at(s) THEN now ELSE expires_at(s)
      BY <1>3, <3>1, <3>2 DEF EndOf, Never
    <3> QED
      BY <1>3, <1>5, <2>1, <3>1, <3>2, <3>3 DEF Opened
  <2> QED
    BY <1>2, <2>2, <2>3
<1> QED
  BY <1>1, <1>4, <1>5, RowStep

\* invalidate_session_caches only writes "ended".
LEMMA MarkStep ==
    ASSUME IInv, NEW h \in Handlers, RevokeMark(h)
    PROVE  IInv'
<1>1. UNCHANGED <<now, row, check>>
  BY DEF RevokeMark
<1>2. PICK ok \in BOOLEAN :
        cache' = [s \in Sessions |-> IF ok /\ s \in handler[h].listed
                                     THEN [value |-> 0, until |-> now + CacheTtl]
                                     ELSE cache[s]]
  BY DEF RevokeMark
<1>3. \A s \in Sessions : cache'[s] = cache[s] \/ cache'[s].value = 0
  BY <1>2
<1>4. Shapes'
  BY <1>1, <1>2, TokenStateAssumption DEF IInv, Shapes, CachedValues
<1>5. CacheBounded'
  BY <1>1, <1>3 DEF IInv, CacheBounded, Opened, EndOf, expires_at
<1>6. ReadBounded' /\ AcceptedInTime'
  BY <1>1 DEF IInv, ReadBounded, AcceptedInTime, Opened, EndOf, expires_at
<1> QED
  BY <1>4, <1>5, <1>6 DEF IInv

LEMMA TickStep ==
    ASSUME IInv, Tick
    PROVE  IInv'
<1>1. now' = now + 1 /\ now \in Nat /\ UNCHANGED <<row, cache, check>>
  BY DEF Tick, IInv, Shapes
<1>2. /\ \A s \in Sessions : cache[s].until \in Nat
      /\ \A c \in Checks : check[c].at \in Nat /\ check[c].readAt \in Nat
  BY DEF IInv, Shapes, Check
<1>3. Shapes'
  BY <1>1 DEF IInv, Shapes
<1>4. CacheBounded'
  BY <1>1, <1>2, TokenStateAssumption DEF IInv, CacheBounded, Opened, EndOf, expires_at
<1>5. ReadBounded'
  BY <1>1, <1>2 DEF IInv, ReadBounded, Opened, EndOf, expires_at
<1>6. AcceptedInTime'
  BY <1>1, <1>2 DEF IInv, AcceptedInTime, EndOf, expires_at
<1> QED
  BY <1>3, <1>4, <1>5, <1>6 DEF IInv

LEMMA InvStep == IInv /\ [Next]_vars => IInv'
<1> SUFFICES ASSUME IInv, [Next]_vars PROVE IInv'
  OBVIOUS
<1> DEFINE quiet == UNCHANGED <<now, row, cache, check>>
<1>1. ASSUME quiet PROVE IInv'
  BY <1>1 DEF IInv, Shapes, CacheBounded, ReadBounded, AcceptedInTime, Opened, EndOf, expires_at
<1>2. ASSUME NEW s \in Sessions, Open(s) PROVE IInv'
  BY <1>2, OpenStep
<1>3. ASSUME NEW c \in Checks, CheckRead(c) \/ CheckDb(c) \/ CheckSet(c) \/ CheckEnds(c)
      PROVE  IInv'
  BY <1>3, ReadStep, DbStep, SetStep, EndsStep
<1>4. ASSUME NEW h \in Handlers, RevokeBegin(h) \/ RevokeBlock(h) \/ RevokeAborts(h)
      PROVE  IInv'
  <2>1. quiet
    BY <1>4 DEF RevokeBegin, RevokeBlock, RevokeAborts
  <2> QED
    BY <1>1, <2>1
<1>5. ASSUME NEW h \in Handlers, RevokeCommit(h) \/ RevokeMark(h) PROVE IInv'
  BY <1>5, CommitStep, MarkStep
<1>6. CASE Tick
  BY <1>6, TickStep
<1>7. CASE UNCHANGED vars
  BY <1>1, <1>7 DEF vars
<1> QED
  BY <1>2, <1>3, <1>4, <1>5, <1>6, <1>7 DEF Next

\* verify_token_state accepts no token later than the cache lifetime and the
\* duration of a request after its session ended, for any number of sessions,
\* requests and revocations.
THEOREM StalenessBounded == Spec => []BoundedStaleness
<1>1. IInv => BoundedStaleness
  BY DEF IInv, AcceptedInTime, BoundedStaleness
<1> QED
  BY <1>1, InvInit, InvStep, PTL DEF Spec
-----------------------------------------------------------------------------
(***************************************************************************)
(* What an answered revocation promises.  A session that is marked keeps   *)
(* its marker until every check that read it as active has had to write or *)
(* give up; and no check begins on a token that is on the blocklist.       *)
(***************************************************************************)
\* s has ended, its marker outlasts the checks that read it as active.
Marked(s) ==
    /\ row[s].revoked # Never
    /\ MaxCheck < CacheTtl =>
        /\ cache[s].value = 0
        /\ \A c \in Checks :
             check[c].pc = "set" /\ check[c].active /\ check[c].sess = s =>
                 cache[s].until > check[c].readAt + MaxCheck

\* What a handler of a revocation knows of the sessions it ended.
RevocationOK ==
    /\ handler \in [Handlers -> Handler]
    /\ \A h \in Handlers : handler[h].pc # "idle" =>
        /\ \A s \in handler[h].listed : Opened(s)
        /\ handler[h].pc = "block" => handler[h].kind = "logout"
        /\ handler[h].pc \in {"mark", "block"} =>
             /\ \A s \in handler[h].ended : row[s].revoked # Never
             /\ handler[h].kind = "logout" => \A s \in handler[h].listed : row[s].revoked # Never

MarkersKept ==
    /\ answered \subseteq Sessions
    /\ \A s \in answered : Marked(s)
    /\ \A h \in Handlers : handler[h].pc = "block" /\ handler[h].ok =>
         \A s \in handler[h].listed : Marked(s)

\* A token that was logged out is on the blocklist for as long as it lives.
BlocklistKept ==
    /\ loggedOut \subseteq Sessions
    /\ \A s \in loggedOut : Opened(s) /\ (token_exp(s) > now => blocked[s] = token_exp(s))
    /\ \A c \in Checks : ~check[c].late

SeenInv == RevocationOK /\ MarkersKept /\ BlocklistKept

LEMMA SeenInit == Init => SeenInv
<1> SUFFICES ASSUME Init PROVE SeenInv
  OBVIOUS
<1>1. IdleHandler \in Handler /\ IdleHandler.pc = "idle"
  BY DEF IdleHandler, Handler
<1>2. RevocationOK /\ MarkersKept
  BY <1>1 DEF Init, RevocationOK, MarkersKept
<1>3. BlocklistKept
  BY DEF Init, BlocklistKept, IdleCheck
<1> QED
  BY <1>2, <1>3 DEF SeenInv

\* The checks move, the revocations do not: a session that is marked stays so if no
\* check begins to read it as active, and what is written over a marker is a later one.
LEMMA SeenCheckStep ==
    ASSUME SeenInv, IInv, NEW c \in Checks, NEW k \in Check, SetCheck(c, k),
           UNCHANGED <<now, row, blocked, handler, answered, loggedOut>>, ~k.late,
           \A s \in Sessions : Marked(s) =>
               /\ MaxCheck < CacheTtl => cache'[s].value = 0 /\ cache'[s].until >= cache[s].until
               /\ k.pc = "set" /\ k.sess = s => ~k.active,
           Shapes'
    PROVE  SeenInv'
<1>1. \A d \in Checks : check'[d] = IF d = c THEN k ELSE check[d]
  BY DEF IInv, Shapes, SetCheck
<1>2. /\ \A s \in Sessions : cache[s].until \in Nat /\ cache'[s].until \in Nat
      /\ \A d \in Checks : check[d].readAt \in Nat
  BY DEF IInv, Shapes, Check
<1>3. ASSUME NEW s \in Sessions, Marked(s) PROVE Marked(s)'
  BY <1>1, <1>2, <1>3, TokenStateAssumption DEF Marked
<1>4. \A h \in Handlers : handler[h].listed \subseteq Sessions
  BY DEF SeenInv, RevocationOK, Handler
<1>5. MarkersKept'
  BY <1>3, <1>4 DEF SeenInv, MarkersKept
<1>6. RevocationOK'
  BY DEF SeenInv, RevocationOK, Opened
<1>7. BlocklistKept'
  BY <1>1 DEF SeenInv, BlocklistKept, Opened, token_exp
<1> QED
  BY <1>5, <1>6, <1>7 DEF SeenInv

LEMMA SeenReadStep ==
    ASSUME SeenInv, IInv, IInv', NEW c \in Checks, CheckRead(c)
    PROVE  SeenInv'
<1>1. PICK s \in Sessions :
        LET begun == [IdleCheck EXCEPT !.pc = "db", !.sess = s, !.late = s \in loggedOut]
        IN  /\ Opened(s) /\ token_exp(s) > now
            /\ token_state(Blocklisted(s), Cached(s)) \in {"Active", "Unknown"}
            /\ SetCheck(c, Accepted(begun)) \/ SetCheck(c, begun)
  BY DEF CheckRead
<1>2. s \notin loggedOut
  <2>1. SUFFICES ASSUME s \in loggedOut PROVE FALSE
    OBVIOUS
  <2>2. blocked[s] = token_exp(s)
    BY <1>1, <2>1 DEF SeenInv, BlocklistKept
  <2>3. Blocklisted(s)
    BY <1>1, <2>2 DEF Blocklisted
  <2>4. token_state(Blocklisted(s), Cached(s)) = "Revoked"
    BY <2>3 DEF token_state
  <2> QED
    BY <1>1, <2>4
<1>3. (s \in loggedOut) = FALSE
  BY <1>2, SMT
<1>4. PICK b : b = [IdleCheck EXCEPT !.pc = "db", !.sess = s, !.late = FALSE]
  OBVIOUS
<1>5. b \in Check /\ b.pc = "db" /\ ~b.late
  BY <1>4 DEF IdleCheck, Check
<1>6. now \in Nat
  BY DEF IInv, Shapes
<1>7. Accepted(b) \in Check /\ Accepted(b).pc = "accepted" /\ ~Accepted(b).late
  BY <1>5, <1>6 DEF Accepted, Check
<1>8. SetCheck(c, Accepted(b)) \/ SetCheck(c, b)
  BY <1>1, <1>3, <1>4, Zenon
<1>9. UNCHANGED <<now, row, cache, blocked, handler, answered, loggedOut>>
  BY DEF CheckRead
<1>10. \A t \in Sessions : Marked(t) =>
         (MaxCheck < CacheTtl => cache'[t].value = 0 /\ cache'[t].until >= cache[t].until)
  BY <1>9 DEF Marked, IInv, Shapes
<1>11. CASE SetCheck(c, Accepted(b))
  BY <1>7, <1>9, <1>10, <1>11, SeenCheckStep DEF IInv
<1>12. CASE SetCheck(c, b)
  BY <1>5, <1>9, <1>10, <1>12, SeenCheckStep DEF IInv
<1> QED
  BY <1>8, <1>11, <1>12

LEMMA SeenDbStep ==
    ASSUME SeenInv, IInv, IInv', NEW c \in Checks, CheckDb(c)
    PROVE  SeenInv'
<1>1. PICK k \in Check : k = check[c]
  BY DEF IInv, Shapes
<1>2. PICK x : x = [k EXCEPT !.pc = "set", !.active = is_active(k.sess), !.readAt = now]
  OBVIOUS
<1>3. now \in Nat /\ is_active(k.sess) \in BOOLEAN
  BY DEF IInv, Shapes, is_active
<1>4. /\ x \in Check /\ x.sess = k.sess /\ x.active = is_active(k.sess) /\ x.late = k.late
  BY <1>2, <1>3 DEF Check
<1>5. SetCheck(c, x) /\ UNCHANGED <<now, row, cache, blocked, handler, answered, loggedOut>>
  BY <1>1, <1>2 DEF CheckDb
<1>6. ~x.late
  BY <1>1, <1>4 DEF SeenInv, BlocklistKept
<1>7. \A s \in Sessions : Marked(s) => ~is_active(s)
  BY DEF Marked, is_active
<1>8. \A s \in Sessions : Marked(s) =>
        (MaxCheck < CacheTtl => cache'[s].value = 0 /\ cache'[s].until >= cache[s].until)
  BY <1>5 DEF Marked, IInv, Shapes
<1> QED
  BY <1>4, <1>5, <1>6, <1>7, <1>8, SeenCheckStep DEF IInv

\* SET NX writes over no marker that is still there, and when it is gone no check is
\* left that read the session as active.
LEMMA SeenSetStep ==
    ASSUME SeenInv, IInv, IInv', NEW c \in Checks, CheckSet(c)
    PROVE  SeenInv'
<1>1. PICK k \in Check : k = check[c]
  BY DEF IInv, Shapes
<1>2. k.pc = "set" /\ k.sess \in Sessions /\ now <= k.readAt + MaxCheck /\ ~k.late
  BY <1>1 DEF CheckSet, IInv, ReadBounded, SeenInv, BlocklistKept
<1>3. now \in Nat /\ k.readAt \in Nat /\ k.active \in BOOLEAN
  BY <1>1 DEF IInv, Shapes, Check
<1>4. PICK w : w = [value |-> cached_value(k.active, k.sess \in FirstParty), until |-> now + CacheTtl]
  OBVIOUS
<1>5. w.until = now + CacheTtl /\ (~k.active => w.value = 0)
  BY <1>4 DEF cached_value
<1>6. \/ Cached(k.sess) = None /\ cache' = [cache EXCEPT ![k.sess] = w]
      \/ UNCHANGED cache
  BY <1>1, <1>4 DEF CheckSet
<1>7. PICK x : x = IF k.active THEN Accepted(k) ELSE IdleCheck
  OBVIOUS
<1>8. x \in Check /\ x.pc # "set" /\ ~x.late
  BY <1>2, <1>3, <1>7 DEF Accepted, IdleCheck, Check
<1>9. SetCheck(c, x) /\ UNCHANGED <<now, row, blocked, handler, answered, loggedOut>>
  BY <1>1, <1>7 DEF CheckSet
<1>10. \A s \in Sessions : cache[s].until \in Nat /\ cache[s].value \in {0, 1, 2}
  BY DEF IInv, Shapes, CachedValues
<1>11. ASSUME NEW s \in Sessions, Marked(s), MaxCheck < CacheTtl
       PROVE  cache'[s].value = 0 /\ cache'[s].until >= cache[s].until
  <2>1. CASE UNCHANGED cache
    BY <1>10, <1>11, <2>1 DEF Marked
  <2>2. CASE Cached(k.sess) = None /\ cache' = [cache EXCEPT ![k.sess] = w] /\ s = k.sess
    <3>1. cache[s].until <= now
      BY <1>3, <1>10, <2>2, TokenStateAssumption DEF Cached
    <3>2. ~k.active
      BY <1>1, <1>2, <1>3, <1>10, <1>11, <2>2, <3>1, TokenStateAssumption DEF Marked
    <3>3. cache'[s] = w
      BY <2>2 DEF IInv, Shapes
    <3> QED
      BY <1>3, <1>5, <1>10, <3>1, <3>2, <3>3, TokenStateAssumption
  <2>3. CASE cache' = [cache EXCEPT ![k.sess] = w] /\ s # k.sess
    <3>1. cache'[s] = cache[s]
      BY <2>3 DEF IInv, Shapes
    <3> QED
      BY <1>10, <1>11, <3>1 DEF Marked
  <2> QED
    BY <1>6, <2>1, <2>2, <2>3
<1> QED
  BY <1>8, <1>9, <1>11, SeenCheckStep DEF IInv

LEMMA SeenEndsStep ==
    ASSUME SeenInv, IInv, IInv', NEW c \in Checks, CheckEnds(c)
    PROVE  SeenInv'
<1>1. IdleCheck \in Check /\ IdleCheck.pc = "idle" /\ ~IdleCheck.late
  BY DEF IdleCheck, Check
<1>2. SetCheck(c, IdleCheck) /\ UNCHANGED <<now, row, cache, blocked, handler, answered, loggedOut>>
  BY DEF CheckEnds
<1>3. \A s \in Sessions : Marked(s) =>
        (MaxCheck < CacheTtl => cache'[s].value = 0 /\ cache'[s].until >= cache[s].until)
  BY <1>2 DEF Marked, IInv, Shapes
<1> QED
  BY <1>1, <1>2, <1>3, SeenCheckStep DEF IInv

-----------------------------------------------------------------------------
\* A handler moves, and the sessions it now answers for are marked.
LEMMA SeenHandlerStep ==
    ASSUME SeenInv, NEW h \in Handlers, NEW q \in Handler, SetHandler(h, q),
           UNCHANGED <<check, now>>, BlocklistKept', answered' \subseteq Sessions,
           \A s \in Sessions : (Opened(s) => Opened(s)')
                            /\ (row[s].revoked # Never => row'[s].revoked # Never)
                            /\ (Marked(s) => Marked(s)'),
           q.pc # "idle" =>
               /\ \A s \in q.listed : Opened(s)'
               /\ q.pc = "block" => q.kind = "logout"
               /\ q.pc \in {"mark", "block"} =>
                    /\ \A s \in q.ended : row'[s].revoked # Never
                    /\ q.kind = "logout" => \A s \in q.listed : row'[s].revoked # Never,
           q.pc = "block" /\ q.ok => \A s \in q.listed : Marked(s)',
           \A s \in answered' \ answered : Marked(s)'
    PROVE  SeenInv'
<1>1. \A g \in Handlers : handler'[g] = IF g = h THEN q ELSE handler[g]
  BY DEF SetHandler, SeenInv, RevocationOK
<1>2. handler' \in [Handlers -> Handler]
  BY DEF SetHandler, SeenInv, RevocationOK
<1>3. \A g \in Handlers : handler[g].listed \subseteq Sessions /\ handler[g].ended \subseteq Sessions
  BY DEF SeenInv, RevocationOK, Handler
<1>4. ASSUME NEW g \in Handlers, handler'[g].pc # "idle"
      PROVE  /\ \A s \in handler'[g].listed : Opened(s)'
             /\ handler'[g].pc = "block" => handler'[g].kind = "logout"
             /\ handler'[g].pc \in {"mark", "block"} =>
                  /\ \A s \in handler'[g].ended : row'[s].revoked # Never
                  /\ handler'[g].kind = "logout" =>
                       \A s \in handler'[g].listed : row'[s].revoked # Never
  <2>1. CASE g = h
    BY <1>1, <1>4, <2>1
  <2>2. CASE g # h
    BY <1>1, <1>3, <1>4, <2>2 DEF SeenInv, RevocationOK
  <2> QED
    BY <2>1, <2>2
<1>5. RevocationOK'
  BY <1>2, <1>4 DEF RevocationOK
<1>6. MarkersKept'
  BY <1>1, <1>3 DEF SeenInv, MarkersKept
<1> QED
  BY <1>5, <1>6 DEF SeenInv

LEMMA IdleHandlerType == IdleHandler \in Handler /\ IdleHandler.pc = "idle"
BY DEF IdleHandler, Handler

\* A step that leaves the rows, the cache and the checks leaves the marks.
LEMMA SameMarks ==
    ASSUME UNCHANGED <<row, cache, check>>
    PROVE  \A s \in Sessions : (Opened(s)' <=> Opened(s)) /\ (Marked(s)' <=> Marked(s))
                            /\ token_exp(s)' = token_exp(s)
BY DEF Opened, Marked, token_exp

LEMMA SeenBeginStep ==
    ASSUME SeenInv, NEW h \in Handlers, RevokeBegin(h)
    PROVE  SeenInv'
<1>1. PICK kind \in Kinds, s \in Sessions :
        /\ Opened(s)
        /\ SetHandler(h, [IdleHandler EXCEPT !.pc = "revoke", !.kind = kind,
                !.listed = IF kind \in OneSession THEN {s}
                           ELSE {t \in Sessions : Opened(t) /\ row[t].revoked = Never}])
  BY DEF RevokeBegin
<1>2. PICK l : l = IF kind \in OneSession THEN {s}
                   ELSE {t \in Sessions : Opened(t) /\ row[t].revoked = Never}
  OBVIOUS
<1>3. l \subseteq Sessions /\ \A t \in l : Opened(t)
  BY <1>1, <1>2
<1>4. PICK q : q = [IdleHandler EXCEPT !.pc = "revoke", !.kind = kind, !.listed = l]
  OBVIOUS
<1>5. q \in Handler /\ q.pc = "revoke" /\ q.listed = l
  BY <1>3, <1>4 DEF IdleHandler, Handler
<1>6. SetHandler(h, q)
  BY <1>1, <1>2, <1>4
<1>7. UNCHANGED <<now, row, cache, blocked, check, answered, loggedOut>>
  BY DEF RevokeBegin
<1>8. BlocklistKept'
  BY <1>7, SameMarks DEF SeenInv, BlocklistKept
<1> QED
  BY <1>3, <1>5, <1>6, <1>7, <1>8, SameMarks, SeenHandlerStep DEF SeenInv, MarkersKept

LEMMA SeenCommitStep ==
    ASSUME SeenInv, IInv, NEW h \in Handlers, RevokeCommit(h)
    PROVE  SeenInv'
<1>1. PICK q \in Handler : q = handler[h] /\ q.pc = "revoke"
  BY DEF SeenInv, RevocationOK, RevokeCommit
<1>2. PICK hit : hit = {s \in Sessions : Opened(s) /\ row[s].revoked = Never /\
                           (q.kind \in OneSession => s \in q.listed)}
  OBVIOUS
<1>3. row' = [s \in Sessions |-> IF s \in hit THEN [row[s] EXCEPT !.revoked = now] ELSE row[s]]
  BY <1>1, <1>2 DEF RevokeCommit
<1>4. \A s \in Sessions : now \in Nat /\ row[s] \in [opened: Times, revoked: Times]
  BY DEF IInv, Shapes
<1>5. ASSUME NEW s \in Sessions
      PROVE  /\ row'[s].opened = row[s].opened
             /\ s \in hit => row'[s].revoked = now
             /\ s \notin hit => row'[s].revoked = row[s].revoked
  BY <1>3, <1>4
<1>6. UNCHANGED <<now, cache, blocked, check, answered, loggedOut>>
  BY DEF RevokeCommit
<1>7. hit \subseteq Sessions /\ \A s \in hit : row'[s].revoked # Never
  BY <1>2, <1>4, <1>5 DEF Never
<1>8. \A s \in Sessions : /\ Opened(s)' <=> Opened(s)
                          /\ row[s].revoked # Never => row'[s].revoked # Never
                          /\ Marked(s) => Marked(s)'
                          /\ token_exp(s)' = token_exp(s)
  BY <1>4, <1>5, <1>6, <1>7 DEF Opened, Marked, token_exp
<1>9. BlocklistKept'
  BY <1>6, <1>8 DEF SeenInv, BlocklistKept
<1>10. answered' \subseteq Sessions
  BY <1>6 DEF SeenInv, MarkersKept
<1>11. q.listed \subseteq Sessions /\ \A s \in q.listed : Opened(s)
  BY <1>1 DEF SeenInv, RevocationOK, Handler
<1>12. CASE q.kind = "rotate"
  <2>1. SetHandler(h, IdleHandler)
    BY <1>1, <1>12 DEF RevokeCommit
  <2> QED
    BY <1>6, <1>8, <1>9, <1>10, <2>1, IdleHandlerType, SeenHandlerStep
<1>13. CASE q.kind # "rotate"
  <2>1. PICK l : l = IF q.kind = "returning" THEN hit ELSE q.listed
    OBVIOUS
  <2>2. PICK x : x = [q EXCEPT !.pc = "mark", !.ended = hit, !.listed = l]
    OBVIOUS
  <2>3. SetHandler(h, x)
    BY <1>1, <1>2, <1>13, <2>1, <2>2 DEF RevokeCommit
  <2>4. l \subseteq Sessions /\ \A s \in l : Opened(s)'
    BY <1>2, <1>8, <1>11, <2>1
  <2>5. x \in Handler /\ x.pc = "mark" /\ x.ended = hit /\ x.listed = l /\ x.kind = q.kind
    BY <1>7, <2>2, <2>4 DEF Handler
  <2>6. ASSUME q.kind = "logout", NEW s \in l PROVE row'[s].revoked # Never
    BY <1>2, <1>5, <1>7, <1>11, <2>1, <2>6 DEF OneSession
  <2> QED
    BY <1>6, <1>7, <1>8, <1>9, <1>10, <2>3, <2>4, <2>5, <2>6, SeenHandlerStep
<1> QED
  BY <1>12, <1>13

LEMMA SeenMarkStep ==
    ASSUME SeenInv, IInv, NEW h \in Handlers, RevokeMark(h)
    PROVE  SeenInv'
<1>1. PICK q \in Handler : q = handler[h] /\ q.pc = "mark"
  BY DEF SeenInv, RevocationOK, RevokeMark
<1>2. PICK ok \in BOOLEAN :
        /\ cache' = [s \in Sessions |-> IF ok /\ s \in q.listed
                                        THEN [value |-> 0, until |-> now + CacheTtl] ELSE cache[s]]
        /\ IF q.kind = "logout"
           THEN SetHandler(h, [q EXCEPT !.pc = "block", !.ok = ok]) /\ UNCHANGED answered
           ELSE /\ SetHandler(h, IdleHandler)
                /\ answered' = IF ok THEN answered \cup (q.ended \cap q.listed) ELSE answered
  BY <1>1 DEF RevokeMark
<1>3. UNCHANGED <<now, row, blocked, check, loggedOut>>
  BY DEF RevokeMark
<1>4. /\ q.listed \subseteq Sessions /\ q.ended \subseteq Sessions
      /\ \A s \in q.listed : Opened(s)
      /\ \A s \in q.ended : row[s].revoked # Never
      /\ q.kind = "logout" => \A s \in q.listed : row[s].revoked # Never
  BY <1>1 DEF SeenInv, RevocationOK, Handler
<1>5. /\ now \in Nat /\ \A s \in Sessions : cache[s].until \in Nat
      /\ \A c \in Checks : check[c].readAt \in Nat /\ check[c].active \in BOOLEAN
  BY DEF IInv, Shapes, Check
<1>6. \A c \in Checks : check[c].pc = "set" /\ check[c].active => check[c].readAt <= now
  BY DEF IInv, ReadBounded
<1>7. \A s \in Sessions : /\ ok /\ s \in q.listed =>
                              cache'[s].value = 0 /\ cache'[s].until = now + CacheTtl
                          /\ ~(ok /\ s \in q.listed) => cache'[s] = cache[s]
  BY <1>2
<1>8. ASSUME NEW s \in Sessions, ok, s \in q.listed, row[s].revoked # Never
      PROVE  Marked(s)'
  <2>1. cache'[s].value = 0 /\ cache'[s].until = now + CacheTtl
    BY <1>7, <1>8
  <2>2. ASSUME NEW c \in Checks, check[c].pc = "set", check[c].active, MaxCheck < CacheTtl
        PROVE  now + CacheTtl > check[c].readAt + MaxCheck
    BY <1>5, <1>6, <2>2, TokenStateAssumption
  <2> QED
    BY <1>3, <1>8, <2>1, <2>2 DEF Marked
<1>9. ASSUME NEW s \in Sessions, Marked(s)
      PROVE  Marked(s)'
  <2>1. CASE ok /\ s \in q.listed
    BY <1>8, <1>9, <2>1 DEF Marked
  <2>2. CASE ~(ok /\ s \in q.listed)
    BY <1>3, <1>7, <1>9, <2>2 DEF Marked
  <2> QED
    BY <2>1, <2>2
<1>10. \A s \in Sessions : /\ Opened(s)' <=> Opened(s)
                           /\ row[s].revoked # Never => row'[s].revoked # Never
                           /\ token_exp(s)' = token_exp(s)
  BY <1>3 DEF Opened, token_exp
<1>11. BlocklistKept'
  BY <1>3, <1>10 DEF SeenInv, BlocklistKept
<1>12. answered \subseteq Sessions
  BY DEF SeenInv, MarkersKept
<1>13. CASE q.kind = "logout"
  <2>1. PICK x : x = [q EXCEPT !.pc = "block", !.ok = ok]
    OBVIOUS
  <2>2. x \in Handler /\ x.pc = "block" /\ x.kind = q.kind /\ x.listed = q.listed
        /\ x.ended = q.ended /\ x.ok = ok
    BY <2>1 DEF Handler
  <2>3. SetHandler(h, x) /\ answered' = answered
    BY <1>2, <1>13, <2>1
  <2> QED
    BY <1>3, <1>4, <1>8, <1>9, <1>10, <1>11, <1>12, <1>13, <2>2, <2>3, SeenHandlerStep
<1>14. CASE q.kind # "logout"
  <2>1. SetHandler(h, IdleHandler)
    BY <1>2, <1>14
  <2>2. answered' = IF ok THEN answered \cup (q.ended \cap q.listed) ELSE answered
    BY <1>2, <1>14
  <2>3. answered' \subseteq Sessions
    BY <1>4, <1>12, <2>2
  <2>4. \A s \in answered' \ answered : Marked(s)'
    BY <1>4, <1>8, <2>2
  <2> QED
    BY <1>3, <1>9, <1>10, <1>11, <2>1, <2>3, <2>4, IdleHandlerType, SeenHandlerStep
<1> QED
  BY <1>13, <1>14

LEMMA SeenBlockStep ==
    ASSUME SeenInv, IInv, NEW h \in Handlers, RevokeBlock(h)
    PROVE  SeenInv'
<1>1. PICK q \in Handler : q = handler[h] /\ q.pc = "block"
  BY DEF SeenInv, RevocationOK, RevokeBlock
<1>2. UNCHANGED <<now, row, cache, check>> /\ SetHandler(h, IdleHandler)
  BY DEF RevokeBlock
<1>3. \/ /\ blocked' = [s \in Sessions |->
               IF s \in q.listed /\ token_exp(s) > now THEN token_exp(s) ELSE blocked[s]]
         /\ answered' = IF q.ok THEN answered \cup q.listed ELSE answered
         /\ loggedOut' = loggedOut \cup q.listed
      \/ UNCHANGED <<blocked, answered, loggedOut>>
  BY <1>1 DEF RevokeBlock
<1>4. q.listed \subseteq Sessions /\ \A s \in q.listed : Opened(s)
  BY <1>1 DEF SeenInv, RevocationOK, Handler
<1>5. q.ok => \A s \in q.listed : Marked(s)
  BY <1>1 DEF SeenInv, MarkersKept
<1>6. BlocklistKept'
  BY <1>2, <1>3, <1>4, SameMarks DEF SeenInv, BlocklistKept
<1>7. answered' \subseteq Sessions /\ \A s \in answered' \ answered : Marked(s)'
  BY <1>2, <1>3, <1>4, <1>5, SameMarks DEF SeenInv, MarkersKept
<1> QED
  BY <1>2, <1>6, <1>7, SameMarks, IdleHandlerType, SeenHandlerStep

LEMMA SeenAbortStep ==
    ASSUME SeenInv, NEW h \in Handlers, RevokeAborts(h)
    PROVE  SeenInv'
<1>1. UNCHANGED <<now, row, cache, blocked, check, answered, loggedOut>> /\ SetHandler(h, IdleHandler)
  BY DEF RevokeAborts
<1>2. BlocklistKept' /\ answered' \subseteq Sessions
  BY <1>1, SameMarks DEF SeenInv, BlocklistKept, MarkersKept
<1> QED
  BY <1>1, <1>2, SameMarks, IdleHandlerType, SeenHandlerStep

LEMMA SeenOpenStep ==
    ASSUME SeenInv, IInv, NEW s \in Sessions, Open(s)
    PROVE  SeenInv'
<1>1. /\ ~Opened(s) /\ row' = [row EXCEPT ![s].opened = now]
      /\ UNCHANGED <<now, cache, blocked, check, handler, answered, loggedOut>>
  BY DEF Open
<1>2. \A t \in Sessions : row[t] \in [opened: Times, revoked: Times] /\ now \in Nat
  BY DEF IInv, Shapes
<1>3. \A t \in Sessions : /\ row'[t].revoked = row[t].revoked
                          /\ Opened(t) => row'[t].opened = row[t].opened
  BY <1>1, <1>2 DEF IInv, Shapes
<1>4. \A t \in Sessions : /\ Opened(t) => Opened(t)' /\ token_exp(t)' = token_exp(t)
                          /\ Marked(t) => Marked(t)'
  BY <1>1, <1>3 DEF Opened, token_exp, Marked
<1>5. \A h \in Handlers : handler[h].listed \subseteq Sessions /\ handler[h].ended \subseteq Sessions
  BY DEF SeenInv, RevocationOK, Handler
<1>6. RevocationOK'
  BY <1>1, <1>3, <1>4, <1>5 DEF SeenInv, RevocationOK
<1>7. MarkersKept'
  BY <1>1, <1>4, <1>5 DEF SeenInv, MarkersKept
<1>8. BlocklistKept'
  BY <1>1, <1>4 DEF SeenInv, BlocklistKept
<1> QED
  BY <1>6, <1>7, <1>8 DEF SeenInv

LEMMA SeenTickStep ==
    ASSUME SeenInv, IInv, Tick
    PROVE  SeenInv'
<1>1. /\ now \in Nat /\ now' = now + 1
      /\ UNCHANGED <<row, cache, blocked, check, handler, answered, loggedOut>>
  BY DEF Tick, IInv, Shapes
<1>2. \A s \in Sessions : Opened(s) => token_exp(s) \in Nat
  BY TokenStateAssumption DEF IInv, Shapes, Opened, Times, token_exp
<1>3. RevocationOK' /\ MarkersKept'
  BY <1>1, SameMarks DEF SeenInv, RevocationOK, MarkersKept, Opened, Marked
<1>4. BlocklistKept'
  BY <1>1, <1>2, SameMarks DEF SeenInv, BlocklistKept
<1> QED
  BY <1>3, <1>4 DEF SeenInv

LEMMA SeenStep == SeenInv /\ IInv /\ IInv' /\ [Next]_vars => SeenInv'
<1> SUFFICES ASSUME SeenInv, IInv, IInv', [Next]_vars PROVE SeenInv'
  OBVIOUS
<1>1. ASSUME NEW s \in Sessions, Open(s) PROVE SeenInv'
  BY <1>1, SeenOpenStep
<1>2. ASSUME NEW c \in Checks, CheckRead(c) \/ CheckDb(c) \/ CheckSet(c) \/ CheckEnds(c)
      PROVE  SeenInv'
  BY <1>2, SeenReadStep, SeenDbStep, SeenSetStep, SeenEndsStep
<1>3. ASSUME NEW h \in Handlers, \/ RevokeBegin(h) \/ RevokeCommit(h) \/ RevokeMark(h)
                                 \/ RevokeBlock(h) \/ RevokeAborts(h)
      PROVE  SeenInv'
  BY <1>3, SeenBeginStep, SeenCommitStep, SeenMarkStep, SeenBlockStep, SeenAbortStep
<1>4. CASE Tick
  BY <1>4, SeenTickStep
<1>5. CASE UNCHANGED vars
  BY <1>5 DEF vars, SeenInv, RevocationOK, MarkersKept, BlocklistKept, Opened, Marked, token_exp
<1> QED
  BY <1>1, <1>2, <1>3, <1>4, <1>5 DEF Next

\* An answered revocation is seen: for any number of sessions, requests and
\* revocations, whatever is dropped between its steps and whatever Redis loses, the
\* cache never says "active" again for a session that was ended and marked, and no
\* check begun after a logout was answered accepts its token.
THEOREM RevocationSeen == Spec => []RevocationIsSeen
<1>1. IInv /\ SeenInv => RevocationIsSeen
  BY DEF SeenInv, MarkersKept, Marked, BlocklistKept, RevocationIsSeen, Cached
<1> QED
  BY <1>1, InvInit, InvStep, SeenInit, SeenStep, PTL DEF Spec
=============================================================================
