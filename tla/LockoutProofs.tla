--------------------------- MODULE LockoutProofs ----------------------------
(***************************************************************************)
(* However many sign-ins run at once, whatever is dropped, reset or        *)
(* forgiven meanwhile: the guesses of one account stay within their        *)
(* bounds, the stored hash is of the password last chosen, and a second    *)
(* factor opens one session for each challenge, code and link.             *)
(*                                                                         *)
(* The bounds are counted, not seen, in one state: the key of the budget   *)
(* covers the guesses made and the attempts still to be answered           *)
(* (BudgetInv), and the consecutive failures those answered and those      *)
(* recorded and not yet answered (LockInv).                                *)
(***************************************************************************)
EXTENDS Lockout, SecondFactor, FiniteSetTheorems, NaturalsInduction, WellFoundedInduction, TLAPS

Hash == [version: Nat, weak: BOOLEAN]

Request == [pc: {"idle", "gate", "find", "reserve", "refused", "verify", "record", "count", "lock",
                 "release", "proven", "forgive", "forgiven"},
            identifier: Identifiers \cup {NoKey}, typed: Int, hash: Hash, locked: BOOLEAN,
            reserved: BOOLEAN, young: BOOLEAN, since: BOOLEAN]

LockoutTyped ==
    /\ captcha \in BOOLEAN /\ locked \in BOOLEAN
    /\ password \in Hash /\ rehashing \in SUBSET Hash /\ chosen \in Nat
    /\ consecutive \in Nat /\ tries \in Int \cup {NoKey}
    /\ logins \in [Logins -> Request]
    /\ guesses \in Nat /\ returned \in Nat /\ answered \in Nat /\ notices \in Nat

\* Attempts counted by the key as it is now, with no answer yet; and of them the admitted.
Pending == {r \in Logins : logins[r].young = TRUE /\ logins[r].pc \in {"refused", "verify", "release"}}
Trying == {r \in Logins : logins[r].young = TRUE /\ logins[r].pc \in {"verify", "release"}}

\* Failures recorded since the last forgiveness whose answer is still to come.
Since == {r \in Logins : logins[r].since = TRUE}

\* Attempts that read the row before it was locked.
Running == {r \in Logins : logins[r].locked = FALSE
                           /\ logins[r].pc \in {"reserve", "verify", "record", "count", "lock"}}

\* The key covers what was guessed and what may still be.
BudgetInv ==
    /\ \A r \in Logins : logins[r].pc \in {"find", "reserve"} => logins[r].young = FALSE
    /\ guesses + Cardinality(Pending) <= value + returned
    /\ captcha = FALSE => guesses + Cardinality(Trying) <= Limit + returned
    /\ tries # NoKey /\ tries > 0 => expires

\* Below the threshold every answer was counted; past it, and locked, the attempts that
\* had read the row before are the only ones left.
LockInv ==
    /\ consecutive <= Threshold
    /\ \A r \in Logins : /\ logins[r].since = TRUE => logins[r].pc \in {"count", "lock"}
                         /\ logins[r].pc \in {"count", "lock"} => logins[r].locked = FALSE
    /\ Threshold # 0 /\ locked = FALSE => answered <= Threshold - 1
    /\ Threshold # 0 /\ locked = FALSE /\ consecutive < Threshold =>
           answered + Cardinality(Since) <= consecutive
    /\ Threshold # 0 /\ locked = TRUE =>
           answered + Cardinality(Running) <= Threshold - 1 + Cardinality(Logins)
    /\ notices = IF locked THEN 1 ELSE 0

IInv == LockoutTyped /\ BudgetInv /\ LockInv /\ PasswordIsLastChosen
-----------------------------------------------------------------------------
\* Subsets of a finite set one element apart.
LEMMA FiniteCounting ==
    ASSUME NEW U, IsFiniteSet(U), NEW S \in SUBSET U, NEW T \in SUBSET U, NEW r \in U
    PROVE  /\ Cardinality(S) \in Nat
           /\ Cardinality(S) <= Cardinality(U)
           /\ T \subseteq S => Cardinality(T) <= Cardinality(S)
           /\ T \subseteq S \cup {r} => Cardinality(T) <= Cardinality(S) + 1
           /\ T \subseteq S /\ r \in S \ T => Cardinality(T) <= Cardinality(S) - 1
<1>1. IsFiniteSet(S) /\ IsFiniteSet(T) /\ Cardinality(S) <= Cardinality(U)
  BY FS_Subset
<1>2. Cardinality(S) \in Nat /\ Cardinality(T) \in Nat
  BY <1>1, FS_CardinalityType
<1>3. T \subseteq S => Cardinality(T) <= Cardinality(S)
  BY <1>1, FS_Subset
<1>4. ASSUME T \subseteq S \cup {r} PROVE Cardinality(T) <= Cardinality(S) + 1
  <2>0. /\ IsFiniteSet(S \cup {r})
        /\ Cardinality(S \cup {r}) = IF r \in S THEN Cardinality(S) ELSE Cardinality(S) + 1
    BY <1>1, FS_AddElement
  <2>1. IsFiniteSet(S \cup {r}) /\ Cardinality(S \cup {r}) <= Cardinality(S) + 1
    BY <1>2, <2>0
  <2>2. Cardinality(T) <= Cardinality(S \cup {r}) /\ Cardinality(S \cup {r}) \in Nat
    BY <1>4, <2>1, FS_Subset, FS_CardinalityType
  <2> QED  BY <1>2, <2>1, <2>2
<1>5. ASSUME T \subseteq S, r \in S \ T PROVE Cardinality(T) <= Cardinality(S) - 1
  <2>1. IsFiniteSet(S \ {r}) /\ Cardinality(S \ {r}) = Cardinality(S) - 1
    BY <1>1, <1>5, FS_RemoveElement
  <2>2. T \in SUBSET (S \ {r})
    BY <1>5
  <2> QED  BY <2>1, <2>2, FS_Subset
<1> QED  BY <1>1, <1>2, <1>3, <1>4, <1>5

LEMMA Counting ==
    ASSUME NEW S \in SUBSET Logins, NEW T \in SUBSET Logins, NEW r \in Logins
    PROVE  /\ Cardinality(S) \in Nat
           /\ Cardinality(S) <= Cardinality(Logins)
           /\ T \subseteq S => Cardinality(T) <= Cardinality(S)
           /\ T \subseteq S \cup {r} => Cardinality(T) <= Cardinality(S) + 1
           /\ T \subseteq S /\ r \in S \ T => Cardinality(T) <= Cardinality(S) - 1
BY FiniteCounting, LockoutAssumption

LEMMA NoLoginOK ==
    /\ NoLogin \in Request /\ NoLogin.pc = "idle" /\ NoLogin.locked = FALSE
    /\ NoLogin.young = FALSE /\ NoLogin.since = FALSE
BY DEF NoLogin, Request, Hash, Wrong

LEMMA InitOK == LockoutInit => IInv
<1> SUFFICES ASSUME LockoutInit PROVE IInv
  OBVIOUS
<1> USE LockoutAssumption DEF LockoutInit
<1>1. logins \in [Logins -> Request] /\ \A r \in Logins : logins[r] = NoLogin
  BY NoLoginOK
<1>a. password \in Hash
  BY DEF Hash
<1>2. LockoutTyped
  BY <1>1, <1>a DEF LockoutTyped
<1>3. Pending = {} /\ Trying = {} /\ Since = {}
  BY <1>1, NoLoginOK DEF Pending, Trying, Since
<1>4. Cardinality({}) = 0
  BY FS_EmptySet
<1>5. BudgetInv
  BY <1>1, <1>3, <1>4, NoLoginOK DEF BudgetInv, value
<1>6. LockInv
  BY <1>1, <1>3, <1>4, NoLoginOK DEF LockInv
<1> QED  BY <1>2, <1>5, <1>6 DEF IInv, PasswordIsLastChosen, Hash

-----------------------------------------------------------------------------
(***************************************************************************)
(* A step of one request, and what it leaves.                              *)
(***************************************************************************)
\* What BudgetInv and LockInv say of each request.
RequestOK(x) ==
    /\ x.pc \in {"find", "reserve"} => x.young = FALSE
    /\ x.since = TRUE => x.pc \in {"count", "lock"}
    /\ x.pc \in {"count", "lock"} => x.locked = FALSE

LEMMA EachOK == ASSUME IInv, NEW r \in Logins PROVE logins[r] \in Request /\ RequestOK(logins[r])
BY DEF IInv, LockoutTyped, BudgetInv, LockInv, RequestOK

LEMMA OneRequest ==
    ASSUME IInv, NEW r \in Logins, NEW x \in Request, logins' = [logins EXCEPT ![r] = x],
           RequestOK(x)
    PROVE  /\ logins' \in [Logins -> Request]
           /\ \A q \in Logins : RequestOK(logins'[q])
           /\ Pending' = IF x.young = TRUE /\ x.pc \in {"refused", "verify", "release"}
                         THEN Pending \cup {r} ELSE Pending \ {r}
           /\ Trying' = IF x.young = TRUE /\ x.pc \in {"verify", "release"}
                        THEN Trying \cup {r} ELSE Trying \ {r}
           /\ Since' = IF x.since = TRUE THEN Since \cup {r} ELSE Since \ {r}
           /\ Running' = IF x.locked = FALSE /\ x.pc \in {"reserve", "verify", "record", "count", "lock"}
                         THEN Running \cup {r} ELSE Running \ {r}
<1>1. /\ logins' \in [Logins -> Request] /\ logins'[r] = x
      /\ \A q \in Logins : q # r => logins'[q] = logins[q]
  BY DEF IInv, LockoutTyped
<1>2. \A q \in Logins : RequestOK(logins'[q])
  BY <1>1, EachOK
<1>3. Pending' = IF x.young = TRUE /\ x.pc \in {"refused", "verify", "release"}
                 THEN Pending \cup {r} ELSE Pending \ {r}
  BY <1>1 DEF Pending
<1>4. Trying' = IF x.young = TRUE /\ x.pc \in {"verify", "release"}
                THEN Trying \cup {r} ELSE Trying \ {r}
  BY <1>1 DEF Trying
<1>5. Since' = IF x.since = TRUE THEN Since \cup {r} ELSE Since \ {r}
  BY <1>1 DEF Since
<1>6. Running' = IF x.locked = FALSE /\ x.pc \in {"reserve", "verify", "record", "count", "lock"}
                 THEN Running \cup {r} ELSE Running \ {r}
  BY <1>1 DEF Running
<1> QED  BY <1>1, <1>2, <1>3, <1>4, <1>5, <1>6

LEMMA SetsOK ==
    /\ Pending \in SUBSET Logins /\ Trying \in SUBSET Logins /\ Trying \subseteq Pending
    /\ Since \in SUBSET Logins /\ Running \in SUBSET Logins
    /\ Pending' \in SUBSET Logins /\ Trying' \in SUBSET Logins
    /\ Since' \in SUBSET Logins /\ Running' \in SUBSET Logins
BY DEF Pending, Trying, Since, Running

\* The budget is not touched and nobody is admitted.
LEMMA BudgetQuiet ==
    ASSUME IInv, UNCHANGED <<captcha, budget>>, \A q \in Logins : RequestOK(logins'[q]),
           Pending' \subseteq Pending, Trying' \subseteq Trying
    PROVE  BudgetInv'
<1>1. captcha' = captcha /\ tries' = tries /\ expires' = expires /\ guesses' = guesses /\ returned' = returned
  BY DEF budget
<1>2. CASE Logins = {}
  <2>1. Pending = {} /\ Pending' = {} /\ Trying = {} /\ Trying' = {}
    BY <1>2, SetsOK
  <2> QED  BY <1>1, <1>2, <2>1 DEF IInv, BudgetInv, value
<1>3. CASE Logins # {}
  <2>0. PICK r : r \in Logins
    BY <1>3
  <2>1. /\ Cardinality(Pending') <= Cardinality(Pending) /\ Cardinality(Trying') <= Cardinality(Trying)
        /\ Cardinality(Pending') \in Nat /\ Cardinality(Trying') \in Nat
        /\ Cardinality(Pending) \in Nat /\ Cardinality(Trying) \in Nat
    BY <2>0, SetsOK, Counting
  <2>2. value' = value /\ value \in Int
    BY <1>1 DEF value, IInv, LockoutTyped
  <2>3. guesses' + Cardinality(Pending') <= value' + returned'
    BY <1>1, <2>1, <2>2 DEF IInv, LockoutTyped, BudgetInv
  <2>4. captcha' = FALSE => guesses' + Cardinality(Trying') <= Limit + returned'
    BY <1>1, <2>1, LockoutAssumption DEF IInv, LockoutTyped, BudgetInv
  <2> QED  BY <1>1, <2>3, <2>4 DEF IInv, BudgetInv, RequestOK
<1> QED  BY <1>2, <1>3

\* Neither the lock nor what is counted towards it is touched.
LEMMA LockQuiet ==
    ASSUME IInv, UNCHANGED <<locked, consecutive, answered, notices>>,
           \A q \in Logins : RequestOK(logins'[q]),
           Since' \subseteq Since, locked = TRUE => Running' \subseteq Running
    PROVE  LockInv'
<1>1. CASE Logins = {}
  <2>1. Since = {} /\ Since' = {} /\ Running = {} /\ Running' = {}
    BY <1>1, SetsOK
  <2> QED  BY <1>1, <2>1 DEF IInv, LockInv
<1>2. CASE Logins # {}
  <2>0. PICK r : r \in Logins
    BY <1>2
  <2>1. /\ Cardinality(Since') <= Cardinality(Since)
        /\ locked = TRUE => Cardinality(Running') <= Cardinality(Running)
        /\ Cardinality(Since') \in Nat /\ Cardinality(Running') \in Nat
        /\ Cardinality(Since) \in Nat /\ Cardinality(Running) \in Nat /\ Cardinality(Logins) \in Nat
    BY <2>0, SetsOK, Counting
  <2>2. /\ Threshold # 0 /\ locked' = FALSE /\ consecutive' < Threshold =>
             answered' + Cardinality(Since') <= consecutive'
        /\ Threshold # 0 /\ locked' = TRUE =>
             answered' + Cardinality(Running') <= Threshold - 1 + Cardinality(Logins)
    BY <2>1, LockoutAssumption DEF IInv, LockoutTyped, LockInv
  <2>3. \A q \in Logins : /\ logins'[q].since = TRUE => logins'[q].pc \in {"count", "lock"}
                          /\ logins'[q].pc \in {"count", "lock"} => logins'[q].locked = FALSE
    BY DEF RequestOK
  <2> QED  BY <2>2, <2>3 DEF IInv, LockInv
<1> QED  BY <1>1, <1>2

LEMMA QuietRequest ==
    ASSUME IInv, NEW r \in Logins, NEW x \in Request, logins' = [logins EXCEPT ![r] = x],
           RequestOK(x), UNCHANGED <<captcha, hashes, locked, consecutive, budget, answered, notices>>,
           x.young = FALSE \/ x.pc \notin {"refused", "verify", "release"}, x.since = FALSE,
           locked = TRUE /\ x.locked = FALSE /\ x.pc \in {"reserve", "verify", "record", "count", "lock"}
               => r \in Running
    PROVE  IInv'
<1>1. /\ logins' \in [Logins -> Request] /\ \A q \in Logins : RequestOK(logins'[q])
      /\ Pending' \subseteq Pending /\ Trying' \subseteq Trying /\ Since' \subseteq Since
      /\ locked = TRUE => Running' \subseteq Running
  BY OneRequest
<1>2. BudgetInv'
  BY <1>1, BudgetQuiet
<1>3. LockInv'
  BY <1>1, LockQuiet
<1>4. LockoutTyped'
  BY <1>1 DEF IInv, LockoutTyped, hashes, budget
<1>5. PasswordIsLastChosen'
  BY DEF IInv, PasswordIsLastChosen, hashes
<1> QED  BY <1>2, <1>3, <1>4, <1>5 DEF IInv

LEMMA QuietSteps ==
    ASSUME IInv, NEW r \in Logins
    PROVE  /\ PostLogin(r) => IInv'
           /\ LoginFind(r) => IInv'
           /\ ChangeBegin(r) => IInv'
           /\ LoginDrops(r) => IInv'
<1> DEFINE y == logins[r]
<1>0. y \in Request /\ RequestOK(y) /\ logins \in [Logins -> Request]
  BY EachOK DEF IInv, LockoutTyped
<1>1. ASSUME PostLogin(r)
      PROVE  IInv'
  <2>1. PICK i \in Identifiers, typed \in {Wrong} \cup (0..chosen) : LoginGate(r, i, typed)
    BY <1>1 DEF PostLogin
  <2> DEFINE x == [NoLogin EXCEPT !.pc = "find", !.identifier = i, !.typed = typed]
  <2>2. typed \in Int
    BY DEF IInv, LockoutTyped, Wrong
  <2>3. x \in Request /\ x.pc = "find" /\ x.young = FALSE /\ x.since = FALSE
    BY <2>2 DEF NoLogin, Request, Hash
  <2>4. /\ logins' = [logins EXCEPT ![r] = x]
        /\ UNCHANGED <<captcha, hashes, locked, consecutive, budget, answered, notices>>
    BY <2>1 DEF LoginGate
  <2> HIDE DEF x
  <2> QED  BY <2>3, <2>4, QuietRequest DEF RequestOK
<1>2. ASSUME LoginFind(r)
      PROVE  IInv'
  <2> DEFINE x == [y EXCEPT !.pc = "reserve", !.hash = password, !.locked = locked]
  <2>1. /\ x \in Request /\ x.pc = "reserve" /\ x.young = FALSE /\ x.since = FALSE /\ x.locked = locked
    BY <1>0, <1>2 DEF LoginFind, Request, RequestOK, IInv, LockoutTyped
  <2>2. /\ logins' = [logins EXCEPT ![r] = x]
        /\ UNCHANGED <<captcha, hashes, locked, consecutive, budget, answered, notices>>
    BY <1>0, <1>2 DEF LoginFind
  <2> HIDE DEF x
  <2> QED  BY <2>1, <2>2, QuietRequest DEF RequestOK
<1>3. ASSUME ChangeBegin(r)
      PROVE  IInv'
  <2> DEFINE x == [y EXCEPT !.pc = "forgive"]
  <2>1. x \in Request /\ x.pc = "forgive" /\ x.since = FALSE
    BY <1>0, <1>3 DEF ChangeBegin, Request, RequestOK
  <2>2. /\ logins' = [logins EXCEPT ![r] = x]
        /\ UNCHANGED <<captcha, hashes, locked, consecutive, budget, answered, notices>>
    BY <1>0, <1>3 DEF ChangeBegin
  <2> HIDE DEF x
  <2> QED  BY <2>1, <2>2, QuietRequest DEF RequestOK
<1>4. ASSUME LoginDrops(r)
      PROVE  IInv'
  <2>1. /\ logins' = [logins EXCEPT ![r] = NoLogin]
        /\ UNCHANGED <<captcha, hashes, locked, consecutive, budget, answered, notices>>
    BY <1>4 DEF LoginDrops
  <2> QED  BY <2>1, NoLoginOK, QuietRequest DEF RequestOK
<1> QED  BY <1>1, <1>2, <1>3, <1>4
-----------------------------------------------------------------------------
(***************************************************************************)
(* The attempt budget.                                                     *)
(***************************************************************************)
LEMMA ValueOK == LockoutTyped => value \in Int /\ (tries # NoKey => value = tries)
BY DEF LockoutTyped, value

LEMMA ReserveStep ==
    ASSUME IInv, NEW r \in Logins, LoginReserve(r)
    PROVE  IInv'
<1> DEFINE y == logins[r]
<1>0. y \in Request /\ RequestOK(y) /\ logins \in [Logins -> Request] /\ y.pc = "reserve"
  BY EachOK DEF IInv, LockoutTyped, LoginReserve
<1>1. CASE logins' = [logins EXCEPT ![r].pc = "verify"] /\ UNCHANGED <<tries, expires>>
  <2> DEFINE x == [y EXCEPT !.pc = "verify"]
  <2>1. x \in Request /\ x.pc = "verify" /\ x.young = FALSE /\ x.since = FALSE /\ x.locked = y.locked
    BY <1>0 DEF Request, RequestOK
  <2>2. /\ logins' = [logins EXCEPT ![r] = x]
        /\ UNCHANGED <<captcha, hashes, locked, consecutive, budget, answered, notices>>
    BY <1>0, <1>1 DEF LoginReserve, budget
  <2> HIDE DEF x
  <2>3. x.locked = FALSE => r \in Running
    BY <1>0, <2>1 DEF Running
  <2> QED  BY <2>1, <2>2, <2>3, QuietRequest DEF RequestOK
<1>2. CASE /\ Consume
           /\ logins' = [logins EXCEPT ![r].pc = IF ~captcha /\ tries' > Limit THEN "refused" ELSE "verify",
                                       ![r].reserved = TRUE, ![r].young = TRUE]
  <2> DEFINE pc == IF ~captcha /\ tries' > Limit THEN "refused" ELSE "verify"
             x == [y EXCEPT !.pc = pc, !.reserved = TRUE, !.young = TRUE]
  <2>1. /\ x \in Request /\ x.pc = pc /\ x.young = TRUE /\ x.since = FALSE /\ x.locked = y.locked
    BY <1>0 DEF Request, RequestOK
  <2>2. /\ logins' = [logins EXCEPT ![r] = x]
        /\ UNCHANGED <<captcha, hashes, locked, consecutive, guesses, returned, answered, notices>>
        /\ tries' = value + 1 /\ expires' = (expires \/ value + 1 = 1)
    BY <1>0, <1>2 DEF LoginReserve, Consume
  <2>3. pc \in {"refused", "verify"} /\ (captcha = FALSE /\ pc = "verify" => ~(tries' > Limit))
    OBVIOUS
  <2> HIDE DEF x, pc
  <2>4. /\ logins' \in [Logins -> Request] /\ \A q \in Logins : RequestOK(logins'[q])
        /\ Pending' \subseteq Pending \cup {r}
        /\ Trying' = IF pc = "verify" THEN Trying \cup {r} ELSE Trying \ {r}
        /\ Since' \subseteq Since
        /\ Running' \subseteq Running \cup {r} /\ (x.locked = TRUE => Running' \subseteq Running)
    BY <2>1, <2>2, <2>3, OneRequest DEF RequestOK
  <2>5. x.locked = FALSE => r \in Running
    BY <1>0, <2>1 DEF Running
  <2>6. LockInv'
    <3>1. Running' \subseteq Running
      BY <2>1, <2>4, <2>5 DEF Request
    <3> QED  BY <2>2, <2>4, <3>1, LockQuiet
  <2>7. LockoutTyped /\ value \in Int /\ tries' \in Int /\ value' = tries' /\ Limit \in Nat
    BY <2>2, ValueOK, LockoutAssumption DEF IInv, value
  <2>8. LockoutTyped'
    BY <2>2, <2>4, <2>7 DEF LockoutTyped, hashes
  <2>9. /\ Cardinality(Pending') <= Cardinality(Pending) + 1
        /\ Cardinality(Trying) <= Cardinality(Pending)
        /\ Cardinality(Trying') <= Cardinality(Trying) + 1
        /\ pc # "verify" => Cardinality(Trying') <= Cardinality(Trying)
        /\ Cardinality(Pending') \in Nat /\ Cardinality(Trying') \in Nat
        /\ Cardinality(Pending) \in Nat /\ Cardinality(Trying) \in Nat
    BY <2>4, SetsOK, Counting
  <2>10. guesses' + Cardinality(Pending') <= value' + returned'
    BY <2>2, <2>7, <2>9 DEF IInv, LockoutTyped, BudgetInv
  <2>11. ASSUME captcha' = FALSE PROVE guesses' + Cardinality(Trying') <= Limit + returned'
    <3>1. CASE pc = "verify"
      <4>1. value + 1 <= Limit
        BY <2>2, <2>3, <2>7, <2>11, <3>1
      <4>2. guesses + Cardinality(Trying') <= value + 1 + returned
        BY <2>7, <2>9 DEF IInv, LockoutTyped, BudgetInv
      <4> QED  BY <2>2, <2>7, <2>9, <4>1, <4>2 DEF LockoutTyped
    <3>2. CASE pc # "verify"
      BY <2>2, <2>7, <2>9, <2>11, <3>2 DEF IInv, LockoutTyped, BudgetInv
    <3> QED  BY <3>1, <3>2
  <2>12. tries' # NoKey /\ tries' > 0 => expires'
    <3>1. CASE value + 1 = 1
      BY <2>2, <3>1
    <3>2. CASE value + 1 # 1 /\ tries' > 0
      <4>1. tries # NoKey /\ tries > 0
        BY <2>2, <2>7, <3>2 DEF value
      <4> QED  BY <2>2, <4>1 DEF IInv, BudgetInv
    <3> QED  BY <3>1, <3>2
  <2>13. BudgetInv'
    BY <2>4, <2>10, <2>11, <2>12 DEF BudgetInv, RequestOK
  <2>14. PasswordIsLastChosen'
    BY <2>2 DEF IInv, PasswordIsLastChosen, hashes
  <2> QED  BY <2>6, <2>8, <2>13, <2>14 DEF IInv
<1> QED  BY <1>1, <1>2 DEF LoginReserve

LEMMA ReleaseBudget ==
    ASSUME IInv, NEW r \in Logins, Release(r), captcha' = captcha,
           \A q \in Logins : RequestOK(logins'[q]),
           Pending' \subseteq Pending, r \notin Pending', Trying' \subseteq Trying,
           logins[r].young = TRUE => r \in Pending
    PROVE  BudgetInv' /\ tries' \in Int \cup {NoKey} /\ returned' \in Nat
<1>0. LockoutTyped /\ logins[r] \in Request /\ logins[r].young \in BOOLEAN
  BY EachOK DEF IInv, Request
<1>1. /\ tries' = value - 1 /\ returned' = (IF logins[r].young THEN returned ELSE returned + 1)
      /\ expires' = expires /\ guesses' = guesses
  BY DEF Release
<1>2. value \in Int /\ tries' \in Int /\ value' = tries' /\ Limit \in Nat /\ returned' \in Nat
  BY <1>0, <1>1, ValueOK, LockoutAssumption DEF value, LockoutTyped
<1>3. /\ Cardinality(Pending') <= Cardinality(Pending) /\ Cardinality(Trying') <= Cardinality(Trying)
      /\ r \in Pending => Cardinality(Pending') <= Cardinality(Pending) - 1
      /\ Cardinality(Pending') \in Nat /\ Cardinality(Trying') \in Nat
      /\ Cardinality(Pending) \in Nat /\ Cardinality(Trying) \in Nat
  BY SetsOK, Counting
<1>4. guesses' + Cardinality(Pending') <= value' + returned'
  <2>1. CASE logins[r].young = TRUE
    BY <1>0, <1>1, <1>2, <1>3, <2>1 DEF IInv, LockoutTyped, BudgetInv
  <2>2. CASE logins[r].young = FALSE
    BY <1>0, <1>1, <1>2, <1>3, <2>2 DEF IInv, LockoutTyped, BudgetInv
  <2> QED  BY <1>0, <2>1, <2>2
<1>5. returned <= returned'
  BY <1>0, <1>1 DEF LockoutTyped
<1>6. captcha' = FALSE => guesses' + Cardinality(Trying') <= Limit + returned'
  BY <1>0, <1>1, <1>2, <1>3, <1>5 DEF IInv, LockoutTyped, BudgetInv
<1>7. tries' # NoKey /\ tries' > 0 => expires'
  <2>1. tries' > 0 => tries # NoKey /\ tries > 0
    BY <1>1, <1>2 DEF value
  <2> QED  BY <1>1, <2>1 DEF IInv, BudgetInv
<1> QED  BY <1>2, <1>4, <1>6, <1>7 DEF BudgetInv, RequestOK

LEMMA RefusedStep ==
    ASSUME IInv, NEW r \in Logins, LoginRefused(r)
    PROVE  IInv'
<1>1. /\ logins[r].pc = "refused" /\ Release(r) /\ logins' = [logins EXCEPT ![r] = NoLogin]
      /\ UNCHANGED <<captcha, hashes, locked, consecutive, answered, notices>>
  BY DEF LoginRefused
<1>2. /\ logins' \in [Logins -> Request] /\ \A q \in Logins : RequestOK(logins'[q])
      /\ Pending' = Pending \ {r} /\ Trying' = Trying \ {r} /\ Since' = Since \ {r} /\ Running' = Running \ {r}
  BY <1>1, NoLoginOK, OneRequest DEF RequestOK
<1>3. BudgetInv' /\ tries' \in Int \cup {NoKey} /\ returned' \in Nat
  BY <1>1, <1>2, ReleaseBudget DEF Pending
<1>4. LockInv'
  BY <1>1, <1>2, LockQuiet
<1>5. LockoutTyped'
  BY <1>1, <1>2, <1>3 DEF IInv, LockoutTyped, hashes, Release
<1>6. PasswordIsLastChosen'
  BY <1>1 DEF IInv, PasswordIsLastChosen, hashes
<1> QED  BY <1>3, <1>4, <1>5, <1>6 DEF IInv

LEMMA ReleaseStep ==
    ASSUME IInv, NEW r \in Logins, LoginRelease(r)
    PROVE  IInv'
<1> DEFINE y == logins[r]
           x == [y EXCEPT !.pc = "proven"]
<1>0. y \in Request /\ RequestOK(y) /\ logins \in [Logins -> Request] /\ LockoutTyped
  BY EachOK DEF IInv, LockoutTyped
<1>1. /\ y.pc = "release" /\ logins' = [logins EXCEPT ![r] = x]
      /\ IF y.reserved THEN Release(r) ELSE UNCHANGED budget
      /\ rehashing' = IF y.hash.weak THEN rehashing \cup {y.hash} ELSE rehashing
      /\ UNCHANGED <<captcha, password, chosen, locked, consecutive, answered, notices>>
  BY <1>0 DEF LoginRelease
<1>2. x \in Request /\ x.pc = "proven" /\ x.since = FALSE
  BY <1>0, <1>1 DEF Request, RequestOK
<1> HIDE DEF x
<1>3. /\ logins' \in [Logins -> Request] /\ \A q \in Logins : RequestOK(logins'[q])
      /\ Pending' = Pending \ {r} /\ Trying' = Trying \ {r} /\ Since' = Since \ {r} /\ Running' = Running \ {r}
  BY <1>1, <1>2, OneRequest DEF RequestOK
<1>4. BudgetInv' /\ tries' \in Int \cup {NoKey} /\ returned' \in Nat /\ guesses' = guesses
  <2>1. CASE y.reserved = TRUE
    <3>1. Release(r)
      BY <1>1, <2>1
    <3> QED  BY <1>1, <1>3, <3>1, ReleaseBudget DEF Pending, Release
  <2>2. CASE y.reserved = FALSE
    <3>1. UNCHANGED budget
      BY <1>1, <2>2
    <3> QED  BY <1>0, <1>1, <1>3, <3>1, BudgetQuiet DEF budget, LockoutTyped
  <2> QED  BY <1>0, <2>1, <2>2 DEF Request
<1>5. LockInv'
  BY <1>1, <1>3, LockQuiet
<1>6. rehashing' \in SUBSET Hash
  BY <1>0, <1>1 DEF LockoutTyped, Request
<1>7. LockoutTyped'
  BY <1>0, <1>1, <1>3, <1>4, <1>6 DEF LockoutTyped
<1>8. PasswordIsLastChosen'
  BY <1>1 DEF IInv, PasswordIsLastChosen
<1> QED  BY <1>4, <1>5, <1>7, <1>8 DEF IInv

LEMMA VerifyStep ==
    ASSUME IInv, NEW r \in Logins, LoginVerify(r)
    PROVE  IInv'
<1> DEFINE y == logins[r]
<1>0. y \in Request /\ RequestOK(y) /\ logins \in [Logins -> Request] /\ LockoutTyped /\ y.pc = "verify"
  BY EachOK DEF IInv, LockoutTyped, LoginVerify
<1>1. PICK isLocked \in BOOLEAN :
        /\ isLocked => y.locked
        /\ ~isLocked => ~y.locked \/ ~locked
        /\ LET right == y.typed = y.hash.version /\ ~isLocked
           IN /\ logins' = [logins EXCEPT ![r].pc = IF right THEN "release" ELSE "record",
                                    ![r].locked = isLocked]
              /\ guesses' = IF ~right /\ y.reserved /\ y.young THEN guesses + 1 ELSE guesses
  BY DEF LoginVerify
<1> DEFINE right == y.typed = y.hash.version /\ ~isLocked
           pc == IF right THEN "release" ELSE "record"
           x == [y EXCEPT !.pc = pc, !.locked = isLocked]
<1>2. /\ x \in Request /\ x.pc = pc /\ x.young = y.young /\ x.since = FALSE /\ x.locked = isLocked
  BY <1>0 DEF Request, RequestOK
<1>3. /\ logins' = [logins EXCEPT ![r] = x]
      /\ guesses' = IF pc = "record" /\ y.reserved = TRUE /\ y.young = TRUE THEN guesses + 1 ELSE guesses
      /\ UNCHANGED <<captcha, hashes, locked, consecutive, tries, expires, returned, answered, notices>>
  BY <1>0, <1>1 DEF LoginVerify, Request
<1>4. pc \in {"release", "record"} /\ y.young \in BOOLEAN /\ y.locked \in BOOLEAN /\ locked \in BOOLEAN
  BY <1>0 DEF Request, LockoutTyped
<1> HIDE DEF x, pc, right
<1>5. /\ logins' \in [Logins -> Request] /\ \A q \in Logins : RequestOK(logins'[q])
      /\ Pending' \subseteq Pending \cup {r} /\ Trying' \subseteq Trying \cup {r} /\ Since' \subseteq Since
      /\ y.young = FALSE \/ pc = "record" => Pending' = Pending \ {r} /\ Trying' = Trying \ {r}
      /\ isLocked = TRUE => Running' \subseteq Running
      /\ Running' \subseteq Running \cup {r}
  BY <1>2, <1>3, <1>4, OneRequest DEF RequestOK
<1>6. (y.young = TRUE => r \in Pending /\ r \in Trying) /\ (y.locked = FALSE => r \in Running)
  BY <1>0 DEF Pending, Trying, Running
<1>7. LockInv'
  <2>1. locked = TRUE => Running' \subseteq Running
    BY <1>1, <1>4, <1>5, <1>6
  <2> QED  BY <1>3, <1>5, <2>1, LockQuiet
<1>8. guesses' \in Nat
  BY <1>0, <1>3 DEF LockoutTyped
<1>9. LockoutTyped'
  BY <1>0, <1>3, <1>5, <1>8 DEF LockoutTyped, hashes
<1>10. /\ Cardinality(Pending') <= Cardinality(Pending) /\ Cardinality(Trying') <= Cardinality(Trying)
       /\ guesses' # guesses => /\ Cardinality(Pending') <= Cardinality(Pending) - 1
                                /\ Cardinality(Trying') <= Cardinality(Trying) - 1
       /\ Cardinality(Pending') \in Nat /\ Cardinality(Trying') \in Nat
       /\ Cardinality(Pending) \in Nat /\ Cardinality(Trying) \in Nat
  <2>1. Pending' \subseteq Pending /\ Trying' \subseteq Trying
    BY <1>4, <1>5, <1>6
  <2>2. guesses' # guesses => r \in Pending \ Pending' /\ r \in Trying \ Trying'
    BY <1>3, <1>5, <1>6
  <2> QED  BY <2>1, <2>2, SetsOK, Counting
<1>11. value' = value /\ value \in Int /\ Limit \in Nat
  BY <1>0, <1>3, ValueOK, LockoutAssumption DEF value
<1>12. guesses' <= guesses + 1 /\ (guesses' = guesses \/ guesses' = guesses + 1)
  BY <1>0, <1>3 DEF LockoutTyped
<1>13. guesses' + Cardinality(Pending') <= value' + returned'
  BY <1>0, <1>3, <1>8, <1>10, <1>11, <1>12 DEF IInv, LockoutTyped, BudgetInv
<1>14. captcha' = FALSE => guesses' + Cardinality(Trying') <= Limit + returned'
  BY <1>0, <1>3, <1>8, <1>10, <1>11, <1>12 DEF IInv, LockoutTyped, BudgetInv
<1>15. BudgetInv'
  BY <1>3, <1>5, <1>13, <1>14 DEF IInv, BudgetInv, RequestOK
<1>16. PasswordIsLastChosen'
  BY <1>3 DEF IInv, PasswordIsLastChosen, hashes
<1> QED  BY <1>7, <1>9, <1>15, <1>16 DEF IInv

\* The key is gone: of what was reserved nothing is counted.
LEMMA ResetOK ==
    ASSUME IInv, Reset, UNCHANGED <<captcha, hashes, locked, consecutive, answered, notices>>,
           logins' \in [Logins -> Request],
           \A q \in Logins : /\ logins'[q].young = FALSE /\ RequestOK(logins'[q])
                             /\ logins'[q].since = TRUE => logins[q].since = TRUE
                             /\ q \in Running' => q \in Running
    PROVE  IInv'
<1>1. tries' = NoKey /\ guesses' = 0 /\ returned' = 0
  BY DEF Reset
<1>2. Pending' = {} /\ Trying' = {} /\ Since' \subseteq Since /\ Running' \subseteq Running
  BY DEF Pending, Trying, Since, Running
<1>3. BudgetInv'
  BY <1>1, <1>2, FS_EmptySet, LockoutAssumption DEF BudgetInv, value
<1>4. LockInv'
  BY <1>2, LockQuiet
<1>5. LockoutTyped'
  BY <1>1 DEF IInv, LockoutTyped, hashes
<1>6. PasswordIsLastChosen'
  BY DEF IInv, PasswordIsLastChosen, hashes
<1> QED  BY <1>3, <1>4, <1>5, <1>6 DEF IInv

LEMMA ResetSteps ==
    ASSUME IInv
    PROVE  /\ BudgetExpires => IInv'
           /\ \A r \in Logins : ChangeReset(r) => IInv'
<1>0. logins \in [Logins -> Request] /\ \A q \in Logins : logins[q] \in Request /\ RequestOK(logins[q])
  BY EachOK DEF IInv, LockoutTyped
<1>1. /\ Outdated \in [Logins -> Request]
      /\ \A q \in Logins : /\ Outdated[q].young = FALSE /\ Outdated[q].since = logins[q].since
                           /\ Outdated[q].pc = logins[q].pc /\ Outdated[q].locked = logins[q].locked
  BY <1>0 DEF Outdated, Request
<1> HIDE DEF Outdated
<1>2. ASSUME BudgetExpires
      PROVE  IInv'
  <2>1. Reset /\ UNCHANGED <<captcha, hashes, locked, consecutive, answered, notices>> /\ logins' = Outdated
    BY <1>2 DEF BudgetExpires
  <2>2. \A q \in Logins : q \in Running' => q \in Running
    BY <1>1, <2>1 DEF Running
  <2> QED  BY <1>0, <1>1, <2>1, <2>2, ResetOK DEF RequestOK
<1>3. ASSUME NEW r \in Logins, ChangeReset(r)
      PROVE  IInv'
  <2>1. /\ Reset /\ UNCHANGED <<captcha, hashes, locked, consecutive, answered, notices>>
        /\ logins' = [Outdated EXCEPT ![r] = NoLogin]
    BY <1>3 DEF ChangeReset
  <2>2. /\ logins' \in [Logins -> Request] /\ logins'[r] = NoLogin
        /\ \A q \in Logins \ {r} : logins'[q] = Outdated[q]
    BY <1>1, <2>1, NoLoginOK
  <2>3. \A q \in Logins : q \in Running' => q \in Running
    BY <1>1, <2>2, NoLoginOK DEF Running
  <2>4. \A q \in Logins : /\ logins'[q].young = FALSE /\ RequestOK(logins'[q])
                          /\ logins'[q].since = TRUE => logins[q].since = TRUE
    BY <1>0, <1>1, <2>2, NoLoginOK DEF RequestOK
  <2> QED  BY <2>1, <2>2, <2>3, <2>4, ResetOK
<1> QED  BY <1>2, <1>3

-----------------------------------------------------------------------------
(***************************************************************************)
(* The lock.                                                               *)
(***************************************************************************)
\* The numbers LockInv is about, of this state and the next.
LEMMA LockNumbers ==
    ASSUME IInv, NEW r \in Logins
    PROVE  /\ Threshold \in Nat /\ consecutive \in Nat /\ answered \in Nat /\ notices \in Nat
           /\ Cardinality(Since) \in Nat /\ Cardinality(Running) \in Nat /\ Cardinality(Logins) \in Nat
           /\ Cardinality(Since') \in Nat /\ Cardinality(Running') \in Nat
           /\ Since' \subseteq Since => Cardinality(Since') <= Cardinality(Since)
           /\ Since' \subseteq Since \cup {r} => Cardinality(Since') <= Cardinality(Since) + 1
           /\ Since' \subseteq Since /\ r \in Since \ Since' => Cardinality(Since') <= Cardinality(Since) - 1
           /\ Running' \subseteq Running => Cardinality(Running') <= Cardinality(Running)
           /\ Running' \subseteq Running /\ r \in Running \ Running' =>
                  Cardinality(Running') <= Cardinality(Running) - 1
           /\ r \notin Running' => Cardinality(Running') <= Cardinality(Logins) - 1
<1>1. Logins \in SUBSET Logins
  OBVIOUS
<1> QED  BY <1>1, LockoutAssumption, SetsOK, Counting DEF IInv, LockoutTyped

LEMMA RecordStep ==
    ASSUME IInv, NEW r \in Logins, LoginRecord(r)
    PROVE  IInv'
<1> DEFINE y == logins[r]
<1>0. y \in Request /\ RequestOK(y) /\ logins \in [Logins -> Request] /\ LockoutTyped /\ y.pc = "record"
  BY EachOK DEF IInv, LockoutTyped, LoginRecord
<1>1. /\ consecutive' = IF y.locked \/ locked \/ consecutive = Threshold THEN consecutive ELSE consecutive + 1
      /\ UNCHANGED <<captcha, hashes, locked, budget, answered, notices>>
  BY DEF LoginRecord, RecordFailure
<1>2. CASE y.locked = TRUE
  <2>1. logins' = [logins EXCEPT ![r] = NoLogin] /\ consecutive' = consecutive
    BY <1>1, <1>2 DEF LoginRecord
  <2> QED  BY <1>1, <2>1, NoLoginOK, QuietRequest DEF RequestOK
<1>3. CASE y.locked = FALSE
  <2> DEFINE x == [y EXCEPT !.pc = "count", !.since = TRUE]
  <2>1. x \in Request /\ x.pc = "count" /\ x.since = TRUE /\ x.locked = FALSE
    BY <1>0, <1>3 DEF Request
  <2>2. logins' = [logins EXCEPT ![r] = x]
    BY <1>0, <1>3 DEF LoginRecord
  <2> HIDE DEF x
  <2>3. /\ logins' \in [Logins -> Request] /\ \A q \in Logins : RequestOK(logins'[q])
        /\ Pending' = Pending \ {r} /\ Trying' = Trying \ {r} /\ Since' = Since \cup {r}
        /\ Running' = Running \cup {r}
    BY <2>1, <2>2, OneRequest DEF RequestOK
  <2>4. r \in Running
    BY <1>0, <1>3 DEF Running
  <2>5. BudgetInv'
    BY <1>1, <2>3, BudgetQuiet
  <2>6. /\ consecutive' \in Nat /\ consecutive' <= Threshold
        /\ locked = FALSE /\ consecutive' < Threshold => consecutive' = consecutive + 1
    BY <1>0, <1>1, <1>3, LockoutAssumption DEF IInv, LockoutTyped, LockInv
  <2>7. /\ Cardinality(Since') <= Cardinality(Since) + 1
        /\ Cardinality(Running') <= Cardinality(Running)
    BY <2>3, <2>4, LockNumbers
  <2>8. /\ Threshold # 0 /\ locked' = FALSE => answered' <= Threshold - 1
        /\ notices' = IF locked' THEN 1 ELSE 0
    BY <1>1 DEF IInv, LockInv
  <2>n. /\ Threshold \in Nat /\ consecutive \in Nat /\ answered \in Nat
        /\ Cardinality(Since) \in Nat /\ Cardinality(Running) \in Nat /\ Cardinality(Logins) \in Nat
        /\ Cardinality(Since') \in Nat /\ Cardinality(Running') \in Nat
    BY LockNumbers
  <2>9. ASSUME Threshold # 0, locked' = FALSE, consecutive' < Threshold
        PROVE  answered' + Cardinality(Since') <= consecutive'
    <3>1. consecutive' = consecutive + 1
      BY <1>1, <2>6, <2>9
    <3>2. answered + Cardinality(Since) <= consecutive
      BY <1>1, <2>9, <2>n, <3>1 DEF IInv, LockInv
    <3> QED  BY <1>1, <2>7, <2>n, <3>1, <3>2
  <2>10. ASSUME Threshold # 0, locked' = TRUE
         PROVE  answered' + Cardinality(Running') <= Threshold - 1 + Cardinality(Logins)
    <3>1. answered + Cardinality(Running) <= Threshold - 1 + Cardinality(Logins)
      BY <1>1, <2>10 DEF IInv, LockInv
    <3> QED  BY <1>1, <2>7, <2>n, <3>1
  <2>11. LockInv'
    BY <2>3, <2>6, <2>8, <2>9, <2>10 DEF LockInv, RequestOK
  <2>12. LockoutTyped'
    BY <1>0, <1>1, <2>3, <2>6 DEF LockoutTyped, hashes, budget
  <2>13. PasswordIsLastChosen'
    BY <1>1 DEF IInv, PasswordIsLastChosen, hashes
  <2> QED  BY <2>5, <2>11, <2>12, <2>13 DEF IInv
<1> QED  BY <1>0, <1>2, <1>3 DEF Request

LEMMA CountStep ==
    ASSUME IInv, NEW r \in Logins, LoginCount(r)
    PROVE  IInv'
<1> DEFINE y == logins[r]
<1>0. /\ y \in Request /\ RequestOK(y) /\ logins \in [Logins -> Request] /\ LockoutTyped /\ y.pc = "count"
      /\ UNCHANGED <<captcha, hashes, locked, consecutive, budget, notices>>
  BY EachOK DEF IInv, LockoutTyped, LoginCount
<1>1. CASE LocksAt(consecutive)
  <2> DEFINE x == [y EXCEPT !.pc = "lock"]
  <2>1. x \in Request /\ x.pc = "lock" /\ x.since = y.since /\ x.locked = FALSE
    BY <1>0 DEF Request, RequestOK
  <2>2. logins' = [logins EXCEPT ![r] = x] /\ answered' = answered
    BY <1>0, <1>1 DEF LoginCount
  <2> HIDE DEF x
  <2>3. /\ logins' \in [Logins -> Request] /\ \A q \in Logins : RequestOK(logins'[q])
        /\ Pending' = Pending \ {r} /\ Trying' = Trying \ {r}
        /\ Since' = IF y.since = TRUE THEN Since \cup {r} ELSE Since \ {r}
        /\ Running' = Running \cup {r}
    BY <2>1, <2>2, OneRequest DEF RequestOK
  <2>4. Since' \subseteq Since /\ Running' \subseteq Running
    BY <1>0, <2>3 DEF Since, Running, RequestOK
  <2>5. BudgetInv' /\ LockInv'
    BY <1>0, <2>2, <2>3, <2>4, BudgetQuiet, LockQuiet
  <2>6. LockoutTyped' /\ PasswordIsLastChosen'
    BY <1>0, <2>2, <2>3 DEF IInv, LockoutTyped, hashes, budget, PasswordIsLastChosen
  <2> QED  BY <2>5, <2>6 DEF IInv
<1>2. CASE ~LocksAt(consecutive)
  <2>1. /\ logins' = [logins EXCEPT ![r] = NoLogin]
        /\ answered' = IF y.since THEN answered + 1 ELSE answered
    BY <1>2 DEF LoginCount, Answer
  <2>2. /\ logins' \in [Logins -> Request] /\ \A q \in Logins : RequestOK(logins'[q])
        /\ Pending' = Pending \ {r} /\ Trying' = Trying \ {r} /\ Since' = Since \ {r}
        /\ Running' = Running \ {r}
    BY <2>1, NoLoginOK, OneRequest DEF RequestOK
  <2>3. y.since = TRUE => r \in Since
    BY DEF Since
  <2>4. r \in Running
    BY <1>0 DEF Running, RequestOK
  <2>5. /\ answered' \in Nat /\ answered' <= answered + 1
        /\ y.since = FALSE => answered' = answered
    BY <1>0, <2>1 DEF LockoutTyped, Request
  <2>6. /\ Cardinality(Since') <= Cardinality(Since)
        /\ y.since = TRUE => Cardinality(Since') <= Cardinality(Since) - 1
        /\ Cardinality(Running') <= Cardinality(Running) - 1
    BY <2>2, <2>3, <2>4, LockNumbers
  <2>7. Threshold # 0 => consecutive < Threshold
    BY <1>2, LockNumbers DEF LocksAt
  <2>8. ASSUME Threshold # 0, locked = FALSE PROVE answered' + Cardinality(Since') <= consecutive
    <3>1. answered + Cardinality(Since) <= consecutive
      BY <2>7, <2>8 DEF IInv, LockInv
    <3>2. CASE y.since = TRUE
      BY <2>5, <2>6, <3>1, <3>2, LockNumbers
    <3>3. CASE y.since = FALSE
      BY <2>5, <2>6, <3>1, <3>3, LockNumbers
    <3> QED  BY <1>0, <3>2, <3>3 DEF Request
  <2>n. /\ Threshold \in Nat /\ consecutive \in Nat /\ answered \in Nat
        /\ Cardinality(Since) \in Nat /\ Cardinality(Running) \in Nat /\ Cardinality(Logins) \in Nat
        /\ Cardinality(Since') \in Nat /\ Cardinality(Running') \in Nat
    BY LockNumbers
  <2>9. ASSUME Threshold # 0, locked = FALSE PROVE answered' <= Threshold - 1
    <3>1. answered' + Cardinality(Since') <= consecutive
      BY <2>8, <2>9
    <3> QED  BY <2>5, <2>7, <2>9, <2>n, <3>1
  <2>10. ASSUME Threshold # 0, locked = TRUE
         PROVE  answered' + Cardinality(Running') <= Threshold - 1 + Cardinality(Logins)
    <3>1. answered + Cardinality(Running) <= Threshold - 1 + Cardinality(Logins)
      BY <2>10 DEF IInv, LockInv
    <3> QED  BY <2>5, <2>6, <2>n, <3>1
  <2>11. LockInv'
    BY <1>0, <2>2, <2>8, <2>9, <2>10 DEF IInv, LockInv, RequestOK
  <2>12. BudgetInv'
    BY <1>0, <2>2, BudgetQuiet
  <2>13. LockoutTyped' /\ PasswordIsLastChosen'
    BY <1>0, <2>2, <2>5 DEF IInv, LockoutTyped, hashes, budget, PasswordIsLastChosen
  <2> QED  BY <2>11, <2>12, <2>13 DEF IInv
<1> QED  BY <1>1, <1>2

LEMMA LockStep ==
    ASSUME IInv, NEW r \in Logins, LoginLock(r)
    PROVE  IInv'
<1> DEFINE y == logins[r]
<1>0. /\ y \in Request /\ RequestOK(y) /\ logins \in [Logins -> Request] /\ LockoutTyped /\ y.pc = "lock"
      /\ UNCHANGED <<captcha, hashes, budget>>
  BY EachOK DEF IInv, LockoutTyped, LoginLock
<1>1. /\ logins' = [logins EXCEPT ![r] = NoLogin]
      /\ answered' = IF y.since THEN answered + 1 ELSE answered
  BY DEF LoginLock, Answer
<1>2. /\ logins' \in [Logins -> Request] /\ \A q \in Logins : RequestOK(logins'[q])
      /\ Pending' = Pending \ {r} /\ Trying' = Trying \ {r} /\ Since' = Since \ {r}
      /\ Running' = Running \ {r}
  BY <1>1, NoLoginOK, OneRequest DEF RequestOK
<1>3. answered' \in Nat /\ answered' <= answered + 1
  BY <1>0, <1>1 DEF LockoutTyped, Request
<1>4. r \in Running
  BY <1>0 DEF Running, RequestOK
<1>5. /\ locked' = TRUE /\ notices' = 1 /\ consecutive' \in Nat /\ consecutive' <= Threshold
  BY <1>0, LockoutAssumption DEF LoginLock, SetLockedUntil, NotifyLocked, IInv, LockoutTyped, LockInv
<1>6. ASSUME Threshold # 0
      PROVE  answered' + Cardinality(Running') <= Threshold - 1 + Cardinality(Logins)
  <2>n. /\ Threshold \in Nat /\ consecutive \in Nat /\ answered \in Nat
        /\ Cardinality(Since) \in Nat /\ Cardinality(Running) \in Nat /\ Cardinality(Logins) \in Nat
        /\ Cardinality(Since') \in Nat /\ Cardinality(Running') \in Nat
    BY LockNumbers
  <2>1. CASE locked = TRUE
    <3>1. Cardinality(Running') <= Cardinality(Running) - 1
      BY <1>2, <1>4, LockNumbers
    <3>2. answered + Cardinality(Running) <= Threshold - 1 + Cardinality(Logins)
      BY <1>6, <2>1 DEF IInv, LockInv
    <3> QED  BY <1>3, <2>n, <3>1, <3>2
  <2>2. CASE locked = FALSE
    <3>1. Cardinality(Running') <= Cardinality(Logins) - 1
      BY <1>2, LockNumbers
    <3>2. answered <= Threshold - 1
      BY <1>6, <2>2 DEF IInv, LockInv
    <3> QED  BY <1>3, <2>n, <3>1, <3>2
  <2> QED  BY <1>0, <2>1, <2>2 DEF LockoutTyped
<1>7. LockInv'
  BY <1>2, <1>5, <1>6 DEF LockInv, RequestOK
<1>8. BudgetInv'
  BY <1>0, <1>2, BudgetQuiet
<1>9. LockoutTyped' /\ PasswordIsLastChosen'
  BY <1>0, <1>2, <1>3, <1>5 DEF IInv, LockoutTyped, hashes, budget, PasswordIsLastChosen
<1> QED  BY <1>7, <1>8, <1>9 DEF IInv

\* What forgives: nothing is left to answer for.
LEMMA ForgiveOK ==
    ASSUME IInv, locked' = FALSE, answered' = 0, notices' = 0, consecutive' \in {0, consecutive},
           UNCHANGED <<captcha, budget>>,
           logins' \in [Logins -> Request],
           \A q \in Logins : /\ logins'[q].since = FALSE /\ RequestOK(logins'[q])
                             /\ q \in Pending' => q \in Pending
                             /\ q \in Trying' => q \in Trying
    PROVE  BudgetInv' /\ LockInv'
<1>1. Since' = {} /\ Pending' \subseteq Pending /\ Trying' \subseteq Trying
  BY DEF Since, Pending, Trying
<1>2. BudgetInv'
  BY <1>1, BudgetQuiet
<1>3. consecutive' \in Nat /\ consecutive' <= Threshold /\ Threshold \in Nat
  BY LockoutAssumption DEF IInv, LockoutTyped, LockInv
<1>4. Cardinality(Since') = 0
  BY <1>1, FS_EmptySet
<1>5. LockInv'
  BY <1>3, <1>4 DEF LockInv, RequestOK
<1> QED  BY <1>2, <1>5

LEMMA ForgiveSteps ==
    ASSUME IInv
    PROVE  /\ LockEnds => IInv'
           /\ \A r \in Logins : LoginProven(r) \/ ChangeCommit(r) => IInv'
<1>0. /\ LockoutTyped /\ logins \in [Logins -> Request]
      /\ \A q \in Logins : logins[q] \in Request /\ RequestOK(logins[q])
  BY EachOK DEF IInv, LockoutTyped
<1>1. /\ Forgiven \in [Logins -> Request]
      /\ \A q \in Logins : /\ Forgiven[q].young = logins[q].young /\ Forgiven[q].since = FALSE
                           /\ Forgiven[q].pc = logins[q].pc /\ Forgiven[q].locked = logins[q].locked
  BY <1>0 DEF Forgiven, Request
<1> HIDE DEF Forgiven
<1>2. ASSUME LockEnds
      PROVE  IInv'
  <2>1. /\ locked' = FALSE /\ answered' = 0 /\ notices' = 0 /\ logins' = Forgiven
        /\ UNCHANGED <<captcha, hashes, consecutive, budget>>
    BY <1>2 DEF LockEnds
  <2>2. \A q \in Logins : (q \in Pending' => q \in Pending) /\ (q \in Trying' => q \in Trying)
    BY <1>1, <2>1 DEF Pending, Trying
  <2>3. BudgetInv' /\ LockInv'
    BY <1>0, <1>1, <2>1, <2>2, ForgiveOK DEF RequestOK
  <2>4. LockoutTyped' /\ PasswordIsLastChosen'
    BY <1>0, <1>1, <2>1 DEF IInv, LockoutTyped, hashes, budget, PasswordIsLastChosen
  <2> QED  BY <2>3, <2>4 DEF IInv
<1>3. ASSUME NEW r \in Logins, Forgive, logins' = [Forgiven EXCEPT ![r] = NoLogin],
             UNCHANGED <<captcha, hashes, budget>>
      PROVE  IInv'
  <2>1. locked' = FALSE /\ answered' = 0 /\ notices' = 0 /\ consecutive' = 0
    BY <1>3 DEF Forgive
  <2>2. /\ logins' \in [Logins -> Request] /\ logins'[r] = NoLogin
        /\ \A q \in Logins \ {r} : logins'[q] = Forgiven[q]
    BY <1>1, <1>3, NoLoginOK
  <2>3. \A q \in Logins : (q \in Pending' => q \in Pending) /\ (q \in Trying' => q \in Trying)
    BY <1>1, <2>2, NoLoginOK DEF Pending, Trying
  <2>4. \A q \in Logins : logins'[q].since = FALSE /\ RequestOK(logins'[q])
    BY <1>0, <1>1, <2>2, NoLoginOK DEF RequestOK
  <2>5. BudgetInv' /\ LockInv'
    BY <1>3, <2>1, <2>2, <2>3, <2>4, ForgiveOK
  <2>6. LockoutTyped' /\ PasswordIsLastChosen'
    BY <1>0, <1>3, <2>1, <2>2 DEF IInv, LockoutTyped, hashes, budget, PasswordIsLastChosen
  <2> QED  BY <2>5, <2>6 DEF IInv
<1>4. ASSUME NEW r \in Logins, LoginProven(r)
      PROVE  IInv'
  <2>1. CASE RecordSignIn /\ logins' = [Forgiven EXCEPT ![r] = NoLogin]
    BY <1>3, <1>4, <2>1 DEF LoginProven, RecordSignIn
  <2>2. CASE /\ logins' = [logins EXCEPT ![r] = NoLogin]
             /\ UNCHANGED <<locked, failures, consecutive, answered, notices>>
    <3>1. UNCHANGED <<captcha, hashes, locked, consecutive, budget, answered, notices>>
      BY <1>4, <2>2 DEF LoginProven
    <3> QED  BY <2>2, <3>1, NoLoginOK, QuietRequest DEF RequestOK
  <2> QED  BY <1>4, <2>1, <2>2 DEF LoginProven
<1>5. ASSUME NEW r \in Logins, ChangeCommit(r)
      PROVE  IInv'
  <2> DEFINE x == [Forgiven[r] EXCEPT !.pc = "forgiven"]
  <2>1. /\ locked' = FALSE /\ answered' = 0 /\ notices' = 0 /\ consecutive' = 0
        /\ UNCHANGED <<captcha, rehashing, budget>> /\ logins' = [Forgiven EXCEPT ![r] = x]
    BY <1>1, <1>5 DEF ChangeCommit, Forgive
  <2>2. x \in Request /\ x.pc = "forgiven" /\ x.since = FALSE
    BY <1>1 DEF Request
  <2> HIDE DEF x
  <2>3. /\ logins' \in [Logins -> Request] /\ logins'[r] = x
        /\ \A q \in Logins \ {r} : logins'[q] = Forgiven[q]
    BY <1>1, <2>1, <2>2
  <2>4. \A q \in Logins : (q \in Pending' => q \in Pending) /\ (q \in Trying' => q \in Trying)
    BY <1>1, <2>2, <2>3 DEF Pending, Trying
  <2>5. \A q \in Logins : logins'[q].since = FALSE /\ RequestOK(logins'[q])
    BY <1>0, <1>1, <2>2, <2>3 DEF RequestOK
  <2>6. BudgetInv' /\ LockInv'
    BY <2>1, <2>3, <2>4, <2>5, ForgiveOK
  <2>7. password' \in Hash /\ chosen' \in Nat /\ password'.version = chosen'
    <3>1. CASE chosen' = chosen + 1 /\ UpdatePasswordHash(chosen')
      BY <1>0, <3>1 DEF UpdatePasswordHash, LockoutTyped, Hash
    <3>2. CASE UNCHANGED <<chosen, password>>
      BY <1>0, <3>2 DEF LockoutTyped, IInv, PasswordIsLastChosen
    <3> QED  BY <1>5, <3>1, <3>2 DEF ChangeCommit
  <2>8. LockoutTyped' /\ PasswordIsLastChosen'
    BY <1>0, <2>1, <2>3, <2>7 DEF LockoutTyped, budget, PasswordIsLastChosen
  <2> QED  BY <2>6, <2>8 DEF IInv
<1> QED  BY <1>2, <1>4, <1>5

LEMMA UntouchedStep ==
    ASSUME IInv, UNCHANGED <<captcha, locked, consecutive, budget, logins, answered, notices>>,
           password' \in Hash, rehashing' \in SUBSET Hash, chosen' = chosen, password'.version = password.version
    PROVE  IInv'
<1>0. \A q \in Logins : RequestOK(logins'[q])
  BY EachOK
<1>1. Pending' = Pending /\ Trying' = Trying /\ Since' = Since /\ Running' = Running
  BY DEF Pending, Trying, Since, Running
<1>2. BudgetInv' /\ LockInv'
  BY <1>0, <1>1, BudgetQuiet, LockQuiet
<1>3. LockoutTyped' /\ PasswordIsLastChosen'
  BY DEF IInv, LockoutTyped, budget, PasswordIsLastChosen
<1> QED  BY <1>2, <1>3 DEF IInv

LEMMA RehashStep ==
    ASSUME IInv, NEW h \in rehashing, Rehash(h)
    PROVE  IInv'
<1>1. h \in Hash /\ password \in Hash /\ rehashing \in SUBSET Hash
  BY DEF IInv, LockoutTyped
<1>2. [h EXCEPT !.weak = FALSE] \in Hash /\ [h EXCEPT !.weak = FALSE].version = h.version
  BY <1>1 DEF Hash
<1>3. password' \in Hash /\ password'.version = password.version /\ rehashing' \in SUBSET Hash
  BY <1>1, <1>2 DEF Rehash
<1> QED  BY <1>3, UntouchedStep DEF Rehash

LEMMA InvStep == IInv /\ [LockoutNext]_lockoutVars => IInv'
<1> SUFFICES ASSUME IInv, [LockoutNext]_lockoutVars PROVE IInv'
  OBVIOUS
<1>1. ASSUME NEW r \in Logins,
        \/ PostLogin(r) \/ LoginFind(r) \/ LoginReserve(r) \/ LoginRefused(r) \/ LoginVerify(r)
        \/ LoginRecord(r) \/ LoginCount(r) \/ LoginLock(r)
        \/ LoginRelease(r) \/ LoginProven(r)
        \/ ChangeBegin(r) \/ ChangeCommit(r) \/ ChangeReset(r)
        \/ LoginDrops(r)
      PROVE  IInv'
  BY <1>1, QuietSteps, ReserveStep, RefusedStep, VerifyStep, RecordStep, CountStep, LockStep,
     ReleaseStep, ForgiveSteps, ResetSteps
<1>2. ASSUME NEW i \in Identifiers, FailureAges(i)
      PROVE  IInv'
  BY <1>2, UntouchedStep DEF FailureAges, hashes, IInv, LockoutTyped
<1>3. CASE UNCHANGED lockoutVars
  BY <1>3, UntouchedStep DEF lockoutVars, budget, IInv, LockoutTyped
<1> QED  BY <1>1, <1>2, <1>3, RehashStep, ForgiveSteps, ResetSteps DEF LockoutNext

LEMMA Invariance == LockoutSpec => []IInv
BY InitOK, InvStep, PTL DEF LockoutSpec

LEMMA IInvBounds == IInv => GuessesBounded
<1> SUFFICES ASSUME IInv PROVE GuessesBounded
  OBVIOUS
<1>0. LockoutTyped
  BY DEF IInv
<1>1. ASSUME ~captcha PROVE guesses <= Limit + returned
  <2>1. Cardinality(Trying) \in Nat
    BY LockoutAssumption, SetsOK, FS_Subset, FS_CardinalityType
  <2> QED  BY <1>0, <1>1, <2>1, LockoutAssumption DEF IInv, BudgetInv, LockoutTyped
<1>2. ASSUME Threshold # 0 PROVE answered <= Threshold - 1 + Cardinality(Logins)
  <2>1. Cardinality(Running) \in Nat /\ Cardinality(Logins) \in Nat /\ Threshold \in Nat
    BY LockoutAssumption, SetsOK, FS_Subset, FS_CardinalityType
  <2>2. CASE locked = TRUE
    BY <1>0, <1>2, <2>1, <2>2 DEF IInv, LockInv, LockoutTyped
  <2>3. CASE locked = FALSE
    BY <1>0, <1>2, <2>1, <2>3 DEF IInv, LockInv, LockoutTyped
  <2> QED  BY <1>0, <2>2, <2>3 DEF LockoutTyped
<1>3. notices = (IF locked THEN 1 ELSE 0) /\ (tries # NoKey /\ tries > 0 => expires)
  BY DEF IInv, LockInv, BudgetInv
<1> QED  BY <1>1, <1>2, <1>3 DEF GuessesBounded

(***************************************************************************)
(* For any number of sign-ins at once, any threshold and any budget:       *)
(* within one life of its key the budget admits no more wrong passwords    *)
(* than its limit and the attempts that a reset let be given back twice;   *)
(* no more are answered between two forgivenesses than lock the account    *)
(* and those already running; one notice is sent for a lock; and a key     *)
(* that counts something expires.                                          *)
(***************************************************************************)
THEOREM BoundedGuesses == LockoutSpec => []GuessesBounded
BY Invariance, IInvBounds, PTL

(***************************************************************************)
(* However late a background rehash comes, the stored hash is of the       *)
(* password the owner chose last.                                          *)
(***************************************************************************)
THEOREM LastChosen == LockoutSpec => []PasswordIsLastChosen
<1>1. IInv => PasswordIsLastChosen
  BY DEF IInv
<1> QED  BY <1>1, Invariance, PTL

-----------------------------------------------------------------------------
(***************************************************************************)
(* The second factor: what FactorInv adds to OneSignInPerProof is what     *)
(* makes it inductive, that whoever is about to sign in holds its          *)
(* challenge and its code alone, that what they ended with stays ended,    *)
(* and that an attempt counted and not yet judged is still covered by the  *)
(* challenge's budget.                                                     *)
(***************************************************************************)
FactorTyped ==
    /\ resets \in Nat
    /\ challenge \in [Challenges -> Challenge]
    /\ index \in SUBSET Challenges /\ IsFiniteSet(index)
    /\ fails \in [Challenges -> [Kinds -> Nat]] /\ wrong \in [Challenges -> [Kinds -> Nat]]
    /\ mailed \in SUBSET MailedCodes /\ codes \in Nat /\ codes <= MaxCodes
    /\ link \in [Links -> {"unsent", "live", "used"}]
    /\ req \in [Reqs -> Req]
    /\ signed \in [Challenges -> Nat] /\ spent \in [Codes -> Nat]
    /\ outdated \in SUBSET Links

\* What a request does where it is, and with what.
Shape(x) ==
    /\ x.op \in Kinds => x.pc \in {"load", "budget", "verify", "clear", "take", "after", "issue"}
    /\ x.pc \in {"load", "budget", "verify", "clear", "take", "after"} => x.op \in Kinds
    /\ x.op \in Kinds \/ x.pc \in {"count", "pop", "drop", "index", "send", "mail"} =>
           x.challenge \in Challenges
    /\ x.pc = "after" => x.op = "recovery"
    /\ x.pc \in {"link", "locked"} => x.op = "link"
    /\ x.op = "link" => x.code \in Links
    /\ x.op = "totp" => x.code \in TotpCodes \cup {Guess}
    /\ x.op = "recovery" => x.code \in RecoveryCodes \cup {Guess}
    /\ x.op = "email" => x.code \in MailedCodes \cup {Guess}
    /\ x.pc \in {"drop", "purge"} => x.read \subseteq Challenges

\* It has taken its challenge; its code was right; its attempt is counted and not yet judged.
Owns(x) == x.op \in Kinds /\ x.pc \in {"after", "issue"}
Holds(x) == x.op \in Kinds /\ x.pc \in {"clear", "take", "after", "issue"}
Counted(x) == x.pc = "verify" /\ x.young = TRUE

\* A challenge taken is gone, and taken by one request that has not signed in yet.
ChallengesInv ==
    /\ \A c \in Challenges : signed[c] <= 1 /\ (signed[c] # 0 => challenge[c].state = "gone")
    /\ \A s \in Reqs : Owns(req[s]) =>
           challenge[req[s].challenge].state = "gone" /\ signed[req[s].challenge] = 0
    /\ \A s, t \in Reqs :
           Owns(req[s]) /\ Owns(req[t]) /\ req[s].challenge = req[t].challenge => s = t

\* A code nobody can spend any more: no row holds it, and none will.
Ended(x) ==
    IF x \in MailedCodes
    THEN /\ x \notin mailed /\ x.id <= codes
         /\ \A t \in Reqs : req[t].pc = "mail" => req[t].n # x.id
    ELSE x \in used

\* The number of a code being mailed is its own.
NumbersInv ==
    /\ \A y \in mailed : y.id <= codes
    /\ \A s \in Reqs : req[s].pc = "mail" =>
           req[s].n \in 1..codes /\ \A y \in mailed : y.id # req[s].n
    /\ \A s, t \in Reqs : req[s].pc = "mail" /\ req[t].pc = "mail" /\ req[s].n = req[t].n => s = t

\* A code found right has ended, and is held by one request.
CodesInv ==
    /\ \A s \in Reqs : Holds(req[s]) => req[s].code \in Codes \ Links
    /\ \A s \in Reqs, x \in Codes \ Links :
           Holds(req[s]) /\ req[s].code = x => Ended(x) /\ spent[x] = 0
    /\ \A s, t \in Reqs : Holds(req[s]) /\ Holds(req[t]) /\ req[s].code = req[t].code => s = t
    /\ \A x \in Codes \ Links : spent[x] <= 1 /\ (spent[x] # 0 => Ended(x))

\* A link being used is live under its row's lock; one used or outdated is not.
LinksInv ==
    /\ \A l \in Links : spent[l] <= 1 /\ (spent[l] # 0 => link[l] = "used")
    /\ \A l \in outdated : link[l] = "used" /\ spent[l] = 0
    /\ \A s \in Reqs : req[s].pc = "locked" => link[req[s].code] = "live"
    /\ \A s, t \in Reqs :
           req[s].pc = "locked" /\ req[t].pc = "locked" /\ req[s].code = req[t].code => s = t

\* The attempts counted and not yet judged.
Awaiting(c, k) ==
    {s \in Reqs : Counted(req[s]) /\ req[s].challenge = c /\ req[s].op = k}

\* A challenge's key covers the wrong codes looked at and those that may still be.
FailsInv ==
    \A c \in Challenges, k \in Kinds :
        /\ wrong[c][k] + Cardinality(Awaiting(c, k)) <= fails[c][k]
        /\ wrong[c][k] + Cardinality(Awaiting(c, k)) <= MaxFailures

\* What a mailing is to delete was mailed before, and is older than a code there is.
MailsInv ==
    \A s \in Reqs : req[s].pc = "mail" =>
        \A x \in req[s].read :
            /\ x \in MailedCodes /\ x.id <= codes
            /\ \A t \in Reqs : req[t].pc = "mail" => req[t].n # x.id
            /\ x \in mailed => \E y \in mailed : x.id < y.id

ShapesInv == \A s \in Reqs : Shape(req[s])

FactorInv ==
    /\ FactorTyped /\ ShapesInv /\ ChallengesInv /\ NumbersInv /\ CodesInv /\ LinksInv
    /\ FailsInv /\ MailsInv

-----------------------------------------------------------------------------
(***************************************************************************)
(* A step that gives a request nothing new, and what it leaves.            *)
(***************************************************************************)
KeepsOwned(x, y) == Owns(y) => Owns(x) /\ y.challenge = x.challenge
KeepsHeld(x, y) == Holds(y) => Holds(x) /\ y.code = x.code
KeepsMail(x, y) == y.pc = "mail" => x.pc = "mail" /\ y.n = x.n /\ y.read = x.read
KeepsLock(x, y) == y.pc = "locked" => x.pc = "locked" /\ y.code = x.code
KeepsCount(x, y) == Counted(y) => Counted(x) /\ y.op = x.op /\ y.challenge = x.challenge

Keeps(x, y) ==
    /\ KeepsOwned(x, y) /\ KeepsHeld(x, y) /\ KeepsMail(x, y) /\ KeepsLock(x, y)
    /\ KeepsCount(x, y)

LEMMA KeepsItself == ASSUME NEW x PROVE Keeps(x, x)
BY DEF Keeps, KeepsOwned, KeepsHeld, KeepsMail, KeepsLock, KeepsCount

LEMMA QuietChallenges ==
    ASSUME ChallengesInv, signed' = signed, \A s \in Reqs : KeepsOwned(req[s], req'[s]),
           \A c \in Challenges : challenge[c].state = "gone" => challenge'[c].state = "gone",
           \A s \in Reqs : Owns(req[s]) => req[s].challenge \in Challenges
    PROVE  ChallengesInv'
<1> USE DEF ChallengesInv, KeepsOwned
<1>1. \A c \in Challenges : signed'[c] <= 1 /\ (signed'[c] # 0 => challenge'[c].state = "gone")
  OBVIOUS
<1>2. \A s \in Reqs : Owns(req'[s]) =>
         challenge'[req'[s].challenge].state = "gone" /\ signed'[req'[s].challenge] = 0
  OBVIOUS
<1>3. \A s, t \in Reqs :
         Owns(req'[s]) /\ Owns(req'[t]) /\ req'[s].challenge = req'[t].challenge => s = t
  OBVIOUS
<1> QED  BY <1>1, <1>2, <1>3 DEF Owns

LEMMA QuietNumbers ==
    ASSUME NumbersInv, mailed' \subseteq mailed, codes' = codes,
           \A s \in Reqs : KeepsMail(req[s], req'[s])
    PROVE  NumbersInv'
BY DEF NumbersInv, KeepsMail

LEMMA StillEnded ==
    ASSUME NEW x \in Codes, Ended(x), used \subseteq used', mailed' \subseteq mailed, codes' = codes,
           \A s \in Reqs : KeepsMail(req[s], req'[s])
    PROVE  Ended(x)'
<1>1. CASE x \in MailedCodes
  BY <1>1 DEF Ended, KeepsMail
<1>2. CASE x \notin MailedCodes
  BY <1>2 DEF Ended
<1> QED  BY <1>1, <1>2

LEMMA QuietCodes ==
    ASSUME CodesInv, \A x \in Codes \ Links : Ended(x) => Ended(x)',
           \A x \in Codes \ Links : spent'[x] = spent[x],
           \A s \in Reqs : KeepsHeld(req[s], req'[s])
    PROVE  CodesInv'
<1> USE DEF CodesInv, KeepsHeld
<1>0. \A s \in Reqs : Holds(req'[s]) => req'[s].code \in Codes \ Links
  OBVIOUS
<1>1. \A s \in Reqs, x \in Codes \ Links :
         Holds(req'[s]) /\ req'[s].code = x => Ended(x)' /\ spent'[x] = 0
  OBVIOUS
<1>2. \A s, t \in Reqs : Holds(req'[s]) /\ Holds(req'[t]) /\ req'[s].code = req'[t].code => s = t
  OBVIOUS
<1>3. \A x \in Codes \ Links : spent'[x] <= 1 /\ (spent'[x] # 0 => Ended(x)')
  OBVIOUS
<1> QED  BY <1>0, <1>1, <1>2, <1>3 DEF Holds

LEMMA QuietLinks ==
    ASSUME LinksInv, UNCHANGED <<link, outdated>>, outdated \subseteq Links,
           \A l \in Links : spent'[l] = spent[l], \A s \in Reqs : KeepsLock(req[s], req'[s])
    PROVE  LinksInv'
BY DEF LinksInv, KeepsLock

LEMMA ReqCounting ==
    ASSUME NEW S \in SUBSET Reqs, NEW T \in SUBSET Reqs, NEW r \in Reqs
    PROVE  /\ Cardinality(S) \in Nat
           /\ T \subseteq S => Cardinality(T) <= Cardinality(S)
           /\ T \subseteq S \cup {r} => Cardinality(T) <= Cardinality(S) + 1
           /\ T \subseteq S /\ r \in S \ T => Cardinality(T) <= Cardinality(S) - 1
BY FiniteCounting, SecondFactorAssumption

LEMMA QuietFails ==
    ASSUME FactorTyped, FailsInv, wrong' = wrong, fails' \in [Challenges -> [Kinds -> Nat]],
           \A c \in Challenges, k \in Kinds : fails[c][k] <= fails'[c][k],
           \A s \in Reqs : KeepsCount(req[s], req'[s])
    PROVE  FailsInv'
<1> SUFFICES ASSUME NEW c \in Challenges, NEW k \in Kinds
             PROVE  /\ wrong'[c][k] + Cardinality(Awaiting(c, k)') <= fails'[c][k]
                    /\ wrong'[c][k] + Cardinality(Awaiting(c, k)') <= MaxFailures
  BY DEF FailsInv
<1>1. Awaiting(c, k)' \subseteq Awaiting(c, k) /\ Awaiting(c, k) \in SUBSET Reqs
      /\ Awaiting(c, k)' \in SUBSET Reqs
  BY DEF Awaiting, KeepsCount
<1>2. /\ Cardinality(Awaiting(c, k)') <= Cardinality(Awaiting(c, k))
      /\ Cardinality(Awaiting(c, k)) \in Nat /\ Cardinality(Awaiting(c, k)') \in Nat
  <2>1. IsFiniteSet(Awaiting(c, k)) /\ IsFiniteSet(Awaiting(c, k)')
    BY <1>1, SecondFactorAssumption, FS_Subset
  <2> QED  BY <1>1, <2>1, FS_Subset, FS_CardinalityType
<1>3. /\ wrong[c][k] \in Nat /\ fails[c][k] \in Nat /\ fails'[c][k] \in Nat /\ MaxFailures \in Nat
      /\ fails[c][k] <= fails'[c][k]
  BY SecondFactorAssumption DEF FactorTyped
<1>4. /\ wrong[c][k] + Cardinality(Awaiting(c, k)) <= fails[c][k]
      /\ wrong[c][k] + Cardinality(Awaiting(c, k)) <= MaxFailures
  BY DEF FailsInv
<1> QED  BY <1>2, <1>3, <1>4

LEMMA QuietMails ==
    ASSUME MailsInv, mailed' \in {mailed, {}}, codes' = codes, \A s \in Reqs : KeepsMail(req[s], req'[s])
    PROVE  MailsInv'
BY DEF MailsInv, KeepsMail

LEMMA OwnsTyped ==
    ASSUME ShapesInv, NEW s \in Reqs, Holds(req[s]) \/ Counted(req[s])
    PROVE  req[s].challenge \in Challenges /\ req[s].op \in Kinds
BY DEF ShapesInv, Shape, Holds, Counted

LEMMA FactorQuiet ==
    ASSUME FactorInv, UNCHANGED <<wrong, used, mailed, codes, link, signed, spent, outdated>>,
           resets' \in Nat, challenge' \in [Challenges -> Challenge],
           index' \in SUBSET Challenges, IsFiniteSet(index'),
           fails' \in [Challenges -> [Kinds -> Nat]], req' \in [Reqs -> Req],
           \A c \in Challenges : challenge[c].state = "gone" => challenge'[c].state = "gone",
           \A c \in Challenges, k \in Kinds : fails[c][k] <= fails'[c][k],
           \A s \in Reqs : Shape(req'[s]) /\ Keeps(req[s], req'[s])
    PROVE  FactorInv'
<1>0. FactorTyped' /\ ShapesInv'
  BY DEF FactorInv, FactorTyped, ShapesInv
<1>1. ChallengesInv'
  <2>1. \A s \in Reqs : Owns(req[s]) => req[s].challenge \in Challenges
    BY OwnsTyped DEF FactorInv, Owns, Holds
  <2> QED  BY <2>1, QuietChallenges DEF FactorInv, Keeps
<1>2. NumbersInv'
  BY QuietNumbers DEF FactorInv, Keeps
<1>3. CodesInv'
  <2>1. \A x \in Codes \ Links : Ended(x) => Ended(x)'
    BY StillEnded DEF Keeps
  <2> QED  BY <2>1, QuietCodes DEF FactorInv, Keeps
<1>4. LinksInv'
  BY QuietLinks DEF FactorInv, FactorTyped, Keeps
<1>5. FailsInv'
  BY QuietFails DEF FactorInv, Keeps
<1>6. MailsInv'
  BY QuietMails DEF FactorInv, Keeps
<1> QED  BY <1>0, <1>1, <1>2, <1>3, <1>4, <1>5, <1>6 DEF FactorInv

\* Where a request has nothing that the invariants are about.
Plain(x) == x.pc \notin {"locked", "mail", "verify"} /\ ~Holds(x)

LEMMA PlainKeeps == ASSUME NEW x, NEW y, Plain(y) PROVE Keeps(x, y)
BY DEF Plain, Keeps, KeepsOwned, KeepsHeld, KeepsMail, KeepsLock, KeepsCount, Holds, Owns, Counted

LEMMA IdleOK == Idle \in Req /\ Shape(Idle) /\ Plain(Idle) /\ Idle.pc = "idle" /\ Idle.op = None
BY SecondFactorAssumption DEF Idle, Req, Shape, Plain, Holds, Kinds

LEMMA OneReq ==
    ASSUME FactorInv, NEW r \in Reqs, NEW x \in Req, Shape(x), req' = [req EXCEPT ![r] = x]
    PROVE  /\ req' \in [Reqs -> Req] /\ req'[r] = x /\ \A s \in Reqs : s # r => req'[s] = req[s]
           /\ \A s \in Reqs : Shape(req'[s]) /\ (s # r => Keeps(req[s], req'[s]))
<1>1. req' \in [Reqs -> Req] /\ req'[r] = x /\ \A s \in Reqs : s # r => req'[s] = req[s]
  BY DEF FactorInv, FactorTyped
<1>2. \A s \in Reqs : Shape(req'[s]) /\ (s # r => Keeps(req[s], req'[s]))
  BY <1>1, KeepsItself DEF FactorInv, ShapesInv
<1> QED  BY <1>1, <1>2

LEMMA PlainStep ==
    ASSUME FactorInv, NEW r \in Reqs, NEW x \in Req, Shape(x), Plain(x),
           req' = [req EXCEPT ![r] = x],
           UNCHANGED <<challenge, fails, wrong, used, mailed, codes, link, signed, spent, outdated>>,
           resets' \in Nat, index' \in SUBSET Challenges, IsFiniteSet(index')
    PROVE  FactorInv'
<1>1. /\ req' \in [Reqs -> Req] /\ \A s \in Reqs : Shape(req'[s]) /\ Keeps(req[s], req'[s])
  BY OneReq, PlainKeeps
<1>2. /\ challenge' \in [Challenges -> Challenge] /\ fails' \in [Challenges -> [Kinds -> Nat]]
      /\ \A c \in Challenges : challenge[c].state = "gone" => challenge'[c].state = "gone"
      /\ \A c \in Challenges, k \in Kinds : fails[c][k] <= fails'[c][k]
  BY DEF FactorInv, FactorTyped
<1> QED  BY <1>1, <1>2, FactorQuiet
-----------------------------------------------------------------------------
(***************************************************************************)
(* The steps, first those that give nothing new.                           *)
(***************************************************************************)
LEMMA ReqAt ==
    ASSUME FactorInv, NEW r \in Reqs
    PROVE  /\ FactorTyped /\ req[r] \in Req /\ Shape(req[r]) /\ req \in [Reqs -> Req]
           /\ resets \in Nat /\ index \in SUBSET Challenges /\ IsFiniteSet(index)
           /\ mailed \in SUBSET MailedCodes
BY DEF FactorInv, FactorTyped, ShapesInv

LEMMA DoneStep ==
    ASSUME FactorInv, NEW r \in Reqs, Done(r),
           UNCHANGED <<challenge, fails, wrong, used, mailed, codes, link, signed, spent, outdated>>,
           UNCHANGED <<resets, index>>
    PROVE  FactorInv'
BY ReqAt, IdleOK, PlainStep DEF Done

LEMMA BeginSteps ==
    ASSUME FactorInv, NEW r \in Reqs
    PROVE  /\ LoginBegin(r) => FactorInv'
           /\ \A l \in Links : LinkBegin(r, l) => FactorInv'
           /\ \A c \in Challenges : ResendBegin(r, c) => FactorInv'
           /\ ResetBegin(r) => FactorInv'
<1> USE DEF budgets, mail, history
<1>0. resets \in Nat /\ index \in SUBSET Challenges /\ IsFiniteSet(index)
  BY ReqAt
<1>1. ASSUME LoginBegin(r) PROVE FactorInv'
  <2> DEFINE x == [Idle EXCEPT !.pc = "method", !.op = "login", !.proof = resets]
  <2>1. x \in Req /\ Shape(x) /\ Plain(x)
    BY <1>0, <1>1 DEF Idle, Req, Shape, Plain, Holds, Kinds, LoginBegin, Begin
  <2>2. req' = [req EXCEPT ![r] = x]
    BY <1>1 DEF LoginBegin
  <2> HIDE DEF x
  <2> QED  BY <1>0, <1>1, <2>1, <2>2, PlainStep DEF LoginBegin
<1>2. ASSUME NEW l \in Links, LinkBegin(r, l) PROVE FactorInv'
  <2> DEFINE x == [Idle EXCEPT !.pc = "link", !.op = "link", !.code = l]
  <2>1. x \in Req /\ Shape(x) /\ Plain(x)
    BY <1>2 DEF Idle, Req, Shape, Plain, Holds, Kinds, LinkBegin, Begin, Codes
  <2>2. req' = [req EXCEPT ![r] = x]
    BY <1>2 DEF LinkBegin
  <2> HIDE DEF x
  <2> QED  BY <1>0, <1>2, <2>1, <2>2, PlainStep DEF LinkBegin
<1>3. ASSUME NEW c \in Challenges, ResendBegin(r, c) PROVE FactorInv'
  <2> DEFINE x == [Idle EXCEPT !.pc = "send", !.op = "resend", !.challenge = c]
  <2>1. x \in Req /\ Shape(x) /\ Plain(x)
    BY <1>3 DEF Idle, Req, Shape, Plain, Holds, Kinds, ResendBegin, Begin
  <2>2. req' = [req EXCEPT ![r] = x]
    BY <1>3 DEF ResendBegin
  <2> HIDE DEF x
  <2> QED  BY <1>0, <1>3, <2>1, <2>2, PlainStep DEF ResendBegin
<1>4. ASSUME ResetBegin(r) PROVE FactorInv'
  <2> DEFINE x == [Idle EXCEPT !.pc = "commit", !.op = "reset"]
  <2>1. x \in Req /\ Shape(x) /\ Plain(x)
    BY <1>4 DEF Idle, Req, Shape, Plain, Holds, Kinds, ResetBegin, Begin
  <2>2. req' = [req EXCEPT ![r] = x]
    BY <1>4 DEF ResetBegin
  <2> HIDE DEF x
  <2> QED  BY <1>0, <1>4, <2>1, <2>2, PlainStep DEF ResetBegin
<1> QED  BY <1>1, <1>2, <1>3, <1>4

LEMMA CompleteBeginStep ==
    ASSUME FactorInv, NEW r \in Reqs, NEW c \in Challenges,
           CompleteTwoFactor(r, c) \/ CompleteEmailTwoFactor(r, c) \/ RecoveryLogin(r, c)
    PROVE  FactorInv'
<1> USE DEF budgets, mail, history
<1>0. /\ resets \in Nat /\ index \in SUBSET Challenges /\ IsFiniteSet(index)
      /\ mailed \in SUBSET MailedCodes
  BY ReqAt
<1>1. PICK k \in Kinds, code \in Codes \cup {Guess} :
         /\ CompleteBegin(r, k, c, code)
         /\ k = "totp" => code \in TotpCodes \cup {Guess}
         /\ k = "recovery" => code \in RecoveryCodes \cup {Guess}
         /\ k = "email" => code \in MailedCodes \cup {Guess}
  BY <1>0 DEF CompleteTwoFactor, CompleteEmailTwoFactor, RecoveryLogin, Typed, Kinds, Codes
<1> DEFINE x == [Idle EXCEPT !.pc = "load", !.op = k, !.challenge = c, !.code = code]
<1>2. x \in Req /\ Shape(x) /\ Plain(x)
  BY <1>1 DEF Idle, Req, Shape, Plain, Holds, Kinds, CompleteBegin, Begin
<1>3. req' = [req EXCEPT ![r] = x]
  BY <1>1 DEF CompleteBegin
<1> HIDE DEF x
<1> QED  BY <1>0, <1>1, <1>2, <1>3, PlainStep DEF CompleteBegin

LEMMA FirstFactorStep ==
    ASSUME FactorInv, NEW r \in Reqs, FirstFactorProven(r)
    PROVE  FactorInv'
<1> DEFINE x == [req[r] EXCEPT !.pc = IF method = None THEN "issue" ELSE "store"]
<1>1. x \in Req /\ Shape(x) /\ Plain(x)
  BY ReqAt DEF FirstFactorProven, Req, Shape, Plain, Holds
<1>2. req' = [req EXCEPT ![r] = x]
  BY ReqAt DEF FirstFactorProven, Goto
<1> HIDE DEF x
<1> QED  BY <1>1, <1>2, ReqAt, PlainStep DEF FirstFactorProven, budgets, mail, history

LEMMA StoreStep ==
    ASSUME FactorInv, NEW r \in Reqs, NEW c \in Challenges, ChallengeStore(r, c)
    PROVE  FactorInv'
<1> DEFINE x == [req[r] EXCEPT !.pc = "count", !.challenge = c]
<1>1. x \in Req /\ Shape(x) /\ Plain(x)
  BY ReqAt DEF ChallengeStore, Req, Shape, Plain, Holds
<1>2. req' = [req EXCEPT ![r] = x]
  BY ReqAt DEF ChallengeStore
<1> HIDE DEF x
<1>3. req' \in [Reqs -> Req] /\ \A s \in Reqs : Shape(req'[s]) /\ Keeps(req[s], req'[s])
  BY <1>1, <1>2, OneReq, PlainKeeps
<1>4. req[r].proof \in Nat
  BY ReqAt DEF Req
<1>5. /\ challenge' \in [Challenges -> Challenge]
      /\ \A d \in Challenges : challenge[d].state = "gone" => challenge'[d].state = "gone"
  BY <1>4, ReqAt DEF ChallengeStore, FactorTyped, Challenge
<1>6. /\ fails' \in [Challenges -> [Kinds -> Nat]]
      /\ \A d \in Challenges, k \in Kinds : fails[d][k] <= fails'[d][k]
  BY ReqAt DEF ChallengeStore, FactorTyped, budgets
<1> QED  BY <1>3, <1>5, <1>6, ReqAt, FactorQuiet DEF ChallengeStore, budgets, mail, history

LEMMA ChallengeCountStep ==
    ASSUME FactorInv, NEW r \in Reqs, ChallengeCount(r)
    PROVE  FactorInv'
<1> DEFINE open == Cardinality(index)
           n == IF open < MaxOpen THEN 0 ELSE open - (MaxOpen - 1)
           pc == IF open < MaxOpen THEN "index" ELSE "pop"
           x == [req[r] EXCEPT !.pc = pc, !.n = n]
<1>1. open \in Nat
  BY ReqAt, FS_CardinalityType
<1>2. req' = [req EXCEPT ![r] = x]
  BY ReqAt DEF ChallengeCount
<1> HIDE DEF open
<1>a. n \in Nat /\ pc \in {"index", "pop"}
  BY <1>1, SecondFactorAssumption
<1> HIDE DEF n, pc
<1>3. x \in Req /\ Shape(x) /\ Plain(x)
  BY <1>a, ReqAt DEF ChallengeCount, Req, Shape, Plain, Holds
<1> HIDE DEF x
<1> QED  BY <1>2, <1>3, ReqAt, PlainStep DEF ChallengeCount, budgets, mail, history

LEMMA PopStep ==
    ASSUME FactorInv, NEW r \in Reqs, ChallengePop(r)
    PROVE  FactorInv'
<1> USE DEF budgets, mail, history
<1>1. ASSUME NEW c \in index, req[r].n > 0, index' = index \ {c},
             req' = [req EXCEPT ![r].pc = "drop", ![r].n = @ - 1, ![r].read = {c}]
      PROVE  FactorInv'
  <2> DEFINE x == [req[r] EXCEPT !.pc = "drop", !.n = @ - 1, !.read = {c}]
  <2>1. x \in Req /\ Shape(x) /\ Plain(x)
    BY <1>1, ReqAt DEF ChallengePop, Req, Shape, Plain, Holds
  <2>2. req' = [req EXCEPT ![r] = x]
    BY <1>1, ReqAt
  <2>3. index' \in SUBSET Challenges /\ IsFiniteSet(index')
    BY <1>1, ReqAt, FS_Subset
  <2> HIDE DEF x
  <2> QED  BY <2>1, <2>2, <2>3, ReqAt, PlainStep DEF ChallengePop
<1>2. ASSUME Goto(r, "index"), UNCHANGED index
      PROVE  FactorInv'
  <2> DEFINE x == [req[r] EXCEPT !.pc = "index"]
  <2>1. x \in Req /\ Shape(x) /\ Plain(x)
    BY ReqAt DEF ChallengePop, Req, Shape, Plain, Holds
  <2>2. req' = [req EXCEPT ![r] = x]
    BY <1>2, ReqAt DEF Goto
  <2> HIDE DEF x
  <2> QED  BY <1>2, <2>1, <2>2, ReqAt, PlainStep DEF ChallengePop
<1> QED  BY <1>1, <1>2 DEF ChallengePop

LEMMA IndexStep ==
    ASSUME FactorInv, NEW r \in Reqs, ChallengeIndex(r)
    PROVE  FactorInv'
<1> USE DEF budgets, mail, history
<1>0. req[r].challenge \in Challenges
  BY ReqAt DEF ChallengeIndex, Shape
<1>1. index' \in SUBSET Challenges /\ IsFiniteSet(index')
  BY <1>0, ReqAt, FS_AddElement DEF ChallengeIndex
<1> DEFINE x == IF method = "email" THEN [req[r] EXCEPT !.pc = "send"] ELSE Idle
<1>2. x \in Req /\ Shape(x) /\ Plain(x)
  BY <1>0, IdleOK, ReqAt DEF ChallengeIndex, Req, Shape, Plain, Holds
<1>3. req' = [req EXCEPT ![r] = x]
  BY ReqAt DEF ChallengeIndex, Goto, Done
<1> HIDE DEF x
<1> QED  BY <1>1, <1>2, <1>3, ReqAt, PlainStep DEF ChallengeIndex

LEMMA LoadStep ==
    ASSUME FactorInv, NEW r \in Reqs, CompleteLoad(r)
    PROVE  FactorInv'
<1> USE DEF budgets, mail, history
<1> DEFINE c == req[r].challenge
           x == [req[r] EXCEPT !.pc = "budget", !.proof = challenge[c].proof]
<1>1. c \in Challenges /\ challenge[c].proof \in Nat
  <2>1. c \in Challenges
    BY ReqAt DEF CompleteLoad, Shape
  <2> QED  BY <2>1, ReqAt DEF FactorTyped, Challenge
<1>2. x \in Req /\ Shape(x) /\ Plain(x)
  BY <1>1, ReqAt DEF CompleteLoad, Req, Shape, Plain, Holds
<1>3. CASE req' = [req EXCEPT ![r].pc = "budget", ![r].proof = challenge[c].proof]
  <2>1. req' = [req EXCEPT ![r] = x]
    BY <1>3, ReqAt
  <2> HIDE DEF x
  <2> QED  BY <1>2, <2>1, ReqAt, PlainStep DEF CompleteLoad
<1>4. CASE Done(r)
  BY <1>4, DoneStep DEF CompleteLoad
<1> QED  BY <1>3, <1>4 DEF CompleteLoad

LEMMA PurgeSteps ==
    ASSUME FactorInv, NEW r \in Reqs
    PROVE  PurgeList(r) \/ PurgeIndex(r) \/ ResetBudgets(r) => FactorInv'
<1> USE DEF budgets, mail, history
<1>1. ASSUME PurgeList(r) PROVE FactorInv'
  <2> DEFINE x == [req[r] EXCEPT !.pc = "purge", !.read = index]
  <2>1. x \in Req /\ Shape(x) /\ Plain(x)
    BY <1>1, ReqAt DEF PurgeList, Req, Shape, Plain, Holds
  <2>2. req' = [req EXCEPT ![r] = x]
    BY <1>1, ReqAt DEF PurgeList
  <2> HIDE DEF x
  <2> QED  BY <1>1, <2>1, <2>2, ReqAt, PlainStep DEF PurgeList
<1>2. ASSUME PurgeIndex(r) PROVE FactorInv'
  <2> DEFINE x == [req[r] EXCEPT !.pc = "afresh"]
  <2>1. x \in Req /\ Shape(x) /\ Plain(x)
    BY <1>2, ReqAt DEF PurgeIndex, Req, Shape, Plain, Holds
  <2>2. req' = [req EXCEPT ![r] = x]
    BY <1>2, ReqAt DEF PurgeIndex, Goto
  <2>3. index' \in SUBSET Challenges /\ IsFiniteSet(index')
    BY <1>2, FS_EmptySet DEF PurgeIndex
  <2> HIDE DEF x
  <2> QED  BY <1>2, <2>1, <2>2, <2>3, ReqAt, PlainStep DEF PurgeIndex
<1>3. ASSUME ResetBudgets(r) PROVE FactorInv'
  BY <1>3, DoneStep DEF ResetBudgets
<1> QED  BY <1>1, <1>2, <1>3

LEMMA EndSteps ==
    ASSUME FactorInv, NEW r \in Reqs
    PROVE  LinkDeadlock(r) \/ Abort(r) => FactorInv'
BY DoneStep DEF LinkDeadlock, Abort, budgets, mail, history

LEMMA ExpiresStep ==
    ASSUME FactorInv, NEW c \in Challenges, ChallengeExpires(c)
    PROVE  FactorInv'
<1> USE DEF budgets, mail, history
<1>0. FactorTyped /\ \A s \in Reqs : Shape(req[s])
  BY DEF FactorInv, ShapesInv
<1>1. /\ challenge' \in [Challenges -> Challenge]
      /\ \A d \in Challenges : challenge[d].state = "gone" => challenge'[d].state = "gone"
  BY <1>0 DEF ChallengeExpires, Deleted, FactorTyped, Challenge
<1>2. \A s \in Reqs : Keeps(req[s], req'[s]) /\ Shape(req'[s])
  BY <1>0, KeepsItself DEF ChallengeExpires
<1>3. \A d \in Challenges, k \in Kinds : fails[d][k] <= fails'[d][k]
  BY <1>0 DEF ChallengeExpires, FactorTyped
<1> QED  BY <1>0, <1>1, <1>2, <1>3, FactorQuiet DEF ChallengeExpires, FactorTyped
-----------------------------------------------------------------------------
(***************************************************************************)
(* The budget of a challenge.                                              *)
(***************************************************************************)
LEMMA AwaitingOK ==
    ASSUME NEW c, NEW k
    PROVE  /\ Awaiting(c, k) \in SUBSET Reqs /\ Awaiting(c, k)' \in SUBSET Reqs
           /\ Cardinality(Awaiting(c, k)) \in Nat /\ Cardinality(Awaiting(c, k)') \in Nat
<1>1. Awaiting(c, k) \in SUBSET Reqs /\ Awaiting(c, k)' \in SUBSET Reqs
  BY DEF Awaiting
<1>2. IsFiniteSet(Awaiting(c, k)) /\ IsFiniteSet(Awaiting(c, k)')
  BY <1>1, SecondFactorAssumption, FS_Subset
<1> QED  BY <1>1, <1>2, FS_CardinalityType

LEMMA FailsAt ==
    ASSUME FactorTyped, NEW c \in Challenges, NEW k \in Kinds
    PROVE  fails[c][k] \in Nat /\ wrong[c][k] \in Nat /\ MaxFailures \in Nat
BY SecondFactorAssumption DEF FactorTyped

\* Every part but the budget, when nothing but it, requests and gone challenges change.
LEMMA OtherParts ==
    ASSUME FactorInv, UNCHANGED <<used, mailed, codes, link, signed, spent, outdated>>,
           resets' \in Nat, challenge' \in [Challenges -> Challenge],
           index' \in SUBSET Challenges, IsFiniteSet(index'),
           fails' \in [Challenges -> [Kinds -> Nat]], wrong' \in [Challenges -> [Kinds -> Nat]],
           req' \in [Reqs -> Req],
           \A s \in Reqs : /\ Shape(req'[s]) /\ KeepsHeld(req[s], req'[s])
                           /\ KeepsMail(req[s], req'[s]) /\ KeepsLock(req[s], req'[s])
    PROVE  FactorTyped' /\ ShapesInv' /\ NumbersInv' /\ CodesInv' /\ LinksInv' /\ MailsInv'
<1>0. FactorTyped' /\ ShapesInv'
  BY DEF FactorInv, FactorTyped, ShapesInv
<1>2. NumbersInv'
  BY QuietNumbers DEF FactorInv
<1>3. CodesInv'
  <2>1. \A x \in Codes \ Links : Ended(x) => Ended(x)'
    BY StillEnded
  <2> QED  BY <2>1, QuietCodes DEF FactorInv
<1>4. LinksInv'
  BY QuietLinks DEF FactorInv, FactorTyped
<1>6. MailsInv'
  BY QuietMails DEF FactorInv
<1> QED  BY <1>0, <1>2, <1>3, <1>4, <1>6

LEMMA GoneStays ==
    ASSUME FactorInv, signed' = signed, \A s \in Reqs : KeepsOwned(req[s], req'[s]),
           \A c \in Challenges : challenge[c].state = "gone" => challenge'[c].state = "gone"
    PROVE  ChallengesInv'
<1>1. \A s \in Reqs : Owns(req[s]) => req[s].challenge \in Challenges
  BY OwnsTyped DEF FactorInv, Owns, Holds
<1> QED  BY <1>1, QuietChallenges DEF FactorInv

LEMMA BudgetStep ==
    ASSUME FactorInv, NEW r \in Reqs, CompleteBudget(r)
    PROVE  FactorInv'
<1> DEFINE c == req[r].challenge
           k == req[r].op
<1>0. /\ FactorTyped /\ req[r] \in Req /\ Shape(req[r]) /\ req \in [Reqs -> Req]
      /\ req[r].pc = "budget" /\ c \in Challenges /\ k \in Kinds
  BY ReqAt DEF CompleteBudget, Shape
<1>1. /\ UNCHANGED <<challenge, index, resets, wrong, used, mailed, codes, link, signed, spent, outdated>>
      /\ fails' = [fails EXCEPT ![c][k] = Incr(@, MaxFailures)]
  BY DEF CompleteBudget, mail, history
<1>2. /\ fails' \in [Challenges -> [Kinds -> Nat]]
      /\ fails'[c][k] = Incr(fails[c][k], MaxFailures)
      /\ \A d \in Challenges, j \in Kinds : d # c \/ j # k => fails'[d][j] = fails[d][j]
  BY <1>0, <1>1, FailsAt DEF FactorTyped, Incr
<1>3. \A d \in Challenges, j \in Kinds : fails[d][j] <= fails'[d][j]
  <2> SUFFICES ASSUME NEW d \in Challenges, NEW j \in Kinds PROVE fails[d][j] <= fails'[d][j]
    OBVIOUS
  <2>1. CASE d = c /\ j = k
    BY <1>0, <1>2, <2>1, FailsAt DEF Incr
  <2> QED  BY <1>0, <1>2, <2>1, FailsAt
<1>4. CASE Exceeded(c, k)
  <2>1. req' = [req EXCEPT ![r] = Idle]
    BY <1>4 DEF CompleteBudget, Done
  <2>2. req' \in [Reqs -> Req] /\ \A s \in Reqs : Shape(req'[s]) /\ Keeps(req[s], req'[s])
    BY <2>1, IdleOK, OneReq, PlainKeeps
  <2> QED  BY <1>0, <1>1, <1>2, <1>3, <2>2, FactorQuiet DEF FactorTyped
<1>5. CASE ~Exceeded(c, k)
  <2> DEFINE x == [req[r] EXCEPT !.pc = "verify", !.young = TRUE]
  <2>1. req' = [req EXCEPT ![r] = x]
    BY <1>0, <1>5 DEF CompleteBudget
  <2>2. x \in Req /\ Shape(x) /\ x.pc = "verify" /\ x.challenge = c /\ x.op = k
    BY <1>0 DEF Req, Shape
  <2>3. KeepsOwned(req[r], x) /\ KeepsHeld(req[r], x) /\ KeepsMail(req[r], x) /\ KeepsLock(req[r], x)
    BY <2>2 DEF KeepsOwned, KeepsHeld, KeepsMail, KeepsLock, Owns, Holds
  <2> HIDE DEF x
  <2>4. /\ req' \in [Reqs -> Req] /\ req'[r] = x /\ \A s \in Reqs : s # r => req'[s] = req[s]
        /\ \A s \in Reqs : /\ Shape(req'[s]) /\ KeepsOwned(req[s], req'[s]) /\ KeepsHeld(req[s], req'[s])
                           /\ KeepsMail(req[s], req'[s]) /\ KeepsLock(req[s], req'[s])
    BY <2>1, <2>2, <2>3, OneReq DEF Keeps
  <2>5. FactorTyped' /\ ShapesInv' /\ NumbersInv' /\ CodesInv' /\ LinksInv' /\ MailsInv'
    BY <1>0, <1>1, <1>2, <2>4, OtherParts DEF FactorTyped
  <2>6. ChallengesInv'
    BY <1>1, <2>4, GoneStays
  <2>7. fails'[c][k] <= MaxFailures /\ fails'[c][k] = fails[c][k] + 1
    BY <1>0, <1>2, <1>5, FailsAt DEF Exceeded, Incr
  <2>8. ASSUME NEW d \in Challenges, NEW j \in Kinds
        PROVE  /\ wrong'[d][j] + Cardinality(Awaiting(d, j)') <= fails'[d][j]
               /\ wrong'[d][j] + Cardinality(Awaiting(d, j)') <= MaxFailures
    <3>n. /\ Cardinality(Awaiting(d, j)) \in Nat /\ Cardinality(Awaiting(d, j)') \in Nat
          /\ fails[d][j] \in Nat /\ wrong[d][j] \in Nat /\ MaxFailures \in Nat /\ wrong' = wrong
      BY <1>0, <1>1, FailsAt, AwaitingOK
    <3>i. /\ wrong[d][j] + Cardinality(Awaiting(d, j)) <= fails[d][j]
          /\ wrong[d][j] + Cardinality(Awaiting(d, j)) <= MaxFailures
      BY DEF FactorInv, FailsInv
    <3>1. CASE d = c /\ j = k
      <4>1. Awaiting(d, j)' \subseteq Awaiting(d, j) \cup {r}
        BY <2>4 DEF Awaiting
      <4>2. Cardinality(Awaiting(d, j)') <= Cardinality(Awaiting(d, j)) + 1
        BY <4>1, AwaitingOK, ReqCounting
      <4> HIDE DEF c, k
      <4>3. fails'[d][j] <= MaxFailures /\ fails'[d][j] = fails[d][j] + 1
        BY <2>7, <3>1
      <4> QED  BY <3>n, <3>i, <4>2, <4>3
    <3>2. CASE d # c \/ j # k
      <4>1. Awaiting(d, j)' \subseteq Awaiting(d, j)
        BY <2>2, <2>4, <3>2 DEF Awaiting
      <4>2. Cardinality(Awaiting(d, j)') <= Cardinality(Awaiting(d, j))
        BY <4>1, AwaitingOK, ReqCounting
      <4>3. fails'[d][j] = fails[d][j]
        BY <1>2, <3>2
      <4> QED  BY <3>n, <3>i, <4>2, <4>3
    <3> QED  BY <3>1, <3>2
  <2> QED  BY <2>5, <2>6, <2>8 DEF FactorInv, FailsInv
<1> QED  BY <1>4, <1>5

\* Forgetting the budgets of challenges with the attempts they counted.
IsOlder(O, cs, ks) ==
    /\ O \in [Reqs -> Req]
    /\ \A s \in Reqs :
          /\ O[s].pc = req[s].pc /\ O[s].op = req[s].op /\ O[s].challenge = req[s].challenge
          /\ O[s].code = req[s].code
          /\ req[s].challenge \in cs /\ req[s].op \in ks => O[s].young = FALSE
          /\ Shape(O[s]) /\ Keeps(req[s], O[s])

LEMMA OlderOK == ASSUME FactorInv, NEW cs, NEW ks PROVE IsOlder(Older(cs, ks), cs, ks)
<1>0. req \in [Reqs -> Req] /\ \A s \in Reqs : Shape(req[s])
  BY DEF FactorInv, FactorTyped, ShapesInv
<1>1. \A s \in Reqs : Older(cs, ks)[s] =
         IF req[s].challenge \in cs /\ req[s].op \in ks THEN [req[s] EXCEPT !.young = FALSE] ELSE req[s]
  BY DEF Older
<1>2. \A s \in Reqs : [req[s] EXCEPT !.young = FALSE] \in Req
  BY <1>0 DEF Req
<1>3. Older(cs, ks) \in [Reqs -> Req]
  BY <1>0, <1>2 DEF Older
<1>4. ASSUME NEW s \in Reqs
      PROVE  /\ Older(cs, ks)[s].pc = req[s].pc /\ Older(cs, ks)[s].op = req[s].op
             /\ Older(cs, ks)[s].challenge = req[s].challenge
             /\ Older(cs, ks)[s].code = req[s].code /\ Older(cs, ks)[s].n = req[s].n
             /\ Older(cs, ks)[s].read = req[s].read
             /\ Older(cs, ks)[s].young = TRUE => req[s].young = TRUE
             /\ req[s].challenge \in cs /\ req[s].op \in ks => Older(cs, ks)[s].young = FALSE
  BY <1>0, <1>1, <1>4 DEF Req
<1>5. ASSUME NEW s \in Reqs PROVE Shape(Older(cs, ks)[s])
  BY <1>0, <1>4, <1>5 DEF Shape
<1>6. ASSUME NEW s \in Reqs PROVE Keeps(req[s], Older(cs, ks)[s])
  BY <1>4, <1>6 DEF Keeps, KeepsOwned, KeepsHeld, KeepsMail, KeepsLock, KeepsCount, Holds, Owns, Counted
<1> QED  BY <1>3, <1>4, <1>5, <1>6 DEF IsOlder

LEMMA ClearedFails ==
    ASSUME FactorInv, NEW cs, NEW ks, fails' = Cleared(cs, ks), wrong' = ClearedWrong(cs, ks),
           \A s \in Reqs : /\ KeepsCount(req[s], req'[s])
                           /\ Counted(req'[s]) => ~(req'[s].challenge \in cs /\ req'[s].op \in ks)
    PROVE  /\ fails' \in [Challenges -> [Kinds -> Nat]] /\ wrong' \in [Challenges -> [Kinds -> Nat]]
           /\ FailsInv'
<1>0. FactorTyped
  BY DEF FactorInv
<1>1. /\ fails' \in [Challenges -> [Kinds -> Nat]] /\ wrong' \in [Challenges -> [Kinds -> Nat]]
      /\ \A d \in Challenges, j \in Kinds :
            /\ fails'[d][j] = IF d \in cs /\ j \in ks THEN 0 ELSE fails[d][j]
            /\ wrong'[d][j] = IF d \in cs /\ j \in ks THEN 0 ELSE wrong[d][j]
  BY <1>0, FailsAt DEF Cleared, ClearedWrong
<1>2. ASSUME NEW d \in Challenges, NEW j \in Kinds
      PROVE  /\ wrong'[d][j] + Cardinality(Awaiting(d, j)') <= fails'[d][j]
             /\ wrong'[d][j] + Cardinality(Awaiting(d, j)') <= MaxFailures
  <2>n. /\ Cardinality(Awaiting(d, j)) \in Nat /\ Cardinality(Awaiting(d, j)') \in Nat
        /\ fails[d][j] \in Nat /\ wrong[d][j] \in Nat /\ MaxFailures \in Nat
    BY <1>0, FailsAt, AwaitingOK
  <2>1. CASE d \in cs /\ j \in ks
    <3>1. Awaiting(d, j)' = {}
      BY <2>1 DEF Awaiting
    <3>2. Cardinality(Awaiting(d, j)') = 0
      BY <3>1, FS_EmptySet
    <3> QED  BY <1>1, <2>n, <2>1, <3>2
  <2>2. CASE ~(d \in cs /\ j \in ks)
    <3>1. Awaiting(d, j)' \subseteq Awaiting(d, j)
      BY DEF Awaiting, KeepsCount
    <3>2. Cardinality(Awaiting(d, j)') <= Cardinality(Awaiting(d, j))
      <4>1. IsFiniteSet(Awaiting(d, j))
        BY AwaitingOK, SecondFactorAssumption, FS_Subset
      <4> QED  BY <3>1, <4>1, FS_Subset
    <3>3. /\ wrong[d][j] + Cardinality(Awaiting(d, j)) <= fails[d][j]
          /\ wrong[d][j] + Cardinality(Awaiting(d, j)) <= MaxFailures
      BY DEF FactorInv, FailsInv
    <3>4. wrong'[d][j] = wrong[d][j] /\ fails'[d][j] = fails[d][j]
      BY <1>1, <2>2
    <3> QED  BY <2>n, <3>2, <3>3, <3>4
  <2> QED  BY <2>1, <2>2
<1> QED  BY <1>1, <1>2 DEF FailsInv
LEMMA DropSteps ==
    ASSUME FactorInv, NEW r \in Reqs, ChallengeDrop(r) \/ PurgeDelete(r)
    PROVE  FactorInv'
<1> DEFINE cs == req[r].read
           O == Older(cs, Kinds)
<1>0. FactorTyped /\ req[r] \in Req /\ Shape(req[r]) /\ req[r].pc \in {"drop", "purge"}
  BY ReqAt DEF ChallengeDrop, PurgeDelete
<1>1. /\ O \in [Reqs -> Req]
      /\ \A s \in Reqs :
            /\ O[s].pc = req[s].pc /\ O[s].op = req[s].op /\ O[s].challenge = req[s].challenge
            /\ req[s].challenge \in cs /\ req[s].op \in Kinds => O[s].young = FALSE
            /\ Shape(O[s]) /\ Keeps(req[s], O[s])
  <2>1. IsOlder(O, cs, Kinds)
    BY OlderOK
  <2> HIDE DEF O
  <2> QED  BY <2>1 DEF IsOlder
<1> HIDE DEF O
<1>2. PICK x \in Req : req' = [O EXCEPT ![r] = x] /\ Shape(x) /\ x.pc \in {"pop", "unlist"}
  <2>1. CASE ChallengeDrop(r)
    <3> DEFINE y == [O[r] EXCEPT !.pc = "pop", !.read = {}]
    <3>1. req' = [O EXCEPT ![r] = y]
      BY <1>1, <2>1 DEF ChallengeDrop, O
    <3>2. y \in Req /\ Shape(y) /\ y.pc = "pop"
      BY <1>0, <1>1, <2>1 DEF ChallengeDrop, Req, Shape
    <3> QED  BY <3>1, <3>2
  <2>2. CASE PurgeDelete(r)
    <3> DEFINE y == [O[r] EXCEPT !.pc = "unlist"]
    <3>1. req' = [O EXCEPT ![r] = y]
      BY <1>1, <2>2 DEF PurgeDelete, O
    <3>2. y \in Req /\ Shape(y) /\ y.pc = "unlist"
      BY <1>0, <1>1, <2>2 DEF PurgeDelete, Req, Shape
    <3> QED  BY <3>1, <3>2
  <2> QED  BY <2>1, <2>2
<1>3. /\ req' \in [Reqs -> Req] /\ req'[r] = x /\ \A s \in Reqs : s # r => req'[s] = O[s]
  BY <1>1, <1>2
<1>4. Plain(x)
  BY <1>2 DEF Plain, Holds, Shape
<1>5. \A s \in Reqs : Shape(req'[s]) /\ Keeps(req[s], req'[s])
  BY <1>1, <1>2, <1>3, <1>4, PlainKeeps
<1>6. \A s \in Reqs : Counted(req'[s]) => ~(req'[s].challenge \in cs /\ req'[s].op \in Kinds)
  BY <1>1, <1>2, <1>3 DEF Counted
<1>7. /\ UNCHANGED <<index, resets, used, mailed, codes, link, signed, spent, outdated>>
      /\ challenge' = Deleted(cs) /\ fails' = Cleared(cs, Kinds) /\ wrong' = ClearedWrong(cs, Kinds)
  BY DEF ChallengeDrop, PurgeDelete, DeleteKeys, mail, history
<1>8. /\ fails' \in [Challenges -> [Kinds -> Nat]] /\ wrong' \in [Challenges -> [Kinds -> Nat]]
      /\ FailsInv'
  <2> HIDE DEF cs
  <2> QED  BY <1>5, <1>6, <1>7, ClearedFails DEF Keeps
<1>9. /\ challenge' \in [Challenges -> Challenge]
      /\ \A d \in Challenges : challenge[d].state = "gone" => challenge'[d].state = "gone"
  BY <1>0, <1>7 DEF Deleted, FactorTyped, Challenge
<1>10. ChallengesInv'
  BY <1>5, <1>7, <1>9, GoneStays DEF Keeps
<1>11. FactorTyped' /\ ShapesInv' /\ NumbersInv' /\ CodesInv' /\ LinksInv' /\ MailsInv'
  BY <1>0, <1>3, <1>5, <1>7, <1>8, <1>9, OtherParts DEF FactorTyped, Keeps
<1> QED  BY <1>8, <1>10, <1>11 DEF FactorInv

LEMMA ClearStep ==
    ASSUME FactorInv, NEW r \in Reqs, CompleteClear(r)
    PROVE  FactorInv'
<1> DEFINE c == req[r].challenge
           ks == IF req[r].op = "email" THEN {"email"} ELSE {}
           O == Older({c}, ks)
<1>0. FactorTyped /\ req[r] \in Req /\ Shape(req[r]) /\ req[r].pc = "clear" /\ req \in [Reqs -> Req]
  BY ReqAt DEF CompleteClear
<1>1. /\ O \in [Reqs -> Req]
      /\ \A s \in Reqs :
            /\ O[s].pc = req[s].pc /\ O[s].op = req[s].op /\ O[s].challenge = req[s].challenge
            /\ O[s].code = req[s].code
            /\ req[s].challenge \in {c} /\ req[s].op \in ks => O[s].young = FALSE
            /\ Shape(O[s]) /\ Keeps(req[s], O[s])
  <2>1. IsOlder(O, {c}, ks)
    BY OlderOK
  <2> HIDE DEF O
  <2> QED  BY <2>1 DEF IsOlder
<1>2. /\ UNCHANGED <<challenge, index, resets, used, mailed, codes, link, signed, spent, outdated>>
      /\ fails' = Cleared({c}, ks) /\ wrong' = ClearedWrong({c}, ks)
  <2>1. /\ UNCHANGED <<challenge, index, resets, used, mailed, codes, link, signed, spent, outdated>>
    BY DEF CompleteClear, mail, history
  <2>2. CASE req[r].op = "email"
    BY <2>1, <2>2 DEF CompleteClear
  <2>3. CASE req[r].op # "email"
    <3>1. fails = Cleared({c}, {}) /\ wrong = ClearedWrong({c}, {})
      BY <1>0 DEF FactorTyped, Cleared, ClearedWrong
    <3> QED  BY <2>1, <2>3, <3>1 DEF CompleteClear
  <2> QED  BY <2>1, <2>2, <2>3
<1>3. req' = [O EXCEPT ![r] = [O[r] EXCEPT !.pc = "take"]]
  <2>2. CASE req[r].op = "email"
    BY <1>1, <2>2 DEF CompleteClear
  <2>3. CASE req[r].op # "email"
    <3>1. Older({c}, {}) = req
      BY <1>0 DEF Older
    <3> QED  BY <1>0, <2>3, <3>1 DEF CompleteClear, Goto
  <2> QED  BY <2>2, <2>3
<1> DEFINE x == [O[r] EXCEPT !.pc = "take"]
<1> HIDE DEF O
<1>4. /\ x \in Req /\ x.pc = "take" /\ x.op = req[r].op /\ x.challenge = c /\ x.code = req[r].code
      /\ Shape(x)
  BY <1>0, <1>1 DEF Req, Shape
<1> HIDE DEF x
<1>5. Keeps(req[r], x)
  BY <1>0, <1>4 DEF Keeps, KeepsOwned, KeepsHeld, KeepsMail, KeepsLock, KeepsCount, Holds, Owns, Counted
<1>6. /\ req' \in [Reqs -> Req] /\ req'[r] = x /\ \A s \in Reqs : s # r => req'[s] = O[s]
  BY <1>1, <1>3, <1>4 DEF x
<1>7. \A s \in Reqs : Shape(req'[s]) /\ Keeps(req[s], req'[s])
  BY <1>1, <1>4, <1>5, <1>6
<1>8. \A s \in Reqs : Counted(req'[s]) => ~(req'[s].challenge \in {c} /\ req'[s].op \in ks)
  BY <1>1, <1>4, <1>6 DEF Counted
<1> HIDE DEF c, ks
<1>9. /\ fails' \in [Challenges -> [Kinds -> Nat]] /\ wrong' \in [Challenges -> [Kinds -> Nat]]
      /\ FailsInv'
  BY <1>2, <1>7, <1>8, ClearedFails DEF Keeps
<1>10. ChallengesInv'
  BY <1>2, <1>7, GoneStays DEF Keeps
<1>11. FactorTyped' /\ ShapesInv' /\ NumbersInv' /\ CodesInv' /\ LinksInv' /\ MailsInv'
  BY <1>0, <1>2, <1>6, <1>7, <1>9, OtherParts DEF FactorTyped, Keeps
<1> QED  BY <1>9, <1>10, <1>11 DEF FactorInv

LEMMA TakeStep ==
    ASSUME FactorInv, NEW r \in Reqs, CompleteTake(r)
    PROVE  FactorInv'
<1> DEFINE c == req[r].challenge
           ks == {req[r].op} \ {"email"}
           O == Older({c}, ks)
<1>0. /\ FactorTyped /\ req[r] \in Req /\ Shape(req[r]) /\ req[r].pc = "take" /\ req \in [Reqs -> Req]
      /\ c \in Challenges /\ req[r].op \in Kinds
      /\ UNCHANGED <<resets, used, mailed, codes, link, signed, spent, outdated>>
  BY ReqAt DEF CompleteTake, Shape, mail, history
<1>a. CASE challenge[c].state # "open"
  BY <1>a, DoneStep DEF CompleteTake, mail, history
<1>b. CASE challenge[c].state = "open"
  <2>1. /\ O \in [Reqs -> Req]
        /\ \A s \in Reqs :
              /\ O[s].pc = req[s].pc /\ O[s].op = req[s].op /\ O[s].challenge = req[s].challenge
              /\ O[s].code = req[s].code
              /\ req[s].challenge \in {c} /\ req[s].op \in ks => O[s].young = FALSE
              /\ Shape(O[s]) /\ Keeps(req[s], O[s])
    <3>1. IsOlder(O, {c}, ks)
      BY OlderOK
    <3> HIDE DEF O
    <3> QED  BY <3>1 DEF IsOlder
  <2>2. /\ challenge' = Deleted({c}) /\ index' = index \ {c}
        /\ fails' = Cleared({c}, ks) /\ wrong' = ClearedWrong({c}, ks)
    BY <1>b DEF CompleteTake
  <2> DEFINE pc == IF req[r].op = "recovery" THEN "after" ELSE "issue"
             x == [O[r] EXCEPT !.pc = pc]
  <2>3. req' = [O EXCEPT ![r] = x]
    BY <1>b, <2>1 DEF CompleteTake
  <2> HIDE DEF O
  <2>4. /\ x \in Req /\ x.pc \in {"after", "issue"} /\ x.op = req[r].op /\ x.challenge = c
        /\ x.code = req[r].code /\ Shape(x)
    BY <1>0, <2>1 DEF Req, Shape, Kinds
  <2>5. /\ req' \in [Reqs -> Req] /\ req'[r] = x /\ \A s \in Reqs : s # r => req'[s] = O[s]
    BY <2>1, <2>3, <2>4
  <2> HIDE DEF x
  <2>6. /\ KeepsHeld(req[r], x) /\ KeepsMail(req[r], x) /\ KeepsLock(req[r], x) /\ KeepsCount(req[r], x)
    BY <1>0, <2>4 DEF KeepsHeld, KeepsMail, KeepsLock, KeepsCount, Holds, Counted
  <2>7. \A s \in Reqs : /\ Shape(req'[s]) /\ KeepsHeld(req[s], req'[s]) /\ KeepsMail(req[s], req'[s])
                        /\ KeepsLock(req[s], req'[s]) /\ KeepsCount(req[s], req'[s])
                        /\ s # r => KeepsOwned(req[s], req'[s])
    BY <2>1, <2>4, <2>5, <2>6 DEF Keeps
  <2>8. \A s \in Reqs : Counted(req'[s]) => ~(req'[s].challenge \in {c} /\ req'[s].op \in ks)
    BY <2>1, <2>4, <2>5 DEF Counted
  <2>9. /\ challenge' \in [Challenges -> Challenge] /\ challenge'[c].state = "gone"
        /\ \A d \in Challenges : challenge[d].state = "gone" => challenge'[d].state = "gone"
    BY <1>0, <2>2 DEF Deleted, FactorTyped, Challenge
  <2>10. index' \in SUBSET Challenges /\ IsFiniteSet(index')
    BY <2>2, ReqAt, FS_Subset
  <2>11. /\ fails' \in [Challenges -> [Kinds -> Nat]] /\ wrong' \in [Challenges -> [Kinds -> Nat]]
         /\ FailsInv'
    <3> HIDE DEF c, ks
    <3> QED  BY <2>2, <2>7, <2>8, ClearedFails
  <2>12. FactorTyped' /\ ShapesInv' /\ NumbersInv' /\ CodesInv' /\ LinksInv' /\ MailsInv'
    BY <1>0, <2>5, <2>7, <2>9, <2>10, <2>11, OtherParts DEF FactorTyped
  <2>13. signed[c] = 0 /\ \A s \in Reqs : Owns(req[s]) => req[s].challenge # c /\ req[s].challenge \in Challenges
    BY <1>0, <1>b, OwnsTyped DEF FactorInv, ChallengesInv, Owns, Holds
  <2>14. \A s \in Reqs : s # r /\ Owns(req'[s]) =>
            Owns(req[s]) /\ req'[s].challenge = req[s].challenge /\ req'[s].challenge # c
    BY <2>7, <2>13 DEF KeepsOwned
  <2>15. ChallengesInv'
    <3>1. \A d \in Challenges : signed'[d] <= 1 /\ (signed'[d] # 0 => challenge'[d].state = "gone")
      BY <1>0, <2>9 DEF FactorInv, ChallengesInv
    <3>2. ASSUME NEW s \in Reqs, Owns(req'[s])
          PROVE  challenge'[req'[s].challenge].state = "gone" /\ signed'[req'[s].challenge] = 0
      <4>1. CASE s = r
        BY <1>0, <2>4, <2>5, <2>9, <2>13, <4>1
      <4>2. CASE s # r
        BY <1>0, <2>9, <2>13, <2>14, <3>2, <4>2 DEF FactorInv, ChallengesInv
      <4> QED  BY <4>1, <4>2
    <3>3. ASSUME NEW s \in Reqs, NEW t \in Reqs, Owns(req'[s]), Owns(req'[t]),
                 req'[s].challenge = req'[t].challenge
          PROVE  s = t
      <4>1. CASE s # r /\ t # r
        BY <2>14, <3>3, <4>1 DEF FactorInv, ChallengesInv
      <4>2. CASE s = r \/ t = r
        BY <2>4, <2>5, <2>14, <3>3, <4>2
      <4> QED  BY <4>1, <4>2
    <3> QED  BY <3>1, <3>2, <3>3 DEF ChallengesInv, Owns
  <2> QED  BY <2>11, <2>12, <2>15 DEF FactorInv
<1> QED  BY <1>a, <1>b

LEMMA AfterStep ==
    ASSUME FactorInv, NEW r \in Reqs, CompleteAfter(r)
    PROVE  FactorInv'
<1> DEFINE x == [req[r] EXCEPT !.pc = "issue"]
<1>0. FactorTyped /\ req[r] \in Req /\ Shape(req[r]) /\ req[r].pc = "after" /\ req \in [Reqs -> Req]
  BY ReqAt DEF CompleteAfter
<1>1. /\ x \in Req /\ Shape(x) /\ x.pc = "issue" /\ x.op = req[r].op /\ x.challenge = req[r].challenge
      /\ x.code = req[r].code
  BY <1>0 DEF Req, Shape
<1>2. req' = [req EXCEPT ![r] = x]
  BY <1>0 DEF CompleteAfter, Goto
<1> HIDE DEF x
<1>3. Keeps(req[r], x)
  BY <1>0, <1>1 DEF Keeps, KeepsOwned, KeepsHeld, KeepsMail, KeepsLock, KeepsCount, Holds, Owns, Counted
<1>4. req' \in [Reqs -> Req] /\ \A s \in Reqs : Shape(req'[s]) /\ Keeps(req[s], req'[s])
  BY <1>1, <1>2, <1>3, OneReq
<1>5. \A d \in Challenges, k \in Kinds : fails[d][k] <= fails'[d][k]
  BY <1>0 DEF CompleteAfter, FactorTyped
<1> QED  BY <1>0, <1>4, <1>5, FactorQuiet DEF CompleteAfter, FactorTyped, mail, history
-----------------------------------------------------------------------------
(***************************************************************************)
(* The codes.                                                              *)
(***************************************************************************)
LEMMA WrongStep ==
    ASSUME FactorInv, NEW r \in Reqs, req[r].pc = "verify", RecordSecondFactorFailure(r),
           UNCHANGED <<challenge, index, resets, fails, used, mailed, codes, link, signed, spent, outdated>>
    PROVE  FactorInv'
<1> DEFINE c == req[r].challenge
           k == req[r].op
<1>0. /\ FactorTyped /\ req[r] \in Req /\ Shape(req[r]) /\ req \in [Reqs -> Req]
      /\ c \in Challenges /\ k \in Kinds
  BY ReqAt DEF Shape
<1>1. /\ wrong' = [wrong EXCEPT ![c][k] = IF req[r].young THEN @ + 1 ELSE @]
      /\ req' = [req EXCEPT ![r] = Idle]
  BY DEF RecordSecondFactorFailure, Done
<1>2. /\ req' \in [Reqs -> Req] /\ req'[r] = Idle /\ \A s \in Reqs : s # r => req'[s] = req[s]
      /\ \A s \in Reqs : Shape(req'[s]) /\ Keeps(req[s], req'[s])
  BY <1>1, IdleOK, OneReq, PlainKeeps
<1>3. /\ wrong' \in [Challenges -> [Kinds -> Nat]]
      /\ wrong'[c][k] = IF req[r].young THEN wrong[c][k] + 1 ELSE wrong[c][k]
      /\ \A d \in Challenges, j \in Kinds : d # c \/ j # k => wrong'[d][j] = wrong[d][j]
  BY <1>0, <1>1, FailsAt DEF FactorTyped
<1>4. FactorTyped' /\ ShapesInv' /\ NumbersInv' /\ CodesInv' /\ LinksInv' /\ MailsInv'
  BY <1>0, <1>2, <1>3, OtherParts DEF FactorTyped, Keeps
<1>5. ChallengesInv'
  BY <1>2, GoneStays DEF Keeps
<1>6. ASSUME NEW d \in Challenges, NEW j \in Kinds
      PROVE  /\ wrong'[d][j] + Cardinality(Awaiting(d, j)') <= fails'[d][j]
             /\ wrong'[d][j] + Cardinality(Awaiting(d, j)') <= MaxFailures
  <2>n. /\ Cardinality(Awaiting(d, j)) \in Nat /\ Cardinality(Awaiting(d, j)') \in Nat
        /\ fails[d][j] \in Nat /\ wrong[d][j] \in Nat /\ MaxFailures \in Nat /\ fails' = fails
    BY <1>0, FailsAt, AwaitingOK
  <2>i. /\ wrong[d][j] + Cardinality(Awaiting(d, j)) <= fails[d][j]
        /\ wrong[d][j] + Cardinality(Awaiting(d, j)) <= MaxFailures
    BY DEF FactorInv, FailsInv
  <2>1. Awaiting(d, j)' \subseteq Awaiting(d, j)
    BY <1>2 DEF Awaiting, Keeps, KeepsCount
  <2>2. Cardinality(Awaiting(d, j)') <= Cardinality(Awaiting(d, j))
    BY <2>1, AwaitingOK, ReqCounting
  <2>3. CASE d = c /\ j = k /\ req[r].young = TRUE
    <3>1. r \in Awaiting(d, j) \ Awaiting(d, j)'
      BY <1>2, <2>3, IdleOK DEF Awaiting, Counted
    <3>2. Cardinality(Awaiting(d, j)') <= Cardinality(Awaiting(d, j)) - 1
      BY <2>1, <3>1, AwaitingOK, ReqCounting
    <3>3. wrong'[d][j] = wrong[d][j] + 1
      BY <1>3, <2>3
    <3> QED  BY <2>n, <2>i, <3>2, <3>3
  <2>4. CASE ~(d = c /\ j = k /\ req[r].young = TRUE)
    <3>1. req[r].young \in BOOLEAN
      BY <1>0 DEF Req
    <3>2. wrong'[d][j] = wrong[d][j]
      BY <1>3, <2>4, <3>1
    <3> QED  BY <2>n, <2>i, <2>2, <3>2
  <2> QED  BY <2>3, <2>4
<1> QED  BY <1>4, <1>5, <1>6 DEF FactorInv, FailsInv

LEMMA RightStep ==
    ASSUME FactorInv, NEW r \in Reqs, req[r].pc = "verify", Right(r), used' = Spent(r),
           mailed' = IF req[r].op = "email" THEN {} ELSE mailed,
           Goto(r, IF req[r].op = "recovery" THEN "take" ELSE "clear"),
           UNCHANGED <<challenge, index, resets, fails, wrong, codes, link, signed, spent, outdated>>
    PROVE  FactorInv'
<1> DEFINE pc == IF req[r].op = "recovery" THEN "take" ELSE "clear"
           x == [req[r] EXCEPT !.pc = pc]
<1>z. PICK z : z = req[r].code
  OBVIOUS
<1>0. /\ FactorTyped /\ req[r] \in Req /\ Shape(req[r]) /\ req \in [Reqs -> Req]
      /\ req[r].op \in Kinds
  BY ReqAt DEF Shape
<1>1. req' = [req EXCEPT ![r] = x]
  BY <1>0 DEF Goto
<1>2. x \in Req /\ Shape(x) /\ x.pc \in {"take", "clear"} /\ x.code = z /\ x.op \in Kinds
  BY <1>0, <1>z DEF Req, Shape
<1> HIDE DEF x
<1>3. KeepsOwned(req[r], x) /\ KeepsMail(req[r], x) /\ KeepsLock(req[r], x) /\ KeepsCount(req[r], x)
  BY <1>2 DEF KeepsOwned, KeepsMail, KeepsLock, KeepsCount, Owns, Counted
<1>4. /\ req' \in [Reqs -> Req] /\ req'[r] = x /\ \A s \in Reqs : s # r => req'[s] = req[s]
      /\ \A s \in Reqs : /\ Shape(req'[s]) /\ KeepsOwned(req[s], req'[s])
                         /\ KeepsMail(req[s], req'[s]) /\ KeepsLock(req[s], req'[s])
                         /\ KeepsCount(req[s], req'[s])
  BY <1>1, <1>2, <1>3, OneReq DEF Keeps
<1>5. FactorTyped' /\ ShapesInv' /\ mailed' \subseteq mailed
  BY <1>0, <1>4 DEF FactorTyped, ShapesInv
<1>6. ChallengesInv'
  BY <1>4, GoneStays
<1>7. NumbersInv'
  BY <1>4, <1>5, QuietNumbers DEF FactorInv
<1>8. LinksInv'
  BY <1>0, <1>4, QuietLinks DEF FactorInv, FactorTyped
<1>9. FailsInv'
  <2>1. \A d \in Challenges, j \in Kinds : fails[d][j] <= fails'[d][j]
    BY <1>0, FailsAt
  <2> QED  BY <1>0, <1>4, <2>1, QuietFails DEF FactorInv, FactorTyped
<1>10. MailsInv'
  <2>1. mailed' \in {mailed, {}}
    OBVIOUS
  <2> QED  BY <1>4, <2>1, QuietMails DEF FactorInv
<1>11. z \in Codes \ Links /\ ~Ended(z) /\ Ended(z)'
  <2>1. CASE req[r].op = "email"
    <3>1. z \in mailed /\ z \in MailedCodes
      BY <1>0, <1>z, <2>1 DEF Right, FactorTyped
    <3>2. z.id <= codes /\ \A t \in Reqs : req[t].pc = "mail" => req[t].n # z.id
      BY <3>1 DEF FactorInv, NumbersInv
    <3>3. \A t \in Reqs : req'[t].pc = "mail" => req'[t].n # z.id
      BY <1>4, <3>2 DEF KeepsMail
    <3>4. Ended(z)' /\ ~Ended(z)
      BY <2>1, <3>1, <3>2, <3>3 DEF Ended
    <3> QED  BY <3>1, <3>4, CodesAssumption DEF Codes
  <2>2. CASE req[r].op # "email"
    <3>1. z \in TotpCodes \cup RecoveryCodes /\ z \notin used /\ used' = used \cup {z}
      BY <1>0, <1>z, <2>2 DEF Right, Shape, Kinds, Spent
    <3>2. z \notin MailedCodes /\ z \notin Links /\ z \in Codes
      BY <3>1, CodesAssumption DEF Codes
    <3> QED  BY <3>1, <3>2 DEF Ended
  <2> QED  BY <2>1, <2>2
<1>12. \A y \in Codes \ Links : Ended(y) => Ended(y)'
  BY <1>4, <1>5, StillEnded DEF Spent
<1>13. CodesInv'
  <2>1. spent[z] = 0 /\ \A s \in Reqs : ~(Holds(req[s]) /\ req[s].code = z)
    BY <1>11 DEF FactorInv, CodesInv
  <2>2. \A s \in Reqs : Holds(req'[s]) => req'[s].code \in Codes \ Links
    BY <1>2, <1>4, <1>11 DEF FactorInv, CodesInv
  <2>3. ASSUME NEW s \in Reqs, NEW y \in Codes \ Links, Holds(req'[s]), req'[s].code = y
        PROVE  Ended(y)' /\ spent'[y] = 0
    <3>1. CASE s = r
      BY <1>2, <1>4, <1>11, <2>1, <2>3, <3>1
    <3>2. CASE s # r
      BY <1>4, <1>12, <2>3, <3>2 DEF FactorInv, CodesInv
    <3> QED  BY <3>1, <3>2
  <2>4. ASSUME NEW s \in Reqs, NEW t \in Reqs, Holds(req'[s]), Holds(req'[t]), req'[s].code = req'[t].code
        PROVE  s = t
    <3>1. CASE s # r /\ t # r
      BY <1>4, <2>4, <3>1 DEF FactorInv, CodesInv
    <3>2. CASE s = r \/ t = r
      BY <1>2, <1>4, <2>1, <2>4, <3>2
    <3> QED  BY <3>1, <3>2
  <2>5. \A y \in Codes \ Links : spent'[y] <= 1 /\ (spent'[y] # 0 => Ended(y)')
    BY <1>12 DEF FactorInv, CodesInv
  <2> QED  BY <2>2, <2>3, <2>4, <2>5 DEF CodesInv, Holds
<1> QED  BY <1>5, <1>6, <1>7, <1>8, <1>9, <1>10, <1>13 DEF FactorInv

LEMMA CodeVerifyStep ==
    ASSUME FactorInv, NEW r \in Reqs, CompleteVerify(r)
    PROVE  FactorInv'
<1> USE DEF history
<1>1. CASE Right(r)
  BY <1>1, RightStep DEF CompleteVerify
<1>2. CASE ~Right(r)
  BY <1>2, WrongStep DEF CompleteVerify
<1> QED  BY <1>1, <1>2

LEMMA IssueStep ==
    ASSUME FactorInv, NEW r \in Reqs, Issue(r)
    PROVE  FactorInv'
<1> USE DEF budgets, mail
<1>1. CASE req[r].op \notin Kinds
  BY <1>1, DoneStep DEF Issue
<1>2. CASE req[r].op \in Kinds
  <2>0. /\ FactorTyped /\ req[r] \in Req /\ Shape(req[r]) /\ req \in [Reqs -> Req] /\ req[r].pc = "issue"
        /\ UNCHANGED <<resets, challenge, index, fails, wrong, used, mailed, codes, link, outdated>>
    BY ReqAt DEF Issue
  <2>z. PICK z, c : z = req[r].code /\ c = req[r].challenge
    OBVIOUS
  <2>1. /\ signed' = [signed EXCEPT ![c] = @ + 1] /\ spent' = [spent EXCEPT ![z] = @ + 1]
        /\ req' = [req EXCEPT ![r] = Idle]
    BY <1>2, <2>z DEF Issue, Done
  <2>2. /\ req' \in [Reqs -> Req] /\ req'[r] = Idle /\ \A s \in Reqs : s # r => req'[s] = req[s]
        /\ \A s \in Reqs : Shape(req'[s]) /\ Keeps(req[s], req'[s])
    BY <2>1, IdleOK, OneReq, PlainKeeps
  <2>3. Owns(req[r]) /\ Holds(req[r]) /\ ~Owns(Idle) /\ ~Holds(Idle)
    BY <1>2, <2>0, IdleOK DEF Owns, Holds
  <2>4. /\ c \in Challenges /\ challenge[c].state = "gone" /\ signed[c] = 0
        /\ \A s \in Reqs : s # r /\ Owns(req[s]) => req[s].challenge # c /\ req[s].challenge \in Challenges
    BY <1>2, <2>0, <2>z, <2>3, OwnsTyped DEF FactorInv, ChallengesInv, Owns, Holds
  <2>5. /\ z \in Codes \ Links /\ Ended(z) /\ spent[z] = 0
        /\ \A s \in Reqs : s # r /\ Holds(req[s]) => req[s].code # z
    BY <2>z, <2>3 DEF FactorInv, CodesInv
  <2>6. /\ signed' \in [Challenges -> Nat] /\ signed'[c] = 1
        /\ \A d \in Challenges : d # c => signed'[d] = signed[d]
    BY <2>0, <2>1, <2>4 DEF FactorTyped
  <2>7. /\ spent' \in [Codes -> Nat] /\ spent'[z] = 1 /\ \A y \in Codes : y # z => spent'[y] = spent[y]
    BY <2>0, <2>1, <2>5 DEF FactorTyped
  <2>8. FactorTyped' /\ ShapesInv'
    BY <2>0, <2>2, <2>6, <2>7 DEF FactorTyped, ShapesInv
  <2>9. ChallengesInv'
    <3>1. \A d \in Challenges : signed'[d] <= 1 /\ (signed'[d] # 0 => challenge'[d].state = "gone")
      BY <2>0, <2>4, <2>6 DEF FactorInv, ChallengesInv
    <3>2. \A s \in Reqs : Owns(req'[s]) => s # r /\ req'[s] = req[s]
      BY <2>2, <2>3
    <3>3. \A s \in Reqs : Owns(req'[s]) =>
             challenge'[req'[s].challenge].state = "gone" /\ signed'[req'[s].challenge] = 0
      BY <2>0, <2>4, <2>6, <3>2 DEF FactorInv, ChallengesInv
    <3>4. \A s, t \in Reqs : Owns(req'[s]) /\ Owns(req'[t]) /\ req'[s].challenge = req'[t].challenge => s = t
      BY <3>2 DEF FactorInv, ChallengesInv
    <3> QED  BY <3>1, <3>3, <3>4 DEF ChallengesInv, Owns
  <2>10. \A y \in Codes \ Links : Ended(y) => Ended(y)'
    BY <2>0, <2>2, StillEnded DEF Keeps
  <2>11. CodesInv'
    <3>1. \A s \in Reqs : Holds(req'[s]) => s # r /\ req'[s] = req[s]
      BY <2>2, <2>3
    <3>2. \A s \in Reqs : Holds(req'[s]) => req'[s].code \in Codes \ Links
      BY <3>1 DEF FactorInv, CodesInv
    <3>3. \A s \in Reqs, y \in Codes \ Links : Holds(req'[s]) /\ req'[s].code = y => Ended(y)' /\ spent'[y] = 0
      BY <2>5, <2>7, <2>10, <3>1 DEF FactorInv, CodesInv
    <3>4. \A s, t \in Reqs : Holds(req'[s]) /\ Holds(req'[t]) /\ req'[s].code = req'[t].code => s = t
      BY <3>1 DEF FactorInv, CodesInv
    <3>5. \A y \in Codes \ Links : spent'[y] <= 1 /\ (spent'[y] # 0 => Ended(y)')
      BY <2>5, <2>7, <2>10 DEF FactorInv, CodesInv
    <3> QED  BY <3>2, <3>3, <3>4, <3>5 DEF CodesInv, Holds
  <2>12. \A l \in Links : spent'[l] = spent[l]
    BY <2>5, <2>7 DEF Codes
  <2>13. LinksInv'
    BY <2>0, <2>2, <2>12, QuietLinks DEF FactorInv, FactorTyped, Keeps
  <2>14. NumbersInv' /\ MailsInv'
    BY <2>0, <2>2, QuietNumbers, QuietMails DEF FactorInv, Keeps
  <2>15. FailsInv'
    <3>1. \A d \in Challenges, j \in Kinds : fails[d][j] <= fails'[d][j]
      BY <2>0, FailsAt
    <3> QED  BY <2>0, <2>2, <3>1, QuietFails DEF FactorInv, FactorTyped, Keeps
  <2> QED  BY <2>8, <2>9, <2>11, <2>13, <2>14, <2>15 DEF FactorInv
<1> QED  BY <1>1, <1>2

\* The latest code mailed.
LEMMA LatestCode ==
    ASSUME NEW M, M \subseteq MailedCodes, M # {}
    PROVE  \E y \in M : \A z \in M : z.id <= y.id
<1>0. \A y \in M : y.id \in 1..MaxCodes /\ MaxCodes \in Nat
  BY SecondFactorAssumption DEF MailedCodes
<1> DEFINE T == {MaxCodes - y.id : y \in M}
<1>1. T \subseteq Nat /\ T # {}
  BY <1>0
<1>2. PICK n \in T : \A m \in T : n <= m
  <2> HIDE DEF T
  <2>1. \E x \in T : \A y \in T : <<y, x>> \notin OpToRel(<, Nat)
    BY <1>1, NatLessThanWellFounded, WFMin, Zenon
  <2>2. \E x \in T : \A y \in T : ~(y < x)
    BY <1>1, <2>1, Zenon DEF OpToRel
  <2> QED  BY <1>1, <2>2
<1>3. PICK y \in M : n = MaxCodes - y.id
  BY <1>2
<1>4. ASSUME NEW z \in M PROVE z.id <= y.id
  <2>1. MaxCodes - z.id \in T
    BY <1>4
  <2>2. MaxCodes - y.id <= MaxCodes - z.id
    BY <1>2, <1>3, <2>1
  <2> HIDE DEF T
  <2> QED  BY <1>0, <1>3, <1>4, <2>2
<1> QED  BY <1>4

LEMMA SendStep ==
    ASSUME FactorInv, NEW r \in Reqs, Send(r)
    PROVE  FactorInv'
<1> USE DEF budgets, history
<1>1. CASE Done(r) /\ UNCHANGED codes
  BY <1>1, DoneStep DEF Send
<1>2. CASE /\ codes < MaxCodes /\ codes' = codes + 1
           /\ req' = [req EXCEPT ![r].pc = "mail", ![r].n = codes',
                                 ![r].read = {x \in mailed : \E y \in mailed : x.id < y.id}]
  <2> DEFINE old == {u \in mailed : \E y \in mailed : u.id < y.id}
             x == [req[r] EXCEPT !.pc = "mail", !.n = codes + 1, !.read = old]
  <2>0. /\ FactorTyped /\ req[r] \in Req /\ Shape(req[r]) /\ req \in [Reqs -> Req] /\ req[r].pc = "send"
        /\ UNCHANGED <<resets, challenge, index, fails, wrong, used, mailed, link, signed, spent, outdated>>
    BY ReqAt DEF Send
  <2>1. codes \in Nat /\ codes' \in Nat /\ codes' <= MaxCodes /\ codes' = codes + 1
        /\ mailed \subseteq MailedCodes /\ \A y \in MailedCodes : y.id \in Nat
    BY <1>2, <2>0, SecondFactorAssumption DEF FactorTyped, MailedCodes
  <2>2. req' = [req EXCEPT ![r] = x]
    BY <1>2, <2>0
  <2>3. old \subseteq mailed
    OBVIOUS
  <2> HIDE DEF old
  <2>4. x \in Req /\ Shape(x) /\ x.pc = "mail" /\ x.n = codes + 1 /\ x.read = old
    BY <2>0, <2>1, <2>3 DEF Req, Shape
  <2> HIDE DEF x
  <2>5. KeepsOwned(req[r], x) /\ KeepsHeld(req[r], x) /\ KeepsLock(req[r], x) /\ KeepsCount(req[r], x)
    BY <2>4 DEF KeepsOwned, KeepsHeld, KeepsLock, KeepsCount, Owns, Holds, Counted
  <2>6. /\ req' \in [Reqs -> Req] /\ req'[r] = x /\ \A s \in Reqs : s # r => req'[s] = req[s]
        /\ \A s \in Reqs : /\ Shape(req'[s]) /\ KeepsOwned(req[s], req'[s]) /\ KeepsHeld(req[s], req'[s])
                           /\ KeepsLock(req[s], req'[s]) /\ KeepsCount(req[s], req'[s])
    BY <2>2, <2>4, <2>5, OneReq DEF Keeps
  <2>7. FactorTyped' /\ ShapesInv'
    BY <2>0, <2>1, <2>6 DEF FactorTyped, ShapesInv
  <2>8. ChallengesInv'
    BY <2>0, <2>6, GoneStays
  <2>9. LinksInv'
    BY <2>0, <2>6, QuietLinks DEF FactorInv, FactorTyped
  <2>10. FailsInv'
    <3>1. \A d \in Challenges, j \in Kinds : fails[d][j] <= fails'[d][j]
      BY <2>0, FailsAt
    <3> QED  BY <2>0, <2>6, <3>1, QuietFails DEF FactorInv, FactorTyped
  <2>11. NumbersInv'
    <3>1. \A y \in mailed : y.id <= codes /\ y.id \in Nat
      BY <2>1 DEF FactorInv, NumbersInv
    <3>2. \A s \in Reqs : s # r /\ req'[s].pc = "mail" =>
             req'[s].n \in 1..codes /\ \A y \in mailed : y.id # req'[s].n
      BY <2>6 DEF FactorInv, NumbersInv
    <3>3. \A y \in mailed' : y.id <= codes'
      BY <2>0, <2>1, <3>1
    <3>4. \A s \in Reqs : req'[s].pc = "mail" =>
             req'[s].n \in 1..codes' /\ \A y \in mailed' : y.id # req'[s].n
      BY <2>0, <2>1, <2>4, <2>6, <3>1, <3>2
    <3>5. ASSUME NEW s \in Reqs, NEW t \in Reqs, req'[s].pc = "mail", req'[t].pc = "mail",
                 req'[s].n = req'[t].n
          PROVE  s = t
      <4>1. CASE s # r /\ t # r
        BY <2>6, <3>5, <4>1 DEF FactorInv, NumbersInv
      <4>2. CASE s = r /\ t # r
        BY <2>1, <2>4, <2>6, <3>2, <3>5, <4>2
      <4>3. CASE s # r /\ t = r
        BY <2>1, <2>4, <2>6, <3>2, <3>5, <4>3
      <4> QED  BY <4>1, <4>2, <4>3
    <3> QED  BY <3>3, <3>4, <3>5 DEF NumbersInv
  <2>12. ASSUME NEW y \in Codes \ Links, Ended(y) PROVE Ended(y)'
    <3>1. CASE y \in MailedCodes
      <4>1. y \notin mailed /\ y.id <= codes /\ y.id \in Nat
            /\ \A t \in Reqs : req[t].pc = "mail" => req[t].n # y.id
        BY <2>1, <2>12, <3>1 DEF Ended
      <4>2. \A t \in Reqs : req'[t].pc = "mail" => req'[t].n # y.id
        BY <2>1, <2>4, <2>6, <4>1
      <4> QED  BY <2>0, <2>1, <3>1, <4>1, <4>2 DEF Ended
    <3>2. CASE y \notin MailedCodes
      BY <2>0, <2>12, <3>2 DEF Ended
    <3> QED  BY <3>1, <3>2
  <2>13. CodesInv'
    BY <2>0, <2>6, <2>12, QuietCodes DEF FactorInv
  <2>14. MailsInv'
    <3> SUFFICES ASSUME NEW s \in Reqs, req'[s].pc = "mail", NEW u \in req'[s].read
                 PROVE  /\ u \in MailedCodes /\ u.id <= codes'
                        /\ \A t \in Reqs : req'[t].pc = "mail" => req'[t].n # u.id
                        /\ u \in mailed' => \E y \in mailed' : u.id < y.id
      BY DEF MailsInv
    <3>1. /\ u \in MailedCodes /\ u.id <= codes
          /\ \A t \in Reqs : req[t].pc = "mail" => req[t].n # u.id
          /\ u \in mailed => \E y \in mailed : u.id < y.id
      <4>1. CASE s = r
        <5>1. u \in mailed /\ \E y \in mailed : u.id < y.id
          BY <2>4, <2>6, <4>1 DEF old
        <5> QED  BY <2>1, <5>1 DEF FactorInv, NumbersInv
      <4>2. CASE s # r
        BY <2>6, <4>2 DEF FactorInv, MailsInv
      <4> QED  BY <4>1, <4>2
    <3>2. u.id \in Nat
      BY <2>1, <3>1
    <3> QED  BY <2>0, <2>1, <2>4, <2>6, <3>1, <3>2
  <2> QED  BY <2>7, <2>8, <2>9, <2>10, <2>11, <2>13, <2>14 DEF FactorInv
<1> QED  BY <1>1, <1>2 DEF Send

LEMMA SendCommitStep ==
    ASSUME FactorInv, NEW r \in Reqs, SendCommit(r)
    PROVE  FactorInv'
<1> USE DEF budgets, history
<1>0. /\ FactorTyped /\ req[r] \in Req /\ Shape(req[r]) /\ req \in [Reqs -> Req] /\ req[r].pc = "mail"
      /\ UNCHANGED <<resets, challenge, index, fails, wrong, used, codes, link, signed, spent, outdated>>
  BY ReqAt DEF SendCommit
<1>z. PICK z, old : z = [challenge |-> req[r].challenge, id |-> req[r].n] /\ old = req[r].read
  OBVIOUS
<1>1. mailed' = (mailed \ old) \cup {z} /\ req' = [req EXCEPT ![r] = Idle]
  BY <1>z DEF SendCommit, Done
<1>2. /\ req[r].n \in 1..codes /\ \A y \in mailed : y.id # req[r].n
      /\ \A t \in Reqs : t # r /\ req[t].pc = "mail" => req[t].n # req[r].n
      /\ req[r].challenge \in Challenges /\ codes \in Nat /\ codes <= MaxCodes
  BY <1>0 DEF FactorInv, NumbersInv, FactorTyped, Shape
<1>3. z \in MailedCodes /\ z.id = req[r].n /\ mailed' \subseteq MailedCodes
  BY <1>0, <1>z, <1>1, <1>2, SecondFactorAssumption DEF MailedCodes, FactorTyped
<1>4. /\ req' \in [Reqs -> Req] /\ req'[r] = Idle /\ \A s \in Reqs : s # r => req'[s] = req[s]
      /\ \A s \in Reqs : Shape(req'[s]) /\ Keeps(req[s], req'[s])
  BY <1>1, IdleOK, OneReq, PlainKeeps
<1>5. FactorTyped' /\ ShapesInv'
  BY <1>0, <1>3, <1>4 DEF FactorTyped, ShapesInv
<1>6. ChallengesInv'
  BY <1>0, <1>4, GoneStays DEF Keeps
<1>7. LinksInv'
  BY <1>0, <1>4, QuietLinks DEF FactorInv, FactorTyped, Keeps
<1>8. FailsInv'
  <2>1. \A d \in Challenges, j \in Kinds : fails[d][j] <= fails'[d][j]
    BY <1>0, FailsAt
  <2> QED  BY <1>0, <1>4, <2>1, QuietFails DEF FactorInv, FactorTyped, Keeps
<1>9. \A s \in Reqs : req'[s].pc = "mail" => s # r /\ req[s].pc = "mail" /\ req'[s] = req[s]
  BY <1>4, IdleOK
<1>10. NumbersInv'
  <2>1. \A y \in mailed' : y.id <= codes'
    BY <1>0, <1>1, <1>2, <1>3 DEF FactorInv, NumbersInv
  <2>2. \A s \in Reqs : req'[s].pc = "mail" =>
           req'[s].n \in 1..codes' /\ \A y \in mailed' : y.id # req'[s].n
    BY <1>0, <1>1, <1>2, <1>3, <1>9 DEF FactorInv, NumbersInv
  <2>3. \A s, t \in Reqs : req'[s].pc = "mail" /\ req'[t].pc = "mail" /\ req'[s].n = req'[t].n => s = t
    BY <1>9 DEF FactorInv, NumbersInv
  <2> QED  BY <2>1, <2>2, <2>3 DEF NumbersInv
<1>11. ASSUME NEW y \in Codes \ Links, Ended(y) PROVE Ended(y)'
  <2>1. CASE y \in MailedCodes
    <3>1. y \notin mailed /\ y.id <= codes /\ \A t \in Reqs : req[t].pc = "mail" => req[t].n # y.id
      BY <1>11, <2>1 DEF Ended
    <3>2. y # z
      BY <1>0, <1>3, <3>1
    <3>3. y \notin mailed' /\ \A t \in Reqs : req'[t].pc = "mail" => req'[t].n # y.id
      BY <1>1, <1>9, <3>1, <3>2
    <3> QED  BY <1>0, <2>1, <3>1, <3>3 DEF Ended
  <2>2. CASE y \notin MailedCodes
    BY <1>0, <1>11, <2>2 DEF Ended
  <2> QED  BY <2>1, <2>2
<1>12. CodesInv'
  BY <1>0, <1>4, <1>11, QuietCodes DEF FactorInv, Keeps
<1>13. ASSUME NEW s \in Reqs, req'[s].pc = "mail", NEW u \in req'[s].read, u \in mailed'
       PROVE  \E y \in mailed' : u.id < y.id
  <2>0. u # z
    BY <1>0, <1>3, <1>9, <1>13 DEF FactorInv, MailsInv
  <2>1. s # r /\ req[s].pc = "mail" /\ u \in req[s].read /\ s \in Reqs
    BY <1>9, <1>13
  <2>4. CASE u \in mailed
    <3>0. mailed \subseteq MailedCodes /\ mailed # {}
      BY <1>0, <2>4 DEF FactorTyped
    <3>1. PICK w \in mailed : u.id < w.id
      BY <2>1, <2>4 DEF FactorInv, MailsInv
    <3>2. PICK v \in mailed : \A t \in mailed : t.id <= v.id
      BY <3>0, LatestCode
    <3>3. v \notin old
      <4>1. \A t \in mailed : t.id \in Int
        BY <3>0 DEF MailedCodes
      <4>2. v \in req[r].read => \E t \in mailed : v.id < t.id
        BY <1>0 DEF FactorInv, MailsInv
      <4> QED  BY <1>z, <3>2, <4>1, <4>2
    <3>4. v \in mailed' /\ u.id < v.id
      <4>1. u.id \in Int /\ w.id \in Int /\ v.id \in Int
        BY <2>4, <3>0 DEF MailedCodes
      <4> QED  BY <1>1, <3>1, <3>2, <3>3, <4>1
    <3> QED  BY <3>4
  <2> QED  BY <1>1, <1>13, <2>0, <2>4
<1>14. MailsInv'
  <2>1. \A s \in Reqs : req'[s].pc = "mail" =>
           \A u \in req'[s].read :
              /\ u \in MailedCodes /\ u.id <= codes'
              /\ \A t \in Reqs : req'[t].pc = "mail" => req'[t].n # u.id
    BY <1>0, <1>9 DEF FactorInv, MailsInv
  <2> QED  BY <1>13, <2>1 DEF MailsInv
<1> QED  BY <1>5, <1>6, <1>7, <1>8, <1>10, <1>12, <1>14 DEF FactorInv
-----------------------------------------------------------------------------
(***************************************************************************)
(* The links.                                                              *)
(***************************************************************************)
\* Every part but that of the links, when only they, their sign-ins and requests change.
LEMMA BesideLinks ==
    ASSUME FactorInv, UNCHANGED <<challenge, index, fails, wrong, used, mailed, codes, signed>>,
           resets' \in Nat, link' \in [Links -> {"unsent", "live", "used"}],
           spent' \in [Codes -> Nat], outdated' \in SUBSET Links,
           \A x \in Codes \ Links : spent'[x] = spent[x], req' \in [Reqs -> Req],
           \A s \in Reqs : /\ Shape(req'[s]) /\ KeepsOwned(req[s], req'[s]) /\ KeepsHeld(req[s], req'[s])
                           /\ KeepsMail(req[s], req'[s]) /\ KeepsCount(req[s], req'[s])
    PROVE  /\ FactorTyped' /\ ShapesInv' /\ ChallengesInv' /\ NumbersInv' /\ CodesInv'
           /\ FailsInv' /\ MailsInv'
<1>0. FactorTyped' /\ ShapesInv'
  BY DEF FactorInv, FactorTyped, ShapesInv
<1>1. ChallengesInv'
  BY GoneStays
<1>2. NumbersInv' /\ MailsInv'
  BY QuietNumbers, QuietMails DEF FactorInv
<1>3. CodesInv'
  <2>1. \A x \in Codes \ Links : Ended(x) => Ended(x)'
    BY StillEnded
  <2> QED  BY <2>1, QuietCodes DEF FactorInv
<1>4. FailsInv'
  <2>0. FactorTyped
    BY DEF FactorInv
  <2>1. \A d \in Challenges, j \in Kinds : fails[d][j] <= fails'[d][j]
    BY <2>0, FailsAt
  <2> QED  BY <2>0, <2>1, QuietFails DEF FactorInv, FactorTyped
<1> QED  BY <1>0, <1>1, <1>2, <1>3, <1>4

LEMMA RequestLinkStep ==
    ASSUME FactorInv, PostMagicLink
    PROVE  FactorInv'
<1> USE DEF budgets, mail, history
<1>1. PICK l \in Links : RequestMagicLink(l)
  BY DEF PostMagicLink
<1>0. FactorTyped /\ \A s \in Reqs : Shape(req[s]) /\ Keeps(req[s], req[s])
  BY KeepsItself DEF FactorInv, ShapesInv
<1>2. /\ link[l] = "unsent" /\ link' = [link EXCEPT ![l] = "live"]
      /\ UNCHANGED <<resets, challenge, index, fails, wrong, used, mailed, codes, signed, spent, outdated, req>>
  BY <1>1 DEF RequestMagicLink, SendLink, AddMagicLink
<1>3. /\ link' \in [Links -> {"unsent", "live", "used"}]
      /\ \A k \in Links : link[k] # "unsent" => link'[k] = link[k]
  BY <1>0, <1>2 DEF FactorTyped
<1>4. /\ FactorTyped' /\ ShapesInv' /\ ChallengesInv' /\ NumbersInv' /\ CodesInv' /\ FailsInv' /\ MailsInv'
  BY <1>0, <1>2, <1>3, BesideLinks DEF FactorTyped, Keeps
<1>5. \A s \in Reqs : req[s].pc = "locked" => req[s].code \in Links
  BY <1>0 DEF Shape
<1>6. LinksInv'
  BY <1>0, <1>2, <1>3, <1>5 DEF FactorInv, LinksInv, FactorTyped
<1> QED  BY <1>4, <1>6 DEF FactorInv

LEMMA ConsumeStep ==
    ASSUME FactorInv, NEW r \in Reqs, LinkConsume(r)
    PROVE  FactorInv'
<1> USE DEF budgets, mail, history
<1>1. CASE Done(r)
  BY <1>1, DoneStep DEF LinkConsume
<1>2. CASE link[req[r].code] = "live" /\ Goto(r, "locked")
  <2> DEFINE x == [req[r] EXCEPT !.pc = "locked"]
  <2>0. /\ FactorTyped /\ req[r] \in Req /\ Shape(req[r]) /\ req \in [Reqs -> Req] /\ req[r].pc = "link"
        /\ req[r].code \notin LockedLinks
        /\ UNCHANGED <<resets, challenge, index, fails, wrong, used, mailed, codes, link, signed, spent, outdated>>
    BY ReqAt DEF LinkConsume
  <2>1. req' = [req EXCEPT ![r] = x]
    BY <1>2, <2>0 DEF Goto
  <2>2. x \in Req /\ Shape(x) /\ x.pc = "locked" /\ x.code = req[r].code
    BY <2>0 DEF Req, Shape
  <2> HIDE DEF x
  <2>3. KeepsOwned(req[r], x) /\ KeepsHeld(req[r], x) /\ KeepsMail(req[r], x) /\ KeepsCount(req[r], x)
    BY <2>2 DEF KeepsOwned, KeepsHeld, KeepsMail, KeepsCount, Owns, Holds, Counted
  <2>4. /\ req' \in [Reqs -> Req] /\ req'[r] = x /\ \A s \in Reqs : s # r => req'[s] = req[s]
        /\ \A s \in Reqs : /\ Shape(req'[s]) /\ KeepsOwned(req[s], req'[s]) /\ KeepsHeld(req[s], req'[s])
                           /\ KeepsMail(req[s], req'[s]) /\ KeepsCount(req[s], req'[s])
    BY <2>1, <2>2, <2>3, OneReq DEF Keeps
  <2>5. /\ FactorTyped' /\ ShapesInv' /\ ChallengesInv' /\ NumbersInv' /\ CodesInv' /\ FailsInv' /\ MailsInv'
    BY <2>0, <2>4, BesideLinks DEF FactorTyped
  <2>6. \A s \in Reqs : req[s].pc = "locked" => req[s].code # req[r].code
    BY <2>0 DEF LockedLinks
  <2>7. LinksInv'
    <3>1. /\ \A l \in Links : spent'[l] <= 1 /\ (spent'[l] # 0 => link'[l] = "used")
          /\ \A l \in outdated' : link'[l] = "used" /\ spent'[l] = 0
      BY <2>0 DEF FactorInv, LinksInv
    <3>2. \A s \in Reqs : req'[s].pc = "locked" => link'[req'[s].code] = "live"
      BY <1>2, <2>0, <2>2, <2>4 DEF FactorInv, LinksInv
    <3>3. \A s, t \in Reqs :
             req'[s].pc = "locked" /\ req'[t].pc = "locked" /\ req'[s].code = req'[t].code => s = t
      BY <2>2, <2>4, <2>6 DEF FactorInv, LinksInv
    <3> QED  BY <3>1, <3>2, <3>3 DEF LinksInv
  <2> QED  BY <2>5, <2>7 DEF FactorInv
<1> QED  BY <1>1, <1>2 DEF LinkConsume

LEMMA ConsumeOthersStep ==
    ASSUME FactorInv, NEW r \in Reqs, LinkConsumeOthers(r)
    PROVE  FactorInv'
<1> USE DEF budgets, mail
<1> DEFINE x == [req[r] EXCEPT !.pc = "method", !.proof = resets]
<1>0. /\ FactorTyped /\ req[r] \in Req /\ Shape(req[r]) /\ req \in [Reqs -> Req] /\ req[r].pc = "locked"
      /\ resets \in Nat /\ LockedLinks = {req[r].code}
      /\ UNCHANGED <<resets, challenge, index, fails, wrong, used, mailed, codes, signed>>
  BY ReqAt DEF LinkConsumeOthers
<1>z. PICK z : z = req[r].code
  OBVIOUS
<1>1. req' = [req EXCEPT ![r] = x]
  BY <1>0 DEF LinkConsumeOthers
<1>2. x \in Req /\ Shape(x) /\ Plain(x) /\ x.pc = "method"
  BY <1>0 DEF Req, Shape, Plain, Holds
<1> HIDE DEF x
<1>3. /\ req' \in [Reqs -> Req] /\ req'[r] = x /\ \A s \in Reqs : s # r => req'[s] = req[s]
      /\ \A s \in Reqs : Shape(req'[s]) /\ Keeps(req[s], req'[s])
  BY <1>1, <1>2, OneReq, PlainKeeps
<1>4. /\ z \in Links /\ z \in Codes /\ link[z] = "live" /\ spent[z] = 0 /\ z \notin outdated
  BY <1>0, <1>z DEF FactorInv, LinksInv, Shape, Codes
<1>5. /\ link' = [l \in Links |-> IF link[l] = "live" THEN "used" ELSE link[l]]
      /\ outdated' = outdated \cup ({l \in Links : link[l] = "live"} \ {z})
      /\ spent' = [spent EXCEPT ![z] = @ + 1]
  BY <1>z DEF LinkConsumeOthers
<1>6. /\ link' \in [Links -> {"unsent", "live", "used"}] /\ outdated' \in SUBSET Links
      /\ spent' \in [Codes -> Nat] /\ spent'[z] = 1 /\ \A y \in Codes : y # z => spent'[y] = spent[y]
      /\ \A l \in Links : /\ link[l] \in {"live", "used"} => link'[l] = "used"
  BY <1>0, <1>4, <1>5 DEF FactorTyped
<1>7. /\ FactorTyped' /\ ShapesInv' /\ ChallengesInv' /\ NumbersInv' /\ CodesInv' /\ FailsInv' /\ MailsInv'
  BY <1>0, <1>3, <1>4, <1>6, BesideLinks DEF Keeps
<1>8. \A s \in Reqs : req'[s].pc # "locked"
  <2>1. ASSUME NEW s \in Reqs, req'[s].pc = "locked" PROVE FALSE
    <3>1. s # r /\ req[s].pc = "locked"
      BY <1>2, <1>3, <2>1
    <3>2. req[s].code = req[r].code
      BY <1>0, <3>1 DEF LockedLinks
    <3> QED  BY <1>0, <3>1, <3>2 DEF FactorInv, LinksInv
  <2> QED  BY <2>1
<1>9. \A l \in Links : spent'[l] <= 1 /\ (spent'[l] # 0 => link'[l] = "used")
  BY <1>4, <1>6 DEF FactorInv, LinksInv, Codes
<1>10. \A l \in outdated' : link'[l] = "used" /\ spent'[l] = 0
  <2> SUFFICES ASSUME NEW l \in outdated' PROVE link'[l] = "used" /\ spent'[l] = 0
    OBVIOUS
  <2>1. l \in Links /\ l \in Codes /\ l # z
    BY <1>4, <1>5, <1>6 DEF Codes
  <2>2. link[l] \in {"live", "used"} /\ spent[l] = 0
    BY <1>5, <2>1 DEF FactorInv, LinksInv
  <2> QED  BY <1>6, <2>1, <2>2
<1>11. LinksInv'
  BY <1>8, <1>9, <1>10 DEF LinksInv
<1> QED  BY <1>7, <1>11 DEF FactorInv

LEMMA ResetCommitStep ==
    ASSUME FactorInv, NEW r \in Reqs, ResetCommit(r)
    PROVE  FactorInv'
<1> USE DEF budgets, mail
<1> DEFINE x == [req[r] EXCEPT !.pc = "list"]
<1>0. /\ FactorTyped /\ req[r] \in Req /\ Shape(req[r]) /\ req \in [Reqs -> Req] /\ req[r].pc = "commit"
      /\ resets' \in Nat /\ LockedLinks = {}
      /\ UNCHANGED <<challenge, index, fails, wrong, used, mailed, codes, signed, spent>>
  BY ReqAt DEF ResetCommit
<1>1. req' = [req EXCEPT ![r] = x]
  BY <1>0 DEF ResetCommit, Goto
<1>2. x \in Req /\ Shape(x) /\ Plain(x) /\ x.pc = "list"
  BY <1>0 DEF Req, Shape, Plain, Holds
<1> HIDE DEF x
<1>3. /\ req' \in [Reqs -> Req] /\ req'[r] = x /\ \A s \in Reqs : s # r => req'[s] = req[s]
      /\ \A s \in Reqs : Shape(req'[s]) /\ Keeps(req[s], req'[s])
  BY <1>1, <1>2, OneReq, PlainKeeps
<1>4. /\ link' = [l \in Links |-> IF link[l] = "live" THEN "used" ELSE link[l]]
      /\ outdated' = outdated \cup {l \in Links : link[l] = "live"}
  BY DEF ResetCommit
<1>5. /\ link' \in [Links -> {"unsent", "live", "used"}] /\ outdated' \in SUBSET Links
      /\ \A l \in Links : /\ link[l] \in {"live", "used"} => link'[l] = "used"
  BY <1>0, <1>4 DEF FactorTyped
<1>6. /\ FactorTyped' /\ ShapesInv' /\ ChallengesInv' /\ NumbersInv' /\ CodesInv' /\ FailsInv' /\ MailsInv'
  BY <1>0, <1>3, <1>5, BesideLinks DEF Keeps, FactorTyped
<1>7. \A s \in Reqs : req'[s].pc # "locked"
  BY <1>0, <1>2, <1>3 DEF LockedLinks
<1>8. \A l \in Links : spent'[l] <= 1 /\ (spent'[l] # 0 => link'[l] = "used")
  BY <1>0, <1>5 DEF FactorInv, LinksInv
<1>9. \A l \in outdated' : link'[l] = "used" /\ spent'[l] = 0
  BY <1>0, <1>4, <1>5 DEF FactorInv, LinksInv, FactorTyped
<1>10. LinksInv'
  BY <1>7, <1>8, <1>9 DEF LinksInv
<1> QED  BY <1>6, <1>10 DEF FactorInv
-----------------------------------------------------------------------------
LEMMA FactorInitOK == SecondFactorInit => FactorInv
<1> SUFFICES ASSUME SecondFactorInit PROVE FactorInv
  OBVIOUS
<1> USE DEF SecondFactorInit
<1>0. \A s \in Reqs : req[s] = Idle
  OBVIOUS
<1>1. FactorTyped /\ ShapesInv
  BY IdleOK, SecondFactorAssumption, FS_EmptySet DEF FactorTyped, ShapesInv, Challenge
<1>2. \A s \in Reqs : req[s].pc = "idle" /\ ~Holds(req[s]) /\ ~Owns(req[s]) /\ ~Counted(req[s])
  BY <1>0, IdleOK DEF Holds, Owns, Counted
<1>3. ChallengesInv /\ NumbersInv /\ CodesInv /\ LinksInv /\ MailsInv
  BY <1>2 DEF ChallengesInv, NumbersInv, CodesInv, LinksInv, MailsInv, Codes
<1>4. \A c \in Challenges, k \in Kinds : Cardinality(Awaiting(c, k)) = 0
  BY <1>2, FS_EmptySet DEF Awaiting
<1>5. FailsInv
  BY <1>4, SecondFactorAssumption DEF FailsInv
<1> QED  BY <1>1, <1>3, <1>5 DEF FactorInv

LEMMA FactorStep == FactorInv /\ [SecondFactorNext]_factorVars => FactorInv'
<1> SUFFICES ASSUME FactorInv, [SecondFactorNext]_factorVars PROVE FactorInv'
  OBVIOUS
<1>1. ASSUME NEW r \in Reqs,
        \/ LoginBegin(r) \/ CompleteMagicLink(r)
        \/ LinkConsume(r) \/ LinkConsumeOthers(r) \/ LinkDeadlock(r) \/ FirstFactorProven(r)
        \/ \E c \in Challenges : ChallengeStore(r, c) \/ ResendBegin(r, c)
        \/ ChallengeCount(r) \/ ChallengePop(r) \/ ChallengeDrop(r) \/ ChallengeIndex(r)
        \/ Send(r) \/ SendCommit(r)
      PROVE  FactorInv'
  BY <1>1, BeginSteps, ConsumeStep, ConsumeOthersStep, EndSteps, FirstFactorStep, StoreStep, ChallengeCountStep,
     PopStep, DropSteps, IndexStep, SendStep, SendCommitStep DEF CompleteMagicLink
<1>2. ASSUME NEW r \in Reqs,
        \/ \E c \in Challenges :
              CompleteTwoFactor(r, c) \/ CompleteEmailTwoFactor(r, c) \/ RecoveryLogin(r, c)
        \/ CompleteLoad(r) \/ CompleteBudget(r) \/ CompleteVerify(r) \/ CompleteClear(r)
        \/ CompleteTake(r) \/ CompleteAfter(r) \/ Issue(r)
      PROVE  FactorInv'
  BY <1>2, CompleteBeginStep, LoadStep, BudgetStep, CodeVerifyStep, ClearStep, TakeStep, AfterStep, IssueStep
<1>3. ASSUME NEW r \in Reqs,
        \/ ResetBegin(r) \/ ResetCommit(r) \/ PurgeList(r) \/ PurgeDelete(r) \/ PurgeIndex(r)
        \/ ResetBudgets(r)
        \/ Abort(r)
      PROVE  FactorInv'
  BY <1>3, BeginSteps, ResetCommitStep, PurgeSteps, DropSteps, EndSteps
<1>4. CASE UNCHANGED factorVars
  <2>0. FactorTyped /\ \A s \in Reqs : Shape(req[s])
    BY DEF FactorInv, ShapesInv
  <2>1. /\ UNCHANGED <<wrong, used, mailed, codes, link, signed, spent, outdated>>
        /\ UNCHANGED <<resets, challenge, index, fails, req>>
    BY <1>4 DEF factorVars
  <2>2. \A s \in Reqs : Keeps(req[s], req'[s]) /\ Shape(req'[s])
    BY <2>0, <2>1, KeepsItself
  <2>3. \A d \in Challenges, k \in Kinds : fails[d][k] <= fails'[d][k]
    BY <2>0, <2>1, FailsAt
  <2> QED  BY <2>0, <2>1, <2>2, <2>3, FactorQuiet DEF FactorTyped
<1> QED  BY <1>1, <1>2, <1>3, <1>4, ExpiresStep, RequestLinkStep DEF SecondFactorNext

LEMMA FactorInvariance == SecondFactorSpec => []FactorInv
BY FactorInitOK, FactorStep, PTL DEF SecondFactorSpec

(***************************************************************************)
(* For any number of completions, resends, link sign-ins and resets at     *)
(* once: a challenge opens at most one session, whichever of its right     *)
(* codes come together; a code and a link sign in once, and a link that    *)
(* was live when another was used never does; no challenge has more wrong  *)
(* codes looked at than its budget allows.                                 *)
(***************************************************************************)
THEOREM OneSignIn == SecondFactorSpec => []OneSignInPerProof
<1>1. FactorInv => OneSignInPerProof
  <2> SUFFICES ASSUME FactorInv PROVE OneSignInPerProof
    OBVIOUS
  <2>0. FactorTyped
    BY DEF FactorInv
  <2>1. ASSUME NEW c \in Challenges, NEW k \in Kinds PROVE wrong[c][k] <= MaxFailures
    <3>1. wrong[c][k] + Cardinality(Awaiting(c, k)) <= MaxFailures
      BY DEF FactorInv, FailsInv
    <3> QED  BY <2>0, <3>1, FailsAt, AwaitingOK
  <2>2. \A c \in Challenges : signed[c] <= 1
    BY DEF FactorInv, ChallengesInv
  <2>3. \A x \in Codes : spent[x] <= 1
    BY DEF FactorInv, CodesInv, LinksInv
  <2>4. \A l \in outdated : spent[l] = 0
    BY DEF FactorInv, LinksInv
  <2> QED  BY <2>1, <2>2, <2>3, <2>4 DEF OneSignInPerProof
<1> QED  BY <1>1, FactorInvariance, PTL

(***************************************************************************)
(* Whoever holds the challenge and however many resends run at once, a     *)
(* resend leaves the latest code mailed, which its owner may be typing:    *)
(* what it deletes is older than a code still there.                       *)
(***************************************************************************)
THEOREM LatestCodeStays == SecondFactorSpec => ResendKeepsTheCode
<1> DEFINE Kept == mailed' # {} => \A x \in mailed : (\A y \in mailed : y.id <= x.id) => x \in mailed'
<1>1. ASSUME FactorInv, [SecondFactorNext]_factorVars PROVE Kept
  <2>1. CASE mailed' \in {mailed, {}}
    BY <2>1
  <2>2. ASSUME NEW r \in Reqs, SendCommit(r) PROVE Kept
    <3> SUFFICES ASSUME NEW x \in mailed, \A y \in mailed : y.id <= x.id PROVE x \in mailed'
      OBVIOUS
    <3>0. \A y \in mailed : y.id \in Int
      BY <1>1 DEF FactorInv, FactorTyped, MailedCodes
    <3>1. x \in req[r].read => \E y \in mailed : x.id < y.id
      BY <1>1, <2>2 DEF FactorInv, MailsInv, SendCommit
    <3>2. x \notin req[r].read
      BY <3>0, <3>1
    <3> QED  BY <2>2, <3>2 DEF SendCommit
  <2>3. ASSUME NEW r \in Reqs, CompleteVerify(r) PROVE mailed' \in {mailed, {}}
    BY <2>3 DEF CompleteVerify
  <2>4. ASSUME NEW r \in Reqs,
          \/ LoginBegin(r) \/ CompleteMagicLink(r)
          \/ LinkConsume(r) \/ LinkConsumeOthers(r) \/ LinkDeadlock(r) \/ FirstFactorProven(r)
          \/ \E c \in Challenges : ChallengeStore(r, c) \/ ResendBegin(r, c)
          \/ ChallengeCount(r) \/ ChallengePop(r) \/ ChallengeDrop(r) \/ ChallengeIndex(r)
          \/ Send(r)
        PROVE  mailed' = mailed
    BY <2>4 DEF LoginBegin, CompleteMagicLink, LinkBegin, LinkConsume, LinkConsumeOthers, LinkDeadlock,
       FirstFactorProven, ChallengeStore, ResendBegin, ChallengeCount, ChallengePop, ChallengeDrop,
       ChallengeIndex, Send, mail
  <2>5. ASSUME NEW r \in Reqs,
          \/ \E c \in Challenges :
                CompleteTwoFactor(r, c) \/ CompleteEmailTwoFactor(r, c) \/ RecoveryLogin(r, c)
          \/ CompleteLoad(r) \/ CompleteBudget(r) \/ CompleteClear(r)
          \/ CompleteTake(r) \/ CompleteAfter(r) \/ Issue(r)
        PROVE  mailed' = mailed
    BY <2>5 DEF CompleteTwoFactor, CompleteEmailTwoFactor, RecoveryLogin, CompleteBegin, CompleteLoad,
       CompleteBudget, CompleteClear, CompleteTake, CompleteAfter, Issue, mail
  <2>6. ASSUME NEW r \in Reqs,
          \/ ResetBegin(r) \/ ResetCommit(r) \/ PurgeList(r) \/ PurgeDelete(r) \/ PurgeIndex(r)
          \/ ResetBudgets(r) \/ Abort(r)
        PROVE  mailed' = mailed
    BY <2>6 DEF ResetBegin, ResetCommit, PurgeList, PurgeDelete, PurgeIndex, ResetBudgets, Abort, mail
  <2>7. ASSUME \/ UNCHANGED factorVars \/ PostMagicLink \/ \E c \in Challenges : ChallengeExpires(c)
        PROVE  mailed' = mailed
    BY <2>7 DEF factorVars, PostMagicLink, RequestMagicLink, ChallengeExpires, mail
  <2> QED  BY <1>1, <2>1, <2>2, <2>3, <2>4, <2>5, <2>6, <2>7 DEF SecondFactorNext
<1>2. FactorInv /\ [SecondFactorNext]_factorVars => [Kept]_factorVars
  BY <1>1
<1> QED  BY <1>2, FactorInvariance, PTL DEF SecondFactorSpec, ResendKeepsTheCode
=============================================================================
