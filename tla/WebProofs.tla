----------------------------- MODULE WebProofs ------------------------------
(***************************************************************************)
(* The parts that live in web requests alone.  Proofs about Accounts, for  *)
(* every number of requests, users and sessions and every limit, and about *)
(* Overview and its calendar, for every set of receipts, all start days and*)
(* every span of days.                                                     *)
(***************************************************************************)
EXTENDS Accounts, Overview, TLAPS, SequenceTheorems, FiniteSetTheorems

-----------------------------------------------------------------------------
(* Induction, with a set in the place of the predicate. *)

\* Of the subsets of a finite set that are not in F there is a smallest one.
LEMMA SmallestCase ==
    ASSUME NEW S, IsFiniteSet(S), NEW F, NEW s0 \in SUBSET S, s0 \notin F
    PROVE  \E s \in SUBSET S : s \notin F /\ \A t \in SUBSET s : t # s => t \in F
  <1> DEFINE T == {s \in SUBSET S : s \notin F}
  <1>1. T \subseteq FiniteSubsetsOf(S) /\ T # {}
    BY FS_Subset DEF FiniteSubsetsOf
  <1>2. PICK s \in T : \A t \in T : <<t, s>> \notin StrictSubsetOrdering(S)
    BY <1>1, FS_StrictSubsetOrderingWellFounded, WFMin
  <1>3. \A t \in SUBSET s : t # s => t \in F
    BY <1>2 DEF StrictSubsetOrdering
  <1> QED
    BY <1>2, <1>3

\* Induction over the subsets of a finite set.
LEMMA AddOne ==
    ASSUME NEW S, IsFiniteSet(S), NEW F, {} \in F,
           \A s \in SUBSET S, x \in S : s \in F /\ x \notin s => s \union {x} \in F
    PROVE  S \in F
  <1> SUFFICES ASSUME S \notin F
               PROVE  FALSE
    OBVIOUS
  <1>1. PICK s \in SUBSET S : s \notin F /\ \A t \in SUBSET s : t # s => t \in F
    BY SmallestCase
  <1>2. PICK x \in s : TRUE
    BY <1>1
  <1>3. s \ {x} \in F /\ s = (s \ {x}) \union {x}
    BY <1>1
  <1> QED
    BY <1>1, <1>2, <1>3

\* Induction over the natural numbers.
LEMMA NextOne ==
    ASSUME NEW F, 0 \in F, \A n \in Nat : n \in F => n + 1 \in F
    PROVE  Nat \subseteq F
  <1> SUFFICES ASSUME NEW n \in Nat, n \notin F
               PROVE  FALSE
    OBVIOUS
  <1> DEFINE S == 0 .. n
             G == {s \in SUBSET S : \A k \in Nat : s = 0 .. k => k \in F}
  <1>1. IsFiniteSet(S) /\ S \in SUBSET S /\ S \notin G
    BY FS_Interval
  <1>2. PICK s \in SUBSET S : s \notin G /\ \A t \in SUBSET s : t # s => t \in G
    <2> HIDE DEF S, G
    <2> QED
      BY <1>1, SmallestCase
  <1>3. PICK k \in Nat : s = 0 .. k /\ k \notin F
    BY <1>2
  <1>4. k # 0 /\ k - 1 \in Nat
    BY <1>3
  <1>5. 0 .. k - 1 \in SUBSET s /\ 0 .. k - 1 # s
    <2>1. k \in s /\ k \notin 0 .. k - 1
      BY <1>3, <1>4
    <2> QED
      BY <1>3, <1>4, <2>1
  <1>6. k - 1 \in F
    BY <1>2, <1>4, <1>5
  <1> QED
    BY <1>3, <1>4, <1>6

-----------------------------------------------------------------------------
(* Accounts *)

\* What is true of a row of the table sessions at time t: last_seen lags
\* behind the last use by the touch interval at most, and a row that is gone
\* was signed out or had come to its end.
RowOK(d, t) ==
    /\ d.seen <= t
    /\ d.used <= d.seen + Touch
    /\ \/ d.on \/ d.signedOut
       \/ t >= d.until
       \/ t + Touch >= d.used + Idle

\* The inductive invariant.
AccountsInv ==
    /\ AccountsTypeOK
    /\ \A s \in DOMAIN session : RowOK(session[s], now)

\* The limits are natural numbers, the touch interval within the idle time.
LEMMA Numbers ==
    /\ Idle \in Nat /\ Absolute \in Nat /\ Touch \in Nat /\ Touch <= Idle
    /\ MaxTime \in Nat
  BY AccountsAssumption DEF AccountsAssumption

\* The rows are numbered from 1, without a gap.
LEMMA Rows ==
    ASSUME AccountsTypeOK
    PROVE  /\ Len(session) \in Nat /\ DOMAIN session = 1 .. Len(session)
           /\ DOMAIN session \subseteq Nat
           /\ \A s \in DOMAIN session : session[s] \in SessionRows
<1> session \in Seq(SessionRows)
  BY DEF AccountsTypeOK
<1> QED
  BY LenProperties, ElementOfSeq

\* What every action may do to the sessions.
SessionsKept ==
    /\ session' \in Seq(SessionRows)
    /\ DOMAIN session \subseteq DOMAIN session'
    /\ \A s \in DOMAIN session' : RowOK(session'[s], now')

\* As long as the clock and the rows stay, so does what is said of the rows.
LEMMA KeptBySame ==
    ASSUME AccountsInv, UNCHANGED session, now' \in Nat, now <= now'
    PROVE  SessionsKept
<1> now \in Nat
  BY DEF AccountsInv, AccountsTypeOK
<1>1. ASSUME NEW s \in DOMAIN session
      PROVE  RowOK(session[s], now')
  <2>1. RowOK(session[s], now) /\ session[s] \in SessionRows
    BY Rows DEF AccountsInv
  <2> QED
    BY <2>1, Numbers DEF RowOK, SessionRows
<1> QED
  BY <1>1 DEF SessionsKept, AccountsInv, AccountsTypeOK

\* A step that rewrites one row leaves the others as they were.
LEMMA KeptByChange ==
    ASSUME AccountsInv, UNCHANGED now,
           NEW f, DOMAIN f = DOMAIN session,
           \A s \in DOMAIN session : f[s] \in SessionRows /\ RowOK(f[s], now),
           f = [s \in DOMAIN session |-> f[s]],
           session' = f
    PROVE  SessionsKept
<1>1. /\ Len(session) \in Nat /\ DOMAIN session = 1 .. Len(session)
  BY Rows DEF AccountsInv
<1>2. f \in [1 .. Len(session) -> SessionRows]
  BY <1>1
<1>3. f \in Seq(SessionRows)
  BY <1>1, <1>2
<1> QED
  BY <1>3 DEF SessionsKept

\* lookup_session() deletes only what has expired, and what it keeps is fresh.
LEMMA KeptByLookUp ==
    ASSUME AccountsInv, UNCHANGED now, NEW s \in DOMAIN session,
           session[s].on, LookUp(s, session[s])
    PROVE  SessionsKept
<1> DEFINE d == session[s]
           e == IF Expired(d) THEN [d EXCEPT !.on = FALSE]
                ELSE [d EXCEPT !.seen = Touched(d), !.used = now]
<1>1. now \in Nat /\ d \in SessionRows /\ RowOK(d, now)
  BY Rows DEF AccountsInv, AccountsTypeOK
<1>2. e \in SessionRows /\ RowOK(e, now)
  <2>1. CASE Expired(d)
    <3>1. /\ e \in SessionRows
          /\ e.seen = d.seen /\ e.used = d.used /\ e.until = d.until
          /\ d.seen \in Nat /\ d.used \in Nat /\ d.until \in Nat
      BY <2>1, <1>1 DEF SessionRows
    <3> QED
      BY <2>1, <3>1, <1>1, Numbers DEF RowOK, Expired
  <2>2. CASE ~Expired(d)
    <3>1. /\ e \in SessionRows
          /\ e.seen = Touched(d) /\ e.used = now /\ e.on = d.on
          /\ d.seen \in Nat
      BY <2>2, <1>1 DEF SessionRows, Touched
    <3> QED
      BY <2>2, <3>1, <1>1, Numbers DEF RowOK, Touched
  <2> QED
    BY <2>1, <2>2
<1>3. session' = [session EXCEPT ![s] = e]
  BY DEF LookUp
<1>4. \A i \in DOMAIN session : session[i] \in SessionRows /\ RowOK(session[i], now)
  BY Rows DEF AccountsInv
<1> HIDE DEF e
<1> QED
  BY <1>2, <1>3, <1>4, KeptByChange

\* revoke_session() and revoke_all() leave rows that are signed out.
LEMMA KeptByRevoke ==
    ASSUME AccountsInv, UNCHANGED now, NEW those, Revoke(those)
    PROVE  SessionsKept
<1>1. now \in Nat
  BY DEF AccountsInv, AccountsTypeOK
<1>2. \A s \in DOMAIN session : session[s] \in SessionRows /\ RowOK(session[s], now)
  BY Rows DEF AccountsInv
<1>3. \A u \in Users : SignedOut(u) \in SessionRows /\ RowOK(SignedOut(u), now)
  BY <1>1, Numbers DEF SignedOut, SessionRows, RowOK
<1>4. \A s \in DOMAIN session : session[s].user \in Users
  BY <1>2 DEF SessionRows
<1> QED
  BY <1>2, <1>3, <1>4, KeptByChange DEF Revoke

\* create_session() adds a row that is in use now.
LEMMA KeptByStart ==
    ASSUME AccountsInv, NEW r \in Requests, StartSession(r)
    PROVE  SessionsKept
<1> DEFINE e == [user |-> subject[r], on |-> TRUE, seen |-> now,
                 until |-> now + Absolute, used |-> now, signedOut |-> FALSE]
<1>1. /\ now \in Nat /\ now' = now /\ session \in Seq(SessionRows)
      /\ subject[r] \in Users
  BY DEF AccountsInv, AccountsTypeOK, StartSession
<1>2. e \in SessionRows /\ RowOK(e, now)
  BY <1>1, Numbers DEF SessionRows, RowOK
<1>3. session' = Append(session, e)
  BY DEF StartSession
<1> HIDE DEF e
<1>4. /\ session' \in Seq(SessionRows) /\ Len(session) \in Nat
      /\ DOMAIN session = 1 .. Len(session)
      /\ DOMAIN session' = 1 .. Len(session) + 1
      /\ \A i \in DOMAIN session : session'[i] = session[i]
      /\ session'[Len(session) + 1] = e
  BY <1>1, <1>2, <1>3
<1>5. \A s \in DOMAIN session : RowOK(session[s], now)
  BY DEF AccountsInv
<1>6. ASSUME NEW s \in DOMAIN session'
      PROVE  RowOK(session'[s], now)
  <2>1. CASE s \in DOMAIN session
    BY <2>1, <1>4, <1>5
  <2>2. CASE s \notin DOMAIN session
    <3>1. s = Len(session) + 1
      BY <2>2, <1>4
    <3> QED
      BY <3>1, <1>4, <1>2
  <2> QED
    BY <2>1, <2>2
<1> QED
  BY <1>1, <1>4, <1>6 DEF SessionsKept

\* Nobody is signed in and nothing is logged at first.
LEMMA InvInit == Init => AccountsInv
<1> SUFFICES ASSUME Init PROVE AccountsInv
  OBVIOUS
<1>1. session = <<>> /\ failures = <<>>
  BY DEF Init
<1>2. DOMAIN session = {}
  BY <1>1
<1> QED
  BY <1>1, <1>2, EmptySeq DEF Init, AccountsInv, AccountsTypeOK, Nobody

\* A request ends, or goes on with a subject it may have.
LEMMA StepTypes ==
    ASSUME AccountsTypeOK, SessionsKept, NEW r \in Requests,
           NEW at, NEW who, GoTo(r, at, who),
           \/ at = "idle" /\ who = Nobody
           \/ at = "verifying" /\ who \in Names
           \/ at = "accepted" /\ who \in Users
           \/ at = "authed" /\ who \in DOMAIN session,
           now' \in Nat, reset' \in [Users -> Nat],
           failures' \in Seq([by : Names \union {OidcName}, at : Nat])
    PROVE  AccountsInv'
<1>1. DOMAIN session \subseteq Nat
  BY Rows
<1> QED
  BY <1>1 DEF AccountsInv, AccountsTypeOK, SessionsKept, GoTo, Nobody, Names

\* The steps of other requests say nothing about the subject of this one.
LEMMA OtherTypes ==
    ASSUME AccountsTypeOK, SessionsKept, UNCHANGED <<step, subject>>,
           now' \in Nat, reset' \in [Users -> Nat],
           failures' \in Seq([by : Names \union {OidcName}, at : Nat])
    PROVE  AccountsInv'
  BY DEF AccountsInv, AccountsTypeOK, SessionsKept

\* A failure appended to the log leaves a log.
LEMMA LogTypes ==
    ASSUME AccountsTypeOK
    PROVE  /\ now \in Nat /\ Len(failures) \in Nat
           /\ \A n \in Names \union {OidcName} : RecordFailure(n) =>
                failures' \in Seq([by : Names \union {OidcName}, at : Nat])
           /\ \A u \in Users : RecordReset(u) => reset' \in [Users -> Nat]
<1> DEFINE T == [by : Names \union {OidcName}, at : Nat]
<1>1. now \in Nat /\ failures \in Seq(T) /\ reset \in [Users -> Nat]
  BY DEF AccountsTypeOK
<1>2. Len(failures) \in Nat
  BY <1>1, LenProperties
<1>3. ASSUME NEW n \in Names \union {OidcName}, RecordFailure(n)
      PROVE  failures' \in Seq(T)
  <2>1. [by |-> n, at |-> now] \in T
    BY <1>1
  <2> HIDE DEF T
  <2> QED
    BY <1>1, <1>3, <2>1 DEF RecordFailure
<1>4. ASSUME NEW u \in Users, RecordReset(u)
      PROVE  reset' \in [Users -> Nat]
  BY <1>1, <1>2, <1>4 DEF RecordReset
<1> QED
  BY <1>1, <1>2, <1>3, <1>4

\* The types and the rule for each row hold in every reachable state: the
\* strengthening under which DeviceStays is inductive.
THEOREM AccountsInvariant == Spec => []AccountsInv
<1>1. AccountsInv /\ [Next]_vars => AccountsInv'
  <2> SUFFICES ASSUME AccountsInv, [Next]_vars
               PROVE  AccountsInv'
    OBVIOUS
  <2>1. /\ AccountsTypeOK /\ now \in Nat /\ reset \in [Users -> Nat]
        /\ failures \in Seq([by : Names \union {OidcName}, at : Nat])
        /\ \A r \in Requests :
              /\ step[r] = "verifying" => subject[r] \in Names
              /\ step[r] = "accepted" => subject[r] \in Users
    BY DEF AccountsInv, AccountsTypeOK
  <2>2. ASSUME NEW r \in Requests, NEW n \in Names, Submit(r, n)
        PROVE  AccountsInv'
    <3>1. SessionsKept
      BY <2>1, <2>2, KeptBySame DEF Submit
    <3>2. GoTo(r, "verifying", n) /\ UNCHANGED <<now, failures, reset>>
      BY <2>2 DEF Submit
    <3> QED
      BY <2>1, <3>1, <3>2, StepTypes
  <2>3. ASSUME NEW r \in Requests, Reject(r)
        PROVE  AccountsInv'
    <3>1. SessionsKept
      BY <2>1, <2>3, KeptBySame DEF Reject
    <3>2. /\ GoTo(r, "idle", Nobody) /\ UNCHANGED <<now, reset>>
          /\ RecordFailure(subject[r]) /\ subject[r] \in Names
      BY <2>1, <2>3 DEF Reject, Finish
    <3>3. failures' \in Seq([by : Names \union {OidcName}, at : Nat])
      BY <2>1, <3>2, LogTypes
    <3> QED
      BY <2>1, <3>1, <3>2, <3>3, StepTypes
  <2>4. ASSUME NEW r \in Requests, Accept(r)
        PROVE  AccountsInv'
    <3>1. SessionsKept
      BY <2>1, <2>4, KeptBySame DEF Accept
    <3>2. /\ GoTo(r, "accepted", subject[r]) /\ UNCHANGED <<now, failures>>
          /\ RecordReset(subject[r]) /\ subject[r] \in Users
      BY <2>4 DEF Accept
    <3>3. reset' \in [Users -> Nat]
      BY <2>1, <3>2, LogTypes
    <3> QED
      BY <2>1, <3>1, <3>2, <3>3, StepTypes
  <2>5. ASSUME NEW r \in Requests, NEW u \in Users, AcceptIdentity(r, u)
        PROVE  AccountsInv'
    <3>1. SessionsKept
      BY <2>1, <2>5, KeptBySame DEF AcceptIdentity
    <3>2. /\ GoTo(r, "accepted", u) /\ UNCHANGED <<now, failures>>
          /\ RecordReset(u)
      BY <2>5 DEF AcceptIdentity
    <3>3. reset' \in [Users -> Nat]
      BY <2>1, <3>2, LogTypes
    <3> QED
      BY <2>1, <3>1, <3>2, <3>3, StepTypes
  <2>6. ASSUME NEW r \in Requests, StartSession(r)
        PROVE  AccountsInv'
    BY <2>1, <2>6, KeptByStart, StepTypes DEF StartSession, Finish
  <2>7. ASSUME NEW r \in Requests, NEW s \in DOMAIN session, Authenticate(r, s)
        PROVE  AccountsInv'
    <3>1. SessionsKept
      BY <2>7, KeptByLookUp DEF Authenticate
    <3>2. CASE UNCHANGED <<step, subject>>
      BY <2>1, <2>7, <3>1, <3>2, OtherTypes DEF Authenticate
    <3>3. CASE GoTo(r, "authed", s)
      BY <2>1, <2>7, <3>1, <3>3, StepTypes DEF Authenticate
    <3> QED
      BY <2>7, <3>2, <3>3 DEF Authenticate
  <2>8. ASSUME NEW r \in Requests,
               \/ Logout(r) \/ RevokeOthers(r)
               \/ \E s \in DOMAIN session : RevokeOne(r, s)
        PROVE  AccountsInv'
    <3>1. /\ \E those : Revoke(those)
          /\ UNCHANGED <<now, failures, reset>> /\ Finish(r)
      BY <2>8 DEF Logout, RevokeOthers, RevokeOne
    <3> QED
      BY <2>1, <3>1, KeptByRevoke, StepTypes DEF Finish
  <2>9. ASSUME NEW r \in Requests, Serve(r) \/ BreakOff(r)
        PROVE  AccountsInv'
    <3>1. /\ GoTo(r, "idle", Nobody)
          /\ UNCHANGED <<now, failures, reset, session>>
      BY <2>9 DEF Serve, BreakOff, Finish
    <3>2. SessionsKept
      BY <2>1, <3>1, KeptBySame
    <3> QED
      BY <2>1, <3>1, <3>2, StepTypes
  <2>10. ASSUME NEW u \in Users, Unlock(u) \/ SetPassword(u)
         PROVE  AccountsInv'
    <3>1. CASE Unlock(u)
      BY <2>1, <3>1, KeptBySame, OtherTypes, LogTypes DEF Unlock
    <3>2. CASE SetPassword(u)
      BY <2>1, <3>2, KeptByRevoke, OtherTypes DEF SetPassword
    <3> QED
      BY <2>10, <3>1, <3>2
  <2>11. CASE DenyIdentity
    <3>1. SessionsKept
      BY <2>1, <2>11, KeptBySame DEF DenyIdentity
    <3>2. failures' \in Seq([by : Names \union {OidcName}, at : Nat])
      BY <2>1, <2>11, LogTypes DEF DenyIdentity
    <3> QED
      BY <2>1, <2>11, <3>1, <3>2, OtherTypes DEF DenyIdentity
  <2>12. CASE Pass \/ UNCHANGED vars
    <3>1. /\ UNCHANGED <<failures, reset, session, step, subject>>
          /\ now' \in Nat /\ now <= now'
      BY <2>1, <2>12 DEF Pass, vars
    <3> QED
      BY <2>1, <3>1, KeptBySame, OtherTypes
  <2> QED
    BY <2>2, <2>3, <2>4, <2>5, <2>6, <2>7, <2>8, <2>9, <2>10, <2>11, <2>12
       DEF Next
<1> QED
  BY InvInit, <1>1, PTL DEF Spec

\* The types of the sessions, the log and the requests.
THEOREM AccountsTypes == Spec => []AccountsTypeOK
  BY AccountsInvariant, PTL DEF AccountsInv

\* A device in use stays signed in until it is signed out or its session has
\* come to its absolute end, for every choice of limits with the touch
\* interval below the idle one.
THEOREM DevicesStay == Spec => []DeviceStays
<1>1. AccountsInv => DeviceStays
  BY DEF AccountsInv, RowOK, DeviceStays
<1> QED
  BY <1>1, AccountsInvariant, PTL

-----------------------------------------------------------------------------
(***************************************************************************)
(* The throttle.  Neither property is inductive: a login may have passed   *)
(* the check some failures ago.  What strengthens them counts the logins   *)
(* that still verify their password, which are as many failures to come.   *)
(***************************************************************************)

Verifying(n) == {r \in Requests : step[r] = "verifying" /\ subject[r] = n}

\* While the delay a failure earned is not over, the failures since and the
\* logins that verify are together fewer than the requests; and those that
\* many later have waited.
Spaced(n) ==
    /\ \A i \in Since(n) :
        /\ Rank(n, i) >= FreeFailures
        /\ now < failures[i].at + Delay(Rank(n, i))
        => Cardinality(Since(n)) + Cardinality(Verifying(n))
             < Rank(n, i) + Cardinality(Requests)
    /\ \A i, j \in Since(n) :
        /\ Rank(n, i) >= FreeFailures
        /\ Rank(n, j) >= Rank(n, i) + Cardinality(Requests)
        => failures[j].at >= failures[i].at + Delay(Rank(n, i))

\* The delays up to the n-th, as the recursive definition asks for them.
Doubles(g, n) ==
    g = [k \in 0 .. n |-> IF k = 0 THEN BaseDelay ELSE 2 * g[k - 1]]

\* There are such delays for every n.
LEMMA DoublesExist == \A n \in Nat : \E g : Doubles(g, n)
  <1> DEFINE F == {n \in Nat : \E g : Doubles(g, n)}
  <1>1. 0 \in F
    <2> DEFINE g == [k \in 0 .. 0 |-> BaseDelay]
    <2>1. g = [k \in 0 .. 0 |-> IF k = 0 THEN BaseDelay ELSE 2 * g[k - 1]]
      OBVIOUS
    <2>2. Doubles(g, 0)
      BY <2>1 DEF Doubles
    <2> HIDE DEF g
    <2> QED
      BY <2>2
  <1>2. ASSUME NEW n \in Nat, n \in F
        PROVE  n + 1 \in F
    <2>1. PICK g : Doubles(g, n)
      BY <1>2
    <2> DEFINE h == [k \in 0 .. n + 1 |-> IF k = 0 THEN BaseDelay ELSE 2 * g[k - 1]]
    <2>2. \A k \in 0 .. n : h[k] = g[k]
      BY <2>1 DEF Doubles
    <2>3. \A k \in 0 .. n + 1 : k # 0 => k - 1 \in 0 .. n
      OBVIOUS
    <2>4. h = [k \in 0 .. n + 1 |-> IF k = 0 THEN BaseDelay ELSE 2 * h[k - 1]]
      BY <2>2, <2>3
    <2>5. Doubles(h, n + 1)
      BY <2>4 DEF Doubles
    <2> HIDE DEF h
    <2> QED
      BY <2>5
  <1>3. Nat \subseteq F
    <2> HIDE DEF F
    <2> QED
      BY <1>1, <1>2, NextOne
  <1> QED
    BY <1>3

\* They are the same wherever both are given.
LEMMA DoublesAgree ==
    ASSUME NEW n \in Nat, NEW g, NEW h, Doubles(g, n), Doubles(h, n + 1)
    PROVE  g[n] = h[n]
  <1> DEFINE F == {k \in Nat : k <= n => g[k] = h[k]}
  <1>1. 0 \in F
    BY DEF Doubles
  <1>2. ASSUME NEW k \in Nat, k \in F
        PROVE  k + 1 \in F
    <2> SUFFICES ASSUME k + 1 <= n
                 PROVE  g[k + 1] = h[k + 1]
      OBVIOUS
    <2>1. /\ k + 1 \in 0 .. n /\ k + 1 \in 0 .. n + 1 /\ k + 1 # 0 /\ (k + 1) - 1 = k
      OBVIOUS
    <2>2. g[k + 1] = 2 * g[k]
      BY <2>1 DEF Doubles
    <2>3. h[k + 1] = 2 * h[k]
      BY <2>1 DEF Doubles
    <2> QED
      BY <1>2, <2>2, <2>3
  <1>3. Nat \subseteq F
    <2> HIDE DEF F
    <2> QED
      BY <1>1, <1>2, NextOne
  <1> QED
    BY <1>3

\* So the recursion defines a function.
LEMMA DoubledUnfolds ==
    \A k \in Nat : Doubled[k] = IF k = 0 THEN BaseDelay ELSE 2 * Doubled[k - 1]
  <1> DEFINE d(n) == CHOOSE g : Doubles(g, n)
             f == [n \in Nat |-> d(n)[n]]
  <1>1. \A n \in Nat : Doubles(d(n), n)
    BY DoublesExist
  <1>2. ASSUME NEW n \in Nat
        PROVE  f[n] = IF n = 0 THEN BaseDelay ELSE 2 * f[n - 1]
    <2>1. CASE n = 0
      <3>1. d(0)[0] = BaseDelay
        <4> HIDE DEF d
        <4> QED
          BY <1>1 DEF Doubles
      <3> HIDE DEF d
      <3> QED
        BY <2>1, <3>1
    <2>2. CASE n # 0
      <3>1. n - 1 \in Nat /\ (n - 1) + 1 = n /\ n \in 0 .. n
        BY <2>2
      <3> HIDE DEF d
      <3>2. d(n)[n] = 2 * d(n)[n - 1]
        BY <1>1, <2>2, <3>1 DEF Doubles
      <3>3. Doubles(d(n - 1), n - 1) /\ Doubles(d(n), (n - 1) + 1)
        BY <1>1, <3>1
      <3>4. d(n - 1)[n - 1] = d(n)[n - 1]
        BY <3>1, <3>3, DoublesAgree
      <3>5. f[n] = d(n)[n] /\ f[n - 1] = d(n - 1)[n - 1]
        BY <3>1
      <3> QED
        BY <2>2, <3>2, <3>4, <3>5
    <2> QED
      BY <2>1, <2>2
  <1>3. f = [n \in Nat |-> IF n = 0 THEN BaseDelay ELSE 2 * f[n - 1]]
    <2>1. f = [n \in Nat |-> f[n]]
      OBVIOUS
    <2> HIDE DEF f
    <2> QED
      BY <1>2, <2>1
  <1>4. Doubled = [n \in Nat |-> IF n = 0 THEN BaseDelay ELSE 2 * Doubled[n - 1]]
    <2> HIDE DEF f
    <2> QED
      BY <1>3 DEF Doubled
  <1> QED
    BY <1>4

\* A natural number that never gets smaller.
LEMMA DoubledGrows ==
    ASSUME NEW a \in Nat, NEW b \in Nat, a <= b
    PROVE  Doubled[a] \in Nat /\ Doubled[b] \in Nat /\ Doubled[a] <= Doubled[b]
  <1> DEFINE F == {k \in Nat : /\ Doubled[k] \in Nat
                               /\ a <= k => Doubled[a] \in Nat /\ Doubled[a] <= Doubled[k]}
  <1>1. 0 \in F
    BY AccountsAssumption, DoubledUnfolds
  <1>2. ASSUME NEW k \in Nat, k \in F
        PROVE  k + 1 \in F
    <2>1. k + 1 # 0 /\ (k + 1) - 1 = k
      OBVIOUS
    <2>2. Doubled[k + 1] = 2 * Doubled[k]
      BY <2>1, DoubledUnfolds
    <2>3. Doubled[k] \in Nat
      BY <1>2
    <2>4. CASE a <= k
      BY <1>2, <2>2, <2>3, <2>4
    <2>5. CASE ~(a <= k)
      <3>1. a <= k + 1 => a = k + 1
        BY <2>5
      <3> QED
        BY <2>2, <2>3, <3>1
    <2> QED
      BY <2>4, <2>5
  <1>3. Nat \subseteq F
    <2> HIDE DEF F
    <2> QED
      BY <1>1, <1>2, NextOne
  <1> QED
    BY <1>3

\* min(base * 2 ** k, max) grows with k.
LEMMA DelayGrows ==
    ASSUME NEW a \in Nat, NEW b \in Nat, FreeFailures <= a, a <= b
    PROVE  Delay(a) \in Nat /\ Delay(b) \in Nat /\ Delay(a) <= Delay(b)
  <1>1. /\ a - FreeFailures \in Nat /\ b - FreeFailures \in Nat
        /\ a - FreeFailures <= b - FreeFailures /\ MaxDelay \in Nat
    BY AccountsAssumption
  <1>2. /\ Doubled[a - FreeFailures] \in Nat /\ Doubled[b - FreeFailures] \in Nat
        /\ Doubled[a - FreeFailures] <= Doubled[b - FreeFailures]
    BY <1>1, DoubledGrows
  <1> QED
    BY <1>1, <1>2 DEF Delay, Capped

\* Failures and requests can be counted, and a failure is at most as far as
\* there are.
LEMMA Counted ==
    ASSUME AccountsTypeOK, NEW n
    PROVE  /\ IsFiniteSet(Since(n)) /\ Cardinality(Since(n)) \in Nat
           /\ Since(n) \subseteq 1 .. Len(failures)
           /\ IsFiniteSet(Verifying(n)) /\ Cardinality(Verifying(n)) \in Nat
           /\ Cardinality(Requests) \in Nat
           /\ \A i : /\ IsFiniteSet({j \in Since(n) : j <= i})
                     /\ Rank(n, i) \in Nat /\ Rank(n, i) <= Cardinality(Since(n))
<1>1. Len(failures) \in Nat /\ DOMAIN failures = 1 .. Len(failures)
  BY LenProperties DEF AccountsTypeOK
<1>2. IsFiniteSet(1 .. Len(failures)) /\ Since(n) \subseteq 1 .. Len(failures)
  BY <1>1, FS_Interval DEF Since
<1>3. IsFiniteSet(Since(n)) /\ Cardinality(Since(n)) \in Nat
  BY <1>2, FS_Subset, FS_CardinalityType
<1>4. IsFiniteSet(Verifying(n)) /\ Cardinality(Verifying(n)) \in Nat
  <2>1. Verifying(n) \in SUBSET Requests /\ IsFiniteSet(Requests)
    BY AccountsAssumption DEF Verifying, AccountsAssumption
  <2> QED
    BY <2>1, FS_Subset, FS_CardinalityType
<1>5. ASSUME NEW i
      PROVE  /\ IsFiniteSet({j \in Since(n) : j <= i})
             /\ Rank(n, i) \in Nat /\ Rank(n, i) <= Cardinality(Since(n))
  <2>1. {j \in Since(n) : j <= i} \in SUBSET Since(n)
    OBVIOUS
  <2> QED
    BY <1>3, <2>1, FS_Subset, FS_CardinalityType DEF Rank
<1>6. Cardinality(Requests) \in Nat
  BY AccountsAssumption, FS_CardinalityType DEF AccountsAssumption
<1> QED
  BY <1>2, <1>3, <1>4, <1>5, <1>6

\* The log is one of failures, each with its time.
LEMMA Logged ==
    ASSUME AccountsTypeOK, NEW n, NEW i \in Since(n)
    PROVE  failures[i].at \in Nat
<1>1. failures \in Seq([by : Names \union {OidcName}, at : Nat]) /\ i \in DOMAIN failures
  BY DEF AccountsTypeOK, Since
<1>2. failures[i] \in [by : Names \union {OidcName}, at : Nat]
  BY <1>1, ElementOfSeq, LenProperties
<1> QED
  BY <1>2

\* Time passes, logins end, the count starts again: the throttle's promise
\* for a name is only easier to keep.
LEMMA QuietSpaces ==
    ASSUME AccountsTypeOK, NEW n, Spaced(n),
           Since(n)' = Since(n) \/ Since(n)' = {},
           \A i \in Since(n) : failures'[i] = failures[i] /\ failures[i].at \in Nat,
           now \in Nat, now' \in Nat, now <= now',
           Verifying(n)' \subseteq Verifying(n)
    PROVE  Spaced(n)'
<1>1. CASE Since(n)' = {}
  BY <1>1 DEF Spaced
<1>2. CASE Since(n)' = Since(n)
  <2>1. \A i : Rank(n, i)' = Rank(n, i)
    BY <1>2 DEF Rank
  <2>2. /\ Cardinality(Verifying(n)') \in Nat
        /\ Cardinality(Verifying(n)') <= Cardinality(Verifying(n))
        /\ Cardinality(Verifying(n)) \in Nat
    BY Counted, FS_Subset, FS_CardinalityType
  <2>3. \A i : Rank(n, i) \in Nat
    BY Counted
  <2>4. \A i : Rank(n, i) >= FreeFailures => Delay(Rank(n, i)) \in Nat
    BY <2>3, AccountsAssumption, DelayGrows
  <2>5. Cardinality(Since(n)) \in Nat /\ Cardinality(Requests) \in Nat
    BY Counted
  <2>6. ASSUME NEW i \in Since(n), Rank(n, i) >= FreeFailures,
               now' < failures[i].at + Delay(Rank(n, i))
        PROVE  Cardinality(Since(n)) + Cardinality(Verifying(n)')
                 < Rank(n, i) + Cardinality(Requests)
    <3>1. now < failures[i].at + Delay(Rank(n, i))
      BY <2>4, <2>6
    <3>2. Cardinality(Since(n)) + Cardinality(Verifying(n))
            < Rank(n, i) + Cardinality(Requests)
      BY <2>6, <3>1 DEF Spaced
    <3> QED
      BY <2>2, <2>3, <2>5, <3>2
  <2> QED
    BY <1>2, <2>1, <2>6 DEF Spaced
<1> QED
  BY <1>1, <1>2

\* A login passes the check: no delay of its name is still running.
LEMMA SubmitSpaces ==
    ASSUME AccountsTypeOK, NEW n, Spaced(n), ~LockedOut(n),
           UNCHANGED <<now, failures, reset>>
    PROVE  Spaced(n)'
<1>1. Since(n)' = Since(n) /\ (\A i : Rank(n, i)' = Rank(n, i))
  BY DEF Since, Rank
<1>2. ASSUME NEW i \in Since(n), Rank(n, i) >= FreeFailures
      PROVE  ~(now < failures[i].at + Delay(Rank(n, i)))
  <2> DEFINE k == Rank(n, i)
             c == Cardinality(Since(n))
  <2>1. k \in Nat /\ c \in Nat /\ k <= c
    BY Counted
  <2>2. k >= FreeFailures /\ FreeFailures \in Nat
    BY <1>2, AccountsAssumption DEF AccountsAssumption
  <2>3. ~(now < failures[i].at + Delay(c))
    BY <2>1, <2>2 DEF LockedOut
  <2>4. Delay(k) \in Nat /\ Delay(c) \in Nat /\ Delay(k) <= Delay(c)
    BY <2>1, <2>2, DelayGrows
  <2>5. now \in Nat /\ failures[i].at \in Nat
    BY Logged DEF AccountsTypeOK
  <2> HIDE DEF k, c
  <2>6. ~(now < failures[i].at + Delay(k))
    BY <2>3, <2>4, <2>5
  <2> QED
    BY <2>6 DEF k
<1> QED
  BY <1>1, <1>2 DEF Spaced

\* What one more failure does to the count of its name.
LEMMA OneMore ==
    ASSUME AccountsTypeOK, NEW n \in Names, n \in Users => reset[n] <= Len(failures),
           failures' = Append(failures, [by |-> n, at |-> now]), UNCHANGED reset,
           NEW k, k = Len(failures) + 1
    PROVE  /\ Since(n)' = Since(n) \union {k} /\ k \notin Since(n)
           /\ Cardinality(Since(n)') = Cardinality(Since(n)) + 1
           /\ \A i \in Since(n) : Rank(n, i)' = Rank(n, i) /\ failures'[i] = failures[i]
           /\ Rank(n, k)' = Cardinality(Since(n)) + 1
           /\ failures'[k].at = now
<1>1. /\ failures \in Seq([by : Names \union {OidcName}, at : Nat])
      /\ [by |-> n, at |-> now] \in [by : Names \union {OidcName}, at : Nat]
      /\ Len(failures) \in Nat /\ DOMAIN failures = 1 .. Len(failures)
      /\ n \in Users => reset[n] \in Nat
  BY LenProperties DEF AccountsTypeOK
<1>2. /\ DOMAIN failures' = 1 .. k /\ failures'[k] = [by |-> n, at |-> now]
      /\ \A i \in 1 .. Len(failures) : failures'[i] = failures[i]
  BY <1>1, AppendProperties
<1>3. Since(n) \subseteq 1 .. Len(failures) /\ IsFiniteSet(Since(n))
  BY Counted
<1>4. Since(n)' = Since(n) \union {k} /\ k \notin Since(n)
  <2>1. 1 .. k = (1 .. Len(failures)) \union {k}
    BY <1>1
  <2>2. n \in Users => k > reset[n]
    BY <1>1
  <2> QED
    BY <1>1, <1>2, <1>3, <2>1, <2>2 DEF Since
<1>5. Cardinality(Since(n)') = Cardinality(Since(n)) + 1
  BY <1>3, <1>4, FS_AddElement
<1>6. ASSUME NEW i \in Since(n)
      PROVE  Rank(n, i)' = Rank(n, i) /\ failures'[i] = failures[i]
  <2>1. i \in 1 .. Len(failures) /\ ~(k <= i)
    BY <1>1, <1>3
  <2>2. {j \in Since(n)' : j <= i} = {j \in Since(n) : j <= i}
    BY <1>4, <2>1
  <2> QED
    BY <1>2, <2>1, <2>2 DEF Rank
<1>7. Rank(n, k)' = Cardinality(Since(n)) + 1
  <2>1. {j \in Since(n)' : j <= k} = Since(n)'
    BY <1>1, <1>3, <1>4
  <2> QED
    BY <1>5, <2>1 DEF Rank
<1>8. failures'[k].at = now
  BY <1>2
<1> QED
  BY <1>4, <1>5, <1>6, <1>7, <1>8

\* A login fails: it verifies no more, and there is one failure more.
LEMMA RejectSpaces ==
    ASSUME AccountsTypeOK, NEW r \in Requests, NEW n \in Names,
           n \in Users => reset[n] <= Len(failures), Spaced(n),
           failures' = Append(failures, [by |-> n, at |-> now]),
           UNCHANGED <<now, reset>>, r \in Verifying(n),
           Verifying(n)' = Verifying(n) \ {r}
    PROVE  Spaced(n)'
<1> PICK k : k = Len(failures) + 1
  OBVIOUS
<1> DEFINE c == Cardinality(Since(n))
           v == Cardinality(Verifying(n))
           R == Cardinality(Requests)
<1>1. /\ Since(n)' = Since(n) \union {k}
      /\ Cardinality(Since(n)') = c + 1
      /\ \A i \in Since(n) : Rank(n, i)' = Rank(n, i) /\ failures'[i] = failures[i]
      /\ Rank(n, k)' = c + 1
      /\ failures'[k].at = now
  BY OneMore
<1>2. /\ c \in Nat /\ v \in Nat /\ R \in Nat
      /\ \A i : Rank(n, i) \in Nat /\ Rank(n, i) <= c
  BY Counted
<1>3. Cardinality(Verifying(n)') = v - 1 /\ v >= 1 /\ v <= R
  <2>1. IsFiniteSet(Verifying(n)) /\ IsFiniteSet(Requests)
    BY Counted, AccountsAssumption DEF AccountsAssumption
  <2>2. Verifying(n) \in SUBSET Requests
    BY DEF Verifying
  <2>3. Cardinality(Verifying(n)') = v - 1 /\ v <= R
    BY <2>1, <2>2, FS_RemoveElement, FS_Subset
  <2>4. v # 0
    BY <2>1, FS_EmptySet
  <2> QED
    BY <1>2, <2>3, <2>4
<1>4. \A i \in Since(n) : Rank(n, i) >= FreeFailures =>
        Delay(Rank(n, i)) \in Nat /\ failures[i].at \in Nat
  BY <1>2, Logged, AccountsAssumption, DelayGrows
<1>5. now \in Nat
  BY DEF AccountsTypeOK
<1>6. \A i \in Since(n) :
        /\ Rank(n, i) >= FreeFailures
        /\ now < failures[i].at + Delay(Rank(n, i))
        => c + v < Rank(n, i) + R
  BY DEF Spaced
<1>7. \A i, j \in Since(n) :
        /\ Rank(n, i) >= FreeFailures
        /\ Rank(n, j) >= Rank(n, i) + R
        => failures[j].at >= failures[i].at + Delay(Rank(n, i))
  BY DEF Spaced
<1> HIDE DEF c, v, R
<1>8. ASSUME NEW i \in Since(n)', Rank(n, i)' >= FreeFailures,
             now < failures'[i].at + Delay(Rank(n, i)')
      PROVE  (c + 1) + (v - 1) < Rank(n, i)' + R
  <2>1. CASE i = k
    BY <1>1, <1>2, <1>3, <2>1
  <2>2. CASE i \in Since(n)
    <3>1. Rank(n, i)' = Rank(n, i) /\ failures'[i] = failures[i]
      BY <1>1, <2>2
    <3>2. /\ Rank(n, i) >= FreeFailures
          /\ now < failures[i].at + Delay(Rank(n, i))
      BY <1>8, <3>1
    <3>3. c + v < Rank(n, i) + R
      BY <1>6, <2>2, <3>2
    <3> QED
      BY <1>2, <1>3, <3>1, <3>3
  <2> QED
    BY <1>1, <2>1, <2>2
<1>9. ASSUME NEW i \in Since(n)', NEW j \in Since(n)', Rank(n, i)' >= FreeFailures,
             Rank(n, j)' >= Rank(n, i)' + R
      PROVE  failures'[j].at >= failures'[i].at + Delay(Rank(n, i)')
  <2>1. CASE i \in Since(n) /\ j \in Since(n)
    BY <1>1, <1>7, <1>9, <2>1
  <2>2. CASE i \in Since(n) /\ j = k
    <3>1. /\ Rank(n, i)' = Rank(n, i) /\ failures'[i] = failures[i]
          /\ Rank(n, j)' = c + 1 /\ failures'[j].at = now
      BY <1>1, <2>2
    <3>2. Rank(n, i) >= FreeFailures /\ c + 1 >= Rank(n, i) + R
      BY <1>9, <3>1
    <3>3. ~(c + v < Rank(n, i) + R)
      BY <1>2, <1>3, <3>2
    <3>4. ~(now < failures[i].at + Delay(Rank(n, i)))
      BY <1>6, <2>2, <3>2, <3>3
    <3>5. now >= failures[i].at + Delay(Rank(n, i))
      BY <1>4, <1>5, <2>2, <3>2, <3>4
    <3> QED
      BY <3>1, <3>5
  <2>3. CASE i = k
    BY <1>1, <1>2, <1>3, <1>9, <2>3
  <2> QED
    BY <1>1, <2>1, <2>2, <2>3
<1>10. now' = now
  OBVIOUS
<1> QED
  BY <1>1, <1>3, <1>8, <1>9, <1>10 DEF Spaced, c, v, R

\* A failure of one name is not counted for another.
LEMMA OthersCount ==
    ASSUME AccountsTypeOK, NEW n, NEW m, m # n,
           failures' = Append(failures, [by |-> m, at |-> now]), UNCHANGED reset
    PROVE  /\ Since(n)' = Since(n)
           /\ \A i \in Since(n) : failures'[i] = failures[i]
<1> PICK k : k = Len(failures) + 1
  OBVIOUS
<1>1. Len(failures) \in Nat /\ DOMAIN failures = 1 .. Len(failures)
  BY LenProperties DEF AccountsTypeOK
<1>2. /\ DOMAIN failures' = 1 .. k /\ failures'[k] = [by |-> m, at |-> now]
      /\ \A i \in 1 .. Len(failures) : failures'[i] = failures[i]
  BY <1>1, AppendProperties DEF AccountsTypeOK
<1>3. 1 .. k = (1 .. Len(failures)) \union {k} /\ k \notin 1 .. Len(failures)
  BY <1>1
<1> QED
  BY <1>1, <1>2, <1>3 DEF Since

\* A request that goes on to anything but a password verifies none.
LEMMA NoNewLogin ==
    ASSUME AccountsTypeOK, NEW r \in Requests, NEW at, NEW who,
           GoTo(r, at, who), at # "verifying", NEW n
    PROVE  Verifying(n)' \subseteq Verifying(n)
BY DEF GoTo, Verifying, AccountsTypeOK

\* The invariant of the throttle.
SpacesInv ==
    /\ \A u \in Users : reset[u] <= Len(failures)
    /\ \A n \in Names : Spaced(n)

\* The steps that log no failure and let no login verify.
LEMMA RestSpaces ==
    ASSUME AccountsTypeOK, SpacesInv, UNCHANGED failures,
           now' \in Nat, now <= now',
           UNCHANGED reset \/ \E u \in Users : RecordReset(u),
           \A n \in Names : Verifying(n)' \subseteq Verifying(n)
    PROVE  SpacesInv'
<1>1. Len(failures) \in Nat /\ reset \in [Users -> Nat] /\ now \in Nat
  BY LenProperties DEF AccountsTypeOK
<1>2. ASSUME NEW n \in Names
      PROVE  Since(n)' = Since(n) \/ Since(n)' = {}
  <2>1. CASE UNCHANGED reset
    BY <2>1 DEF Since
  <2>2. ASSUME NEW u \in Users, RecordReset(u), n = u
        PROVE  Since(n)' = {}
    <3>1. reset'[n] = Len(failures) /\ n \in Users
      BY <1>1, <2>2 DEF RecordReset
    <3>2. \A i \in DOMAIN failures : ~(i > Len(failures))
      BY <1>1, LenProperties DEF AccountsTypeOK
    <3> QED
      BY <3>1, <3>2 DEF Since
  <2>3. ASSUME NEW u \in Users, RecordReset(u), n # u
        PROVE  Since(n)' = Since(n)
    BY <1>1, <2>3 DEF Since, RecordReset
  <2> QED
    BY <2>1, <2>2, <2>3
<1>3. ASSUME NEW n \in Names
      PROVE  Spaced(n)'
  BY <1>1, <1>2, <1>3, Logged, QuietSpaces DEF SpacesInv
<1>4. \A u \in Users : reset'[u] <= Len(failures')
  BY <1>1 DEF SpacesInv, RecordReset
<1> QED
  BY <1>3, <1>4 DEF SpacesInv

\* The throttle's invariant survives every step.
LEMMA NextSpaces ==
    ASSUME AccountsTypeOK, SpacesInv, [Next]_vars
    PROVE  SpacesInv'
<1>1. /\ Len(failures) \in Nat /\ now \in Nat /\ reset \in [Users -> Nat]
      /\ step \in [Requests -> {"idle", "verifying", "accepted", "authed"}]
      /\ subject \in [Requests -> Names \union Nat]
      /\ \A r \in Requests : step[r] = "verifying" => subject[r] \in Names
  BY LenProperties DEF AccountsTypeOK
<1>2. ASSUME NEW r \in Requests, NEW n \in Names, Submit(r, n)
      PROVE  SpacesInv'
  <2>1. /\ ~LockedOut(n) /\ step[r] = "idle"
        /\ GoTo(r, "verifying", n) /\ UNCHANGED <<now, failures, reset>>
    BY <1>2 DEF Submit
  <2>2. ASSUME NEW m \in Names
        PROVE  Spaced(m)'
    <3>1. CASE m = n
      BY <2>1, <3>1, SubmitSpaces DEF SpacesInv
    <3>2. CASE m # n
      <4>1. Verifying(m)' \subseteq Verifying(m)
        BY <1>1, <2>1, <3>2 DEF GoTo, Verifying
      <4>2. Since(m)' = Since(m)
        BY <2>1 DEF Since
      <4> QED
        BY <1>1, <2>1, <4>1, <4>2, Logged, QuietSpaces DEF SpacesInv
    <3> QED
      BY <3>1, <3>2
  <2> QED
    BY <2>1, <2>2 DEF SpacesInv
<1>3. ASSUME NEW r \in Requests, Reject(r)
      PROVE  SpacesInv'
  <2> DEFINE n == subject[r]
  <2>1. /\ step[r] = "verifying" /\ n \in Names
        /\ failures' = Append(failures, [by |-> n, at |-> now])
        /\ GoTo(r, "idle", Nobody) /\ UNCHANGED <<now, reset>>
    BY <1>1, <1>3 DEF Reject, RecordFailure, Finish
  <2>2. ASSUME NEW m \in Names
        PROVE  Spaced(m)'
    <3>1. CASE m = n
      <4>1. r \in Verifying(m) /\ Verifying(m)' = Verifying(m) \ {r}
        BY <1>1, <2>1, <3>1 DEF GoTo, Verifying
      <4>2. m \in Users => reset[m] <= Len(failures)
        BY DEF SpacesInv
      <4> QED
        BY <2>1, <3>1, <4>1, <4>2, RejectSpaces DEF SpacesInv
    <3>2. CASE m # n
      <4>1. Verifying(m)' \subseteq Verifying(m)
        BY <2>1, NoNewLogin
      <4>2. /\ Since(m)' = Since(m)
            /\ \A i \in Since(m) : failures'[i] = failures[i]
        BY <2>1, <3>2, OthersCount
      <4>3. /\ Spaced(m) /\ now' \in Nat /\ now <= now'
            /\ \A i \in Since(m) : failures[i].at \in Nat
        BY <1>1, <2>1, Logged DEF SpacesInv
      <4> QED
        BY <1>1, <4>1, <4>2, <4>3, QuietSpaces
    <3> QED
      BY <3>1, <3>2
  <2>3. Len(failures') = Len(failures) + 1
    BY <2>1, AppendProperties DEF AccountsTypeOK
  <2> QED
    BY <1>1, <2>1, <2>2, <2>3 DEF SpacesInv
<1>4. CASE DenyIdentity
  <2>1. /\ failures' = Append(failures, [by |-> OidcName, at |-> now])
        /\ UNCHANGED <<now, reset, step, subject>>
    BY <1>4 DEF DenyIdentity, RecordFailure
  <2>2. ASSUME NEW m \in Names
        PROVE  Spaced(m)'
    <3>1. OidcName # m
      BY AccountsAssumption DEF AccountsAssumption, Names
    <3>2. Verifying(m)' = Verifying(m)
      BY <2>1 DEF Verifying
    <3>3. /\ Since(m)' = Since(m)
          /\ \A i \in Since(m) : failures'[i] = failures[i]
      BY <2>1, <3>1, OthersCount
    <3>4. /\ Spaced(m) /\ now' \in Nat /\ now <= now'
          /\ \A i \in Since(m) : failures[i].at \in Nat
      BY <1>1, <2>1, Logged DEF SpacesInv
    <3> QED
      BY <1>1, <3>2, <3>3, <3>4, QuietSpaces
  <2>3. Len(failures') = Len(failures) + 1
    BY <2>1, AppendProperties DEF AccountsTypeOK
  <2> QED
    BY <1>1, <2>1, <2>2, <2>3 DEF SpacesInv
<1>5. ASSUME NEW r \in Requests,
             \/ Accept(r) \/ StartSession(r) \/ Serve(r) \/ Logout(r) \/ RevokeOthers(r)
             \/ BreakOff(r)
             \/ \E u \in Users : AcceptIdentity(r, u)
             \/ \E s \in DOMAIN session : Authenticate(r, s) \/ RevokeOne(r, s)
      PROVE  SpacesInv'
  <2>1. UNCHANGED reset \/ \E u \in Users : RecordReset(u)
    BY <1>5 DEF Accept, StartSession, Serve, Logout, RevokeOthers, BreakOff, AcceptIdentity,
                Authenticate, RevokeOne
  <2>2. UNCHANGED <<failures, now>>
    BY <1>5 DEF Accept, StartSession, Serve, Logout, RevokeOthers, BreakOff, AcceptIdentity,
                Authenticate, RevokeOne
  <2>3. \/ UNCHANGED <<step, subject>>
        \/ \E at, who : at # "verifying" /\ GoTo(r, at, who)
    BY <1>5 DEF Accept, StartSession, Serve, Logout, RevokeOthers, BreakOff, AcceptIdentity,
                Authenticate, RevokeOne, Finish
  <2>4. \A n \in Names : Verifying(n)' \subseteq Verifying(n)
    BY <2>3, NoNewLogin DEF Verifying
  <2> QED
    BY <1>1, <2>1, <2>2, <2>4, RestSpaces
<1>6. CASE \/ \E u \in Users : Unlock(u) \/ SetPassword(u)
           \/ Pass
           \/ UNCHANGED vars
  <2>1. /\ UNCHANGED <<failures, step, subject>>
        /\ now' \in Nat /\ now <= now'
        /\ UNCHANGED reset \/ \E u \in Users : RecordReset(u)
    BY <1>1, <1>6 DEF Unlock, SetPassword, Pass, vars
  <2>2. \A n \in Names : Verifying(n)' \subseteq Verifying(n)
    BY <2>1 DEF Verifying
  <2> QED
    BY <2>1, <2>2, RestSpaces
<1> QED
  BY <1>2, <1>3, <1>4, <1>5, <1>6 DEF Next

\* However many logins verify their passwords at once, a name's failures are
\* as far apart as the throttle wants them, but for as many as there are
\* requests.
THEOREM FailuresAreSpaced == Spec => []ThrottleSpaces
<1>1. Init => SpacesInv
  <2> SUFFICES ASSUME Init
               PROVE  SpacesInv
    OBVIOUS
  <2>1. failures = <<>> /\ DOMAIN failures = {} /\ Len(failures) = 0
    BY DEF Init
  <2>2. \A n : Since(n) = {}
    BY <2>1 DEF Since
  <2>3. \A u \in Users : reset[u] = 0
    BY DEF Init
  <2> QED
    BY <2>1, <2>2, <2>3 DEF SpacesInv, Spaced
<1>2. SpacesInv => ThrottleSpaces
  BY DEF SpacesInv, Spaced, ThrottleSpaces
<1>3. AccountsTypeOK /\ SpacesInv /\ [Next]_vars => SpacesInv'
  BY NextSpaces
<1> QED
  BY <1>1, <1>2, <1>3, AccountsTypes, PTL DEF Spec

-----------------------------------------------------------------------------
(* The global window: failed passwords in it, and passwords being verified *)

Window == {i \in DOMAIN failures : InWindow(i) /\ failures[i].by # OidcName}

Trying == {r \in Requests : step[r] = "verifying"}

\* Not inductive by itself is GlobalCap: a login that verifies its password
\* may become a failure in the window.
CapInv ==
    Cardinality(Window) + Cardinality(Trying) < GlobalMax + Cardinality(Requests)

\* What CapInv counts are finite sets.
LEMMA Finite ==
    ASSUME AccountsTypeOK
    PROVE  /\ IsFiniteSet(Window) /\ IsFiniteSet(Trying) /\ IsFiniteSet(Requests)
           /\ Cardinality(Window) \in Nat /\ Cardinality(Trying) \in Nat
           /\ Cardinality(Requests) \in Nat /\ GlobalMax \in Nat \ {0}
           /\ DOMAIN failures = 1 .. Len(failures) /\ Len(failures) \in Nat
           /\ IsFiniteSet(DOMAIN failures)
<1>1. /\ DOMAIN failures = 1 .. Len(failures) /\ Len(failures) \in Nat
      /\ IsFiniteSet(Requests) /\ GlobalMax \in Nat \ {0}
  BY LenProperties, AccountsAssumption DEF AccountsTypeOK, AccountsAssumption
<1>2. IsFiniteSet(DOMAIN failures)
  BY <1>1, FS_Interval
<1>3. Window \in SUBSET DOMAIN failures /\ Trying \in SUBSET Requests
  BY DEF Window, Trying
<1>4. IsFiniteSet(Window) /\ IsFiniteSet(Trying)
  BY <1>1, <1>2, <1>3, FS_Subset
<1> QED
  BY <1>1, <1>2, <1>4, FS_CardinalityType

\* Failures that are old enough leave the window, logins end: the count of
\* both only falls.
LEMMA QuietCap ==
    ASSUME AccountsTypeOK, CapInv, Window' \subseteq Window, Trying' \subseteq Trying
    PROVE  CapInv'
<1>1. /\ Cardinality(Window') \in Nat /\ Cardinality(Trying') \in Nat
      /\ Cardinality(Window') <= Cardinality(Window)
      /\ Cardinality(Trying') <= Cardinality(Trying)
  BY Finite, FS_Subset, FS_CardinalityType
<1> QED
  BY <1>1, Finite DEF CapInv

\* A login is let in: the window is not full, and no more than every request
\* can verify a password.
LEMMA SubmitCap ==
    ASSUME AccountsTypeOK, ~GloballyLimited, UNCHANGED <<now, failures>>
    PROVE  CapInv'
<1> DEFINE all == {i \in DOMAIN failures : InWindow(i)}
<1>1. all \in SUBSET DOMAIN failures /\ Window \in SUBSET all
  BY DEF Window
<1>2. IsFiniteSet(all)
  BY <1>1, Finite, FS_Subset
<1>3. /\ Cardinality(Window) <= Cardinality(all) /\ Cardinality(all) \in Nat
      /\ ~(Cardinality(all) >= GlobalMax)
  BY <1>1, <1>2, FS_Subset, FS_CardinalityType DEF GloballyLimited
<1>4. Window' = Window
  BY DEF Window, InWindow
<1>5. Trying' \in SUBSET Requests
  BY DEF Trying
<1>6. Cardinality(Trying') \in Nat /\ Cardinality(Trying') <= Cardinality(Requests)
  BY <1>5, Finite, FS_Subset, FS_CardinalityType
<1> HIDE DEF all
<1> QED
  BY <1>3, <1>4, <1>6, Finite DEF CapInv

\* A login fails: one failure more, one login less.
LEMMA RejectCap ==
    ASSUME AccountsTypeOK, CapInv, NEW r \in Trying, NEW n,
           failures' = Append(failures, [by |-> n, at |-> now]), UNCHANGED now,
           Trying' \subseteq Trying \ {r},
           [by |-> n, at |-> now] \in [by : Names \union {OidcName}, at : Nat]
    PROVE  CapInv'
<1> PICK k : k = Len(failures) + 1
  OBVIOUS
<1>1. /\ DOMAIN failures' = 1 .. k
      /\ \A i \in 1 .. Len(failures) : failures'[i] = failures[i]
  BY Finite, AppendProperties DEF AccountsTypeOK
<1>2. Window' \subseteq Window \union {k}
  BY <1>1, Finite DEF Window, InWindow
<1>3. /\ IsFiniteSet(Window \union {k})
      /\ Cardinality(Window \union {k}) <= Cardinality(Window) + 1
      /\ Cardinality(Window \union {k}) \in Nat
  <2>1. /\ IsFiniteSet(Window \union {k})
        /\ \/ Cardinality(Window \union {k}) = Cardinality(Window)
           \/ Cardinality(Window \union {k}) = Cardinality(Window) + 1
    BY Finite, FS_AddElement
  <2> QED
    BY <2>1, Finite
<1>4. Cardinality(Window') \in Nat /\ Cardinality(Window') <= Cardinality(Window) + 1
  BY <1>2, <1>3, Finite, FS_Subset, FS_CardinalityType
<1>5. /\ IsFiniteSet(Trying \ {r}) /\ Cardinality(Trying \ {r}) = Cardinality(Trying) - 1
  BY Finite, FS_RemoveElement
<1>6. Cardinality(Trying') \in Nat /\ Cardinality(Trying') <= Cardinality(Trying) - 1
  BY <1>5, FS_Subset, FS_CardinalityType
<1> QED
  BY <1>4, <1>6, Finite DEF CapInv

\* The window's invariant survives every step.
LEMMA NextCap ==
    ASSUME AccountsTypeOK, CapInv, [Next]_vars
    PROVE  CapInv'
<1>1. /\ now \in Nat /\ DOMAIN failures = 1 .. Len(failures) /\ Len(failures) \in Nat
      /\ \A i \in DOMAIN failures : failures[i].at \in Nat
      /\ step \in [Requests -> {"idle", "verifying", "accepted", "authed"}]
      /\ \A r \in Requests : step[r] = "verifying" => subject[r] \in Names
  <2>1. \A i \in DOMAIN failures :
           failures[i] \in [by : Names \union {OidcName}, at : Nat]
    BY ElementOfSeq, LenProperties DEF AccountsTypeOK
  <2> QED
    BY <2>1, Finite DEF AccountsTypeOK
<1>2. ASSUME NEW r \in Requests, NEW n \in Names, Submit(r, n)
      PROVE  CapInv'
  BY <1>2, SubmitCap DEF Submit
<1>3. ASSUME NEW r \in Requests, Reject(r)
      PROVE  CapInv'
  <2>1. r \in Trying /\ Trying' \subseteq Trying \ {r}
    BY <1>1, <1>3 DEF Reject, Finish, GoTo, Trying
  <2>2. /\ failures' = Append(failures, [by |-> subject[r], at |-> now])
        /\ UNCHANGED now
        /\ [by |-> subject[r], at |-> now] \in [by : Names \union {OidcName}, at : Nat]
    BY <1>1, <1>3 DEF Reject, RecordFailure
  <2> QED
    BY <2>1, <2>2, RejectCap
<1>4. CASE DenyIdentity
  <2>1. /\ failures' = Append(failures, [by |-> OidcName, at |-> now])
        /\ UNCHANGED <<now, step>>
    BY <1>4 DEF DenyIdentity, RecordFailure
  <2>2. /\ DOMAIN failures' = 1 .. (Len(failures) + 1)
        /\ \A i \in 1 .. Len(failures) : failures'[i] = failures[i]
        /\ failures'[Len(failures) + 1] = [by |-> OidcName, at |-> now]
    BY <1>1, <2>1, AppendProperties DEF AccountsTypeOK
  <2>3. 1 .. (Len(failures) + 1) = (1 .. Len(failures)) \union {Len(failures) + 1}
    BY <1>1
  <2>4. Window' \subseteq Window
    BY <1>1, <2>1, <2>2, <2>3 DEF Window, InWindow
  <2>5. Trying' \subseteq Trying
    BY <2>1 DEF Trying
  <2> QED
    BY <2>4, <2>5, QuietCap
<1>5. ASSUME UNCHANGED failures, now' \in Nat, now <= now', Trying' \subseteq Trying
      PROVE  CapInv'
  <2>1. Window' \subseteq Window
    BY <1>1, <1>5, AccountsAssumption DEF Window, InWindow, AccountsAssumption
  <2> QED
    BY <1>5, <2>1, QuietCap
<1>6. ASSUME NEW r \in Requests,
             \/ Accept(r) \/ StartSession(r) \/ Serve(r) \/ Logout(r) \/ RevokeOthers(r)
             \/ BreakOff(r)
             \/ \E u \in Users : AcceptIdentity(r, u)
             \/ \E s \in DOMAIN session : Authenticate(r, s) \/ RevokeOne(r, s)
      PROVE  CapInv'
  <2>1. UNCHANGED <<failures, now>>
    BY <1>6 DEF Accept, StartSession, Serve, Logout, RevokeOthers, BreakOff, AcceptIdentity,
                Authenticate, RevokeOne
  <2>2. \/ UNCHANGED step
        \/ \E at, who : at # "verifying" /\ GoTo(r, at, who)
    BY <1>6 DEF Accept, StartSession, Serve, Logout, RevokeOthers, BreakOff, AcceptIdentity,
                Authenticate, RevokeOne, Finish
  <2>3. Trying' \subseteq Trying
    BY <1>1, <2>2 DEF Trying, GoTo
  <2> QED
    BY <1>1, <1>5, <2>1, <2>3
<1>7. CASE \/ \E u \in Users : Unlock(u) \/ SetPassword(u)
           \/ Pass
           \/ UNCHANGED vars
  <2>1. UNCHANGED <<failures, step>> /\ now' \in Nat /\ now <= now'
    BY <1>1, <1>7 DEF Unlock, SetPassword, Pass, vars
  <2> QED
    BY <1>5, <2>1 DEF Trying
<1> QED
  BY <1>2, <1>3, <1>4, <1>6, <1>7 DEF Next

\* No window of time holds more failed passwords than the global limit and
\* one for each other request.
THEOREM GlobalLimitHolds == Spec => []GlobalCap
<1>1. Init => CapInv
  <2> SUFFICES ASSUME Init
               PROVE  CapInv
    OBVIOUS
  <2>1. AccountsTypeOK
    BY InvInit DEF AccountsInv
  <2>2. Window = {} /\ Trying = {}
    BY DEF Init, Window, Trying
  <2> QED
    BY <2>1, <2>2, Finite, FS_EmptySet DEF CapInv
<1>2. AccountsTypeOK /\ CapInv => GlobalCap
  BY Finite DEF CapInv, GlobalCap, Window
<1>3. AccountsTypeOK /\ CapInv /\ [Next]_vars => CapInv'
  BY NextCap
<1> QED
  BY <1>1, <1>2, <1>3, AccountsTypes, PTL DEF Spec

-----------------------------------------------------------------------------
(* The overview and its calendar *)

\* Every month has 28 to 31 days.
LEMMA MonthsHaveDays ==
    ASSUME NEW m \in Int
    PROVE  DaysIn(m) \in 28 .. 31
  BY DEF DaysIn

\* A cycle starts on a day its month has, and never before day 1.
LEMMA StartsInMonth ==
    ASSUME NEW m \in Int, NEW k \in Nat \ {0}
    PROVE  /\ CycleStart(m, k).month = m
           /\ CycleStart(m, k).day \in 1 .. DaysIn(m)
  BY MonthsHaveDays DEF CycleStart, Date, Less

\* Whatever the start day, from day 1 to past the end of every month, a date
\* lies in the cycle current_cycle_anchor() names and in no other.
THEOREM OneCycleEach ==
    ASSUME NEW x, IsDate(x), NEW m \in Int, NEW k \in Nat \ {0}
    PROVE  InCycle(x, m, k) <=> m = CurrentAnchor(x, k)
<1> x.month \in Int /\ x.day \in Int
  BY MonthsHaveDays DEF IsDate
<1>1. /\ CycleStart(x.month, k).month = x.month
      /\ CycleStart(x.month, k).day \in Int
  BY StartsInMonth, MonthsHaveDays
<1>2. /\ CycleStart(m, k).month = m
      /\ CycleStart(m, k).day \in 1 .. DaysIn(m)
      /\ CycleStart(m + 1, k).month = m + 1
      /\ CycleStart(m + 1, k).day \in 1 .. DaysIn(m + 1)
  BY StartsInMonth
<1>3. /\ CycleStart(m, k).day \in Int
      /\ CycleStart(m + 1, k).day \in Int
  BY <1>2, MonthsHaveDays
<1>4. CASE m = x.month
  BY <1>1, <1>2, <1>3, <1>4 DEF InCycle, Before, CurrentAnchor
<1>5. CASE m = x.month - 1
  BY <1>1, <1>2, <1>3, <1>5 DEF InCycle, Before, CurrentAnchor
<1>6. CASE m # x.month /\ m # x.month - 1
  BY <1>1, <1>2, <1>3, <1>6 DEF InCycle, Before, CurrentAnchor
<1> QED
  BY <1>4, <1>5, <1>6

-----------------------------------------------------------------------------
(* The pages stay on the calendar. *)

OverviewTypeOK ==
    /\ IsDate(today) /\ today.month >= FirstDay.month
    /\ startDay \in StartDays
    /\ confirmed \subseteq Book

\* What the constants of the calendar are.
LEMMA CalendarNumbers ==
    /\ \A d \in StartDays : d \in Nat \ {0}
    /\ TrendMonths \in Nat
    /\ FirstDay.month \in Int
    /\ \A r \in Book : IsDate(r.on)
  <1>1. /\ StartDays \subseteq 1 .. 28
        /\ IsDate(FirstDay) /\ TrendMonths \in Nat
        /\ \A r \in Book : IsDate(r.on)
    BY OverviewAssumption
  <1> QED
    BY <1>1 DEF IsDate

\* The type of the pages' state: today is a date and never before the first
\* day, the start day is one the settings page takes.
THEOREM OverviewTypes == OverviewSpec => []OverviewTypeOK
<1>1. OverviewInit => OverviewTypeOK
  BY OverviewAssumption DEF OverviewInit, OverviewTypeOK, IsDate
<1>2. OverviewTypeOK /\ [OverviewNext]_overviewVars => OverviewTypeOK'
  <2> SUFFICES ASSUME OverviewTypeOK, [OverviewNext]_overviewVars
               PROVE  OverviewTypeOK'
    OBVIOUS
  <2> USE DEF OverviewTypeOK
  <2>1. CASE NextDay
    <3>1. today.month \in Int /\ DaysIn(today.month) \in Int
      BY MonthsHaveDays DEF IsDate
    <3>2. DaysIn(today.month + 1) \in 28 .. 31
      BY MonthsHaveDays, <3>1
    <3> QED
      BY <2>1, <3>1, <3>2, CalendarNumbers DEF NextDay, Tomorrow, Date, IsDate
  <2>2. ASSUME NEW d \in StartDays, SetStartDay(d)
        PROVE  OverviewTypeOK'
    BY <2>2 DEF SetStartDay
  <2>3. ASSUME NEW r \in Book, Confirm(r) \/ Withdraw(r)
        PROVE  OverviewTypeOK'
    BY <2>3 DEF Confirm, Withdraw
  <2>4. CASE UNCHANGED overviewVars
    BY <2>4 DEF overviewVars
  <2> QED
    BY <2>1, <2>2, <2>3, <2>4 DEF OverviewNext
<1> QED
  BY <1>1, <1>2, PTL DEF OverviewSpec

\* A receipt of a cycle of the trend is among those a page loads for it.
LEMMA TrendIsLoaded ==
    ASSUME OverviewTypeOK, NEW r \in confirmed, NEW m \in Int,
           NEW k \in 0 .. TrendMonths - 1
    PROVE  r \in Series(m)[k] <=> InCycle(r.on, m - k, startDay)
<1>1. /\ startDay \in Nat \ {0}
      /\ r.on.month \in Int /\ r.on.day \in Int
  BY MonthsHaveDays, CalendarNumbers DEF OverviewTypeOK, IsDate
<1> DEFINE S(n) == CycleStart(n, startDay)
<1>2. \A n \in Int : S(n).month = n /\ S(n).day \in Int
  BY <1>1, StartsInMonth, MonthsHaveDays
<1>3. /\ m - k \in Int /\ m - k + 1 \in Int /\ m + 1 \in Int
      /\ m - (TrendMonths - 1) \in Int
  BY CalendarNumbers
<1> HIDE DEF S
<1>4. InCycle(r.on, m - k, startDay) => r \in Loaded(m)
  <2> SUFFICES ASSUME ~Before(r.on, S(m - k)), Before(r.on, S(m - k + 1))
               PROVE  /\ ~Before(r.on, S(m - (TrendMonths - 1)))
                      /\ Before(r.on, S(m + 1))
    BY DEF InCycle, Loaded, S
  <2>1. ~Before(r.on, S(m - (TrendMonths - 1)))
    <3>1. CASE k = TrendMonths - 1
      BY <3>1
    <3>2. CASE k # TrendMonths - 1
      BY <3>2, <1>1, <1>2, <1>3, CalendarNumbers DEF Before
    <3> QED
      BY <3>1, <3>2
  <2>2. Before(r.on, S(m + 1))
    <3>1. CASE k = 0
      BY <3>1
    <3>2. CASE k # 0
      BY <3>2, <1>1, <1>2, <1>3, CalendarNumbers DEF Before
    <3> QED
      BY <3>1, <3>2
  <2> QED
    BY <2>1, <2>2
<1> QED
  BY <1>4 DEF Series, InMonth, Loaded

\* At any moment, whatever the receipts and the start day: today is in the
\* current cycle, a projection is for days it has, and every receipt the
\* trend covers is counted once.
THEOREM CalendarIsCovered == OverviewSpec => []CyclesCover
<1>1. OverviewTypeOK => CyclesCover
  <2> SUFFICES ASSUME OverviewTypeOK
               PROVE  CyclesCover
    OBVIOUS
  <2> DEFINE c == CurrentAnchor(today, startDay)
  <2>1. /\ startDay \in Nat \ {0}
        /\ today.month \in Int /\ today.day \in Int
        /\ c \in Int
    <3>1. startDay \in Nat \ {0}
      BY CalendarNumbers DEF OverviewTypeOK
    <3>2. today.month \in Int /\ today.day \in Int
      BY MonthsHaveDays DEF OverviewTypeOK, IsDate
    <3> QED
      BY <3>1, <3>2 DEF CurrentAnchor
  <2>2. InCycle(today, c, startDay)
    BY <2>1, OneCycleEach DEF OverviewTypeOK
  <2>3. Elapsed(c) <= CycleLength(c, startDay)
    <3> DEFINE s == CycleStart(c, startDay)
               e == CycleStart(c + 1, startDay)
    <3>1. /\ s.month = c /\ s.day \in Int /\ DaysIn(c) \in Int
          /\ e.month = c + 1 /\ e.day \in Nat \ {0}
          /\ s.day <= DaysIn(c)
      BY <2>1, StartsInMonth, MonthsHaveDays
    <3>2. /\ today.month > c \/ (today.month = c /\ today.day >= s.day)
          /\ today.month < c + 1 \/ (today.month = c + 1 /\ today.day < e.day)
      <4> HIDE DEF c
      <4> QED
        BY <2>1, <2>2, <3>1 DEF InCycle, Before
    <3>3. today.day <= DaysIn(today.month)
      BY DEF OverviewTypeOK, IsDate
    <3> HIDE DEF c, s, e
    <3>4. /\ CycleLength(c, startDay) = DaysIn(c) - s.day + e.day
          /\ Elapsed(c) = (IF c = today.month THEN today.day - s.day
                           ELSE DaysIn(c) - s.day + today.day) + 1
      BY <2>1, <3>1 DEF CycleLength, Elapsed, DaysUntil, s, e
    <3> QED
      BY <2>1, <3>1, <3>2, <3>3, <3>4
  <2>4. ASSUME NEW m \in Pages, NEW r \in confirmed
        PROVE  Cardinality({k \in DOMAIN Series(m) : r \in Series(m)[k]}) =
                   IF \E k \in 0 .. TrendMonths - 1 : InCycle(r.on, m - k, startDay)
                   THEN 1 ELSE 0
    <3> DEFINE a == CurrentAnchor(r.on, startDay)
               K == {k \in DOMAIN Series(m) : r \in Series(m)[k]}
    <3>1. m \in Int /\ a \in Int /\ IsDate(r.on)
      BY <2>1, MonthsHaveDays, CalendarNumbers DEF Pages, OverviewTypeOK, IsDate, CurrentAnchor
    <3>2. \A k \in 0 .. TrendMonths - 1 :
              InCycle(r.on, m - k, startDay) <=> m - k = a
      BY <3>1, <2>1, OneCycleEach
    <3>3. K = {k \in 0 .. TrendMonths - 1 : InCycle(r.on, m - k, startDay)}
      BY <3>1, TrendIsLoaded DEF Series
    <3> HIDE DEF a, K
    <3>4. CASE m - a \in 0 .. TrendMonths - 1
      <4>1. K = {m - a}
        BY <3>1, <3>2, <3>3, <3>4
      <4> QED
        BY <4>1, <3>3, FS_Singleton DEF K
    <3>5. CASE m - a \notin 0 .. TrendMonths - 1
      <4>1. K = {}
        BY <3>1, <3>2, <3>3, <3>5
      <4> QED
        BY <4>1, <3>3, FS_EmptySet DEF K
    <3> QED
      BY <3>4, <3>5
  <2> QED
    BY <2>2, <2>3, <2>4 DEF CyclesCover
<1> QED
  BY <1>1, OverviewTypes, PTL

-----------------------------------------------------------------------------
(* Sums over finite sets, as the library folds them. *)

\* The sum of v[x] over x \in S, and the element the library's fold takes first.
SumOn(v, S) == SumFunctionOnSet(v, S)
Some(s) == CHOOSE x \in s : TRUE

\* The partial sums of v, as the fold of the library computes them.
Sums(g, v, S) ==
    g = [s \in SUBSET S |-> IF s = {} THEN 0 ELSE v[Some(s)] + g[s \ {Some(s)}]]

\* The fold chooses a function that is defined by itself.
LEMMA Unfold ==
    ASSUME NEW v, NEW S
    PROVE  SumOn(v, S) = (CHOOSE g : Sums(g, v, S))[S]
  BY DEF SumOn, SumFunctionOnSet, FoldFunctionOnSet, MapThenFoldSet, Sums, Some

\* It is an element.
LEMMA SomeIs ==
    ASSUME NEW s, s # {}
    PROVE  Some(s) \in s
  BY DEF Some

\* There is at most one such function, of a set and of any that contains it.
LEMMA SumsAgree ==
    ASSUME NEW v, NEW S, NEW T, IsFiniteSet(S), NEW g, NEW h, Sums(g, v, S), Sums(h, v, T),
           S \subseteq T
    PROVE  g[S] = h[S]
  <1> SUFFICES ASSUME g[S] # h[S]
               PROVE  FALSE
    OBVIOUS
  <1> DEFINE F == {s \in SUBSET S : g[s] = h[s]}
  <1>1. PICK s \in SUBSET S : s \notin F /\ \A t \in SUBSET s : t # s => t \in F
    <2> HIDE DEF F
    <2>1. S \notin F
      BY DEF F
    <2> QED
      BY <2>1, SmallestCase
  <1>2. CASE s = {}
    <2>1. g[s] = 0 /\ h[s] = 0
      BY <1>2 DEF Sums
    <2> QED
      BY <1>1, <2>1
  <1>3. CASE s # {}
    <2>1. Some(s) \in s
      BY <1>3, SomeIs
    <2>2. g[s] = v[Some(s)] + g[s \ {Some(s)}]
      BY <1>3 DEF Sums
    <2>3. h[s] = v[Some(s)] + h[s \ {Some(s)}]
      BY <1>3 DEF Sums
    <2>4. s \ {Some(s)} \in F
      BY <1>1, <2>1
    <2> QED
      BY <1>1, <2>2, <2>3, <2>4
  <1> QED
    BY <1>2, <1>3

\* There is one.
LEMMA SumsExist ==
    ASSUME NEW v, NEW S, IsFiniteSet(S)
    PROVE  \E g : Sums(g, v, S)
  <1> DEFINE F == {s \in SUBSET S : \E g : Sums(g, v, s)}
  <1> SUFFICES ASSUME S \notin F
               PROVE  FALSE
    OBVIOUS
  <1>1. PICK t \in SUBSET S : t \notin F /\ \A s \in SUBSET t : s # t => s \in F
    <2> HIDE DEF F
    <2> QED
      BY SmallestCase
  <1>2. ASSUME NEW s \in SUBSET t, s # t
        PROVE  SumOn(v, s) = IF s = {} THEN 0 ELSE v[Some(s)] + SumOn(v, s \ {Some(s)})
    <2>1. PICK g : g = (CHOOSE f : Sums(f, v, s)) /\ Sums(g, v, s)
      BY <1>1, <1>2
    <2>2. SumOn(v, s) = g[s]
      BY <2>1, Unfold
    <2>3. CASE s = {}
      BY <2>1, <2>2, <2>3 DEF Sums
    <2>4. CASE s # {}
      <3> DEFINE u == s \ {Some(s)}
      <3>1. u \in SUBSET t /\ u # t /\ u \in SUBSET s
        BY <2>4, SomeIs
      <3>2. PICK h : h = (CHOOSE f : Sums(f, v, u)) /\ Sums(h, v, u)
        BY <1>1, <3>1
      <3>3. SumOn(v, u) = h[u]
        BY <3>2, Unfold
      <3>4. h[u] = g[u]
        <4> HIDE DEF u
        <4>1. IsFiniteSet(u)
          BY FS_Subset, <3>1
        <4> QED
          BY <2>1, <3>1, <3>2, <4>1, SumsAgree
      <3>5. g[s] = v[Some(s)] + g[u]
        BY <2>1, <2>4 DEF Sums
      <3> QED
        BY <2>2, <2>4, <3>3, <3>4, <3>5
    <2> QED
      BY <2>3, <2>4
  <1> DEFINE Part(s) == IF s = {} THEN 0 ELSE v[Some(s)] + SumOn(v, s \ {Some(s)})
  <1> DEFINE G == [s \in SUBSET t |-> Part(s)]
  <1>3. \A s \in SUBSET t : s # t => Part(s) = SumOn(v, s)
    BY <1>2
  <1>4. \A s \in SUBSET t : s # {} => s \ {Some(s)} \in SUBSET t /\ s \ {Some(s)} # t
    BY SomeIs
  <1>5. \A s \in SUBSET t : G[s] = IF s = {} THEN 0 ELSE v[Some(s)] + G[s \ {Some(s)}]
    <2> SUFFICES ASSUME NEW s \in SUBSET t, s # {}
                 PROVE  G[s] = v[Some(s)] + G[s \ {Some(s)}]
      OBVIOUS
    <2>1. G[s \ {Some(s)}] = SumOn(v, s \ {Some(s)})
      <3> HIDE DEF Part
      <3> QED
        BY <1>3, <1>4
    <2> QED
      BY <2>1
  <1>6. Sums(G, v, t)
    BY <1>5 DEF Sums
  <1> QED
    <2> HIDE DEF G
    <2> QED
      BY <1>1, <1>6

\* So the sum is what its definition says.
LEMMA SumCases ==
    ASSUME NEW v, NEW S, IsFiniteSet(S)
    PROVE  SumOn(v, S) = IF S = {} THEN 0 ELSE v[Some(S)] + SumOn(v, S \ {Some(S)})
  <1>1. PICK g : g = (CHOOSE f : Sums(f, v, S)) /\ Sums(g, v, S)
    BY SumsExist
  <1>2. SumOn(v, S) = g[S]
    BY <1>1, Unfold
  <1>3. CASE S = {}
    BY <1>1, <1>2, <1>3 DEF Sums
  <1>4. CASE S # {}
    <2> DEFINE u == S \ {Some(S)}
    <2>1. IsFiniteSet(u) /\ u \subseteq S
      BY FS_Subset
    <2>2. PICK h : h = (CHOOSE f : Sums(f, v, u)) /\ Sums(h, v, u)
      <3> HIDE DEF u
      <3> QED
        BY <2>1, SumsExist
    <2>3. SumOn(v, u) = h[u]
      BY <2>2, Unfold
    <2>4. h[u] = g[u]
      <3> HIDE DEF u
      <3> QED
        BY <1>1, <2>1, <2>2, SumsAgree
    <2>5. g[S] = v[Some(S)] + g[u]
      BY <1>1, <1>4 DEF Sums
    <2> QED
      BY <1>2, <1>4, <2>3, <2>4, <2>5
  <1> QED
    BY <1>3, <1>4

\* Integers add up to an integer.
LEMMA SumIsInt ==
    ASSUME NEW v, NEW S, IsFiniteSet(S), \A x \in S : v[x] \in Int
    PROVE  SumOn(v, S) \in Int
  <1> SUFFICES ASSUME SumOn(v, S) \notin Int
               PROVE  FALSE
    OBVIOUS
  <1> DEFINE F == {s \in SUBSET S : SumOn(v, s) \in Int}
  <1>1. PICK s \in SUBSET S : s \notin F /\ \A t \in SUBSET s : t # s => t \in F
    <2>1. S \notin F
      OBVIOUS
    <2> HIDE DEF F
    <2> QED
      BY <2>1, SmallestCase
  <1>2. IsFiniteSet(s)
    BY FS_Subset
  <1>3. SumOn(v, s) = IF s = {} THEN 0 ELSE v[Some(s)] + SumOn(v, s \ {Some(s)})
    BY <1>2, SumCases
  <1>4. s # {}
    BY <1>1, <1>3
  <1>5. Some(s) \in s
    BY <1>4, SomeIs
  <1>6. s \ {Some(s)} \in F
    BY <1>1, <1>5
  <1> QED
    BY <1>1, <1>3, <1>4, <1>5, <1>6

\* The elements may be added in any order.
LEMMA SumAny ==
    ASSUME NEW v, NEW S, IsFiniteSet(S), \A x \in S : v[x] \in Int
    PROVE  \A x \in S : SumOn(v, S) = v[x] + SumOn(v, S \ {x})
  <1> DEFINE F == {s \in SUBSET S : \A x \in s : SumOn(v, s) = v[x] + SumOn(v, s \ {x})}
  <1> SUFFICES ASSUME S \notin F
               PROVE  FALSE
    OBVIOUS
  <1>1. PICK s \in SUBSET S : s \notin F /\ \A t \in SUBSET s : t # s => t \in F
    <2> HIDE DEF F
    <2> QED
      BY SmallestCase
  <1>2. PICK x \in s : SumOn(v, s) # v[x] + SumOn(v, s \ {x})
    BY <1>1
  <1>3. IsFiniteSet(s)
    BY FS_Subset
  <1> DEFINE c == Some(s)
             y == s \ {c}
             z == s \ {x}
  <1>4. c \in s /\ SumOn(v, s) = v[c] + SumOn(v, y)
    BY <1>2, <1>3, SomeIs, SumCases
  <1>5. x # c
    BY <1>2, <1>4
  <1>6. SumOn(v, y) = v[x] + SumOn(v, y \ {x})
    BY <1>1, <1>4, <1>5
  <1>7. SumOn(v, z) = v[c] + SumOn(v, z \ {c})
    BY <1>1, <1>2, <1>4, <1>5
  <1>8. z \ {c} = y \ {x}
    OBVIOUS
  <1>9. SumOn(v, y \ {x}) \in Int
    <2>1. IsFiniteSet(y \ {x}) /\ \A e \in y \ {x} : v[e] \in Int
      BY <1>3, FS_Subset
    <2> HIDE DEF y
    <2> QED
      BY <2>1, SumIsInt
  <1>10. v[c] \in Int /\ v[x] \in Int
    BY <1>4
  <1>11. SumOn(v, s) = v[c] + (v[x] + SumOn(v, y \ {x}))
    BY <1>4, <1>6
  <1>12. SumOn(v, s) = v[x] + SumOn(v, z)
    <2>1. SumOn(v, z \ {c}) = SumOn(v, y \ {x})
      BY <1>8, Zenon
    <2> HIDE DEF y, z, c
    <2> QED
      BY <1>7, <1>9, <1>10, <1>11, <2>1
  <1> QED
    BY <1>2, <1>12

\* Nothing adds up to zero.
LEMMA SumOfNone ==
    ASSUME NEW v
    PROVE  SumOn(v, {}) = 0
  BY SumCases, FS_EmptySet

\* One more element.
LEMMA SumOneMore ==
    ASSUME NEW v, NEW S, IsFiniteSet(S), NEW x, x \notin S, v[x] \in Int, \A y \in S : v[y] \in Int
    PROVE  SumOn(v, S \union {x}) = v[x] + SumOn(v, S)
  <1>1. IsFiniteSet(S \union {x}) /\ \A y \in S \union {x} : v[y] \in Int
    BY FS_AddElement
  <1>2. SumOn(v, S \union {x}) = v[x] + SumOn(v, (S \union {x}) \ {x})
    BY <1>1, SumAny
  <1>3. (S \union {x}) \ {x} = S
    OBVIOUS
  <1> QED
    BY <1>2, <1>3

\* The sum of sums: u = v + w, element by element.
LEMMA SumPlus ==
    ASSUME NEW u, NEW v, NEW w, NEW S, IsFiniteSet(S),
           \A x \in S : v[x] \in Int /\ w[x] \in Int /\ u[x] = v[x] + w[x]
    PROVE  SumOn(u, S) = SumOn(v, S) + SumOn(w, S)
  <1> DEFINE F == {s \in SUBSET S : SumOn(u, s) = SumOn(v, s) + SumOn(w, s)}
  <1>1. {} \in F
    BY SumOfNone
  <1>2. ASSUME NEW s \in SUBSET S, NEW x \in S, s \in F, x \notin s
        PROVE  s \union {x} \in F
    <2>0. IsFiniteSet(s)
      BY FS_Subset
    <2>1. \A y \in s : u[y] \in Int /\ v[y] \in Int /\ w[y] \in Int
      OBVIOUS
    <2>2. SumOn(u, s \union {x}) = u[x] + SumOn(u, s)
      BY <2>0, <2>1, <1>2, SumOneMore
    <2>3. SumOn(v, s \union {x}) = v[x] + SumOn(v, s)
      BY <2>0, <2>1, <1>2, SumOneMore
    <2>4. SumOn(w, s \union {x}) = w[x] + SumOn(w, s)
      BY <2>0, <2>1, <1>2, SumOneMore
    <2>5. SumOn(v, s) \in Int /\ SumOn(w, s) \in Int
      BY <2>0, <2>1, SumIsInt
    <2>6. SumOn(u, s) = SumOn(v, s) + SumOn(w, s)
      BY <1>2
    <2>7. u[x] = v[x] + w[x] /\ v[x] \in Int /\ w[x] \in Int
      OBVIOUS
    <2>8. SumOn(u, s \union {x}) = SumOn(v, s \union {x}) + SumOn(w, s \union {x})
      BY <2>2, <2>3, <2>4, <2>5, <2>6, <2>7
    <2> QED
      BY <2>8
  <1>3. S \in F
    <2> HIDE DEF F
    <2> QED
      BY <1>1, <1>2, AddOne
  <1> QED
    BY <1>3

\* Only the values on the set matter.
LEMMA SumSame ==
    ASSUME NEW v, NEW w, NEW S, IsFiniteSet(S), \A x \in S : v[x] \in Int /\ v[x] = w[x]
    PROVE  SumOn(v, S) = SumOn(w, S)
  <1> DEFINE F == {s \in SUBSET S : SumOn(v, s) = SumOn(w, s)}
  <1>1. {} \in F
    BY SumOfNone
  <1>2. ASSUME NEW s \in SUBSET S, NEW x \in S, s \in F, x \notin s
        PROVE  s \union {x} \in F
    <2>0. IsFiniteSet(s)
      BY FS_Subset
    <2>1. \A y \in s : v[y] \in Int /\ w[y] \in Int
      OBVIOUS
    <2>2. SumOn(v, s \union {x}) = v[x] + SumOn(v, s)
      BY <2>0, <2>1, <1>2, SumOneMore
    <2>3. SumOn(w, s \union {x}) = w[x] + SumOn(w, s)
      BY <2>0, <2>1, <1>2, SumOneMore
    <2> QED
      BY <1>2, <2>2, <2>3
  <1>3. S \in F
    <2> HIDE DEF F
    <2> QED
      BY <1>1, <1>2, AddOne
  <1> QED
    BY <1>3

\* The sum over a part is that of the values with zero elsewhere.
LEMMA SumOfPart ==
    ASSUME NEW v, NEW S, IsFiniteSet(S), NEW T, \A x \in S : v[x] \in Int
    PROVE  SumOn(v, S \intersect T) = SumOn([x \in S |-> IF x \in T THEN v[x] ELSE 0], S)
  <1> DEFINE w == [x \in S |-> IF x \in T THEN v[x] ELSE 0]
             F == {s \in SUBSET S : SumOn(v, s \intersect T) = SumOn(w, s)}
  <1>1. {} \in F
    <2>1. {} \intersect T = {}
      OBVIOUS
    <2>2. SumOn(v, {} \intersect T) = SumOn(w, {})
      <3> HIDE DEF w
      <3> QED
        BY <2>1, SumOfNone
    <2> QED
      BY <2>2
  <1>2. ASSUME NEW s \in SUBSET S, NEW x \in S, s \in F, x \notin s
        PROVE  s \union {x} \in F
    <2>0. IsFiniteSet(s) /\ IsFiniteSet(s \intersect T)
      BY FS_Subset
    <2>1. \A y \in S : v[y] \in Int /\ w[y] \in Int
      OBVIOUS
    <2>2. SumOn(w, s \union {x}) = w[x] + SumOn(w, s)
      <3> HIDE DEF w
      <3> QED
        BY <2>0, <2>1, <1>2, SumOneMore
    <2>3. SumOn(v, s \intersect T) \in Int /\ SumOn(v, s \intersect T) = SumOn(w, s)
      <3>1. SumOn(v, s \intersect T) \in Int
        BY <2>0, <2>1, SumIsInt
      <3> QED
        BY <3>1, <1>2
    <2>4. CASE x \in T
      <3>1. (s \union {x}) \intersect T = (s \intersect T) \union {x} /\ w[x] = v[x]
        BY <2>4
      <3>2. SumOn(v, (s \intersect T) \union {x}) = v[x] + SumOn(v, s \intersect T)
        BY <2>0, <2>1, <1>2, SumOneMore
      <3>3. SumOn(v, (s \union {x}) \intersect T) = SumOn(w, s \union {x})
        <4> HIDE DEF w
        <4> QED
          BY <2>2, <2>3, <3>1, <3>2
      <3> QED
        BY <3>3
    <2>5. CASE x \notin T
      <3>1. (s \union {x}) \intersect T = s \intersect T
        BY <2>5
      <3>2. SumOn(v, (s \union {x}) \intersect T) = SumOn(v, s \intersect T)
        BY <3>1, Zenon
      <3>3. w[x] = 0
        BY <2>5
      <3>4. SumOn(w, s \union {x}) = SumOn(w, s)
        <4> HIDE DEF w
        <4> QED
          BY <2>2, <2>3, <3>3
      <3> QED
        BY <2>3, <3>2, <3>4, Zenon
    <2> QED
      BY <2>4, <2>5
  <1>3. S \in F
    <2> HIDE DEF F
    <2> QED
      BY <1>1, <1>2, AddOne
  <1> QED
    BY <1>3

\* One value among zeros.
LEMMA SumOfOne ==
    ASSUME NEW v, NEW S, IsFiniteSet(S), NEW x \in S, v[x] \in Int, \A y \in S : y # x => v[y] = 0
    PROVE  SumOn(v, S) = v[x]
  <1>1. \A y \in S : v[y] \in Int
    BY SMT
  <1> DEFINE R == S \ {x}
             z == [y \in R |-> 0]
  <1>2. IsFiniteSet(R) /\ \A y \in R : v[y] = 0 /\ v[y] \in Int
    BY FS_Subset
  <1>3. SumOn(v, S) = v[x] + SumOn(v, R)
    BY <1>1, SumAny
  <1>4. SumOn(v, R) = SumOn(v, R) + SumOn(v, R)
    <2> HIDE DEF R
    <2> QED
      BY <1>2, SumPlus
  <1>5. SumOn(v, R) \in Int
    <2> HIDE DEF R
    <2> QED
      BY <1>2, SumIsInt
  <1> QED
    BY <1>3, <1>4, <1>5

\* Rows or columns first.
LEMMA SumSwap ==
    ASSUME NEW m, NEW A, NEW B, IsFiniteSet(A), IsFiniteSet(B),
           \A a \in A, b \in B : m[a][b] \in Int
    PROVE  SumOn([a \in A |-> SumOn(m[a], B)], A)
             = SumOn([b \in B |-> SumOn([a \in A |-> m[a][b]], A)], B)
  <1> DEFINE row == [a \in A |-> SumOn(m[a], B)]
             col(b) == [a \in A |-> m[a][b]]
             cols(s) == [b \in B |-> SumOn(col(b), s)]
             F == {s \in SUBSET A : SumOn(row, s) = SumOn(cols(s), B)}
  <1>1. {} \in F
    <2>1. SumOn(row, {}) = 0
      BY SumOfNone
    <2>2. \A b \in B : cols({})[b] = 0
      BY SumOfNone
    <2>3. SumOn(cols({}), B) = SumOn(cols({}), B) + SumOn(cols({}), B)
      <3> HIDE DEF cols
      <3> QED
        BY <2>2, SumPlus
    <2>4. SumOn(cols({}), B) \in Int
      <3> HIDE DEF cols
      <3> QED
        BY <2>2, SumIsInt
    <2>5. SumOn(row, {}) = SumOn(cols({}), B)
      <3> HIDE DEF row, cols
      <3> QED
        BY <2>1, <2>3, <2>4
    <2> QED
      BY <2>5
  <1>2. ASSUME NEW s \in SUBSET A, NEW x \in A, s \in F, x \notin s
        PROVE  s \union {x} \in F
    <2>1. IsFiniteSet(s)
      BY FS_Subset
    <2>2. \A a \in A : row[a] \in Int
      <3> TAKE a \in A
      <3>1. \A b \in B : m[a][b] \in Int
        OBVIOUS
      <3>2. SumOn(m[a], B) \in Int
        BY <3>1, SumIsInt
      <3> QED
        BY <3>2
    <2>3. SumOn(row, s \union {x}) = row[x] + SumOn(row, s)
      <3> HIDE DEF row
      <3> QED
        BY <1>2, <2>1, <2>2, SumOneMore
    <2>4. \A b \in B : /\ cols(s)[b] \in Int
                        /\ cols(s \union {x})[b] = m[x][b] + cols(s)[b]
      <3> TAKE b \in B
      <3>1. \A a \in A : col(b)[a] \in Int /\ col(b)[a] = m[a][b]
        OBVIOUS
      <3>2. SumOn(col(b), s \union {x}) = col(b)[x] + SumOn(col(b), s)
        <4> HIDE DEF col
        <4> QED
          BY <1>2, <2>1, <3>1, SumOneMore
      <3>3. SumOn(col(b), s) \in Int
        <4> HIDE DEF col
        <4> QED
          BY <2>1, <3>1, SumIsInt
      <3>4. cols(s)[b] = SumOn(col(b), s) /\ cols(s \union {x})[b] = SumOn(col(b), s \union {x})
        <4> HIDE DEF col
        <4> QED
          OBVIOUS
      <3> HIDE DEF cols, col
      <3> QED
        BY <3>1, <3>2, <3>3, <3>4
    <2>5. SumOn(cols(s \union {x}), B) = SumOn(m[x], B) + SumOn(cols(s), B)
      <3> DEFINE u == cols(s \union {x})
                 v == m[x]
                 w == cols(s)
      <3>1. \A b \in B : v[b] \in Int /\ w[b] \in Int /\ u[b] = v[b] + w[b]
        <4> HIDE DEF cols
        <4> QED
          BY <2>4
      <3> HIDE DEF u, v, w
      <3>2. SumOn(u, B) = SumOn(v, B) + SumOn(w, B)
        BY <3>1, SumPlus
      <3> QED
        BY <3>2 DEF u, v, w
    <2>6. SumOn(row, s \union {x}) = SumOn(cols(s \union {x}), B)
      <3>1. row[x] = SumOn(m[x], B) /\ SumOn(row, s) = SumOn(cols(s), B)
        BY <1>2
      <3> HIDE DEF row, cols
      <3> QED
        BY <2>3, <2>5, <3>1
    <2> QED
      BY <2>6
  <1>3. A \in F
    <2> HIDE DEF F
    <2> QED
      BY <1>1, <1>2, AddOne
  <1> QED
    BY <1>3

\* A set of values, taken apart by a key, adds up to the whole.
LEMMA SumByKey ==
    ASSUME NEW v, NEW S, NEW C, IsFiniteSet(S), IsFiniteSet(C), NEW key,
           \A x \in S : v[x] \in Int /\ key[x] \in C
    PROVE  SumOn([c \in C |-> SumOn(v, {x \in S : key[x] = c})], C) = SumOn(v, S)
  <1> DEFINE m == [x \in S |-> [c \in C |-> IF key[x] = c THEN v[x] ELSE 0]]
             rows == [x \in S |-> SumOn(m[x], C)]
             cols == [c \in C |-> SumOn([x \in S |-> m[x][c]], S)]
  <1>1. \A x \in S, c \in C : m[x][c] \in Int
    OBVIOUS
  <1>2. SumOn(rows, S) = SumOn(cols, C)
    <2> HIDE DEF m
    <2> QED
      BY <1>1, SumSwap
  <1>3. SumOn(v, S) = SumOn(rows, S)
    <2>1. \A x \in S : v[x] \in Int /\ v[x] = rows[x]
      <3> TAKE x \in S
      <3>1. /\ m[x][key[x]] = v[x]
            /\ \A c \in C : c # key[x] => m[x][c] = 0
        OBVIOUS
      <3>2. key[x] \in C /\ v[x] \in Int
        OBVIOUS
      <3>3. SumOn(m[x], C) = m[x][key[x]]
        <4> HIDE DEF m
        <4> QED
          BY <3>1, <3>2, SumOfOne
      <3>4. rows[x] = SumOn(m[x], C)
        <4> HIDE DEF m
        <4> QED
          OBVIOUS
      <3> QED
        BY <3>1, <3>2, <3>3, <3>4
    <2> HIDE DEF rows
    <2> QED
      BY <2>1, SumSame
  <1>4. \A c \in C : cols[c] = SumOn(v, {x \in S : key[x] = c})
    <2> TAKE c \in C
    <2> DEFINE T == {x \in S : key[x] = c}
               w == [x \in S |-> IF x \in T THEN v[x] ELSE 0]
    <2>1. SumOn(v, S \intersect T) = SumOn(w, S)
      <3> HIDE DEF T
      <3> QED
        BY SumOfPart
    <2>2. S \intersect T = T
      OBVIOUS
    <2>3. SumOn(v, T) = SumOn(w, S)
      <3> HIDE DEF T, w
      <3> QED
        BY <2>1, <2>2, Zenon
    <2>4. [x \in S |-> m[x][c]] = w
      OBVIOUS
    <2>5. cols[c] = SumOn([x \in S |-> m[x][c]], S)
      <3> HIDE DEF m
      <3> QED
        OBVIOUS
    <2> HIDE DEF m, w, cols
    <2> QED
      BY <2>3, <2>4, <2>5, Zenon DEF T
  <1>5. cols = [c \in C |-> SumOn(v, {x \in S : key[x] = c})]
    BY <1>4, Zenon
  <1> QED
    <2> HIDE DEF rows, cols
    <2> QED
      BY <1>2, <1>3, <1>5, Zenon

\* Two parts.
LEMMA SumOfTwo ==
    ASSUME NEW v, NEW S, IsFiniteSet(S), NEW T, \A x \in S : v[x] \in Int
    PROVE  SumOn(v, S) = SumOn(v, S \intersect T) + SumOn(v, S \ T)
  <1> DEFINE a == [x \in S |-> IF x \in T THEN v[x] ELSE 0]
             b == [x \in S |-> IF x \in S \ T THEN v[x] ELSE 0]
  <1>1. SumOn(v, S \intersect T) = SumOn(a, S)
    BY SumOfPart
  <1>2. SumOn(v, S \intersect (S \ T)) = SumOn(b, S)
    <2> DEFINE U == S \ T
    <2> HIDE DEF U
    <2>1. SumOn(v, S \intersect U) = SumOn([x \in S |-> IF x \in U THEN v[x] ELSE 0], S)
      BY SumOfPart
    <2> QED
      BY <2>1, Zenon DEF U
  <1>3. S \intersect (S \ T) = S \ T
    OBVIOUS
  <1>4. SumOn(v, S \ T) = SumOn(b, S)
    BY <1>2, <1>3, Zenon
  <1>5. \A x \in S : a[x] \in Int /\ b[x] \in Int /\ v[x] = a[x] + b[x]
    OBVIOUS
  <1>6. SumOn(v, S) = SumOn(a, S) + SumOn(b, S)
    <2> HIDE DEF a, b
    <2> QED
      BY <1>5, SumPlus
  <1> HIDE DEF a, b
  <1> QED
    BY <1>1, <1>4, <1>6

-----------------------------------------------------------------------------
(* The pages' numbers. *)

\* What is added up is finite.
BooksInv == OverviewTypeOK /\ IsFiniteSet(confirmed)

\* Only finitely many receipts are confirmed at any moment, however many
\* there can be.
LEMMA BooksAreFinite == OverviewSpec => []BooksInv
  <1>1. OverviewInit => IsFiniteSet(confirmed)
    BY FS_EmptySet DEF OverviewInit
  <1>2. IsFiniteSet(confirmed) /\ [OverviewNext]_overviewVars => IsFiniteSet(confirmed)'
    <2> SUFFICES ASSUME IsFiniteSet(confirmed), [OverviewNext]_overviewVars
                 PROVE  IsFiniteSet(confirmed')
      OBVIOUS
    <2>1. ASSUME NEW r, Confirm(r)
          PROVE  IsFiniteSet(confirmed')
      BY <2>1, FS_AddElement DEF Confirm
    <2>2. ASSUME NEW r, Withdraw(r)
          PROVE  IsFiniteSet(confirmed')
      BY <2>2, FS_RemoveElement DEF Withdraw
    <2>3. ASSUME UNCHANGED confirmed
          PROVE  IsFiniteSet(confirmed')
      BY <2>3
    <2> QED
      BY <2>1, <2>2, <2>3 DEF OverviewNext, NextDay, SetStartDay, overviewVars
  <1> QED
    BY <1>1, <1>2, OverviewTypes, PTL DEF OverviewSpec, BooksInv

\* What may be booked to is finite, and everything is booked to it.
LEMMA SlotsAreFinite ==
    /\ IsFiniteSet(Slots) /\ Nonfood \subseteq Slots
    /\ \A category : Booked(category) \in Slots
  <1>1. IsFiniteSet(Categories) /\ Nonfood \subseteq Categories
    BY OverviewAssumption
  <1>2. IsFiniteSet(Categories \union {Fallback})
    BY <1>1, FS_AddElement
  <1> QED
    BY <1>1, <1>2 DEF Slots, Booked

\* Each line of a receipt is booked once: the shares make up what the lines
\* explain.
LEMMA SharesExplain ==
    ASSUME NEW r \in Book
    PROVE  /\ Explained(r) \in Int
           /\ \A c \in Slots : Share(r, c) \in Int
           /\ SumOn([c \in Slots |-> Share(r, c)], Slots) = Explained(r)
  <1> DEFINE D == DOMAIN r.lines
             v == Cents(r)
             key == [i \in D |-> Booked(Attributed(r.lines, i))]
  <1>1. /\ IsFiniteSet(D) /\ DOMAIN v = D
        /\ \A i \in D : v[i] \in Int /\ key[i] \in Slots
    BY OverviewAssumption, SlotsAreFinite DEF Cents
  <1>2. Explained(r) = SumOn(v, D)
    BY <1>1 DEF Explained, SumFunction, SumOn
  <1>3. \A c \in Slots : Share(r, c) = SumOn(v, {i \in D : key[i] = c})
    <2> TAKE c \in Slots
    <2>1. {i \in D : key[i] = c} = {i \in D : Booked(Attributed(r.lines, i)) = c}
      OBVIOUS
    <2> QED
      BY <2>1, Zenon DEF Share, SumOn
  <1> HIDE DEF D, v, key
  <1>4. SumOn([c \in Slots |-> SumOn(v, {i \in D : key[i] = c})], Slots) = SumOn(v, D)
    BY <1>1, SlotsAreFinite, SumByKey
  <1>5. [c \in Slots |-> SumOn(v, {i \in D : key[i] = c})] = [c \in Slots |-> Share(r, c)]
    BY <1>3, Zenon
  <1>6. \A c \in Slots : Share(r, c) \in Int
    <2> TAKE c \in Slots
    <2> DEFINE P == {i \in D : key[i] = c}
    <2>1. IsFiniteSet(P) /\ \A i \in P : v[i] \in Int
      BY <1>1, FS_Subset
    <2>2. Share(r, c) = SumOn(v, P)
      BY <1>3
    <2> HIDE DEF P
    <2> QED
      BY <2>1, <2>2, SumIsInt
  <1>7. SumOn(v, D) \in Int
    BY <1>1, SumIsInt
  <1> QED
    BY <1>2, <1>4, <1>5, <1>6, <1>7, Zenon

\* The receipts of a page: what the lines explain, over all of them, is what
\* the categories have, one by one.
LEMMA CategoriesExplain ==
    ASSUME NEW R \in SUBSET Book, IsFiniteSet(R)
    PROVE  /\ \A c \in Slots : ByCategory(R, c) \in Int
           /\ SumOn([c \in Slots |-> ByCategory(R, c)], Slots)
                = SumOn([r \in R |-> Explained(r)], R)
  <1> DEFINE m == [r \in R |-> [c \in Slots |-> Share(r, c)]]
             col(c) == [r \in R |-> m[r][c]]
  <1>1. \A r \in R, c \in Slots : m[r][c] \in Int /\ m[r][c] = Share(r, c)
    BY SharesExplain
  <1>2. SumOn([r \in R |-> SumOn(m[r], Slots)], R)
          = SumOn([c \in Slots |-> SumOn([r \in R |-> m[r][c]], R)], Slots)
    <2> HIDE DEF m
    <2> QED
      BY <1>1, SlotsAreFinite, SumSwap
  <1>3. \A r \in R : SumOn(m[r], Slots) = Explained(r)
    BY SharesExplain
  <1>4. [r \in R |-> SumOn(m[r], Slots)] = [r \in R |-> Explained(r)]
    BY <1>3, Zenon
  <1>5. \A c \in Slots : /\ ByCategory(R, c) = SumOn([r \in R |-> m[r][c]], R)
                         /\ ByCategory(R, c) \in Int
    <2> TAKE c \in Slots
    <2> DEFINE f == [r \in R |-> Share(r, c)]
    <2>1. f = [r \in R |-> m[r][c]]
      OBVIOUS
    <2>2. ByCategory(R, c) = SumOn(f, R)
      BY DEF ByCategory, SumFunction, SumOn
    <2>3. \A r \in R : f[r] \in Int
      BY <1>1
    <2> HIDE DEF f, m
    <2>4. SumOn(f, R) \in Int
      BY <2>3, SumIsInt
    <2> QED
      BY <2>1, <2>2, <2>4, Zenon
  <1>6. [c \in Slots |-> ByCategory(R, c)] = [c \in Slots |-> SumOn([r \in R |-> m[r][c]], R)]
    <2> HIDE DEF m
    <2> QED
      BY <1>5, Zenon
  <1> QED
    <2> HIDE DEF m
    <2> QED
      BY <1>2, <1>4, <1>5, <1>6, Zenon

\* The total is what the lines explain and what they do not.
LEMMA TotalIsItemisedOrNot ==
    ASSUME NEW R \in SUBSET Book, IsFiniteSet(R)
    PROVE  /\ NotItemised(R) \in Int
           /\ Total(R) = NotItemised(R) + SumOn([r \in R |-> Explained(r)], R)
  <1> DEFINE u == [r \in R |-> r.total]
             v == [r \in R |-> r.total - Explained(r)]
             w == [r \in R |-> Explained(r)]
  <1>1. \A r \in R : v[r] \in Int /\ w[r] \in Int /\ u[r] = v[r] + w[r]
    <2> TAKE r \in R
    <2>1. r.total \in Int /\ Explained(r) \in Int
      BY OverviewAssumption, SharesExplain
    <2> QED
      BY <2>1
  <1>2. Total(R) = SumOn(u, R) /\ NotItemised(R) = SumOn(v, R)
    BY DEF Total, NotItemised, SumFunction, SumOn
  <1> HIDE DEF u, v, w
  <1>3. SumOn(u, R) = SumOn(v, R) + SumOn(w, R)
    BY <1>1, SumPlus
  <1>4. SumOn(v, R) \in Int
    BY <1>1, SumIsInt
  <1> QED
    BY <1>2, <1>3, <1>4 DEF w

\* Each receipt is of one store.
LEMMA StoresMakeTotal ==
    ASSUME NEW R \in SUBSET Book, IsFiniteSet(R)
    PROVE  SumFunction([s \in {r.store : r \in R} |-> ByStore(R, s)]) = Total(R)
  <1> DEFINE u == [r \in R |-> r.total]
             key == [r \in R |-> r.store]
             Stores == {r.store : r \in R}
             f == [s \in Stores |-> ByStore(R, s)]
             g == [s \in Stores |-> SumOn(u, {r \in R : key[r] = s})]
  <1>1. IsFiniteSet(Stores)
    <2>1. key \in Surjection(R, Stores)
      BY DEF Surjection
    <2> HIDE DEF key, Stores
    <2> QED
      BY <2>1, FS_Surjection
  <1>2. \A r \in R : u[r] \in Int /\ key[r] \in Stores
    BY OverviewAssumption
  <1>3. SumOn(g, Stores) = SumOn(u, R)
    <2> HIDE DEF u, key, Stores
    <2> QED
      BY <1>1, <1>2, SumByKey
  <1>4. \A s \in Stores : f[s] = g[s]
    <2> TAKE s \in Stores
    <2> DEFINE Q == {r \in R : r.store = s}
    <2>1. Q = {r \in R : key[r] = s} /\ Q \subseteq R
      OBVIOUS
    <2>2. IsFiniteSet(Q)
      BY <2>1, FS_Subset
    <2>3. Total(Q) = SumOn([r \in Q |-> r.total], Q)
      BY DEF Total, SumFunction, SumOn
    <2>4. \A r \in Q : [q \in Q |-> q.total][r] \in Int /\ [q \in Q |-> q.total][r] = u[r]
      BY <1>2
    <2>5. SumOn([r \in Q |-> r.total], Q) = SumOn(u, Q)
      <3> DEFINE t == [q \in Q |-> q.total]
      <3>1. \A r \in Q : t[r] \in Int /\ t[r] = u[r]
        BY <2>4
      <3> HIDE DEF t, u, Q
      <3>2. SumOn(t, Q) = SumOn(u, Q)
        BY <2>2, <3>1, SumSame
      <3> QED
        BY <3>2, Zenon DEF t
    <2>6. f[s] = Total(Q) /\ g[s] = SumOn(u, {r \in R : key[r] = s})
      <3> HIDE DEF u, key
      <3> QED
        BY DEF ByStore
    <2> HIDE DEF f, g, Q, u, key
    <2> QED
      BY <2>1, <2>3, <2>5, <2>6, Zenon
  <1>5. f = g
    <2> HIDE DEF u, key, Stores
    <2> QED
      BY <1>4, Zenon
  <1>6. SumFunction(f) = SumOn(f, Stores) /\ Total(R) = SumOn(u, R)
    BY DEF SumFunction, SumOn, Total
  <1> HIDE DEF f, g, u, Stores
  <1>7. SumFunction(f) = Total(R)
    BY <1>3, <1>5, <1>6, Zenon
  <1> QED
    BY <1>7, Zenon DEF f, Stores

\* The numbers of a page add up to its total to the cent, for any receipts,
\* categories and start day: what counts as food, the rest and what no line
\* explains; the categories; the stores.
THEOREM NumbersAddUp == OverviewSpec => []BooksBalance
  <1>1. ASSUME BooksInv
        PROVE  BooksBalance
    <2> SUFFICES ASSUME NEW m \in Pages
                 PROVE  LET R == Shown(m)
                        IN  /\ FoodSpend(R) + NonfoodSpend(R) = Total(R)
                            /\ NotItemised(R)
                                 + SumFunction([c \in Slots |-> ByCategory(R, c)]) = Total(R)
                            /\ SumFunction([s \in {r.store : r \in R} |-> ByStore(R, s)]) = Total(R)
      BY DEF BooksBalance
    <2> DEFINE R == Shown(m)
               f == [c \in Slots |-> ByCategory(R, c)]
               food == [c \in Slots \ Nonfood |-> ByCategory(R, c)]
               rest == [c \in Nonfood |-> ByCategory(R, c)]
    <2>1. R \in SUBSET Book /\ IsFiniteSet(R)
      <3>1. R \subseteq confirmed
        BY DEF Shown, InMonth, Loaded
      <3>2. IsFiniteSet(R)
        <4> HIDE DEF R
        <4> QED
          BY <1>1, <3>1, FS_Subset DEF BooksInv
      <3> QED
        BY <1>1, <3>1, <3>2 DEF BooksInv, OverviewTypeOK
    <2> HIDE DEF R
    <2>2. SumFunction(f) = SumOn(f, Slots) /\ \A c \in Slots : f[c] \in Int
      <3>1. \A c \in Slots : f[c] \in Int
        BY <2>1, CategoriesExplain
      <3> QED
        BY <3>1 DEF SumFunction, SumOn
    <2>3. NotItemised(R) \in Int /\ Total(R) = NotItemised(R) + SumOn(f, Slots)
      <3>1. SumOn(f, Slots) = SumOn([r \in R |-> Explained(r)], R)
        BY <2>1, CategoriesExplain
      <3>2. /\ NotItemised(R) \in Int
            /\ Total(R) = NotItemised(R) + SumOn([r \in R |-> Explained(r)], R)
        BY <2>1, TotalIsItemisedOrNot
      <3> HIDE DEF f
      <3> QED
        BY <3>1, <3>2, Zenon
    <2>4. SumOn(f, Slots) = SumFunction(rest) + SumFunction(food)
      <3>1. SumOn(f, Slots) = SumOn(f, Slots \intersect Nonfood) + SumOn(f, Slots \ Nonfood)
        <4> HIDE DEF f
        <4> QED
          BY <2>2, SlotsAreFinite, SumOfTwo
      <3>2. Slots \intersect Nonfood = Nonfood
        BY SlotsAreFinite
      <3>3. IsFiniteSet(Nonfood) /\ IsFiniteSet(Slots \ Nonfood)
        BY SlotsAreFinite, FS_Subset, FS_Difference
      <3>4. SumFunction(rest) = SumOn(rest, Nonfood) /\ SumFunction(food) = SumOn(food, Slots \ Nonfood)
        BY DEF SumFunction, SumOn
      <3>5. \A c \in Nonfood : rest[c] \in Int /\ rest[c] = f[c]
        BY <2>2, SlotsAreFinite
      <3>6. \A c \in Slots \ Nonfood : food[c] \in Int /\ food[c] = f[c]
        BY <2>2
      <3> HIDE DEF f, rest, food
      <3>7. SumOn(rest, Nonfood) = SumOn(f, Nonfood)
        BY <3>3, <3>5, SumSame
      <3>8. SumOn(food, Slots \ Nonfood) = SumOn(f, Slots \ Nonfood)
        BY <3>3, <3>6, SumSame
      <3> QED
        BY <3>1, <3>2, <3>4, <3>7, <3>8, Zenon
    <2>5. SumFunction(rest) \in Int /\ SumFunction(food) \in Int
      <3>1. /\ IsFiniteSet(Nonfood) /\ IsFiniteSet(Slots \ Nonfood)
            /\ Nonfood \subseteq Slots
        BY SlotsAreFinite, FS_Subset, FS_Difference
      <3>2. /\ \A c \in Nonfood : rest[c] \in Int
            /\ \A c \in Slots \ Nonfood : food[c] \in Int
        BY <2>2, <3>1
      <3>3. SumFunction(rest) = SumOn(rest, Nonfood) /\ SumFunction(food) = SumOn(food, Slots \ Nonfood)
        BY DEF SumFunction, SumOn
      <3> HIDE DEF f, rest, food
      <3> QED
        BY <3>1, <3>2, <3>3, SumIsInt
    <2>6. FoodSpend(R) = NotItemised(R) + SumFunction(food) /\ NonfoodSpend(R) = SumFunction(rest)
      BY DEF FoodSpend, NonfoodSpend
    <2>7. FoodSpend(R) + NonfoodSpend(R) = Total(R)
      <3> HIDE DEF f, rest, food
      <3> QED
        BY <2>3, <2>4, <2>5, <2>6
    <2>8. NotItemised(R) + SumFunction(f) = Total(R)
      <3> HIDE DEF f
      <3> QED
        BY <2>2, <2>3, Zenon
    <2>9. SumFunction([s \in {r.store : r \in R} |-> ByStore(R, s)]) = Total(R)
      BY <2>1, StoresMakeTotal
    <2> HIDE DEF food, rest
    <2> QED
      BY <2>7, <2>8, <2>9, Zenon DEF R
  <1> QED
    BY <1>1, BooksAreFinite, PTL
=============================================================================
