------------------------------ MODULE Accounts ------------------------------
(***************************************************************************)
(* Signing in and staying signed in: the throttle on failed logins         *)
(* (security/ratelimit.py), the sessions (security/sessions.py) and the    *)
(* requests that use them (web/routes_auth.py, security/deps.py), which    *)
(* run in a pool of threads, several at once.                              *)
(*                                                                         *)
(* A login reads the log of failures, verifies the password, which takes   *)
(* long on purpose, and only then writes the outcome.  The log is kept in  *)
(* the order of its time stamps; "lockout" events, which nobody reads,     *)
(* are left out.  A password, a token and an OIDC exchange are abstracted  *)
(* to their outcome.  Time is counted in units of every constant below.    *)
(***************************************************************************)
EXTENDS Naturals, Sequences, FiniteSets

CONSTANTS
    Requests,      \* requests served at once
    Users,         \* the users; their names
    Strangers,     \* names that are nobody's
    OidcName,      \* stands for the names "oidc:..."
    FreeFailures, BaseDelay, MaxDelay, GlobalWindow, GlobalMax,
    Idle,          \* session_idle_days
    Absolute,      \* session_absolute_days
    Touch,         \* _TOUCH_INTERVAL
    MaxTime,       \* bound: time modelled
    MaxSessions,   \* bound: sessions created
    MaxRows        \* bound: sessions created and failed logins

ASSUME AccountsAssumption ==
    /\ IsFiniteSet(Requests)
    /\ OidcName \notin Users \union Strangers
    /\ FreeFailures \in Nat \ {0} /\ GlobalMax \in Nat \ {0}
    /\ BaseDelay \in Nat /\ MaxDelay \in Nat /\ GlobalWindow \in Nat
    /\ Idle \in Nat /\ Absolute \in Nat /\ Touch \in 0 .. Idle
    /\ MaxTime \in Nat /\ MaxRows \in Nat /\ MaxSessions \in Nat

VARIABLES
    now,
    failures,  \* auth_events of kind login_fail, oldest first
    reset,     \* length of the log at each user's last login_ok or unlock
    session,   \* every row auth_sessions ever had; "on" while it is there
    step,      \* what each request is doing
    subject    \* the name, user or session it does it for

vars == <<now, failures, reset, session, step, subject>>

Names == Users \union Strangers
Nobody == 0

Init ==
    /\ now = 0
    /\ failures = <<>>
    /\ reset = [u \in Users |-> 0]
    /\ session = <<>>
    /\ step = [r \in Requests |-> "idle"]
    /\ subject = [r \in Requests |-> Nobody]

GoTo(r, s, who) ==
    /\ step' = [step EXCEPT ![r] = s]
    /\ subject' = [subject EXCEPT ![r] = who]

Finish(r) == GoTo(r, "idle", Nobody)

-----------------------------------------------------------------------------
(* The throttle *)

\* consecutive_failures(): the failures of a name since its last reset.
Since(n) ==
    {i \in DOMAIN failures :
        failures[i].by = n /\ (n \in Users => i > reset[n])}

Capped(a, b) == IF a < b THEN a ELSE b

\* BASE_DELAY * 2 ** k
Doubled[k \in Nat] == IF k = 0 THEN BaseDelay ELSE 2 * Doubled[k - 1]

Delay(count) == Capped(Doubled[count - FreeFailures], MaxDelay)

\* mutant: one failure more is free.
LockedLater(n) ==
    LET count == Cardinality(Since(n))
    IN  /\ count > FreeFailures
        /\ \E i \in Since(n) : now < failures[i].at + Delay(count)

\* lockout_remaining() is not 0.
LockedOut(n) ==
    LET count == Cardinality(Since(n))
    IN  /\ count >= FreeFailures
        /\ \E i \in Since(n) : now < failures[i].at + Delay(count)

InWindow(i) == now < failures[i].at + GlobalWindow

\* mutant: > for >=.
LimitedLater == Cardinality({i \in DOMAIN failures : InWindow(i)}) > GlobalMax

GloballyLimited ==
    Cardinality({i \in DOMAIN failures : InWindow(i)}) >= GlobalMax

RoomLeft == Len(failures) + Len(session) < MaxRows

RecordFailure(n) ==
    /\ RoomLeft
    /\ failures' = Append(failures, [by |-> n, at |-> now])

\* record() of "login_ok" or "unlock".
RecordReset(u) == reset' = [reset EXCEPT ![u] = Len(failures)]

-----------------------------------------------------------------------------
(* Signing in *)

\* login() up to the password: a request the throttle refuses changes
\* nothing the program reads again.
Submit(r, n) ==
    /\ step[r] = "idle"
    /\ ~GloballyLimited
    /\ ~LockedOut(n)
    /\ GoTo(r, "verifying", n)
    /\ UNCHANGED <<now, failures, reset, session>>

\* The name is unknown or the password wrong.
Reject(r) ==
    /\ step[r] = "verifying"
    /\ RecordFailure(subject[r])
    /\ Finish(r)
    /\ UNCHANGED <<now, reset, session>>

\* The password is right: login_ok is committed before the session is.
Accept(r) ==
    /\ step[r] = "verifying" /\ subject[r] \in Users
    /\ RecordReset(subject[r])
    /\ GoTo(r, "accepted", subject[r])
    /\ UNCHANGED <<now, failures, session>>

\* login_page() with a Tailscale identity, and oidc_callback(): no throttle.
AcceptIdentity(r, u) ==
    /\ step[r] = "idle"
    /\ RecordReset(u)
    /\ GoTo(r, "accepted", u)
    /\ UNCHANGED <<now, failures, session>>

\* oidc_callback() for an identity that is not linked to a user.
DenyIdentity ==
    /\ RecordFailure(OidcName)
    /\ UNCHANGED <<now, reset, session, step, subject>>

\* _start_session(), create_session()
StartSession(r) ==
    /\ step[r] = "accepted"
    /\ Len(session) < MaxSessions /\ RoomLeft
    /\ session' = Append(session,
         [user |-> subject[r], on |-> TRUE, seen |-> now,
          until |-> now + Absolute, used |-> now, signedOut |-> FALSE])
    /\ Finish(r)
    /\ UNCHANGED <<now, failures, reset>>

-----------------------------------------------------------------------------
(* Using and ending sessions *)

Expired(d) == now >= d.until \/ now >= d.seen + Idle

\* mutant: last_seen is never written again.
NeverTouched(d) == d.seen

\* last_seen is only rewritten when it is older than _TOUCH_INTERVAL.
Touched(d) == IF now - d.seen > Touch THEN now ELSE d.seen

\* lookup_session(): "used" is a history of the look-ups that succeeded.
LookUp(s, d) ==
    session' = [session EXCEPT ![s] =
        IF Expired(d) THEN [d EXCEPT !.on = FALSE]
        ELSE [d EXCEPT !.seen = Touched(d), !.used = now]]

\* require_auth(): the request goes on with the row it has read.
Authenticate(r, s) ==
    LET d == session[s]
    IN  /\ step[r] = "idle" /\ d.on
        /\ LookUp(s, d)
        /\ IF Expired(d) THEN UNCHANGED <<step, subject>>
           ELSE GoTo(r, "authed", s)
        /\ UNCHANGED <<now, failures, reset>>

SignedOut(u) == [user |-> u, on |-> FALSE, seen |-> 0, until |-> 0,
                 used |-> 0, signedOut |-> TRUE]

\* revoke_session(), revoke_all(): rows that are gone already do not matter.
Revoke(those) ==
    session' = [s \in DOMAIN session |->
        IF s \in those /\ session[s].on THEN SignedOut(session[s].user)
        ELSE session[s]]

Of(u) == {s \in DOMAIN session : session[s].user = u}

\* A handler that only needs the principal.
Serve(r) ==
    /\ step[r] = "authed"
    /\ Finish(r)
    /\ UNCHANGED <<now, failures, reset, session>>

Logout(r) ==
    /\ step[r] = "authed"
    /\ Revoke({subject[r]})
    /\ Finish(r)
    /\ UNCHANGED <<now, failures, reset>>

\* revoke_one(): any session of the user's but the current one.
RevokeOne(r, s) ==
    /\ step[r] = "authed"
    /\ s \in Of(session[subject[r]].user) \ {subject[r]}
    /\ Revoke({s})
    /\ Finish(r)
    /\ UNCHANGED <<now, failures, reset>>

RevokeOthers(r) ==
    /\ step[r] = "authed"
    /\ Revoke(Of(session[subject[r]].user) \ {subject[r]})
    /\ Finish(r)
    /\ UNCHANGED <<now, failures, reset>>

-----------------------------------------------------------------------------
(* The command line, restarts, time *)

\* cli.py unlock(), set_password()
Unlock(u) ==
    /\ RecordReset(u)
    /\ UNCHANGED <<now, failures, session, step, subject>>

SetPassword(u) ==
    /\ Revoke(Of(u))
    /\ UNCHANGED <<now, failures, reset, step, subject>>

\* The web process ends, or a handler raises.
BreakOff(r) ==
    /\ step[r] # "idle"
    /\ Finish(r)
    /\ UNCHANGED <<now, failures, reset, session>>

Pass ==
    /\ now < MaxTime
    /\ now' = now + 1
    /\ UNCHANGED <<failures, reset, session, step, subject>>

Next ==
    \/ \E r \in Requests :
          \/ \E n \in Names : Submit(r, n)
          \/ Reject(r) \/ Accept(r) \/ StartSession(r)
          \/ \E u \in Users : AcceptIdentity(r, u)
          \/ \E s \in DOMAIN session : Authenticate(r, s) \/ RevokeOne(r, s)
          \/ Serve(r) \/ Logout(r) \/ RevokeOthers(r) \/ BreakOff(r)
    \/ \E u \in Users : Unlock(u) \/ SetPassword(u)
    \/ DenyIdentity
    \/ Pass

Spec == Init /\ [][Next]_vars

-----------------------------------------------------------------------------
(* Properties *)

SessionRows ==
    [user : Users, on : BOOLEAN, seen : Nat, until : Nat, used : Nat,
     signedOut : BOOLEAN]

\* Every variable keeps its type; a request that signs somebody in does so
\* for a user, one that has been let in has a session that was created.
AccountsTypeOK ==
    /\ now \in Nat
    /\ failures \in Seq([by : Names \union {OidcName}, at : Nat])
    /\ reset \in [Users -> Nat]
    /\ session \in Seq(SessionRows)
    /\ step \in [Requests -> {"idle", "verifying", "accepted", "authed"}]
    /\ subject \in [Requests -> Names \union Nat]
    /\ \A r \in Requests :
          /\ step[r] = "verifying" => subject[r] \in Names
          /\ step[r] = "accepted" => subject[r] \in Users
          /\ step[r] = "authed" => subject[r] \in DOMAIN session

\* Which failure of a name since its last reset one is: the first, the second ...
Rank(n, i) == Cardinality({j \in Since(n) : j <= i})

\* The account is locked for 60 s after the free failures, doubling per
\* further failure (ratelimit.py:3-4), however many logins verify their
\* passwords at once: what they overtake the check by is their number, no
\* more.  A failure waits for the delay that the one as many failures before
\* it earned as there are requests.
ThrottleSpaces ==
    \A n \in Names : \A j \in Since(n) :
        Rank(n, j) >= FreeFailures + Cardinality(Requests) =>
            \A i \in Since(n) :
                /\ Rank(n, i) >= FreeFailures
                /\ Rank(n, j) >= Rank(n, i) + Cardinality(Requests)
                => failures[j].at >= failures[i].at + Delay(Rank(n, i))

\* More than GLOBAL_MAX failures in the window block every login
\* (ratelimit.py:9-10): no window holds more failed passwords than that and
\* one for each other request that had been let in, although identities
\* that are denied count but are never blocked.
GlobalCap ==
    Cardinality({i \in DOMAIN failures :
                    InWindow(i) /\ failures[i].by # OidcName})
        < GlobalMax + Cardinality(Requests)

\* A device stays signed in: a session that is gone was signed out, or had
\* reached its absolute end, or had not been used for the idle time, give or
\* take the touch interval by which last_seen lags (sessions.py:12,55-60),
\* whichever devices signed which others out at once.
DeviceStays ==
    \A s \in DOMAIN session :
        \/ session[s].on \/ session[s].signedOut
        \/ now >= session[s].until
        \/ now + Touch >= session[s].used + Idle
=============================================================================
