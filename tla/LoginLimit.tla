------------------------------ MODULE LoginLimit ------------------------------
(***************************************************************************)
(* The limit on failed logins of one address and username: the table       *)
(* login_rate_limit_events (app/services/security.py) and the login        *)
(* handler that asks it before, and tells it after, a password is checked. *)
(*                                                                         *)
(* A step is one short transaction.  record_login_failure reads the clock  *)
(* before its INSERT commits, so rows may come out of the order of their   *)
(* times.  The settings stay what they are.                                *)
(***************************************************************************)
EXTENDS Naturals, FiniteSets

CONSTANTS
  Handler,    \* login requests served at a time
  Settings,   \* records of attempts, window and lockout
  MaxTime,    \* bound: the last instant of the clock
  MaxEvents   \* bound: failures

ASSUME LoginAssumption ==
  /\ Settings \subseteq [attempts : Nat \ {0}, window : Nat \ {0}, lockout : Nat \ {0}]
  /\ MaxTime \in Nat /\ MaxEvents \in Nat /\ IsFiniteSet(Handler)

VARIABLES
  now,       \* datetime.utcnow()
  settings,  \* login_rate_limit_attempts, _window_seconds and _lockout_seconds
  events,    \* rows of login_rate_limit_events: [id, at]
  ever,      \* not a table: the failures since the last login that succeeded
  nextId,    \* the next id of the table
  req        \* req[h]: the login h serves

vars == <<now, settings, events, ever, nextId, req>>

Event == [id : 1..MaxEvents, at : 0..MaxTime]
Idle == [pc |-> "idle", at |-> 0]

Init ==
  /\ now = 0 /\ settings \in Settings
  /\ events = {} /\ ever = {} /\ nextId = 1
  /\ req = [h \in Handler |-> Idle]

Newest(S) == CHOOSE e \in S : \A d \in S : d.at <= e.at
Later(S, e) == {d \in S : d.at > e.at}
NotBefore(S, e) == {d \in S : d.at >= e.at}

\* The time of the last of the events that ORDER BY created_at DESC LIMIT
\* attempts leaves.
Oldest(S) ==
  (CHOOSE e \in S : /\ Cardinality(Later(S, e)) < settings.attempts
                    /\ Cardinality(NotBefore(S, e)) >= settings.attempts).at

Max2(a, b) == IF a < b THEN b ELSE a

\* Mutant: a failure is kept for the longer of the two, not for the window more.
KeepSecondsShort == Max2(settings.window, settings.lockout)

\* keep_seconds
KeepSeconds == Max2(settings.window, settings.lockout) + settings.window

\* Mutant: the row at the edge goes too.
KeptStrict(S, t) == {e \in S : e.at + KeepSeconds > t}

\* The rows that the pruning at t leaves and the SELECT reads.
Kept(S, t) == {e \in S : e.at + KeepSeconds >= t}

\* Mutant: attempts failures more than the setting says.
LockedLate(S, t) ==
  /\ Cardinality(S) > settings.attempts
  /\ Newest(S).at - Oldest(S) <= settings.window
  /\ Newest(S).at + settings.lockout > t

\* Whether login_rate_limit_retry_after finds a time to wait at t.
LockedAt(S, t) ==
  /\ Cardinality(S) >= settings.attempts
  /\ Newest(S).at - Oldest(S) <= settings.window
  /\ Newest(S).at + settings.lockout > t

\* login_rate_limit_retry_after: it prunes, and reads what is left.
RetryAfter(t) == LockedAt(Kept(events, t), t)
-----------------------------------------------------------------------------
\* login up to authenticate_user
Check(h) ==
  /\ req[h].pc = "idle"
  /\ events' = Kept(events, now)
  /\ req' = [req EXCEPT ![h].pc = IF RetryAfter(now) THEN "idle" ELSE "verify"]
  /\ UNCHANGED <<now, settings, ever, nextId>>

\* authenticate_user says no; record_login_failure has read the clock.
Fail(h) ==
  /\ req[h].pc = "verify"
  /\ nextId + Cardinality({g \in Handler : req[g].pc = "insert"}) <= MaxEvents
  /\ req' = [req EXCEPT ![h] = [pc |-> "insert", at |-> now]]
  /\ UNCHANGED <<now, settings, events, ever, nextId>>

\* The row it inserts.
Failure(h) == [id |-> nextId, at |-> req[h].at]

\* Its INSERT.
RecordFailure(h) ==
  /\ req[h].pc = "insert"
  /\ events' = events \cup {Failure(h)}
  /\ ever' = ever \cup {Failure(h)}
  /\ nextId' = nextId + 1
  /\ req' = [req EXCEPT ![h].pc = "count"]
  /\ UNCHANGED <<now, settings>>

\* The count after it prunes by the time of the failure; the login is over.
CountAfter(h) ==
  /\ req[h].pc = "count"
  /\ events' = Kept(events, req[h].at)
  /\ req' = [req EXCEPT ![h] = Idle]
  /\ UNCHANGED <<now, settings, ever, nextId>>

\* authenticate_user says yes; reset_login_failures.
Succeed(h) ==
  /\ req[h].pc = "verify"
  /\ events' = {} /\ ever' = {}
  /\ req' = [req EXCEPT ![h] = Idle]
  /\ UNCHANGED <<now, settings, nextId>>

Tick ==
  /\ now < MaxTime /\ now' = now + 1
  /\ UNCHANGED <<settings, events, ever, nextId, req>>

Next ==
  \/ \E h \in Handler : Check(h) \/ Fail(h) \/ RecordFailure(h) \/ CountAfter(h) \/ Succeed(h)
  \/ Tick

Spec == Init /\ [][Next]_vars
-----------------------------------------------------------------------------
(* Properties.                                                             *)

\* The types; rows are failures since the last success, and a row that is gone
\* is past every use.
TypeOK ==
  /\ now \in 0..MaxTime /\ settings \in Settings /\ nextId \in 1..(MaxEvents + 1)
  /\ events \subseteq ever /\ ever \subseteq Event
  /\ \A e \in ever : e.id < nextId /\ e.at <= now
  /\ \A e \in ever \ events : e.at + KeepSeconds < now
  /\ req \in [Handler -> [pc : {"idle", "verify", "insert", "count"}, at : 0..now]]

\* A login is refused exactly when the newest failure since the last success is
\* less than a lockout old and closes a window with enough failures, reckoned
\* from every failure and not from the rows pruning has left.
RefusedExactly ==
  RetryAfter(now) =
    \E f \in ever :
      /\ \A e \in ever : e.at <= f.at
      /\ now < f.at + settings.lockout
      /\ Cardinality({e \in ever : e.at + settings.window >= f.at}) >= settings.attempts

\* With a lockout longer than the window, no window has more failures than one
\* short of the limit and one for each login that was under way, however many
\* passed the check together.
FailuresBounded ==
  settings.lockout > settings.window =>
    \A f \in ever :
      Cardinality({e \in ever : e.at <= f.at /\ e.at + settings.window >= f.at})
        <= settings.attempts - 1 + Cardinality(Handler)
=============================================================================
