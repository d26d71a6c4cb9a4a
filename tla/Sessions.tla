------------------------------- MODULE Sessions -------------------------------
(***************************************************************************)
(* Accounts and browser sessions: login, the check every page makes,       *)
(* logout, the administrator's changes to accounts and the bootstrap of    *)
(* the administrator at start (app/services/sessions.py, auth.py,          *)
(* app/web/routes.py).                                                     *)
(*                                                                         *)
(* A step is one statement or one short transaction, READ COMMITTED.  Rows *)
(* a transaction has deleted stay locked until it commits: who updates or  *)
(* deletes one of them waits, and then finds no row.  A browser may have   *)
(* several requests on their way; each carries the cookie as it was when   *)
(* it was sent, and its response replaces the cookie.                      *)
(*                                                                         *)
(* A password is the number of its hash: setting one draws a new salt, so  *)
(* no two settings have the same hash.  The limit on failed logins is a    *)
(* module of its own, LoginLimit.                                          *)
(***************************************************************************)
EXTENDS Naturals, FiniteSets

CONSTANTS
  User,         \* user ids, in the order of their accounts
  Root,         \* INITIAL_ADMIN_USERNAME of the first start
  Browser,      \* browsers
  Handler,      \* requests the web process serves at a time
  IdleTimeout,  \* session_idle_timeout_seconds
  MaxToken,     \* bound: sessions issued
  MaxHash,      \* bound: passwords set
  MaxTime,      \* bound: the last instant of the clock
  MaxRestarts   \* bound: restarts of the web process

ASSUME SessionsAssumption ==
  /\ Root \in User /\ IdleTimeout \in Nat \ {0}
  /\ MaxToken \in Nat /\ MaxHash \in Nat \ {0} /\ MaxTime \in Nat /\ MaxRestarts \in Nat

VARIABLES
  now,       \* datetime.utcnow()
  users,     \* rows of users
  session,   \* session[t]: the row of user_sessions of token t
  cookie,    \* cookie[b]: the signed session cookie of browser b
  req,       \* req[h]: the request handler h serves
  nextToken, \* the next token secrets.token_urlsafe draws
  nextHash,  \* the next password hash
  restarts

vars == <<now, users, session, cookie, req, nextToken, nextHash, restarts>>
counters == <<now, nextToken, nextHash, restarts>>

Token == 1..MaxToken
Hash == 0..MaxHash

NoUser == [exists |-> FALSE, born |-> FALSE, active |-> FALSE, admin |-> FALSE, hash |-> 0]

\* current is no column: the password in force when the row was inserted.
NoSession == [user |-> Root, hash |-> 0, expires |-> 0, current |-> 0]
NoCookie == [user |-> Root, token |-> 0, last |-> 0]

\* `removed`: the token of the cookie had been removed when the request began.
\* `doomed`: the session rows its open transaction has deleted.
Idle == [pc |-> "idle", browser |-> CHOOSE b \in Browser : TRUE, cookie |-> NoCookie,
         user |-> Root, hash |-> 0, at |-> 0, removed |-> FALSE,
         doomed |-> {}, from |-> NoUser, to |-> NoUser]

Init ==
  /\ now = 0
  /\ users = [u \in User |-> IF u = Root
                THEN [exists |-> TRUE, born |-> TRUE, active |-> TRUE, admin |-> TRUE, hash |-> 1]
                ELSE NoUser]
  /\ session = [t \in Token |-> NoSession]
  /\ cookie = [b \in Browser |-> NoCookie]
  /\ req = [h \in Handler |-> Idle]
  /\ nextToken = 1 /\ nextHash = 2 /\ restarts = 0

Present(t) == t \in Token /\ session[t] # NoSession
Locked(t) == \E h \in Handler : t \in req[h].doomed
Without(S) == [t \in Token |-> IF t \in S THEN NoSession ELSE session[t]]
Of(u) == {t \in Token : Present(t) /\ session[t].user = u}
-----------------------------------------------------------------------------
(* Every page: require_user and session_user.                              *)

\* The cookie's own idle check, then the read of the user.
OpenPage(h, b) ==
  /\ req[h].pc = "idle" /\ cookie[b] # NoCookie
  /\ LET c == cookie[b]
         stale == now - c.last > IdleTimeout
         ok == ~stale /\ users[c.user].exists /\ users[c.user].active
     IN req' = [req EXCEPT ![h] = [Idle EXCEPT
          !.pc = IF ok THEN "touch" ELSE "refused", !.browser = b, !.cookie = c,
          !.user = c.user, !.hash = users[c.user].hash, !.at = now,
          !.removed = ~Present(c.token)]]
  /\ UNCHANGED <<users, session, cookie, counters>>

\* Mutant: the stored hash of the password is not compared.
AcceptedByToken(t, u, hash, at) ==
  Present(t) /\ session[t].user = u /\ session[t].expires > at

\* The WHERE of the UPDATE in session_user.
Accepted(t, u, hash, at) ==
  Present(t) /\ session[t].user = u /\ session[t].hash = hash /\ session[t].expires > at

\* Mutant: an ORM object read earlier is written back, row or no row.
TouchedMerged(h) ==
  IF req[h].cookie.token \in Token
  THEN [session EXCEPT ![req[h].cookie.token] =
          [user |-> req[h].user, hash |-> req[h].hash, expires |-> req[h].at + IdleTimeout,
           current |-> req[h].hash]]
  ELSE session

\* The rows the UPDATE leaves: it changes a row or none.
Touched(h) ==
  LET t == req[h].cookie.token
  IN IF Accepted(t, req[h].user, req[h].hash, req[h].at)
     THEN [session EXCEPT ![t].expires = req[h].at + IdleTimeout] ELSE session

\* Mutant: the row count is not looked at.
ServesAnyone(h) == TRUE

\* touched.rowcount == 1
Serves(h) == Accepted(req[h].cookie.token, req[h].user, req[h].hash, req[h].at)

Touch(h) ==
  /\ req[h].pc = "touch" /\ ~Locked(req[h].cookie.token)
  /\ session' = Touched(h)
  /\ req' = [req EXCEPT ![h].pc = IF Serves(h) THEN "served" ELSE "refused"]
  /\ UNCHANGED <<users, cookie, counters>>

\* The response: a new last_activity, or request.session.clear().
Respond(h) ==
  /\ req[h].pc \in {"served", "refused"}
  /\ cookie' = [cookie EXCEPT ![req[h].browser] =
       IF req[h].pc = "served" THEN [req[h].cookie EXCEPT !.last = req[h].at] ELSE NoCookie]
  /\ req' = [req EXCEPT ![h] = Idle]
  /\ UNCHANGED <<users, session, counters>>
-----------------------------------------------------------------------------
(* Login and logout.                                                       *)

TokensLeft ==
  nextToken + Cardinality({h \in Handler : req[h].pc \in {"verified", "issue", "insert"}})
    <= MaxToken

\* authenticate_user: the password matches the hash of an active user.
Login(h, b, u, password) ==
  /\ req[h].pc = "idle" /\ TokensLeft
  /\ users[u].exists /\ users[u].active /\ users[u].hash = password
  /\ req' = [req EXCEPT ![h] = [Idle EXCEPT !.pc = "verified", !.browser = b,
               !.cookie = cookie[b], !.user = u]]
  /\ UNCHANGED <<users, session, cookie, counters>>

\* revoke_session of the session the cookie still named.
RevokeOld(h) ==
  /\ req[h].pc = "verified" /\ ~Locked(req[h].cookie.token)
  /\ session' = Without({req[h].cookie.token})
  /\ req' = [req EXCEPT ![h].pc = "issue"]
  /\ UNCHANGED <<users, cookie, counters>>

\* issue_session up to its INSERT: the DELETE of expired rows, and the user,
\* expired by the commits above, is read again.
IssueRead(h) ==
  LET expired == {t \in Token : Present(t) /\ session[t].expires <= now}
  IN /\ req[h].pc = "issue" /\ \A t \in expired : ~Locked(t)
     /\ req' = [req EXCEPT ![h] =
          IF users[req[h].user].exists
          THEN [@ EXCEPT !.pc = "insert", !.hash = users[req[h].user].hash, !.at = now,
                         !.doomed = expired]
          ELSE Idle]
     /\ UNCHANGED <<users, session, cookie, counters>>

\* The INSERT and the commit; the foreign key fails both for a deleted user.
IssueCommit(h) ==
  LET u == req[h].user
  IN /\ req[h].pc = "insert"
     /\ \/ /\ users[u].exists
           /\ session' = [Without(req[h].doomed) EXCEPT ![nextToken] =
                [user |-> u, hash |-> req[h].hash, expires |-> req[h].at + IdleTimeout,
                 current |-> users[u].hash]]
           /\ cookie' = [cookie EXCEPT ![req[h].browser] =
                [user |-> u, token |-> nextToken, last |-> now]]
           /\ nextToken' = nextToken + 1
        \/ ~users[u].exists /\ UNCHANGED <<session, cookie, nextToken>>
     /\ req' = [req EXCEPT ![h] = Idle]
     /\ UNCHANGED <<users, now, nextHash, restarts>>

Logout(b) ==
  /\ ~Locked(cookie[b].token)
  /\ session' = Without({cookie[b].token})
  /\ cookie' = [cookie EXCEPT ![b] = NoCookie]
  /\ UNCHANGED <<users, req, counters>>
-----------------------------------------------------------------------------
(* The administrator's changes, and the start of the web process.          *)

\* create_user: a row with a hash of its own.
NewUser(active, admin) ==
  [exists |-> TRUE, born |-> TRUE, active |-> active, admin |-> admin, hash |-> nextHash]

CreateUser(u, checked) ==
  /\ ~users[u].born /\ nextHash <= MaxHash
  /\ users' = [users EXCEPT ![u] = NewUser(checked, FALSE)]
  /\ nextHash' = nextHash + 1
  /\ UNCHANGED <<now, session, cookie, req, nextToken, restarts>>

\* Mutant: the form decides for administrators as well.
ActiveAsAsked(u, checked) == checked

\* is_active as the form sets it: an administrator cannot be switched off.
ActiveAfter(u, checked) == users[u].admin \/ checked

\* admin_update_user up to its commit: revoke_user_sessions deletes at once.
UpdateUser(h, u, checked, newPassword) ==
  LET to == [users[u] EXCEPT !.active = ActiveAfter(u, checked),
                             !.hash = IF newPassword THEN nextHash ELSE @]
      revoked == IF newPassword \/ ~to.active THEN Of(u) ELSE {}
  IN /\ req[h].pc = "idle" /\ users[u].exists
     /\ newPassword => nextHash <= MaxHash
     /\ \A t \in revoked : ~Locked(t)
     /\ req' = [req EXCEPT ![h] = [Idle EXCEPT !.pc = "update", !.user = u,
                  !.from = users[u], !.to = to, !.doomed = revoked]]
     /\ nextHash' = IF newPassword THEN nextHash + 1 ELSE nextHash
     /\ UNCHANGED <<now, users, session, cookie, nextToken, restarts>>

\* Its commit writes the columns it changed; without the row it fails.
UpdateCommit(h) ==
  LET u == req[h].user  from == req[h].from  to == req[h].to
  IN /\ req[h].pc = "update"
     /\ IF users[u].exists
        THEN /\ users' = [users EXCEPT
                  ![u].active = IF from.active # to.active THEN to.active ELSE @,
                  ![u].hash = IF from.hash # to.hash THEN to.hash ELSE @]
             /\ session' = Without(req[h].doomed)
        ELSE UNCHANGED <<users, session>>
     /\ req' = [req EXCEPT ![h] = Idle]
     /\ UNCHANGED <<cookie, counters>>

\* Mutant: administrators can be deleted.
Deletable(u) == users[u].exists
MayDelete(u) == users[u].exists /\ ~users[u].admin

\* Mutant: the rows outlive their user.
CascadedNot(u) == session

\* ON DELETE CASCADE of user_sessions.
Cascaded(u) == Without(Of(u))

DeleteUser(u) ==
  /\ MayDelete(u) /\ \A t \in Of(u) : ~Locked(t)
  /\ users' = [users EXCEPT ![u] = [NoUser EXCEPT !.born = TRUE]]
  /\ session' = Cascaded(u)
  /\ UNCHANGED <<cookie, req, counters>>

\* bootstrap_initial_admin at a start whose environment names u; requests on
\* their way die with the old process.
Restart(u) ==
  /\ restarts < MaxRestarts /\ restarts' = restarts + 1
  /\ \/ users[u].exists /\ UNCHANGED nextHash
     \/ ~users[u].born /\ nextHash <= MaxHash /\ nextHash' = nextHash + 1
  /\ users' = [v \in User |->
       IF v # u THEN [users[v] EXCEPT !.admin = FALSE]
       ELSE IF users[u].exists THEN [users[u] EXCEPT !.active = TRUE, !.admin = TRUE]
       ELSE NewUser(TRUE, TRUE)]
  /\ req' = [h \in Handler |-> Idle]
  /\ UNCHANGED <<now, session, cookie, nextToken>>

Tick ==
  /\ now < MaxTime /\ now' = now + 1
  /\ UNCHANGED <<users, session, cookie, req, nextToken, nextHash, restarts>>

Next ==
  \/ \E h \in Handler :
       \/ Touch(h) \/ Respond(h) \/ RevokeOld(h) \/ IssueRead(h) \/ IssueCommit(h)
       \/ UpdateCommit(h)
       \/ \E b \in Browser : OpenPage(h, b) \/ \E u \in User, p \in Hash : Login(h, b, u, p)
       \/ \E u \in User, checked, new \in BOOLEAN : UpdateUser(h, u, checked, new)
  \/ \E b \in Browser : Logout(b)
  \/ \E u \in User, checked \in BOOLEAN : CreateUser(u, checked)
  \/ \E u \in User : DeleteUser(u) \/ Restart(u)
  \/ Tick

Spec == Init /\ [][Next]_vars
-----------------------------------------------------------------------------
(* Properties.                                                             *)

UserRow == [exists : BOOLEAN, born : BOOLEAN, active : BOOLEAN, admin : BOOLEAN, hash : Hash]

\* The types, and what ties them: a row is one of a token drawn, belongs to a
\* user that exists, and no two open transactions have deleted the same row.
TypeOK ==
  /\ now \in 0..MaxTime
  /\ users \in [User -> UserRow]
  /\ \A t \in Token : Present(t) =>
       /\ t < nextToken /\ users[session[t].user].exists
       /\ session[t].hash \in 1..(nextHash - 1)
  /\ cookie \in [Browser -> [user : User, token : 0..(nextToken - 1), last : 0..now]]
  /\ \A g, h \in Handler : g # h => req[g].doomed \cap req[h].doomed = {}

\* A session that has been removed, by a logout, a change of the account or
\* its expiry, never comes back, whatever requests were on their way
\* (the comment in session_user: UPDATE cannot recreate a row).
RemovedIsFinal ==
  [][\A t \in Token : t < nextToken /\ ~Present(t) => ~Present(t)']_vars

\* No page is served to a cookie whose session had been removed before the
\* request began, although another response may have put the cookie back.
ServedHasSession == \A h \in Handler : req[h].pc = "served" => ~req[h].removed

\* A session a page would accept was issued under the password in force now: a
\* row that a racing login inserts after a change of the password is dead
\* (credential_hash in issue_session and session_user).
IssuedUnderThisPassword ==
  \A t \in Token : \A u \in User :
    users[u].exists /\ users[u].active /\ Accepted(t, u, users[u].hash, now)
      => session[t].current = users[u].hash

\* Nothing the web interface or a restart does leaves nobody to administer.
AdminRemains == \E u \in User : users[u].exists /\ users[u].active /\ users[u].admin
=============================================================================
