---------------------------- MODULE SessionsProofs ----------------------------
(***************************************************************************)
(* Proofs about Sessions, for any users, browsers, requests at a time,     *)
(* timeout and bounds.                                                     *)
(***************************************************************************)
EXTENDS Sessions, TLAPS

(***************************************************************************)
(* The inductive invariant.                                                *)
(***************************************************************************)

Pc == {"idle", "touch", "served", "refused", "verified", "issue", "insert", "update"}
Cookie == [user : User, token : Nat, last : Nat]
SessionRow == [user : User, hash : Hash, expires : Nat, current : Hash]
Request ==
  [pc : Pc, browser : Browser \cup {CHOOSE b \in Browser : TRUE}, cookie : Cookie,
   user : User, hash : Hash, at : Nat, removed : BOOLEAN, doomed : SUBSET Token,
   from : UserRow, to : UserRow]

Types ==
  /\ now \in 0..MaxTime /\ nextToken \in Nat \ {0} /\ nextHash \in 2..(MaxHash + 1)
  /\ users \in [User -> UserRow]
  /\ session \in [Token -> SessionRow]
  /\ cookie \in [Browser -> Cookie]
  /\ req \in [Handler -> Request]

\* A password in use has been drawn; an account that exists has one.
UsersOK ==
  \A u \in User : /\ users[u].hash < nextHash
                  /\ users[u].exists => users[u].born /\ users[u].hash # 0

\* A session belongs to a user that exists and, if its hash is still the user's,
\* was inserted when it was.
SessionsOK ==
  \A t \in Token : Present(t) =>
    /\ t < nextToken /\ users[session[t].user].exists
    /\ session[t].hash # 0 /\ session[t].hash < nextHash
    /\ session[t].hash = users[session[t].user].hash => session[t].current = session[t].hash

CookiesOK == \A b \in Browser : cookie[b].token < nextToken /\ cookie[b].last <= now

\* A change of the password that has not been committed.
Pending(r) == r.pc = "update" /\ r.from.hash # r.to.hash

\* A request holds what was drawn before; a page whose session was gone at its
\* start is not served; an administrator is not switched off; and a password on
\* its way to the row is nobody's yet.
RequestOK(r) ==
  /\ r.cookie.token < nextToken /\ r.cookie.last <= now /\ r.at <= now
  /\ r.hash < nextHash /\ r.to.hash < nextHash
  /\ r.pc = "insert" => r.hash # 0
  /\ r.pc = "touch" /\ r.removed => ~Present(r.cookie.token)
  /\ r.pc = "served" => ~r.removed
  /\ r.pc = "update" /\ users[r.user].admin => r.to.active
  /\ Pending(r) => /\ r.to.hash # 0
                   /\ \A u \in User : users[u].hash # r.to.hash
                   /\ \A t \in Token : Present(t) => session[t].hash # r.to.hash

\* Two requests at a time hold different locks and different new passwords.
Apart(r, s) ==
  /\ r.doomed \cap s.doomed = {}
  /\ Pending(r) => s.hash # r.to.hash /\ (Pending(s) => s.to.hash # r.to.hash)

RequestsOK == \A h \in Handler : RequestOK(req[h])
PairsOK == \A g, h \in Handler : g # h => Apart(req[g], req[h])

Inv ==
  /\ Types /\ UsersOK /\ SessionsOK /\ CookiesOK /\ RequestsOK /\ PairsOK
  /\ AdminRemains

\* What RemovedIsFinal says of a step.
StaysRemoved == \A t \in Token : t < nextToken /\ ~Present(t) => ~Present(t)'

(***************************************************************************)
(* What every step leaves to the requests it does not serve.               *)
(***************************************************************************)

\* Time and the counters only grow, no session that has been removed comes
\* back, and nobody becomes an administrator.
Later ==
  /\ now' \in Nat /\ now <= now' /\ nextToken' \in Nat /\ nextToken <= nextToken'
  /\ nextHash' \in Nat /\ nextHash <= nextHash'
  /\ StaysRemoved
  /\ \A u \in User : users'[u].admin => users[u].admin

\* Nobody takes the new password of a change that is on its way.
Unused(r) ==
  Pending(r) => /\ \A u \in User : users'[u].hash # r.to.hash
                /\ \A t \in Token : Present(t)' => session'[t].hash # r.to.hash

\* A request that a step does not serve stays as the invariant has it.
LEMMA OtherRequest ==
  ASSUME Inv, Later, NEW g \in Handler, req'[g] = req[g], Unused(req[g])
  PROVE  RequestOK(req[g])'
<1>1. /\ req[g] \in Request /\ now \in Nat /\ nextToken \in Nat /\ nextHash \in Nat
      /\ RequestOK(req[g])
  BY DEF Inv, Types, RequestsOK
<1>2. /\ req[g].cookie.token \in Nat /\ req[g].cookie.last \in Nat /\ req[g].at \in Nat
      /\ req[g].hash \in Nat /\ req[g].to.hash \in Nat /\ req[g].user \in User
  BY <1>1 DEF Request, Cookie, UserRow, Hash
<1>3. Present(req[g].cookie.token)' => Present(req[g].cookie.token)
  BY <1>1, <1>2 DEF Later, StaysRemoved, Present, RequestOK
<1>. QED  BY <1>1, <1>2, <1>3 DEF RequestOK, Later, StaysRemoved, Unused, Pending

\* Handler h goes on with the request r; the others stay.
LEMMA OneRequest ==
  ASSUME Inv, Later, NEW h \in Handler, NEW r \in Request, req' = [req EXCEPT ![h] = r],
         RequestOK(r)',
         \A g \in Handler : g # h => Unused(req[g]) /\ Apart(req[g], r) /\ Apart(r, req[g])
  PROVE  req' \in [Handler -> Request] /\ RequestsOK' /\ PairsOK'
<1>1. req \in [Handler -> Request] /\ PairsOK  BY DEF Inv, Types
<1>2. \A g \in Handler : req'[g] = IF g = h THEN r ELSE req[g]  BY <1>1
<1>3. req' \in [Handler -> Request]  BY <1>1
<1>4. RequestsOK'
  <2>. SUFFICES ASSUME NEW g \in Handler PROVE RequestOK(req[g])'  BY DEF RequestsOK
  <2>1. CASE g = h
    <3>1. req'[g] = r  BY <1>2, <2>1
    <3>. QED  BY <3>1 DEF RequestOK, Present, Pending
  <2>2. CASE g # h  BY <1>2, <2>2, OtherRequest
  <2>. QED  BY <2>1, <2>2
<1>5. PairsOK'
  <2>. SUFFICES ASSUME NEW f \in Handler, NEW g \in Handler, f # g
                PROVE  Apart(req[f], req[g])'
    BY DEF PairsOK
  <2>1. Apart(req'[f], req'[g])  BY <1>1, <1>2 DEF PairsOK
  <2>. QED  BY <2>1 DEF Apart, Pending
<1>. QED  BY <1>3, <1>4, <1>5

\* No request goes on.
LEMMA NoRequest ==
  ASSUME Inv, Later, req' = req, \A g \in Handler : Unused(req[g])
  PROVE  req' \in [Handler -> Request] /\ RequestsOK' /\ PairsOK'
<1>1. req' \in [Handler -> Request] /\ PairsOK'
  BY DEF Inv, Types, PairsOK, Apart, Pending
<1>2. RequestsOK'  BY OtherRequest DEF RequestsOK
<1>. QED  BY <1>1, <1>2

\* What a handler holds when it serves nothing.
LEMMA IdleRequest ==
  ASSUME Inv
  PROVE  /\ Idle \in Request /\ NoUser \in UserRow /\ NoCookie \in Cookie
         /\ NoSession \in SessionRow
         /\ \A g \in Handler : Apart(req[g], Idle) /\ Apart(Idle, req[g])
         /\ Later => RequestOK(Idle)'
<1>1. 0 \in Hash /\ Root \in User /\ MaxHash \in Nat  BY SessionsAssumption DEF Hash
<1>2. NoUser \in UserRow /\ NoCookie \in Cookie /\ NoSession \in SessionRow
  BY <1>1 DEF NoUser, UserRow, NoCookie, Cookie, NoSession, SessionRow
<1>3. Idle \in Request  BY <1>1, <1>2 DEF Idle, Request, Pc
<1>4. ASSUME NEW g \in Handler PROVE Apart(req[g], Idle) /\ Apart(Idle, req[g])
  <2>1. ~Pending(Idle) /\ Idle.doomed = {} /\ Idle.hash = 0  BY DEF Idle, Pending
  <2>2. Pending(req[g]) => req[g].to.hash # 0  BY DEF Inv, RequestsOK, RequestOK
  <2>. QED  BY <2>1, <2>2 DEF Apart
<1>5. ASSUME Later PROVE RequestOK(Idle)'
  <2>1. now \in Nat /\ nextToken \in Nat \ {0} /\ nextHash \in 2..(MaxHash + 1)
    BY SessionsAssumption DEF Inv, Types
  <2>. QED  BY <2>1, <1>5, <1>1 DEF Later, StaysRemoved, RequestOK, Idle, Pending, NoUser, NoCookie
<1>. QED  BY <1>2, <1>3, <1>4, <1>5

\* A step that leaves the accounts alone, adds no session of a hash on its way
\* and draws no password leaves every change of a password as it was.
LEMMA UnusedStays ==
  ASSUME Inv, users' = users, NEW g \in Handler,
         \A t \in Token : Present(t)' =>
           (Present(t) /\ session'[t].hash = session[t].hash)
           \/ (Pending(req[g]) => session'[t].hash # req[g].to.hash)
  PROVE  Unused(req[g])
BY DEF Inv, RequestsOK, RequestOK, Unused

\* The rows that are still there are rows that were there, of the same user
\* and password.
Kept ==
  \A t \in Token : Present(t)' =>
    /\ Present(t) /\ session'[t].user = session[t].user
    /\ session'[t].hash = session[t].hash /\ session'[t].current = session[t].current

LEMMA KeptSessions ==
  ASSUME Inv, users' = users, nextToken' = nextToken, nextHash' \in Nat,
         nextHash <= nextHash', Kept
  PROVE  SessionsOK' /\ \A t \in Token : ~Present(t) => ~Present(t)'
<1>1. nextHash \in Nat /\ nextToken \in Nat /\ session \in [Token -> SessionRow]
  BY SessionsAssumption DEF Inv, Types
<1>2. \A t \in Token : session[t].hash \in Nat  BY <1>1 DEF SessionRow, Hash
<1>3. SessionsOK'
  <2>. SUFFICES ASSUME NEW t \in Token, Present(t)'
                PROVE  /\ t < nextToken' /\ users'[session'[t].user].exists
                       /\ session'[t].hash # 0 /\ session'[t].hash < nextHash'
                       /\ session'[t].hash = users'[session'[t].user].hash
                            => session'[t].current = session'[t].hash
    BY DEF SessionsOK
  <2>1. /\ Present(t) /\ session'[t].user = session[t].user
        /\ session'[t].hash = session[t].hash /\ session'[t].current = session[t].current
    BY DEF Kept
  <2>2. /\ t < nextToken /\ users[session[t].user].exists
        /\ session[t].hash # 0 /\ session[t].hash < nextHash
        /\ session[t].hash = users[session[t].user].hash
             => session[t].current = session[t].hash
    BY <2>1 DEF Inv, SessionsOK
  <2>. QED  BY <1>1, <1>2, <2>1, <2>2
<1>4. ASSUME NEW t \in Token, ~Present(t) PROVE ~Present(t)'  BY <1>4 DEF Kept
<1>. QED  BY <1>3, <1>4

\* Removing rows keeps the rest as they were.
LEMMA WithoutKeeps ==
  ASSUME Inv, NEW S, session' = Without(S)
  PROVE  /\ Kept /\ session' \in [Token -> SessionRow]
         /\ \A t \in Token : t \in S => ~Present(t)'
<1>1. session \in [Token -> SessionRow] /\ NoSession \in SessionRow
  BY IdleRequest DEF Inv, Types
<1>2. \A t \in Token : session'[t] = IF t \in S THEN NoSession ELSE session[t]
  BY DEF Without
<1>3. Kept  BY <1>2 DEF Kept, Present
<1>4. session' \in [Token -> SessionRow]  BY <1>1 DEF Without
<1>5. \A t \in Token : t \in S => ~Present(t)'  BY <1>2 DEF Present
<1>. QED  BY <1>3, <1>4, <1>5

\* A step of one request that keeps the accounts, the time and the tokens.
LEMMA QuietStep ==
  ASSUME Inv, NEW h \in Handler, NEW r \in Request, req' = [req EXCEPT ![h] = r],
         UNCHANGED <<now, users, nextToken>>,
         nextHash' \in 2..(MaxHash + 1), nextHash <= nextHash',
         Kept, session' \in [Token -> SessionRow],
         cookie' \in [Browser -> Cookie], CookiesOK', RequestOK(r)',
         \A g \in Handler : g # h => Apart(req[g], r) /\ Apart(r, req[g])
  PROVE  Inv' /\ StaysRemoved
<1>1. /\ now \in 0..MaxTime /\ nextToken \in Nat \ {0} /\ nextHash \in 2..(MaxHash + 1)
      /\ users \in [User -> UserRow] /\ MaxHash \in Nat /\ MaxTime \in Nat
  BY SessionsAssumption DEF Inv, Types
<1>2. SessionsOK' /\ \A t \in Token : ~Present(t) => ~Present(t)'
  BY <1>1, KeptSessions
<1>3. Later  BY <1>1, <1>2 DEF Later, StaysRemoved
<1>4. \A g \in Handler : Unused(req[g])  BY UnusedStays DEF Kept
<1>5. req' \in [Handler -> Request] /\ RequestsOK' /\ PairsOK'
  BY <1>3, <1>4, OneRequest
<1>6. Types'  BY <1>1, <1>5 DEF Types
<1>7. UsersOK'
  <2>1. \A u \in User : users[u].hash \in Nat  BY <1>1 DEF UserRow, Hash
  <2>. QED  BY <1>1, <2>1 DEF Inv, UsersOK
<1>8. AdminRemains'  BY DEF Inv, AdminRemains
<1>. QED  BY <1>2, <1>5, <1>6, <1>7, <1>8 DEF Inv, StaysRemoved

\* The same when nothing but the request changes.
LEMMA RequestStep ==
  ASSUME Inv, NEW h \in Handler, NEW r \in Request, req' = [req EXCEPT ![h] = r],
         UNCHANGED <<users, session, cookie, counters>>, RequestOK(r),
         \A g \in Handler : g # h => Apart(req[g], r) /\ Apart(r, req[g])
  PROVE  Inv' /\ StaysRemoved
<1>1. UNCHANGED <<now, users, nextToken, nextHash, session, cookie>>  BY DEF counters
<1>2. Kept /\ session' \in [Token -> SessionRow] /\ cookie' \in [Browser -> Cookie]
  BY <1>1 DEF Kept, Present, Inv, Types
<1>3. CookiesOK'  BY <1>1 DEF Inv, CookiesOK
<1>4. RequestOK(r)'  BY <1>1 DEF RequestOK, Present, Pending
<1>5. nextHash' \in 2..(MaxHash + 1) /\ nextHash <= nextHash'
  BY <1>1, SessionsAssumption DEF Inv, Types
<1>. QED  BY <1>1, <1>2, <1>3, <1>4, <1>5, QuietStep

-----------------------------------------------------------------------------
(***************************************************************************)
(* Every step keeps the invariant.                                         *)
(***************************************************************************)

LEMMA OpenPageKeeps ==
  ASSUME Inv, NEW h \in Handler, NEW b \in Browser, OpenPage(h, b)
  PROVE  Inv' /\ StaysRemoved
<1>1. /\ cookie[b] \in Cookie /\ users \in [User -> UserRow] /\ now \in 0..MaxTime
      /\ nextToken \in Nat \ {0} /\ nextHash \in 2..(MaxHash + 1)
      /\ cookie[b].user \in User /\ users[cookie[b].user].hash \in Hash
      /\ users[cookie[b].user].hash < nextHash
      /\ cookie[b].token < nextToken /\ cookie[b].last <= now /\ now \in Nat
  BY SessionsAssumption DEF Inv, Types, Cookie, UserRow, CookiesOK, UsersOK
<1>2. /\ Idle \in Request /\ \A g \in Handler : Apart(req[g], Idle) /\ Apart(Idle, req[g])
  BY IdleRequest
<1>3. PICK pc \in {"touch", "refused"} :
        req' = [req EXCEPT ![h] = [Idle EXCEPT
          !.pc = pc, !.browser = b, !.cookie = cookie[b],
          !.user = cookie[b].user, !.hash = users[cookie[b].user].hash, !.at = now,
          !.removed = ~Present(cookie[b].token)]]
  BY DEF OpenPage
<1>4. PICK r \in Request : r = [Idle EXCEPT
          !.pc = pc, !.browser = b, !.cookie = cookie[b],
          !.user = cookie[b].user, !.hash = users[cookie[b].user].hash, !.at = now,
          !.removed = ~Present(cookie[b].token)]
  BY <1>1, <1>2 DEF Request, Pc
<1>5. /\ req' = [req EXCEPT ![h] = r]
      /\ UNCHANGED <<users, session, cookie, counters>>
  BY <1>3, <1>4 DEF OpenPage
<1>6. RequestOK(r)
  <2>1. /\ r.cookie = cookie[b] /\ r.at = now /\ r.hash = users[cookie[b].user].hash
        /\ r.to.hash = 0 /\ r.pc \in {"touch", "refused"}
        /\ r.removed => ~Present(cookie[b].token)
    BY <1>4, <1>2, <1>3 DEF Request, Idle, NoUser
  <2>. QED  BY <2>1, <1>1 DEF RequestOK, Pending
<1>7. ASSUME NEW g \in Handler
      PROVE  Apart(req[g], r) /\ Apart(r, req[g])
  <2>1. Pending(req[g]) => users[cookie[b].user].hash # req[g].to.hash
    BY <1>1 DEF Inv, RequestsOK, RequestOK, Cookie
  <2>2. ~Pending(r) /\ r.doomed = {} /\ r.hash = users[cookie[b].user].hash
    BY <1>4, <1>2, <1>3 DEF Request, Idle, Pending
  <2>. QED  BY <2>1, <2>2 DEF Apart
<1>. QED  BY <1>5, <1>6, <1>7, RequestStep

LEMMA TouchKeeps ==
  ASSUME Inv, NEW h \in Handler, Touch(h)
  PROVE  Inv' /\ StaysRemoved
<1>1. /\ req[h] \in Request /\ session \in [Token -> SessionRow] /\ now \in Nat
      /\ nextToken \in Nat /\ nextHash \in Nat /\ nextToken > 0 /\ nextHash > 0
      /\ RequestOK(req[h]) /\ req[h].pc = "touch" /\ IdleTimeout \in Nat
  BY SessionsAssumption DEF Inv, Types, RequestsOK, Touch
<1>2. PICK pc \in {"served", "refused"} :
        /\ req' = [req EXCEPT ![h].pc = pc]
        /\ pc = "served" => Present(req[h].cookie.token)
  BY DEF Touch, Serves, Accepted
<1>3. PICK r \in Request : r = [req[h] EXCEPT !.pc = pc]  BY <1>1, <1>2 DEF Request, Pc
<1>4. /\ req' = [req EXCEPT ![h] = r] /\ session' = Touched(h)
      /\ UNCHANGED <<now, users, cookie, nextToken, nextHash, restarts>>
  BY <1>2, <1>3 DEF Touch, counters
<1>5. /\ Kept /\ session' \in [Token -> SessionRow]
  <2>1. CASE session' = session  BY <2>1, <1>1 DEF Kept, Present
  <2>2. CASE session' # session
    <3>1. PICK t \in Token :
            /\ Present(t)
            /\ session' = [session EXCEPT ![t].expires = req[h].at + IdleTimeout]
      BY <1>4, <2>2 DEF Touched, Accepted, Present
    <3>2. req[h].at + IdleTimeout \in Nat  BY <1>1 DEF Request
    <3>3. session' \in [Token -> SessionRow]  BY <1>1, <3>1, <3>2 DEF SessionRow
    <3>4. \A s \in Token : IF s = t
            THEN session'[s] = [session[s] EXCEPT !.expires = req[h].at + IdleTimeout]
            ELSE session'[s] = session[s]
      BY <1>1, <3>1
    <3>5. Kept  BY <1>1, <3>1, <3>4 DEF Kept, Present, SessionRow
    <3>. QED  BY <3>3, <3>5
  <2>. QED  BY <2>1, <2>2
<1>6. RequestOK(r)'
  <2>1. /\ r.cookie = req[h].cookie /\ r.at = req[h].at /\ r.hash = req[h].hash
        /\ r.to = req[h].to /\ r.pc \in {"served", "refused"} /\ r.removed = req[h].removed
    BY <1>1, <1>2, <1>3 DEF Request
  <2>2. r.pc = "served" => ~r.removed
    BY <1>1, <1>2, <1>3, <2>1 DEF RequestOK, Request
  <2>. QED  BY <2>1, <2>2, <1>1, <1>4 DEF RequestOK, Pending
<1>7. ASSUME NEW g \in Handler, g # h
      PROVE  Apart(req[g], r) /\ Apart(r, req[g])
  <2>1. ~Pending(r) /\ r.doomed = req[h].doomed /\ r.hash = req[h].hash
    BY <1>1, <1>2, <1>3 DEF Request, Pending
  <2>2. ~Pending(req[h]) /\ Apart(req[g], req[h]) /\ Apart(req[h], req[g])
    BY <1>1, <1>7 DEF Pending, Inv, PairsOK
  <2>. QED  BY <2>1, <2>2 DEF Apart
<1>8. /\ nextHash' \in 2..(MaxHash + 1) /\ nextHash <= nextHash'
      /\ cookie' \in [Browser -> Cookie] /\ CookiesOK'
  BY <1>1, <1>4 DEF Inv, Types, CookiesOK
<1>. QED  BY <1>4, <1>5, <1>6, <1>7, <1>8, QuietStep

LEMMA RespondKeeps ==
  ASSUME Inv, NEW h \in Handler, Respond(h)
  PROVE  Inv' /\ StaysRemoved
<1>1. /\ req[h] \in Request /\ RequestOK(req[h]) /\ now \in Nat
      /\ nextToken \in Nat \ {0} /\ nextHash \in Nat \ {0}
      /\ cookie \in [Browser -> Cookie]
  BY SessionsAssumption DEF Inv, Types, RequestsOK
<1>2. /\ req' = [req EXCEPT ![h] = Idle]
      /\ UNCHANGED <<now, users, session, nextToken, nextHash>>
  BY DEF Respond, counters
<1>3. PICK c \in Cookie :
        /\ cookie' = [cookie EXCEPT ![req[h].browser] = c]
        /\ c.token < nextToken /\ c.last <= now
  <2>1. /\ NoCookie \in Cookie /\ NoCookie.token < nextToken /\ NoCookie.last <= now
    BY <1>1, IdleRequest DEF NoCookie
  <2>2. /\ [req[h].cookie EXCEPT !.last = req[h].at] \in Cookie
        /\ [req[h].cookie EXCEPT !.last = req[h].at].token < nextToken
        /\ [req[h].cookie EXCEPT !.last = req[h].at].last <= now
    BY <1>1 DEF Request, Cookie, RequestOK
  <2>. QED  BY <2>1, <2>2 DEF Respond
<1>4. cookie' \in [Browser -> Cookie] /\ CookiesOK'
  BY <1>1, <1>2, <1>3 DEF CookiesOK, Inv
<1>5. Kept /\ session' \in [Token -> SessionRow] /\ nextHash' \in 2..(MaxHash + 1)
      /\ nextHash <= nextHash'
  BY <1>1, <1>2 DEF Kept, Present, Inv, Types
<1>6. /\ Idle \in Request /\ \A g \in Handler : Apart(req[g], Idle) /\ Apart(Idle, req[g])
  BY IdleRequest
<1>7. RequestOK(Idle)'
  <2>1. Later  BY <1>1, <1>2 DEF Later, StaysRemoved, Present
  <2>. QED  BY <2>1, IdleRequest
<1>. QED  BY <1>2, <1>4, <1>5, <1>6, <1>7, QuietStep

LEMMA LoginKeeps ==
  ASSUME Inv, NEW h \in Handler, NEW b \in Browser, NEW u \in User, NEW p \in Hash,
         Login(h, b, u, p)
  PROVE  Inv' /\ StaysRemoved
<1>1. /\ cookie[b] \in Cookie /\ now \in Nat /\ nextToken \in Nat \ {0}
      /\ nextHash \in Nat \ {0} /\ cookie[b].token < nextToken /\ cookie[b].last <= now
  BY SessionsAssumption DEF Inv, Types, CookiesOK
<1>2. /\ Idle \in Request /\ \A g \in Handler : Apart(req[g], Idle) /\ Apart(Idle, req[g])
  BY IdleRequest
<1>3. PICK r \in Request :
        r = [Idle EXCEPT !.pc = "verified", !.browser = b, !.cookie = cookie[b], !.user = u]
  BY <1>1, <1>2 DEF Request, Pc
<1>4. req' = [req EXCEPT ![h] = r] /\ UNCHANGED <<users, session, cookie, counters>>
  BY <1>3 DEF Login
<1>5. /\ r.cookie = cookie[b] /\ r.at = 0 /\ r.hash = 0 /\ r.to.hash = 0
      /\ r.pc = "verified" /\ r.doomed = {}
  BY <1>3 DEF Idle, NoUser
<1>6. RequestOK(r)  BY <1>1, <1>5 DEF RequestOK, Pending
<1>7. ASSUME NEW g \in Handler PROVE Apart(req[g], r) /\ Apart(r, req[g])
  <2>1. Idle.hash = 0 /\ Apart(req[g], Idle)  BY <1>2 DEF Idle
  <2>. QED  BY <1>5, <2>1 DEF Apart, Pending
<1>. QED  BY <1>4, <1>6, <1>7, RequestStep

LEMMA RevokeOldKeeps ==
  ASSUME Inv, NEW h \in Handler, RevokeOld(h)
  PROVE  Inv' /\ StaysRemoved
<1>1. /\ req[h] \in Request /\ RequestOK(req[h]) /\ req[h].pc = "verified"
  BY DEF Inv, Types, RequestsOK, RevokeOld
<1>2. PICK r \in Request : r = [req[h] EXCEPT !.pc = "issue"]  BY <1>1 DEF Request, Pc
<1>3. /\ req' = [req EXCEPT ![h] = r] /\ session' = Without({req[h].cookie.token})
      /\ UNCHANGED <<now, users, cookie, nextToken, nextHash>>
  BY <1>2 DEF RevokeOld, counters
<1>4. Kept /\ session' \in [Token -> SessionRow]  BY <1>3, WithoutKeeps
<1>5. /\ nextHash' \in 2..(MaxHash + 1) /\ nextHash <= nextHash'
      /\ cookie' \in [Browser -> Cookie] /\ CookiesOK'
  BY <1>3, SessionsAssumption DEF Inv, Types, CookiesOK
<1>6. /\ r.cookie = req[h].cookie /\ r.at = req[h].at /\ r.hash = req[h].hash
      /\ r.to = req[h].to /\ r.pc = "issue" /\ r.doomed = req[h].doomed
  BY <1>1, <1>2 DEF Request
<1>7. RequestOK(r)'  BY <1>1, <1>3, <1>6 DEF RequestOK, Pending
<1>8. ASSUME NEW g \in Handler, g # h PROVE Apart(req[g], r) /\ Apart(r, req[g])
  BY <1>1, <1>6, <1>8 DEF Inv, PairsOK, Apart, Pending
<1>. QED  BY <1>3, <1>4, <1>5, <1>7, <1>8, QuietStep

LEMMA IssueReadKeeps ==
  ASSUME Inv, NEW h \in Handler, IssueRead(h)
  PROVE  Inv' /\ StaysRemoved
<1> DEFINE expired == {t \in Token : Present(t) /\ session[t].expires <= now}
           u == req[h].user
<1>1. /\ req[h] \in Request /\ RequestOK(req[h]) /\ now \in Nat
      /\ nextToken \in Nat \ {0} /\ nextHash \in Nat \ {0}
      /\ u \in User /\ users[u].hash \in Hash /\ users[u].hash < nextHash
      /\ users[u].exists => users[u].hash # 0
  BY SessionsAssumption DEF Inv, Types, RequestsOK, Request, UserRow, UsersOK
<1>2. /\ Idle \in Request /\ \A g \in Handler : Apart(req[g], Idle) /\ Apart(Idle, req[g])
  BY IdleRequest
<1>3. /\ UNCHANGED <<users, session, cookie, counters>>
      /\ \A t \in expired : ~Locked(t)
  BY DEF IssueRead
<1>4. CASE ~users[u].exists
  <2>1. req' = [req EXCEPT ![h] = Idle]  BY <1>4 DEF IssueRead
  <2>2. RequestOK(Idle)  BY <1>1 DEF RequestOK, Idle, Pending, NoUser, NoCookie
  <2>. QED  BY <1>2, <1>3, <2>1, <2>2, RequestStep
<1>5. CASE users[u].exists
  <2>1. PICK r \in Request :
          r = [req[h] EXCEPT !.pc = "insert", !.hash = users[u].hash, !.at = now,
                             !.doomed = expired]
    BY <1>1 DEF Request, Pc
  <2>2. req' = [req EXCEPT ![h] = r]  BY <1>1, <1>5, <2>1 DEF IssueRead, Inv, Types
  <2>3. /\ r.cookie = req[h].cookie /\ r.at = now /\ r.hash = users[u].hash
        /\ r.to = req[h].to /\ r.pc = "insert" /\ r.doomed = expired
    BY <1>1, <2>1 DEF Request
  <2>4. RequestOK(r)  BY <1>1, <1>5, <2>3 DEF RequestOK, Pending
  <2>5. ASSUME NEW g \in Handler PROVE Apart(req[g], r) /\ Apart(r, req[g])
    <3>1. req[g].doomed \cap expired = {}  BY <1>3 DEF Locked
    <3>2. Pending(req[g]) => users[u].hash # req[g].to.hash
      BY <1>1 DEF Inv, RequestsOK, RequestOK
    <3>. QED  BY <2>3, <3>1, <3>2 DEF Apart, Pending
  <2>. QED  BY <1>3, <2>2, <2>4, <2>5, RequestStep
<1>. QED  BY <1>4, <1>5

\* The row inserted carries the password of an existing user as it was read; no
\* change of a password on its way can be to that one.
LEMMA IssueCommitKeeps ==
  ASSUME Inv, NEW h \in Handler, IssueCommit(h)
  PROVE  Inv' /\ StaysRemoved
<1> DEFINE u == req[h].user
<1>1. /\ req[h] \in Request /\ RequestOK(req[h]) /\ now \in Nat /\ req[h].pc = "insert"
      /\ nextToken \in Nat \ {0} /\ nextHash \in 2..(MaxHash + 1) /\ nextHash \in Nat
      /\ u \in User /\ users[u].hash \in Hash /\ req[h].hash \in Hash
      /\ req[h].hash # 0 /\ req[h].hash < nextHash /\ IdleTimeout \in Nat
      /\ session \in [Token -> SessionRow] /\ cookie \in [Browser -> Cookie]
  BY SessionsAssumption
     DEF Inv, Types, RequestsOK, Request, UserRow, UsersOK, IssueCommit, RequestOK
<1>2. /\ Idle \in Request /\ \A g \in Handler : Apart(req[g], Idle) /\ Apart(Idle, req[g])
  BY IdleRequest
<1>3. /\ UNCHANGED <<now, users, nextHash>> /\ req' = [req EXCEPT ![h] = Idle]
  BY DEF IssueCommit
<1>4. CASE ~users[u].exists
  <2>1. UNCHANGED <<users, session, cookie, counters>>
    BY <1>4 DEF IssueCommit, counters
  <2>2. RequestOK(Idle)  BY <1>1 DEF RequestOK, Idle, Pending, NoUser, NoCookie
  <2>. QED  BY <1>2, <1>3, <2>1, <2>2, RequestStep
<1>5. CASE users[u].exists
  <2>1. PICK row \in SessionRow :
          row = [user |-> u, hash |-> req[h].hash, expires |-> req[h].at + IdleTimeout,
                 current |-> users[u].hash]
    <3>1. req[h].at \in Nat  BY <1>1 DEF Request
    <3>2. req[h].at + IdleTimeout \in Nat  BY <1>1, <3>1
    <3>. QED  BY <1>1, <3>2 DEF SessionRow
  <2>2. /\ session' = [Without(req[h].doomed) EXCEPT ![nextToken] = row]
        /\ nextToken' = nextToken + 1
        /\ cookie' = [cookie EXCEPT ![req[h].browser] =
             [user |-> u, token |-> nextToken, last |-> now]]
    BY <1>5, <2>1 DEF IssueCommit
  <2>3. \A t \in Token :
          session'[t] = IF t = nextToken THEN row
                        ELSE IF t \in req[h].doomed THEN NoSession ELSE session[t]
    BY <2>2 DEF Without
  <2>4. session' \in [Token -> SessionRow]
    <3>1. Without(req[h].doomed) \in [Token -> SessionRow]
      BY <1>1, IdleRequest DEF Without
    <3>. QED  BY <3>1, <2>2
  <2>5. \A t \in Token : Present(t)' => t = nextToken \/ (Present(t) /\ session'[t] = session[t])
    BY <2>3 DEF Present
  <2>6. Token \subseteq Nat  BY SessionsAssumption DEF Token
  <2>7. Later
    <3>1. \A t \in Token : t < nextToken /\ ~Present(t) => ~Present(t)'
      BY <1>1, <2>5, <2>6
    <3>. QED  BY <1>1, <1>3, <2>2, <3>1 DEF Later, StaysRemoved
  <2>8. ASSUME NEW g \in Handler PROVE Unused(req[g])
    <3>1. CASE g = h  BY <1>1, <3>1 DEF Unused, Pending
    <3>2. CASE g # h
      <4>1. Pending(req[g]) => req[h].hash # req[g].to.hash
        BY <3>2 DEF Inv, PairsOK, Apart
      <4>. QED  BY <1>3, <2>1, <2>3, <2>5, <4>1, UnusedStays
    <3>. QED  BY <3>1, <3>2
  <2>9. RequestOK(Idle)'  BY <2>7, IdleRequest
  <2>10. req' \in [Handler -> Request] /\ RequestsOK' /\ PairsOK'
    BY <1>2, <1>3, <2>7, <2>8, <2>9, OneRequest
  <2>11. SessionsOK'
    <3>. SUFFICES ASSUME NEW t \in Token, Present(t)'
                  PROVE  /\ t < nextToken' /\ users'[session'[t].user].exists
                         /\ session'[t].hash # 0 /\ session'[t].hash < nextHash'
                         /\ session'[t].hash = users'[session'[t].user].hash
                              => session'[t].current = session'[t].hash
      BY DEF SessionsOK
    <3>1. CASE t = nextToken
      <4>1. session'[t] = row  BY <2>3, <3>1
      <4>. QED  BY <1>1, <1>3, <1>5, <2>1, <2>2, <3>1, <4>1
    <3>2. CASE t # nextToken
      <4>1. Present(t) /\ session'[t] = session[t]  BY <2>5, <3>2
      <4>. QED  BY <1>1, <1>3, <2>2, <2>6, <4>1 DEF Inv, SessionsOK
    <3>. QED  BY <3>1, <3>2
  <2>12. cookie' \in [Browser -> Cookie] /\ CookiesOK'
    <3>1. PICK c \in Cookie : c = [user |-> u, token |-> nextToken, last |-> now]
      BY <1>1 DEF Cookie
    <3>2. c.token = nextToken /\ c.last = now  BY <3>1
    <3>3. /\ cookie' \in [Browser -> Cookie]
          /\ \A b \in Browser : cookie'[b] = c \/ cookie'[b] = cookie[b]
      BY <1>1, <2>2, <3>1
    <3>4. \A b \in Browser : cookie[b].token \in Nat /\ cookie[b].token < nextToken
                             /\ cookie[b].last <= now
      BY <1>1 DEF Cookie, Inv, CookiesOK
    <3>. QED  BY <1>1, <1>3, <2>2, <3>2, <3>3, <3>4 DEF CookiesOK
  <2>13. Types'  BY <1>1, <1>3, <2>2, <2>4, <2>10, <2>12 DEF Inv, Types
  <2>14. UsersOK' /\ AdminRemains'  BY <1>3 DEF Inv, UsersOK, AdminRemains
  <2>. QED  BY <2>7, <2>10, <2>11, <2>12, <2>13, <2>14 DEF Inv, Later
<1>. QED  BY <1>4, <1>5

LEMMA LogoutKeeps ==
  ASSUME Inv, NEW b \in Browser, Logout(b)
  PROVE  Inv' /\ StaysRemoved
<1>1. /\ session' = Without({cookie[b].token}) /\ cookie' = [cookie EXCEPT ![b] = NoCookie]
      /\ UNCHANGED <<now, users, req, nextToken, nextHash>>
  BY DEF Logout, counters
<1>2. now \in Nat /\ nextToken \in Nat \ {0} /\ nextHash \in Nat
  BY SessionsAssumption DEF Inv, Types
<1>3. Kept /\ session' \in [Token -> SessionRow]  BY <1>1, WithoutKeeps
<1>4. SessionsOK' /\ \A t \in Token : ~Present(t) => ~Present(t)'
  BY <1>1, <1>2, <1>3, KeptSessions
<1>5. Later  BY <1>1, <1>2, <1>4 DEF Later, StaysRemoved
<1>6. \A g \in Handler : Unused(req[g])  BY <1>1, <1>3, UnusedStays DEF Kept
<1>7. req' \in [Handler -> Request] /\ RequestsOK' /\ PairsOK'
  BY <1>1, <1>5, <1>6, NoRequest
<1>8. cookie' \in [Browser -> Cookie] /\ CookiesOK'
  <2>1. NoCookie \in Cookie /\ NoCookie.token = 0 /\ NoCookie.last = 0
    BY IdleRequest DEF NoCookie
  <2>. QED  BY <1>1, <1>2, <2>1 DEF Inv, Types, CookiesOK
<1>9. Types'  BY <1>1, <1>3, <1>7, <1>8 DEF Inv, Types
<1>10. UsersOK' /\ AdminRemains'  BY <1>1 DEF Inv, UsersOK, AdminRemains
<1>. QED  BY <1>4, <1>7, <1>8, <1>9, <1>10 DEF Inv, StaysRemoved

LEMMA CreateUserKeeps ==
  ASSUME Inv, NEW u \in User, NEW checked \in BOOLEAN, CreateUser(u, checked)
  PROVE  Inv' /\ StaysRemoved
<1>1. /\ now \in Nat /\ nextToken \in Nat \ {0} /\ nextHash \in Nat /\ nextHash > 1
      /\ nextHash \in Hash /\ users \in [User -> UserRow]
      /\ \A v \in User : users[v].hash \in Nat
  BY SessionsAssumption DEF Inv, Types, CreateUser, Hash, UserRow
<1>2. PICK row \in UserRow :
        /\ row.exists /\ row.born /\ ~row.admin /\ row.hash = nextHash
        /\ users' = [users EXCEPT ![u] = row]
  BY <1>1 DEF CreateUser, NewUser, UserRow
<1>3. /\ UNCHANGED <<now, session, cookie, req, nextToken>> /\ nextHash' = nextHash + 1
      /\ nextHash <= MaxHash /\ ~users[u].exists
  BY DEF CreateUser, Inv, UsersOK
<1>4. \A v \in User : users'[v] = IF v = u THEN row ELSE users[v]  BY <1>1, <1>2
<1>5. Later  BY <1>1, <1>2, <1>3, <1>4 DEF Later, StaysRemoved, Present
<1>6. ASSUME NEW g \in Handler PROVE Unused(req[g])
  <2>1. RequestOK(req[g]) /\ req[g].to.hash \in Nat
    BY DEF Inv, RequestsOK, Types, Request, UserRow, Hash
  <2>. QED  BY <1>1, <1>2, <1>3, <1>4, <2>1 DEF Unused, RequestOK, Present
<1>7. req' \in [Handler -> Request] /\ RequestsOK' /\ PairsOK'
  BY <1>3, <1>5, <1>6, NoRequest
<1>8. Types' /\ CookiesOK'
  BY <1>1, <1>2, <1>3, <1>7, SessionsAssumption DEF Inv, Types, CookiesOK
<1>9. UsersOK'  BY <1>1, <1>2, <1>3, <1>4 DEF Inv, UsersOK
<1>10. SessionsOK'
  <2>. SUFFICES ASSUME NEW t \in Token, Present(t)
                PROVE  /\ t < nextToken /\ users'[session[t].user].exists
                       /\ session[t].hash # 0 /\ session[t].hash < nextHash'
                       /\ session[t].hash = users'[session[t].user].hash
                            => session[t].current = session[t].hash
    BY <1>3 DEF SessionsOK, Present
  <2>1. session[t].user \in User /\ session[t].hash \in Nat
    BY DEF Inv, Types, SessionRow, Hash
  <2>. QED  BY <1>1, <1>2, <1>3, <1>4, <2>1 DEF Inv, SessionsOK
<1>11. AdminRemains'  BY <1>3, <1>4 DEF Inv, AdminRemains
<1>. QED  BY <1>5, <1>7, <1>8, <1>9, <1>10, <1>11 DEF Inv, Later

\* The new password is one that no row, no session and no request has.
LEMMA UpdateUserKeeps ==
  ASSUME Inv, NEW h \in Handler, NEW u \in User, NEW checked \in BOOLEAN,
         NEW new \in BOOLEAN, UpdateUser(h, u, checked, new)
  PROVE  Inv' /\ StaysRemoved
<1>1. /\ now \in Nat /\ nextToken \in Nat \ {0} /\ nextHash \in 2..(MaxHash + 1)
      /\ nextHash \in Nat /\ users[u] \in UserRow /\ users[u].hash \in Nat
      /\ users[u].exists /\ users[u].hash < nextHash /\ users[u].hash # 0
      /\ session \in [Token -> SessionRow]
  BY SessionsAssumption DEF Inv, Types, UpdateUser, Hash, UserRow, UsersOK
<1>2. /\ nextHash' = IF new THEN nextHash + 1 ELSE nextHash
      /\ new => nextHash <= MaxHash
      /\ UNCHANGED <<now, users, session, cookie, nextToken>>
  BY DEF UpdateUser
<1>3. PICK to \in UserRow :
        to = [users[u] EXCEPT !.active = ActiveAfter(u, checked),
                              !.hash = IF new THEN nextHash ELSE @]
  <2>1. new => nextHash \in Hash  BY <1>1, <1>2, SessionsAssumption DEF Hash
  <2>2. ActiveAfter(u, checked) \in BOOLEAN  BY <1>1 DEF ActiveAfter, UserRow
  <2>. QED  BY <1>1, <2>1, <2>2 DEF UserRow
<1>4. to.hash = IF new THEN nextHash ELSE users[u].hash  BY <1>1, <1>3 DEF UserRow
<1>5. users[u].admin => to.active  BY <1>1, <1>3 DEF UserRow, ActiveAfter
<1>6. PICK revoked \in SUBSET Token :
        /\ revoked = IF new \/ ~to.active THEN Of(u) ELSE {}
        /\ \A t \in revoked : ~Locked(t)
        /\ req' = [req EXCEPT ![h] = [Idle EXCEPT !.pc = "update", !.user = u,
                     !.from = users[u], !.to = to, !.doomed = revoked]]
  BY <1>3 DEF UpdateUser, Of
<1>7. /\ Idle \in Request /\ \A g \in Handler : Apart(req[g], Idle) /\ Apart(Idle, req[g])
  BY IdleRequest
<1>8. PICK r \in Request :
        r = [Idle EXCEPT !.pc = "update", !.user = u, !.from = users[u], !.to = to,
                         !.doomed = revoked]
  BY <1>1, <1>7 DEF Request, Pc
<1>9. /\ req' = [req EXCEPT ![h] = r] /\ UNCHANGED <<now, users, session, cookie, nextToken>>
      /\ nextHash' \in 2..(MaxHash + 1) /\ nextHash <= nextHash'
  BY <1>1, <1>2, <1>6, <1>8, SessionsAssumption
<1>10. /\ r.cookie = NoCookie /\ r.at = 0 /\ r.hash = 0 /\ r.to = to /\ r.from = users[u]
      /\ r.pc = "update" /\ r.doomed = revoked /\ r.user = u
  BY <1>8 DEF Idle
<1>11. Pending(r) => /\ r.to.hash = nextHash
                    /\ \A v \in User : users[v].hash # nextHash
                    /\ \A t \in Token : Present(t) => session[t].hash # nextHash
  <2>1. /\ \A v \in User : users[v].hash \in Nat /\ users[v].hash < nextHash
        /\ \A t \in Token : Present(t) => session[t].hash \in Nat /\ session[t].hash < nextHash
    BY <1>1 DEF Inv, Types, UserRow, Hash, SessionRow, UsersOK, SessionsOK
  <2>. QED  BY <1>1, <1>4, <1>10, <2>1 DEF Pending
<1>12. RequestOK(r)'
  <2>1. r.cookie.token = 0 /\ r.cookie.last = 0  BY <1>10 DEF NoCookie
  <2>2. r.hash < nextHash' /\ r.to.hash < nextHash'  BY <1>1, <1>2, <1>4, <1>9, <1>10
  <2>. QED  BY <1>1, <1>2, <1>4, <1>5, <1>9, <1>10, <1>11, <2>1, <2>2
            DEF RequestOK, Pending, Present
<1>13. ASSUME NEW g \in Handler PROVE Apart(req[g], r) /\ Apart(r, req[g])
  <2>1. req[g].doomed \cap revoked = {}  BY <1>6 DEF Locked
  <2>2. Pending(req[g]) => req[g].to.hash # 0
    BY DEF Inv, RequestsOK, RequestOK
  <2>3. /\ req[g].hash \in Nat /\ req[g].hash < nextHash
        /\ req[g].to.hash \in Nat /\ req[g].to.hash < nextHash
    BY DEF Inv, Types, RequestsOK, RequestOK, Request, UserRow, Hash
  <2>4. Apart(req[g], r)  BY <1>1, <1>10, <1>11, <2>1, <2>2, <2>3 DEF Apart
  <2>5. Apart(r, req[g])  BY <1>1, <1>10, <1>11, <2>1, <2>3 DEF Apart
  <2>. QED  BY <2>4, <2>5
<1>14. /\ Kept /\ session' \in [Token -> SessionRow]
       /\ cookie' \in [Browser -> Cookie] /\ CookiesOK'
  BY <1>1, <1>9 DEF Kept, Present, Inv, Types, CookiesOK
<1>. QED  BY <1>9, <1>12, <1>13, <1>14, QuietStep

\* A row keeps its account unless the change sets another password, which then
\* no session has; an administrator who is active stays so.
LEMMA UpdateCommitKeeps ==
  ASSUME Inv, NEW h \in Handler, UpdateCommit(h)
  PROVE  Inv' /\ StaysRemoved
<1> DEFINE u == req[h].user
           from == req[h].from
           to == req[h].to
<1>1. /\ req[h] \in Request /\ RequestOK(req[h]) /\ req[h].pc = "update"
      /\ now \in Nat /\ nextToken \in Nat \ {0} /\ nextHash \in 2..(MaxHash + 1)
      /\ nextHash \in Nat /\ u \in User /\ users \in [User -> UserRow] /\ to \in UserRow
      /\ to.hash < nextHash
      /\ users[u].admin => to.active
  BY SessionsAssumption DEF Inv, Types, RequestsOK, RequestOK, Request, UpdateCommit
<1>2. /\ Idle \in Request /\ \A g \in Handler : Apart(req[g], Idle) /\ Apart(Idle, req[g])
  BY IdleRequest
<1>3. /\ UNCHANGED <<now, cookie, nextToken, nextHash>> /\ req' = [req EXCEPT ![h] = Idle]
  BY DEF UpdateCommit, counters
<1>4. CASE ~users[u].exists
  <2>1. UNCHANGED <<users, session, cookie, counters>>  BY <1>4 DEF UpdateCommit
  <2>2. RequestOK(Idle)  BY <1>1 DEF RequestOK, Idle, Pending, NoUser, NoCookie
  <2>. QED  BY <1>2, <1>3, <2>1, <2>2, RequestStep
<1>5. CASE users[u].exists
  <2>1. PICK row \in UserRow :
          row = [users[u] EXCEPT
                   !.active = IF from.active # to.active THEN to.active ELSE @,
                   !.hash = IF from.hash # to.hash THEN to.hash ELSE @]
    BY <1>1 DEF UserRow
  <2>2. /\ row.exists <=> users[u].exists
        /\ row.born <=> users[u].born
        /\ row.admin <=> users[u].admin
        /\ row.hash = IF from.hash # to.hash THEN to.hash ELSE users[u].hash
        /\ to.active /\ users[u].active => row.active
    BY <1>1, <2>1 DEF UserRow
  <2>3. users' = [users EXCEPT ![u] = row] /\ session' = Without(req[h].doomed)
    BY <1>1, <1>5, <2>1 DEF UpdateCommit
  <2>4. \A v \in User : users'[v] = IF v = u THEN row ELSE users[v]  BY <1>1, <2>3
  <2>5. Kept /\ session' \in [Token -> SessionRow]  BY <2>3, WithoutKeeps
  <2>6. Later  BY <1>1, <1>3, <2>2, <2>4, <2>5 DEF Later, StaysRemoved, Kept
  <2>7. ASSUME NEW g \in Handler, g # h PROVE Unused(req[g])
    <3>1. RequestOK(req[g]) /\ Apart(req[g], req[h]) /\ Apart(req[h], req[g])
      BY <2>7 DEF Inv, RequestsOK, PairsOK
    <3>2. Pending(req[g]) => row.hash # req[g].to.hash
      BY <1>1, <2>2, <3>1 DEF RequestOK, Apart, Pending
    <3>. QED  BY <2>4, <2>5, <3>1, <3>2 DEF Unused, RequestOK, Kept
  <2>8. RequestOK(Idle)'  BY <2>6, IdleRequest
  <2>9. req' \in [Handler -> Request] /\ RequestsOK' /\ PairsOK'
    BY <1>2, <1>3, <2>6, <2>7, <2>8, OneRequest
  <2>10. Types' /\ CookiesOK'
    BY <1>1, <1>3, <2>3, <2>5, <2>9 DEF Inv, Types, CookiesOK
  <2>11. UsersOK'
    BY <1>1, <1>3, <1>5, <2>2, <2>4 DEF Inv, UsersOK, RequestOK, Pending
  <2>12. SessionsOK'
    <3>. SUFFICES ASSUME NEW t \in Token, Present(t)'
                  PROVE  /\ t < nextToken /\ users'[session'[t].user].exists
                         /\ session'[t].hash # 0 /\ session'[t].hash < nextHash
                         /\ session'[t].hash = users'[session'[t].user].hash
                              => session'[t].current = session'[t].hash
      BY <1>3 DEF SessionsOK
    <3>1. /\ Present(t) /\ session'[t].user = session[t].user
          /\ session'[t].hash = session[t].hash /\ session'[t].current = session[t].current
      BY <2>5 DEF Kept
    <3>2. /\ t < nextToken /\ users[session[t].user].exists
          /\ session[t].hash # 0 /\ session[t].hash < nextHash
          /\ session[t].hash = users[session[t].user].hash
               => session[t].current = session[t].hash
          /\ session[t].user \in User
      BY <3>1 DEF Inv, SessionsOK, Types, SessionRow
    <3>3. from.hash # to.hash => session[t].hash # to.hash
      BY <1>1, <3>1 DEF RequestOK, Pending
    <3>. QED  BY <2>2, <2>4, <3>1, <3>2, <3>3
  <2>13. AdminRemains'
    <3>1. PICK v \in User : users[v].exists /\ users[v].active /\ users[v].admin
      BY DEF Inv, AdminRemains
    <3>2. users'[v].exists /\ users'[v].active /\ users'[v].admin
      <4>1. CASE v = u
        <5>1. to.active  BY <1>1, <3>1, <4>1
        <5>2. row.exists /\ row.active /\ row.admin  BY <2>2, <3>1, <4>1, <5>1
        <5>3. users'[v] = row  BY <2>4, <4>1
        <5>. QED  BY <5>2, <5>3
      <4>2. CASE v # u  BY <2>4, <3>1, <4>2
      <4>. QED  BY <4>1, <4>2
    <3>. QED  BY <3>2 DEF AdminRemains
  <2>. QED  BY <2>6, <2>9, <2>10, <2>11, <2>12, <2>13 DEF Inv, Later
<1>. QED  BY <1>4, <1>5

LEMMA DeleteUserKeeps ==
  ASSUME Inv, NEW u \in User, DeleteUser(u)
  PROVE  Inv' /\ StaysRemoved
<1>1. /\ now \in Nat /\ nextToken \in Nat \ {0} /\ nextHash \in Nat /\ nextHash > 1
      /\ users \in [User -> UserRow]
  BY SessionsAssumption DEF Inv, Types
<1>2. PICK row \in UserRow :
        /\ ~row.exists /\ ~row.admin /\ row.hash = 0
        /\ users' = [users EXCEPT ![u] = row]
  <2>1. [NoUser EXCEPT !.born = TRUE] \in UserRow  BY IdleRequest DEF UserRow
  <2>. QED  BY <2>1 DEF DeleteUser, NoUser
<1>3. /\ UNCHANGED <<now, cookie, req, nextToken, nextHash>> /\ session' = Without(Of(u))
      /\ ~users[u].admin
  BY DEF DeleteUser, counters, Cascaded, MayDelete
<1>4. \A v \in User : users'[v] = IF v = u THEN row ELSE users[v]  BY <1>1, <1>2
<1>5. /\ Kept /\ session' \in [Token -> SessionRow]
      /\ \A t \in Token : t \in Of(u) => ~Present(t)'
  BY <1>3, WithoutKeeps
<1>6. Later  BY <1>1, <1>2, <1>3, <1>4, <1>5 DEF Later, StaysRemoved, Kept
<1>7. ASSUME NEW g \in Handler PROVE Unused(req[g])
  <2>1. RequestOK(req[g])  BY DEF Inv, RequestsOK
  <2>. QED  BY <1>2, <1>4, <1>5, <2>1 DEF Unused, RequestOK, Kept
<1>8. req' \in [Handler -> Request] /\ RequestsOK' /\ PairsOK'
  BY <1>3, <1>6, <1>7, NoRequest
<1>9. Types' /\ CookiesOK'
  BY <1>1, <1>2, <1>3, <1>5, <1>8 DEF Inv, Types, CookiesOK
<1>10. UsersOK'  BY <1>1, <1>2, <1>3, <1>4 DEF Inv, UsersOK
<1>11. SessionsOK'
  <2>. SUFFICES ASSUME NEW t \in Token, Present(t)'
                PROVE  /\ t < nextToken /\ users'[session'[t].user].exists
                       /\ session'[t].hash # 0 /\ session'[t].hash < nextHash
                       /\ session'[t].hash = users'[session'[t].user].hash
                            => session'[t].current = session'[t].hash
    BY <1>3 DEF SessionsOK
  <2>1. /\ Present(t) /\ session'[t].user = session[t].user /\ t \notin Of(u)
        /\ session'[t].hash = session[t].hash /\ session'[t].current = session[t].current
    BY <1>5 DEF Kept
  <2>2. session[t].user \in User /\ session[t].user # u
    BY <2>1 DEF Of, Inv, Types, SessionRow
  <2>. QED  BY <1>4, <2>1, <2>2 DEF Inv, SessionsOK
<1>12. AdminRemains'  BY <1>3, <1>4 DEF Inv, AdminRemains
<1>. QED  BY <1>6, <1>8, <1>9, <1>10, <1>11, <1>12 DEF Inv, Later

\* The requests on their way are gone, so nobody holds a right that has ended.
LEMMA RestartKeeps ==
  ASSUME Inv, NEW u \in User, Restart(u)
  PROVE  Inv' /\ StaysRemoved
<1>1. /\ now \in Nat /\ nextToken \in Nat \ {0} /\ nextHash \in 2..(MaxHash + 1)
      /\ nextHash \in Nat /\ users \in [User -> UserRow] /\ 0 \in Hash /\ MaxHash \in Nat
      /\ \A v \in User : users[v].hash \in Nat
  BY SessionsAssumption DEF Inv, Types, Hash, UserRow
<1>2. /\ UNCHANGED <<now, session, cookie, nextToken>> /\ req' = [h \in Handler |-> Idle]
      /\ \/ users[u].exists /\ nextHash' = nextHash
         \/ ~users[u].exists /\ nextHash <= MaxHash /\ nextHash' = nextHash + 1
  BY DEF Restart, Inv, UsersOK
<1>3. \A v \in User : v # u => users'[v] = [users[v] EXCEPT !.admin = FALSE]
  BY DEF Restart
<1>4. /\ users[u].exists => users'[u] = [users[u] EXCEPT !.active = TRUE, !.admin = TRUE]
      /\ ~users[u].exists => users'[u] = NewUser(TRUE, TRUE)
  BY DEF Restart
<1>5. nextHash' \in Nat /\ nextHash' \in 2..(MaxHash + 1) /\ nextHash <= nextHash'
  BY <1>1, <1>2
<1>6. ASSUME NEW v \in User
      PROVE  /\ users'[v] \in UserRow
             /\ users[v].exists => users'[v].exists
             /\ users'[v].exists => users'[v].born
             /\ users'[v].hash = users[v].hash \/ (v = u /\ users'[v].hash = nextHash
                                                   /\ ~users[v].exists)
             /\ users'[v].hash < nextHash'
             /\ users'[v].exists => users'[v].hash # 0
  <2>1. /\ users[v].hash < nextHash
        /\ users[v].exists => users[v].born /\ users[v].hash # 0
    BY DEF Inv, UsersOK
  <2>2. CASE v # u
    <3>1. PICK row \in UserRow : row = [users[v] EXCEPT !.admin = FALSE]
      BY <1>1 DEF UserRow
    <3>2. /\ row.exists <=> users[v].exists
          /\ row.born <=> users[v].born
          /\ row.hash = users[v].hash
      BY <1>1, <3>1 DEF UserRow
    <3>3. users'[v] = row  BY <1>3, <2>2, <3>1
    <3>. QED  BY <1>1, <1>2, <2>1, <3>2, <3>3
  <2>3. CASE v = u /\ users[u].exists
    <3>1. PICK row \in UserRow : row = [users[v] EXCEPT !.active = TRUE, !.admin = TRUE]
      BY <1>1 DEF UserRow
    <3>2. /\ row.exists <=> users[v].exists
          /\ row.born <=> users[v].born
          /\ row.hash = users[v].hash
      BY <1>1, <3>1 DEF UserRow
    <3>3. users'[v] = row  BY <1>4, <2>3, <3>1
    <3>. QED  BY <1>1, <1>2, <2>1, <2>3, <3>2, <3>3
  <2>4. CASE v = u /\ ~users[u].exists
    <3>1. nextHash \in Hash /\ nextHash' = nextHash + 1  BY <1>1, <1>2, <2>4 DEF Hash
    <3>2. users'[v] = [exists |-> TRUE, born |-> TRUE, active |-> TRUE, admin |-> TRUE,
                       hash |-> nextHash]
      BY <1>4, <2>4 DEF NewUser
    <3>3. users'[v] \in UserRow  BY <3>1, <3>2 DEF UserRow
    <3>4. users'[v].exists /\ users'[v].born /\ users'[v].hash = nextHash  BY <3>2
    <3>. QED  BY <1>1, <2>4, <3>1, <3>3, <3>4
  <2>. QED  BY <2>2, <2>3, <2>4
<1>7. users' \in [User -> UserRow]
  <2>1. DOMAIN users' = User /\ users' = [v \in User |-> users'[v]]  BY DEF Restart
  <2>. QED  BY <1>6, <2>1
<1>8. /\ req' \in [Handler -> Request] /\ PairsOK' /\ RequestsOK'
  <2>1. Idle \in Request  BY IdleRequest
  <2>2. \A h \in Handler : req'[h] = Idle  BY <1>2
  <2>3. req' \in [Handler -> Request]  BY <1>2, <2>1
  <2>4. PairsOK'
    <3>1. ~Pending(Idle) /\ Idle.doomed = {}  BY DEF Idle, Pending
    <3>. QED  BY <2>2, <3>1 DEF PairsOK, Apart, Pending
  <2>5. RequestsOK'
    BY <1>1, <1>2, <1>5, <2>2 DEF RequestsOK, RequestOK, Idle, Pending, NoUser, NoCookie
  <2>. QED  BY <2>3, <2>4, <2>5
<1>9. Types' /\ CookiesOK' /\ UsersOK'
  BY <1>1, <1>2, <1>5, <1>6, <1>7, <1>8 DEF Inv, Types, CookiesOK, UsersOK
<1>10. SessionsOK'
  <2>. SUFFICES ASSUME NEW t \in Token, Present(t)
                PROVE  /\ t < nextToken /\ users'[session[t].user].exists
                       /\ session[t].hash # 0 /\ session[t].hash < nextHash'
                       /\ session[t].hash = users'[session[t].user].hash
                            => session[t].current = session[t].hash
    BY <1>2 DEF SessionsOK, Present
  <2>1. session[t].user \in User /\ session[t].hash \in Nat
    BY DEF Inv, Types, SessionRow, Hash
  <2>. QED  BY <1>1, <1>5, <1>6, <2>1 DEF Inv, SessionsOK
<1>11. AdminRemains'
  <2>1. users'[u].exists /\ users'[u].active /\ users'[u].admin
    <3>1. CASE users[u].exists  BY <1>1, <1>4, <3>1 DEF UserRow
    <3>2. CASE ~users[u].exists  BY <1>4, <3>2 DEF NewUser
    <3>. QED  BY <3>1, <3>2
  <2>. QED  BY <2>1 DEF AdminRemains
<1>12. StaysRemoved  BY <1>2 DEF StaysRemoved, Present
<1>. QED  BY <1>8, <1>9, <1>10, <1>11, <1>12 DEF Inv

LEMMA TickKeeps ==
  ASSUME Inv, Tick
  PROVE  Inv' /\ StaysRemoved
<1>1. /\ UNCHANGED <<users, session, cookie, req, nextToken, nextHash>>
      /\ now' = now + 1 /\ now < MaxTime /\ now \in 0..MaxTime /\ MaxTime \in Nat
      /\ nextToken \in Nat /\ nextHash \in Nat
  BY SessionsAssumption DEF Tick, Inv, Types
<1>2. Later  BY <1>1 DEF Later, StaysRemoved, Present
<1>3. \A g \in Handler : Unused(req[g])  BY <1>1, UnusedStays DEF Present
<1>4. req' \in [Handler -> Request] /\ RequestsOK' /\ PairsOK'  BY <1>1, <1>2, <1>3, NoRequest
<1>5. Types'  BY <1>1, <1>4 DEF Inv, Types
<1>6. CookiesOK'
  <2>1. \A b \in Browser : cookie[b].last \in Nat  BY DEF Inv, Types, Cookie
  <2>. QED  BY <1>1, <2>1 DEF Inv, CookiesOK
<1>7. UsersOK' /\ SessionsOK' /\ AdminRemains'
  BY <1>1 DEF Inv, UsersOK, SessionsOK, AdminRemains, Present
<1>. QED  BY <1>2, <1>4, <1>5, <1>6, <1>7 DEF Inv, Later

-----------------------------------------------------------------------------
(***************************************************************************)
(* The theorems.                                                           *)
(***************************************************************************)

LEMMA InitInv == Init => Inv
<1>. SUFFICES ASSUME Init PROVE Inv  OBVIOUS
<1>1. /\ now = 0 /\ nextToken = 1 /\ nextHash = 2
      /\ session = [t \in Token |-> NoSession] /\ cookie = [b \in Browser |-> NoCookie]
      /\ req = [h \in Handler |-> Idle]
      /\ users = [u \in User |-> IF u = Root
           THEN [exists |-> TRUE, born |-> TRUE, active |-> TRUE, admin |-> TRUE, hash |-> 1]
           ELSE NoUser]
  BY DEF Init
<1>2. /\ 0 \in Hash /\ 1 \in Hash /\ MaxHash \in Nat \ {0} /\ MaxTime \in Nat /\ Root \in User
  BY SessionsAssumption DEF Hash
<1>3. /\ NoUser \in UserRow /\ NoCookie \in Cookie /\ NoSession \in SessionRow
      /\ [exists |-> TRUE, born |-> TRUE, active |-> TRUE, admin |-> TRUE, hash |-> 1]
           \in UserRow
  BY <1>2 DEF NoUser, UserRow, NoCookie, Cookie, NoSession, SessionRow
<1>4. Idle \in Request  BY <1>2, <1>3 DEF Idle, Request, Pc
<1>5. Types  BY <1>1, <1>2, <1>3, <1>4 DEF Types
<1>6. UsersOK  BY <1>1 DEF UsersOK, NoUser
<1>7. SessionsOK  BY <1>1 DEF SessionsOK, Present
<1>8. CookiesOK  BY <1>1 DEF CookiesOK, NoCookie
<1>9. RequestsOK
  BY <1>1 DEF RequestsOK, RequestOK, Idle, Pending, NoUser, NoCookie
<1>10. PairsOK
  <2>1. Idle.doomed = {} /\ ~Pending(Idle)  BY DEF Idle, Pending
  <2>. QED  BY <1>1, <2>1 DEF PairsOK, Apart
<1>11. AdminRemains  BY <1>1, <1>2 DEF AdminRemains
<1>. QED  BY <1>5, <1>6, <1>7, <1>8, <1>9, <1>10, <1>11 DEF Inv

LEMMA NextInv == Inv /\ [Next]_vars => Inv' /\ StaysRemoved
<1>. SUFFICES ASSUME Inv, [Next]_vars PROVE Inv' /\ StaysRemoved  OBVIOUS
<1>1. CASE UNCHANGED vars
  <2>. USE <1>1 DEF vars
  <2>1. Types' /\ UsersOK' /\ CookiesOK' /\ AdminRemains'
    BY DEF Inv, Types, UsersOK, CookiesOK, AdminRemains
  <2>2. SessionsOK'  BY DEF Inv, SessionsOK, Present
  <2>3. RequestsOK'  BY DEF Inv, RequestsOK, RequestOK, Present, Pending
  <2>4. PairsOK'  BY DEF Inv, PairsOK, Apart, Pending
  <2>5. StaysRemoved  BY DEF StaysRemoved, Present
  <2>. QED  BY <2>1, <2>2, <2>3, <2>4, <2>5 DEF Inv
<1>2. ASSUME NEW h \in Handler, Touch(h) PROVE Inv' /\ StaysRemoved  BY <1>2, TouchKeeps
<1>3. ASSUME NEW h \in Handler, Respond(h) PROVE Inv' /\ StaysRemoved  BY <1>3, RespondKeeps
<1>4. ASSUME NEW h \in Handler, RevokeOld(h) PROVE Inv' /\ StaysRemoved
  BY <1>4, RevokeOldKeeps
<1>5. ASSUME NEW h \in Handler, IssueRead(h) PROVE Inv' /\ StaysRemoved
  BY <1>5, IssueReadKeeps
<1>6. ASSUME NEW h \in Handler, IssueCommit(h) PROVE Inv' /\ StaysRemoved
  BY <1>6, IssueCommitKeeps
<1>7. ASSUME NEW h \in Handler, UpdateCommit(h) PROVE Inv' /\ StaysRemoved
  BY <1>7, UpdateCommitKeeps
<1>8. ASSUME NEW h \in Handler, NEW b \in Browser, OpenPage(h, b) PROVE Inv' /\ StaysRemoved
  BY <1>8, OpenPageKeeps
<1>9. ASSUME NEW h \in Handler, NEW b \in Browser, NEW u \in User, NEW p \in Hash,
             Login(h, b, u, p)
      PROVE  Inv' /\ StaysRemoved
  BY <1>9, LoginKeeps
<1>10. ASSUME NEW h \in Handler, NEW u \in User, NEW checked \in BOOLEAN, NEW new \in BOOLEAN,
              UpdateUser(h, u, checked, new)
       PROVE  Inv' /\ StaysRemoved
  BY <1>10, UpdateUserKeeps
<1>11. ASSUME NEW b \in Browser, Logout(b) PROVE Inv' /\ StaysRemoved  BY <1>11, LogoutKeeps
<1>12. ASSUME NEW u \in User, NEW checked \in BOOLEAN, CreateUser(u, checked)
       PROVE  Inv' /\ StaysRemoved
  BY <1>12, CreateUserKeeps
<1>13. ASSUME NEW u \in User, DeleteUser(u) PROVE Inv' /\ StaysRemoved
  BY <1>13, DeleteUserKeeps
<1>14. ASSUME NEW u \in User, Restart(u) PROVE Inv' /\ StaysRemoved  BY <1>14, RestartKeeps
<1>15. CASE Tick  BY <1>15, TickKeeps
<1>. QED
  BY <1>1, <1>2, <1>3, <1>4, <1>5, <1>6, <1>7, <1>8, <1>9, <1>10, <1>11, <1>12, <1>13, <1>14,
     <1>15 DEF Next

LEMMA InvHolds == Spec => []Inv
<1>1. Init => Inv  BY InitInv
<1>2. Inv /\ [Next]_vars => Inv'  BY NextInv
<1>. QED  BY <1>1, <1>2, PTL DEF Spec

\* What the invariant says of types: besides the shape of the state, that a
\* session is one of a token drawn and of an account that exists, and that no two
\* transactions have deleted the same row.
THEOREM SessionsTypeCorrect == Spec => []TypeOK
<1>1. ASSUME Inv PROVE TypeOK
  <2>1. now \in 0..MaxTime /\ users \in [User -> UserRow]  BY <1>1 DEF Inv, Types
  <2>2. ASSUME NEW t \in Token, Present(t)
        PROVE  /\ t < nextToken /\ users[session[t].user].exists
               /\ session[t].hash \in 1..(nextHash - 1)
    <3>1. session[t].hash \in Nat /\ nextHash \in Nat
      BY <1>1, SessionsAssumption DEF Inv, Types, SessionRow, Hash
    <3>. QED  BY <1>1, <2>2, <3>1 DEF Inv, SessionsOK
  <2>3. cookie \in [Browser -> [user : User, token : 0..(nextToken - 1), last : 0..now]]
    <3>1. cookie \in [Browser -> Cookie] /\ nextToken \in Nat \ {0} /\ now \in Nat
      BY <1>1, SessionsAssumption DEF Inv, Types
    <3>2. ASSUME NEW b \in Browser
          PROVE  cookie[b] \in [user : User, token : 0..(nextToken - 1), last : 0..now]
      <4>1. cookie[b].token \in 0..(nextToken - 1) /\ cookie[b].last \in 0..now
        BY <1>1, <3>1 DEF Inv, CookiesOK, Cookie
      <4>. QED  BY <3>1, <4>1 DEF Cookie
    <3>. QED  BY <3>1, <3>2
  <2>4. \A g, h \in Handler : g # h => req[g].doomed \cap req[h].doomed = {}
    BY <1>1 DEF Inv, PairsOK, Apart
  <2>. QED  BY <2>1, <2>2, <2>3, <2>4 DEF TypeOK
<1>. QED  BY <1>1, InvHolds, PTL

\* A session that a logout, a change of the account, its expiry or a delete has
\* removed is never there again, whatever requests were on their way.
THEOREM RemovedSessionsStayRemoved == Spec => RemovedIsFinal
<1>1. Inv /\ [Next]_vars
        => [\A t \in Token : t < nextToken /\ ~Present(t) => ~Present(t)']_vars
  BY NextInv DEF StaysRemoved
<1>. QED  BY <1>1, InvHolds, PTL DEF Spec, RemovedIsFinal

\* No page is served to a cookie whose session was gone when its request began.
THEOREM NoPageWithoutSession == Spec => []ServedHasSession
<1>1. Inv => ServedHasSession  BY DEF Inv, RequestsOK, RequestOK, ServedHasSession
<1>. QED  BY <1>1, InvHolds, PTL

\* A session that a page would accept was issued under the password of now,
\* also when the login read the account before its password was changed.
THEOREM SessionsOfThisPassword == Spec => []IssuedUnderThisPassword
<1>1. ASSUME Inv PROVE IssuedUnderThisPassword
  BY <1>1 DEF Inv, SessionsOK, IssuedUnderThisPassword, Accepted
<1>. QED  BY <1>1, InvHolds, PTL

\* An active administrator is always left.
THEOREM AdministratorRemains == Spec => []AdminRemains
<1>1. Inv => AdminRemains  BY DEF Inv
<1>. QED  BY <1>1, InvHolds, PTL
=============================================================================
