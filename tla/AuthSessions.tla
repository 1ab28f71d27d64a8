---------------------------- MODULE AuthSessions ----------------------------
(***************************************************************************)
(* client/auth: the login, logout and RequireAuth handlers over the users  *)
(* and auth_sessions tables, and the browsers that hold the session        *)
(* cookie.                                                                 *)
(*                                                                         *)
(* Each request is one handler call and takes one step per SQL statement.  *)
(* Its answer travels back on its own: answers of requests that a browser  *)
(* has in flight together arrive in any order, or not at all.              *)
(*                                                                         *)
(* A login makes a token of 32 random bytes, so the request itself stands  *)
(* for the token it makes; the table holds the token's hash, which is      *)
(* taken to be as unique.                                                  *)
(***************************************************************************)
EXTENDS Naturals

CONSTANTS
    Users,     \* user ids
    Browsers,  \* cookie jars
    Requests,  \* handler calls; each one is used once
    TTL,       \* SESSION_TTL
    MaxTime,   \* the last point in time (a bound)
    None       \* SQL NULL, an absent cookie, a row that is not there

ASSUME SessionTTL == TTL \in Nat \ {0}
ASSUME SessionTime == MaxTime \in Nat
ASSUME SessionIds == None \notin Users \cup Browsers \cup Requests \cup Nat

VARIABLES
    active,     \* the users whose committed is_active is TRUE
    lastLogin,  \* lastLogin[u]: the committed last_login_at
    userLock,   \* userLock[u]: the request whose transaction updated row u
    sessions,   \* sessions[k]: the committed row of token k, None without one
    now,        \* the time, of the server and of the database
    cookie,     \* cookie[b]: the token browser b holds
    pc,         \* pc[r]: the next statement of request r
    req,        \* req[r]: what r asks for
    outcome     \* outcome[r]: the answer of r

tables == <<active, lastLogin, sessions>>
vars == <<tables, userLock, now, cookie, pc, req, outcome>>

(* token is the cookie that came with the request; issued is createdAt of  *)
(* a login once it has made its token.                                     *)
Request ==
    [op : {"login", "logout", "visit"}, browser : Browsers, token : Requests \cup {None},
     user : Users \cup {None}, password : {"right", "wrong", "none"}, issued : 0 .. MaxTime]

Session == [user : Users, createdAt : 0 .. MaxTime, revoked : BOOLEAN]

Phases ==
    {"idle", "find", "issue", "update", "commit", "revoke", "authenticate",
     "answered", "received"}

Outcomes == {"none", "ok", "no_content", "invalid_credentials", "unauthenticated", "error"}

(* The NULL of the models is neither a request nor a row.                  *)
ASSUME SessionNull == None \notin Request \cup Session

(* NOT (expires_at > NOW())                                                *)
Expired(k) == now >= sessions[k].createdAt + TTL

-----------------------------------------------------------------------------
Goto(r, phase) == pc' = [pc EXCEPT ![r] = phase]

Answer(r, answer) ==
    /\ Goto(r, "answered")
    /\ outcome' = [outcome EXCEPT ![r] = answer]

(* Slip: no deferred Rollback.                                             *)
KeepUserLock(r) == UNCHANGED userLock

ReleaseUser(r) ==
    userLock' = [u \in Users |-> IF userLock[u] = r THEN None ELSE userLock[u]]

-----------------------------------------------------------------------------
(* The browser drops a cookie whose Max-Age is over.                       *)
Sendable(b) ==
    {k \in {cookie[b], None} : k = None => cookie[b] = None \/ Expired(cookie[b])}

Submit(r, op, u, password, first) ==
    /\ pc[r] = "idle"
    /\ \E b \in Browsers : \E k \in Sendable(b) :
             req' = [req EXCEPT ![r] =
                        [op |-> op, browser |-> b, token |-> k,
                         user |-> u, password |-> password, issued |-> now]]
    /\ Goto(r, first)
    /\ UNCHANGED <<tables, userLock, now, cookie, outcome>>

SubmitLogin(r) ==
    \E u \in Users, password \in {"right", "wrong"} :
        Submit(r, "login", u, password, "find")

SubmitLogout(r) == Submit(r, "logout", None, "none", "revoke")

SubmitVisit(r) == Submit(r, "visit", None, "none", "authenticate")

-----------------------------------------------------------------------------
(* Login.                                                                  *)

(* FindUserByUsername and the check of the password and of is_active.  An  *)
(* unknown user name ends like a wrong password.                           *)
FindUser(r) ==
    /\ pc[r] = "find"
    /\ IF req[r].password = "right" /\ req[r].user \in active
       THEN Goto(r, "issue") /\ UNCHANGED outcome
       ELSE Answer(r, "invalid_credentials")
    /\ UNCHANGED <<tables, userLock, now, cookie, req>>

(* Slip: the session is inserted on the pool, not in the transaction.      *)
InsertSessionAlone(r) ==
    /\ pc[r] = "issue"
    /\ req' = [req EXCEPT ![r].issued = now]
    /\ sessions' = [sessions EXCEPT ![r] =
                       [user |-> req[r].user, createdAt |-> now, revoked |-> FALSE]]
    /\ Goto(r, "update")
    /\ UNCHANGED <<active, lastLogin, userLock, now, cookie, outcome>>

(* The token, createdAt, Begin and the INSERT, which stays with the        *)
(* transaction; its foreign key check takes no lock that an update of      *)
(* is_active or last_login_at waits for.                                   *)
IssueSession(r) ==
    /\ pc[r] = "issue"
    /\ req' = [req EXCEPT ![r].issued = now]
    /\ Goto(r, "update")
    /\ UNCHANGED <<tables, userLock, now, cookie, outcome>>

(* Slip: WHERE id = $2, without is_active.                                 *)
UpdateLastLoginOfAnyone(r) ==
    /\ pc[r] = "update"
    /\ userLock[req[r].user] = None
    /\ userLock' = [userLock EXCEPT ![req[r].user] = r]
    /\ Goto(r, "commit")
    /\ UNCHANGED <<tables, now, cookie, req, outcome>>

(* UPDATE users ... WHERE id = $2 AND is_active = TRUE                     *)
UpdateLastLogin(r) ==
    /\ pc[r] = "update"
    /\ userLock[req[r].user] = None
    /\ IF req[r].user \in active
       THEN /\ userLock' = [userLock EXCEPT ![req[r].user] = r]
            /\ Goto(r, "commit")
            /\ UNCHANGED outcome
       ELSE Answer(r, "invalid_credentials") /\ ReleaseUser(r)
    /\ UNCHANGED <<tables, now, cookie, req>>

(* Slip: the answer does not wait for the commit.                          *)
AnswerBeforeCommit(r) ==
    /\ pc[r] = "commit"
    /\ Answer(r, "ok")
    /\ ReleaseUser(r)
    /\ UNCHANGED <<tables, now, cookie, req>>

(* The acknowledgement of the commit can be lost; the client is told of an *)
(* internal error then, and the session stays.                             *)
CommitLogin(r) ==
    /\ pc[r] = "commit"
    /\ sessions' = [sessions EXCEPT ![r] =
                       [user |-> req[r].user, createdAt |-> req[r].issued, revoked |-> FALSE]]
    /\ lastLogin' = [lastLogin EXCEPT ![req[r].user] = req[r].issued]
    /\ Answer(r, "ok") \/ Answer(r, "error")
    /\ ReleaseUser(r)
    /\ UNCHANGED <<active, now, cookie, req>>

-----------------------------------------------------------------------------
(* Logout and RequireAuth.                                                 *)

Valid(k) ==
    /\ k # None /\ sessions[k] # None
    /\ ~sessions[k].revoked
    /\ ~Expired(k)
    /\ sessions[k].user \in active

(* Slip: only a session that still authenticates is revoked.               *)
RevokeValidSession(r) ==
    /\ pc[r] = "revoke"
    /\ sessions' = IF Valid(req[r].token)
                   THEN [sessions EXCEPT ![req[r].token].revoked = TRUE]
                   ELSE sessions
    /\ Answer(r, "no_content") \/ Answer(r, "error")
    /\ UNCHANGED <<active, lastLogin, userLock, now, cookie, req>>

(* UPDATE auth_sessions SET revoked_at = NOW() WHERE ... IS NULL; a cookie *)
(* that is missing or unknown changes no row.                              *)
RevokeSession(r) ==
    /\ pc[r] = "revoke"
    /\ sessions' = IF req[r].token # None /\ sessions[req[r].token] # None
                   THEN [sessions EXCEPT ![req[r].token].revoked = TRUE]
                   ELSE sessions
    /\ Answer(r, "no_content") \/ Answer(r, "error")
    /\ UNCHANGED <<active, lastLogin, userLock, now, cookie, req>>

(* FindValidSession; the handler then works with the principal it found.   *)
Authenticate(r) ==
    /\ pc[r] = "authenticate"
    /\ Answer(r, IF Valid(req[r].token) THEN "ok" ELSE "unauthenticated")
    /\ UNCHANGED <<tables, userLock, now, cookie, req>>

(* A statement fails, and with it the transaction.                         *)
Abort(r) ==
    /\ pc[r] \notin {"idle", "answered", "received"}
    /\ Answer(r, "error")
    /\ ReleaseUser(r)
    /\ UNCHANGED <<tables, now, cookie, req>>

-----------------------------------------------------------------------------
(* The world around the handlers.                                          *)

(* The browser obeys the Set-Cookie of a login or logout.                  *)
Receive(r) ==
    /\ pc[r] = "answered"
    /\ Goto(r, "received")
    /\ cookie' = [cookie EXCEPT ![req[r].browser] =
                     CASE outcome[r] = "ok" /\ req[r].op = "login" -> r
                       [] outcome[r] = "no_content"                -> None
                       [] OTHER                                    -> @]
    /\ UNCHANGED <<tables, userLock, now, req, outcome>>

Lose(r) ==
    /\ pc[r] = "answered"
    /\ Goto(r, "received")
    /\ UNCHANGED <<tables, userLock, now, cookie, req, outcome>>

(* is_active is changed by other means; that update waits for the row.     *)
Switch(u) ==
    /\ userLock[u] = None
    /\ active' = IF u \in active THEN active \ {u} ELSE active \cup {u}
    /\ UNCHANGED <<lastLogin, sessions, userLock, now, cookie, pc, req, outcome>>

Tick ==
    /\ now < MaxTime
    /\ now' = now + 1
    /\ UNCHANGED <<tables, userLock, cookie, pc, req, outcome>>

-----------------------------------------------------------------------------
Init ==
    /\ active = Users
    /\ lastLogin = [u \in Users |-> None]
    /\ userLock = [u \in Users |-> None]
    /\ sessions = [k \in Requests |-> None]
    /\ now = 0
    /\ cookie = [b \in Browsers |-> None]
    /\ pc = [r \in Requests |-> "idle"]
    /\ req = [r \in Requests |-> None]
    /\ outcome = [r \in Requests |-> "none"]

Arrive(r) == SubmitLogin(r) \/ SubmitLogout(r) \/ SubmitVisit(r)

(* What the server does by itself, once a request has arrived.             *)
Proceed(r) ==
    \/ FindUser(r) \/ IssueSession(r) \/ UpdateLastLogin(r) \/ CommitLogin(r)
    \/ RevokeSession(r) \/ Authenticate(r)

Next ==
    \/ \E r \in Requests : Arrive(r) \/ Proceed(r) \/ Abort(r) \/ Receive(r) \/ Lose(r)
    \/ \E u \in Users : Switch(u)
    \/ Tick

Spec == Init /\ [][Next]_vars

(* Goroutines are scheduled, and PostgreSQL lets a statement that waited   *)
(* for a row run: it cannot be overtaken for ever, because only finitely   *)
(* many requests arrive and updates of is_active hold the row for an       *)
(* instant.                                                                *)
FairSpec == Spec /\ \A r \in Requests : WF_vars(Proceed(r))

-----------------------------------------------------------------------------
(* Properties.                                                             *)

(* The types of the variables.                                             *)
TypeOK ==
    /\ active \subseteq Users
    /\ lastLogin \in [Users -> (0 .. MaxTime) \cup {None}]
    /\ userLock \in [Users -> Requests \cup {None}]
    /\ sessions \in [Requests -> Session \cup {None}]
    /\ now \in 0 .. MaxTime
    /\ cookie \in [Browsers -> Requests \cup {None}]
    /\ pc \in [Requests -> Phases]
    /\ req \in [Requests -> Request \cup {None}]
    /\ outcome \in [Requests -> Outcomes]

(* A logout that came with token k was answered.                           *)
LoggedOut(k) ==
    \E q \in Requests : outcome[q] = "no_content" /\ req[q].token = k

(* After a logout was answered its token does not authenticate any more,   *)
(* whatever happened to the user and the answers in between: a user who is *)
(* switched off, logs out and is switched on again stays logged out.       *)
LogoutIsFinal ==
    [][\A r \in Requests :
          pc[r] = "authenticate" /\ LoggedOut(req[r].token) => outcome'[r] # "ok"
      ]_vars

(* A login's answer tells the truth about its session: after a 200 there   *)
(* is one, of the user who logged in, after a 401 there is none and never  *)
(* will be, although the 401 can come from inside the transaction that     *)
(* inserted the session.                                                   *)
LoginAnswersHold ==
    \A r \in Requests : req[r] # None /\ req[r].op = "login" =>
        /\ outcome[r] = "ok" => sessions[r] # None /\ sessions[r].user = req[r].user
        /\ outcome[r] = "invalid_credentials" => sessions[r] = None

(* A browser's cookie always names a session in the table, so that a later *)
(* logout with it has something to revoke.                                 *)
CookiesNameSessions ==
    \A b \in Browsers : cookie[b] # None => sessions[cookie[b]] # None

(* Every request that arrives is answered; nobody keeps a user's row.      *)
EveryRequestIsAnswered ==
    \A r \in Requests : pc[r] # "idle" ~> pc[r] \in {"answered", "received"}

-----------------------------------------------------------------------------
(* The inductive invariant behind these properties.                        *)

Answered == {"answered", "received"}

(* How far a request is shows what it is and whether it has an answer.     *)
RequestsProceed ==
    \A r \in Requests :
        /\ pc[r] = "idle" <=> req[r] = None
        /\ pc[r] \in Answered <=> outcome[r] # "none"
        /\ pc[r] \in {"find", "issue", "update", "commit"} =>
              req[r].op = "login" /\ req[r].user \in Users
        /\ pc[r] = "revoke" => req[r].op = "logout"
        /\ pc[r] = "authenticate" => req[r].op = "visit"
        /\ outcome[r] = "no_content" => req[r].op = "logout"
        /\ outcome[r] = "invalid_credentials" => req[r].op = "login"
        /\ req[r] # None /\ req[r].op = "login" => req[r].user \in Users

(* The row of a user is locked exactly by a login that is about to commit, *)
(* and the user stays active until it has.                                 *)
LocksProtectLogins ==
    \A r \in Requests :
        /\ \A u \in Users : userLock[u] = r <=> pc[r] = "commit" /\ req[r].user = u
        /\ pc[r] = "commit" => req[r].user \in active

(* A session belongs to the login that made its token.                     *)
SessionsComeFromLogins ==
    \A r \in Requests : sessions[r] # None =>
        /\ pc[r] \in Answered
        /\ req[r].op = "login"
        /\ sessions[r].user = req[r].user
        /\ outcome[r] # "invalid_credentials"

(* Whatever token a request came with opens a session, and a revoked one   *)
(* once a logout with it was answered.                                     *)
TokensNameSessions ==
    \A r \in Requests : req[r] # None /\ req[r].token # None =>
        /\ sessions[req[r].token] # None
        /\ outcome[r] = "no_content" => sessions[req[r].token].revoked

(* All of it, with the types: what every step of the handlers keeps.       *)
AuthInvariant ==
    /\ TypeOK
    /\ RequestsProceed
    /\ LocksProtectLogins
    /\ SessionsComeFromLogins
    /\ TokensNameSessions
    /\ LoginAnswersHold
    /\ CookiesNameSessions

-----------------------------------------------------------------------------
(* The tables implement the ledger.                                        *)
Ledger == INSTANCE SessionLedger WITH
    Tokens  <- Requests,
    Times   <- 0 .. MaxTime,
    owner   <- [k \in Requests |-> IF sessions[k] = None THEN None ELSE sessions[k].user],
    revoked <- {k \in Requests : sessions[k] # None /\ sessions[k].revoked}

(* Sessions are opened with the last login time in one step, for active    *)
(* users only, and revoked for good.                                       *)
ImplementsLedger == Ledger!LedgerSpec
=============================================================================
