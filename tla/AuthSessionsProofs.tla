------------------------- MODULE AuthSessionsProofs -------------------------
(***************************************************************************)
(* AuthInvariant is inductive, a logout is final, and the auth tables      *)
(* implement SessionLedger: proofs for any users, browsers and requests.   *)
(***************************************************************************)
EXTENDS AuthSessions, TLAPS

-----------------------------------------------------------------------------
(* What the invariant says of a request that the server works on.          *)
Running == Phases \ ({"idle"} \cup Answered)

LEMMA RunningRequest ==
    ASSUME AuthInvariant, NEW r \in Requests, pc[r] \in Running
    PROVE  /\ req[r] \in Request /\ req[r] # None
           /\ outcome[r] = "none"
           /\ sessions[r] = None
<1>1. TypeOK /\ RequestsProceed /\ SessionsComeFromLogins
  BY DEF AuthInvariant
<1>2. pc[r] # "idle" /\ pc[r] \notin Answered
  BY DEF Running
<1> QED
  BY <1>1, <1>2 DEF TypeOK, RequestsProceed, SessionsComeFromLogins

(* Only a login that is about to commit has a lock to give up.             *)
LEMMA NothingToRelease ==
    ASSUME AuthInvariant, NEW r \in Requests, pc[r] # "commit", UNCHANGED userLock
    PROVE  ReleaseUser(r)
<1>1. TypeOK /\ LocksProtectLogins
  BY DEF AuthInvariant
<1>2. \A u \in Users : userLock[u] # r
  BY <1>1 DEF LocksProtectLogins
<1> QED
  BY <1>1, <1>2 DEF ReleaseUser, TypeOK

-----------------------------------------------------------------------------
(* Every step keeps the invariant.                                         *)

LEMMA ArriveKeeps ==
    ASSUME AuthInvariant, NEW r \in Requests, Arrive(r)
    PROVE  AuthInvariant'
<1>1. PICK op \in {"login", "logout", "visit"}, u \in Users \cup {None},
           password \in {"right", "wrong", "none"},
           first \in {"find", "revoke", "authenticate"} :
        /\ Submit(r, op, u, password, first)
        /\ \/ op = "login" /\ first = "find" /\ u \in Users
           \/ op = "logout" /\ first = "revoke"
           \/ op = "visit" /\ first = "authenticate"
  BY DEF Arrive, SubmitLogin, SubmitLogout, SubmitVisit
<1>2. PICK b \in Browsers : \E k \in Sendable(b) :
        req' = [req EXCEPT ![r] =
                   [op |-> op, browser |-> b, token |-> k,
                    user |-> u, password |-> password, issued |-> now]]
  BY <1>1 DEF Submit
<1>3. PICK k \in Sendable(b) :
        req' = [req EXCEPT ![r] =
                   [op |-> op, browser |-> b, token |-> k,
                    user |-> u, password |-> password, issued |-> now]]
  BY <1>2
<1>4. k \in Requests \cup {None} /\ (k # None => sessions[k] # None)
  BY DEF Sendable, AuthInvariant, TypeOK, CookiesNameSessions
<1>5. /\ req'[r] \in Request /\ req'[r] # None
      /\ req'[r].op = op /\ req'[r].user = u /\ req'[r].token = k
  BY <1>3, <1>4, SessionNull DEF AuthInvariant, TypeOK, Request
<1>6. /\ \A q \in Requests \ {r} : req'[q] = req[q] /\ pc'[q] = pc[q]
      /\ pc[r] = "idle" /\ pc'[r] = first
      /\ UNCHANGED <<active, lastLogin, sessions, userLock, now, cookie, outcome>>
      /\ outcome[r] = "none"
  BY <1>1, <1>3 DEF Submit, Goto, AuthInvariant, TypeOK, RequestsProceed, Answered, tables
<1>7. TypeOK'
  BY <1>1, <1>3, <1>5, <1>6 DEF AuthInvariant, TypeOK, Submit, Goto, Phases
<1>8. RequestsProceed'
  BY <1>1, <1>5, <1>6 DEF AuthInvariant, RequestsProceed, Answered
<1>9. LocksProtectLogins'
  BY <1>1, <1>5, <1>6 DEF AuthInvariant, LocksProtectLogins
<1>10. SessionsComeFromLogins'
  BY <1>1, <1>5, <1>6 DEF AuthInvariant, SessionsComeFromLogins, Answered
<1>11. TokensNameSessions'
  BY <1>4, <1>5, <1>6 DEF AuthInvariant, TokensNameSessions
<1>12. LoginAnswersHold'
  BY <1>5, <1>6 DEF AuthInvariant, LoginAnswersHold
<1>13. CookiesNameSessions'
  BY <1>6 DEF AuthInvariant, CookiesNameSessions
<1> QED
  BY <1>7, <1>8, <1>9, <1>10, <1>11, <1>12, <1>13 DEF AuthInvariant

(* An answer that neither opens nor revokes a session.                     *)
LEMMA AnswerKeeps ==
    ASSUME AuthInvariant, NEW r \in Requests, pc[r] \in Running,
           NEW answer \in {"ok", "invalid_credentials", "unauthenticated", "error"},
           answer = "ok" => req[r].op = "visit",
           answer = "invalid_credentials" => req[r].op = "login",
           Answer(r, answer), ReleaseUser(r),
           UNCHANGED <<active, lastLogin, sessions, now, cookie, req>>
    PROVE  AuthInvariant'
<1>1. /\ req[r] \in Request /\ req[r] # None /\ outcome[r] = "none" /\ sessions[r] = None
      /\ pc[r] # "idle" /\ pc[r] \notin Answered
  BY RunningRequest DEF Running
<1>2. /\ pc'[r] = "answered" /\ outcome'[r] = answer
      /\ \A q \in Requests \ {r} : pc'[q] = pc[q] /\ outcome'[q] = outcome[q]
      /\ \A u \in Users : userLock'[u] = IF userLock[u] = r THEN None ELSE userLock[u]
  BY DEF Answer, Goto, ReleaseUser, AuthInvariant, TypeOK
<1>3. TypeOK'
  BY DEF AuthInvariant, TypeOK, Answer, Goto, ReleaseUser, Phases, Outcomes
<1>4. RequestsProceed'
  BY <1>1, <1>2 DEF AuthInvariant, RequestsProceed, Answered
<1>5. LocksProtectLogins'
  BY <1>2, SessionIds DEF AuthInvariant, LocksProtectLogins
<1>6. SessionsComeFromLogins'
  BY <1>1, <1>2 DEF AuthInvariant, SessionsComeFromLogins, Answered
<1>7. TokensNameSessions'
  BY <1>2 DEF AuthInvariant, TokensNameSessions
<1>8. LoginAnswersHold'
  BY <1>1, <1>2 DEF AuthInvariant, LoginAnswersHold
<1>9. CookiesNameSessions'
  BY DEF AuthInvariant, CookiesNameSessions
<1> QED
  BY <1>3, <1>4, <1>5, <1>6, <1>7, <1>8, <1>9 DEF AuthInvariant

LEMMA FindUserKeeps ==
    ASSUME AuthInvariant, NEW r \in Requests, FindUser(r)
    PROVE  AuthInvariant'
<1>1. /\ pc[r] = "find" /\ pc[r] \in Running /\ req[r].op = "login" /\ req[r].user \in Users
      /\ UNCHANGED <<active, lastLogin, sessions, userLock, now, cookie, req>>
  BY DEF FindUser, AuthInvariant, RequestsProceed, Running, Phases, Answered, tables
<1>2. CASE Answer(r, "invalid_credentials")
  BY <1>1, <1>2, AnswerKeeps, NothingToRelease
<1>3. CASE Goto(r, "issue") /\ UNCHANGED outcome
  <2>1. pc'[r] = "issue" /\ \A q \in Requests \ {r} : pc'[q] = pc[q]
    BY <1>3 DEF Goto, AuthInvariant, TypeOK
  <2>2. TypeOK'
    BY <1>1, <1>3 DEF AuthInvariant, TypeOK, Goto, Phases
  <2>3. RequestsProceed'
    BY <1>1, <1>3, <2>1 DEF AuthInvariant, RequestsProceed, Answered
  <2>4. LocksProtectLogins'
    BY <1>1, <2>1 DEF AuthInvariant, LocksProtectLogins
  <2>5. SessionsComeFromLogins'
    BY <1>1, <1>3, <2>1 DEF AuthInvariant, SessionsComeFromLogins, Answered
  <2>6. TokensNameSessions' /\ LoginAnswersHold' /\ CookiesNameSessions'
    BY <1>1, <1>3
       DEF AuthInvariant, TokensNameSessions, LoginAnswersHold, CookiesNameSessions
  <2> QED
    BY <2>2, <2>3, <2>4, <2>5, <2>6 DEF AuthInvariant
<1> QED
  BY <1>2, <1>3 DEF FindUser

LEMMA IssueSessionKeeps ==
    ASSUME AuthInvariant, NEW r \in Requests, IssueSession(r)
    PROVE  AuthInvariant'
<1>1. /\ pc[r] = "issue" /\ req[r] \in Request /\ req[r] # None
      /\ req[r].op = "login" /\ req[r].user \in Users
  <2>1. pc[r] = "issue" /\ pc[r] \in Running
    BY DEF IssueSession, Running, Phases, Answered
  <2> QED
    BY <2>1, RunningRequest DEF AuthInvariant, RequestsProceed
<1>2. /\ req' = [req EXCEPT ![r] = [req[r] EXCEPT !.issued = now]]
      /\ UNCHANGED <<active, lastLogin, sessions, userLock, now, cookie, outcome>>
      /\ Goto(r, "update")
  BY DEF IssueSession, tables
<1>3. /\ req'[r] \in Request /\ req'[r] # None /\ req'[r].op = "login"
      /\ req'[r].user = req[r].user /\ req'[r].token = req[r].token
      /\ pc'[r] = "update"
      /\ \A q \in Requests \ {r} : req'[q] = req[q] /\ pc'[q] = pc[q]
  BY <1>1, <1>2, SessionNull DEF AuthInvariant, TypeOK, Goto, Request
<1>4. TypeOK'
  <2>1. req' \in [Requests -> Request \cup {None}]
    BY <1>2, <1>3 DEF AuthInvariant, TypeOK
  <2> QED
    BY <1>2, <2>1 DEF AuthInvariant, TypeOK, Goto, Phases
<1>5. RequestsProceed'
  BY <1>1, <1>2, <1>3 DEF AuthInvariant, RequestsProceed, Answered
<1>6. LocksProtectLogins'
  BY <1>1, <1>2, <1>3 DEF AuthInvariant, LocksProtectLogins
<1>7. SessionsComeFromLogins'
  BY <1>1, <1>2, <1>3 DEF AuthInvariant, SessionsComeFromLogins, Answered
<1>8. TokensNameSessions'
  BY <1>1, <1>2, <1>3 DEF AuthInvariant, TokensNameSessions
<1>9. LoginAnswersHold'
  BY <1>1, <1>2, <1>3 DEF AuthInvariant, LoginAnswersHold
<1>10. CookiesNameSessions'
  BY <1>2 DEF AuthInvariant, CookiesNameSessions
<1> QED
  BY <1>4, <1>5, <1>6, <1>7, <1>8, <1>9, <1>10 DEF AuthInvariant

LEMMA UpdateLastLoginKeeps ==
    ASSUME AuthInvariant, NEW r \in Requests, UpdateLastLogin(r)
    PROVE  AuthInvariant'
<1>1. /\ pc[r] = "update" /\ pc[r] \in Running
      /\ req[r].op = "login" /\ req[r].user \in Users /\ userLock[req[r].user] = None
      /\ UNCHANGED <<active, lastLogin, sessions, now, cookie, req>>
  BY DEF UpdateLastLogin, AuthInvariant, RequestsProceed, Running, Phases, Answered, tables
<1>2. CASE Answer(r, "invalid_credentials") /\ ReleaseUser(r)
  BY <1>1, <1>2, AnswerKeeps
<1>3. CASE /\ req[r].user \in active
           /\ userLock' = [userLock EXCEPT ![req[r].user] = r]
           /\ Goto(r, "commit") /\ UNCHANGED outcome
  <2>1. /\ pc'[r] = "commit" /\ \A q \in Requests \ {r} : pc'[q] = pc[q]
        /\ \A u \in Users : userLock'[u] = IF u = req[r].user THEN r ELSE userLock[u]
    BY <1>1, <1>3 DEF Goto, AuthInvariant, TypeOK
  <2>2. TypeOK'
    BY <1>1, <1>3 DEF AuthInvariant, TypeOK, Goto, Phases
  <2>3. RequestsProceed'
    BY <1>1, <1>3, <2>1 DEF AuthInvariant, RequestsProceed, Answered
  <2>4. LocksProtectLogins'
    BY <1>1, <1>3, <2>1, SessionIds DEF AuthInvariant, LocksProtectLogins
  <2>5. SessionsComeFromLogins'
    BY <1>1, <1>3, <2>1 DEF AuthInvariant, SessionsComeFromLogins, Answered
  <2>6. TokensNameSessions' /\ LoginAnswersHold' /\ CookiesNameSessions'
    BY <1>1, <1>3
       DEF AuthInvariant, TokensNameSessions, LoginAnswersHold, CookiesNameSessions
  <2> QED
    BY <2>2, <2>3, <2>4, <2>5, <2>6 DEF AuthInvariant
<1> QED
  BY <1>2, <1>3 DEF UpdateLastLogin

(* The session and the last login time appear, and the lock goes.          *)
LEMMA CommitLoginKeeps ==
    ASSUME AuthInvariant, NEW r \in Requests, CommitLogin(r)
    PROVE  AuthInvariant'
<1> DEFINE session == [user |-> req[r].user, createdAt |-> req[r].issued, revoked |-> FALSE]
<1>1. /\ pc[r] = "commit" /\ pc[r] \in Running
      /\ req[r].op = "login" /\ req[r].user \in Users
  BY DEF CommitLogin, AuthInvariant, RequestsProceed, Running, Phases, Answered
<1>2. /\ req[r] \in Request /\ req[r] # None /\ outcome[r] = "none" /\ sessions[r] = None
  BY <1>1, RunningRequest
<1>3. /\ sessions' = [sessions EXCEPT ![r] = session]
      /\ lastLogin' = [lastLogin EXCEPT ![req[r].user] = req[r].issued]
      /\ ReleaseUser(r)
      /\ UNCHANGED <<active, now, cookie, req>>
  BY DEF CommitLogin
<1>4. PICK answer \in {"ok", "error"} : Answer(r, answer)
  BY DEF CommitLogin
<1>5. session \in Session /\ session # None /\ session.user = req[r].user
  <2>1. req[r].issued \in 0 .. MaxTime
    BY <1>2 DEF Request
  <2>2. session \in Session /\ session.user = req[r].user
    BY <1>1, <2>1 DEF Session
  <2> QED
    BY <2>2, SessionNull
<1> HIDE DEF session
<1>6. /\ pc'[r] = "answered" /\ outcome'[r] = answer
      /\ \A q \in Requests \ {r} : pc'[q] = pc[q] /\ outcome'[q] = outcome[q]
      /\ \A u \in Users : userLock'[u] = IF userLock[u] = r THEN None ELSE userLock[u]
      /\ sessions'[r] = session
      /\ \A k \in Requests \ {r} : sessions'[k] = sessions[k]
  <2>1. /\ pc'[r] = "answered" /\ outcome'[r] = answer
        /\ \A q \in Requests \ {r} : pc'[q] = pc[q] /\ outcome'[q] = outcome[q]
    BY <1>4 DEF Answer, Goto, AuthInvariant, TypeOK
  <2>2. \A u \in Users : userLock'[u] = IF userLock[u] = r THEN None ELSE userLock[u]
    BY <1>3 DEF ReleaseUser
  <2>3. sessions'[r] = session /\ \A k \in Requests \ {r} : sessions'[k] = sessions[k]
    BY <1>3 DEF AuthInvariant, TypeOK
  <2> QED
    BY <2>1, <2>2, <2>3
<1>7. TypeOK'
  <2>1. sessions' \in [Requests -> Session \cup {None}]
    BY <1>3, <1>5 DEF AuthInvariant, TypeOK
  <2>2. lastLogin' \in [Users -> (0 .. MaxTime) \cup {None}]
    BY <1>2, <1>3 DEF AuthInvariant, TypeOK, Request
  <2>3. pc' \in [Requests -> Phases] /\ outcome' \in [Requests -> Outcomes]
    BY <1>4 DEF AuthInvariant, TypeOK, Answer, Goto, Phases, Outcomes
  <2>4. userLock' \in [Users -> Requests \cup {None}]
    BY <1>3 DEF AuthInvariant, TypeOK, ReleaseUser
  <2> QED
    BY <1>3, <2>1, <2>2, <2>3, <2>4 DEF AuthInvariant, TypeOK
<1>8. RequestsProceed'
  BY <1>1, <1>2, <1>3, <1>6 DEF AuthInvariant, RequestsProceed, Answered
<1>9. LocksProtectLogins'
  BY <1>3, <1>6, SessionIds DEF AuthInvariant, LocksProtectLogins
<1>10. SessionsComeFromLogins'
  BY <1>1, <1>3, <1>5, <1>6 DEF AuthInvariant, SessionsComeFromLogins, Answered
<1>11. TokensNameSessions'
  <2>1. TokensNameSessions
    BY DEF AuthInvariant
  <2>2. ASSUME NEW q \in Requests, req[q] # None, req[q].token # None
        PROVE  /\ sessions'[req[q].token] # None
               /\ outcome'[q] = "no_content" => sessions'[req[q].token].revoked
    <3>1. /\ req[q].token \in Requests /\ sessions[req[q].token] # None
          /\ outcome[q] = "no_content" => sessions[req[q].token].revoked
      BY <2>1, <2>2 DEF TokensNameSessions, AuthInvariant, TypeOK, Request
    <3>2. req[q].token # r
      BY <1>2, <3>1
    <3> QED
      BY <1>2, <1>6, <3>1, <3>2
  <2> QED
    BY <1>3, <2>2 DEF TokensNameSessions
<1>12. LoginAnswersHold'
  BY <1>2, <1>3, <1>5, <1>6 DEF AuthInvariant, LoginAnswersHold
<1>13. CookiesNameSessions'
  BY <1>2, <1>3, <1>6 DEF AuthInvariant, CookiesNameSessions, TypeOK
<1> QED
  BY <1>7, <1>8, <1>9, <1>10, <1>11, <1>12, <1>13 DEF AuthInvariant

(* A session stays what it was but for being revoked.                      *)
LEMMA RevokeSessionKeeps ==
    ASSUME AuthInvariant, NEW r \in Requests, RevokeSession(r)
    PROVE  AuthInvariant'
<1>1. /\ pc[r] = "revoke" /\ pc[r] \in Running /\ req[r].op = "logout"
  BY DEF RevokeSession, AuthInvariant, RequestsProceed, Running, Phases, Answered
<1>2. /\ req[r] \in Request /\ req[r] # None /\ outcome[r] = "none" /\ sessions[r] = None
  BY <1>1, RunningRequest
<1>3. UNCHANGED <<active, lastLogin, userLock, now, cookie, req>>
  BY DEF RevokeSession
<1>4. PICK answer \in {"no_content", "error"} : Answer(r, answer)
  BY DEF RevokeSession
<1>5. /\ pc'[r] = "answered" /\ outcome'[r] = answer
      /\ \A q \in Requests \ {r} : pc'[q] = pc[q] /\ outcome'[q] = outcome[q]
  BY <1>4 DEF Answer, Goto, AuthInvariant, TypeOK
<1>6. /\ sessions' \in [Requests -> Session \cup {None}]
      /\ \A k \in Requests :
            /\ sessions'[k] = None <=> sessions[k] = None
            /\ sessions[k] # None =>
                  /\ sessions'[k].user = sessions[k].user
                  /\ sessions[k].revoked => sessions'[k].revoked
      /\ req[r].token # None => sessions'[req[r].token].revoked
  <2>1. sessions \in [Requests -> Session \cup {None}]
    BY DEF AuthInvariant, TypeOK
  <2>2. CASE req[r].token = None
    <3>1. sessions' = sessions
      BY <2>2 DEF RevokeSession
    <3> QED
      BY <2>1, <2>2, <3>1
  <2>3. CASE req[r].token # None
    <3> DEFINE k == req[r].token
               session == [sessions[k] EXCEPT !.revoked = TRUE]
    <3>1. k \in Requests /\ sessions[k] \in Session
      BY <1>2, <2>1, <2>3 DEF Request, AuthInvariant, TokensNameSessions
    <3>2. sessions' = [sessions EXCEPT ![k] = session]
      BY <1>2, <2>3, <3>1, SessionNull DEF RevokeSession
    <3>3. session \in Session /\ session.user = sessions[k].user /\ session.revoked
      BY <3>1 DEF Session
    <3>4. None \notin Session
      BY SessionNull
    <3> HIDE DEF session, k
    <3>5. sessions'[k] = session /\ \A j \in Requests \ {k} : sessions'[j] = sessions[j]
      BY <2>1, <3>1, <3>2
    <3>6. sessions' \in [Requests -> Session \cup {None}]
      BY <2>1, <3>2, <3>3
    <3>7. sessions'[k].revoked
      BY <3>3, <3>5
    <3> QED
      BY <3>1, <3>3, <3>4, <3>5, <3>6, <3>7 DEF k
  <2> QED
    BY <2>2, <2>3
<1>7. TypeOK'
  BY <1>3, <1>4, <1>6 DEF AuthInvariant, TypeOK, Answer, Goto, Phases, Outcomes
<1>8. RequestsProceed'
  BY <1>1, <1>2, <1>3, <1>5 DEF AuthInvariant, RequestsProceed, Answered
<1>9. LocksProtectLogins'
  BY <1>1, <1>3, <1>5 DEF AuthInvariant, LocksProtectLogins
<1>10. SessionsComeFromLogins'
  BY <1>1, <1>2, <1>3, <1>5, <1>6 DEF AuthInvariant, SessionsComeFromLogins, Answered
<1>11. TokensNameSessions'
  <2>1. ASSUME NEW q \in Requests, req[q] # None, req[q].token # None
        PROVE  /\ sessions'[req[q].token] # None
               /\ outcome'[q] = "no_content" => sessions'[req[q].token].revoked
    <3>1. /\ req[q].token \in Requests /\ sessions[req[q].token] # None
          /\ outcome[q] = "no_content" => sessions[req[q].token].revoked
      BY <2>1 DEF TokensNameSessions, AuthInvariant, TypeOK, Request
    <3>2. CASE q = r
      BY <1>6, <2>1, <3>1, <3>2
    <3>3. CASE q # r
      BY <1>5, <1>6, <3>1, <3>3
    <3> QED
      BY <3>2, <3>3
  <2> QED
    BY <1>3, <2>1 DEF TokensNameSessions
<1>12. LoginAnswersHold'
  <2>1. ASSUME NEW q \in Requests, req[q] # None, req[q].op = "login"
        PROVE  /\ outcome'[q] = "ok" => sessions'[q] # None /\ sessions'[q].user = req[q].user
               /\ outcome'[q] = "invalid_credentials" => sessions'[q] = None
    <3>1. q # r /\ outcome'[q] = outcome[q]
      BY <1>1, <1>5, <2>1
    <3>2. /\ outcome[q] = "ok" => sessions[q] # None /\ sessions[q].user = req[q].user
          /\ outcome[q] = "invalid_credentials" => sessions[q] = None
      BY <2>1 DEF AuthInvariant, LoginAnswersHold
    <3> QED
      BY <1>6, <3>1, <3>2
  <2> QED
    BY <1>3, <2>1 DEF LoginAnswersHold
<1>13. CookiesNameSessions'
  <2>1. \A b \in Browsers : cookie[b] # None => cookie[b] \in Requests /\ sessions[cookie[b]] # None
    BY DEF AuthInvariant, CookiesNameSessions, TypeOK
  <2> QED
    BY <1>3, <1>6, <2>1 DEF CookiesNameSessions
<1> QED
  BY <1>7, <1>8, <1>9, <1>10, <1>11, <1>12, <1>13 DEF AuthInvariant

LEMMA AuthenticateKeeps ==
    ASSUME AuthInvariant, NEW r \in Requests, Authenticate(r)
    PROVE  AuthInvariant'
<1>1. /\ pc[r] = "authenticate" /\ pc[r] \in Running /\ req[r].op = "visit"
      /\ UNCHANGED <<active, lastLogin, sessions, userLock, now, cookie, req>>
  BY DEF Authenticate, AuthInvariant, RequestsProceed, Running, Phases, Answered, tables
<1>2. Answer(r, "ok") \/ Answer(r, "unauthenticated")
  BY DEF Authenticate
<1> QED
  BY <1>1, <1>2, AnswerKeeps, NothingToRelease

LEMMA AbortKeeps ==
    ASSUME AuthInvariant, NEW r \in Requests, Abort(r)
    PROVE  AuthInvariant'
<1>1. /\ pc[r] \in Running /\ Answer(r, "error") /\ ReleaseUser(r)
      /\ UNCHANGED <<active, lastLogin, sessions, now, cookie, req>>
  BY DEF Abort, AuthInvariant, TypeOK, Running, Answered, tables
<1> QED
  BY <1>1, AnswerKeeps

(* The answer arrives or is lost: only the cookie can change.              *)
LEMMA AnswerTravels ==
    ASSUME AuthInvariant, NEW r \in Requests, Receive(r) \/ Lose(r)
    PROVE  AuthInvariant'
<1>1. /\ pc[r] = "answered" /\ Goto(r, "received")
      /\ UNCHANGED <<active, lastLogin, sessions, userLock, now, req, outcome>>
  BY DEF Receive, Lose, tables
<1>2. pc'[r] = "received" /\ \A q \in Requests \ {r} : pc'[q] = pc[q]
  BY <1>1 DEF Goto, AuthInvariant, TypeOK
<1>3. /\ req[r] \in Request
      /\ outcome[r] = "ok" /\ req[r].op = "login" => sessions[r] # None
  BY <1>1 DEF AuthInvariant, TypeOK, RequestsProceed, LoginAnswersHold
<1>4. /\ cookie' \in [Browsers -> Requests \cup {None}]
      /\ CookiesNameSessions'
  <2>1. /\ cookie \in [Browsers -> Requests \cup {None}]
        /\ \A b \in Browsers : cookie[b] # None => sessions[cookie[b]] # None
    BY DEF AuthInvariant, TypeOK, CookiesNameSessions
  <2>2. CASE cookie' = cookie
    BY <1>1, <2>1, <2>2 DEF CookiesNameSessions
  <2>3. CASE cookie' = [cookie EXCEPT ![req[r].browser] = None]
    BY <1>1, <2>1, <2>3 DEF CookiesNameSessions
  <2>4. CASE /\ outcome[r] = "ok" /\ req[r].op = "login"
             /\ cookie' = [cookie EXCEPT ![req[r].browser] = r]
    BY <1>1, <1>3, <2>1, <2>4 DEF CookiesNameSessions
  <2>5. CASE cookie' = [cookie EXCEPT ![req[r].browser] = cookie[req[r].browser]]
    BY <1>1, <2>1, <2>5 DEF CookiesNameSessions
  <2> QED
    BY <2>2, <2>3, <2>4, <2>5 DEF Receive, Lose
<1>5. TypeOK'
  BY <1>1, <1>4 DEF AuthInvariant, TypeOK, Goto, Phases
<1>6. RequestsProceed' /\ LocksProtectLogins' /\ SessionsComeFromLogins'
  BY <1>1, <1>2 DEF AuthInvariant, RequestsProceed, LocksProtectLogins,
                    SessionsComeFromLogins, Answered
<1>7. TokensNameSessions' /\ LoginAnswersHold'
  BY <1>1 DEF AuthInvariant, TokensNameSessions, LoginAnswersHold
<1> QED
  BY <1>4, <1>5, <1>6, <1>7 DEF AuthInvariant

(* A user with a locked row is not switched; time touches no request.      *)
LEMMA WorldKeeps ==
    ASSUME AuthInvariant, Tick \/ \E u \in Users : Switch(u)
    PROVE  AuthInvariant'
<1>1. UNCHANGED <<lastLogin, sessions, userLock, cookie, pc, req, outcome>>
  BY DEF Tick, Switch, tables
<1>2. now' \in 0 .. MaxTime /\ active' \subseteq Users
  BY SessionTime DEF Tick, Switch, AuthInvariant, TypeOK, tables
<1>3. \A u \in Users : userLock[u] # None => (u \in active <=> u \in active')
  BY DEF Tick, Switch, tables
<1>4. LocksProtectLogins'
  <2>1. ASSUME NEW r \in Requests, pc[r] = "commit"
        PROVE  req[r].user \in active'
    <3>1. /\ req[r].user \in Users /\ req[r].user \in active
          /\ userLock[req[r].user] = r
      BY <2>1 DEF AuthInvariant, LocksProtectLogins, TypeOK
    <3> QED
      BY <1>3, <3>1, SessionIds
  <2> QED
    BY <1>1, <2>1 DEF AuthInvariant, LocksProtectLogins
<1> QED
  BY <1>1, <1>2, <1>4
     DEF AuthInvariant, TypeOK, RequestsProceed, SessionsComeFromLogins,
         TokensNameSessions, LoginAnswersHold, CookiesNameSessions

LEMMA InitEstablishes == Init => AuthInvariant
<1> SUFFICES ASSUME Init PROVE AuthInvariant
  OBVIOUS
<1>1. TypeOK
  BY SessionTime DEF Init, TypeOK, Phases, Outcomes
<1>2. RequestsProceed /\ LocksProtectLogins
  BY SessionIds DEF Init, RequestsProceed, LocksProtectLogins, Answered
<1>3. SessionsComeFromLogins /\ TokensNameSessions /\ LoginAnswersHold /\ CookiesNameSessions
  BY DEF Init, SessionsComeFromLogins, TokensNameSessions, LoginAnswersHold,
         CookiesNameSessions
<1> QED
  BY <1>1, <1>2, <1>3 DEF AuthInvariant

LEMMA NextKeeps == AuthInvariant /\ [Next]_vars => AuthInvariant'
<1> SUFFICES ASSUME AuthInvariant, [Next]_vars PROVE AuthInvariant'
  OBVIOUS
<1>1. ASSUME NEW r \in Requests, Arrive(r) PROVE AuthInvariant'
  BY <1>1, ArriveKeeps
<1>2. ASSUME NEW r \in Requests, Proceed(r) PROVE AuthInvariant'
  BY <1>2, FindUserKeeps, IssueSessionKeeps, UpdateLastLoginKeeps, CommitLoginKeeps,
     RevokeSessionKeeps, AuthenticateKeeps DEF Proceed
<1>3. ASSUME NEW r \in Requests, Abort(r) PROVE AuthInvariant'
  BY <1>3, AbortKeeps
<1>4. ASSUME NEW r \in Requests, Receive(r) \/ Lose(r) PROVE AuthInvariant'
  BY <1>4, AnswerTravels
<1>5. ASSUME Tick \/ \E u \in Users : Switch(u) PROVE AuthInvariant'
  BY <1>5, WorldKeeps
<1>6. CASE UNCHANGED vars
  BY <1>6
     DEF vars, tables, AuthInvariant, TypeOK, RequestsProceed, LocksProtectLogins,
         SessionsComeFromLogins, TokensNameSessions, LoginAnswersHold, CookiesNameSessions,
         Answered
<1> QED
  BY <1>1, <1>2, <1>3, <1>4, <1>5, <1>6 DEF Next

-----------------------------------------------------------------------------
(* Theorems.                                                               *)

(* The invariant holds in every reachable state, whatever requests meet.   *)
THEOREM InvariantHolds == Spec => []AuthInvariant
<1>1. Init => AuthInvariant
  BY InitEstablishes
<1>2. AuthInvariant /\ [Next]_vars => AuthInvariant'
  BY NextKeeps
<1> QED
  BY <1>1, <1>2, PTL DEF Spec

(* Login answers tell the truth about their sessions, for good.            *)
THEOREM LoginAnswersAreTrue == Spec => []LoginAnswersHold
<1>1. AuthInvariant => LoginAnswersHold
  BY DEF AuthInvariant
<1> QED
  BY <1>1, InvariantHolds, PTL

(* A cookie names a session, so there is something to revoke.              *)
THEOREM CookiesCanBeRevoked == Spec => []CookiesNameSessions
<1>1. AuthInvariant => CookiesNameSessions
  BY DEF AuthInvariant
<1> QED
  BY <1>1, InvariantHolds, PTL

-----------------------------------------------------------------------------
(* Once a logout with its token was answered, no step answers a request    *)
(* for that token with ok.                                                 *)
LEMMA RevokedIsNotValid ==
    ASSUME AuthInvariant, NEW k \in Requests \cup {None}, LoggedOut(k)
    PROVE  ~Valid(k)
<1>1. PICK q \in Requests : outcome[q] = "no_content" /\ req[q].token = k
  BY DEF LoggedOut
<1>2. req[q] # None /\ TokensNameSessions
  BY <1>1 DEF AuthInvariant, RequestsProceed, Answered
<1>3. CASE k = None
  BY <1>3 DEF Valid
<1>4. CASE k # None
  BY <1>1, <1>2, <1>4 DEF TokensNameSessions, Valid
<1> QED
  BY <1>3, <1>4

LEMMA StepsRespectLogout ==
    ASSUME AuthInvariant, [Next]_vars, NEW r \in Requests,
           pc[r] = "authenticate", LoggedOut(req[r].token)
    PROVE  outcome'[r] # "ok"
<1>1. /\ pc[r] \in Running /\ outcome \in [Requests -> Outcomes]
      /\ req[r].op = "visit"
  BY DEF AuthInvariant, TypeOK, RequestsProceed, Running, Phases, Answered
<1>2. outcome[r] = "none" /\ req[r].token \in Requests \cup {None}
  BY <1>1, RunningRequest DEF Request
<1>3. ~Valid(req[r].token)
  BY <1>2, RevokedIsNotValid
<1>4. CASE outcome' = outcome
  BY <1>2, <1>4
<1>5. ASSUME NEW q \in Requests, NEW answer, Answer(q, answer), q = r => answer # "ok"
      PROVE  outcome'[r] # "ok"
  BY <1>1, <1>2, <1>5 DEF Answer
<1>6. ASSUME NEW q \in Requests, Proceed(q) PROVE outcome'[r] # "ok"
  <2>1. CASE FindUser(q)
    <3>1. q # r
      BY <2>1 DEF FindUser
    <3> QED
      BY <1>4, <1>5, <2>1, <3>1 DEF FindUser
  <2>2. CASE IssueSession(q)
    BY <1>4, <2>2 DEF IssueSession
  <2>3. CASE UpdateLastLogin(q)
    <3>1. q # r
      BY <2>3 DEF UpdateLastLogin
    <3> QED
      BY <1>4, <1>5, <2>3, <3>1 DEF UpdateLastLogin
  <2>4. CASE CommitLogin(q)
    <3>1. q # r
      BY <2>4 DEF CommitLogin
    <3> QED
      BY <1>5, <2>4, <3>1 DEF CommitLogin
  <2>5. CASE RevokeSession(q)
    <3>1. q # r
      BY <2>5 DEF RevokeSession
    <3> QED
      BY <1>5, <2>5, <3>1 DEF RevokeSession
  <2>6. CASE Authenticate(q)
    <3>1. Answer(q, IF Valid(req[q].token) THEN "ok" ELSE "unauthenticated")
      BY <2>6 DEF Authenticate
    <3>2. q = r => (IF Valid(req[q].token) THEN "ok" ELSE "unauthenticated") # "ok"
      BY <1>3
    <3> HIDE DEF Valid
    <3> QED
      BY <1>5, <3>1, <3>2
  <2> QED
    BY <1>6, <2>1, <2>2, <2>3, <2>4, <2>5, <2>6 DEF Proceed
<1>7. ASSUME NEW q \in Requests, Abort(q) PROVE outcome'[r] # "ok"
  BY <1>5, <1>7 DEF Abort
<1>8. ASSUME NEW q \in Requests, Arrive(q) \/ Receive(q) \/ Lose(q)
      PROVE  outcome'[r] # "ok"
  BY <1>4, <1>8 DEF Arrive, SubmitLogin, SubmitLogout, SubmitVisit, Submit, Receive, Lose
<1>9. CASE Tick \/ (\E u \in Users : Switch(u)) \/ UNCHANGED vars
  BY <1>4, <1>9 DEF Tick, Switch, vars
<1> QED
  BY <1>6, <1>7, <1>8, <1>9 DEF Next

(* A logout that was answered is final, whoever switches the user, in      *)
(* whatever order requests run and answers arrive.                         *)
THEOREM LogoutStaysFinal == Spec => LogoutIsFinal
<1>1. AuthInvariant /\ [Next]_vars =>
        \A r \in Requests :
            pc[r] = "authenticate" /\ LoggedOut(req[r].token) => outcome'[r] # "ok"
  BY StepsRespectLogout
<1> QED
  BY <1>1, InvariantHolds, PTL DEF Spec, LogoutIsFinal

-----------------------------------------------------------------------------
(* Every step of the handlers is an event of the ledger or none.           *)
LEMMA StepsAreLedgerEvents ==
    ASSUME AuthInvariant, [Next]_vars
    PROVE  [Ledger!LedgerNext]_(Ledger!ledgerVars)
<1> DEFINE owner   == [k \in Requests |-> IF sessions[k] = None THEN None ELSE sessions[k].user]
           revoked == {k \in Requests : sessions[k] # None /\ sessions[k].revoked}
<1>1. sessions \in [Requests -> Session \cup {None}] /\ active \subseteq Users
  BY DEF AuthInvariant, TypeOK
<1>2. CASE UNCHANGED <<sessions, lastLogin, active>>
  <2>1. owner' = owner /\ revoked' = revoked
    BY <1>2
  <2> QED
    BY <1>2, <2>1 DEF Ledger!ledgerVars
<1>3. ASSUME NEW r \in Requests, CommitLogin(r)
      PROVE  Ledger!LedgerNext
  <2>1. /\ pc[r] = "commit" /\ pc[r] \in Running
        /\ req[r].user \in Users /\ req[r].user \in active
    BY <1>3 DEF CommitLogin, AuthInvariant, RequestsProceed, LocksProtectLogins,
                Running, Phases, Answered
  <2>2. req[r].issued \in 0 .. MaxTime /\ sessions[r] = None
    BY <2>1, RunningRequest DEF Request
  <2>3. PICK u \in Users, time \in 0 .. MaxTime : u = req[r].user /\ time = req[r].issued
    BY <2>1, <2>2
  <2> DEFINE session == [user |-> u, createdAt |-> time, revoked |-> FALSE]
  <2>4. /\ sessions' = [sessions EXCEPT ![r] = session]
        /\ lastLogin' = [lastLogin EXCEPT ![u] = time]
        /\ active' = active
    BY <1>3, <2>3 DEF CommitLogin
  <2>5. session \in Session /\ session.user = u
    BY <2>3 DEF Session
  <2>6. ~session.revoked
    OBVIOUS
  <2>7. session # None
    BY <2>5, SessionNull
  <2> HIDE DEF session
  <2>8. sessions'[r] = session /\ \A k \in Requests \ {r} : sessions'[k] = sessions[k]
    BY <1>1, <2>4
  <2>9. owner[r] = None /\ owner' = [owner EXCEPT ![r] = u]
    <3>1. owner[r] = None
      BY <2>2
    <3>2. \A k \in Requests :
            (IF sessions'[k] = None THEN None ELSE sessions'[k].user)
              = IF k = r THEN u ELSE owner[k]
      BY <2>5, <2>7, <2>8
    <3>3. owner' = [k \in Requests |-> IF k = r THEN u ELSE owner[k]]
      BY <3>2
    <3>4. owner \in [Requests -> Users \cup {None}]
      BY <1>1 DEF Session
    <3> HIDE DEF owner
    <3> QED
      BY <3>1, <3>3, <3>4
  <2>10. revoked' = revoked
    <3>1. \A k \in Requests :
            sessions'[k] # None /\ sessions'[k].revoked <=> sessions[k] # None /\ sessions[k].revoked
      BY <2>2, <2>6, <2>8
    <3> QED
      BY <3>1
  <2>11. Ledger!Open(r, u, time)
    BY <2>1, <2>3, <2>4, <2>9, <2>10 DEF Ledger!Open
  <2> QED
    BY <2>3, <2>11 DEF Ledger!LedgerNext
<1>4. ASSUME NEW r \in Requests, RevokeSession(r), sessions' # sessions
      PROVE  Ledger!LedgerNext
  <2>1. pc[r] = "revoke" /\ pc[r] \in Running /\ UNCHANGED <<lastLogin, active>>
    BY <1>4 DEF RevokeSession, Running, Phases, Answered
  <2>2. /\ req[r].token # None /\ sessions[req[r].token] # None
        /\ sessions' = [sessions EXCEPT ![req[r].token].revoked = TRUE]
    BY <1>4 DEF RevokeSession
  <2>3. PICK k \in Requests : k = req[r].token
    BY <2>1, <2>2, RunningRequest DEF Request
  <2> DEFINE session == [sessions[k] EXCEPT !.revoked = TRUE]
  <2>4. sessions[k] # None /\ sessions[k] \in Session
    BY <1>1, <2>2, <2>3
  <2>5. sessions' = [sessions EXCEPT ![k] = session]
    BY <2>2, <2>3
  <2>6. session \in Session /\ session.user = sessions[k].user /\ session.revoked
    BY <2>4 DEF Session
  <2>7. session # None
    BY <2>6, SessionNull
  <2> HIDE DEF session
  <2>8. sessions'[k] = session /\ \A j \in Requests \ {k} : sessions'[j] = sessions[j]
    BY <1>1, <2>5
  <2>9. owner[k] # None
    BY <2>4, SessionIds DEF Session
  <2>10. owner' = owner
    BY <2>4, <2>6, <2>7, <2>8
  <2>11. revoked' = revoked \cup {k}
    BY <2>6, <2>7, <2>8
  <2>12. Ledger!Revoke(k)
    BY <2>1, <2>9, <2>10, <2>11 DEF Ledger!Revoke
  <2> QED
    BY <2>12 DEF Ledger!LedgerNext
<1>5. ASSUME NEW u \in Users, Switch(u)
      PROVE  Ledger!LedgerNext
  <2>1. UNCHANGED <<sessions, lastLogin>> /\ active' \in SUBSET Users
    BY <1>1, <1>5 DEF Switch
  <2>2. owner' = owner /\ revoked' = revoked
    BY <2>1
  <2>3. Ledger!Switch(active')
    BY <2>1, <2>2 DEF Ledger!Switch
  <2> QED
    BY <2>1, <2>3 DEF Ledger!LedgerNext
<1>6. ASSUME NEW r \in Requests, Proceed(r)
      PROVE  \/ UNCHANGED <<sessions, lastLogin, active>>
             \/ CommitLogin(r)
             \/ RevokeSession(r) /\ sessions' # sessions
  BY <1>6 DEF Proceed, FindUser, IssueSession, UpdateLastLogin, RevokeSession,
              Authenticate, tables
<1>7. ASSUME NEW r \in Requests, Arrive(r) \/ Abort(r) \/ Receive(r) \/ Lose(r)
      PROVE  UNCHANGED <<sessions, lastLogin, active>>
  BY <1>7 DEF Arrive, SubmitLogin, SubmitLogout, SubmitVisit, Submit, Abort, Receive, Lose,
              tables
<1>8. CASE Tick \/ UNCHANGED vars
  BY <1>2, <1>8 DEF Tick, vars, tables
<1> QED
  BY <1>2, <1>3, <1>4, <1>5, <1>6, <1>7, <1>8 DEF Next

(* The auth tables implement the ledger of sessions.                       *)
THEOREM SessionsImplementLedger == Spec => ImplementsLedger
<1>1. Init => Ledger!LedgerInit
  BY DEF Init, Ledger!LedgerInit
<1>2. AuthInvariant /\ [Next]_vars => [Ledger!LedgerNext]_(Ledger!ledgerVars)
  BY StepsAreLedgerEvents
<1> QED
  BY <1>1, <1>2, InvariantHolds, PTL DEF Spec, ImplementsLedger, Ledger!LedgerSpec
=============================================================================
