---------------------------- MODULE SessionLedger ----------------------------
(***************************************************************************)
(* What the auth tables promise: a session is opened once, together with   *)
(* its user's last login time and only for an active user; afterwards it   *)
(* can only be revoked, once and for good.  AuthSessions implements this   *)
(* specification.                                                          *)
(***************************************************************************)
EXTENDS Naturals

CONSTANTS
    Users,   \* user ids
    Tokens,  \* session tokens
    Times,   \* points in time, numbers
    None     \* no user, no time

VARIABLES
    owner,      \* owner[k]: whose session token k opens, None before
    revoked,    \* the tokens whose session was revoked
    lastLogin,  \* lastLogin[u]: users.last_login_at
    active      \* the users whose is_active is TRUE

ledgerVars == <<owner, revoked, lastLogin, active>>

LedgerInit ==
    /\ owner = [k \in Tokens |-> None]
    /\ revoked = {}
    /\ lastLogin = [u \in Users |-> None]
    /\ active = Users

Open(k, u, time) ==
    /\ owner[k] = None
    /\ u \in active
    /\ owner' = [owner EXCEPT ![k] = u]
    /\ lastLogin' = [lastLogin EXCEPT ![u] = time]
    /\ UNCHANGED <<revoked, active>>

Revoke(k) ==
    /\ owner[k] # None
    /\ revoked' = revoked \cup {k}
    /\ UNCHANGED <<owner, lastLogin, active>>

(* Users are switched on and off by other means.                           *)
Switch(users) ==
    /\ active' = users
    /\ UNCHANGED <<owner, revoked, lastLogin>>

LedgerNext ==
    \/ \E k \in Tokens :
          Revoke(k) \/ \E u \in Users, time \in Times : Open(k, u, time)
    \/ \E users \in SUBSET Users : Switch(users)

LedgerSpec == LedgerInit /\ [][LedgerNext]_ledgerVars
=============================================================================
