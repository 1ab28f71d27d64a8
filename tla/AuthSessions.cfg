SPECIFICATION FairSpec
CONSTANTS
    Users = {u1}
    Browsers = {b1}
    Requests = {r1, r2, r3}
    TTL = 1
    MaxTime = 1
    None = None
CHECK_DEADLOCK FALSE
INVARIANTS
    AuthInvariant
    LoginAnswersHold
    CookiesNameSessions
PROPERTIES
    LogoutIsFinal
    ImplementsLedger
    EveryRequestIsAnswered
