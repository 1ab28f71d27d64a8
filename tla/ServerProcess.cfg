SPECIFICATION FairSpec
CONSTANTS
    Servers = {s1, s2}
    Directories <- MCDirectories
    Versions = {1, 2, 3}
    Checksums = {"a", "b"}
    Dirty = {2}
    None = None
    Orphan = Orphan
    MaxStarts = 2
    Requests = {q1, q2, q3}
    Routes = {"health", "ready", "session", "login", "change"}
    MaxConns = 2
    NoRequest = NoRequest
CHECK_DEADLOCK FALSE
INVARIANTS
    LedgerDescribesSchema
    ServesItsMigrations
    RunnerInvariant
    ZeroMeansGraceful
    ExitCutsNoTransaction
PROPERTIES
    ImplementsLedger
    LockIsReleased
    EveryRequestEnds
    ReadinessAnswers
    StopsWhenTold
