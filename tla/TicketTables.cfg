SPECIFICATION FairSpec
CONSTANTS
    Tickets = {1, 2, 3}
    Existing = {1}
    Users = {u1}
    Departments = {d1}
    Locations = {l1}
    Switchable = {d1, l1, u1}
    Requests = {r1, r2}
    Times = {1, 2}
    Limits = {1, 2}
    MaxHistory = 3
    None = None
CHECK_DEADLOCK FALSE
INVARIANTS
    StoreInvariant
    NothingSteadyIsMissed
    PagesDescend
    RowsFollowHistory
    ClosedRowsAreFinal
PROPERTIES
    CreatedForActiveTargets
    EveryRequestIsAnswered
    PagingEnds
