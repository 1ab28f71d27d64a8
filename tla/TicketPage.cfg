SPECIFICATION FairSpec
CONSTANTS
    Tickets = {1, 2, 3}
    Existing = {1, 2}
    PageSize = 1
    Mutations = {"create", "accept", "assign"}
    BehindDialog = TRUE
    MaxClicks = 4
    MaxStaff = 1
    None = None
CHECK_DEADLOCK FALSE
INVARIANTS
    PageInvariant
    OneMutationPerTicket
PROPERTIES
    ListIsOnePagedView
    AnswersDoNotMoveChat
    OnlyAssignmentsTurnBack
    ComesToRest
