SPECIFICATION Spec
CONSTANTS
    Tickets = {1, 2}
    Existing = {1}
    PageSize = 1
    Mutations = {"accept", "assign"}
    BehindDialog = FALSE
    MaxClicks = 4
    MaxStaff = 1
    None = None
CHECK_DEADLOCK FALSE
PROPERTIES
    NeverPendingAgain
