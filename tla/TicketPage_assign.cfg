SPECIFICATION Spec
CONSTANTS
    Tickets = {1, 2}
    Existing = {1, 2}
    PageSize = 2
    Mutations = {"assign"}
    BehindDialog = TRUE
    MaxClicks = 4
    MaxStaff = 0
    None = None
CHECK_DEADLOCK FALSE
PROPERTIES
    AssignmentClosesItsDialog
