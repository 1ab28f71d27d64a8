SPECIFICATION Spec
CONSTANTS
    Tickets = {1, 2}
    Existing = {1, 2}
    PageSize = 1
    Mutations = {"accept"}
    BehindDialog = FALSE
    MaxClicks = 2
    MaxStaff = 0
    None = None
CHECK_DEADLOCK FALSE
PROPERTIES
    AcceptedRowsArePatched
