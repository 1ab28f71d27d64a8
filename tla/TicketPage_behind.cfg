SPECIFICATION Spec
CONSTANTS
    Tickets = {1, 2}
    Existing = {1}
    PageSize = 1
    Mutations = {"create"}
    BehindDialog = TRUE
    MaxClicks = 4
    MaxStaff = 1
    None = None
CHECK_DEADLOCK FALSE
PROPERTIES
    CreationReloadsOpenList
