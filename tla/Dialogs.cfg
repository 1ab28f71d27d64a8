SPECIFICATION FairSpec
CONSTANTS
    Tickets = {1, 2}
    Departments = {"cleaning", "repair"}
    Users = {"cleaner", "fitter", "retired"}
    HomeOf <- MCHomeOf
    Assigned <- MCAssigned
    Terms = {"", "fit"}
    Found <- MCFound
    Everyone = ""
    MaxClicks = 6
    None = None
    Locations = {"lobby", "roof"}
    Queries = {"", "lob", "lobby", "roof"}
    Blank = ""
    Matches <- MCMatches
    MaxInputs = 7
CHECK_DEADLOCK FALSE
INVARIANTS
    OfferMatchesFilters
    LocationFieldIsTrue
PROPERTIES
    SelectionIsTheUsers
    DialogsSettle
