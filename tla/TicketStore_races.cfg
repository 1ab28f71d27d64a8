SPECIFICATION StoresSpec
CONSTANTS
    Tickets = {1}
    Existing = {1}
    Users = {u1, u2}
    Departments = {}
    Locations = {}
    Switchable = {}
    Requests = {r1, r2, r3}
    Times = {1}
    Limits = {1}
    MaxHistory = 1
    None = None
SYMMETRY Symmetry
INVARIANTS
    HistoryExplainsTicket
    AcceptAnswersStayTrue
    ClosedDetailIsFinal
PROPERTIES
    RepliesWithWhatItCommits
    ImplementsLedger
