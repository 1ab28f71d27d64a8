SPECIFICATION Spec
CONSTANTS
    Tickets = {t1}
    Existing = {t1}
    Users = {u1}
    Departments = {d1}
    Locations = {}
    Switchable = {d1}
    Requests = {r1}
    None = None
PROPERTIES
    NewAssigneesAreActive
