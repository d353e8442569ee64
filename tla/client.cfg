CONSTANTS
    a1 = a1
    a2 = a2
    c1 = c1
    c2 = c2
    Parts = {"create", "session", "cache"}
    Page = {"repair", "resale", "disposal", "deployment", "retrieval"}
    Role = {"reader", "writer", "approver"}
    MaxMishaps = 1
    MaxRequests = 2
    NoClient = NoClient
    Tenant = {c1, c2}
    NoTenant = NoTenant
    NoSession = NoSession
    Client = {c1, c2}
    Name = {n, m}
    FormPage = {"repair", "deployment", "retrieval"}
    Owner <- Owners
    MaxEndUsers = 2
    MaxTickets = 2
    MaxSwitches = 2
SPECIFICATION Spec
INVARIANTS
    SendsItsAssets
    NamedUser
    NameOnce
    OfferedIsPermitted
    PagesCatchUp
CHECK_DEADLOCK FALSE
SYMMETRY Alike
