CONSTANTS
    a1 = a1
    a2 = a2
    a3 = a3
    c1 = c1
    c2 = c2
    k1 = k1
    k2 = k2
    Handler = {h1, h2}
    MaxFailures = 1
    Asset = {a1, a2, a3}
    Client = {c1, c2}
    ClientOf <- TwoClients
    RecordId = {r1, r2}
    NoRecord = NoRecord
    Nobody = Nobody
    Device = {d1}
    Fee = {f1, f2}
    Accrual = {f2}
    MaxAnswer = 2
    MaxRows = 3
    Kind = {k1, k2}
    Typed = {k1}
    Serial = {s1, s2}
    Deliveries <- DeliveryLists
    NoKind = NoKind
    MaxReceived = 1
SPECIFICATION MCSpec
INVARIANTS
    StampedIsCharged
    PendingListed
    AutoFillFits
PROPERTIES
    KeepsPromise
CHECK_DEADLOCK FALSE
SYMMETRY Alike
