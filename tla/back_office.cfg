CONSTANTS
    Handler = {h1, h2}
    MaxFailures = 1
    e1 = e1
    e2 = e2
    e3 = e3
    c1 = c1
    c2 = c2
    Charge = {e1, e2, e3}
    Client = {c1, c2}
    ClientOf <- TwoClients
    BatchId = {b1, b2, b3}
    NoBatch = NoBatch
    Nobody = Nobody
    FirstDay = 1
    LastDay = 3
    Version = {v0, v1, v2, v3}
    Seeded = v0
    NoVersion = NoVersion
    Amount = {0, 2}
    u1 = u1
    User = {u1, u2}
    Shipped = {x1}
    MaxEdits = 2
SPECIFICATION MCSpec
INVARIANTS
    BatchesExact
    LiveIsAudited
    AlwaysARate
    BilledAsAsked
    DevicesFollowOrder
PROPERTIES
    KeepsPromise
    EveryCallAnswers
CHECK_DEADLOCK FALSE
