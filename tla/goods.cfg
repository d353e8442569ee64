CONSTANTS
    a1 = a1
    a2 = a2
    grn = grn
    NoRef = NoRef
    Asset = {a1, a2}
    Stocked = {a1, a2}
    Received <- OneIngest
    Optional = {"LABELING"}
    Handler = {h1, h2}
    RepairId = {}
    ListingId = {}
    DisposalId = {}
    InspectionId = {}
    RetrievalId = {}
    OrderId = {o1, o2}
    Ref = {o1, o2, grn}
    Shipment <- ShipBoth
    FormStatus = {}
    MaxEdits = 0
    MaxFailures = 1
    Parts = {"orders", "receiving", "ledger", "storage", "accounts"}
    c1 = c1
    s1 = s1
    s2 = s2
    Device = {a1}
    Charge = {c1}
    DeviceOf <- OneCharge
    Date = {d1,d2}
    NoDate = NoDate
    Bundle = {b1}
    NoBundle = NoBundle
    MaxVersions = 3
    MaxReversals = 2
    Delivery = {e1}
    Quantity = {0, 2, 3}
    Serial = {s1, s2}
    Batch <- Batches
    Month = {m1}
    Grn = {g1, g2}
    MaxFailed = 2
    MaxMisses = 3
    Rate <- Rates
    Terms <- SomeTerms
    MaxStored <- MostStored
    MaxRuns = 2
SPECIFICATION MCSpec
INVARIANTS
    CommittedIsCharged
    WaivedForBundle
    ReceiptCharged
    MonthCharged
    StandsOnce
    NumbersInSequence
    CreatedOnce
    StatusFollowsReceipts
    ScopedHasClient
    WayIn
CHECK_DEADLOCK FALSE
SYMMETRY Alike
