CONSTANTS
    a1 = a1
    a2 = a2
    grn = grn
    NoRef = NoRef
    Asset = {a1}
    Stocked = {a1}
    Received <- OneIngest
    Optional = {}
    Handler = {h1, h2}
    RepairId = {}
    ListingId = {}
    DisposalId = {}
    InspectionId = {i1}
    RetrievalId = {t1}
    OrderId = {o1, o2}
    Ref = {i1, t1, o1, o2, grn}
    Shipment <- NoShipment
    FormStatus = {}
    MaxEdits = 0
    MaxFailures = 1
    Parts = {"returns", "sla", "pool"}
    Inspection = {j1, j2}
    Recipient = {r1}
    MaxMails = 3
    MaxLost = 1
    PoolSizes = {1, 2, 3}
    Posts = 2
    MaxRequests = 4
SPECIFICATION MCSpec
INVARIANTS
    MarkedMeansMailed
PROPERTIES
    RedeployFollows
    BreachIsReported
    PoolSuffices
CHECK_DEADLOCK FALSE
