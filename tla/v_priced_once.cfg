CONSTANTS
    a1 = a1
    a2 = a2
    grn = grn
    NoRef = NoRef
    Asset = {a1}
    Stocked = {a1}
    Received <- OneIngest
    Optional = {}
    Handler = {h1, h2}
    RepairId = {}
    ListingId = {}
    DisposalId = {d1}
    InspectionId = {i1}
    RetrievalId = {}
    OrderId = {}
    Ref = {d1, i1, grn}
    Shipment <- ShipOne
    FormStatus = {}
    MaxEdits = 0
    MaxFailures = 0
SPECIFICATION Spec
SYMMETRY HandlerSymmetry
INVARIANTS
    PricedOnce
CHECK_DEADLOCK FALSE
