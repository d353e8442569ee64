CONSTANTS
    a1 = a1
    a2 = a2
    grn = grn
    NoRef = NoRef
    Asset = {a1}
    Stocked = {a1}
    Received <- OneIngest
    Optional = {}
    Handler = {h1}
    RepairId = {}
    ListingId = {}
    DisposalId = {}
    InspectionId = {}
    RetrievalId = {}
    OrderId = {o1}
    Ref = {o1, grn}
    Shipment <- ShipOne
    FormStatus = {}
    MaxEdits = 0
    MaxFailures = 1
SPECIFICATION Spec
INVARIANTS
    OrderChargesAtomic
CHECK_DEADLOCK FALSE
