CONSTANTS
    a1 = a1
    a2 = a2
    grn = grn
    NoRef = NoRef
    Asset = {a1}
    Stocked = {a1}
    Received <- OneIngest
    Optional = {}
    Handler = {h1}
    RepairId = {}
    ListingId = {}
    DisposalId = {}
    InspectionId = {}
    RetrievalId = {}
    OrderId = {o1, o2}
    Ref = {o1, o2, grn}
    Shipment <- ShipOne
    FormStatus = {}
    MaxEdits = 0
    MaxFailures = 0
SPECIFICATION Spec
INVARIANTS
    AnsweredOrderExists
CHECK_DEADLOCK FALSE
