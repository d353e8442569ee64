CONSTANTS
    a1 = a1
    a2 = a2
    grn = grn
    NoRef = NoRef
    Asset = {a1}
    Stocked = {a1}
    Received <- OneIngest
    Optional = {}
    Handler = {h1, h2}
    RepairId = {}
    ListingId = {}
    DisposalId = {}
    InspectionId = {}
    RetrievalId = {}
    OrderId = {}
    Ref = {grn}
    Shipment <- NoShipment
    FormStatus = {"in_storage", "deployed"}
    MaxEdits = 2
    MaxFailures = 0
SPECIFICATION FormsSpec
INVARIANTS
    EveryTransitionRecorded
CHECK_DEADLOCK FALSE
