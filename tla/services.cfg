CONSTANTS
    a1 = a1
    a2 = a2
    grn = grn
    NoRef = NoRef
    Asset = {a1, a2}
    Stocked = {a1}
    Received <- OneIngest
    Optional = {}
    Handler = {h1, h2}
    RepairId = {p1}
    ListingId = {l1}
    DisposalId = {d1}
    InspectionId = {i1}
    RetrievalId = {t1}
    OrderId = {o1}
    Ref = {p1, l1, d1, i1, t1, o1, grn}
    Shipment <- ShipOne
    FormStatus = {"in_storage", "deployed"}
    MaxEdits = 2
    MaxFailures = 1
    Groups = {"branches", "billing_after", "disposals", "returns", "registration", "corrections"}
SPECIFICATION MCSpec
SYMMETRY HandlerSymmetry
INVARIANTS
    IInv
    HistoryMatchesStatus
    StatusJustified
    SignedOff
    ClosedWithProof
    PostedAfterCommit
CHECK_DEADLOCK FALSE
