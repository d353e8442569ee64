------------------------------- MODULE ScreenCache -------------------------------
(***************************************************************************)
(* The query cache of a tab.  Every page reads the API through cached      *)
(* answers and names, when a change of its own has succeeded, the answers  *)
(* to fetch again; which ones it has to name depends on what the change    *)
(* wrote and on what other pages read.  An answer is only asked for again  *)
(* by a page that shows it, when it is old or was named, and an answer     *)
(* that is on its way to a page the user has left still comes in.          *)
(*                                                                         *)
(* A behaviour follows one change and one answer that reads what it        *)
(* writes.  The pickers of the ticket forms are left to TicketPages.       *)
(***************************************************************************)
VARIABLES change,    \* the change the user makes
          key,       \* the query followed
          screen,    \* the page the user is on
          cached,    \* its answer in the cache: "none", or read "before" or "after" the change
          aged,      \* that answer is stale: named since, or older than its staleTime
          reply,     \* the answer on its way: "no", "asked", or read "before" or "after"
          phase,     \* of the change: "idle", "sent", "saved", "done", or "lost"
          outrun,    \* an answer read before the change was on its way elsewhere when it was done
          dropped    \* the last fetch has failed

cacheVars == <<change, key, screen, cached, aged, reply, phase, outrun, dropped>>

------------------------------------------------------------------------------
(***************************************************************************)
(* What the answers read, in terms of what the changes write.              *)
(***************************************************************************)
AssetAnswers      == [assets |-> {"row", "status", "place", "order", "disposal"},
                      asset  |-> {"row", "status", "place", "inspection", "event"}]
SummaryAnswers    == [inventorySummary |-> {"status"}]
LocationAnswers   == [locationsFull |-> {"location", "place"}]     \* with the assets each holds
InboundAnswers    == [inboundDeliveries |-> {"delivery", "receipt", "row"},
                      delivery          |-> {"delivery", "receipt", "row"}]
InspectionAnswers == [inspections     |-> {"inspection", "row", "status"},
                      inspection      |-> {"inspection", "row", "status"},
                      inspectionsToDo |-> {"inspection", "row"}]
RepairAnswers     == [repairRequests |-> {"repair", "row", "status"}]
ResaleAnswers     == [resaleListings |-> {"resale", "row", "status"}]
DisposalAnswers   == [disposalRequests |-> {"disposal", "row", "status"}]
DeploymentAnswers == [deploymentOrders |-> {"order", "event", "endUser", "row", "status"}]
RetrievalAnswers  == [retrievalRequests |-> {"retrieval", "row", "status"}]
LedgerAnswers     == [ledger |-> {"event", "row"}, billingLedger |-> {"event", "row"}]
StorageAnswers    == [storageSummary |-> {"status", "row", "rate", "accrual", "client"}]
PendingAnswers    == [inboundPending |-> {"row", "ingest", "stamp", "rate"}]
BilledAnswers     == [chargeBilling |-> {"batch"}]
AssetBillAnswers  == [assetBilling |-> {"event", "row", "status"}]
RateAnswers       == [rateCardCurrent |-> {"rate"}]
ClientAnswers     == [clients |-> {"client"}]
UserAnswers       == [users |-> {"user"}]
EndUserAnswers    == [endUsers |-> {"endUser", "order"}]
PincodeAnswers    == [ruralPincodes |-> {"pincode"}]
DocumentAnswers   == [assetDocs |-> {"document"}, inspectionDocs |-> {"document"}]

AnswerTables ==
    {AssetAnswers, SummaryAnswers, LocationAnswers, InboundAnswers, InspectionAnswers,
     RepairAnswers, ResaleAnswers, DisposalAnswers, DeploymentAnswers, RetrievalAnswers,
     LedgerAnswers, StorageAnswers, PendingAnswers, BilledAnswers, AssetBillAnswers, RateAnswers,
     ClientAnswers, UserAnswers, EndUserAnswers, PincodeAnswers, DocumentAnswers}

Keys == UNION {DOMAIN table : table \in AnswerTables}

Reads == [k \in Keys |-> UNION {table[k] : table \in {t \in AnswerTables : k \in DOMAIN t}}]

\* The pages an answer is shown on.
ShownOn ==
    [inventory |-> {"assets"}, asset |-> {"asset", "assetDocs"},
     dashboard |-> {"inventorySummary", "inspectionsToDo"},
     inbound |-> {"inboundDeliveries"}, delivery |-> {"delivery"}, receive |-> {"delivery"},
     inspections |-> {"inspections"}, inspection |-> {"inspection", "inspectionDocs"},
     repair |-> {"repairRequests"}, resale |-> {"resaleListings"},
     disposal |-> {"disposalRequests"}, deployment |-> {"deploymentOrders"},
     retrieval |-> {"retrievalRequests"},
     ledger |-> {"ledger"}, rateCard |-> {"rateCardCurrent"},
     billing |-> {"billingLedger", "storageSummary", "inboundPending", "chargeBilling",
                  "assetBilling"},
     clients |-> {"clients"}, users |-> {"users"}, locations |-> {"locationsFull"},
     endUsers |-> {"endUsers"}, pincodes |-> {"ruralPincodes"}, elsewhere |-> {}]

\* staleTime: 0
AlwaysAged == {"storageSummary", "billingLedger", "inboundPending", "chargeBilling"}

------------------------------------------------------------------------------
(***************************************************************************)
(* The changes of each page: what they write, and the answers onSuccess    *)
(* names.  "then" is the page onSuccess goes to, wherever the user is.     *)
(***************************************************************************)
Change(on, does, writes, names) ==
    [on |-> on, does |-> does, writes |-> writes, names |-> names, then |-> "", always |-> FALSE]

GoingTo(c, page) == [c EXCEPT !.then = page]
EvenIfRefused(c) == [c EXCEPT !.always = TRUE]        \* onError names them too

InventoryChanges ==
    LET Names == {"assets", "storageSummary"}
    IN {Change("inventory", "bulkMove", {"place"}, Names),
        Change("inventory", "add", {"row", "status", "place"}, Names),
        Change("inventory", "edit", {"row", "status", "place"}, Names),
        Change("inventory", "quickPatch", {"row", "status"}, Names)}

\* The edit awaits the fetch of the asset before it names the others: its "done" comes later.
AssetChanges ==
    {Change("asset", "edit", {"row", "status"}, {"asset", "assets", "storageSummary"}),
     Change("asset", "move", {"place"}, {"asset", "assets"}),
     Change("asset", "document", {"document"}, {"assetDocs"})}

InboundChanges ==
    {Change("inbound", "create", {"delivery"}, {"inboundDeliveries"}),
     Change("inbound", "status", {"delivery"}, {"inboundDeliveries"})}

\* EditDeliveryForm
DeliveryChanges == {Change("delivery", "edit", {"delivery"}, {"delivery", "inboundDeliveries"})}

\* The devices and the date of a receipt, in its panel.
GrnChanges == {Change("delivery", "device", {"row"}, {"delivery"}),
               Change("delivery", "receipt", {"receipt", "event", "ingest"}, {"delivery"})}

ReceiveChanges ==
    {GoingTo(Change("receive", "receive",
                    {"row", "status", "place", "receipt", "delivery", "event", "ingest"},
                    {"inboundDeliveries", "delivery", "assets", "inventorySummary",
                     "inspectionsToDo", "inspections"}),
             "delivery")}

InspectionsChanges ==
    {GoingTo(Change("inspections", "start", {"inspection"},
                    {"inspections", "assets", "inventorySummary"}), "inspection")}

InspectionChanges ==
    {GoingTo(Change("inspection", does, {"inspection", "status", "row", "event"},
                    {"inspection", "inspections", "assets", "asset", "inventorySummary",
                     "inspectionsToDo"}), "inspections") : does \in {"cancel", "complete"}}
        \cup {Change("inspection", "document", {"document"}, {"inspectionDocs"})}

\* What changes the ticket and moves its asset.
Moves(page, ticket, list, does) ==
    {Change(page, d, {ticket, "status", "event"}, {list, "assets", "inventorySummary"})
        : d \in does}

\* What changes the ticket alone.
Marks(page, ticket, list, does) == {Change(page, d, {ticket}, {list}) : d \in does}

RepairChanges ==
    Moves("repair", "repair", "repairRequests", {"create", "status", "complete"})
        \cup Marks("repair", "repair", "repairRequests", {"approve", "sla"})

ResaleChanges == Moves("resale", "resale", "resaleListings", {"create", "status"})

\* The asset only moves when the disposal is completed; creating and approving name as much.
DisposalChanges ==
    Moves("disposal", "disposal", "disposalRequests", {"create", "approve", "complete"})
        \cup Marks("disposal", "disposal", "disposalRequests", {"start"})

DeploymentChanges ==
    Moves("deployment", "order", "deploymentOrders", {"create", "status"})
        \cup Marks("deployment", "order", "deploymentOrders", {"zone", "tracking"})

RetrievalChanges == Moves("retrieval", "retrieval", "retrievalRequests", {"create", "status"})

\* DeploymentOrderEditDrawer
OrderEdit == {Change("deployment", "edit", {"order", "event", "row", "endUser"},
                     {"deploymentOrders", "billingLedger", "chargeBilling", "endUsers", "assets",
                      "inventorySummary"})}

BillingChanges ==
    {Change("billing", "accrual", {"event", "accrual"}, {"storageSummary", "billingLedger"})}
        \cup {Change("billing", does, {"stamp"}, {"inboundPending"})
                 : does \in {"markInbound", "undoInbound"}}
        \cup {EvenIfRefused(Change("billing", "mark", {"batch"}, {"chargeBilling"})),
              Change("billing", "undo", {"batch"}, {"chargeBilling"})}

CorrectionChanges == {Change("ledger", "correct", {"event", "ingest"}, {"ledger"})}

RateChanges == {Change("rateCard", "create", {"rate"}, {"rateCardCurrent"})}

\* create, edit and remove, where there are such
ClientChanges   == {Change("clients", "save", {"client"}, {"clients"})}
UserChanges     == {Change("users", "save", {"user"}, {"users"})}
LocationChanges == {Change("locations", "save", {"location"}, {"locationsFull"})}
EndUserChanges  == {Change("endUsers", "save", {"endUser"}, {"endUsers"})}
PincodeChanges  == {Change("pincodes", "save", {"pincode"}, {"ruralPincodes"})}

Changes == InventoryChanges \cup AssetChanges \cup InboundChanges \cup DeliveryChanges
               \cup GrnChanges \cup ReceiveChanges \cup InspectionsChanges \cup InspectionChanges
               \cup RepairChanges \cup ResaleChanges \cup DisposalChanges
               \cup DeploymentChanges \cup RetrievalChanges \cup OrderEdit
               \cup BillingChanges \cup CorrectionChanges \cup RateChanges \cup ClientChanges
               \cup UserChanges \cup LocationChanges \cup EndUserChanges \cup PincodeChanges

------------------------------------------------------------------------------
(***************************************************************************)
(* The tab.                                                                *)
(***************************************************************************)
Shows(p) == key \in ShownOn[p]

\* The answer is asked for unless it is on its way already.
Joined == IF reply = "no" THEN "asked" ELSE reply

Stale == cached = "none" \/ aged \/ key \in AlwaysAged

\* Pages that matter here: that of the change, those showing the answer, and any other.
Stops == {p \in DOMAIN ShownOn : p \in {change.on, change.then, "elsewhere"} \/ Shows(p)}

\* Arriving on a page that shows the answer asks for it if it is not there or stale.
Visit(p) ==
    /\ p \in Stops \ {screen}
    /\ screen' = p
    /\ reply' = IF Shows(p) /\ Stale THEN Joined ELSE reply
    /\ UNCHANGED <<change, key, cached, aged, phase, outrun, dropped>>

\* The window gets the focus again.
FocusBack ==
    /\ Shows(screen) /\ Stale /\ reply = "no"
    /\ reply' = "asked"
    /\ UNCHANGED <<change, key, screen, cached, aged, phase, outrun, dropped>>

\* The Sync button of the billing page.
Sync ==
    /\ screen = "billing" /\ key \in {"storageSummary", "billingLedger"}
    /\ reply' = "asked" /\ aged' = (cached # "none")
    /\ UNCHANGED <<change, key, screen, cached, phase, outrun, dropped>>

GrowOld ==
    /\ cached # "none" /\ ~aged
    /\ aged' = TRUE
    /\ UNCHANGED <<change, key, screen, cached, reply, phase, outrun, dropped>>

\* The service reads the answer.
AnswerRead ==
    /\ reply = "asked"
    /\ reply' = IF phase \in {"idle", "sent"} THEN "before" ELSE "after"
    /\ UNCHANGED <<change, key, screen, cached, aged, phase, outrun, dropped>>

\* It comes in, and counts as fresh even if it was named meanwhile.
AnswerArrives ==
    /\ reply \in {"before", "after"}
    /\ cached' = reply /\ aged' = FALSE /\ reply' = "no" /\ dropped' = FALSE
    /\ outrun' = (outrun /\ reply = "before")
    /\ UNCHANGED <<change, key, screen, phase>>

\* It does not, the retry neither: the page keeps what it has.
AnswerFails ==
    /\ reply # "no"
    /\ reply' = "no" /\ dropped' = TRUE
    /\ outrun' = (outrun /\ reply # "before")
    /\ UNCHANGED <<change, key, screen, cached, aged, phase>>

MakeChange ==
    /\ phase = "idle" /\ screen = change.on
    /\ phase' = "sent"
    /\ UNCHANGED <<change, key, screen, cached, aged, reply, outrun, dropped>>

ChangeSaved ==
    /\ phase = "sent"
    /\ phase' = "saved"
    /\ UNCHANGED <<change, key, screen, cached, aged, reply, outrun, dropped>>

\* Mutant: a named answer that is on its way is awaited, not asked for again.
NameAnswerJoining(goes) ==
    /\ aged' = (cached # "none")
    /\ reply' = IF Shows(screen) \/ Shows(goes) THEN Joined ELSE reply
    /\ outrun' = (reply = "before" /\ ~Shows(screen))

\* A named answer becomes stale.  On screen, it is asked for again, and what was on its way is
\* discarded; elsewhere, what is on its way is not, and the page to go to waits for it.
NameAnswer(goes) ==
    /\ aged' = (cached # "none")
    /\ reply' = CASE Shows(screen) -> "asked"
                  [] ~Shows(screen) /\ Shows(goes) -> Joined
                  [] OTHER -> reply
    /\ outrun' = (reply = "before" /\ ~Shows(screen))

\* onSuccess, on whatever page the user is by now.
ChangeDone ==
    LET goes == IF change.then = "" THEN screen ELSE change.then
    IN /\ phase = "saved"
       /\ phase' = "done"
       /\ screen' = goes
       /\ \/ key \in change.names /\ NameAnswer(goes)
          \/ /\ key \notin change.names
             /\ reply' = IF goes # screen /\ Shows(goes) /\ Stale THEN Joined ELSE reply
             /\ UNCHANGED <<aged, outrun>>
       /\ UNCHANGED <<change, key, cached, dropped>>

NamedAnyway == change.always /\ key \in change.names

\* The answer is lost: onError.
ChangeLost ==
    /\ phase = "saved"
    /\ phase' = IF change.always THEN "done" ELSE "lost"
    /\ IF NamedAnyway THEN NameAnswer(screen) ELSE UNCHANGED <<aged, reply, outrun>>
    /\ UNCHANGED <<change, key, screen, cached, dropped>>

\* The service refuses: onError.
ChangeRefused ==
    /\ phase = "sent"
    /\ phase' = "idle"
    /\ IF NamedAnyway THEN NameAnswer(screen) ELSE UNCHANGED <<aged, reply, outrun>>
    /\ UNCHANGED <<change, key, screen, cached, dropped>>

CacheInit ==
    /\ change \in Changes
    /\ key \in {k \in Keys : Reads[k] \cap change.writes # {}}
    /\ screen = "elsewhere"
    /\ cached = "none" /\ aged = FALSE /\ reply = "no"
    /\ phase = "idle" /\ outrun = FALSE /\ dropped = FALSE

CacheNext ==
    \/ \E p \in DOMAIN ShownOn : Visit(p)
    \/ FocusBack \/ Sync \/ GrowOld \/ AnswerRead \/ AnswerArrives \/ AnswerFails
    \/ MakeChange \/ ChangeSaved \/ ChangeDone \/ ChangeLost \/ ChangeRefused

CacheSpec == CacheInit /\ [][CacheNext]_cacheVars

------------------------------------------------------------------------------
\* What is shown is from before the change only while it is being asked for, or was and failed;
\* what is kept for later is stale, so that the page showing it asks again.
Caught == \/ cached # "before"
          \/ reply # "no"
          \/ aged /\ (dropped \/ ~Shows(screen))

\* A page catches up with the changes made on it, however the user moves about and the answers
\* come in.  It may miss a change when an answer read before it was still on its way while the
\* user was on another page.  Nothing makes the lookup of one asset's charges on the billing page
\* catch up with an accrual that is run there.
OwnChangesShow ==
    (/\ phase = "done" /\ ~outrun /\ key \in ShownOn[change.on]
     /\ key # "assetBilling")
       => Caught

\* The asset list and the counts of the dashboard catch up with every change of an asset's status
\* that is made in the course of a receipt, an inspection or a ticket.
InventoryFollows ==
    (/\ phase = "done" /\ ~outrun /\ "status" \in change.writes
     /\ key = "assets" \/ (key = "inventorySummary" /\ change.on \notin {"inventory", "asset"}))
       => Caught

\* The page of an asset, the list of inspections and those to do catch up with an inspection that
\* is completed or cancelled.
InspectionsFollow ==
    (/\ phase = "done" /\ ~outrun /\ change.on = "inspection"
     /\ key \in {"asset", "inspections", "inspectionsToDo"})
       => Caught

\* The answers the pages see to catch up: those of the page a change is made on, the inventory's,
\* and, for inspections, what shows them.  The pages see to no others.  What else a change makes
\* old, such as the page of an asset after a change made on the inventory or on the page of a
\* ticket, the tickets of other kinds, the counts after a change on the inventory, or the list of
\* deliveries after a receipt was corrected, is shown as it was until it is older than its
\* staleTime (30 s) and a page that shows it is opened, or the window gets the focus.
PagesCatchUp == OwnChangesShow /\ InventoryFollows /\ InspectionsFollow
================================================================================
