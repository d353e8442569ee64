--------------------------------- MODULE Access ---------------------------------
(***************************************************************************)
(* A tab of the web client and its session.  The tab keeps the user it     *)
(* read when it was loaded (lib/auth.tsx); every request carries the token *)
(* that is in the browser's storage when it is sent (api/client.ts), and   *)
(* other tabs sign in and out of the same storage.  Each page offers calls *)
(* to the roles its code names; the sidebar and the links of the pages     *)
(* decide which pages a role gets to.  Api says who may make a call.       *)
(*                                                                         *)
(* A session is a role and the client it belongs to: signing in as someone *)
(* else and signing in again after one's role was changed are the same.    *)
(***************************************************************************)
EXTENDS Api

CONSTANTS Tenant, NoTenant, NoSession

ASSUME AccessAssumption == NoTenant \notin Tenant

VARIABLES me,        \* the session the tab shows, or NoSession: the login page
          stored,    \* the session in the browser's storage, or NoSession
          expired,   \* the stored token is no longer accepted
          route,      \* the page the tab is on
          listed,    \* the clients whose rows the page shows
          filledBy,  \* the session that asked for those rows, or NoSession
          refusal    \* the refused call of the last step, or NoRefusal

accessVars == <<me, stored, expired, route, listed, filledBy, refusal>>

Session == [role : UserRole \ ClientScoped, client : {NoTenant}]
               \cup [role : ClientScoped, client : Tenant]

NoRefusal == [call |-> <<>>]

-----------------------------------------------------------------------------
(***************************************************************************)
(* The pages: what each offers or asks for, and to which roles.            *)
(***************************************************************************)
Ask(by, controller, handler) == [by |-> by, call |-> <<controller, handler>>, raw |-> FALSE]

\* A download or an upload calls fetch itself and does not go through api/client.ts.
Fetch(by, controller, handler) == [by |-> by, call |-> <<controller, handler>>, raw |-> TRUE]

Internal == UserRole \ ClientScoped          \* !isClientScoped

SearchBox == {Ask(UserRole, "assetReads", "findAll")}

DashboardAsks == {Ask(UserRole, "inventory", "summary"),
                  Ask(UserRole, "inspectionReads", "findAll"),
                  Ask(Internal, "inboundReads", "findAllDeliveries")}

InboundAsks == {Ask(UserRole, "inboundReads", "findAllDeliveries"),
                Ask(Internal, "clients", "findAll"),
                Ask(Writers, "inbound", "createExpectedDelivery"),
                Ask(UserRole, "inbound", "updateDeliveryStatus")}

DeliveryAsks == {Ask(UserRole, "inboundReads", "findOneDelivery"),
                 Fetch(UserRole, "inboundReads", "downloadGrnPdf"),
                 Ask(Editors, "inbound", "updateDelivery"),
                 Ask(Writers, "inbound", "updateGrn"),
                 Ask(Writers, "inbound", "updateReceivedDevice")}

ReceiveAsks == {Ask(UserRole, "inboundReads", "findOneDelivery"),
                Ask(UserRole, "locations", "findAll"),
                Ask(UserRole, "inbound", "receiveDevices")}

InventoryAsks == {Ask(UserRole, "assetReads", "findAll"),
                  Fetch(UserRole, "assetReads", "exportCsv"),
                  Ask(Heads, "clients", "findAll"),
                  Ask(Writers, "locations", "findAll"),
                  Ask(Writers, "assets", "create"),
                  Ask(Writers, "assets", "update"),
                  Ask(Writers, "assets", "bulkMove")}

AgeingAsks == {Ask(UserRole, "inventory", "ageing"),
               Ask(Internal, "clients", "findAll"),
               Fetch(UserRole, "inventory", "exportAgeingCsv")}

DocumentAsks(list, upload) == {Ask(UserRole, "documents", list),
                               Fetch(UserRole, "documents", upload),
                               Fetch(UserRole, "documentRows", "download"),
                               Ask(UserRole, "documentRows", "delete")}

AssetAsks == {Ask(UserRole, "assetReads", "findOne"),
              Ask(UserRole, "assets", "update"),
              Ask(UserRole, "assets", "move"),
              Ask(UserRole, "locations", "findAll")}
                 \cup DocumentAsks("listForAsset", "uploadForAsset")

InspectionsAsks == {Ask(UserRole, "inspectionReads", "findAll"),
                    Ask(Writers, "assetReads", "findAll"),
                    Ask(Writers, "inspections", "create")}

InspectionAsks == {Ask(UserRole, "inspectionReads", "findOne"),
                   Fetch(UserRole, "inspectionReads", "downloadReport"),
                   Fetch(UserRole, "inspectionReads", "servePhoto"),
                   Fetch(UserRole, "inspections", "uploadPhoto"),
                   Ask(UserRole, "inspections", "complete"),
                   Ask(UserRole, "inspections", "cancel")}
                      \cup DocumentAsks("listForInspection", "uploadForInspection")

LedgerAsks == {Ask(UserRole, "ledger", "findMany"),
               Fetch(UserRole, "ledger", "exportCsv"),
               Ask({"admin"}, "ledger", "createCorrection")}

RateCardAsks == {Ask(UserRole, "rateCard", "findCurrent"),
                 Ask({"admin"}, "rateCard", "create")}

ClientsAsks == {Ask(UserRole, "clients", "findAll")}
                  \cup {Ask({"admin"}, "clients", c) : c \in {"create", "update", "deactivate"}}

UsersAsks == {Ask(UserRole, "users", "findAll"),
              Ask({"admin"}, "clients", "findAll"),
              Ask({"admin", "client_admin"}, "users", "create"),
              Ask({"admin", "client_admin"}, "users", "setStatus")}

LocationsAsks == {Ask(UserRole, "locations", "findAll")}
                    \cup {Ask(Heads, "locations", c) : c \in {"create", "update", "delete"}}

EndUsersAsks == {Ask(UserRole, "endUsers", "findAll"),
                 Ask(Internal, "clients", "findAll"),
                 Ask(Editors, "endUsers", "create"),
                 Ask(Editors, "endUsers", "update"),
                 Ask({"admin", "client_admin"}, "endUsers", "deactivate")}

BillingAsks == {Ask(Heads, "clients", "findAll"),
                Ask(UserRole, "storage", "getSummary"),
                Ask(UserRole, "assetReads", "billingSummary"),
                Ask(UserRole, "ledger", "findMany"),
                Ask({"admin"}, "storage", "runAccrual"),
                Ask(Approvers, "inboundBilling", "getPending"),
                Ask(Approvers, "inboundBilling", "markBilled"),
                Ask(Approvers, "inboundBilling", "undo"),
                Ask(UserRole, "chargeBilling", "getState"),
                Ask(Approvers, "chargeBilling", "markBilled"),
                Ask(Approvers, "chargeBilling", "undo")}

RuralPincodesAsks == {Ask(UserRole, "logistics", c) :
                         c \in {"listRuralPincodes", "addRuralPincode", "removeRuralPincode"}}

\* The pages of tickets: their list and their form, which lists clients and the assets to pick
\* from; what the rows offer to everyone who sees them; and, where a form asks for a delivery, the
\* end users, the zone and state of the pincode and the client's price of transport.
TicketAsks(ticket, assets, by) ==
    {Ask(UserRole, ticket, "findAll"), Ask(Internal, "clients", "findAll"),
     Ask(by, assets, "findAll"), Ask(by, ticket, "create")}

RowAsks(ticket, calls) == {Ask(UserRole, ticket, c) : c \in calls}

DeliveryFormAsks(by) ==
    {Ask(by, "endUsers", "findAll"), Ask(by, "endUsers", "create"),
     Ask(by, "logistics", "resolveZone"), Ask(by, "logistics", "resolveState"),
     Ask(UserRole, "clients", "transportPricing")}

RepairAsks ==
    TicketAsks("repair", "inventory", UserRole)
        \cup RowAsks("repair", {"updateStatus", "updateSla"})
        \cup {Ask(Approvers, "repair", "approve"), Fetch(UserRole, "repair", "downloadReport"),
              Fetch(UserRole, "documentRows", "uploadForRepair")}

DisposalAsks ==
    TicketAsks("disposal", "assetReads", UserRole)
        \cup RowAsks("disposal", {"startProcessing", "complete"})
        \cup {Ask(Approvers, "disposal", "approve"),
              Fetch(UserRole, "disposal", "downloadCertificate")}

ResaleAsks == TicketAsks("resale", "inventory", UserRole) \cup RowAsks("resale", {"updateStatus"})

DeploymentAsks ==
    TicketAsks("deployment", "inventory", Writers)
        \cup RowAsks("deployment", {"updateStatus", "updateZone", "updateTracking"})
        \cup DeliveryFormAsks(Writers)
        \cup {Ask(Writers, "deployment", "update"),
              Fetch(UserRole, "deployment", "downloadDeliveryChallan")}

RetrievalAsks ==
    TicketAsks("retrieval", "assetReads", UserRole)
        \cup RowAsks("retrieval", {"updateStatus"})
        \cup DeliveryFormAsks(UserRole)
        \cup {Ask(UserRole, "users", "findDirectory"),
              Fetch(UserRole, "retrieval", "downloadRetrievalPdf")}

Asks == [dashboard |-> DashboardAsks, inbound |-> InboundAsks, delivery |-> DeliveryAsks,
         receive |-> ReceiveAsks, inventory |-> InventoryAsks, ageing |-> AgeingAsks,
         asset |-> AssetAsks, inspections |-> InspectionsAsks, inspection |-> InspectionAsks,
         ledger |-> LedgerAsks, rateCard |-> RateCardAsks, clients |-> ClientsAsks,
         users |-> UsersAsks, locations |-> LocationsAsks, endUsers |-> EndUsersAsks,
         billing |-> BillingAsks, ruralPincodes |-> RuralPincodesAsks,
         repair |-> RepairAsks, disposal |-> DisposalAsks, resale |-> ResaleAsks,
         deployment |-> DeploymentAsks, retrieval |-> RetrievalAsks,
         ticketLookup |-> {Ask(UserRole, "ticketLookup", "lookup")},
         auditLog |-> {Ask(UserRole, "auditLog", "findMany")},
         help |-> {}]

Route == DOMAIN Asks

Calls(role) == {a \in Asks[route] \cup SearchBox : role \in a.by}

-----------------------------------------------------------------------------
(***************************************************************************)
(* The way from page to page.                                              *)
(***************************************************************************)
\* The sidebar.  A client_user sees five entries: 'inventory' in its list lacks the slash.
Sidebar(role) ==
    IF role = "client_user"
    THEN {"dashboard", "inspections", "endUsers", "billing", "help"}
    ELSE {p \in Route \ {"delivery", "receive", "asset", "inspection"} :
             /\ p \in {"clients", "auditLog"} => role = "admin"
             /\ p = "users" => role \in {"admin", "client_admin"}
             /\ p = "ruralPincodes" => role \in Approvers}

\* Links to a page about all rows: the dashboard's numbers and quick actions, the statuses an
\* inventory row changes elsewhere, the pages of a ticket found, the way back.
PageLinks(role) ==
    CASE route = "dashboard"    -> {"inspections", "inventory", "ledger"}
                                     \cup {IF role \in Internal THEN "inbound" ELSE "deployment"}
      [] route = "inventory"    -> IF role \in Writers
                                   THEN {"deployment", "retrieval", "disposal", "repair", "resale"}
                                   ELSE {}
      [] route = "ticketLookup" -> {"deployment", "retrieval", "disposal", "repair"}
      [] route = "asset"        -> {"inventory"}
      [] route = "inspection"   -> {"inspections"}
      [] route = "delivery"     -> {"inbound"}
      [] OTHER                  -> {}

\* Links to the page of one row; the search box opens an asset from anywhere.
RowLinks ==
    CASE route = "dashboard" -> {"asset", "inspection"}
                                  \cup (IF me.role \in Internal THEN {"delivery"} ELSE {})
      [] route \in {"inspections", "asset"} -> {"asset", "inspection"}
      [] route = "ticketLookup" -> {"asset", "delivery", "inspection"}
      [] route = "inbound"   -> {"asset", "delivery", "receive"}
      [] route = "delivery"  -> {"asset", "receive"}
      [] route = "receive"   -> {"asset", "delivery"}
      [] OTHER              -> {"asset"}

Empty == listed' = {} /\ filledBy' = NoSession

GoTo ==
    /\ me # NoSession
    /\ \/ \E p \in Sidebar(me.role) \cup PageLinks(me.role) : route' = p /\ Empty
       \/ \E p \in RowLinks, c \in listed : route' = p /\ listed' = {c} /\ UNCHANGED filledBy
    /\ refusal' = NoRefusal
    /\ UNCHANGED <<me, stored, expired>>

-----------------------------------------------------------------------------
(***************************************************************************)
(* Sessions.                                                               *)
(***************************************************************************)
\* AuthProvider: the tab reads the storage once; ProtectedRoute sends it to the login page
\* when there was no token.
Load ==
    /\ me' = stored
    /\ route' = "dashboard" /\ Empty /\ refusal' = NoRefusal
    /\ UNCHANGED <<stored, expired>>

SignIn ==
    /\ me = NoSession
    /\ \E s \in Session : me' = s /\ stored' = s
    /\ expired' = FALSE /\ route' = "dashboard" /\ Empty /\ refusal' = NoRefusal

SignOut ==
    /\ me # NoSession
    /\ me' = NoSession /\ stored' = NoSession
    /\ expired' = FALSE /\ route' = "dashboard" /\ Empty /\ refusal' = NoRefusal

\* Another tab signs in or out.
OtherTab ==
    /\ \E s \in Session \cup {NoSession} : stored' = s
    /\ expired' = FALSE /\ refusal' = NoRefusal
    /\ UNCHANGED <<me, route, listed, filledBy>>

Expire ==
    /\ stored # NoSession /\ ~expired
    /\ expired' = TRUE /\ refusal' = NoRefusal
    /\ UNCHANGED <<me, stored, route, listed, filledBy>>

\* The rows a list gives to a session.
RowsOf(session) == IF session.role \in ClientScoped THEN {session.client} ELSE Tenant

\* The clients whose rows a call can be about: of the listed ones, where it is about one.
Subjects(a) == IF Endpoint(a.call).rows = "owned" THEN listed ELSE {NoTenant}

Granted(a, owner) == MayCall(stored, a.call) /\ MayTouch(stored, a.call, owner)

\* The API answers: a list fills the page, a call that is not accepted is refused (403).
Answered ==
    /\ me # NoSession /\ stored # NoSession /\ ~expired
    /\ \E a \in Calls(me.role) : \E owner \in Subjects(a) :
          IF Granted(a, owner)
          THEN /\ IF Endpoint(a.call).rows = "listed"
                  THEN listed' = RowsOf(stored) /\ filledBy' = stored
                  ELSE UNCHANGED <<listed, filledBy>>
               /\ refusal' = NoRefusal
          ELSE /\ refusal' = [call |-> a.call, role |-> me.role,
                              same |-> stored = me /\ filledBy \in {me, NoSession}]
               /\ UNCHANGED <<listed, filledBy>>
    /\ UNCHANGED <<me, stored, expired, route>>

\* Without a token, or with an old one, the answer is 401: api/client.ts clears the storage
\* and loads the login page, a call of fetch leaves everything as it is.
Unauthorized ==
    /\ me # NoSession /\ (stored = NoSession \/ expired)
    /\ \E a \in Calls(me.role) : ~a.raw /\ Subjects(a) # {}
    /\ me' = NoSession /\ stored' = NoSession /\ expired' = FALSE
    /\ route' = "dashboard" /\ Empty /\ refusal' = NoRefusal

AccessInit ==
    /\ me = NoSession /\ stored = NoSession /\ expired = FALSE
    /\ route = "dashboard" /\ listed = {} /\ filledBy = NoSession /\ refusal = NoRefusal

AccessNext ==
    GoTo \/ Load \/ SignIn \/ SignOut \/ OtherTab \/ Expire \/ Answered \/ Unauthorized

AccessSpec == AccessInit /\ [][AccessNext]_accessVars

-----------------------------------------------------------------------------
AccessTypeOK ==
    /\ me \in Session \cup {NoSession}
    /\ stored \in Session \cup {NoSession}
    /\ expired \in BOOLEAN
    /\ route \in Route
    /\ listed \subseteq Tenant
    /\ filledBy \in Session \cup {NoSession}

\* What the pages offer and the API refuses, by role.  An operator may not announce or reopen a
\* delivery, read charges, nor register an end user in the form of a ticket; a client_user is
\* listed the buttons of the asset and of the inspection, and those of the rows of the deployment
\* page, which its dashboard links; an editor deletes no document; and the export of the ledger is
\* for the heads of the warehouse.
UnservedOperator ==
    {<<"inbound", "operator", <<"inbound", "createExpectedDelivery">>>>,
     <<"inbound", "operator", <<"inbound", "updateDeliveryStatus">>>>,
     <<"billing", "operator", <<"ledger", "findMany">>>>,
     <<"billing", "operator", <<"chargeBilling", "getState">>>>,
     <<"ledger", "operator", <<"ledger", "findMany">>>>,
     <<"ledger", "operator", <<"ledger", "exportCsv">>>>}
        \cup {<<p, "operator", <<"endUsers", "create">>>> : p \in {"deployment", "retrieval"}}

UnservedClientUser ==
    {<<"asset", "client_user", <<"assets", c>>>> : c \in {"update", "move"}}
        \cup {<<"asset", "client_user", <<"documents", "uploadForAsset">>>>,
              <<"inspection", "client_user", <<"documents", "uploadForInspection">>>>}
        \cup {<<"inspection", "client_user", <<"inspections", c>>>> :
                 c \in {"cancel", "complete", "uploadPhoto"}}
        \cup {<<"deployment", "client_user", <<"deployment", c>>>> :
                 c \in {"updateStatus", "updateZone", "updateTracking"}}

Unserved ==
    UnservedOperator \cup UnservedClientUser
        \cup {<<p, r, <<"documentRows", "delete">>>> :
                 p \in {"asset", "inspection"}, r \in {"client_user", "editor"}}
        \cup {<<"ledger", r, <<"ledger", "exportCsv">>>> :
                r \in {"client_user", "editor", "client_admin"}}

\* A page that a role gets to, through the sidebar and the links, offers it what the API lets it
\* do - of rows its lists gave it, any - but for the offers listed above.  While another tab
\* has changed the session, a page may be refused what it offers to the one it shows.
OfferedIsPermitted ==
    refusal # NoRefusal /\ refusal.same =>
        <<route, refusal.role, refusal.call>> \in Unserved
================================================================================
