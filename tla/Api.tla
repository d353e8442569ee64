---------------------------------- MODULE Api ----------------------------------
(***************************************************************************)
(* Who may call what: for every endpoint of the API the roles its @Roles   *)
(* decorator names and how its handler treats a user who belongs to a      *)
(* client.  One record per controller, one field per handler.              *)
(***************************************************************************)
EXTENDS Naturals

UserRole == {"admin", "manager", "operator", "client_user", "editor", "client_admin"}

Heads     == {"admin", "manager"}
Staff     == {"admin", "manager", "operator"}
Approvers == {"admin", "manager", "client_admin"}
Editors   == {"admin", "manager", "editor", "client_admin"}
Writers   == UserRole \ {"client_user"}
Readers   == UserRole \ {"operator"}          \* of charges

\* The roles that belong to a client and work on the rows of that client.
ClientScoped == {"client_user", "editor", "client_admin"}

\* The four kinds of handler: the rows of all clients alike; the rows listed cut down to the
\* user's client; a row looked up and refused when it is another client's; a row written down
\* for the user's client.
Common(roles)  == [roles |-> roles, rows |-> "common"]
Listed(roles)  == [roles |-> roles, rows |-> "listed"]
Owned(roles)   == [roles |-> roles, rows |-> "owned"]
Stamped(roles) == [roles |-> roles, rows |-> "stamped"]

AssetReads == [findAll        |-> Listed(UserRole),
               exportCsv      |-> Listed(UserRole),
               findOne        |-> Owned(UserRole),
               billingSummary |-> Owned(UserRole)]

\* Mutant: only those who work for the warehouse book an asset, or move one.
AssetWritesStaff == [create   |-> Stamped(Staff),
                     update   |-> Owned(Writers),
                     move     |-> Owned(Writers),
                     bulkMove |-> Owned(Staff)]

AssetWrites == [create   |-> Stamped(Writers),
                update   |-> Owned(Writers),
                move     |-> Owned(Writers),
                bulkMove |-> Owned(Writers)]

InboundReads == [findAllDeliveries |-> Listed(UserRole),
                 findOneDelivery   |-> Owned(UserRole),
                 findAllGrns       |-> Listed(UserRole),
                 downloadGrnPdf    |-> Owned(UserRole)]

\* An operator books what arrives and corrects receipts; announcing, changing or closing a
\* delivery is for others.
InboundWrites == [createExpectedDelivery |-> Stamped(Editors),
                  receiveDevices         |-> Owned(Writers),
                  updateDeliveryStatus   |-> Owned(Editors),
                  updateDeliveryTickets  |-> Owned(Writers),
                  updateDelivery         |-> Owned(Editors),
                  updateGrn              |-> Owned(Writers),
                  updateReceivedDevice   |-> Owned(Writers)]

InspectionReads == [findAll        |-> Listed(UserRole),
                    findOne        |-> Owned(UserRole),
                    downloadReport |-> Owned(UserRole),
                    servePhoto     |-> Owned(UserRole)]

InspectionWrites == [create      |-> Owned(Writers),
                     cancel      |-> Owned(Writers),
                     complete    |-> Owned(Writers),
                     uploadPhoto |-> Owned(Writers)]

RepairController == [findAll        |-> Listed(UserRole),
                     findByAsset    |-> Listed(UserRole),
                     findOne        |-> Owned(UserRole),
                     create         |-> Stamped(Writers),
                     approve        |-> Owned(Approvers),
                     updateStatus   |-> Owned(Writers),
                     updateSla      |-> Owned(Writers),
                     updateTickets  |-> Owned(Writers),
                     downloadReport |-> Owned(UserRole)]

ResaleController == [findAll      |-> Listed(UserRole),
                     findByAsset  |-> Listed(UserRole),
                     findOne      |-> Owned(UserRole),
                     create       |-> Stamped(Writers),
                     updateStatus |-> Owned(Writers)]

DisposalController == [findAll             |-> Listed(UserRole),
                       findByAsset         |-> Listed(UserRole),
                       findOne             |-> Owned(UserRole),
                       create              |-> Stamped(Writers),
                       approve             |-> Owned(Approvers),
                       startProcessing     |-> Owned(Writers),
                       complete            |-> Owned(Writers),
                       updateTickets       |-> Owned(Writers),
                       downloadCertificate |-> Owned(UserRole)]

DeploymentController == [findAll                 |-> Listed(UserRole),
                         findOne                 |-> Owned(UserRole),
                         create                  |-> Stamped(Writers),
                         update                  |-> Owned(Writers),
                         updateStatus            |-> Owned(Writers),
                         updateZone              |-> Owned(Writers),
                         updateTracking          |-> Owned(Writers),
                         updateTransportCharge   |-> Owned(Writers),
                         updateTickets           |-> Owned(Writers),
                         downloadDeliveryChallan |-> Owned(UserRole)]

RetrievalController == [findAll              |-> Listed(UserRole),
                        findByAsset          |-> Listed(UserRole),
                        findOne              |-> Owned(UserRole),
                        create               |-> Stamped(Writers),
                        updateStatus         |-> Owned(Writers),
                        updateZone           |-> Owned(Writers),
                        updateTickets        |-> Owned(Writers),
                        downloadRetrievalPdf |-> Owned(UserRole)]

InventoryController == [findAll         |-> Listed(UserRole),
                        summary         |-> Listed(UserRole),
                        ageing          |-> Listed(UserRole),
                        exportAgeingCsv |-> Listed(UserRole)]

LedgerController == [findMany         |-> Listed(Readers),
                     exportCsv        |-> Common(Heads),
                     createCorrection |-> Common({"admin"})]

StorageController == [getSummary     |-> Listed(UserRole),
                      getAccrualRuns |-> Listed(Editors),
                      runAccrual     |-> Common({"admin"})]

InboundBillingController == [getPending |-> Listed(Approvers),
                             markBilled |-> Stamped(Approvers),
                             undo       |-> Owned(Approvers)]

ChargeBillingController == [getState   |-> Listed(Readers),
                            markBilled |-> Stamped(Approvers),
                            undo       |-> Owned(Approvers)]

RateCardController == [findAll     |-> Common(Heads),
                       findCurrent |-> Common(Writers),
                       findOne     |-> Common(Heads),
                       create      |-> Common({"admin"})]

ClientsController == [findAll          |-> Common(Staff),
                      transportPricing |-> Owned(UserRole),
                      findOne          |-> Common(Staff),
                      create           |-> Common({"admin"}),
                      update           |-> Common({"admin"}),
                      deactivate       |-> Common({"admin"})]

\* Only the administrators of a client are held to their client; a manager reads all users.
UsersController == [findAll       |-> Listed(Approvers),
                    findDirectory |-> Listed(Writers),
                    findOne       |-> Owned(Approvers),
                    create        |-> Stamped({"admin", "client_admin"}),
                    update        |-> Owned({"admin", "client_admin"}),
                    setStatus     |-> Owned({"admin", "client_admin"}),
                    deactivate    |-> Owned({"admin", "client_admin"})]

EndUsersController == [findAll    |-> Listed(UserRole),
                       findOne    |-> Owned(UserRole),
                       create     |-> Stamped(Editors),
                       update     |-> Owned(Editors),
                       deactivate |-> Owned({"admin", "client_admin"})]

LocationsController == [findAll |-> Common(UserRole),
                        create  |-> Common(Heads),
                        update  |-> Common(Heads),
                        delete  |-> Common(Heads)]

LogisticsController == [resolveZone        |-> Common(UserRole),
                        resolveState       |-> Common(UserRole),
                        listRuralPincodes  |-> Common(Approvers),
                        addRuralPincode    |-> Common(Approvers),
                        removeRuralPincode |-> Common(Approvers)]

AuditController == [findMany |-> Common(Heads)]

TicketLookupController == [lookup |-> Listed(UserRole)]

\* An editor uploads documents and never removes one.
DocumentUploads == [uploadForAsset      |-> Owned(Writers),
                    listForAsset        |-> Owned(UserRole),
                    uploadForInspection |-> Owned(Writers),
                    listForInspection   |-> Owned(UserRole)]

DocumentRows == [uploadForRepair |-> Owned(Writers),
                 listForRepair   |-> Owned(UserRole),
                 download        |-> Owned(UserRole),
                 delete          |-> Owned(Writers \ {"editor"})]

Endpoints == [assetReads |-> AssetReads, assets |-> AssetWrites,
              inboundReads |-> InboundReads, inbound |-> InboundWrites,
              inspectionReads |-> InspectionReads, inspections |-> InspectionWrites,
              repair |-> RepairController, resale |-> ResaleController,
              disposal |-> DisposalController, deployment |-> DeploymentController,
              retrieval |-> RetrievalController, inventory |-> InventoryController,
              ledger |-> LedgerController, storage |-> StorageController,
              inboundBilling |-> InboundBillingController,
              chargeBilling |-> ChargeBillingController, rateCard |-> RateCardController,
              clients |-> ClientsController, users |-> UsersController,
              endUsers |-> EndUsersController, locations |-> LocationsController,
              logistics |-> LogisticsController, auditLog |-> AuditController,
              ticketLookup |-> TicketLookupController, documents |-> DocumentUploads,
              documentRows |-> DocumentRows]

Endpoint(call) == Endpoints[call[1]][call[2]]

\* RolesGuard lets a session through by the role in its token.
MayCall(session, call) == session.role \in Endpoint(call).roles

\* The handler's own check of the row the call is about.
MayTouch(session, call, owner) ==
    (Endpoint(call).rows = "owned" /\ session.role \in ClientScoped) => owner = session.client
================================================================================
