------------------------------ MODULE Warehouse ------------------------------
(***************************************************************************)
(* The services of the API over one asset register: any call may arrive at *)
(* any time, and calls interleave at every await.                          *)
(***************************************************************************)
EXTENDS Repair, Resale, Disposal, Redeploy, Assets

requestVars == <<repair, listing, disposal, redeployVars, edits>>

vars == <<registerVars, requestVars>>

Init == /\ RegisterInit
        /\ RepairInit
        /\ ResaleInit
        /\ DisposalInit
        /\ InspectionsInit
        /\ RetrievalInit
        /\ DeploymentInit
        /\ RedeployInit
        /\ AssetsInit

\* One step of the code every call shares.
CallNext == /\ \E h \in Handler : PostRow(h) \/ Fail(h)
            /\ UNCHANGED requestVars

ServiceNext ==
    \/ CallNext
    \/ RepairNext /\ UNCHANGED <<listing, disposal, redeployVars, edits>>
    \/ ResaleNext /\ UNCHANGED <<repair, disposal, redeployVars, edits>>
    \/ DisposalNext /\ UNCHANGED <<repair, listing, redeployVars, edits>>
    \/ InspectionsNext /\ UNCHANGED <<repair, listing, disposal, retrieval, order, damage, edits>>
    \/ RetrievalNext /\ UNCHANGED <<repair, listing, disposal, order, damage, edits>>
    \/ /\ DeploymentNext
       /\ UNCHANGED <<repair, listing, disposal, inspection, retrieval, damage, edits>>
    \/ RedeployNext /\ UNCHANGED <<repair, listing, disposal, edits>>
    \/ AssetsNext /\ UNCHANGED <<repair, listing, disposal, redeployVars>>

Spec == Init /\ [][ServiceNext]_vars

(***************************************************************************)
(* Properties                                                              *)
(***************************************************************************)
\* Every row of every table has the type its columns have.
TypeOK == /\ RegisterTypeOK
          /\ RepairTypeOK
          /\ ResaleTypeOK
          /\ DisposalTypeOK
          /\ InspectionsTypeOK
          /\ RetrievalTypeOK
          /\ DeploymentTypeOK
          /\ RedeployTypeOK
          /\ AssetsTypeOK

\* The status an asset's history ends with: none before its first row.
LastStatus(a) ==
    IF history[a] = <<>> THEN NoStatus ELSE history[a][Len(history[a])].to

\* The asset form set this status; the services that own it know nothing of it.
SetByHand(a) ==
    \/ a \in unrecorded
    \/ history[a] # <<>> /\ history[a][Len(history[a])].by = "assets"

\* The status history is the source of truth for the status of an asset: whatever
\* calls interleave or fail, manual edits among them, it ends with the status the
\* asset row has - unless the last to write that status was an edit that asked for
\* the status it had read and found another one in the row.  The next recorded
\* change mends that.
HistoryMatchesStatus == \A a \in Asset \ unrecorded : LastStatus(a) = status[a]

\* What accounts for an asset that is away from the shelf.
Repairing(a) == \E r \in RepairId : a \in repair[r].on /\ repair[r].status \in OpenRepair

OnList(a, s) == \E l \in ListingId : a \in listing[l].on /\ listing[l].status = s

SignedAway(a) == \E d \in DisposalId : a \in disposal[d].on /\ disposal[d].approved

Inspecting(a) ==
    \E i \in InspectionId : a \in inspection[i].on /\ inspection[i].status = "in_progress"

Shipped(a) == \E d \in OrderId : a \in order[d].on /\ order[d].status # "absent"

\* Unless the asset form put it there, an asset is away from the shelf only
\* while a request of the service that took it there accounts for it: a repair
\* that is open, a listing that is listed or sold, a disposal that a manager
\* approved, an inspection in progress, a committed deployment order.
StatusJustified ==
    \A a \in {b \in Asset : ~ SetByHand(b)} :
      /\ status[a] = "in_repair" => Repairing(a)
      /\ status[a] = "for_resale" => OnList(a, "listed")
      /\ status[a] = "sold" => OnList(a, "sold")
      /\ status[a] = "disposed" => SignedAway(a)
      /\ status[a] = "in_inspection" => Inspecting(a)
      /\ status[a] = "deployed" => Shipped(a)

\* A manager's sign-off comes first: no repair is out at the service center and
\* no disposal is in process without it, however stale the reads it went by.
SignedOff ==
    /\ \A r \in RepairId :
         repair[r].status \in {"sent", "in_repair", "returned", "completed"} =>
           repair[r].approved
    /\ \A d \in DisposalId :
         disposal[d].status \in {"in_progress", "completed"} => disposal[d].approved

\* A repair is closed only after its delivery challan was uploaded.
ClosedWithProof ==
    \A r \in RepairId : repair[r].status = "completed" => repair[r].dc # "none"

Rows(events, id) == {i \in 1..Len(ledger) : ledger[i].event \in events /\ ledger[i].ref = id}

\* Services that post after their commit never charge for work that is not on
\* record, and charge a repair at most once even if calls race or fail.
PostedAfterCommit ==
    /\ \A r \in RepairId : /\ Cardinality(Rows({"REPAIR"}, r)) <= 1
                           /\ Rows({"REPAIR"}, r) # {} => repair[r].status # "absent"
    /\ \A d \in DisposalId :
         Rows({"DISPOSAL", "DISPOSAL_CERT_ADDON"}, d) # {} => disposal[d].approved

\* Services that post inside their transaction never leave committed work
\* unbilled: an order has one bundle charge for each of its assets, a retrieval
\* one retrieval charge, a completed inspection at least one inspection charge.
CommittedIsCharged ==
    /\ \A d \in OrderId : order[d].status # "absent" =>
         \A a \in order[d].on :
           Cardinality({i \in Rows({"PICK_PACK", "FULL_PREP"}, d) : ledger[i].asset = a}) = 1
    /\ \A t \in RetrievalId : retrieval[t].status # "absent" =>
         Cardinality(Rows({"RETRIEVAL", "RETRIEVAL_FULL_CYCLE"}, t)) = 1
    /\ \A i \in InspectionId : inspection[i].status = "completed" => Rows({"INSPECT"}, i) # {}

\* A component charge is waived only if the asset was charged a Full Prep bundle
\* by an order that exists: a rolled-back order waives nothing.
WaivedForBundle ==
    \A i \in suppressed :
      /\ ledger[i].event \in {"INGEST", "INSPECT"}
      /\ \E j \in 1..Len(ledger) :
           /\ ledger[j].event = "FULL_PREP"
           /\ ledger[j].asset = ledger[i].asset
           /\ ledger[j].ref \in {d \in OrderId : order[d].status # "absent"}

(***************************************************************************)
(* The inductive invariant: what a call in flight still knows for certain  *)
(* of the row it read, and the same for the tables themselves.             *)
(***************************************************************************)
RepairCalls ==
    /\ \A r \in RepairId :
         repair[r].status \in {"approved", "sent", "in_repair", "returned", "completed"} =>
           repair[r].approved
    /\ \A h \in Handler :
         call[h].op \in {"repair.approve", "repair.updateStatus"} =>
           /\ call[h].id \in RepairId
           /\ repair[call[h].id].status # "absent"
    /\ \A h \in Handler :
         call[h].op = "repair.updateStatus" =>
           /\ call[h].on = repair[call[h].id].on
           /\ call[h].to \in {"sent", "in_repair", "returned", "completed", "cancelled"}
           /\ call[h].to # "cancelled" => repair[call[h].id].approved
           /\ call[h].at = "counted" => repair[call[h].id].dc # "none"

ResaleCalls ==
    \A h \in Handler :
      call[h].op = "resale.updateStatus" =>
        /\ call[h].id \in ListingId
        /\ call[h].on = listing[call[h].id].on
        /\ call[h].to \in {"sold", "cancelled"}
        /\ listing[call[h].id].status # "absent"

DisposalCalls ==
    /\ \A d \in DisposalId : disposal[d].approved => disposal[d].status # "absent"
    /\ \A d \in DisposalId :
         disposal[d].status \in {"approved", "in_progress", "completed"} =>
           disposal[d].approved
    /\ \A h \in Handler :
         call[h].op \in {"disposal.approve", "disposal.startProcessing", "disposal.complete"} =>
           /\ call[h].id \in DisposalId
           /\ disposal[call[h].id].status # "absent"
    /\ \A h \in Handler :
         call[h].op \in {"disposal.startProcessing", "disposal.complete"} =>
           disposal[call[h].id].approved
    /\ \A h \in Handler :
         call[h].op = "disposal.complete" => call[h].on = disposal[call[h].id].on

InspectionCalls ==
    \A h \in Handler :
      /\ call[h].op \in {"inspections.cancel", "inspections.complete"} =>
           /\ call[h].id \in InspectionId
           /\ call[h].on = inspection[call[h].id].on
           /\ inspection[call[h].id].status # "absent"
      /\ call[h].op = "inspections.complete" =>
           /\ call[h].to \in {"clean", "damaged"}
           /\ call[h].src \in RetrievalId \cup {NoRef}
           /\ call[h].at = "outcome" => call[h].src # NoRef

RetrievalCalls ==
    \A h \in Handler :
      /\ call[h].op = "retrieval.create" =>
           /\ call[h].to \in DOMAIN RetrievalRate
           /\ call[h].at = "tx" => call[h].id \in RetrievalId
      /\ call[h].op = "retrieval.updateStatus" =>
           /\ call[h].id \in RetrievalId
           /\ call[h].to \in {"initiated", "in_transit", "received", "cancelled"}

DeploymentCalls ==
    \A h \in Handler :
      /\ call[h].op = "deployment.create" =>
           /\ call[h].to \in DOMAIN BundleRate
           /\ call[h].src \in RetrievalId \cup {NoRef}
           /\ call[h].at # "read" => call[h].id \in OrderId
      /\ In(h, "deployment.create", "tx") =>
           /\ order[call[h].id].status = "absent"
           /\ \A g \in Handler \ {h} :
                In(g, "deployment.create", "tx") => call[g].id # call[h].id
      /\ call[h].op = "deployment.updateStatus" =>
           /\ call[h].id \in OrderId
           /\ order[call[h].id].status # "absent"
           /\ call[h].to \in {"in_transit", "delivered", "cancelled"}

AssetCalls ==
    \A h \in Handler :
      call[h].op \in {"assets.create", "assets.updateStatus"} => call[h].to \in FormStatus

CallsOK == /\ RepairCalls
           /\ ResaleCalls
           /\ DisposalCalls
           /\ InspectionCalls
           /\ RetrievalCalls
           /\ DeploymentCalls
           /\ AssetCalls

\* Nobody is about to complete repair r: whoever is saw it returned, when it
\* had given its asset up.
Unfinished(r) == \A h \in Handler : ~ /\ call[h].op = "repair.updateStatus"
                                      /\ call[h].id = r
                                      /\ call[h].to = "completed"

Held(a) == \E r \in RepairId : /\ a \in repair[r].on
                               /\ repair[r].status \in OpenRepair
                               /\ Unfinished(r)

\* What accounts for the status of asset a, with the repair that holds it.
Reason(a) == /\ status[a] = "in_repair" => Held(a)
             /\ status[a] = "for_resale" => OnList(a, "listed")
             /\ status[a] = "sold" => OnList(a, "sold")
             /\ status[a] = "disposed" => SignedAway(a)
             /\ status[a] = "in_inspection" => Inspecting(a)
             /\ status[a] = "deployed" => Shipped(a)

Accounted == \A a \in Asset : SetByHand(a) \/ Reason(a)

\* What the proofs carry from step to step; StatusJustified and SignedOff follow.
StatusInv == TypeOK /\ CallsOK /\ HistoryMatchesStatus /\ Accounted

(***************************************************************************)
(* The same for the charges: which rows a call has posted, which it still  *)
(* has to post, and that no other call posts them.                         *)
(***************************************************************************)
BundleEvent == {"PICK_PACK", "FULL_PREP"}

Pickup == {"RETRIEVAL", "RETRIEVAL_FULL_CYCLE"}

Fee == {"DISPOSAL", "DISPOSAL_CERT_ADDON"}

BundleRows(d, a) == {i \in Rows(BundleEvent, d) : ledger[i].asset = a}

Once(S) == \E i \in S : S = {i}

\* The work call h has left.
DueOf(h) == {call[h].due[k].do : k \in 1..Len(call[h].due)}

\* The first thing it does next is one of E.
DueFirst(h, E) == call[h].due # <<>> /\ call[h].due[1].do \in E

\* Each event is due only in a call of the service that posts it.
DueWhere ==
    \A h \in Handler :
      /\ "REPAIR" \in DueOf(h) => In(h, "repair.create", "post")
      /\ DueOf(h) \cap Fee # {} => In(h, "disposal.approve", "post")
      /\ "INSPECT" \in DueOf(h) => In(h, "inspections.complete", "tx")
      /\ DueOf(h) \cap Pickup # {} => call[h].op = "retrieval.create"
      /\ DueOf(h) \cap BundleEvent # {} => call[h].op = "deployment.create"
      /\ call[h].op \in {"retrieval.create", "deployment.create"} => call[h].at # "post"

RepairCharged ==
    /\ \A r \in RepairId :
         \/ Rows({"REPAIR"}, r) = {}
         \/ Once(Rows({"REPAIR"}, r)) /\ repair[r].status # "absent"
    /\ \A h \in Handler, r \in RepairId :
         In(h, "repair.create", "post") /\ call[h].id = r =>
           /\ repair[r].status # "absent"
           /\ Len(call[h].due) = 1
           /\ Rows({"REPAIR"}, r) = {}
           /\ \A g \in Handler \ {h} : In(g, "repair.create", "post") => call[g].id # r

DisposalCharged ==
    /\ \A d \in DisposalId : Rows(Fee, d) # {} => disposal[d].approved
    /\ \A h \in Handler :
         In(h, "disposal.approve", "post") => disposal[call[h].id].approved

InspectionCharged ==
    /\ \A i \in InspectionId : inspection[i].status = "completed" => Rows({"INSPECT"}, i) # {}
    /\ \A h \in Handler, i \in InspectionId :
         In(h, "inspections.complete", "tx") /\ call[h].id = i =>
           Rows({"INSPECT"}, i) # {} \/ DueFirst(h, {"INSPECT"})

\* A retrieval that is continued or updated exists.
SourceExists ==
    /\ \A i \in InspectionId, t \in RetrievalId :
         inspection[i].retrieval = t => retrieval[t].status # "absent"
    /\ \A h \in Handler, t \in RetrievalId :
         \/ call[h].op \in {"inspections.complete", "deployment.create"} /\ call[h].src = t
         \/ call[h].op = "retrieval.updateStatus" /\ call[h].id = t
         => retrieval[t].status # "absent"

RetrievalCharged ==
    /\ \A t \in RetrievalId : retrieval[t].status # "absent" => Once(Rows(Pickup, t))
    /\ \A h \in Handler, t \in RetrievalId :
         In(h, "retrieval.create", "tx") /\ call[h].id = t =>
           /\ retrieval[t].status = "absent"
           /\ \A g \in Handler \ {h} : In(g, "retrieval.create", "tx") => call[g].id # t
           /\ IF DueFirst(h, Pickup) THEN Rows(Pickup, t) = {} ELSE Once(Rows(Pickup, t))
    /\ \A h \in Handler :
         call[h].op = "retrieval.create" =>
           /\ \A k \in 2..Len(call[h].due) : call[h].due[k].do \notin Pickup
           /\ call[h].at = "read" => DueFirst(h, Pickup)

\* The transaction of call h has charged the bundle of each asset it is done with.
OrderInProgress(h) ==
    /\ \A d \in OrderId :
         In(h, "deployment.create", "tx") /\ call[h].id = d =>
           /\ \A a \in call[h].on :
                IF \/ a \in ToSet(call[h].rest)
                   \/ DueFirst(h, BundleEvent) /\ call[h].due[1].asset = a
                THEN BundleRows(d, a) = {}
                ELSE Once(BundleRows(d, a))
           /\ DueFirst(h, BundleEvent) => call[h].due[1].asset \notin ToSet(call[h].rest)
    /\ call[h].op = "deployment.create" =>
         /\ IsInjective(call[h].rest)
         /\ \A k \in 2..Len(call[h].due) : call[h].due[k].do \notin BundleEvent
         /\ call[h].at = "read" => /\ ToSet(call[h].rest) = call[h].on
                                  /\ DueOf(h) \cap (BundleEvent \cup {"suppress"}) = {}
                                  /\ call[h].sup = {}

OrderCharged ==
    /\ \A d \in OrderId : order[d].status # "absent" =>
         \A a \in order[d].on : Once(BundleRows(d, a))
    /\ \A h \in Handler : OrderInProgress(h)

\* Order d has charged asset a the Full Prep bundle.
Prepped(d, a) == \E j \in Rows({"FULL_PREP"}, d) : ledger[j].asset = a

Component(i) == i \in 1..Len(ledger) /\ ledger[i].event \in {"INGEST", "INSPECT"}

\* What the transaction of call h waives or is about to waive, its order has charged
\* the bundle for, or charges it first.
WaiverInProgress(h) ==
    \A d \in OrderId :
      In(h, "deployment.create", "tx") /\ call[h].id = d =>
        /\ \A i \in call[h].sup : Component(i) /\ Prepped(d, ledger[i].asset)
        /\ \A k \in 1..Len(call[h].due) : call[h].due[k].do = "suppress" =>
             \/ Prepped(d, call[h].due[k].asset)
             \/ \E m \in 1..(k - 1) : call[h].due[m] = [do    |-> "FULL_PREP",
                                                       asset |-> call[h].due[k].asset]

WaiverOK ==
    /\ \A i \in suppressed :
         /\ Component(i)
         /\ \E d \in OrderId : order[d].status # "absent" /\ Prepped(d, ledger[i].asset)
    /\ \A h \in Handler : WaiverInProgress(h)

ChargesOK == /\ DueWhere
             /\ RepairCharged
             /\ DisposalCharged
             /\ InspectionCharged
             /\ SourceExists
             /\ RetrievalCharged
             /\ OrderCharged
             /\ WaiverOK

\* Inductive: what the statuses rely on, and what the charges rely on.
IInv == StatusInv /\ ChargesOK

\* The inspection of a sound device of a full-cycle retrieval whose destination is
\* filled in leads to the completion of that retrieval.
RedeployFollows ==
    \A h \in Handler, t \in RetrievalId :
      /\ In(h, "inspections.complete", "outcome")
      /\ call[h].src = t
      /\ call[h].to = "clean"
      /\ retrieval[t].bundle = "full_cycle"
      /\ retrieval[t].destination
      ~> retrieval[t].status = "completed"

\* Node runs every handler whose await has settled: a call goes on until it
\* answers.  Nothing forces a call to begin or to fail.
Advance(h) == /\ call[h] # Idle
              /\ ServiceNext
              /\ call'[h] # call[h]
              /\ failures' = failures

(***************************************************************************)
(* What documents and comments of the repository say and the code does not *)
(* ensure.                                                                 *)
(***************************************************************************)
\* deployment.service.ts: "Everything runs inside a single Prisma transaction" -
\* so an order that was rolled back, its call gone, has no charges.
OrderChargesAtomic ==
    \A i \in 1..Len(ledger) :
      ledger[i].event \in {"PICK_PACK", "FULL_PREP"} =>
        \/ \E d \in OrderId : ledger[i].ref = d /\ order[d].status # "absent"
        \/ \E h \in Handler : call[h].id = ledger[i].ref

\* deployment.service.ts: a suppression that exists already is ignored - so the
\* order that create answers with is there.
AnsweredOrderExists ==
    \A h \in Handler : In(h, "deployment.create", "answered") =>
                       order[call[h].id].status # "absent"

\* asset-status-history.service.ts: "Records one row per Asset.currentStatus
\* transition", "the source of truth" - so the last row has the status of the asset.
EveryTransitionRecorded == \A a \in Asset : LastStatus(a) = status[a]

\* SPEC.md 6.1: "Every priced action posts exactly one ledger row" - here an
\* approved disposal and a completed inspection, once no call is at work.
PricedOnce ==
    (\A h \in Handler : call[h] = Idle) =>
      /\ \A d \in DisposalId : disposal[d].approved => Cardinality(Rows({"DISPOSAL"}, d)) = 1
      /\ \A i \in InspectionId :
           inspection[i].status = "completed" => Cardinality(Rows({"INSPECT"}, i)) = 1
=============================================================================
