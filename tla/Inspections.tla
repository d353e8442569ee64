---------------------------- MODULE Inspections ----------------------------
(***************************************************************************)
(* InspectionsService: an inspection is opened by hand or by the receipt   *)
(* of a retrieval, and is completed (and billed) or cancelled; both put    *)
(* the asset into storage.                                                 *)
(***************************************************************************)
EXTENDS AssetRegister

CONSTANTS InspectionId, \* ids the inspections table may hand out
          RetrievalId   \* ids of the retrievals that open inspections

ASSUME InspectionsAssumption == InspectionId \subseteq Ref /\ RetrievalId \subseteq Ref

VARIABLE inspection

NoInspection == [status |-> "absent", on |-> {}, retrieval |-> NoRef]

InspectionRecord == [status    : {"absent", "in_progress", "completed", "cancelled"},
                     on        : SUBSET Asset,
                     retrieval : RetrievalId \cup {NoRef}]  \* sourceRetrievalId

InspectionsInit == inspection = [i \in InspectionId |-> NoInspection]

\* Bound: create is called while the table has an id left.
InspectionsRoom == \E i \in InspectionId : inspection[i].status = "absent"

InspectionsTypeOK == inspection \in [InspectionId -> InspectionRecord]

\* inspection.create, by this service or by a retrieval.
OpenInspection(S, retrieval) ==
    \E i \in InspectionId :
       /\ inspection[i].status = "absent"
       /\ inspection' = [inspection EXCEPT ![i] =
            [status |-> "in_progress", on |-> S, retrieval |-> retrieval]]

\* The asset's status is neither tested nor changed.
InspectionsCreate(h, a) ==
    /\ InspectionsRoom
    /\ Exists(a)
    /\ \A i \in InspectionId : ~ (inspection[i].status = "in_progress" /\ a \in inspection[i].on)
    /\ Begin(h, Request("inspections.create", NoRef, {a}, "in_progress"))
    /\ Unposted /\ Stay /\ UNCHANGED inspection

InspectionsCreateWrite(h) ==
    /\ In(h, "inspections.create", "read")
    /\ OpenInspection(call[h].on, NoRef)
    /\ Reply(h)
    /\ Unposted /\ Stay

InspectionsCancel(h, i) ==
    /\ inspection[i].status = "in_progress"
    /\ Begin(h, [Request("inspections.cancel", i, inspection[i].on, "cancelled")
                   EXCEPT !.seen = Snapshot(inspection[i].on)])
    /\ Unposted /\ Stay /\ UNCHANGED inspection

InspectionsCancelTx(h) ==
    /\ In(h, "inspections.cancel", "read")
    /\ inspection' = [inspection EXCEPT ![call[h].id] = [@ EXCEPT !.status = "cancelled"]]
    /\ Move(h, call[h].on, call[h].seen, "in_storage", "inspections")
    /\ Reply(h)
    /\ Unposted

\* The form says whether the device is damaged.
InspectionsComplete(h, i) ==
    /\ inspection[i].status = "in_progress"
    /\ \E outcome \in {"clean", "damaged"} :
         Begin(h, [Request("inspections.complete", i, inspection[i].on, outcome)
                     EXCEPT !.seen = Snapshot(inspection[i].on),
                            !.src = inspection[i].retrieval])
    /\ Unposted /\ Stay /\ UNCHANGED inspection

\* The transaction updates the asset row, and holds it while the ledger service
\* posts the charge.
InspectionsCompleteTx(h) ==
    /\ In(h, "inspections.complete", "read")
    /\ Unlocked(h, call[h].on)
    /\ \E a \in call[h].on :
         call' = [call EXCEPT ![h] = [@ EXCEPT !.at = "tx", !.held = call[h].on,
                                               !.due = <<[do |-> "INSPECT", asset |-> a]>>]]
    /\ Unposted /\ Stay /\ UNCHANGED inspection

\* A retrieval waiting for this diagnosis is told of it afterwards ("outcome").
InspectionsCompleteCommit(h) ==
    /\ In(h, "inspections.complete", "tx")
    /\ call[h].due = <<>>
    /\ inspection' = [inspection EXCEPT ![call[h].id] = [@ EXCEPT !.status = "completed"]]
    /\ Move(h, call[h].on, call[h].seen, "in_storage", "inspections")
    /\ IF call[h].src = NoRef
       THEN Reply(h)
       ELSE call' = [call EXCEPT ![h] = [@ EXCEPT !.at = "outcome", !.held = {}, !.seen = Unread]]
    /\ Unposted

InspectionsNext ==
    \E h \in Handler :
       \/ \E a \in Asset : InspectionsCreate(h, a)
       \/ InspectionsCreateWrite(h)
       \/ \E i \in InspectionId : InspectionsCancel(h, i) \/ InspectionsComplete(h, i)
       \/ InspectionsCancelTx(h)
       \/ InspectionsCompleteTx(h)
       \/ InspectionsCompleteCommit(h)
=============================================================================
