------------------------------- MODULE Repair -------------------------------
(***************************************************************************)
(* RepairService: a device in storage goes out to a service center and     *)
(* comes back.  The repair holds the asset in status in_repair.            *)
(***************************************************************************)
EXTENDS AssetRegister

CONSTANT RepairId       \* ids the repair_requests table may hand out

ASSUME RepairAssumption == RepairId \subseteq Ref

VARIABLE repair

NoRepair == [status |-> "absent", on |-> {}, approved |-> FALSE, dc |-> "none"]

\* Mutant: a repair may be completed without having been returned.
RepairTransitionsSkipReturn ==
    [absent    |-> {},
     pending   |-> {"cancelled"},
     approved  |-> {"sent", "cancelled"},
     sent      |-> {"in_repair", "cancelled"},
     in_repair |-> {"returned", "completed", "cancelled"},
     returned  |-> {"completed"},
     completed |-> {},
     cancelled |-> {}]

RepairTransitions ==
    [absent    |-> {},
     pending   |-> {"cancelled"},
     approved  |-> {"sent", "cancelled"},
     sent      |-> {"in_repair", "cancelled"},
     in_repair |-> {"returned", "cancelled"},
     returned  |-> {"completed"},
     completed |-> {},
     cancelled |-> {}]

RepairStatus == DOMAIN RepairTransitions

RepairRecord == [status   : RepairStatus,
                 on       : SUBSET Asset,     \* the asset under repair
                 approved : BOOLEAN,          \* approvedAt is set
                 dc       : {"none", "attached", "deleted"}]   \* its delivery challan

\* The requests that keep an asset away from the shelf.
OpenRepair == {"pending", "approved", "sent", "in_repair"}

RepairInit == repair = [r \in RepairId |-> NoRepair]

\* Bound: create is called while the table has an id left.
RepairRoom == \E r \in RepairId : repair[r].status = "absent"

RepairTypeOK == repair \in [RepairId -> RepairRecord]

\* create: the storage check is made before the transaction ...
RepairCreate(h, a) ==
    /\ RepairRoom
    /\ status[a] = "in_storage"
    /\ Begin(h, Request("repair.create", NoRef, {a}, "pending"))
    /\ Unposted /\ Stay /\ UNCHANGED repair

\* ... which does not repeat it and records 'in_storage' as the status left.
RepairCreateTx(h) ==
    /\ In(h, "repair.create", "read")
    /\ \E r \in RepairId :
         /\ repair[r].status = "absent"
         /\ repair' = [repair EXCEPT ![r] =
                         [NoRepair EXCEPT !.status = "pending", !.on = call[h].on]]
         /\ \E a \in call[h].on :
              call' = [call EXCEPT ![h] =
                         [@ EXCEPT !.at = "post", !.id = r,
                                   !.due = <<[do |-> "REPAIR", asset |-> a]>>]]
    /\ Move(h, call[h].on, Always("in_storage"), "in_repair", "repair")
    /\ Unposted

RepairApprove(h, r) ==
    /\ repair[r].status = "pending"
    /\ Begin(h, Request("repair.approve", r, {}, "approved"))
    /\ Unposted /\ Stay /\ UNCHANGED repair

RepairApproveWrite(h) ==
    /\ In(h, "repair.approve", "read")
    /\ repair' = [repair EXCEPT ![call[h].id] =
                    [@ EXCEPT !.status = "approved", !.approved = TRUE]]
    /\ Reply(h)
    /\ Unposted /\ Stay

RepairUpdate(h, r) ==
    /\ \E to \in RepairTransitions[repair[r].status] :
         Begin(h, Request("repair.updateStatus", r, repair[r].on, to))
    /\ Unposted /\ Stay /\ UNCHANGED repair

\* A completion counts the delivery challans in a second query.
RepairCountDc(h) ==
    /\ In(h, "repair.updateStatus", "read")
    /\ call[h].to = "completed"
    /\ repair[call[h].id].dc = "attached"
    /\ call' = [call EXCEPT ![h] = [@ EXCEPT !.at = "counted"]]
    /\ Unposted /\ Stay /\ UNCHANGED repair

\* Mutant: the status change is not recorded in the history.
RepairUpdateTxUnrecorded(h) ==
    /\ call[h].op = "repair.updateStatus"
    /\ call[h].at = IF call[h].to = "completed" THEN "counted" ELSE "read"
    /\ repair' = [repair EXCEPT ![call[h].id] = [@ EXCEPT !.status = call[h].to]]
    /\ IF call[h].to \in {"returned", "cancelled"}
       THEN /\ status' = [a \in Asset |-> IF a \in call[h].on THEN "in_storage" ELSE status[a]]
            /\ UNCHANGED <<history, unrecorded>>
       ELSE Stay
    /\ Reply(h)
    /\ Unposted

\* Mutant: a completion does not look for the delivery challan.
RepairUpdateTxUncounted(h) ==
    /\ In(h, "repair.updateStatus", "read")
    /\ repair' = [repair EXCEPT ![call[h].id] = [@ EXCEPT !.status = call[h].to]]
    /\ IF call[h].to \in {"returned", "cancelled"}
       THEN Move(h, call[h].on, Always("in_repair"), "in_storage", "repair")
       ELSE Stay
    /\ Reply(h)
    /\ Unposted

RepairUpdateTx(h) ==
    /\ call[h].op = "repair.updateStatus"
    /\ call[h].at = IF call[h].to = "completed" THEN "counted" ELSE "read"
    /\ repair' = [repair EXCEPT ![call[h].id] = [@ EXCEPT !.status = call[h].to]]
    /\ IF call[h].to \in {"returned", "cancelled"}
       THEN Move(h, call[h].on, Always("in_repair"), "in_storage", "repair")
       ELSE Stay
    /\ Reply(h)
    /\ Unposted

\* DocumentsService.createForRepair and delete, on the repair's challan.
RepairAttachDc(r) ==
    /\ repair[r].status # "absent"
    /\ repair[r].dc # "attached"
    /\ repair' = [repair EXCEPT ![r] = [@ EXCEPT !.dc = "attached"]]
    /\ UNCHANGED registerVars

RepairDetachDc(r) ==
    /\ repair[r].dc = "attached"
    /\ repair' = [repair EXCEPT ![r] = [@ EXCEPT !.dc = "deleted"]]
    /\ UNCHANGED registerVars

RepairNext ==
    \/ \E h \in Handler :
         \/ \E a \in Asset : RepairCreate(h, a)
         \/ RepairCreateTx(h)
         \/ \E r \in RepairId : RepairApprove(h, r) \/ RepairUpdate(h, r)
         \/ RepairApproveWrite(h)
         \/ RepairCountDc(h)
         \/ RepairUpdateTx(h)
    \/ \E r \in RepairId : RepairAttachDc(r) \/ RepairDetachDc(r)
=============================================================================
