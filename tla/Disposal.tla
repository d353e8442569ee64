------------------------------ MODULE Disposal ------------------------------
(***************************************************************************)
(* DisposalService: a disposal is requested for a stored device, approved  *)
(* by a manager (which bills it), processed and completed.  The request    *)
(* does not reserve the asset: its status changes only at completion.      *)
(***************************************************************************)
EXTENDS AssetRegister

CONSTANT DisposalId     \* ids the disposal_requests table may hand out

ASSUME DisposalAssumption == DisposalId \subseteq Ref

VARIABLE disposal

NoDisposal == [status |-> "absent", on |-> {}, cert |-> FALSE, approved |-> FALSE]

DisposalStatus == {"absent", "pending", "approved", "in_progress", "completed"}

DisposalRecord == [status   : DisposalStatus,
                   on       : SUBSET Asset,
                   cert     : BOOLEAN,      \* requiresCertification
                   approved : BOOLEAN]      \* approvedAt is set

DisposalInit == disposal = [d \in DisposalId |-> NoDisposal]

\* Bound: create is called while the table has an id left.
DisposalRoom == \E d \in DisposalId : disposal[d].status = "absent"

DisposalTypeOK == disposal \in [DisposalId -> DisposalRecord]

DisposalCreate(h, a) ==
    /\ DisposalRoom
    /\ status[a] = "in_storage"
    /\ Begin(h, Request("disposal.create", NoRef, {a}, "pending"))
    /\ Unposted /\ Stay /\ UNCHANGED disposal

DisposalCreateWrite(h) ==
    /\ In(h, "disposal.create", "read")
    /\ \E d \in DisposalId, cert \in BOOLEAN :
         /\ disposal[d].status = "absent"
         /\ disposal' = [disposal EXCEPT ![d] =
                           [NoDisposal EXCEPT !.status = "pending", !.on = call[h].on,
                                              !.cert = cert]]
    /\ Reply(h)
    /\ Unposted /\ Stay

DisposalApprove(h, d) ==
    /\ disposal[d].status = "pending"
    /\ Begin(h, Request("disposal.approve", d, disposal[d].on, "approved"))
    /\ Unposted /\ Stay /\ UNCHANGED disposal

\* The update commits by itself; the fee and the certification add-on follow.
DisposalApproveWrite(h) ==
    /\ In(h, "disposal.approve", "read")
    /\ LET d == call[h].id
       IN /\ disposal' = [disposal EXCEPT ![d] =
                            [@ EXCEPT !.status = "approved", !.approved = TRUE]]
          /\ \E a \in call[h].on :
               LET fee == [do |-> "DISPOSAL", asset |-> a]
                   addon == [do |-> "DISPOSAL_CERT_ADDON", asset |-> a]
               IN call' = [call EXCEPT ![h] =
                             [@ EXCEPT !.at = "post",
                                       !.due = IF disposal[d].cert THEN <<fee, addon>>
                                                                   ELSE <<fee>>]]
    /\ Unposted /\ Stay

\* Mutant: processing may start before the approval.
DisposalStartEarly(h, d) ==
    /\ disposal[d].status \in {"pending", "approved"}
    /\ Begin(h, Request("disposal.startProcessing", d, {}, "in_progress"))
    /\ Unposted /\ Stay /\ UNCHANGED disposal

DisposalStart(h, d) ==
    /\ disposal[d].status = "approved"
    /\ Begin(h, Request("disposal.startProcessing", d, {}, "in_progress"))
    /\ Unposted /\ Stay /\ UNCHANGED disposal

DisposalStartWrite(h) ==
    /\ In(h, "disposal.startProcessing", "read")
    /\ disposal' = [disposal EXCEPT ![call[h].id] = [@ EXCEPT !.status = "in_progress"]]
    /\ Reply(h)
    /\ Unposted /\ Stay

\* findOne includes the asset: its status then is the fromStatus of the row.
DisposalComplete(h, d) ==
    /\ disposal[d].status = "in_progress"
    /\ Begin(h, [Request("disposal.complete", d, disposal[d].on, "completed")
                   EXCEPT !.seen = Snapshot(disposal[d].on)])
    /\ Unposted /\ Stay /\ UNCHANGED disposal

DisposalCompleteTx(h) ==
    /\ In(h, "disposal.complete", "read")
    /\ disposal' = [disposal EXCEPT ![call[h].id] = [@ EXCEPT !.status = "completed"]]
    /\ Move(h, call[h].on, call[h].seen, "disposed", "disposal")
    /\ Reply(h)
    /\ Unposted

DisposalNext ==
    \E h \in Handler :
       \/ \E a \in Asset : DisposalCreate(h, a)
       \/ DisposalCreateWrite(h)
       \/ \E d \in DisposalId : DisposalApprove(h, d) \/ DisposalStart(h, d)
                                \/ DisposalComplete(h, d)
       \/ DisposalApproveWrite(h)
       \/ DisposalStartWrite(h)
       \/ DisposalCompleteTx(h)
=============================================================================
