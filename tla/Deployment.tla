----------------------------- MODULE Deployment -----------------------------
(***************************************************************************)
(* DeploymentService: one order ships one or more assets to an end user.   *)
(* create works in one interactive transaction, but every ledger row it    *)
(* posts goes through the ledger service's own connection.                 *)
(***************************************************************************)
EXTENDS AssetRegister, SequencesExt

CONSTANTS OrderId,      \* ids the deployment_orders table may hand out
          Shipment      \* the lists of assets an operator may ship together

ASSUME DeploymentAssumption ==
    /\ OrderId \subseteq Ref
    /\ Shipment \subseteq Seq(Asset) \ {<<>>}
    /\ \A s \in Shipment : IsInjective(s)   \* create drops the duplicates of assetIds

VARIABLE order

NoOrder == [status |-> "absent", on |-> {}]

DeploymentTransitions == [absent     |-> {},
                          pending    |-> {"in_transit", "cancelled"},
                          in_transit |-> {"delivered", "cancelled"},
                          delivered  |-> {},
                          cancelled  |-> {}]

OrderRecord == [status : DOMAIN DeploymentTransitions, on : SUBSET Asset]

BundleRate == [standard |-> "PICK_PACK", full_prep |-> "FULL_PREP"]

DeploymentInit == order = [d \in OrderId |-> NoOrder]

\* Bound: create is called while the table has an id left.
DeploymentRoom == \E d \in OrderId : order[d].status = "absent" /\ Fresh(d)

DeploymentTypeOK == order \in [OrderId -> OrderRecord]

\* The loop body of create for asset a, after the update of its row.
AssetWork(a, bundle, ask) ==
    <<[do |-> BundleRate[bundle], asset |-> a]>>
    \o Asked(ask, "LABELING", a)
    \o Asked(ask, "REPACKING", a)
    \o (IF bundle = "full_prep" THEN <<[do |-> "suppress", asset |-> a]>> ELSE <<>>)

\* The call of create for shipment s, all its reads done: no status is tested,
\* only kept to be written as the fromStatus of the history rows.  The transport
\* of the shipment is charged once, on its first asset.
OrderRequest(s, bundle, ask, src) ==
    [Request("deployment.create", NoRef, ToSet(s), bundle)
       EXCEPT !.seen = Snapshot(ToSet(s)),
              !.ask = ask,
              !.due = Asked(ask, "TRANSPORT", Head(s)),
              !.rest = s,
              !.src = src]

DeploymentCreate(h) ==
    /\ DeploymentRoom
    /\ \E s \in Shipment, bundle \in DOMAIN BundleRate, ask \in SUBSET Optional :
         /\ \A a \in ToSet(s) : Exists(a)
         /\ Begin(h, OrderRequest(s, bundle, ask, NoRef))
    /\ Unposted /\ Stay /\ UNCHANGED order

DeploymentTx(h) ==
    /\ In(h, "deployment.create", "read")
    /\ \E d \in OrderId :
         /\ order[d].status = "absent"
         /\ Fresh(d)
         /\ call' = [call EXCEPT ![h] = [@ EXCEPT !.at = "tx", !.id = d]]
    /\ Unposted /\ Stay /\ UNCHANGED order

\* tx.asset.update of the next asset of the loop: from here on the transaction
\* holds its row.
DeploymentUpdateAsset(h) ==
    /\ In(h, "deployment.create", "tx")
    /\ call[h].due = <<>>
    /\ call[h].rest # <<>>
    /\ LET a == Head(call[h].rest)
       IN /\ Unlocked(h, {a})
          /\ call' = [call EXCEPT ![h] =
                         [@ EXCEPT !.held = call[h].held \cup {a},
                                   !.due = AssetWork(a, call[h].to, call[h].ask),
                                   !.rest = Tail(call[h].rest)]]
    /\ Unposted /\ Stay /\ UNCHANGED order

\* The component charges a Full Prep bundle replaces.
Components(a) ==
    {i \in 1..Len(ledger) : ledger[i].asset = a /\ ledger[i].event \in {"INGEST", "INSPECT"}}

\* Mutant: the suppressions are inserted outside the transaction.
DeploymentSuppressAtOnce(h) ==
    /\ In(h, "deployment.create", "tx")
    /\ call[h].due # <<>>
    /\ Head(call[h].due).do = "suppress"
    /\ suppressed' = suppressed \cup Components(Head(call[h].due).asset)
    /\ call' = [call EXCEPT ![h] = [@ EXCEPT !.due = Tail(call[h].due)]]
    /\ Stay /\ UNCHANGED <<ledger, failures, order>>

\* One insert per component row.  suppressed_event_id is unique: an insert that
\* collides is swallowed by the handler, but PostgreSQL has aborted the
\* transaction ("aborted").
DeploymentSuppress(h) ==
    /\ In(h, "deployment.create", "tx")
    /\ call[h].due # <<>>
    /\ Head(call[h].due).do = "suppress"
    /\ LET rows == Components(Head(call[h].due).asset)
           left == Tail(call[h].due)
       IN call' = [call EXCEPT ![h] =
                     IF rows \cap suppressed = {}
                     THEN [@ EXCEPT !.due = left, !.sup = call[h].sup \cup rows]
                     ELSE [@ EXCEPT !.due = left, !.at = "aborted", !.held = {}]]
    /\ Unposted /\ Stay /\ UNCHANGED order

\* Mutant: the loop ends before the last asset.
DeploymentCommitEarly(h) ==
    /\ In(h, "deployment.create", "tx")
    /\ call[h].due = <<>>
    /\ Len(call[h].rest) <= 1
    /\ order' = [order EXCEPT ![call[h].id] =
                   [status |-> "pending", on |-> call[h].on]]
    /\ Move(h, call[h].on, call[h].seen, "deployed", "deployment")
    /\ suppressed' = suppressed \cup call[h].sup
    /\ call' = [call EXCEPT ![h] = [@ EXCEPT !.at = "answered", !.held = {}, !.sup = {}]]
    /\ UNCHANGED <<ledger, failures>>

DeploymentCommit(h) ==
    /\ In(h, "deployment.create", "tx")
    /\ call[h].due = <<>>
    /\ call[h].rest = <<>>
    /\ order' = [order EXCEPT ![call[h].id] =
                   [status |-> "pending", on |-> call[h].on]]
    /\ Move(h, call[h].on, call[h].seen, "deployed", "deployment")
    /\ suppressed' = suppressed \cup call[h].sup
    /\ call' = [call EXCEPT ![h] = [@ EXCEPT !.at = "answered", !.held = {}, !.sup = {}]]
    /\ UNCHANGED <<ledger, failures>>

\* After a swallowed collision the next statement of the transaction throws;
\* if there is none left, COMMIT rolls back without an error and create
\* returns the order all the same.
DeploymentAborted(h) ==
    /\ In(h, "deployment.create", "aborted")
    /\ IF call[h].rest # <<>>
       THEN Reply(h)
       ELSE call' = [call EXCEPT ![h] = [@ EXCEPT !.at = "answered", !.sup = {}]]
    /\ Unposted /\ Stay /\ UNCHANGED order

DeploymentAnswer(h) ==
    /\ In(h, "deployment.create", "answered")
    /\ call[h].src = NoRef
    /\ Reply(h)
    /\ Unposted /\ Stay /\ UNCHANGED order

DeploymentUpdate(h, d) ==
    /\ \E to \in DeploymentTransitions[order[d].status] :
         Begin(h, Request("deployment.updateStatus", d, {}, to))
    /\ Unposted /\ Stay /\ UNCHANGED order

\* The asset is left as it is, whatever becomes of the order.
DeploymentUpdateWrite(h) ==
    /\ In(h, "deployment.updateStatus", "read")
    /\ order' = [order EXCEPT ![call[h].id] = [@ EXCEPT !.status = call[h].to]]
    /\ Reply(h)
    /\ Unposted /\ Stay

DeploymentNext ==
    \E h \in Handler :
       \/ DeploymentCreate(h)
       \/ DeploymentTx(h)
       \/ DeploymentUpdateAsset(h)
       \/ DeploymentSuppress(h)
       \/ DeploymentCommit(h)
       \/ DeploymentAborted(h)
       \/ DeploymentAnswer(h)
       \/ \E d \in OrderId : DeploymentUpdate(h, d)
       \/ DeploymentUpdateWrite(h)
=============================================================================
