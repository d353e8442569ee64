----------------------------- MODULE Retrieval -----------------------------
(***************************************************************************)
(* RetrievalService: a device is picked up from its end user.  Its asset   *)
(* is returning from the request on and in_inspection once received; the   *)
(* receipt opens the diagnostic inspection.                                *)
(***************************************************************************)
EXTENDS Inspections

VARIABLE retrieval

NoRetrieval == [status |-> "absent", on |-> {}, bundle |-> "standard", destination |-> FALSE]

RetrievalTransitions == [absent     |-> {},
                         pending    |-> {"initiated", "cancelled"},
                         initiated  |-> {"in_transit", "cancelled"},
                         in_transit |-> {"received", "cancelled"},
                         received   |-> {},
                         completed  |-> {},
                         cancelled  |-> {}]

RetrievalRecord == [status      : DOMAIN RetrievalTransitions,
                    on          : SUBSET Asset,
                    bundle      : {"standard", "full_cycle"},
                    destination : BOOLEAN]   \* the redeploy address and contact are filled in

RetrievalInit == retrieval = [t \in RetrievalId |-> NoRetrieval]

\* Bound: create is called while the table has an id left.
RetrievalRoom == \E t \in RetrievalId : retrieval[t].status = "absent" /\ Fresh(t)

RetrievalTypeOK == retrieval \in [RetrievalId -> RetrievalRecord]

RetrievalRate == [standard |-> "RETRIEVAL", full_cycle |-> "RETRIEVAL_FULL_CYCLE"]

\* Whether the redeploy destination is filled in: asked for with a full cycle only,
\* and an empty contact passes the validation.
FullCycle(bundle) == IF bundle = "full_cycle" THEN BOOLEAN ELSE {FALSE}

\* The pickup, its transport if it costs anything, the data wipe if asked for.
RetrievalWork(a, bundle, ask) ==
    <<[do |-> RetrievalRate[bundle], asset |-> a]>>
    \o Asked(ask, "TRANSPORT", a)
    \o Asked(ask, "RETRIEVAL_WIPE", a)

\* Any existing asset may be retrieved: its status is not tested.
RetrievalCreate(h, a) ==
    /\ RetrievalRoom
    /\ Exists(a)
    /\ \E bundle \in DOMAIN RetrievalRate, ask \in SUBSET Optional :
         Begin(h, [Request("retrieval.create", NoRef, {a}, bundle)
                     EXCEPT !.due = RetrievalWork(a, bundle, ask)])
    /\ Unposted /\ Stay /\ UNCHANGED <<retrieval, inspection>>

\* Inserting the request returns it with its asset, whose status then is the
\* fromStatus of the history row.
RetrievalTx(h) ==
    /\ In(h, "retrieval.create", "read")
    /\ \E t \in RetrievalId :
         /\ retrieval[t].status = "absent"
         /\ Fresh(t)
         /\ call' = [call EXCEPT ![h] = [@ EXCEPT !.at = "tx", !.id = t,
                                                  !.seen = Snapshot(call[h].on)]]
    /\ Unposted /\ Stay /\ UNCHANGED <<retrieval, inspection>>

RetrievalCommit(h) ==
    /\ In(h, "retrieval.create", "tx")
    /\ call[h].due = <<>>
    /\ \E destination \in FullCycle(call[h].to) :
         retrieval' = [retrieval EXCEPT ![call[h].id] =
           [status |-> "pending", on |-> call[h].on, bundle |-> call[h].to,
            destination |-> destination]]
    /\ Move(h, call[h].on, call[h].seen, "returning", "retrieval")
    /\ Reply(h)
    /\ Unposted /\ UNCHANGED inspection

RetrievalUpdate(h, t) ==
    /\ \E to \in RetrievalTransitions[retrieval[t].status] :
         Begin(h, [Request("retrieval.updateStatus", t, retrieval[t].on, to)
                     EXCEPT !.seen = Snapshot(retrieval[t].on)])
    /\ Unposted /\ Stay /\ UNCHANGED <<retrieval, inspection>>

\* A cancelled retrieval leaves its asset returning.
RetrievalUpdateTx(h) ==
    /\ In(h, "retrieval.updateStatus", "read")
    /\ retrieval' = [retrieval EXCEPT ![call[h].id] = [@ EXCEPT !.status = call[h].to]]
    /\ IF call[h].to = "received"
       THEN /\ Move(h, call[h].on, call[h].seen, "in_inspection", "retrieval")
            /\ OpenInspection(call[h].on, call[h].id)
       ELSE Stay /\ UNCHANGED inspection
    /\ Reply(h)
    /\ Unposted

RetrievalNext ==
    \E h \in Handler :
       \/ \E a \in Asset : RetrievalCreate(h, a)
       \/ RetrievalTx(h)
       \/ RetrievalCommit(h)
       \/ \E t \in RetrievalId : RetrievalUpdate(h, t)
       \/ RetrievalUpdateTx(h)
=============================================================================
