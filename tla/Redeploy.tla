------------------------------ MODULE Redeploy ------------------------------
(***************************************************************************)
(* InspectionsService.handleRetrievalDiagnosticOutcome: after the          *)
(* inspection of a retrieved device has committed, the same call tells the *)
(* retrieval, and sends a sound device of a full-cycle retrieval out       *)
(* again through DeploymentService.create.                                 *)
(***************************************************************************)
EXTENDS Retrieval, Deployment

VARIABLE damage         \* retrieval -> damageFound ("unknown" until told)

redeployVars == <<inspection, retrieval, order, damage>>

RedeployInit == damage = [t \in RetrievalId |-> "unknown"]

RedeployTypeOK == damage \in [RetrievalId -> {"unknown", "clean", "damaged"}]

\* Mutant: the redeployment does not know which retrieval it continues.
RedeployOutcomeForgets(h) ==
    /\ In(h, "inspections.complete", "outcome")
    /\ LET t == call[h].src
           goes == /\ call[h].to = "clean"
                   /\ retrieval[t].bundle = "full_cycle"
                   /\ retrieval[t].status # "completed"
                   /\ retrieval[t].destination
       IN /\ damage' = [damage EXCEPT ![t] = call[h].to]
          /\ \/ /\ ~ goes
                /\ Reply(h)
             \/ /\ goes
                /\ \E a \in retrieval[t].on, bundle \in DOMAIN BundleRate,
                      ask \in SUBSET (Optional \cap {"TRANSPORT"}) :
                     call' = [call EXCEPT ![h] = OrderRequest(<<a>>, bundle, ask, NoRef)]
    /\ Unposted /\ Stay /\ UNCHANGED <<inspection, retrieval, order>>

\* The update of damageFound returns the retrieval as it is now; only a sound
\* device of a full-cycle retrieval not yet completed whose destination is filled in goes on.
\* Its redeployment is an ordinary create, which the handler awaits.
RedeployOutcome(h) ==
    /\ In(h, "inspections.complete", "outcome")
    /\ LET t == call[h].src
           goes == /\ call[h].to = "clean"
                   /\ retrieval[t].bundle = "full_cycle"
                   /\ retrieval[t].status # "completed"
                   /\ retrieval[t].destination
       IN /\ damage' = [damage EXCEPT ![t] = call[h].to]
          /\ \/ /\ ~ goes
                /\ Reply(h)
             \/ /\ goes
                /\ \E a \in retrieval[t].on, bundle \in DOMAIN BundleRate,
                      ask \in SUBSET (Optional \cap {"TRANSPORT"}) :
                     call' = [call EXCEPT ![h] = OrderRequest(<<a>>, bundle, ask, t)]
    /\ Unposted /\ Stay /\ UNCHANGED <<inspection, retrieval, order>>

\* create has answered: the retrieval is completed, whatever its status.
RedeployComplete(h) ==
    /\ In(h, "deployment.create", "answered")
    /\ call[h].src # NoRef
    /\ retrieval' = [retrieval EXCEPT ![call[h].src] = [@ EXCEPT !.status = "completed"]]
    /\ Reply(h)
    /\ Unposted /\ Stay /\ UNCHANGED <<inspection, order, damage>>

RedeployNext == \E h \in Handler : RedeployOutcome(h) \/ RedeployComplete(h)
=============================================================================
