----------------------------- MODULE MCWarehouse -----------------------------
(***************************************************************************)
(* Instances of Warehouse for TLC.  The ids a table may hand out decide    *)
(* which services take part in a run.                                      *)
(***************************************************************************)
EXTENDS Warehouse

CONSTANTS a1, a2, grn

OneIngest == <<[event |-> "INGEST", asset |-> a1, ref |-> grn]>>

ShipOne == {<<a1>>}

NoShipment == {}

ShipBoth == {<<a1, a2>>, <<a2, a1>>}

HandlerSymmetry == Permutations(Handler)

\* The steps of one service, as ServiceNext has them.
RepairStep      == RepairNext /\ UNCHANGED <<listing, disposal, redeployVars, edits>>
ResaleStep      == ResaleNext /\ UNCHANGED <<repair, disposal, redeployVars, edits>>
DisposalStep    == DisposalNext /\ UNCHANGED <<repair, listing, redeployVars, edits>>
InspectionsStep == InspectionsNext /\ UNCHANGED <<repair, listing, disposal, retrieval, order,
                                                  damage, edits>>
RetrievalStep   == RetrievalNext /\ UNCHANGED <<repair, listing, disposal, order, damage, edits>>
DeploymentStep  == DeploymentNext /\ UNCHANGED <<repair, listing, disposal, inspection, retrieval,
                                                 damage, edits>>
RedeployStep    == RedeployNext /\ UNCHANGED <<repair, listing, disposal, edits>>
AssetsStep      == AssetsNext /\ UNCHANGED <<repair, listing, disposal, redeployVars>>

\* Orders alone: without ids for their rows the other services cannot take a step.
OrdersNext == CallNext \/ DeploymentStep

\* The asset forms alone.
FormsSpec == Init /\ [][CallNext \/ AssetsStep]_vars

\* Devices that come back and go out again.
ReturnsNext ==
    CallNext \/ InspectionsStep \/ RetrievalStep \/ DeploymentStep \/ RedeployStep

\* A call that has begun goes on.
Goes == \A h \in Handler : WF_vars(Advance(h))
=============================================================================
