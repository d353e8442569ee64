------------------------------ MODULE MCServices ------------------------------
(***************************************************************************)
(* Warehouse for TLC: a behaviour uses a few services together, so that    *)
(* the states of the groups add up and do not multiply.                    *)
(***************************************************************************)
EXTENDS MCWarehouse

CONSTANT Groups         \* the groups a run exercises

VARIABLE focus          \* the group in use

Repairs == {"repair.create", "repair.approve", "repair.updateStatus"}

Resales == {"resale.create", "resale.updateStatus"}

Disposals == {"disposal.create", "disposal.approve", "disposal.startProcessing",
              "disposal.complete"}

Returns == {"inspections.create", "inspections.cancel", "inspections.complete",
            "retrieval.create", "retrieval.updateStatus"}

Forms == {"assets.create", "assets.updateStatus"}

Calls == [branches      |-> Repairs \cup Resales,
          billing_after |-> Repairs \cup Disposals,
          disposals     |-> Disposals,
          returns       |-> Returns \cup {"deployment.create"},
          registration  |-> Forms \cup Resales,
          corrections   |-> Repairs \cup {"assets.updateStatus"}]

\* What is smaller in two of the groups: repairs and disposals fail in branches and
\* in disposals, not next to each other or next to edits.
Bounded == focus \in {"billing_after", "corrections"} => failures' = failures

InFocus == /\ {call'[h].op : h \in Handler} \subseteq Calls[focus] \cup {"idle"}
           /\ Bounded
           /\ UNCHANGED focus

MCInit == Init /\ focus \in Groups

\* ServiceNext, each step in focus.
MCNext ==
    \/ CallNext /\ InFocus
    \/ RepairStep /\ InFocus
    \/ ResaleStep /\ InFocus
    \/ DisposalStep /\ InFocus
    \/ InspectionsStep /\ InFocus
    \/ RetrievalStep /\ InFocus
    \/ DeploymentStep /\ InFocus
    \/ RedeployStep /\ InFocus
    \/ AssetsStep /\ InFocus

MCSpec == MCInit /\ [][MCNext]_<<focus, vars>>
===============================================================================
