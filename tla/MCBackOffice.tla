----------------------------- MODULE MCBackOffice -----------------------------
(***************************************************************************)
(* The services that work on tables of their own, for TLC: a behaviour     *)
(* lets one of them work, so that their states add up and do not multiply. *)
(***************************************************************************)
EXTENDS ChargeBilling, RateCard, OrderEdits, TLC

CONSTANTS e1, e2, e3, c1, c2, u1

VARIABLE focus          \* the service that works

\* Two charges of one client and one of another.
TwoClients == (e1 :> c1) @@ (e2 :> c1) @@ (e3 :> c2)

allVars == <<focus, vars, rateVars, orderVars>>

MCInit == /\ focus \in {"charges", "rates", "orders"}
          /\ Init
          /\ RateInit
          /\ OrderInit
          \* what is open at the beginning is so for the service that works only
          /\ focus # "orders" => billed = 0 /\ order.user = u1

MCNext ==
    \/ /\ focus = "charges"
       /\ Next
       /\ UNCHANGED <<focus, rateVars, orderVars>>
    \/ /\ focus = "rates"
       /\ RateNext
       /\ UNCHANGED <<focus, vars, orderVars>>
    \/ /\ focus = "orders"
       /\ OrderNext
       /\ UNCHANGED <<focus, vars, rateVars>>

MCSpec == MCInit /\ [][MCNext]_allVars /\ Fairness
================================================================================
