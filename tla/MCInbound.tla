------------------------------- MODULE MCInbound -------------------------------
(***************************************************************************)
(* Receptions and their billing for TLC: the page devices are received on, *)
(* the billing of what was received, and the page that is done on.  A      *)
(* behaviour is about one of them.                                         *)
(***************************************************************************)
EXTENDS InboundBilling, BillingPage, ReceivePage, TLC

CONSTANTS a1, a2, a3, c1, c2, k1, k2

VARIABLE focus          \* the part looked at

\* Two devices of one client and one of another.
TwoClients == (a1 :> c1) @@ (a2 :> c1) @@ (a3 :> c2)

\* One line, or two of one kind, the first for one device or for two.
Line(k, n)    == [kind |-> k, quantity |-> n]
OneLine       == <<Line(k1, 1)>>
DeliveryLists == {OneLine, OneLine \o OneLine, <<Line(k1, 2), Line(k1, 1)>>}

Alike == Permutations(Serial)

pageVars == <<billingVars, receiveVars>>

MCInit == /\ focus \in {"receptions", "billing", "receive"}
          /\ Init
          /\ BillingInit
          /\ ReceiveInit
          \* which delivery it is is open where devices are received only
          /\ focus # "receive" => expected = OneLine

MCNext ==
    \/ focus = "receptions" /\ Next /\ UNCHANGED <<focus, pageVars>>
    \/ focus = "billing" /\ BillingNext /\ UNCHANGED <<focus, vars, receiveVars>>
    \/ focus = "receive" /\ ReceiveNext /\ UNCHANGED <<focus, vars, billingVars>>

MCSpec == MCInit /\ [][MCNext]_<<focus, vars, pageVars>>
================================================================================
