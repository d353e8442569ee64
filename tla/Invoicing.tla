------------------------------ MODULE Invoicing ------------------------------
(***************************************************************************)
(* What billing promises its clients: a charge is on at most one           *)
(* outstanding invoice, together with charges of the same client only, and *)
(* what an invoice bills never changes until the whole of it is withdrawn. *)
(* ChargeBilling and InboundBilling are two ways to keep the promise.      *)
(***************************************************************************)
CONSTANTS Charge,       \* what can be billed
          Client,
          ClientOf,     \* charge -> the client that owes it
          Invoice       \* ids of invoices

VARIABLES issued,       \* ids handed out
          bills         \* id -> the charges it bills now

invoicingVars == <<issued, bills>>

\* The charges that are on no outstanding invoice.
Pending == {c \in Charge : \A i \in Invoice : c \notin bills[i]}

InvoicingInit == issued = {} /\ bills = [i \in Invoice |-> {}]

Issue(i, client, S) ==
    /\ i \notin issued
    /\ issued' = issued \cup {i}
    /\ S # {}
    /\ S \subseteq {c \in Pending : ClientOf[c] = client}
    /\ bills' = [bills EXCEPT ![i] = S]

Withdraw(i) ==
    /\ bills[i] # {}
    /\ bills' = [bills EXCEPT ![i] = {}]
    /\ UNCHANGED issued

\* An id is handed out, or the charges of an invoice are free again.
InvoicingNext ==
    \/ /\ issued' # issued
       /\ \E i \in Invoice, client \in Client, S \in SUBSET Charge : Issue(i, client, S)
    \/ /\ bills' # bills
       /\ \E i \in Invoice : Withdraw(i)

InvoicingSpec == InvoicingInit /\ [][InvoicingNext]_invoicingVars
==============================================================================
