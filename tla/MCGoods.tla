-------------------------------- MODULE MCGoods --------------------------------
(***************************************************************************)
(* Goods in, in store and out for TLC: receiving, the ledger of a receipt, *)
(* the storage runs, and orders; and an account, whose calls are like      *)
(* theirs.  They share no state here: a behaviour works on one of them, so *)
(* that their states add up and do not multiply.                           *)
(***************************************************************************)
EXTENDS MCWarehouse, ReceiptLedger, Receiving, StorageAccrual, Accounts

CONSTANTS c1, s1, s2,
          Parts         \* the components to look at

VARIABLE focus          \* the component that works

OneCharge == c1 :> a1

Alike == HandlerSymmetry \cup Permutations(Grn)

\* No device, two in either order, and one listed twice.
Batches == {<<>>, <<s1, s2>>, <<s2, s1>>, <<s1, s1>>}

Rates == [laptop |-> 2, peripheral |-> 1]

\* Pay per use, and a commitment to one device of each kind for a package price.
PayPerUse == [amount |-> 0, complete |-> FALSE, covered |-> [laptop |-> 0, peripheral |-> 0]]

SomeTerms == {PayPerUse,
              [amount |-> 5, complete |-> TRUE, covered |-> [laptop |-> 1, peripheral |-> 1]]}

MostStored == [laptop |-> 2, peripheral |-> 1]

bookVars == <<receiptVars, receivingVars, storageVars, accountVars>>

MCInit == /\ focus \in Parts
          /\ Init
          /\ ReceivingInit
          /\ ReceiptInit
          /\ StorageInit
          /\ AccountInit
          \* what is open at the beginning is so for the component that works only
          /\ focus # "storage" => terms = PayPerUse
          /\ focus # "ledger" => receivedAt = CHOOSE d \in Date : TRUE

MCNext ==
    \/ /\ focus = "orders"
       /\ OrdersNext
       /\ UNCHANGED <<focus, bookVars>>
    \/ /\ focus = "receiving"
       /\ ReceivingNext
       /\ UNCHANGED <<focus, vars, receiptVars, storageVars, accountVars>>
    \/ /\ focus = "ledger"
       /\ ReceiptNext
       /\ UNCHANGED <<focus, vars, receivingVars, storageVars, accountVars>>
    \/ /\ focus = "storage"
       /\ StorageNext
       /\ UNCHANGED <<focus, vars, receiptVars, receivingVars, accountVars>>
    \/ /\ focus = "accounts"
       /\ AccountNext
       /\ UNCHANGED <<focus, vars, receiptVars, receivingVars, storageVars>>

MCSpec == MCInit /\ [][MCNext]_<<focus, vars, bookVars>>
================================================================================
