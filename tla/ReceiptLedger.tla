----------------------------- MODULE ReceiptLedger -----------------------------
(***************************************************************************)
(* The ledger rows of one goods received note (GRN): what a device was     *)
(* charged when it came in, while the date of the receipt is edited        *)
(* (InboundService.updateGrn), an administrator posts corrections          *)
(* (LedgerService.createCorrection) and Full Prep orders waive the charges *)
(* of the devices they ship (DeploymentService.create).                    *)
(*                                                                         *)
(* The ledger is append-only.  The INGEST or INSPECT rows of a device are  *)
(* the versions of one charge; a CORRECTION row is counted at the row it   *)
(* names.  The rate follows the date, so the date stands for the amount.   *)
(***************************************************************************)
EXTENDS Backend

CONSTANTS Device,       \* the devices of the receipt
          Charge,       \* the INGEST and INSPECT rows it posted
          DeviceOf,     \* charge -> the device it is for
          Date,         \* dates of receipt
          NoDate,
          Bundle,       \* ids of the FULL_PREP rows orders may post
          NoBundle,
          MaxVersions,  \* bound: rows of one charge
          MaxReversals  \* bound: corrections of one row made by hand

ASSUME ReceiptAssumption ==
    /\ DeviceOf \in [Charge -> Device]
    /\ NoBundle \notin Bundle
    /\ NoDate \notin Date
    /\ MaxVersions \in Nat
    /\ MaxReversals \in Nat

VARIABLES receivedAt,   \* the GRN's date
          versions,     \* charge -> its rows, oldest first
          bundle,       \* FULL_PREP rows, by id
          editing,      \* handler -> the call it is serving
          crashed,      \* calls that have failed so far
          byHand,       \* ghost: charges an administrator has corrected
          waived        \* ghost: charges that some order has waived

receiptVars == <<receivedAt, versions, bundle, editing, crashed, byHand, waived>>

\* A row: its date, the CORRECTION rows that name it, the corrections of those, and
\* the FULL_PREP row that suppresses it (suppressed_event_id is unique).
Version == [at : Date, reversals : Nat, restored : Nat, by : Bundle \cup {NoBundle}]

BundleRow == [posted : BOOLEAN, reversals : Nat]

\* A row of the ledger, as a query returns its id.
RowId == Charge \X (Nat \ {0})

EditCall == [op    : {"idle", "grn", "grn.locked", "grn.found", "grn.reversed", "grn.checked",
                      "correct.clear", "order", "order.found"},
             date  : Date \cup {NoDate},
             id    : Bundle \cup {NoBundle},
             asset : SUBSET Device,
             found : SUBSET RowId,
             skip  : SUBSET RowId]

Resting == [op |-> "idle", date |-> NoDate, id |-> NoBundle, asset |-> {},
            found |-> {}, skip |-> {}]

RowsOf(C) == UNION {{c} \X DOMAIN versions[c] : c \in C}

AtRest(h) == editing[h].op = "idle"

Answer(h) == editing' = [editing EXCEPT ![h] = Resting]

Step(h, op) == editing' = [editing EXCEPT ![h].op = op]

ReceiptInit ==
    /\ receivedAt \in Date
    /\ versions = [c \in Charge |->
          <<[at |-> receivedAt, reversals |-> 0, restored |-> 0, by |-> NoBundle]>>]
    /\ bundle = [b \in Bundle |-> [posted |-> FALSE, reversals |-> 0]]
    /\ editing = [h \in Handler |-> Resting]
    /\ crashed = 0
    /\ byHand = {}
    /\ waived = {}

(***************************************************************************)
(* updateGrn                                                               *)
(***************************************************************************)
InGrnTx(h) == editing[h].op \in {"grn.locked", "grn.found", "grn.reversed", "grn.checked"}

InGrn(h) == editing[h].op = "grn" \/ InGrnTx(h)

\* The GRN is read before the transaction; a date that does not change is not
\* an edit of the date.
UpdateGrn(h, d) ==
    /\ AtRest(h)
    /\ d # receivedAt
    /\ \A c \in Charge : Len(versions[c]) + Cardinality({g \in Handler : InGrn(g)}) < MaxVersions
    /\ editing' = [editing EXCEPT ![h].op = "grn", ![h].date = d]
    /\ UNCHANGED <<receivedAt, versions, bundle, crashed, byHand, waived>>

\* Mutant: the ledger is read before the row is updated, so nothing is locked yet.
UpdateGrnLockLate(h) ==
    /\ editing[h].op = "grn"
    /\ Step(h, "grn.locked")
    /\ UNCHANGED <<receivedAt, versions, bundle, crashed, byHand, waived>>

\* The transaction begins with the update of the GRN, which locks its row.
UpdateGrnLock(h) ==
    /\ editing[h].op = "grn"
    /\ \A g \in Handler : ~ InGrnTx(g)
    /\ Step(h, "grn.locked")
    /\ UNCHANGED <<receivedAt, versions, bundle, crashed, byHand, waived>>

\* Three queries find the rows of the receipt, those that were corrected and those
\* that are suppressed.
UpdateGrnFind(h) ==
    /\ editing[h].op = "grn.locked"
    /\ editing' = [editing EXCEPT ![h].op = "grn.found", ![h].found = RowsOf(Charge)]
    /\ UNCHANGED <<receivedAt, versions, bundle, crashed, byHand, waived>>

\* Mutant: rows corrected earlier are not left out.
UpdateGrnReversedIgnored(h) ==
    /\ editing[h].op = "grn.found"
    /\ Step(h, "grn.reversed")
    /\ UNCHANGED <<receivedAt, versions, bundle, crashed, byHand, waived>>

UpdateGrnReversed(h) ==
    /\ editing[h].op = "grn.found"
    /\ editing' = [editing EXCEPT
         ![h].op = "grn.reversed",
         ![h].skip = {r \in editing[h].found : versions[r[1]][r[2]].reversals > 0}]
    /\ UNCHANGED <<receivedAt, versions, bundle, crashed, byHand, waived>>

UpdateGrnSuppressed(h) ==
    /\ editing[h].op = "grn.reversed"
    /\ editing' = [editing EXCEPT
         ![h].op = "grn.checked",
         ![h].skip = editing[h].skip \cup
            {r \in editing[h].found : versions[r[1]][r[2]].by # NoBundle}]
    /\ UNCHANGED <<receivedAt, versions, bundle, crashed, byHand, waived>>

\* Every live row is reversed at its own date and posted again at the new one.
Live(h) == editing[h].found \ editing[h].skip

LiveOf(h, c) == {i \in DOMAIN versions[c] : <<c, i>> \in Live(h)}

Reposted(h, c) ==
    [i \in DOMAIN versions[c] |->
        IF i \in LiveOf(h, c)
        THEN [versions[c][i] EXCEPT !.reversals = versions[c][i].reversals + 1]
        ELSE versions[c][i]]
    \o [i \in 1..Cardinality(LiveOf(h, c)) |->
          [at |-> editing[h].date, reversals |-> 0, restored |-> 0, by |-> NoBundle]]

\* Everything the transaction wrote appears with its commit.
UpdateGrnCommit(h) ==
    /\ editing[h].op = "grn.checked"
    /\ receivedAt' = editing[h].date
    /\ versions' = [c \in Charge |-> Reposted(h, c)]
    /\ Answer(h)
    /\ UNCHANGED <<bundle, crashed, byHand, waived>>

(***************************************************************************)
(* createCorrection: one statement posts the reversing row, a second one   *)
(* deletes the suppressions made by the row that was corrected.            *)
(***************************************************************************)
CorrectCharge(h, c, i) ==
    /\ AtRest(h)
    /\ i \in DOMAIN versions[c]
    /\ versions[c][i].reversals < MaxReversals
    /\ versions' = [versions EXCEPT ![c][i].reversals = versions[c][i].reversals + 1]
    /\ Step(h, "correct.clear")
    /\ byHand' = byHand \cup {c}
    /\ UNCHANGED <<receivedAt, bundle, crashed, waived>>

\* Any row may be named, a correction too.
CorrectReversal(h, c, i) ==
    /\ AtRest(h)
    /\ i \in DOMAIN versions[c]
    /\ versions[c][i].restored < versions[c][i].reversals
    /\ versions' = [versions EXCEPT ![c][i].restored = versions[c][i].restored + 1]
    /\ Step(h, "correct.clear")
    /\ byHand' = byHand \cup {c}
    /\ UNCHANGED <<receivedAt, bundle, crashed, waived>>

CorrectBundle(h, b) ==
    /\ AtRest(h)
    /\ bundle[b].posted
    /\ bundle[b].reversals < MaxReversals
    /\ bundle' = [bundle EXCEPT ![b].reversals = bundle[b].reversals + 1]
    /\ editing' = [editing EXCEPT ![h].op = "correct.clear", ![h].id = b]
    /\ UNCHANGED <<receivedAt, versions, crashed, byHand, waived>>

CorrectClear(h) ==
    /\ editing[h].op = "correct.clear"
    /\ versions' = [c \in Charge |->
          [i \in DOMAIN versions[c] |->
             IF editing[h].id # NoBundle /\ versions[c][i].by = editing[h].id
             THEN [versions[c][i] EXCEPT !.by = NoBundle]
             ELSE versions[c][i]]]
    /\ Answer(h)
    /\ UNCHANGED <<receivedAt, bundle, crashed, byHand, waived>>

(***************************************************************************)
(* The Full Prep part of deployment.create: the asset's row is locked, the *)
(* bundle row is posted on another connection, then the suppressions are   *)
(* inserted for all its INGEST and INSPECT rows, corrected or not.         *)
(***************************************************************************)
OrderPost(h, b, a) ==
    /\ AtRest(h)
    /\ ~ bundle[b].posted
    /\ \A g \in Handler : editing[g].op \in {"order", "order.found"} => a \notin editing[g].asset
    /\ bundle' = [bundle EXCEPT ![b].posted = TRUE]
    /\ editing' = [editing EXCEPT ![h].op = "order", ![h].id = b, ![h].asset = {a}]
    /\ UNCHANGED <<receivedAt, versions, crashed, byHand, waived>>

OrderFind(h) ==
    /\ editing[h].op = "order"
    /\ editing' = [editing EXCEPT
         ![h].op = "order.found",
         ![h].found = RowsOf({c \in Charge : DeviceOf[c] \in editing[h].asset})]
    /\ UNCHANGED <<receivedAt, versions, bundle, crashed, byHand, waived>>

\* A row that is suppressed already makes the insert fail, which is caught, but the
\* transaction is lost: no order, no suppression.
OrderCommit(h) ==
    /\ editing[h].op = "order.found"
    /\ IF \E r \in editing[h].found : versions[r[1]][r[2]].by # NoBundle
       THEN UNCHANGED <<versions, waived>>
       ELSE /\ versions' = [c \in Charge |->
                  [i \in DOMAIN versions[c] |->
                     IF <<c, i>> \in editing[h].found
                     THEN [versions[c][i] EXCEPT !.by = editing[h].id]
                     ELSE versions[c][i]]]
            /\ waived' = waived \cup {r[1] : r \in editing[h].found}
    /\ Answer(h)
    /\ UNCHANGED <<receivedAt, bundle, crashed, byHand>>

(***************************************************************************)
(* A statement fails or the process dies: an open transaction is gone.     *)
(***************************************************************************)
ReceiptFail(h) ==
    /\ ~ AtRest(h)
    /\ crashed < MaxFailures
    /\ crashed' = crashed + 1
    /\ Answer(h)
    /\ UNCHANGED <<receivedAt, versions, bundle, byHand, waived>>

ReceiptNext ==
    \E h \in Handler :
      \/ \E d \in Date : UpdateGrn(h, d)
      \/ UpdateGrnLock(h)
      \/ UpdateGrnFind(h)
      \/ UpdateGrnReversed(h)
      \/ UpdateGrnSuppressed(h)
      \/ UpdateGrnCommit(h)
      \/ \E c \in Charge : \E i \in DOMAIN versions[c] :
           CorrectCharge(h, c, i) \/ CorrectReversal(h, c, i)
      \/ \E b \in Bundle : CorrectBundle(h, b)
      \/ CorrectClear(h)
      \/ \E b \in Bundle, a \in Device : OrderPost(h, b, a)
      \/ OrderFind(h)
      \/ OrderCommit(h)
      \/ ReceiptFail(h)

ReceiptSpec == ReceiptInit /\ [][ReceiptNext]_receiptVars

(***************************************************************************)
(* Properties                                                              *)
(***************************************************************************)
ReceiptTypeOK ==
    /\ receivedAt \in Date
    /\ versions \in [Charge -> Seq(Version)]
    /\ bundle \in [Bundle -> BundleRow]
    /\ editing \in [Handler -> EditCall]
    /\ crashed \in 0..MaxFailures
    /\ byHand \subseteq Charge
    /\ waived \subseteq Charge

\* However often and however concurrently the date is edited, nobody corrects by
\* hand and no order waives: every earlier row of the charge is reversed exactly
\* once, the last one stands, and it lies at the date of the receipt.
ReceiptCharged ==
    \A c \in Charge \ (byHand \cup waived) :
      LET n == Len(versions[c])
      IN /\ versions[c][n].at = receivedAt
         /\ \A i \in 1..n : versions[c][i].reversals = IF i = n THEN 0 ELSE 1

\* Whatever anybody does, at most one row of a charge is not reversed: a device's
\* reception is never charged twice.
StandsOnce ==
    \A c \in Charge : \A i \in DOMAIN versions[c] :
      versions[c][i].reversals = 0 => i = Len(versions[c])

\* What the ledger adds up to for one charge, suppressed rows left out.
NetOf(c) ==
    LET net[i \in 0..Len(versions[c])] ==
          IF i = 0 THEN 0
          ELSE LET v == versions[c][i]
               IN net[i - 1] + (IF v.by = NoBundle THEN 1 ELSE 0) - v.reversals + v.restored
    IN net[Len(versions[c])]

\* inbound.service.ts says that reversing a suppressed event "would credit money
\* that was never charged": without corrections by hand, no charge is a credit.
NeverCredited == \A c \in Charge \ byHand : NetOf(c) >= 0
================================================================================
