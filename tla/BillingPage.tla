------------------------------- MODULE BillingPage -------------------------------
(***************************************************************************)
(* What the billing page lists as waiting to be billed.  The page puts it  *)
(* together from three answers that come in separately: the latest ledger  *)
(* rows of the chosen dates, the devices whose reception is not billed,    *)
(* and the ids of the other charges that are.  The reception of a device   *)
(* is billed by stamping the device, so its ledger rows only say what it   *)
(* costs, and a device added outside a receipt has none.                   *)
(*                                                                         *)
(* The answers are replaced at once here, at any moment and in any order;  *)
(* how they come in is the subject of ScreenCache.                         *)
(***************************************************************************)
EXTENDS Naturals, Sequences, FiniteSets

CONSTANTS Device,     \* of the client on screen
          Fee,        \* its charges other than receptions
          Accrual,    \* those among them for storage
          MaxAnswer,  \* the rows of one answer of the ledger
          MaxRows     \* bound: ledger rows of a device's reception

\* The ids of charges are not rows of a reception.
ASSUME BillingAssumption ==
    /\ Fee \cap (Device \X (1..MaxRows)) = {}
    /\ Accrual \subseteq Fee

VARIABLES stock,        \* the devices of the client
          posted,       \* device -> the ledger rows of its reception, in order
          suppressed,   \* ledger rows a bundle covers
          records,      \* the inbound billings, each a set of devices
          fees,         \* the other charges posted
          early,        \* those booked before the dates first chosen
          batches,      \* their billings, each a set of charges
          wide,         \* the chosen dates reach back to everything
          ledgerSeen,   \* the answers the page has: ledger rows of the chosen dates,
          pendingSeen,  \* devices to bill, or not loaded,
          billedSeen,   \* and charges billed
          marking       \* the request on its way

billingVars == <<stock, posted, suppressed, records, fees, early, batches, wide, ledgerSeen,
                 pendingSeen, billedSeen, marking>>

serverVars == <<stock, posted, suppressed, records, fees, early, batches>>
screenVars   == <<wide, ledgerSeen, pendingSeen, billedSeen>>

------------------------------------------------------------------------------
(* The services.                                                           *)

\* A row of a reception; the date it is booked on is among those first chosen, or before.
Ingest(recent) == [type |-> "INGEST", recent |-> recent]
Reversal       == [type |-> "CORRECTION_INGEST", recent |-> TRUE]

\* A row is known by its device and place.
LedgerOf(d, type) == {<<d, i>> : i \in {j \in DOMAIN posted[d] : posted[d][j].type = type}}

\* All amounts of a device are the same: what is owed counts them.
Exceed(charges, d) == Cardinality(charges) > Cardinality(LedgerOf(d, "CORRECTION_INGEST"))

OwedInLedger(d) == Exceed(LedgerOf(d, "INGEST") \ suppressed, d)

DevicesBilled == UNION records

\* computePending: devices without a row are priced from the rate card.
PendingNow ==
    {[of |-> d, inLedger |-> LedgerOf(d, "INGEST") # {}] :
        d \in {e \in stock \ DevicesBilled : LedgerOf(e, "INGEST") = {} \/ OwedInLedger(e)}}

ReceptionRows == {e \in Device \X (1..MaxRows) : e[2] \in DOMAIN posted[e[1]]}

Recent(e) == IF e \in Fee THEN e \notin early ELSE posted[e[1]][e[2]].recent

\* The rows of the chosen dates that no bundle covers.
InWindow == {e \in (fees \cup ReceptionRows) \ suppressed : wide \/ Recent(e)}

\* LedgerController.findMany: as many of them as one answer takes, the latest.
LedgerAnswer(S) ==
    /\ S \subseteq InWindow
    /\ IF Cardinality(InWindow) <= MaxAnswer THEN S = InWindow ELSE Cardinality(S) = MaxAnswer
    /\ \A e \in S, f \in InWindow \ S : Recent(f) => Recent(e)

\* A device is received, under a date of the past perhaps, or added to the inventory.
DeviceArrives(d) ==
    /\ d \notin stock
    /\ stock' = stock \cup {d}
    /\ \E rows \in {<<>>, <<Ingest(TRUE)>>, <<Ingest(FALSE)>>} :
         posted' = [posted EXCEPT ![d] = rows]
    /\ UNCHANGED <<suppressed, records, fees, early, batches, screenVars, marking>>

\* A reception is reversed, and posted again when its date was edited.
DeviceReversed(d) ==
    /\ LedgerOf(d, "INGEST") # {} /\ Exceed(LedgerOf(d, "INGEST"), d)
    /\ \E rows \in {<<Reversal>>, <<Reversal, Ingest(TRUE)>>, <<Reversal, Ingest(FALSE)>>} :
         /\ Len(posted[d]) + Len(rows) <= MaxRows
         /\ posted' = [posted EXCEPT ![d] = @ \o rows]
    /\ UNCHANGED <<stock, suppressed, records, fees, early, batches, screenVars, marking>>

\* A Full Prep order covers the receptions of its device and other charges.
DeviceWaived(d) ==
    /\ \E F \in SUBSET (fees \ Accrual) :
         suppressed' = suppressed \cup LedgerOf(d, "INGEST") \cup F
    /\ suppressed' # suppressed
    /\ UNCHANGED <<stock, posted, records, fees, early, batches, screenVars, marking>>

\* A bundle is corrected: what it covered counts again.
BundleReversed ==
    /\ \E S \in SUBSET suppressed \ {{}} : suppressed' = suppressed \ S
    /\ UNCHANGED <<stock, posted, records, fees, early, batches, screenVars, marking>>

FeePosted ==
    /\ \E f \in Fee \ fees : fees' = fees \cup {f} /\ early' \in {early, early \cup {f}}
    /\ UNCHANGED <<stock, posted, suppressed, records, batches, screenVars, marking>>

------------------------------------------------------------------------------
(* The page.                                                               *)

\* The dates are part of the query: the page has no rows for the new ones yet.
ChooseDates ==
    /\ wide' = ~wide
    /\ ledgerSeen' = {}
    /\ UNCHANGED <<serverVars, pendingSeen, billedSeen, marking>>

LedgerFetched ==
    /\ \E S \in SUBSET InWindow : LedgerAnswer(S) /\ ledgerSeen' = S
    /\ UNCHANGED <<serverVars, wide, pendingSeen, billedSeen, marking>>

PendingFetched ==
    /\ pendingSeen' = [loaded |-> TRUE, devices |-> PendingNow]
    /\ UNCHANGED <<serverVars, wide, ledgerSeen, billedSeen, marking>>

BilledFetched ==
    /\ billedSeen' = UNION batches
    /\ UNCHANGED <<serverVars, wide, ledgerSeen, pendingSeen, marking>>

\* unbilledLedgerAssetIds
UnbilledInLedger == {p.of : p \in {q \in pendingSeen.devices : q.inLedger}}

\* ledgerIngestAssetIds
IngestListed == {e[1] : e \in {r \in ledgerSeen \ Fee : posted[r[1]][r[2]].type = "INGEST"}}

\* Mutant: only devices without ledger rows are listed apart.
PendingInboundRowsPlain == {p.of : p \in {q \in pendingSeen.devices : ~q.inLedger}}

\* pendingInboundRows: devices whose ledger row the page does not have are listed all the same.
PendingInboundRows ==
    {p.of : p \in {q \in pendingSeen.devices : ~q.inLedger \/ q.of \notin IngestListed}}

\* isBilledEntry, of a ledger row
IsBilledEntry(e) ==
    IF e \in Fee THEN e \in billedSeen
                 ELSE pendingSeen.loaded /\ e[1] \notin UnbilledInLedger

\* pendingEntries, storage left out
PendingRows == {e \in ledgerSeen \ Accrual : ~IsBilledEntry(e)}

\* markCategoryBilled, of receptions: everything that is pending, whatever is listed.
MarkInbound ==
    /\ marking = <<>> /\ pendingSeen.devices # {}
    /\ marking' = <<"inbound", {}>>
    /\ UNCHANGED <<serverVars, screenVars>>

\* The others: the rows listed.
MarkFees ==
    /\ marking = <<>> /\ PendingRows \cap Fee # {}
    /\ marking' = <<"fees", PendingRows \cap Fee>>
    /\ UNCHANGED <<serverVars, screenVars>>

\* InboundBillingService.markBilled; it refuses when nothing is pending.
InboundMarked ==
    /\ marking # <<>> /\ marking[1] = "inbound"
    /\ LET found == {p.of : p \in PendingNow}
       IN records' = IF found = {} THEN records ELSE records \cup {found}
    /\ marking' = <<>>
    /\ UNCHANGED <<stock, posted, suppressed, fees, early, batches, screenVars>>

\* ChargeBillingService.markBilled; it refuses when one of the charges is billed.
FeesMarked ==
    /\ marking # <<>> /\ marking[1] = "fees"
    /\ batches' = IF marking[2] \cap UNION batches = {} THEN batches \cup {marking[2]} ELSE batches
    /\ marking' = <<>>
    /\ UNCHANGED <<stock, posted, suppressed, records, fees, early, screenVars>>

UndoBilling ==
    /\ \/ \E r \in records : records' = records \ {r} /\ UNCHANGED batches
       \/ \E b \in batches : batches' = batches \ {b} /\ UNCHANGED records
    /\ UNCHANGED <<stock, posted, suppressed, fees, early, screenVars, marking>>

BillingInit ==
    /\ stock = {} /\ posted = [d \in Device |-> <<>>] /\ suppressed = {} /\ records = {}
    /\ fees = {} /\ early = {} /\ batches = {}
    /\ wide = FALSE /\ ledgerSeen = {} /\ billedSeen = {}
    /\ pendingSeen = [loaded |-> FALSE, devices |-> {}]
    /\ marking = <<>>

BillingNext ==
    \/ \E d \in Device : DeviceArrives(d) \/ DeviceReversed(d) \/ DeviceWaived(d)
    \/ FeePosted \/ BundleReversed
    \/ ChooseDates \/ LedgerFetched \/ PendingFetched \/ BilledFetched
    \/ MarkInbound \/ MarkFees \/ InboundMarked \/ FeesMarked \/ UndoBilling

BillingSpec == BillingInit /\ [][BillingNext]_billingVars

------------------------------------------------------------------------------
\* When the three answers are of one moment, the devices listed as waiting are those the service
\* would bill, whatever dates are chosen and however many rows the ledger has for them; a device
\* whose reception was never reversed is listed once.  Of the other charges the page lists, of the
\* chosen dates and unless the ledger has more rows for them than one answer takes, those that no
\* batch has and no bundle covers.
PendingListed ==
    (/\ LedgerAnswer(ledgerSeen) /\ billedSeen = UNION batches
     /\ pendingSeen = [loaded |-> TRUE, devices |-> PendingNow])
       => /\ PendingInboundRows \cup {e[1] : e \in PendingRows \ Fee} = {p.of : p \in PendingNow}
          /\ Cardinality(InWindow) <= MaxAnswer =>
               PendingRows \cap Fee =
                 {f \in fees \ (Accrual \cup suppressed \cup UNION batches) : wide \/ f \notin early}
          /\ \A d \in Device : LedgerOf(d, "CORRECTION_INGEST") = {} =>
               Cardinality({e \in PendingRows \ Fee : e[1] = d}
                             \cup ({d} \cap PendingInboundRows)) <= 1
================================================================================
