----------------------------- MODULE StorageAccrual -----------------------------
(***************************************************************************)
(* StorageService.runMonthlyAccrual for one client and one calendar month. *)
(* The cron job runs every night and an operator may start it at any time. *)
(* A run reverses what the latest recorded run of the month charged, counts*)
(* the devices in storage, posts fresh charges and records itself.  Every  *)
(* write is a statement of its own, and devices come and go meanwhile.     *)
(* Clients are treated one after the other and an error in one of them is  *)
(* logged; they share nothing, so one stands for all.                      *)
(***************************************************************************)
EXTENDS Backend

CONSTANTS Rate,         \* category -> paise per device and month
          Terms,        \* the commitments a client may agree to
          MaxStored,    \* category -> bound: its devices
          MaxRuns       \* bound: runs recorded in the month

Category == {"laptop", "peripheral"}    \* monitors count as laptops

Kind == Category \cup {"commitment"}    \* the event types of the ledger rows

\* A monthly minimum in paise (0: not set) and the devices it covers.  Only with all
\* three fields set does it count as a commitment.
CommitmentTerms == [amount : Nat, complete : BOOLEAN, covered : [Category -> Nat]]

ASSUME StorageAssumption ==
    /\ Rate \in [Category -> Nat \ {0}]
    /\ Terms \subseteq CommitmentTerms
    /\ MaxStored \in [Category -> Nat]
    /\ MaxRuns \in Nat

VARIABLES terms,        \* what the client has agreed to
          stored,       \* category -> devices in_storage
          known,        \* the categories the client has a device of, in any status
          net,          \* kind -> the sum of its ledger rows of the month
          latest,       \* the amounts of the latest StorageAccrualRun of the month
          runs,         \* how many are recorded
          accruing,     \* handler -> the run in progress
          aborted,      \* runs that ended in an error
          disturbed     \* ghost: a run overlapped another, failed half-way, or
                        \*        found no device to hang a charge on

storageVars == <<terms, stored, known, net, latest, runs, accruing, aborted, disturbed>>

Amounts == [Kind -> Nat]

Nothing == [k \in Kind |-> 0]

AccrualCall == [at     : {"idle", "reverse", "count", "post", "record"},
                old    : Amounts,       \* what the latest run of the month charged
                new    : Amounts,       \* what this one charges
                left   : SUBSET Kind]   \* rows still to be posted

NotRunning == [at |-> "idle", old |-> Nothing, new |-> Nothing, left |-> {}]

HasCommitment == terms.complete

Billable(c) ==
    IF ~ HasCommitment THEN stored[c]
    ELSE IF stored[c] > terms.covered[c] THEN stored[c] - terms.covered[c] ELSE 0

\* No device and no minimum: nothing is charged.
Charges ==
    IF (\A c \in Category : stored[c] = 0) /\ ~ HasCommitment THEN Nothing
    ELSE [k \in Kind |-> IF k = "commitment" THEN terms.amount ELSE Billable(k) * Rate[k]]

Charged(a) == {k \in Kind : a[k] > 0}

\* The order of the statements.
ReverseOrder == [k \in Kind |-> CASE k = "laptop" -> 1 [] k = "peripheral" -> 2
                                  [] k = "commitment" -> 3]

PostOrder == [k \in Kind |-> CASE k = "commitment" -> 1 [] k = "laptop" -> 2
                               [] k = "peripheral" -> 3]

Turn(h, k, order) == /\ k \in accruing[h].left
                     /\ \A j \in accruing[h].left : order[k] <= order[j]

\* The last statement of a phase takes the run to the next one.
Proceed(h, k, at) ==
    LET left == accruing[h].left \ {k}
    IN accruing' = [accruing EXCEPT ![h].left = left,
                                    ![h].at = IF left = {} THEN at ELSE accruing[h].at]

StorageInit ==
    /\ terms \in Terms
    /\ stored = [c \in Category |-> 0]
    /\ known = {}
    /\ net = Nothing
    /\ latest = Nothing
    /\ runs = 0
    /\ accruing = [h \in Handler |-> NotRunning]
    /\ aborted = 0
    /\ disturbed = FALSE

(***************************************************************************)
(* Other services put devices into storage and take them out, and the      *)
(* client's terms are edited.                                              *)
(***************************************************************************)
Arrive(c) ==
    /\ stored[c] < MaxStored[c]
    /\ stored' = [stored EXCEPT ![c] = stored[c] + 1]
    /\ known' = known \cup {c}
    /\ UNCHANGED <<terms, net, latest, runs, accruing, aborted, disturbed>>

Leave(c) ==
    /\ stored[c] > 0
    /\ stored' = [stored EXCEPT ![c] = stored[c] - 1]
    /\ UNCHANGED <<terms, known, net, latest, runs, accruing, aborted, disturbed>>

Agree(t) ==
    /\ t # terms
    /\ terms' = t
    /\ UNCHANGED <<stored, known, net, latest, runs, accruing, aborted, disturbed>>

(***************************************************************************)
(* processClientAccrual                                                    *)
(***************************************************************************)
\* The latest run of the month, if any, is looked up: what it charged is to be reversed.
AccrualStart(h) ==
    /\ accruing[h] = NotRunning
    /\ runs + Cardinality({g \in Handler : accruing[g] # NotRunning}) < MaxRuns
    /\ accruing' = [accruing EXCEPT
         ![h] = [at |-> IF Charged(latest) = {} THEN "count" ELSE "reverse",
                 old |-> latest, new |-> Nothing, left |-> Charged(latest)]]
    /\ disturbed' = (disturbed \/ \E g \in Handler : accruing[g] # NotRunning)
    /\ UNCHANGED <<terms, stored, known, net, latest, runs, aborted>>

\* A row hangs on a device: one of its category, any device for the minimum.
Bearer(k) == IF k = "commitment" THEN known # {} ELSE k \in known

\* Mutant: a reversal is posted with the sign of the charge.
AccrualReverseSign(h, k) ==
    /\ accruing[h].at = "reverse"
    /\ Turn(h, k, ReverseOrder)
    /\ IF Bearer(k)
       THEN net' = [net EXCEPT ![k] = net[k] + accruing[h].old[k]] /\ UNCHANGED disturbed
       ELSE disturbed' = TRUE /\ UNCHANGED net
    /\ Proceed(h, k, "count")
    /\ UNCHANGED <<terms, stored, known, latest, runs, aborted>>

\* One negative row for each amount of the old run; without a device to hang it on
\* the row is left out.
AccrualReverse(h, k) ==
    /\ accruing[h].at = "reverse"
    /\ Turn(h, k, ReverseOrder)
    /\ IF Bearer(k)
       THEN net' = [net EXCEPT ![k] = net[k] - accruing[h].old[k]] /\ UNCHANGED disturbed
       ELSE disturbed' = TRUE /\ UNCHANGED net
    /\ Proceed(h, k, "count")
    /\ UNCHANGED <<terms, stored, known, latest, runs, aborted>>

\* The devices are counted after the reversal.
AccrualCount(h) ==
    /\ accruing[h].at = "count"
    /\ accruing' = [accruing EXCEPT
         ![h].new = Charges, ![h].left = Charged(Charges),
         ![h].at = IF Charged(Charges) = {} THEN "record" ELSE "post"]
    /\ UNCHANGED <<terms, stored, known, net, latest, runs, aborted, disturbed>>

\* The device that bears a new charge must be in storage at this moment; the
\* minimum hangs on any device.
InStock(k) == IF k = "commitment" THEN known # {} ELSE stored[k] > 0

AccrualPost(h, k) ==
    /\ accruing[h].at = "post"
    /\ Turn(h, k, PostOrder)
    /\ IF InStock(k)
       THEN net' = [net EXCEPT ![k] = net[k] + accruing[h].new[k]] /\ UNCHANGED disturbed
       ELSE disturbed' = TRUE /\ UNCHANGED net
    /\ Proceed(h, k, "record")
    /\ UNCHANGED <<terms, stored, known, latest, runs, aborted>>

\* The run is recorded with the amounts it meant to charge.
AccrualRecord(h) ==
    /\ accruing[h].at = "record"
    /\ latest' = accruing[h].new
    /\ runs' = runs + 1
    /\ accruing' = [accruing EXCEPT ![h] = NotRunning]
    /\ UNCHANGED <<terms, stored, known, net, aborted, disturbed>>

\* A run that has posted nothing yet leaves no trace when it fails.
Traceless(h) ==
    IF Charged(accruing[h].old) # {}
    THEN accruing[h].at = "reverse" /\ accruing[h].left = Charged(accruing[h].old)
    ELSE accruing[h].left = Charged(accruing[h].new)

\* The rows posted so far remain and the run is not recorded.
AccrualFail(h) ==
    /\ accruing[h] # NotRunning
    /\ aborted < MaxFailures
    /\ aborted' = aborted + 1
    /\ accruing' = [accruing EXCEPT ![h] = NotRunning]
    /\ disturbed' = (disturbed \/ ~ Traceless(h))
    /\ UNCHANGED <<terms, stored, known, net, latest, runs>>

StorageNext ==
    \/ \E c \in Category : Arrive(c) \/ Leave(c)
    \/ \E t \in Terms : Agree(t)
    \/ \E h \in Handler :
         \/ AccrualStart(h)
         \/ \E k \in Kind : AccrualReverse(h, k) \/ AccrualPost(h, k)
         \/ AccrualCount(h)
         \/ AccrualRecord(h)
         \/ AccrualFail(h)

StorageSpec == StorageInit /\ [][StorageNext]_storageVars

(***************************************************************************)
(* Properties                                                              *)
(***************************************************************************)
StorageTypeOK ==
    /\ terms \in Terms
    /\ stored \in [Category -> Nat]
    /\ known \subseteq Category
    /\ net \in [Kind -> Int]
    /\ latest \in Amounts
    /\ runs \in Nat
    /\ accruing \in [Handler -> AccrualCall]
    /\ aborted \in 0..MaxFailures
    /\ disturbed \in BOOLEAN

Quiet == \A h \in Handler : accruing[h] = NotRunning

\* Between runs the ledger of the month adds up to what the latest run recorded:
\* whatever devices came and went while runs were under way, earlier charges are
\* reversed to the paisa - unless a run overlapped, failed or lost its bearer.
MonthCharged == Quiet /\ ~ disturbed => net = latest
================================================================================
