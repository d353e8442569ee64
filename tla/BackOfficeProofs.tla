----------------------------- MODULE BackOfficeProofs -----------------------------
(***************************************************************************)
(* The services that work on tables of their own, for any number of calls, *)
(* rows, versions and failures: the month is charged (StorageAccrual),     *)
(* every day has a rate (RateCard), an order and its devices are of one    *)
(* user and transport is billed as asked (OrderEdits), and no breach is    *)
(* passed over in silence (SlaNotifier).                                   *)
(***************************************************************************)
EXTENDS StorageAccrual, RateCard, OrderEdits, SlaNotifier, WellFoundedInduction, TLAPS

(***************************************************************************)
(* StorageAccrual                                                          *)
(***************************************************************************)
Running(h) == accruing[h] # NotRunning

Reversing(c) ==
    /\ c.left # {} /\ c.left \subseteq Charged(c.old)
    /\ \A k \in Kind : net[k] = IF k \in c.left THEN c.old[k] ELSE 0

Counting(c) == c.left = {} /\ \A k \in Kind : net[k] = 0

Posting(c) ==
    /\ c.left # {} /\ c.left \subseteq Charged(c.new)
    /\ \A k \in Kind : net[k] = IF k \in c.left THEN 0 ELSE c.new[k]

Recording(c) == c.left = {} /\ \A k \in Kind : net[k] = c.new[k]

\* Where a run stands and what the ledger adds up to there.
Stands(c) ==
    /\ c.old = latest
    /\ \/ c.at = "reverse" /\ Reversing(c)
       \/ c.at = "count" /\ Counting(c)
       \/ c.at = "post" /\ Posting(c)
       \/ c.at = "record" /\ Recording(c)

OneRun ==
    /\ \A g, h \in Handler : Running(g) /\ Running(h) => g = h
    /\ Quiet => \A k \in Kind : net[k] = latest[k]
    /\ \A h \in Handler : Running(h) => Stands(accruing[h])

AccrualIInv == StorageTypeOK /\ (~ disturbed => OneRun)

------------------------------------------------------------------------------
LEMMA NothingIsAmounts == Nothing \in Amounts /\ \A k \in Kind : Nothing[k] = 0
BY DEF Nothing, Amounts

LEMMA Times == ASSUME NEW m \in Nat, NEW n \in Nat PROVE m * n \in Nat
OBVIOUS

LEMMA ChargesAreAmounts == ASSUME StorageTypeOK PROVE Charges \in Amounts
<1>1. terms \in CommitmentTerms
  BY StorageAssumption DEF StorageTypeOK
<1>2. ASSUME NEW c \in Category PROVE Billable(c) * Rate[c] \in Nat
  <2>1. Billable(c) \in Nat
    BY <1>1 DEF StorageTypeOK, CommitmentTerms, Billable
  <2>2. Rate[c] \in Nat
    BY StorageAssumption
  <2> QED
    BY <2>1, <2>2, Times
<1>3. ASSUME NEW k \in Kind PROVE (IF k = "commitment" THEN terms.amount ELSE Billable(k) * Rate[k]) \in Nat
  BY <1>1, <1>2 DEF Kind, CommitmentTerms
<1> QED
  BY <1>3, NothingIsAmounts DEF Charges, Amounts

\* What a step of a run leaves of it.
LEMMA RunAdvanced ==
    ASSUME StorageTypeOK, NEW h \in Handler, NEW k, NEW at \in {"count", "record"}, Proceed(h, k, at)
    PROVE  LET left == accruing[h].left \ {k}
               c    == accruing'[h]
           IN /\ c \in AccrualCall
              /\ c.left = left /\ c.old = accruing[h].old /\ c.new = accruing[h].new
              /\ c.at = IF left = {} THEN at ELSE accruing[h].at
              /\ accruing' \in [Handler -> AccrualCall]
              /\ \A g \in Handler : g # h => accruing'[g] = accruing[g]
BY DEF StorageTypeOK, AccrualCall, Proceed

LEMMA AccrualStartsRight == StorageInit => AccrualIInv
<1> SUFFICES ASSUME StorageInit PROVE AccrualIInv
  OBVIOUS
<1>1. NotRunning \in AccrualCall
  BY NothingIsAmounts DEF NotRunning, AccrualCall
<1>2. StorageTypeOK
  <2>1. net \in [Kind -> Int] /\ latest \in Amounts
    BY NothingIsAmounts DEF StorageInit, Nothing, Amounts
  <2>2. stored \in [Category -> Nat] /\ known \subseteq Category /\ runs \in Nat
    BY DEF StorageInit
  <2>3. accruing \in [Handler -> AccrualCall]
    BY <1>1 DEF StorageInit
  <2>4. aborted \in 0..MaxFailures
    BY BackendAssumption DEF StorageInit
  <2> QED
    BY <2>1, <2>2, <2>3, <2>4 DEF StorageInit, StorageTypeOK
<1>3. OneRun
  BY DEF StorageInit, OneRun, Running
<1> QED
  BY <1>2, <1>3 DEF AccrualIInv

LEMMA AccrualTypePreserved ==
    ASSUME StorageTypeOK, [StorageNext]_storageVars
    PROVE  StorageTypeOK'
<1> USE DEF StorageTypeOK
<1>n. NotRunning \in AccrualCall
  BY NothingIsAmounts DEF NotRunning, AccrualCall
<1>1. CASE UNCHANGED storageVars
  BY <1>1 DEF storageVars
<1>2. ASSUME NEW c \in Category, Arrive(c) \/ Leave(c) PROVE StorageTypeOK'
  BY <1>2 DEF Arrive, Leave
<1>3. ASSUME NEW t \in Terms, Agree(t) PROVE StorageTypeOK'
  BY <1>3 DEF Agree
<1>4. ASSUME NEW h \in Handler, AccrualStart(h) PROVE StorageTypeOK'
  <2> DEFINE c == [at |-> IF Charged(latest) = {} THEN "count" ELSE "reverse",
                   old |-> latest, new |-> Nothing, left |-> Charged(latest)]
  <2>1. c \in AccrualCall
    BY NothingIsAmounts DEF AccrualCall, Charged
  <2>2. accruing' = [accruing EXCEPT ![h] = c]
    BY <1>4 DEF AccrualStart
  <2>3. accruing' \in [Handler -> AccrualCall]
    BY <2>1, <2>2
  <2>4. disturbed' \in BOOLEAN
    BY <1>4 DEF AccrualStart
  <2> QED
    BY <1>4, <2>3, <2>4 DEF AccrualStart
<1>5. ASSUME NEW h \in Handler, NEW k \in Kind, AccrualReverse(h, k) PROVE StorageTypeOK'
  <2>1. accruing' \in [Handler -> AccrualCall]
    BY <1>5, RunAdvanced DEF AccrualReverse
  <2>2. net[k] \in Int /\ accruing[h].old[k] \in Int
    BY DEF AccrualCall, Amounts
  <2>3. net' \in [Kind -> Int]
    <3>1. net[k] - accruing[h].old[k] \in Int
      BY <2>2
    <3>2. net' = net \/ net' = [net EXCEPT ![k] = net[k] - accruing[h].old[k]]
      BY <1>5 DEF AccrualReverse
    <3> QED
      BY <3>1, <3>2
  <2>4. disturbed' \in BOOLEAN
    BY <1>5 DEF AccrualReverse
  <2> QED
    BY <1>5, <2>1, <2>3, <2>4 DEF AccrualReverse
<1>6. ASSUME NEW h \in Handler, NEW k \in Kind, AccrualPost(h, k) PROVE StorageTypeOK'
  <2>1. accruing' \in [Handler -> AccrualCall]
    BY <1>6, RunAdvanced DEF AccrualPost
  <2>2. net[k] \in Int /\ accruing[h].new[k] \in Int
    BY DEF AccrualCall, Amounts
  <2>3. net' \in [Kind -> Int]
    <3>1. net[k] + accruing[h].new[k] \in Int
      BY <2>2
    <3>2. net' = net \/ net' = [net EXCEPT ![k] = net[k] + accruing[h].new[k]]
      BY <1>6 DEF AccrualPost
    <3> QED
      BY <3>1, <3>2
  <2>4. disturbed' \in BOOLEAN
    BY <1>6 DEF AccrualPost
  <2> QED
    BY <1>6, <2>1, <2>3, <2>4 DEF AccrualPost
<1>7. ASSUME NEW h \in Handler, AccrualCount(h) PROVE StorageTypeOK'
  <2> DEFINE at == IF Charged(Charges) = {} THEN "record" ELSE "post"
  <2>1. Charges \in Amounts /\ Charged(Charges) \subseteq Kind /\ at \in {"record", "post"}
    BY ChargesAreAmounts DEF Charged
  <2> DEFINE left == Charged(Charges)
             new == Charges
             c == [accruing[h] EXCEPT !.new = new, !.left = left, !.at = at]
  <2>3. accruing' = [accruing EXCEPT ![h] = c]
    BY <1>7 DEF AccrualCount
  <2>4. new \in Amounts /\ left \subseteq Kind
    BY <2>1
  <2> HIDE DEF left, new, at
  <2>5. c \in AccrualCall
    BY <2>1, <2>4 DEF AccrualCall
  <2> HIDE DEF c
  <2>2. accruing' \in [Handler -> AccrualCall]
    BY <2>3, <2>5
  <2> QED
    BY <1>7, <2>2 DEF AccrualCount
<1>8. ASSUME NEW h \in Handler, AccrualRecord(h) PROVE StorageTypeOK'
  <2>1. accruing[h].new \in Amounts
    BY DEF AccrualCall
  <2> QED
    BY <1>8, <1>n, <2>1 DEF AccrualRecord
<1>9. ASSUME NEW h \in Handler, AccrualFail(h) PROVE StorageTypeOK'
  <2>1. disturbed' \in BOOLEAN
    BY <1>9 DEF AccrualFail
  <2> QED
    BY <1>9, <1>n, <2>1, BackendAssumption DEF AccrualFail
<1> QED
  BY <1>1, <1>2, <1>3, <1>4, <1>5, <1>6, <1>7, <1>8, <1>9 DEF StorageNext

------------------------------------------------------------------------------
\* The one run goes on to c; the others sleep.
LEMMA RunGoesOn ==
    ASSUME OneRun, NEW h \in Handler, Running(h),
           \A g \in Handler : g # h => accruing'[g] = accruing[g],
           Stands(accruing[h])', accruing'[h].at # "idle"
    PROVE  OneRun'
<1>1. \A g \in Handler : g # h => ~ Running(g) /\ ~ Running(g)'
  BY DEF OneRun, Running
<1>2. Running(h)'
  BY DEF Running, NotRunning
<1> QED
  BY <1>1, <1>2 DEF OneRun, Quiet, Running

\* The one run ends, and the ledger adds up to what is recorded by now.
LEMMA RunEnds ==
    ASSUME StorageTypeOK, OneRun, NEW h \in Handler, Running(h),
           accruing' = [accruing EXCEPT ![h] = NotRunning],
           \A k \in Kind : net'[k] = latest'[k]
    PROVE  OneRun'
<1>1. \A g \in Handler : ~ Running(g)'
  BY DEF OneRun, Running, StorageTypeOK
<1> QED
  BY <1>1 DEF OneRun

LEMMA OneRunKept ==
    ASSUME AccrualIInv, [StorageNext]_storageVars, ~ disturbed'
    PROVE  OneRun'
<1>t. StorageTypeOK
  BY DEF AccrualIInv
<1>d. ASSUME disturbed' = disturbed PROVE OneRun
  BY <1>d DEF AccrualIInv
<1>k. /\ \A k \in Kind : net[k] \in Int /\ latest[k] \in Nat
      /\ \A h \in Handler, k \in Kind : accruing[h].old[k] \in Nat /\ accruing[h].new[k] \in Nat
  BY <1>t DEF StorageTypeOK, AccrualCall, Amounts
<1>1. CASE UNCHANGED storageVars
  BY <1>1, <1>d DEF storageVars, OneRun, Running, Quiet, Stands, Reversing, Counting, Posting,
                    Recording
<1>2. ASSUME UNCHANGED <<net, latest, accruing, disturbed>> PROVE OneRun'
  BY <1>2, <1>d DEF OneRun, Running, Quiet, Stands, Reversing, Counting, Posting, Recording
<1>3. ASSUME NEW c \in Category, Arrive(c) \/ Leave(c) PROVE OneRun'
  BY <1>2, <1>3 DEF Arrive, Leave
<1>4. ASSUME NEW t \in Terms, Agree(t) PROVE OneRun'
  BY <1>2, <1>4 DEF Agree
<1>5. ASSUME NEW h \in Handler, AccrualStart(h) PROVE OneRun'
  <2>1. OneRun /\ \A g \in Handler : ~ Running(g)
    BY <1>5, <1>t DEF AccrualStart, AccrualIInv, Running, StorageTypeOK
  <2>2. \A k \in Kind : net[k] = latest[k]
    BY <2>1 DEF OneRun, Quiet, Running
  <2> DEFINE c == [at |-> IF Charged(latest) = {} THEN "count" ELSE "reverse",
                   old |-> latest, new |-> Nothing, left |-> Charged(latest)]
  <2>3. accruing'[h] = c /\ \A g \in Handler : g # h => accruing'[g] = accruing[g]
    BY <1>5, <1>t DEF AccrualStart, StorageTypeOK
  <2>4. UNCHANGED <<net, latest>>
    BY <1>5 DEF AccrualStart
  <2>5. \A k \in Kind : k \notin Charged(latest) => latest[k] = 0
    BY <1>k DEF Charged
  <2>6. Stands(accruing[h])'
    <3>1. CASE Charged(latest) = {}
      BY <2>2, <2>3, <2>4, <2>5, <3>1 DEF Stands, Counting
    <3>2. CASE Charged(latest) # {}
      BY <2>2, <2>3, <2>4, <2>5, <3>2 DEF Stands, Reversing, Charged
    <3> QED
      BY <3>1, <3>2
  <2>7. Running(h)'
    BY <2>3 DEF Running, NotRunning
  <2>8. \A g \in Handler : g # h => ~ Running(g)'
    BY <2>1, <2>3 DEF Running
  <2> QED
    BY <2>6, <2>7, <2>8 DEF OneRun, Quiet, Running
<1>6. ASSUME NEW h \in Handler, NEW k \in Kind, AccrualReverse(h, k) PROVE OneRun'
  <2>1. Running(h) /\ accruing[h].at = "reverse" /\ k \in accruing[h].left
    BY <1>6 DEF AccrualReverse, Turn, Running, NotRunning
  <2>2. /\ net' = [net EXCEPT ![k] = net[k] - accruing[h].old[k]]
        /\ UNCHANGED <<latest, disturbed>>
    BY <1>6, <1>t DEF AccrualReverse, StorageTypeOK
  <2>3. OneRun /\ accruing[h].old = latest /\ Reversing(accruing[h])
    BY <1>d, <2>1, <2>2 DEF OneRun, Stands
  <2>4. /\ accruing'[h].left = accruing[h].left \ {k}
        /\ accruing'[h].old = latest'
        /\ accruing'[h].at = IF accruing[h].left \ {k} = {} THEN "count" ELSE "reverse"
        /\ \A g \in Handler : g # h => accruing'[g] = accruing[g]
    BY <1>6, <1>t, <2>1, <2>2, <2>3, RunAdvanced DEF AccrualReverse
  <2>5. \A j \in Kind : net'[j] = IF j \in accruing'[h].left THEN latest[j] ELSE 0
    BY <1>k, <1>t, <2>1, <2>2, <2>3, <2>4 DEF Reversing, StorageTypeOK
  <2>6. Stands(accruing[h])'
    <3>1. CASE accruing[h].left \ {k} = {}
      BY <2>4, <2>5, <3>1 DEF Stands, Counting
    <3>2. CASE accruing[h].left \ {k} # {}
      BY <2>2, <2>3, <2>4, <2>5, <3>2 DEF Stands, Reversing, Charged
    <3> QED
      BY <3>1, <3>2
  <2> QED
    BY <2>1, <2>3, <2>4, <2>6, RunGoesOn
<1>7. ASSUME NEW h \in Handler, NEW k \in Kind, AccrualPost(h, k) PROVE OneRun'
  <2>1. Running(h) /\ accruing[h].at = "post" /\ k \in accruing[h].left
    BY <1>7 DEF AccrualPost, Turn, Running, NotRunning
  <2>2. /\ net' = [net EXCEPT ![k] = net[k] + accruing[h].new[k]]
        /\ UNCHANGED <<latest, disturbed>>
    BY <1>7, <1>t DEF AccrualPost, StorageTypeOK
  <2>3. OneRun /\ accruing[h].old = latest /\ Posting(accruing[h])
    BY <1>d, <2>1, <2>2 DEF OneRun, Stands
  <2>4. /\ accruing'[h].left = accruing[h].left \ {k}
        /\ accruing'[h].old = latest' /\ accruing'[h].new = accruing[h].new
        /\ accruing'[h].at = IF accruing[h].left \ {k} = {} THEN "record" ELSE "post"
        /\ \A g \in Handler : g # h => accruing'[g] = accruing[g]
    BY <1>7, <1>t, <2>1, <2>2, <2>3, RunAdvanced DEF AccrualPost
  <2>5. \A j \in Kind : net'[j] = IF j \in accruing'[h].left THEN 0 ELSE accruing'[h].new[j]
    BY <1>k, <1>t, <2>1, <2>2, <2>3, <2>4 DEF Posting, StorageTypeOK
  <2>6. Stands(accruing[h])'
    <3>1. CASE accruing[h].left \ {k} = {}
      BY <2>4, <2>5, <3>1 DEF Stands, Recording
    <3>2. CASE accruing[h].left \ {k} # {}
      BY <2>3, <2>4, <2>5, <3>2 DEF Stands, Posting, Charged
    <3> QED
      BY <3>1, <3>2
  <2> QED
    BY <2>1, <2>3, <2>4, <2>6, RunGoesOn
<1>8. ASSUME NEW h \in Handler, AccrualCount(h) PROVE OneRun'
  <2>1. Running(h) /\ accruing[h].at = "count"
    BY <1>8 DEF AccrualCount, Running, NotRunning
  <2>2. UNCHANGED <<net, latest, disturbed>>
    BY <1>8 DEF AccrualCount
  <2>3. OneRun /\ accruing[h].old = latest /\ Counting(accruing[h])
    BY <1>d, <2>1, <2>2 DEF OneRun, Stands
  <2>4. /\ accruing'[h].left = Charged(Charges) /\ accruing'[h].new = Charges
        /\ accruing'[h].old = latest'
        /\ accruing'[h].at = IF Charged(Charges) = {} THEN "record" ELSE "post"
        /\ \A g \in Handler : g # h => accruing'[g] = accruing[g]
    BY <1>8, <1>t, <2>2, <2>3 DEF AccrualCount, StorageTypeOK, AccrualCall
  <2>5. \A j \in Kind : j \notin Charged(Charges) => Charges[j] = 0
    BY <1>t, ChargesAreAmounts DEF Charged, Amounts
  <2>6. Stands(accruing[h])'
    <3>1. CASE Charged(Charges) = {}
      BY <2>2, <2>3, <2>4, <2>5, <3>1 DEF Stands, Recording, Counting
    <3>2. CASE Charged(Charges) # {}
      <4>1. /\ accruing'[h].at = "post"
            /\ accruing'[h].left # {} /\ accruing'[h].left = Charged(accruing'[h].new)
        BY <2>4, <3>2
      <4>2. \A j \in Kind : net'[j] = IF j \in accruing'[h].left THEN 0 ELSE accruing'[h].new[j]
        BY <2>2, <2>3, <2>4, <2>5 DEF Counting
      <4> QED
        BY <2>4, <4>1, <4>2 DEF Stands, Posting, Charged
    <3> QED
      BY <3>1, <3>2
  <2> QED
    BY <2>1, <2>3, <2>4, <2>6, RunGoesOn
<1>9. ASSUME NEW h \in Handler, AccrualRecord(h) PROVE OneRun'
  <2>1. Running(h) /\ accruing[h].at = "record"
    BY <1>9 DEF AccrualRecord, Running, NotRunning
  <2>2. UNCHANGED <<net, disturbed>> /\ latest' = accruing[h].new
    BY <1>9 DEF AccrualRecord
  <2>3. OneRun /\ Recording(accruing[h])
    BY <1>d, <2>1, <2>2 DEF OneRun, Stands
  <2>4. \A k \in Kind : net'[k] = latest'[k]
    BY <2>2, <2>3 DEF Recording
  <2> QED
    BY <1>9, <1>t, <2>1, <2>3, <2>4, RunEnds DEF AccrualRecord
<1>10. ASSUME NEW h \in Handler, AccrualFail(h) PROVE OneRun'
  <2>1. Running(h) /\ UNCHANGED <<net, latest>>
    BY <1>10 DEF AccrualFail, Running
  <2>2. OneRun /\ Traceless(h)
    BY <1>10, <1>t DEF AccrualFail, AccrualIInv, StorageTypeOK
  <2>3. Stands(accruing[h])
    BY <2>1, <2>2 DEF OneRun
  <2>4. \A k \in Kind : k \notin Charged(accruing[h].old) => latest[k] = 0
    BY <1>k, <2>3 DEF Stands, Charged
  <2>5. \A k \in Kind : k \notin Charged(accruing[h].new) => accruing[h].new[k] = 0
    BY <1>k DEF Charged
  <2>6. \A k \in Kind : net[k] = latest[k]
    <3>1. CASE Charged(accruing[h].old) # {}
      BY <2>2, <2>3, <2>4, <3>1 DEF Traceless, Stands, Reversing
    <3>2. CASE Charged(accruing[h].old) = {}
      <4>1. accruing[h].left = Charged(accruing[h].new)
        BY <2>2, <3>2 DEF Traceless
      <4>2. \A k \in Kind : latest[k] = 0
        BY <2>4, <3>2
      <4>3. \A k \in Kind : net[k] = 0
        BY <2>3, <2>5, <3>2, <4>1 DEF Stands, Reversing, Counting, Posting, Recording
      <4> QED
        BY <4>2, <4>3
    <3> QED
      BY <3>1, <3>2
  <2>7. \A k \in Kind : net'[k] = latest'[k]
    BY <2>1, <2>6
  <2> QED
    BY <1>10, <1>t, <2>1, <2>2, <2>7, RunEnds DEF AccrualFail
<1> QED
  BY <1>1, <1>3, <1>4, <1>5, <1>6, <1>7, <1>8, <1>9, <1>10 DEF StorageNext

------------------------------------------------------------------------------
\* The invariant the theorem below rests on.
THEOREM AccrualInvariant == StorageSpec => []AccrualIInv
<1>1. AccrualIInv /\ [StorageNext]_storageVars => AccrualIInv'
  BY AccrualTypePreserved, OneRunKept DEF AccrualIInv
<1> QED
  BY AccrualStartsRight, <1>1, PTL DEF StorageSpec

\* Run after run, earlier charges of the month are reversed to the paisa, whatever devices come
\* and go and whatever terms the client agrees to meanwhile.
THEOREM MonthAlwaysCharged == StorageSpec => []MonthCharged
<1>1. ASSUME AccrualIInv PROVE MonthCharged
  <2> SUFFICES ASSUME Quiet, ~ disturbed PROVE net = latest
    BY DEF MonthCharged
  <2>1. \A k \in Kind : net[k] = latest[k]
    BY <1>1 DEF AccrualIInv, OneRun
  <2>2. net \in [Kind -> Int] /\ latest \in [Kind -> Nat]
    BY <1>1 DEF AccrualIInv, StorageTypeOK, Amounts
  <2> QED
    BY <2>1, <2>2
<1> QED
  BY AccrualInvariant, <1>1, PTL

(***************************************************************************)
(* RateCard                                                                *)
(***************************************************************************)
\* A day has a version in force, or a create is on the way that will insert one.
Provided(d) == \/ \E v \in Version : Covers(v, d)
               \/ \E h \in Handler : creating[h].at = "insert" /\ creating[h].from <= d

RateIInv == RateTypeOK /\ (lost = 0 => \A d \in Day : Provided(d))

\* A set of days that is not empty has a last one.
LEMMA LastOfDays ==
    ASSUME NEW S \in SUBSET Day, S # {}
    PROVE  \E m \in S : \A n \in S : n <= m
<1>1. FirstDay \in Nat /\ LastDay \in Nat
  BY RateCardAssumption
<1> DEFINE T == {LastDay - n : n \in S}
<1>2. T \subseteq Nat /\ T # {}
  <2>1. ASSUME NEW n \in S PROVE LastDay - n \in Nat
    <3>1. n \in Nat /\ n <= LastDay
      BY <1>1 DEF Day
    <3> QED
      BY <1>1, <3>1
  <2> QED
    BY <2>1
<1>3. PICK x \in T : \A y \in T : ~ (<<y, x>> \in OpToRel(<, Nat))
  BY <1>2, NatLessThanWellFounded, WFMin, Zenon
<1>4. \A y \in T : ~ (y < x)
  BY <1>2, <1>3 DEF OpToRel
<1>5. PICK m \in S : x = LastDay - m
  OBVIOUS
<1>6. ASSUME NEW n \in S PROVE n <= m
  <2>1. n \in Nat /\ m \in Nat
    BY <1>1 DEF Day
  <2>2. LastDay - n \in T
    OBVIOUS
  <2>3. ~ (LastDay - n < LastDay - m)
    BY <1>4, <1>5, <2>2
  <2> QED
    BY <1>1, <2>1, <2>3
<1> QED
  BY <1>6

\* Of the versions in force on a day one begins last.
LEMMA SomeEffective ==
    ASSUME RateTypeOK, NEW d \in Day, NEW v \in Version, Covers(v, d)
    PROVE  EffectiveAt(d) # {}
<1> DEFINE S == {card[w].from : w \in {x \in Version : Covers(x, d)}}
<1>1. S \subseteq Day /\ S # {}
  BY DEF RateTypeOK, Row
<1>2. PICK m \in S : \A n \in S : n <= m
  BY <1>1, LastOfDays
<1>3. PICK w \in Version : Covers(w, d) /\ card[w].from = m
  OBVIOUS
<1>4. w \in EffectiveAt(d)
  BY <1>2, <1>3 DEF EffectiveAt
<1> QED
  BY <1>4

LEMMA RateStartsRight == RateInit => RateIInv
<1> SUFFICES ASSUME RateInit PROVE RateIInv
  OBVIOUS
<1> USE RateCardAssumption
<1>1. OpenFrom(FirstDay) \in Row /\ Absent \in Row /\ NotCreating \in CreateCall
  BY DEF OpenFrom, Absent, NotCreating, Row, CreateCall, Day, Open
<1>2. RateTypeOK
  BY <1>1, BackendAssumption DEF RateInit, RateTypeOK
<1>3. \A d \in Day : Covers(Seeded, d)
  BY DEF RateInit, Covers, OpenFrom, Day, Open
<1> QED
  BY <1>2, <1>3 DEF RateIInv, Provided

LEMMA RateTypePreserved ==
    ASSUME RateTypeOK, [RateNext]_rateVars
    PROVE  RateTypeOK'
<1> USE RateCardAssumption, BackendAssumption DEF RateTypeOK
<1>n. NotCreating \in CreateCall
  BY DEF NotCreating, CreateCall, Day
<1>1. CASE UNCHANGED rateVars
  BY <1>1 DEF rateVars
<1>2. ASSUME NEW h \in Handler, NEW d \in Day, RateFind(h, d) PROVE RateTypeOK'
  <2>1. PICK c \in CreateCall : creating' = [creating EXCEPT ![h] = c]
    <3>1. CASE OpenVersions = {}
      BY <1>2, <3>1 DEF RateFind, CreateCall
    <3>2. CASE OpenVersions # {}
      <4>1. PICK v \in OpenVersions :
              creating' = [creating EXCEPT ![h] = [at |-> "close", from |-> d, previous |-> v]]
        BY <1>2, <3>2 DEF RateFind
      <4>2. [at |-> "close", from |-> d, previous |-> v] \in CreateCall
        BY DEF OpenVersions, CreateCall
      <4> QED
        BY <4>1, <4>2
    <3> QED
      BY <3>1, <3>2
  <2> QED
    BY <1>2, <2>1 DEF RateFind
<1>3. ASSUME NEW h \in Handler, RateClose(h) PROVE RateTypeOK'
  <2>1. creating[h].from \in Day /\ [creating[h] EXCEPT !.at = "insert"] \in CreateCall
    BY DEF CreateCall
  <2>2. creating' \in [Handler -> CreateCall]
    BY <1>3, <2>1 DEF RateClose
  <2>3. \A v \in Version : [card[v] EXCEPT !.to = creating[h].from] \in Row
    BY <2>1 DEF Row
  <2>4. card' \in [Version -> Row]
    BY <1>3, <2>3 DEF RateClose
  <2> QED
    BY <1>3, <2>2, <2>4 DEF RateClose
<1>4. ASSUME NEW h \in Handler, RateInsert(h) PROVE RateTypeOK'
  <2>1. OpenFrom(creating[h].from) \in Row
    BY DEF OpenFrom, CreateCall, Row
  <2> QED
    BY <1>4, <1>n, <2>1 DEF RateInsert
<1>5. ASSUME NEW h \in Handler, RateFail(h) PROVE RateTypeOK'
  BY <1>5, <1>n DEF RateFail
<1> QED
  BY <1>1, <1>2, <1>3, <1>4, <1>5 DEF RateNext

LEMMA AllProvided ==
    ASSUME RateIInv, [RateNext]_rateVars, lost' = 0, NEW d \in Day
    PROVE  Provided(d)'
<1>t. RateTypeOK
  BY DEF RateIInv
<1>n. FirstDay \in Nat /\ LastDay \in Nat /\ d \in Nat /\ d <= LastDay
  BY RateCardAssumption DEF Day
<1>p. ASSUME lost' = lost PROVE Provided(d)
  BY <1>p DEF RateIInv
<1>i. NotCreating.at # "insert"
  BY DEF NotCreating
<1>1. CASE UNCHANGED rateVars
  BY <1>1, <1>p DEF rateVars, Provided, Covers
<1>2. ASSUME NEW h \in Handler, NEW e \in Day, RateFind(h, e) PROVE Provided(d)'
  <2>1. UNCHANGED <<card, lost>> /\ creating[h] = NotCreating
    BY <1>2 DEF RateFind
  <2>2. \A g \in Handler : g # h => creating'[g] = creating[g]
    BY <1>2, <1>t DEF RateFind, RateTypeOK
  <2> QED
    BY <1>p, <1>i, <2>1, <2>2 DEF Provided, Covers
<1>3. ASSUME NEW h \in Handler, RateClose(h) PROVE Provided(d)'
  <2> DEFINE p == creating[h].previous
             from == creating[h].from
  <2>1. UNCHANGED lost /\ from \in Nat
    BY <1>3, <1>t, <1>n DEF RateClose, RateTypeOK, CreateCall, Day
  <2>2. creating'[h].at = "insert" /\ creating'[h].from = from
    BY <1>3, <1>t DEF RateClose, RateTypeOK, CreateCall
  <2>3. \A g \in Handler : g # h => creating'[g] = creating[g]
    BY <1>3, <1>t DEF RateClose, RateTypeOK
  <2>4. \A v \in Version : v # p => card'[v] = card[v]
    BY <1>3, <1>t DEF RateClose, RateTypeOK
  <2>5. p \in Version => /\ card'[p].stored = card[p].stored
                         /\ card'[p].from = card[p].from
                         /\ card'[p].to = from
    BY <1>3, <1>t DEF RateClose, RateTypeOK, Row
  <2>6. CASE from <= d
    BY <2>2, <2>6 DEF Provided
  <2>7. CASE d < from
    <3>1. \A v \in Version : Covers(v, d) => Covers(v, d)'
      BY <2>4, <2>5, <2>7 DEF Covers
    <3>2. \A g \in Handler : creating[g].at = "insert" => g # h
      BY <1>3 DEF RateClose
    <3> QED
      BY <1>p, <2>1, <2>3, <3>1, <3>2 DEF Provided
  <2> QED
    BY <1>n, <2>1, <2>6, <2>7
<1>4. ASSUME NEW h \in Handler, RateInsert(h) PROVE Provided(d)'
  <2> DEFINE from == creating[h].from
  <2>1. PICK v \in Version : card[v] = Absent /\ card' = [card EXCEPT ![v] = OpenFrom(from)]
    BY <1>4 DEF RateInsert
  <2>2. UNCHANGED lost /\ from \in Nat
    BY <1>4, <1>t, <1>n DEF RateInsert, RateTypeOK, CreateCall, Day
  <2>3. card'[v] = OpenFrom(from)
    BY <1>t, <2>1 DEF RateTypeOK
  <2>4. CASE from <= d
    <3>1. Covers(v, d)'
      BY <1>n, <2>3, <2>4 DEF Covers, OpenFrom, Open
    <3> QED
      BY <3>1 DEF Provided
  <2>5. CASE d < from
    <3>1. \A w \in Version : Covers(w, d) => Covers(w, d)'
      BY <1>t, <2>1 DEF Covers, Absent, RateTypeOK
    <3>2. \A g \in Handler : g # h => creating'[g] = creating[g]
      BY <1>4, <1>t DEF RateInsert, RateTypeOK
    <3>3. \A g \in Handler : creating[g].at = "insert" /\ creating[g].from <= d => g # h
      BY <1>n, <2>2, <2>5
    <3> QED
      BY <1>p, <2>2, <3>1, <3>2, <3>3 DEF Provided
  <2> QED
    BY <1>n, <2>2, <2>4, <2>5
<1>5. ASSUME NEW h \in Handler, RateFail(h) PROVE Provided(d)'
  <2>1. lost' = lost + 1 /\ lost \in Nat
    BY <1>5, <1>t, BackendAssumption DEF RateFail, RateTypeOK
  <2> QED
    BY <2>1
<1> QED
  BY <1>1, <1>2, <1>3, <1>4, <1>5 DEF RateNext

\* The invariant the theorem below rests on.
THEOREM RateInvariant == RateSpec => []RateIInv
<1>1. ASSUME RateIInv, [RateNext]_rateVars PROVE RateIInv'
  <2>1. RateTypeOK'
    BY <1>1, RateTypePreserved DEF RateIInv
  <2>2. ASSUME lost' = 0 PROVE \A d \in Day : Provided(d)'
    BY <1>1, <2>2, AllProvided
  <2>3. Day' = Day
    BY DEF Day
  <2> QED
    BY <2>1, <2>2, <2>3 DEF RateIInv
<1> QED
  BY RateStartsRight, <1>1, PTL DEF RateSpec

\* No day is left without a rate, however creates overlap: a service that looks one up between
\* them does not charge nothing.
THEOREM NoDayWithoutRate == RateSpec => []AlwaysARate
<1>1. ASSUME RateIInv PROVE AlwaysARate
  <2> SUFFICES ASSUME NoneCreating, lost = 0, NEW d \in Day PROVE EffectiveAt(d) # {}
    BY DEF AlwaysARate
  <2>1. PICK v \in Version : Covers(v, d)
    BY <1>1 DEF RateIInv, Provided, NoneCreating, NotCreating
  <2> QED
    BY <1>1, <2>1, SomeEffective DEF RateIInv
<1> QED
  BY RateInvariant, <1>1, PTL

(***************************************************************************)
(* OrderEdits                                                              *)
(***************************************************************************)
\* Nobody has edited the order since h read it.
UpToDate(h) == /\ changing[h].billed = billed
               /\ changing[h].at = "write" => changing[h].user = order.user

\* The one edit in flight still knows the order as it is.
OneEditor == /\ \A g, h \in Handler : Editing(g) /\ Editing(h) => g = h
             /\ \A h \in Handler : Editing(h) => UpToDate(h)

OrderIInv == /\ OrderTypeOK
             /\ BilledAsAsked
             /\ DevicesFollowOrder
             /\ ~ mixed => OneEditor

LEMMA FreeIsACall == ASSUME OrderTypeOK PROVE Free \in EditRecord
BY DEF OrderTypeOK, EditRecord, Free, OrderStatus

LEMMA OrderStartsRight == OrderInit => OrderIInv
<1> SUFFICES ASSUME OrderInit PROVE OrderIInv
  OBVIOUS
<1>1. OrderTypeOK
  <2>1. PICK u \in User, n \in Amount :
             /\ order = [status |-> "pending", user |-> u]
             /\ holder = [a \in Shipped |-> u]
             /\ billed = n
             /\ asked = n
    BY DEF OrderInit
  <2>2. n \in Int /\ Free \in EditRecord
    BY OrderEditsAssumption DEF EditRecord, Free, OrderStatus
  <2>3. changing \in [Handler -> EditRecord]
    BY <2>2 DEF OrderInit
  <2>4. order \in [status : OrderStatus, user : User] /\ holder \in [Shipped -> User]
    BY <2>1 DEF OrderStatus
  <2>5. billed \in Int /\ asked \in Amount
    BY <2>1, <2>2
  <2>6. edits \in 0..MaxEdits /\ wasted \in 0..MaxFailures
    BY OrderEditsAssumption, BackendAssumption DEF OrderInit
  <2> QED
    BY <2>3, <2>4, <2>5, <2>6 DEF OrderInit, OrderTypeOK
<1>2. \A h \in Handler : ~ Editing(h)
  BY DEF OrderInit, Editing, Free
<1>3. BilledAsAsked /\ DevicesFollowOrder
  BY DEF OrderInit, BilledAsAsked, DevicesFollowOrder
<1> QED
  BY <1>1, <1>2, <1>3 DEF OrderIInv, OneEditor

LEMMA OrderTypePreserved ==
    ASSUME OrderTypeOK, [OrderNext]_orderVars
    PROVE  OrderTypeOK'
<1> USE OrderEditsAssumption, BackendAssumption, FreeIsACall DEF OrderTypeOK
<1>1. CASE UNCHANGED orderVars
  BY <1>1 DEF orderVars
<1>2. ASSUME NEW a \in Shipped, ComeBack(a) PROVE OrderTypeOK'
  BY <1>2 DEF ComeBack
<1>3. ASSUME NEW h \in Handler, NEW users \in AtMostOne(User), NEW amount \in AtMostOne(Amount),
             EditOrder(h, users, amount)
      PROVE  OrderTypeOK'
  <2>1. users \in SUBSET User /\ amount \in SUBSET Amount
    BY DEF AtMostOne
  <2> DEFINE call == [Free EXCEPT !.at = IF users = {} THEN "post" ELSE "write",
                      !.status = order.status, !.user = order.user,
                      !.billed = billed, !.toUser = users, !.amount = amount]
  <2>2. call \in EditRecord
    BY <2>1 DEF EditRecord, Free, OrderStatus
  <2>3. changing' \in [Handler -> EditRecord]
    BY <1>3, <2>2 DEF EditOrder
  <2> QED
    BY <1>3, <2>3 DEF EditOrder
<1>4. ASSUME NEW h \in Handler, EditWrite(h) PROVE OrderTypeOK'
  <2>1. PICK u \in changing[h].toUser :
             /\ order' = [order EXCEPT !.user = u]
             /\ holder' = [a \in Shipped |->
                  IF a \in away /\ holder[a] = changing[h].user THEN u ELSE holder[a]]
    BY <1>4 DEF EditWrite
  <2>2. u \in User
    BY DEF EditRecord
  <2>3. [changing[h] EXCEPT !.at = "post"] \in EditRecord
    BY DEF EditRecord
  <2>4. changing' \in [Handler -> EditRecord]
    BY <1>4, <2>3 DEF EditWrite, Answers
  <2> QED
    BY <1>4, <2>1, <2>2, <2>4 DEF EditWrite
<1>5. ASSUME NEW h \in Handler, EditPost(h) PROVE OrderTypeOK'
  <2>1. PICK n \in changing[h].amount : billed' = billed + (n - changing[h].billed) /\ asked' = n
    BY <1>5 DEF EditPost
  <2>2. n \in Amount /\ n \in Int /\ changing[h].billed \in Int
    BY DEF EditRecord
  <2> QED
    BY <1>5, <2>1, <2>2 DEF EditPost, Answers
<1>6. ASSUME NEW h \in Handler, NEW s \in OrderStatus, MoveOrder(h, s) PROVE OrderTypeOK'
  <2>1. [Free EXCEPT !.at = "move", !.status = order.status, !.next = s] \in EditRecord
    BY DEF EditRecord, Free
  <2> QED
    BY <1>6, <2>1 DEF MoveOrder
<1>7. ASSUME NEW h \in Handler, MoveWrite(h) PROVE OrderTypeOK'
  <2>1. changing[h].next \in OrderStatus
    BY DEF EditRecord
  <2> QED
    BY <1>7, <2>1 DEF MoveWrite, Answers
<1>8. ASSUME NEW h \in Handler, OrderFail(h) PROVE OrderTypeOK'
  BY <1>8 DEF OrderFail, Answers
<1> QED
  BY <1>1, <1>2, <1>3, <1>4, <1>5, <1>6, <1>7, <1>8 DEF OrderNext

\* A call that ends, or one that does not edit, leaves what the others know as it is.
LEMMA EditorsKept ==
    ASSUME OneEditor, UNCHANGED <<billed, order>>,
           \A h \in Handler : Editing(h)' => Editing(h) /\ changing'[h] = changing[h]
    PROVE  OneEditor'
BY DEF OneEditor, UpToDate

LEMMA OrderInvPreserved ==
    ASSUME OrderIInv, [OrderNext]_orderVars
    PROVE  OrderIInv'
<1>t. OrderTypeOK /\ OrderTypeOK'
  BY OrderTypePreserved DEF OrderIInv
<1>a. ASSUME mixed' = mixed, ~ mixed' PROVE billed = asked /\ OneEditor
                                  /\ \A a \in away : holder[a] = order.user
  BY <1>a DEF OrderIInv, BilledAsAsked, DevicesFollowOrder
<1> SUFFICES ASSUME ~ mixed'
             PROVE  /\ billed' = asked' /\ OneEditor'
                    /\ \A a \in away' : holder'[a] = order'.user
  BY <1>t DEF OrderIInv, BilledAsAsked, DevicesFollowOrder
<1> DEFINE Goal == /\ billed' = asked' /\ OneEditor'
                   /\ \A a \in away' : holder'[a] = order'.user
<1>1. CASE UNCHANGED orderVars
  <2>1. mixed' = mixed
    BY <1>1 DEF orderVars
  <2>2. OneEditor'
    BY <1>1, <1>a, <2>1 DEF orderVars, OneEditor, UpToDate, Editing
  <2> QED
    BY <1>1, <1>a, <2>1, <2>2 DEF orderVars
<1>2. ASSUME NEW a \in Shipped, ComeBack(a) PROVE Goal
  <2>1. OneEditor'
    BY <1>2, <1>a DEF ComeBack, OneEditor, UpToDate, Editing
  <2> QED
    BY <1>2, <1>a, <2>1 DEF ComeBack
<1>3. ASSUME NEW h \in Handler, NEW users \in AtMostOne(User), NEW amount \in AtMostOne(Amount),
             EditOrder(h, users, amount)
      PROVE  Goal
  <2>1. ~ mixed /\ mixed' = mixed /\ \A g \in Handler : ~ Editing(g)
    BY <1>3, <1>t DEF EditOrder, OrderTypeOK
  <2>2. \A g \in Handler : g # h => changing'[g] = changing[g]
    BY <1>3, <1>t DEF EditOrder, OrderTypeOK
  <2>3. /\ changing'[h].billed = billed
        /\ changing'[h].user = order.user
    BY <1>3, <1>t DEF EditOrder, OrderTypeOK, Free
  <2>4. UNCHANGED <<billed, order, asked, holder, away>>
    BY <1>3 DEF EditOrder
  <2>5. OneEditor'
    BY <2>1, <2>2, <2>3, <2>4 DEF OneEditor, Editing, UpToDate
  <2> QED
    BY <1>a, <2>1, <2>4, <2>5
<1>4. ASSUME NEW h \in Handler, EditWrite(h) PROVE Goal
  <2>1. PICK u \in changing[h].toUser :
             /\ order' = [order EXCEPT !.user = u]
             /\ holder' = [a \in Shipped |->
                  IF a \in away /\ holder[a] = changing[h].user THEN u ELSE holder[a]]
    BY <1>4 DEF EditWrite
  <2>2. UNCHANGED <<away, billed, asked, mixed>>
    BY <1>4 DEF EditWrite
  <2>3. Editing(h) /\ changing[h].at = "write"
    BY <1>4 DEF EditWrite, Editing
  <2>4. changing[h].user = order.user /\ changing[h].billed = billed
    BY <1>a, <2>2, <2>3 DEF OneEditor, UpToDate
  <2>5. \A g \in Handler : g # h => ~ Editing(g) /\ changing'[g] = changing[g]
    BY <1>4, <1>a, <1>t, <2>2, <2>3 DEF EditWrite, Answers, OneEditor, OrderTypeOK
  <2>6. changing'[h].at # "write" /\ (changing'[h].at = "post" => changing'[h].billed = billed)
    BY <1>4, <1>t, <2>4 DEF EditWrite, Answers, Free, OrderTypeOK, EditRecord
  <2>7. OneEditor'
    BY <2>2, <2>5, <2>6 DEF OneEditor, Editing, UpToDate
  <2>8. order'.user = u
    BY <2>1, <1>t DEF OrderTypeOK
  <2>9. \A a \in away' : holder'[a] = order'.user
    BY <1>a, <1>t, <2>1, <2>2, <2>4, <2>8 DEF OrderTypeOK
  <2> QED
    BY <1>a, <2>2, <2>7, <2>9
<1>5. ASSUME NEW h \in Handler, EditPost(h) PROVE Goal
  <2>1. PICK n \in changing[h].amount : billed' = billed + (n - changing[h].billed) /\ asked' = n
    BY <1>5 DEF EditPost
  <2>2. n \in Int /\ billed \in Int
    BY <1>t, OrderEditsAssumption DEF OrderTypeOK, EditRecord
  <2>3. UNCHANGED <<order, holder, away, mixed>> /\ Editing(h)
    BY <1>5 DEF EditPost, Editing
  <2>4. changing[h].billed = billed
    BY <1>a, <2>3 DEF OneEditor, UpToDate
  <2>5. \A g \in Handler : ~ Editing(g)'
    BY <1>5, <1>a, <1>t, <2>3 DEF EditPost, Answers, Free, OneEditor, OrderTypeOK, Editing
  <2>6. OneEditor'
    BY <2>5 DEF OneEditor
  <2>7. billed' = asked'
    BY <2>1, <2>2, <2>4
  <2> QED
    BY <1>a, <2>3, <2>6, <2>7
<1>6. ASSUME NEW h \in Handler, NEW s \in OrderStatus, MoveOrder(h, s) PROVE Goal
  <2>1. UNCHANGED <<order, holder, away, billed, asked, mixed>>
    BY <1>6 DEF MoveOrder
  <2>2. \A g \in Handler : Editing(g)' => Editing(g) /\ changing'[g] = changing[g]
    BY <1>6, <1>t DEF MoveOrder, Free, Editing, OrderTypeOK
  <2> QED
    BY <1>a, <2>1, <2>2, EditorsKept
<1>7. ASSUME NEW h \in Handler, MoveWrite(h) PROVE Goal
  <2>1. UNCHANGED <<holder, away, billed, asked, mixed>> /\ order'.user = order.user
    BY <1>7, <1>t DEF MoveWrite, OrderTypeOK
  <2>2. \A g \in Handler : Editing(g)' => Editing(g) /\ changing'[g] = changing[g]
    BY <1>7, <1>t DEF MoveWrite, Answers, Free, Editing, OrderTypeOK
  <2>3. OneEditor'
    BY <1>a, <2>1, <2>2 DEF OneEditor, UpToDate
  <2> QED
    BY <1>a, <2>1, <2>3
<1>8. ASSUME NEW h \in Handler, OrderFail(h) PROVE Goal
  <2>1. UNCHANGED <<order, holder, away, billed, asked, mixed>>
    BY <1>8 DEF OrderFail
  <2>2. \A g \in Handler : Editing(g)' => Editing(g) /\ changing'[g] = changing[g]
    BY <1>8, <1>t DEF OrderFail, Answers, Free, Editing, OrderTypeOK
  <2> QED
    BY <1>a, <2>1, <2>2, EditorsKept
<1> QED
  BY <1>1, <1>2, <1>3, <1>4, <1>5, <1>6, <1>7, <1>8 DEF OrderNext

\* The invariant the two theorems below rest on.
THEOREM OrderInvariant == OrderSpec => []OrderIInv
<1>1. OrderIInv /\ [OrderNext]_orderVars => OrderIInv'
  BY OrderInvPreserved
<1> QED
  BY OrderStartsRight, <1>1, PTL DEF OrderSpec

\* Edits that do not overlap leave billed what the last of them asked for, though each posts
\* only the difference to a total it read some statements earlier.
THEOREM TransportBilledAsAsked == OrderSpec => []BilledAsAsked
<1>1. OrderIInv => BilledAsAsked
  BY DEF OrderIInv
<1> QED
  BY OrderInvariant, <1>1, PTL

\* The devices still out are with the end user of their order.
THEOREM DevicesWithUser == OrderSpec => []DevicesFollowOrder
<1>1. OrderIInv => DevicesFollowOrder
  BY DEF OrderIInv
<1> QED
  BY OrderInvariant, <1>1, PTL

(***************************************************************************)
(* SlaNotifier                                                             *)
(***************************************************************************)

\* While no mail was refused, a sweep has mailed everybody that is not still to
\* be mailed about the one inspection it is at.
SweepsMail ==
    /\ \A h \in Handler : \A i, j \in sweep[h].on : i = j
    /\ refused = 0 =>
         \A h \in Handler : \A i \in sweep[h].on : \A r \in Recipient :
           r \in sweep[h].to \/ mails[i][r] >= 1

SlaIInv == SlaTypeOK /\ SweepsMail /\ MarkedMeansMailed

LEMMA AsleepIsASweep == Asleep \in SweepRecord /\ Asleep.on = {}
BY DEF Asleep, SweepRecord

LEMMA SlaStarts == SlaInit => SlaIInv
<1> SUFFICES ASSUME SlaInit PROVE SlaIInv
  OBVIOUS
<1>1. SlaTypeOK
  <2>1. mails \in [Inspection -> [Recipient -> 0..MaxMails]]
    BY SlaAssumption DEF SlaInit
  <2>2. sweep \in [Handler -> SweepRecord]
    BY AsleepIsASweep DEF SlaInit
  <2> QED
    BY <2>1, <2>2, SlaAssumption, BackendAssumption DEF SlaInit, SlaTypeOK
<1>2. SweepsMail /\ MarkedMeansMailed
  BY AsleepIsASweep DEF SlaInit, SweepsMail, MarkedMeansMailed
<1> QED
  BY <1>1, <1>2 DEF SlaIInv

\* A sweep moves on, the others are where they were.
LEMMA SweepMoves ==
    ASSUME SlaTypeOK, NEW h \in Handler, NEW s \in SweepRecord,
           sweep' = [sweep EXCEPT ![h] = s]
    PROVE  /\ sweep' \in [Handler -> SweepRecord]
           /\ sweep'[h] = s
           /\ \A g \in Handler : g # h => sweep'[g] = sweep[g]
BY DEF SlaTypeOK

LEMMA SlaSteps == SlaIInv /\ [SlaNext]_slaVars => SlaIInv'
<1> SUFFICES ASSUME SlaIInv, [SlaNext]_slaVars PROVE SlaIInv'
  OBVIOUS
<1>E. /\ SlaTypeOK /\ SweepsMail /\ MarkedMeansMailed
      /\ \A h \in Handler : sweep[h] \in SweepRecord
  BY DEF SlaIInv, SlaTypeOK
<1>0. CASE UNCHANGED slaVars
  BY <1>0, <1>E DEF slaVars, SlaIInv, SlaTypeOK, SweepsMail, MarkedMeansMailed
<1>1. ASSUME NEW i \in Inspection, Breach(i) \/ Close(i) PROVE SlaIInv'
  BY <1>1, <1>E DEF Breach, Close, SlaIInv, SlaTypeOK, SweepsMail, MarkedMeansMailed
<1>2. ASSUME NEW h \in Handler, SweepStart(h) PROVE SlaIInv'
  <2> DEFINE s == [Asleep EXCEPT !.at = "next", !.left = Due]
  <2>1. s \in SweepRecord /\ s.on = {}
    BY <1>E DEF Asleep, SweepRecord, Due, SlaTypeOK
  <2>2. sweep' = [sweep EXCEPT ![h] = s] /\ UNCHANGED <<running, overdue, notified, mails, refused, stopped>>
    BY <1>2 DEF SweepStart
  <2> HIDE DEF s
  <2>3. /\ sweep' \in [Handler -> SweepRecord] /\ sweep'[h].on = {}
        /\ \A g \in Handler : g # h => sweep'[g] = sweep[g]
    BY <1>E, <2>1, <2>2, SweepMoves
  <2> QED
    BY <1>E, <2>2, <2>3 DEF SlaIInv, SlaTypeOK, SweepsMail, MarkedMeansMailed
<1>3. ASSUME NEW h \in Handler, SweepNext(h) PROVE SlaIInv'
  <2>1. CASE sweep[h].left = {}
    <3>1. sweep' = [sweep EXCEPT ![h] = Asleep] /\ UNCHANGED <<running, overdue, notified, mails, refused, stopped>>
      BY <1>3, <2>1 DEF SweepNext
    <3>2. /\ sweep' \in [Handler -> SweepRecord] /\ sweep'[h].on = {}
          /\ \A g \in Handler : g # h => sweep'[g] = sweep[g]
      BY <1>E, <3>1, SweepMoves, AsleepIsASweep
    <3> QED
      BY <1>E, <3>1, <3>2 DEF SlaIInv, SlaTypeOK, SweepsMail, MarkedMeansMailed
  <2>2. CASE sweep[h].left # {}
    <3>1. PICK i \in sweep[h].left :
            sweep' = [sweep EXCEPT ![h] =
              [at |-> "mail", left |-> sweep[h].left \ {i}, on |-> {i}, to |-> Recipient]]
      BY <1>3, <2>2 DEF SweepNext
    <3> DEFINE s == [at |-> "mail", left |-> sweep[h].left \ {i}, on |-> {i}, to |-> Recipient]
    <3>2. s \in SweepRecord /\ s.on = {i} /\ s.to = Recipient
      BY <1>E DEF SweepRecord
    <3>3. sweep' = [sweep EXCEPT ![h] = s] /\ UNCHANGED <<running, overdue, notified, mails, refused, stopped>>
      BY <1>3, <3>1 DEF SweepNext
    <3> HIDE DEF s
    <3>4. /\ sweep' \in [Handler -> SweepRecord] /\ sweep'[h].on = {i} /\ sweep'[h].to = Recipient
          /\ \A g \in Handler : g # h => sweep'[g] = sweep[g]
      BY <1>E, <3>2, <3>3, SweepMoves
    <3> QED
      BY <1>E, <3>3, <3>4 DEF SlaIInv, SlaTypeOK, SweepsMail, MarkedMeansMailed
  <2> QED
    BY <2>1, <2>2
<1>4. ASSUME NEW h \in Handler, NEW r \in Recipient, SweepMail(h, r) PROVE SlaIInv'
  <2>1. PICK i \in sweep[h].on :
          /\ mails[i][r] < MaxMails
          /\ mails' = [mails EXCEPT ![i][r] = mails[i][r] + 1]
    BY <1>4 DEF SweepMail
  <2> DEFINE s == [sweep[h] EXCEPT !.to = sweep[h].to \ {r}]
  <2>2. s \in SweepRecord /\ s.on = sweep[h].on /\ s.to = sweep[h].to \ {r} /\ i \in Inspection
    BY <1>E DEF SweepRecord
  <2>3. sweep' = [sweep EXCEPT ![h] = s] /\ UNCHANGED <<running, overdue, notified, refused, stopped>>
    BY <1>4 DEF SweepMail
  <2> HIDE DEF s
  <2>4. /\ sweep' \in [Handler -> SweepRecord] /\ sweep'[h].on = sweep[h].on
        /\ sweep'[h].to = sweep[h].to \ {r}
        /\ \A g \in Handler : g # h => sweep'[g] = sweep[g]
    BY <1>E, <2>2, <2>3, SweepMoves
  <2>5. mails \in [Inspection -> [Recipient -> 0..MaxMails]]
    BY <1>E DEF SlaTypeOK
  <2>6. mails[i][r] + 1 \in 0..MaxMails /\ mails[i][r] + 1 >= 1
    BY <2>1, <2>2, <2>5, SlaAssumption
  <2>7. /\ mails' \in [Inspection -> [Recipient -> 0..MaxMails]]
        /\ \A k \in Inspection, q \in Recipient :
             mails'[k][q] = IF k = i /\ q = r THEN mails[i][r] + 1 ELSE mails[k][q]
    BY <2>1, <2>2, <2>5, <2>6
  <2>8. \A k \in Inspection, q \in Recipient : mails[k][q] >= 1 => mails'[k][q] >= 1
    BY <2>6, <2>7
  <2>9. SweepsMail'
    <3>1. \A g \in Handler : sweep'[g].on = sweep[g].on /\ sweep'[g].on \subseteq Inspection
      BY <1>E, <2>4 DEF SweepRecord
    <3>2. ASSUME refused = 0, NEW g \in Handler, NEW k \in sweep[g].on, NEW q \in Recipient,
                 q \notin sweep'[g].to
          PROVE  mails'[k][q] >= 1
      <4>1. k \in Inspection
        BY <3>1
      <4>2. CASE q \notin sweep[g].to
        BY <1>E, <2>8, <3>2, <4>1, <4>2 DEF SweepsMail
      <4>3. CASE q \in sweep[g].to
        <5>1. g = h /\ q = r
          BY <2>4, <3>2, <4>3
        <5>2. k = i
          BY <1>E, <5>1 DEF SweepsMail
        <5> QED
          BY <2>6, <2>7, <4>1, <5>1, <5>2
      <4> QED
        BY <4>2, <4>3
    <3> QED
      BY <1>E, <2>3, <3>1, <3>2 DEF SweepsMail
  <2>10. MarkedMeansMailed'
    BY <1>E, <2>3, <2>8 DEF MarkedMeansMailed, SlaTypeOK
  <2> QED
    BY <1>E, <2>3, <2>4, <2>7, <2>9, <2>10 DEF SlaIInv, SlaTypeOK
<1>5. ASSUME NEW h \in Handler, NEW r \in Recipient, SweepMailRefused(h, r) PROVE SlaIInv'
  <2> DEFINE s == [sweep[h] EXCEPT !.to = sweep[h].to \ {r}]
  <2>1. s \in SweepRecord /\ s.on = sweep[h].on
    BY <1>E DEF SweepRecord
  <2>2. /\ sweep' = [sweep EXCEPT ![h] = s] /\ UNCHANGED <<running, overdue, notified, mails, stopped>>
        /\ refused' = refused + 1 /\ refused < MaxLost
    BY <1>5 DEF SweepMailRefused
  <2> HIDE DEF s
  <2>3. /\ sweep' \in [Handler -> SweepRecord] /\ sweep'[h].on = sweep[h].on
        /\ \A g \in Handler : g # h => sweep'[g] = sweep[g]
    BY <1>E, <2>1, <2>2, SweepMoves
  <2>4. refused' \in 0..MaxLost /\ refused' # 0
    BY <1>E, <2>2, SlaAssumption DEF SlaTypeOK
  <2> QED
    BY <1>E, <2>2, <2>3, <2>4 DEF SlaIInv, SlaTypeOK, SweepsMail, MarkedMeansMailed
<1>6. ASSUME NEW h \in Handler, SweepMark(h) PROVE SlaIInv'
  <2> DEFINE s == [sweep[h] EXCEPT !.at = "next", !.on = {}]
  <2>1. s \in SweepRecord /\ s.on = {} /\ sweep[h].on \subseteq Inspection
    BY <1>E DEF SweepRecord
  <2>2. /\ sweep' = [sweep EXCEPT ![h] = s] /\ UNCHANGED <<running, overdue, mails, refused, stopped>>
        /\ notified' = notified \cup sweep[h].on /\ sweep[h].to = {}
    BY <1>6 DEF SweepMark
  <2> HIDE DEF s
  <2>3. /\ sweep' \in [Handler -> SweepRecord] /\ sweep'[h].on = {}
        /\ \A g \in Handler : g # h => sweep'[g] = sweep[g]
    BY <1>E, <2>1, <2>2, SweepMoves
  <2>4. MarkedMeansMailed'
    <3> SUFFICES ASSUME refused = 0, NEW i \in notified', NEW r \in Recipient PROVE mails[i][r] >= 1
      BY <2>2 DEF MarkedMeansMailed
    <3>1. CASE i \in notified
      BY <1>E, <3>1 DEF MarkedMeansMailed
    <3>2. CASE i \in sweep[h].on
      BY <1>E, <2>2, <3>2 DEF SweepsMail
    <3> QED
      BY <2>2, <3>1, <3>2
  <2> QED
    BY <1>E, <2>1, <2>2, <2>3, <2>4 DEF SlaIInv, SlaTypeOK, SweepsMail
<1>7. ASSUME NEW h \in Handler, SweepFail(h) PROVE SlaIInv'
  <2>1. /\ sweep' = [sweep EXCEPT ![h] = Asleep]
        /\ UNCHANGED <<running, overdue, notified, mails, refused>>
        /\ stopped' = stopped + 1 /\ stopped < MaxFailures
    BY <1>7 DEF SweepFail
  <2>2. /\ sweep' \in [Handler -> SweepRecord] /\ sweep'[h].on = {}
        /\ \A g \in Handler : g # h => sweep'[g] = sweep[g]
    BY <1>E, <2>1, SweepMoves, AsleepIsASweep
  <2>3. stopped' \in 0..MaxFailures
    BY <1>E, <2>1, BackendAssumption DEF SlaTypeOK
  <2> QED
    BY <1>E, <2>1, <2>2, <2>3 DEF SlaIInv, SlaTypeOK, SweepsMail, MarkedMeansMailed
<1> QED
  BY <1>0, <1>1, <1>2, <1>3, <1>4, <1>5, <1>6, <1>7 DEF SlaNext

\* The inductive invariant of the sweeps.
THEOREM SlaInvariant == SlaSpec => []SlaIInv
<1> QED
  BY SlaStarts, SlaSteps, PTL DEF SlaSpec

\* However sweeps overlap, fail and start over: an inspection that is marked as
\* notified was mailed to every recipient, as long as no mail was refused.
THEOREM NoBreachInSilence == SlaSpec => []MarkedMeansMailed
<1>1. SlaIInv => MarkedMeansMailed
  BY DEF SlaIInv
<1> QED
  BY <1>1, SlaInvariant, PTL
================================================================================
