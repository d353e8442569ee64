-------------------------- MODULE ReceiptLedgerProofs --------------------------
(***************************************************************************)
(* The date of a receipt is edited by one transaction at a time, and what  *)
(* it found in the ledger is what its commit reverses and posts again:     *)
(* no charge stands twice, for any number of handlers, edits, corrections  *)
(* and orders.                                                             *)
(***************************************************************************)
EXTENDS ReceiptLedger, FiniteSetTheorems, SequenceTheorems, TLAPS

Last(c) == Len(versions[c])

\* The row of the GRN is locked from the first statement of the transaction on.
OneEdit ==
    /\ \A g, h \in Handler : InGrnTx(g) /\ InGrnTx(h) => g = h
    /\ \A h \in Handler : InGrn(h) => editing[h].date \in Date

\* Rows are posted by the transaction that holds the lock, so what it found is
\* all there is, and what it leaves out are at least the rows before the last one.
FoundAll ==
    \A h \in Handler : \A c \in Charge : \A i \in DOMAIN versions[c] :
      /\ editing[h].op \in {"grn.found", "grn.reversed", "grn.checked"} =>
           <<c, i>> \in editing[h].found
      /\ editing[h].op \in {"grn.reversed", "grn.checked"} /\ i # Last(c) =>
           <<c, i>> \in editing[h].skip

\* Only orders suppress, and only they and corrections make an edit leave out a
\* row that stands.
NotLeftOut ==
    /\ \A c \in Charge : \A i \in DOMAIN versions[c] :
         versions[c][i].by # NoBundle => c \in waived
    /\ \A h \in Handler : \A c \in Charge \ (byHand \cup waived) :
         editing[h].op \in {"grn.reversed", "grn.checked"} =>
           <<c, Last(c)>> \notin editing[h].skip

Charged == \A c \in Charge : Last(c) > 0

ReceiptIInv ==
    /\ ReceiptTypeOK
    /\ Charged
    /\ OneEdit
    /\ FoundAll
    /\ StandsOnce
    /\ NotLeftOut
    /\ ReceiptCharged

(***************************************************************************)
(* Calls and rows                                                          *)
(***************************************************************************)

\* A call that moves on leaves the others where they are.
LEMMA OtherCalls ==
    ASSUME ReceiptTypeOK, NEW h \in Handler, NEW call,
           editing' = [editing EXCEPT ![h] = call]
    PROVE  editing'[h] = call /\ \A g \in Handler : g # h => editing'[g] = editing[g]
BY DEF ReceiptTypeOK

LEMMA RestingCall == Resting \in EditCall /\ Resting.op = "idle"
BY DEF Resting, EditCall

\* A call is replaced by a call.
LEMMA CallMoves ==
    ASSUME ReceiptTypeOK, NEW h \in Handler, NEW call \in EditCall,
           editing' = [editing EXCEPT ![h] = call]
    PROVE  editing' \in [Handler -> EditCall]
BY DEF ReceiptTypeOK

LEMMA RowsType ==
    ASSUME ReceiptTypeOK, NEW C \in SUBSET Charge
    PROVE  RowsOf(C) \subseteq RowId
<1> SUFFICES ASSUME NEW c \in C, NEW i \in DOMAIN versions[c]
             PROVE  <<c, i>> \in RowId
  BY DEF RowsOf
<1>1. versions[c] \in Seq(Version)
  BY DEF ReceiptTypeOK
<1>2. i \in Nat \ {0}
  BY <1>1
<1> QED
  BY <1>2 DEF RowId

\* A row stays a row, whichever of its counts goes up and whoever suppresses it.
LEMMA RowEdited ==
    ASSUME NEW v \in Version, NEW b \in Bundle \cup {NoBundle}
    PROVE  /\ [v EXCEPT !.reversals = v.reversals + 1] \in Version
           /\ [v EXCEPT !.restored = v.restored + 1] \in Version
           /\ [v EXCEPT !.by = b] \in Version
BY DEF Version

\* The rows of a charge are edited where they are.
LEMMA RowsStay ==
    ASSUME ReceiptTypeOK, NEW vs, vs = [c \in Charge |-> vs[c]],
           \A c \in Charge : /\ vs[c] = [i \in DOMAIN versions[c] |-> vs[c][i]]
                             /\ \A i \in DOMAIN versions[c] : vs[c][i] \in Version
    PROVE  /\ vs \in [Charge -> Seq(Version)]
           /\ \A c \in Charge : Len(vs[c]) = Last(c) /\ DOMAIN vs[c] = DOMAIN versions[c]
<1> SUFFICES ASSUME NEW c \in Charge
             PROVE  vs[c] \in Seq(Version) /\ Len(vs[c]) = Last(c) /\ DOMAIN vs[c] = DOMAIN versions[c]
  OBVIOUS
<1>1. versions[c] \in Seq(Version)
  BY DEF ReceiptTypeOK
<1>2. DOMAIN versions[c] = 1..Last(c) /\ Last(c) \in Nat
  BY <1>1 DEF Last
<1>3. vs[c] \in [1..Last(c) -> Version]
  BY <1>2
<1> QED
  BY <1>2, <1>3, SeqDef

\* What every action but the commit of an edit does to the rows: none is added,
\* corrections are an administrator's and suppressions an order's.
InPlace ==
    /\ versions' \in [Charge -> Seq(Version)]
    /\ byHand \subseteq byHand' /\ waived \subseteq waived'
    /\ \A c \in Charge :
         /\ Len(versions'[c]) = Last(c)
         /\ DOMAIN versions'[c] = DOMAIN versions[c]
         /\ \A i \in DOMAIN versions[c] :
              /\ versions'[c][i].at = versions[c][i].at
              /\ \/ versions'[c][i].reversals = versions[c][i].reversals
                 \/ /\ versions'[c][i].reversals > versions[c][i].reversals
                    /\ c \in byHand'
              /\ versions'[c][i].by # NoBundle => versions[c][i].by # NoBundle \/ c \in waived'

LEMMA RowsUntouched ==
    ASSUME ReceiptTypeOK, UNCHANGED <<versions, byHand, waived>>
    PROVE  InPlace
BY DEF ReceiptTypeOK, InPlace, Last

\* One row of one charge is edited.
LEMMA OneRowEdited ==
    ASSUME ReceiptTypeOK, NEW c \in Charge, NEW i \in DOMAIN versions[c], NEW v \in Version,
           versions' = [versions EXCEPT ![c][i] = v],
           v.at = versions[c][i].at, v.by = versions[c][i].by,
           v.reversals = versions[c][i].reversals \/ v.reversals > versions[c][i].reversals,
           byHand' = byHand \cup {c}, UNCHANGED waived
    PROVE  InPlace
<1> DEFINE vs == [versions EXCEPT ![c][i] = v]
<1>1. versions \in [Charge -> Seq(Version)] /\ versions[c] \in Seq(Version)
  BY DEF ReceiptTypeOK
<1>2. vs = [d \in Charge |-> vs[d]]
  BY <1>1
<1>3. ASSUME NEW d \in Charge
      PROVE  /\ vs[d] = [j \in DOMAIN versions[d] |-> vs[d][j]]
             /\ \A j \in DOMAIN versions[d] :
                  vs[d][j] = IF d = c /\ j = i THEN v ELSE versions[d][j]
  <2>1. versions[d] \in Seq(Version)
    BY <1>1
  <2>2. CASE d = c
    <3>1. vs[d] = [versions[c] EXCEPT ![i] = v]
      BY <1>1, <2>2
    <3>2. versions[c] = [j \in DOMAIN versions[c] |-> versions[c][j]]
      BY <1>1
    <3> HIDE DEF vs
    <3> QED
      BY <2>2, <3>1, <3>2
  <2>3. CASE d # c
    <3>1. vs[d] = versions[d]
      BY <1>1, <2>3
    <3>2. versions[d] = [j \in DOMAIN versions[d] |-> versions[d][j]]
      BY <2>1
    <3> HIDE DEF vs
    <3> QED
      BY <2>3, <3>1, <3>2
  <2> QED
    BY <2>2, <2>3
<1>4. ASSUME NEW d \in Charge, NEW j \in DOMAIN versions[d]
      PROVE  versions[d][j] \in Version
  BY <1>1
<1> HIDE DEF vs
<1>5. \A d \in Charge : \A j \in DOMAIN versions[d] : vs[d][j] \in Version
  BY <1>3, <1>4
<1>6. /\ vs \in [Charge -> Seq(Version)]
      /\ \A d \in Charge : Len(vs[d]) = Last(d) /\ DOMAIN vs[d] = DOMAIN versions[d]
  BY <1>2, <1>3, <1>5, RowsStay
<1>7. versions' = vs
  BY DEF vs
<1>8. ASSUME NEW d \in Charge, NEW j \in DOMAIN versions[d]
      PROVE  /\ vs[d][j].at = versions[d][j].at
             /\ \/ vs[d][j].reversals = versions[d][j].reversals
                \/ vs[d][j].reversals > versions[d][j].reversals /\ d \in byHand'
             /\ vs[d][j].by # NoBundle => versions[d][j].by # NoBundle
  BY <1>3
<1>9. byHand \subseteq byHand' /\ waived \subseteq waived'
  OBVIOUS
<1>10. \A d \in Charge : \A j \in DOMAIN versions[d] :
         /\ versions'[d][j].at = versions[d][j].at
         /\ \/ versions'[d][j].reversals = versions[d][j].reversals
            \/ versions'[d][j].reversals > versions[d][j].reversals /\ d \in byHand'
         /\ versions'[d][j].by # NoBundle => versions[d][j].by # NoBundle \/ d \in waived'
  BY <1>7, <1>8
<1>11. /\ versions' \in [Charge -> Seq(Version)]
       /\ \A d \in Charge : Len(versions'[d]) = Last(d) /\ DOMAIN versions'[d] = DOMAIN versions[d]
  BY <1>6, <1>7
<1> QED
  BY <1>9, <1>10, <1>11 DEF InPlace

LEMMA CorrectChargeInPlace ==
    ASSUME ReceiptTypeOK, NEW h \in Handler, NEW c \in Charge, NEW i \in DOMAIN versions[c],
           CorrectCharge(h, c, i)
    PROVE  InPlace
<1> DEFINE v == [versions[c][i] EXCEPT !.reversals = versions[c][i].reversals + 1]
<1>1. versions[c][i] \in Version
  BY DEF ReceiptTypeOK
<1>2. /\ v \in Version
      /\ v.at = versions[c][i].at /\ v.by = versions[c][i].by
      /\ v.reversals > versions[c][i].reversals
  BY <1>1 DEF Version
<1>3. versions' = [versions EXCEPT ![c][i] = v]
  BY DEF CorrectCharge
<1>4. byHand' = byHand \cup {c} /\ UNCHANGED waived
  BY DEF CorrectCharge
<1> HIDE DEF v
<1> QED
  BY <1>2, <1>3, <1>4, OneRowEdited

LEMMA CorrectReversalInPlace ==
    ASSUME ReceiptTypeOK, NEW h \in Handler, NEW c \in Charge, NEW i \in DOMAIN versions[c],
           CorrectReversal(h, c, i)
    PROVE  InPlace
<1> DEFINE v == [versions[c][i] EXCEPT !.restored = versions[c][i].restored + 1]
<1>1. versions[c][i] \in Version
  BY DEF ReceiptTypeOK
<1>2. /\ v \in Version
      /\ v.at = versions[c][i].at /\ v.by = versions[c][i].by
      /\ v.reversals = versions[c][i].reversals
  BY <1>1 DEF Version
<1>3. versions' = [versions EXCEPT ![c][i] = v]
  BY DEF CorrectReversal
<1>4. byHand' = byHand \cup {c} /\ UNCHANGED waived
  BY DEF CorrectReversal
<1> HIDE DEF v
<1> QED
  BY <1>2, <1>3, <1>4, OneRowEdited

\* The suppressions of a corrected order are taken back, all else stays.
LEMMA CorrectClearInPlace ==
    ASSUME ReceiptTypeOK, NEW h \in Handler, CorrectClear(h)
    PROVE  InPlace
<1> DEFINE row(c, i) == IF editing[h].id # NoBundle /\ versions[c][i].by = editing[h].id
                        THEN [versions[c][i] EXCEPT !.by = NoBundle]
                        ELSE versions[c][i]
           vs == [c \in Charge |-> [i \in DOMAIN versions[c] |-> row(c, i)]]
<1>1. ASSUME NEW c \in Charge, NEW i \in DOMAIN versions[c]
      PROVE  /\ row(c, i) \in Version
             /\ row(c, i).at = versions[c][i].at
             /\ row(c, i).reversals = versions[c][i].reversals
             /\ row(c, i).by # NoBundle => versions[c][i].by # NoBundle
  <2>1. versions[c][i] \in Version
    BY DEF ReceiptTypeOK
  <2> QED
    BY <2>1 DEF Version
<1>2. versions' = vs /\ UNCHANGED <<byHand, waived>>
  BY DEF CorrectClear
<1> HIDE DEF row
<1>3. /\ vs = [c \in Charge |-> vs[c]]
      /\ \A c \in Charge : /\ vs[c] = [i \in DOMAIN versions[c] |-> vs[c][i]]
                           /\ \A i \in DOMAIN versions[c] : vs[c][i] = row(c, i)
  OBVIOUS
<1> HIDE DEF vs
<1>4. /\ vs \in [Charge -> Seq(Version)]
      /\ \A c \in Charge : Len(vs[c]) = Last(c) /\ DOMAIN vs[c] = DOMAIN versions[c]
  BY <1>1, <1>3, RowsStay
<1> QED
  BY <1>1, <1>2, <1>3, <1>4 DEF InPlace

\* An order suppresses rows, and what it suppresses is waived.
LEMMA OrderCommitInPlace ==
    ASSUME ReceiptTypeOK, NEW h \in Handler, OrderCommit(h)
    PROVE  InPlace
<1>1. CASE \E r \in editing[h].found : versions[r[1]][r[2]].by # NoBundle
  BY <1>1, RowsUntouched DEF OrderCommit
<1>2. CASE ~ \E r \in editing[h].found : versions[r[1]][r[2]].by # NoBundle
  <2> DEFINE row(c, i) == IF <<c, i>> \in editing[h].found
                          THEN [versions[c][i] EXCEPT !.by = editing[h].id]
                          ELSE versions[c][i]
             vs == [c \in Charge |-> [i \in DOMAIN versions[c] |-> row(c, i)]]
  <2>1. editing[h].id \in Bundle \cup {NoBundle}
    BY DEF ReceiptTypeOK, EditCall
  <2>2. ASSUME NEW c \in Charge, NEW i \in DOMAIN versions[c]
        PROVE  /\ row(c, i) \in Version
               /\ row(c, i).at = versions[c][i].at
               /\ row(c, i).reversals = versions[c][i].reversals
               /\ row(c, i).by # NoBundle =>
                    versions[c][i].by # NoBundle \/ <<c, i>> \in editing[h].found
    <3>1. versions[c][i] \in Version
      BY DEF ReceiptTypeOK
    <3> QED
      BY <2>1, <3>1 DEF Version
  <2>3. versions' = vs /\ waived' = waived \cup {r[1] : r \in editing[h].found} /\ UNCHANGED byHand
    BY <1>2 DEF OrderCommit
  <2> HIDE DEF row
  <2>4. /\ vs = [c \in Charge |-> vs[c]]
        /\ \A c \in Charge : /\ vs[c] = [i \in DOMAIN versions[c] |-> vs[c][i]]
                             /\ \A i \in DOMAIN versions[c] : vs[c][i] = row(c, i)
    OBVIOUS
  <2> HIDE DEF vs
  <2>5. /\ vs \in [Charge -> Seq(Version)]
        /\ \A c \in Charge : Len(vs[c]) = Last(c) /\ DOMAIN vs[c] = DOMAIN versions[c]
    BY <2>2, <2>4, RowsStay
  <2>6. ASSUME NEW c \in Charge, NEW i \in DOMAIN versions[c], <<c, i>> \in editing[h].found
        PROVE  c \in waived'
    <3>1. <<c, i>>[1] \in {r[1] : r \in editing[h].found}
      BY <2>6
    <3> QED
      BY <2>3, <3>1
  <2>7. byHand \subseteq byHand' /\ waived \subseteq waived'
    BY <2>3
  <2>8. \A c \in Charge : \A i \in DOMAIN versions[c] :
          /\ versions'[c][i].at = versions[c][i].at
          /\ versions'[c][i].reversals = versions[c][i].reversals
          /\ versions'[c][i].by # NoBundle => versions[c][i].by # NoBundle \/ c \in waived'
    <3> SUFFICES ASSUME NEW c \in Charge, NEW i \in DOMAIN versions[c]
                 PROVE  /\ versions'[c][i].at = versions[c][i].at
                        /\ versions'[c][i].reversals = versions[c][i].reversals
                        /\ versions'[c][i].by # NoBundle =>
                             versions[c][i].by # NoBundle \/ c \in waived'
      OBVIOUS
    <3>1. versions'[c][i] = row(c, i)
      BY <2>3, <2>4
    <3> QED
      BY <3>1, <2>2, <2>6
  <2>9. /\ versions' \in [Charge -> Seq(Version)]
        /\ \A c \in Charge : Len(versions'[c]) = Last(c) /\ DOMAIN versions'[c] = DOMAIN versions[c]
    BY <2>3, <2>5
  <2> QED
    BY <2>7, <2>8, <2>9 DEF InPlace
<1> QED
  BY <1>1, <1>2

(***************************************************************************)
(* The type invariant                                                      *)
(***************************************************************************)
LEMMA ReceiptStartsTyped == ReceiptInit => ReceiptTypeOK /\ Charged
<1> SUFFICES ASSUME ReceiptInit PROVE ReceiptTypeOK /\ Charged
  OBVIOUS
<1> DEFINE first == [at |-> receivedAt, reversals |-> 0, restored |-> 0, by |-> NoBundle]
<1>1. first \in Version
  BY DEF ReceiptInit, Version
<1>2. versions = [c \in Charge |-> <<first>>]
  BY DEF ReceiptInit
<1> HIDE DEF first
<1>3. versions \in [Charge -> Seq(Version)] /\ \A c \in Charge : Last(c) = 1
  BY <1>1, <1>2 DEF Last
<1>4. editing \in [Handler -> EditCall]
  BY RestingCall DEF ReceiptInit
<1>5. bundle \in [Bundle -> BundleRow]
  BY DEF ReceiptInit, BundleRow
<1>6. crashed \in 0..MaxFailures
  BY BackendAssumption DEF ReceiptInit
<1> QED
  BY <1>3, <1>4, <1>5, <1>6 DEF ReceiptInit, ReceiptTypeOK, Charged

\* Edits add at most one row to each charge: the one that stood is the only live one.
LiveIsLast(h) == \A c \in Charge : LiveOf(h, c) \in {{}, {Last(c)}}

LEMMA OneLive ==
    ASSUME ReceiptTypeOK, Charged, FoundAll, NEW h \in Handler, editing[h].op = "grn.checked"
    PROVE  LiveIsLast(h)
<1> SUFFICES ASSUME NEW c \in Charge, NEW i \in LiveOf(h, c) PROVE i = Last(c)
  BY DEF LiveIsLast
<1>1. i \in DOMAIN versions[c] /\ <<c, i>> \notin editing[h].skip
  BY DEF LiveOf, Live
<1> QED
  BY <1>1 DEF FoundAll

\* What the commit makes of one charge: the row that stood is reversed and its
\* successor stands, or nothing happens.
LEMMA Repost ==
    ASSUME ReceiptTypeOK, Charged, OneEdit, NEW h \in Handler, editing[h].op = "grn.checked",
           LiveIsLast(h), NEW c \in Charge
    PROVE  /\ Reposted(h, c) \in Seq(Version)
           /\ Last(c) \in Nat \ {0}
           /\ LiveOf(h, c) = {} =>
                /\ Len(Reposted(h, c)) = Last(c)
                /\ \A i \in 1..Last(c) : Reposted(h, c)[i] = versions[c][i]
           /\ LiveOf(h, c) = {Last(c)} =>
                /\ Len(Reposted(h, c)) = Last(c) + 1
                /\ \A i \in 1..Last(c) - 1 : Reposted(h, c)[i] = versions[c][i]
                /\ Reposted(h, c)[Last(c)] =
                     [versions[c][Last(c)] EXCEPT !.reversals = versions[c][Last(c)].reversals + 1]
                /\ Reposted(h, c)[Last(c) + 1] =
                     [at |-> editing[h].date, reversals |-> 0, restored |-> 0, by |-> NoBundle]
<1> DEFINE n == Last(c)
           live == LiveOf(h, c)
           new == [at |-> editing[h].date, reversals |-> 0, restored |-> 0, by |-> NoBundle]
           row(i) == IF i \in live
                     THEN [versions[c][i] EXCEPT !.reversals = versions[c][i].reversals + 1]
                     ELSE versions[c][i]
           old == [i \in DOMAIN versions[c] |-> row(i)]
           more == [i \in 1..Cardinality(live) |-> new]
<1>1. versions[c] \in Seq(Version)
  BY DEF ReceiptTypeOK
<1>2. n \in Nat \ {0} /\ DOMAIN versions[c] = 1..n
  BY <1>1 DEF Last, Charged
<1>3. new \in Version
  BY DEF OneEdit, InGrn, InGrnTx, Version
<1>4. \A i \in 1..n : row(i) \in Version
  <2> TAKE i \in 1..n
  <2>1. versions[c][i] \in Version
    BY <1>1, <1>2
  <2>2. [versions[c][i] EXCEPT !.reversals = versions[c][i].reversals + 1] \in Version
    BY <2>1, RowEdited
  <2> QED
    BY <2>1, <2>2
<1>5. Cardinality(live) = (IF live = {} THEN 0 ELSE 1) /\ live \in {{}, {n}}
  BY FS_EmptySet, FS_Singleton DEF LiveIsLast
<1>6. Reposted(h, c) = old \o more
  BY DEF Reposted
<1> HIDE DEF row, new, live
<1>7. old \in [1..n -> Version] /\ \A i \in 1..n : old[i] = row(i)
  BY <1>2, <1>4
<1>8. old \in Seq(Version) /\ Len(old) = n
  BY <1>7, <1>2
<1>9. /\ more \in Seq(Version)
      /\ live = {} => Len(more) = 0
      /\ live # {} => Len(more) = 1 /\ more[1] = new
  BY <1>3, <1>5
<1> HIDE DEF old, more, n
<1>10. /\ Reposted(h, c) \in Seq(Version)
       /\ Len(Reposted(h, c)) = n + Len(more)
       /\ \A i \in 1..n + Len(more) :
            Reposted(h, c)[i] = IF i <= n THEN old[i] ELSE more[i - n]
  BY <1>6, <1>8, <1>9, ConcatProperties
<1>11. CASE live = {}
  <2>1. \A i \in 1..n : row(i) = versions[c][i]
    BY <1>11 DEF row
  <2>2. Len(Reposted(h, c)) = n /\ \A i \in 1..n : Reposted(h, c)[i] = versions[c][i]
    BY <1>2, <1>7, <1>9, <1>10, <1>11, <2>1
  <2> QED
    BY <1>2, <1>10, <1>11, <2>2 DEF live, n
<1>12. CASE live = {n}
  <2>0. n \in live
    BY <1>12
  <2>4. Len(more) = 1 /\ more[1] = new
    BY <1>9, <2>0
  <2>1. Len(Reposted(h, c)) = n + 1 /\ Reposted(h, c)[n + 1] = new
    <3>1. n + 1 \in 1..n + Len(more) /\ ~ (n + 1 <= n) /\ (n + 1) - n = 1
      BY <1>2, <2>4
    <3> QED
      BY <1>10, <2>4, <3>1
  <2>2. \A i \in 1..n - 1 : Reposted(h, c)[i] = versions[c][i]
    BY <1>2, <1>7, <1>10, <1>12, <2>4 DEF row
  <2>3. Reposted(h, c)[n] = [versions[c][n] EXCEPT !.reversals = versions[c][n].reversals + 1]
    <3>1. Reposted(h, c)[n] = row(n)
      BY <1>2, <1>7, <1>10, <2>4
    <3> QED
      BY <2>0, <3>1 DEF row
  <2> QED
    BY <1>2, <1>10, <1>12, <2>1, <2>2, <2>3 DEF live, n, new
<1> QED
  BY <1>5, <1>11, <1>12

\* The commit appends, so the rows of every charge stay a sequence of rows.
LEMMA CommitTyped ==
    ASSUME ReceiptTypeOK, Charged, OneEdit, FoundAll, NEW h \in Handler, UpdateGrnCommit(h)
    PROVE  versions' \in [Charge -> Seq(Version)] /\ Charged' /\ receivedAt' \in Date
<1>1. editing[h].op = "grn.checked" /\ versions' = [c \in Charge |-> Reposted(h, c)]
  BY DEF UpdateGrnCommit
<1>2. LiveIsLast(h)
  BY <1>1, OneLive
<1>3. ASSUME NEW c \in Charge
      PROVE  Reposted(h, c) \in Seq(Version) /\ Len(Reposted(h, c)) > 0
  <2>1. LiveOf(h, c) \in {{}, {Last(c)}}
    BY <1>2 DEF LiveIsLast
  <2>2. Reposted(h, c) \in Seq(Version) /\ Last(c) \in Nat \ {0}
    BY <1>1, <1>2, Repost
  <2>3. Len(Reposted(h, c)) \in {Last(c), Last(c) + 1}
    BY <1>1, <1>2, <2>1, Repost
  <2> QED
    BY <2>2, <2>3
<1>4. receivedAt' \in Date
  BY DEF UpdateGrnCommit, OneEdit, InGrn, InGrnTx
<1> QED
  BY <1>1, <1>3, <1>4 DEF Charged, Last

LEMMA InPlaceCharged == ASSUME Charged, InPlace PROVE Charged'
BY DEF InPlace, Charged, Last

LEMMA ReceiptTypePreserved ==
    ASSUME ReceiptTypeOK, Charged, OneEdit, FoundAll, [ReceiptNext]_receiptVars
    PROVE  ReceiptTypeOK' /\ Charged'
<1>0. CASE UNCHANGED receiptVars
  BY <1>0 DEF receiptVars, ReceiptTypeOK, Charged, Last
<1>R. Resting \in EditCall
  BY RestingCall
<1>F. \A h \in Handler : editing[h] \in EditCall
  BY DEF ReceiptTypeOK
<1>1. ASSUME NEW h \in Handler, NEW d \in Date, UpdateGrn(h, d) PROVE ReceiptTypeOK' /\ Charged'
  <2> DEFINE call == [editing[h] EXCEPT !.op = "grn", !.date = d]
  <2>1. call \in EditCall
    BY <1>F DEF EditCall
  <2>2. editing' = [editing EXCEPT ![h] = call]
    BY <1>1 DEF UpdateGrn
  <2> HIDE DEF call
  <2>3. editing' \in [Handler -> EditCall]
    BY <2>1, <2>2, CallMoves
  <2> QED
    BY <1>1, <2>3 DEF UpdateGrn, ReceiptTypeOK, Charged, Last
<1>2. ASSUME NEW h \in Handler, UpdateGrnLock(h) PROVE ReceiptTypeOK' /\ Charged'
  <2> DEFINE call == [editing[h] EXCEPT !.op = "grn.locked"]
  <2>1. call \in EditCall
    BY <1>F DEF EditCall
  <2>2. editing' = [editing EXCEPT ![h] = call]
    BY <1>2 DEF UpdateGrnLock, Step
  <2> HIDE DEF call
  <2>3. editing' \in [Handler -> EditCall]
    BY <2>1, <2>2, CallMoves
  <2> QED
    BY <1>2, <2>3 DEF UpdateGrnLock, ReceiptTypeOK, Charged, Last
<1>3. ASSUME NEW h \in Handler, UpdateGrnFind(h) PROVE ReceiptTypeOK' /\ Charged'
  <2> DEFINE rows == RowsOf(Charge)
             call == [editing[h] EXCEPT !.op = "grn.found", !.found = rows]
  <2>0. rows \subseteq RowId
    BY RowsType
  <2>2. editing' = [editing EXCEPT ![h] = call]
    BY <1>3 DEF UpdateGrnFind
  <2> HIDE DEF rows
  <2>1. call \in EditCall
    BY <1>F, <2>0 DEF EditCall
  <2> HIDE DEF call
  <2>3. editing' \in [Handler -> EditCall]
    BY <2>1, <2>2, CallMoves
  <2> QED
    BY <1>3, <2>3 DEF UpdateGrnFind, ReceiptTypeOK, Charged, Last
<1>4. ASSUME NEW h \in Handler, UpdateGrnReversed(h) PROVE ReceiptTypeOK' /\ Charged'
  <2> DEFINE rows == {r \in editing[h].found : versions[r[1]][r[2]].reversals > 0}
             call == [editing[h] EXCEPT !.op = "grn.reversed", !.skip = rows]
  <2>0. rows \subseteq RowId
    BY <1>F DEF EditCall
  <2>2. editing' = [editing EXCEPT ![h] = call]
    BY <1>4 DEF UpdateGrnReversed
  <2> HIDE DEF rows
  <2>1. call \in EditCall
    BY <1>F, <2>0 DEF EditCall
  <2> HIDE DEF call
  <2>3. editing' \in [Handler -> EditCall]
    BY <2>1, <2>2, CallMoves
  <2> QED
    BY <1>4, <2>3 DEF UpdateGrnReversed, ReceiptTypeOK, Charged, Last
<1>5. ASSUME NEW h \in Handler, UpdateGrnSuppressed(h) PROVE ReceiptTypeOK' /\ Charged'
  <2> DEFINE rows == editing[h].skip \cup {r \in editing[h].found : versions[r[1]][r[2]].by # NoBundle}
             call == [editing[h] EXCEPT !.op = "grn.checked", !.skip = rows]
  <2>0. rows \subseteq RowId
    BY <1>F DEF EditCall
  <2>2. editing' = [editing EXCEPT ![h] = call]
    BY <1>5 DEF UpdateGrnSuppressed
  <2> HIDE DEF rows
  <2>1. call \in EditCall
    BY <1>F, <2>0 DEF EditCall
  <2> HIDE DEF call
  <2>3. editing' \in [Handler -> EditCall]
    BY <2>1, <2>2, CallMoves
  <2> QED
    BY <1>5, <2>3 DEF UpdateGrnSuppressed, ReceiptTypeOK, Charged, Last
<1>6. ASSUME NEW h \in Handler, UpdateGrnCommit(h) PROVE ReceiptTypeOK' /\ Charged'
  <2>1. versions' \in [Charge -> Seq(Version)] /\ Charged' /\ receivedAt' \in Date
    BY <1>6, CommitTyped
  <2>2. editing' \in [Handler -> EditCall]
    BY <1>6, <1>R, CallMoves DEF UpdateGrnCommit, Answer
  <2> QED
    BY <1>6, <2>1, <2>2 DEF UpdateGrnCommit, ReceiptTypeOK
<1>7. ASSUME NEW h \in Handler, NEW c \in Charge, NEW i \in DOMAIN versions[c],
             CorrectCharge(h, c, i) \/ CorrectReversal(h, c, i)
      PROVE  ReceiptTypeOK' /\ Charged'
  <2> DEFINE call == [editing[h] EXCEPT !.op = "correct.clear"]
  <2>1. call \in EditCall
    BY <1>F DEF EditCall
  <2>2. editing' = [editing EXCEPT ![h] = call]
    BY <1>7 DEF CorrectCharge, CorrectReversal, Step
  <2> HIDE DEF call
  <2>3. editing' \in [Handler -> EditCall]
    BY <2>1, <2>2, CallMoves
  <2>4. InPlace
    BY <1>7, CorrectChargeInPlace, CorrectReversalInPlace
  <2>5. versions' \in [Charge -> Seq(Version)]
    BY <2>4 DEF InPlace
  <2>6. UNCHANGED <<receivedAt, bundle, crashed, waived>> /\ byHand' = byHand \cup {c}
    BY <1>7 DEF CorrectCharge, CorrectReversal
  <2> QED
    BY <2>3, <2>4, <2>5, <2>6, InPlaceCharged DEF ReceiptTypeOK
<1>8. ASSUME NEW h \in Handler, NEW b \in Bundle, CorrectBundle(h, b) PROVE ReceiptTypeOK' /\ Charged'
  <2> DEFINE call == [editing[h] EXCEPT !.op = "correct.clear", !.id = b]
  <2>1. call \in EditCall
    BY <1>F DEF EditCall
  <2>2. editing' = [editing EXCEPT ![h] = call]
    BY <1>8 DEF CorrectBundle
  <2> HIDE DEF call
  <2>3. editing' \in [Handler -> EditCall]
    BY <2>1, <2>2, CallMoves
  <2>4. bundle' \in [Bundle -> BundleRow]
    <3> DEFINE row == [bundle[b] EXCEPT !.reversals = bundle[b].reversals + 1]
    <3>1. row \in BundleRow
      BY DEF BundleRow, ReceiptTypeOK
    <3>2. bundle' = [bundle EXCEPT ![b] = row]
      BY <1>8 DEF CorrectBundle
    <3> HIDE DEF row
    <3> QED
      BY <3>1, <3>2 DEF ReceiptTypeOK
  <2> QED
    BY <1>8, <2>3, <2>4 DEF CorrectBundle, ReceiptTypeOK, Charged, Last
<1>9. ASSUME NEW h \in Handler, CorrectClear(h) PROVE ReceiptTypeOK' /\ Charged'
  <2>2. editing' \in [Handler -> EditCall]
    BY <1>9, <1>R, CallMoves DEF CorrectClear, Answer
  <2>4. InPlace
    BY <1>9, CorrectClearInPlace
  <2>5. versions' \in [Charge -> Seq(Version)]
    BY <2>4 DEF InPlace
  <2>6. UNCHANGED <<receivedAt, bundle, crashed, byHand, waived>>
    BY <1>9 DEF CorrectClear
  <2> QED
    BY <2>2, <2>4, <2>5, <2>6, InPlaceCharged DEF ReceiptTypeOK
<1>10. ASSUME NEW h \in Handler, NEW b \in Bundle, NEW a \in Device, OrderPost(h, b, a)
       PROVE  ReceiptTypeOK' /\ Charged'
  <2> DEFINE call == [editing[h] EXCEPT !.op = "order", !.id = b, !.asset = {a}]
  <2>1. call \in EditCall
    BY <1>F DEF EditCall
  <2>2. editing' = [editing EXCEPT ![h] = call]
    BY <1>10 DEF OrderPost
  <2> HIDE DEF call
  <2>3. editing' \in [Handler -> EditCall]
    BY <2>1, <2>2, CallMoves
  <2>4. bundle' \in [Bundle -> BundleRow]
    BY <1>10 DEF OrderPost, BundleRow, ReceiptTypeOK
  <2> QED
    BY <1>10, <2>3, <2>4 DEF OrderPost, ReceiptTypeOK, Charged, Last
<1>11. ASSUME NEW h \in Handler, OrderFind(h) PROVE ReceiptTypeOK' /\ Charged'
  <2> DEFINE its == {c \in Charge : DeviceOf[c] \in editing[h].asset}
             rows == RowsOf(its)
             call == [editing[h] EXCEPT !.op = "order.found", !.found = rows]
  <2>0. rows \subseteq RowId
    BY RowsType
  <2>2. editing' = [editing EXCEPT ![h] = call]
    BY <1>11 DEF OrderFind
  <2> HIDE DEF rows
  <2>1. call \in EditCall
    BY <1>F, <2>0 DEF EditCall
  <2> HIDE DEF call
  <2>3. editing' \in [Handler -> EditCall]
    BY <2>1, <2>2, CallMoves
  <2> QED
    BY <1>11, <2>3 DEF OrderFind, ReceiptTypeOK, Charged, Last
<1>12. ASSUME NEW h \in Handler, OrderCommit(h) PROVE ReceiptTypeOK' /\ Charged'
  <2>2. editing' \in [Handler -> EditCall]
    BY <1>12, <1>R, CallMoves DEF OrderCommit, Answer
  <2>4. InPlace
    BY <1>12, OrderCommitInPlace
  <2>5. versions' \in [Charge -> Seq(Version)]
    BY <2>4 DEF InPlace
  <2>6. UNCHANGED <<receivedAt, bundle, crashed, byHand>>
    BY <1>12 DEF OrderCommit
  <2>7. waived' \subseteq Charge
    <3>1. editing[h].found \subseteq Charge \X (Nat \ {0})
      BY <1>F DEF EditCall, RowId
    <3>2. \A r \in editing[h].found : r[1] \in Charge
      BY <3>1
    <3>3. waived \subseteq Charge
      BY DEF ReceiptTypeOK
    <3>4. waived' = waived \/ waived' = waived \cup {r[1] : r \in editing[h].found}
      BY <1>12 DEF OrderCommit
    <3> QED
      BY <3>2, <3>3, <3>4
  <2> QED
    BY <2>2, <2>4, <2>5, <2>6, <2>7, InPlaceCharged DEF ReceiptTypeOK
<1>13. ASSUME NEW h \in Handler, ReceiptFail(h) PROVE ReceiptTypeOK' /\ Charged'
  <2>2. editing' \in [Handler -> EditCall]
    BY <1>13, <1>R, CallMoves DEF ReceiptFail, Answer
  <2>3. crashed' \in 0..MaxFailures
    BY <1>13, BackendAssumption DEF ReceiptFail, ReceiptTypeOK
  <2> QED
    BY <1>13, <2>2, <2>3 DEF ReceiptFail, ReceiptTypeOK, Charged, Last
<1> QED
  BY <1>0, <1>1, <1>2, <1>3, <1>4, <1>5, <1>6, <1>7, <1>8, <1>9, <1>10, <1>11, <1>12, <1>13
     DEF ReceiptNext

(***************************************************************************)
(* No charge stands twice                                                  *)
(***************************************************************************)

\* What a step in place owes: the lock, and what the caller now knows of the ledger.
Knows(h) ==
    /\ InGrn(h)' => editing'[h].date \in Date
    /\ InGrnTx(h)' => InGrnTx(h) \/ \A g \in Handler : ~ InGrnTx(g)
    /\ \A c \in Charge : \A i \in DOMAIN versions[c] :
         /\ editing'[h].op \in {"grn.found", "grn.reversed", "grn.checked"} =>
              <<c, i>> \in editing'[h].found
         /\ editing'[h].op \in {"grn.reversed", "grn.checked"} /\ i # Last(c) =>
              <<c, i>> \in editing'[h].skip
    /\ \A c \in Charge \ (byHand \cup waived) :
         editing'[h].op \in {"grn.reversed", "grn.checked"} =>
           <<c, Last(c)>> \notin editing'[h].skip

\* A call outside the transaction owes nothing.
LEMMA KnowsNothing ==
    ASSUME NEW h \in Handler,
           editing'[h].op \notin {"grn", "grn.locked", "grn.found", "grn.reversed", "grn.checked"}
    PROVE  Knows(h)
BY DEF Knows, InGrn, InGrnTx

\* In place, the invariant survives if the caller pays.
LEMMA InPlacePreserves ==
    ASSUME ReceiptIInv, InPlace, receivedAt' = receivedAt, NEW h \in Handler, Knows(h),
           \A g \in Handler : g # h => editing'[g] = editing[g]
    PROVE  OneEdit' /\ FoundAll' /\ StandsOnce' /\ NotLeftOut' /\ ReceiptCharged'
<1>1. OneEdit'
  BY DEF ReceiptIInv, OneEdit, Knows, InGrn, InGrnTx
<1>2. \A c \in Charge : Last(c)' = Last(c) /\ DOMAIN versions'[c] = DOMAIN versions[c]
  BY DEF InPlace, Last
<1>3. FoundAll'
  <2> SUFFICES ASSUME NEW g \in Handler, NEW c \in Charge, NEW i \in DOMAIN versions[c]
               PROVE  /\ editing'[g].op \in {"grn.found", "grn.reversed", "grn.checked"} =>
                           <<c, i>> \in editing'[g].found
                      /\ editing'[g].op \in {"grn.reversed", "grn.checked"} /\ i # Last(c) =>
                           <<c, i>> \in editing'[g].skip
    BY <1>2 DEF FoundAll
  <2>1. CASE g = h
    BY <2>1 DEF Knows
  <2>2. CASE g # h
    BY <2>2 DEF ReceiptIInv, FoundAll
  <2> QED
    BY <2>1, <2>2
<1>4. \A c \in Charge : \A i \in DOMAIN versions[c] :
        /\ versions[c][i] \in Version /\ versions'[c][i] \in Version
        /\ versions'[c][i].reversals \in Nat /\ versions[c][i].reversals \in Nat
  <2> TAKE c \in Charge
  <2> TAKE i \in DOMAIN versions[c]
  <2>1. versions[c] \in Seq(Version) /\ versions'[c] \in Seq(Version)
    BY DEF InPlace, ReceiptIInv, ReceiptTypeOK
  <2>2. i \in DOMAIN versions'[c]
    BY <1>2
  <2>3. versions[c][i] \in Version /\ versions'[c][i] \in Version
    BY <2>1, <2>2
  <2> QED
    BY <2>3 DEF Version
<1>5. StandsOnce'
  <2> SUFFICES ASSUME NEW c \in Charge, NEW i \in DOMAIN versions[c],
                      versions'[c][i].reversals = 0
               PROVE  i = Last(c)
    BY <1>2 DEF StandsOnce, Last
  <2>1. versions[c][i].reversals = 0
    BY <1>4 DEF InPlace
  <2> QED
    BY <2>1 DEF ReceiptIInv, StandsOnce, Last
<1>6. NotLeftOut'
  <2>1. ASSUME NEW c \in Charge, NEW i \in DOMAIN versions[c], versions'[c][i].by # NoBundle
        PROVE  c \in waived'
    BY <2>1 DEF InPlace, ReceiptIInv, NotLeftOut
  <2>2. ASSUME NEW g \in Handler, NEW c \in Charge \ (byHand' \cup waived'),
               editing'[g].op \in {"grn.reversed", "grn.checked"}
        PROVE  <<c, Last(c)>> \notin editing'[g].skip
    <3>1. c \in Charge \ (byHand \cup waived)
      BY DEF InPlace
    <3>2. CASE g = h
      BY <2>2, <3>1, <3>2 DEF Knows
    <3>3. CASE g # h
      BY <2>2, <3>1, <3>3 DEF ReceiptIInv, NotLeftOut
    <3> QED
      BY <3>2, <3>3
  <2> QED
    BY <1>2, <2>1, <2>2 DEF NotLeftOut
<1>7. ReceiptCharged'
  <2> SUFFICES ASSUME NEW c \in Charge \ (byHand' \cup waived')
               PROVE  /\ versions'[c][Last(c)].at = receivedAt
                      /\ \A i \in 1..Last(c) :
                           versions'[c][i].reversals = IF i = Last(c) THEN 0 ELSE 1
    BY <1>2 DEF ReceiptCharged, Last
  <2>1. c \in Charge \ (byHand \cup waived)
    BY DEF InPlace
  <2>2. DOMAIN versions[c] = 1..Last(c) /\ Last(c) \in 1..Last(c)
    BY DEF ReceiptIInv, ReceiptTypeOK, Last, Charged
  <2>3. \A i \in 1..Last(c) : /\ versions'[c][i].at = versions[c][i].at
                              /\ versions'[c][i].reversals = versions[c][i].reversals
    BY <2>2 DEF InPlace
  <2>4. /\ versions[c][Last(c)].at = receivedAt
        /\ \A i \in 1..Last(c) : versions[c][i].reversals = IF i = Last(c) THEN 0 ELSE 1
    BY <2>1 DEF ReceiptIInv, ReceiptCharged, Last
  <2> QED
    BY <2>2, <2>3, <2>4
<1> QED
  BY <1>1, <1>3, <1>5, <1>6, <1>7

\* The commit of an edit reverses the row that stands and lets its successor stand.
LEMMA CommitPreserves ==
    ASSUME ReceiptIInv, NEW h \in Handler, UpdateGrnCommit(h)
    PROVE  OneEdit' /\ FoundAll' /\ StandsOnce' /\ NotLeftOut' /\ ReceiptCharged'
<1> USE DEF ReceiptIInv
<1>1. /\ editing[h].op = "grn.checked"
      /\ receivedAt' = editing[h].date
      /\ versions' = [c \in Charge |-> Reposted(h, c)]
      /\ UNCHANGED <<byHand, waived>>
  BY DEF UpdateGrnCommit
<1>2. editing'[h].op = "idle" /\ \A g \in Handler : g # h => editing'[g] = editing[g]
  BY RestingCall, OtherCalls DEF UpdateGrnCommit, Answer
<1>3. LiveIsLast(h)
  BY <1>1, OneLive
<1>4. \A g \in Handler : ~ InGrnTx(g)'
  <2> SUFFICES ASSUME NEW g \in Handler PROVE ~ InGrnTx(g)'
    OBVIOUS
  <2>1. CASE g = h
    BY <1>2, <2>1 DEF InGrnTx
  <2>2. CASE g # h
    BY <1>1, <1>2, <2>2 DEF OneEdit, InGrnTx
  <2> QED
    BY <2>1, <2>2
<1>5. OneEdit'
  <2>1. \A g \in Handler : InGrn(g)' => editing'[g].date \in Date
    BY <1>2 DEF OneEdit, InGrn, InGrnTx
  <2> QED
    BY <1>4, <2>1 DEF OneEdit
<1>6. FoundAll'
  BY <1>4 DEF FoundAll, InGrnTx
<1>7. ASSUME NEW c \in Charge
      PROVE  /\ versions'[c] = Reposted(h, c) /\ DOMAIN versions'[c] = 1..Len(versions'[c])
             /\ LiveOf(h, c) \in {{}, {Last(c)}}
             /\ DOMAIN versions[c] = 1..Last(c) /\ Last(c) \in Nat \ {0}
             /\ \A i \in 1..Last(c) : versions[c][i] \in Version
             /\ \A i \in 1..Last(c) : versions[c][i].reversals = 0 => i = Last(c)
             /\ \A i \in 1..Last(c) : versions[c][i].by # NoBundle => c \in waived
  <2>1. versions'[c] = Reposted(h, c) /\ Reposted(h, c) \in Seq(Version)
    BY <1>1, <1>3, Repost
  <2>2. DOMAIN versions'[c] = 1..Len(versions'[c])
    BY <2>1
  <2>3. DOMAIN versions[c] = 1..Last(c) /\ Last(c) \in Nat \ {0}
    BY DEF ReceiptTypeOK, Last, Charged
  <2>4. \A i \in 1..Last(c) : versions[c][i] \in Version
    BY <2>3 DEF ReceiptTypeOK
  <2>5. LiveOf(h, c) \in {{}, {Last(c)}}
    BY <1>3 DEF LiveIsLast
  <2> QED
    BY <2>1, <2>2, <2>3, <2>4, <2>5 DEF StandsOnce, NotLeftOut, Last
<1>8. ASSUME NEW c \in Charge, LiveOf(h, c) = {}
      PROVE  /\ Len(versions'[c]) = Last(c)
             /\ \A i \in 1..Last(c) : versions'[c][i] = versions[c][i]
  <2>1. versions'[c] = Reposted(h, c)
    BY <1>7
  <2> QED
    BY <1>1, <1>3, <1>8, <2>1, Repost
<1>9. ASSUME NEW c \in Charge, LiveOf(h, c) = {Last(c)}
      PROVE  /\ Len(versions'[c]) = Last(c) + 1
             /\ \A i \in 1..Last(c) - 1 : versions'[c][i] = versions[c][i]
             /\ versions'[c][Last(c)].reversals = versions[c][Last(c)].reversals + 1
             /\ versions'[c][Last(c)].by = versions[c][Last(c)].by
             /\ versions'[c][Last(c) + 1].at = editing[h].date
             /\ versions'[c][Last(c) + 1].reversals = 0
             /\ versions'[c][Last(c) + 1].by = NoBundle
  <2>0. versions[c][Last(c)] \in Version
    BY <1>7
  <2>1. versions'[c] = Reposted(h, c)
    BY <1>7
  <2>2. /\ Len(versions'[c]) = Last(c) + 1
        /\ \A i \in 1..Last(c) - 1 : versions'[c][i] = versions[c][i]
        /\ versions'[c][Last(c)] =
             [versions[c][Last(c)] EXCEPT !.reversals = versions[c][Last(c)].reversals + 1]
        /\ versions'[c][Last(c) + 1] =
             [at |-> editing[h].date, reversals |-> 0, restored |-> 0, by |-> NoBundle]
    BY <1>1, <1>3, <1>9, <2>1, Repost
  <2> QED
    BY <2>0, <2>2 DEF Version
<1>10. StandsOnce'
  <2> SUFFICES ASSUME NEW c \in Charge, NEW i \in 1..Len(versions'[c]),
                      versions'[c][i].reversals = 0
               PROVE  i = Len(versions'[c])
    BY <1>7 DEF StandsOnce
  <2>1. CASE LiveOf(h, c) = {}
    BY <1>7, <1>8, <2>1
  <2>2. CASE LiveOf(h, c) = {Last(c)}
    <3>1. \A j \in 1..Last(c) - 1 : versions'[c][j].reversals # 0
      <4> TAKE j \in 1..Last(c) - 1
      <4>1. versions'[c][j] = versions[c][j]
        BY <1>9, <2>2
      <4>2. j \in 1..Last(c) /\ j # Last(c)
        BY <1>7
      <4> QED
        BY <1>7, <4>1, <4>2
    <3>2. versions[c][Last(c)].reversals \in Nat
      BY <1>7 DEF Version
    <3>3. versions'[c][Last(c)].reversals # 0
      <4>1. versions'[c][Last(c)].reversals = versions[c][Last(c)].reversals + 1
        BY <1>9, <2>2
      <4> QED
        BY <3>2, <4>1
    <3> QED
      BY <1>7, <1>9, <2>2, <3>1, <3>3
  <2> QED
    BY <1>7, <2>1, <2>2
<1>11. NotLeftOut'
  <2>1. ASSUME NEW c \in Charge, NEW i \in 1..Len(versions'[c]), versions'[c][i].by # NoBundle
        PROVE  c \in waived
    <3>1. CASE LiveOf(h, c) = {}
      BY <1>7, <1>8, <2>1, <3>1
    <3>2. CASE LiveOf(h, c) = {Last(c)}
      <4>1. i # Last(c) + 1
        BY <1>9, <2>1, <3>2
      <4>2. i \in 1..Last(c)
        BY <1>7, <1>9, <3>2, <4>1
      <4>3. versions'[c][i].by = versions[c][i].by
        <5>1. CASE i = Last(c)
          BY <1>9, <3>2, <5>1
        <5>2. CASE i # Last(c)
          <6>1. i \in 1..Last(c) - 1
            BY <1>7, <4>2, <5>2
          <6> QED
            BY <1>9, <3>2, <6>1
        <5> QED
          BY <5>1, <5>2
      <4> QED
        BY <1>7, <2>1, <4>2, <4>3
    <3> QED
      BY <1>7, <3>1, <3>2
  <2> QED
    BY <1>1, <1>4, <1>7, <2>1 DEF NotLeftOut, InGrnTx
<1>12. ReceiptCharged'
  <2> SUFFICES ASSUME NEW c \in Charge \ (byHand \cup waived)
               PROVE  /\ versions'[c][Len(versions'[c])].at = editing[h].date
                      /\ \A i \in 1..Len(versions'[c]) :
                           versions'[c][i].reversals = IF i = Len(versions'[c]) THEN 0 ELSE 1
    BY <1>1 DEF ReceiptCharged
  <2>1. Last(c) \in DOMAIN versions[c]
    BY <1>7
  <2>2. <<c, Last(c)>> \in editing[h].found /\ <<c, Last(c)>> \notin editing[h].skip
    BY <1>1, <2>1 DEF FoundAll, NotLeftOut
  <2>3. Last(c) \in LiveOf(h, c)
    BY <2>1, <2>2 DEF LiveOf, Live
  <2>4. LiveOf(h, c) = {Last(c)}
    BY <1>7, <2>3
  <2>5. \A i \in 1..Last(c) : versions[c][i].reversals = IF i = Last(c) THEN 0 ELSE 1
    BY DEF ReceiptCharged, Last
  <2> DEFINE n == Last(c)
             vs == versions'[c]
  <2>6. /\ n \in Nat \ {0} /\ Len(vs) = n + 1
        /\ \A i \in 1..n - 1 : vs[i] = versions[c][i]
        /\ vs[n].reversals = versions[c][n].reversals + 1
        /\ vs[n + 1].at = editing[h].date /\ vs[n + 1].reversals = 0
    BY <1>7, <1>9, <2>4
  <2> HIDE DEF n, vs
  <2>7. \A i \in 1..n : versions[c][i].reversals = IF i = n THEN 0 ELSE 1
    BY <2>5 DEF n
  <2>8. ASSUME NEW i \in 1..n + 1
        PROVE  vs[i].reversals = IF i = n + 1 THEN 0 ELSE 1
    <3>1. CASE i = n + 1
      BY <2>6, <3>1
    <3>2. CASE i = n
      BY <2>6, <2>7, <3>2
    <3>3. CASE i # n + 1 /\ i # n
      <4>1. i \in 1..n - 1 /\ i \in 1..n
        BY <2>6, <3>3
      <4> QED
        BY <2>6, <2>7, <3>3, <4>1
    <3> QED
      BY <3>1, <3>2, <3>3
  <2>9. vs[Len(vs)].at = editing[h].date
    BY <2>6
  <2> QED
    BY <2>6, <2>8, <2>9 DEF vs
<1> QED
  BY <1>5, <1>6, <1>10, <1>11, <1>12

\* A call that has nothing to do with the date of the receipt.
LEMMA OtherWork ==
    ASSUME ReceiptIInv, InPlace, receivedAt' = receivedAt, NEW h \in Handler, NEW call,
           editing' = [editing EXCEPT ![h] = call],
           call.op \notin {"grn", "grn.locked", "grn.found", "grn.reversed", "grn.checked"}
    PROVE  OneEdit' /\ FoundAll' /\ StandsOnce' /\ NotLeftOut' /\ ReceiptCharged'
<1>1. editing'[h] = call /\ \A g \in Handler : g # h => editing'[g] = editing[g]
  BY OtherCalls DEF ReceiptIInv
<1>2. Knows(h)
  BY <1>1, KnowsNothing
<1> QED
  BY <1>1, <1>2, InPlacePreserves

LEMMA ReceiptStarts == ReceiptInit => ReceiptIInv
<1> SUFFICES ASSUME ReceiptInit PROVE ReceiptIInv
  OBVIOUS
<1>1. ReceiptTypeOK /\ Charged
  BY ReceiptStartsTyped
<1>2. \A h \in Handler : editing[h].op = "idle"
  BY RestingCall DEF ReceiptInit
<1>3. OneEdit /\ FoundAll
  BY <1>2 DEF OneEdit, FoundAll, InGrn, InGrnTx
<1>4. \A c \in Charge :
        /\ Len(versions[c]) = 1 /\ DOMAIN versions[c] = {1}
        /\ versions[c][1].at = receivedAt /\ versions[c][1].reversals = 0
        /\ versions[c][1].by = NoBundle
  BY DEF ReceiptInit
<1>5. StandsOnce
  <2> SUFFICES ASSUME NEW c \in Charge, NEW i \in DOMAIN versions[c] PROVE i = Len(versions[c])
    BY DEF StandsOnce
  <2>1. i = 1
    BY <1>4
  <2> QED
    BY <1>4, <2>1
<1>6. NotLeftOut
  BY <1>2, <1>4 DEF NotLeftOut
<1>7. ReceiptCharged
  BY <1>4 DEF ReceiptCharged
<1> QED
  BY <1>1, <1>3, <1>5, <1>6, <1>7 DEF ReceiptIInv

LEMMA ReceiptSteps == ReceiptIInv /\ [ReceiptNext]_receiptVars => ReceiptIInv'
<1> SUFFICES ASSUME ReceiptIInv, [ReceiptNext]_receiptVars PROVE ReceiptIInv'
  OBVIOUS
<1> DEFINE Goal == OneEdit' /\ FoundAll' /\ StandsOnce' /\ NotLeftOut' /\ ReceiptCharged'
<1>T. ReceiptTypeOK' /\ Charged'
  BY ReceiptTypePreserved DEF ReceiptIInv
<1>R. Resting.op = "idle"
  BY RestingCall
<1>E. /\ ReceiptTypeOK /\ OneEdit /\ FoundAll /\ StandsOnce /\ NotLeftOut /\ ReceiptCharged
      /\ \A h \in Handler : editing[h] \in EditCall
  BY DEF ReceiptIInv, ReceiptTypeOK
<1>0. ASSUME UNCHANGED receiptVars PROVE Goal
  BY <1>0, <1>E DEF receiptVars, OneEdit, FoundAll, StandsOnce, NotLeftOut, ReceiptCharged, InGrn,
                    InGrnTx, Last
<1>1. ASSUME NEW h \in Handler, NEW d \in Date, UpdateGrn(h, d) PROVE Goal
  <2> DEFINE call == [editing[h] EXCEPT !.op = "grn", !.date = d]
  <2>1. editing' = [editing EXCEPT ![h] = call]
    BY <1>1 DEF UpdateGrn
  <2>A. call.op = "grn" /\ call.date = d
    BY <1>E DEF EditCall
  <2> HIDE DEF call
  <2>2. /\ editing'[h].op = "grn" /\ editing'[h].date = d
        /\ \A g \in Handler : g # h => editing'[g] = editing[g]
    BY <1>E, <2>1, <2>A, OtherCalls
  <2>3. Knows(h)
    BY <2>2 DEF Knows, InGrn, InGrnTx
  <2>4. InPlace /\ receivedAt' = receivedAt
    BY <1>1, <1>E, RowsUntouched DEF UpdateGrn
  <2> QED
    BY <2>2, <2>3, <2>4, InPlacePreserves
<1>2. ASSUME NEW h \in Handler, UpdateGrnLock(h) PROVE Goal
  <2> DEFINE call == [editing[h] EXCEPT !.op = "grn.locked"]
  <2>1. editing' = [editing EXCEPT ![h] = call]
    BY <1>2 DEF UpdateGrnLock, Step
  <2>A. call.op = "grn.locked" /\ call.date = editing[h].date
    BY <1>E DEF EditCall
  <2> HIDE DEF call
  <2>2. /\ editing'[h].op = "grn.locked" /\ editing'[h].date = editing[h].date
        /\ \A g \in Handler : g # h => editing'[g] = editing[g]
    BY <1>E, <2>1, <2>A, OtherCalls
  <2>3. Knows(h)
    BY <1>2, <1>E, <2>2 DEF Knows, UpdateGrnLock, OneEdit, InGrn
  <2>4. InPlace /\ receivedAt' = receivedAt
    BY <1>2, <1>E, RowsUntouched DEF UpdateGrnLock
  <2> QED
    BY <2>2, <2>3, <2>4, InPlacePreserves
<1>3. ASSUME NEW h \in Handler, UpdateGrnFind(h) PROVE Goal
  <2> DEFINE rows == RowsOf(Charge)
  <2>0. \A c \in Charge : \A i \in DOMAIN versions[c] : <<c, i>> \in rows
    BY DEF RowsOf
  <2> DEFINE call == [editing[h] EXCEPT !.op = "grn.found", !.found = rows]
  <2>1. editing' = [editing EXCEPT ![h] = call]
    BY <1>3 DEF UpdateGrnFind
  <2> HIDE DEF rows
  <2>A. call.op = "grn.found" /\ call.found = rows /\ call.date = editing[h].date
    BY <1>E DEF EditCall
  <2> HIDE DEF call
  <2>2. /\ editing'[h].op = "grn.found" /\ editing'[h].found = rows
        /\ editing'[h].date = editing[h].date
        /\ \A g \in Handler : g # h => editing'[g] = editing[g]
    BY <1>E, <2>1, <2>A, OtherCalls
  <2>3. Knows(h)
    BY <1>3, <1>E, <2>0, <2>2 DEF Knows, UpdateGrnFind, OneEdit, InGrn, InGrnTx
  <2>4. InPlace /\ receivedAt' = receivedAt
    BY <1>3, <1>E, RowsUntouched DEF UpdateGrnFind
  <2> QED
    BY <2>2, <2>3, <2>4, InPlacePreserves
<1>4. ASSUME NEW h \in Handler, UpdateGrnReversed(h) PROVE Goal
  <2> DEFINE rows == {r \in editing[h].found : versions[r[1]][r[2]].reversals > 0}
  <2>5. editing[h].op = "grn.found"
    BY <1>4 DEF UpdateGrnReversed
  <2>6. \A c \in Charge : DOMAIN versions[c] = 1..Last(c) /\ Last(c) \in Nat \ {0}
    BY DEF ReceiptIInv, ReceiptTypeOK, Charged, Last
  <2>7. ASSUME NEW c \in Charge, NEW i \in DOMAIN versions[c]
        PROVE  /\ <<c, i>> \in rows <=> versions[c][i].reversals > 0
               /\ versions[c][i].reversals \in Nat
    <3>1. <<c, i>> \in editing[h].found
      BY <1>E, <2>5 DEF FoundAll
    <3>2. versions[c][i] \in Version
      BY <1>E DEF ReceiptTypeOK
    <3> QED
      BY <3>1, <3>2 DEF Version
  <2> DEFINE call == [editing[h] EXCEPT !.op = "grn.reversed", !.skip = rows]
  <2>1. editing' = [editing EXCEPT ![h] = call]
    BY <1>4 DEF UpdateGrnReversed
  <2> HIDE DEF rows
  <2>A. /\ call.op = "grn.reversed" /\ call.found = editing[h].found /\ call.skip = rows
        /\ call.date = editing[h].date
    BY <1>E DEF EditCall
  <2> HIDE DEF call
  <2>2. /\ editing'[h].op = "grn.reversed" /\ editing'[h].found = editing[h].found
        /\ editing'[h].skip = rows /\ editing'[h].date = editing[h].date
        /\ \A g \in Handler : g # h => editing'[g] = editing[g]
    BY <1>E, <2>1, <2>A, OtherCalls
  <2>8. \A c \in Charge : \A i \in DOMAIN versions[c] : i # Last(c) => <<c, i>> \in rows
    BY <1>E, <2>7 DEF StandsOnce, Last
  <2>9. \A c \in Charge \ (byHand \cup waived) : <<c, Last(c)>> \notin rows
    <3> TAKE c \in Charge \ (byHand \cup waived)
    <3>1. Last(c) \in DOMAIN versions[c] /\ Last(c) \in 1..Last(c)
      BY <2>6
    <3>2. versions[c][Last(c)].reversals = 0
      BY <1>E, <3>1 DEF ReceiptCharged, Last
    <3> QED
      BY <2>7, <3>1, <3>2
  <2>3. Knows(h)
    BY <1>E, <2>2, <2>5, <2>8, <2>9 DEF Knows, OneEdit, FoundAll, InGrn, InGrnTx
  <2>4. InPlace /\ receivedAt' = receivedAt
    BY <1>4, <1>E, RowsUntouched DEF UpdateGrnReversed
  <2> QED
    BY <2>2, <2>3, <2>4, InPlacePreserves
<1>5. ASSUME NEW h \in Handler, UpdateGrnSuppressed(h) PROVE Goal
  <2> DEFINE more == {r \in editing[h].found : versions[r[1]][r[2]].by # NoBundle}
             rows == editing[h].skip \cup more
  <2>5. editing[h].op = "grn.reversed"
    BY <1>5 DEF UpdateGrnSuppressed
  <2>6. \A c \in Charge : Last(c) \in DOMAIN versions[c]
    BY DEF ReceiptIInv, ReceiptTypeOK, Charged, Last
  <2> DEFINE call == [editing[h] EXCEPT !.op = "grn.checked", !.skip = rows]
  <2>1. editing' = [editing EXCEPT ![h] = call]
    BY <1>5 DEF UpdateGrnSuppressed
  <2>7. \A c \in Charge \ (byHand \cup waived) : <<c, Last(c)>> \notin rows
    <3> TAKE c \in Charge \ (byHand \cup waived)
    <3>1. <<c, Last(c)>> \notin editing[h].skip
      BY <1>E, <2>5 DEF NotLeftOut
    <3>2. versions[c][Last(c)].by = NoBundle
      BY <1>E, <2>6 DEF NotLeftOut
    <3> QED
      BY <3>1, <3>2
  <2>8. editing[h].skip \subseteq rows
    OBVIOUS
  <2> HIDE DEF rows
  <2>A. /\ call.op = "grn.checked" /\ call.found = editing[h].found /\ call.skip = rows
        /\ call.date = editing[h].date
    BY <1>E DEF EditCall
  <2> HIDE DEF call
  <2>2. /\ editing'[h].op = "grn.checked" /\ editing'[h].found = editing[h].found
        /\ editing'[h].skip = rows /\ editing'[h].date = editing[h].date
        /\ \A g \in Handler : g # h => editing'[g] = editing[g]
    BY <1>E, <2>1, <2>A, OtherCalls
  <2>3. Knows(h)
    BY <1>E, <2>2, <2>5, <2>7, <2>8 DEF Knows, OneEdit, FoundAll, InGrn, InGrnTx
  <2>4. InPlace /\ receivedAt' = receivedAt
    BY <1>5, <1>E, RowsUntouched DEF UpdateGrnSuppressed
  <2> QED
    BY <2>2, <2>3, <2>4, InPlacePreserves
<1>6. ASSUME NEW h \in Handler, UpdateGrnCommit(h) PROVE Goal
  BY <1>6, CommitPreserves
<1>7. ASSUME NEW h \in Handler, NEW c \in Charge, NEW i \in DOMAIN versions[c],
             CorrectCharge(h, c, i) \/ CorrectReversal(h, c, i)
      PROVE  Goal
  <2> DEFINE call == [editing[h] EXCEPT !.op = "correct.clear"]
  <2>1. call.op = "correct.clear"
    BY <1>E DEF EditCall
  <2>2. editing' = [editing EXCEPT ![h] = call] /\ receivedAt' = receivedAt
    BY <1>7 DEF CorrectCharge, CorrectReversal, Step
  <2> HIDE DEF call
  <2>3. InPlace
    BY <1>7, <1>E, CorrectChargeInPlace, CorrectReversalInPlace
  <2> QED
    BY <2>1, <2>2, <2>3, OtherWork
<1>8. ASSUME NEW h \in Handler, NEW b \in Bundle, CorrectBundle(h, b) PROVE Goal
  <2> DEFINE call == [editing[h] EXCEPT !.op = "correct.clear", !.id = b]
  <2>1. call.op = "correct.clear"
    BY <1>E DEF EditCall
  <2>2. editing' = [editing EXCEPT ![h] = call] /\ receivedAt' = receivedAt
    BY <1>8 DEF CorrectBundle
  <2> HIDE DEF call
  <2>3. InPlace
    BY <1>8, <1>E, RowsUntouched DEF CorrectBundle
  <2> QED
    BY <2>1, <2>2, <2>3, OtherWork
<1>9. ASSUME NEW h \in Handler, CorrectClear(h) PROVE Goal
  <2>1. editing' = [editing EXCEPT ![h] = Resting] /\ receivedAt' = receivedAt
    BY <1>9 DEF CorrectClear, Answer
  <2>2. InPlace
    BY <1>9, <1>E, CorrectClearInPlace
  <2> QED
    BY <1>R, <2>1, <2>2, OtherWork
<1>10. ASSUME NEW h \in Handler, NEW b \in Bundle, NEW a \in Device, OrderPost(h, b, a) PROVE Goal
  <2> DEFINE call == [editing[h] EXCEPT !.op = "order", !.id = b, !.asset = {a}]
  <2>1. call.op = "order"
    BY <1>E DEF EditCall
  <2>2. editing' = [editing EXCEPT ![h] = call] /\ receivedAt' = receivedAt
    BY <1>10 DEF OrderPost
  <2> HIDE DEF call
  <2>3. InPlace
    BY <1>10, <1>E, RowsUntouched DEF OrderPost
  <2> QED
    BY <2>1, <2>2, <2>3, OtherWork
<1>11. ASSUME NEW h \in Handler, OrderFind(h) PROVE Goal
  <2> DEFINE rows == RowsOf({c \in Charge : DeviceOf[c] \in editing[h].asset})
             call == [editing[h] EXCEPT !.op = "order.found", !.found = rows]
  <2>2. editing' = [editing EXCEPT ![h] = call] /\ receivedAt' = receivedAt
    BY <1>11 DEF OrderFind
  <2> HIDE DEF rows
  <2>1. call.op = "order.found"
    BY <1>E DEF EditCall
  <2> HIDE DEF call
  <2>3. InPlace
    BY <1>11, <1>E, RowsUntouched DEF OrderFind
  <2> QED
    BY <2>1, <2>2, <2>3, OtherWork
<1>12. ASSUME NEW h \in Handler, OrderCommit(h) PROVE Goal
  <2>1. editing' = [editing EXCEPT ![h] = Resting] /\ receivedAt' = receivedAt
    BY <1>12 DEF OrderCommit, Answer
  <2>2. InPlace
    BY <1>12, <1>E, OrderCommitInPlace
  <2> QED
    BY <1>R, <2>1, <2>2, OtherWork
<1>13. ASSUME NEW h \in Handler, ReceiptFail(h) PROVE Goal
  <2>1. editing' = [editing EXCEPT ![h] = Resting] /\ receivedAt' = receivedAt
    BY <1>13 DEF ReceiptFail, Answer
  <2>2. InPlace
    BY <1>13, <1>E, RowsUntouched DEF ReceiptFail
  <2> QED
    BY <1>R, <2>1, <2>2, OtherWork
<1>14. Goal
  <2> HIDE DEF Goal
  <2> QED
    BY <1>0, <1>1, <1>2, <1>3, <1>4, <1>5, <1>6, <1>7, <1>8, <1>9, <1>10, <1>11, <1>12, <1>13
       DEF ReceiptNext
<1> QED
  BY <1>T, <1>14 DEF ReceiptIInv

\* The inductive invariant.
THEOREM ReceiptInvariant == ReceiptSpec => []ReceiptIInv
<1> QED
  BY ReceiptStarts, ReceiptSteps, PTL DEF ReceiptSpec

\* The receipt's date, rows, orders and calls are what their columns can hold.
THEOREM ReceiptTyped == ReceiptSpec => []ReceiptTypeOK
<1>1. ReceiptIInv => ReceiptTypeOK
  BY DEF ReceiptIInv
<1> QED
  BY <1>1, ReceiptInvariant, PTL

\* Whatever is edited, corrected, waived or fails, in whatever order: a device's
\* reception is never charged twice.
THEOREM ReceptionStandsOnce == ReceiptSpec => []StandsOnce
<1>1. ReceiptIInv => StandsOnce
  BY DEF ReceiptIInv
<1> QED
  BY <1>1, ReceiptInvariant, PTL

\* Concurrent edits of the date alone leave one standing row for each charge, at
\* the date of the receipt, and every earlier row reversed exactly once.
THEOREM ReceptionFollowsDate == ReceiptSpec => []ReceiptCharged
<1>1. ReceiptIInv => ReceiptCharged
  BY DEF ReceiptIInv
<1> QED
  BY <1>1, ReceiptInvariant, PTL
================================================================================
