------------------------ MODULE InboundBillingProofs ------------------------
(***************************************************************************)
(* InboundBilling proved: its inductive invariant, and that it implements  *)
(* Invoicing.                                                              *)
(***************************************************************************)
EXTENDS InboundBilling, FiniteSetTheorems, TLAPS

USE InboundBillingAssumption, BackendAssumption

\* Nothing is billed and no call is in flight.
LEMMA InitIInv == Init => IInv
  BY DEF Init, IInv, TypeOK, StampedIsCharged, MarkCalls, UndoCalls, Visiting, Apart, Issued,
         NoRow, Idle, BillingRecord, CallRecord

\* A step in which h answers and the tables stay as they are keeps the invariant.
LEMMA ReplyKeeps ==
    ASSUME IInv, NEW h \in Handler, Reply(h), failures' \in 0..MaxFailures,
           UNCHANGED <<record, stamp, owing>>
    PROVE  IInv'
<1>1. /\ call' \in [Handler -> CallRecord] /\ call'[h] = Idle
      /\ \A g \in Handler \ {h} : call'[g] = call[g]
  BY DEF IInv, TypeOK, Reply, Idle, CallRecord
<1>2. TypeOK' /\ StampedIsCharged' /\ Issued'
  BY <1>1 DEF IInv, TypeOK, StampedIsCharged, Issued
<1>3. MarkCalls' /\ UndoCalls'
  BY <1>1 DEF IInv, MarkCalls, UndoCalls, Idle
<1>4. Visiting'
  BY <1>1 DEF IInv, Visiting, Idle
<1>5. Apart'
  BY <1>1 DEF IInv, Apart, MarkCalls, Idle
<1> QED BY <1>2, <1>3, <1>4, <1>5 DEF IInv

\* A step of one call that writes no table keeps the invariant, if what the call
\* knows afterwards is true and its rows are its own.
LEMMA CallKeeps ==
    ASSUME IInv, NEW h \in Handler, NEW c \in CallRecord,
           call' = [call EXCEPT ![h] = c],
           UNCHANGED <<record, stamp, owing, failures>>,
           MarkCalls', UndoCalls', Visiting', Apart'
    PROVE  IInv'
<1>1. TypeOK'
  BY DEF IInv, TypeOK
<1>2. StampedIsCharged' /\ Issued'
  BY DEF IInv, StampedIsCharged, Issued
<1> QED BY <1>1, <1>2 DEF IInv

LEMMA MarkBilledStep ==
    ASSUME IInv, NEW h \in Handler, NEW client \in Client, MarkBilled(h, client)
    PROVE  IInv'
<1>1. PICK r \in RecordId :
        /\ Fresh(r)
        /\ call' = [call EXCEPT ![h] = [Idle EXCEPT !.op = "mark", !.id = r,
                                                    !.client = client,
                                                    !.want = PendingOf(client)]]
  BY DEF MarkBilled
<1> DEFINE c == [Idle EXCEPT !.op = "mark", !.id = r, !.client = client,
                             !.want = PendingOf(client)]
<1>2. /\ c \in CallRecord /\ c.op = "mark" /\ c.id = r /\ c.client = client
      /\ c.want = PendingOf(client) /\ c.rows = {} /\ c.todo = {} /\ c.next = {}
  BY DEF CallRecord, Idle, PendingOf
<1>3. /\ PendingOf(client) # {} /\ \A a \in PendingOf(client) : ClientOf[a] = client
      /\ UNCHANGED <<record, stamp, owing, failures>>
      /\ call' = [call EXCEPT ![h] = c]
  BY <1>1 DEF MarkBilled, PendingOf
<1> HIDE DEF c
<1>4. /\ call'[h] = c /\ \A g \in Handler \ {h} : call'[g] = call[g]
  BY <1>3 DEF IInv, TypeOK
<1>0. record[r].status = "absent" /\ \A g \in Handler : call[g].id # r
  BY <1>1 DEF Fresh
<1>5. MarkCalls'
  BY <1>0, <1>2, <1>3, <1>4 DEF IInv, MarkCalls
<1>6. UndoCalls'
  BY <1>2, <1>3, <1>4 DEF IInv, UndoCalls
<1>7. Visiting'
  BY <1>2, <1>4 DEF IInv, Visiting
<1>8. Apart'
  BY <1>0, <1>2, <1>4 DEF IInv, Apart
<1> QED BY <1>2, <1>3, <1>5, <1>6, <1>7, <1>8, CallKeeps

\* An updateMany starts with rows that qualify.
LEMMA StartStep ==
    ASSUME IInv, NEW h \in Handler, MarkStart(h) \/ UndoStart(h)
    PROVE  IInv'
<1> DEFINE k == call[h]
<1>1. /\ call \in [Handler -> CallRecord] /\ k \in CallRecord
      /\ stamp \in [Asset -> RecordId \cup {NoRecord}]
      /\ UNCHANGED <<record, stamp, owing, failures>>
      /\ k.op \in {"mark", "undo"} /\ k.rows = {} /\ k.id \in RecordId
  BY DEF IInv, TypeOK, MarkCalls, UndoCalls, MarkStart, UndoStart, Start
<1>2. PICK to \in {"mark.claim", "undo.clear"}, S \in SUBSET Asset, first \in SUBSET Asset :
        /\ first \in Firsts(S)
        /\ \/ k.op = "mark" /\ to = "mark.claim" /\ S \subseteq k.want
           \/ /\ k.op = "undo" /\ to = "undo.clear"
              /\ S = {a \in Asset : stamp[a] = k.id}
        /\ call' = [call EXCEPT ![h] = [k EXCEPT !.op = to, !.todo = S, !.next = first]]
  <2>1. CASE MarkStart(h)
    <3> DEFINE S == {a \in k.want : stamp[a] = NoRecord}
    <3>1. S \in SUBSET Asset
      BY <1>1 DEF CallRecord
    <3>2. Firsts(S) \subseteq SUBSET Asset
      BY <3>1 DEF Firsts
    <3> QED BY <2>1, <3>1, <3>2 DEF MarkStart, Start
  <2>2. CASE UndoStart(h)
    <3> DEFINE S == {a \in Asset : stamp[a] = k.id}
    <3>1. S \in SUBSET Asset /\ Firsts(S) \subseteq SUBSET Asset
      BY DEF Firsts
    <3> QED BY <2>2, <3>1 DEF UndoStart, Start
  <2> QED BY <2>1, <2>2
<1>3. first \subseteq S /\ (first = {} <=> S = {})
  BY <1>2 DEF Firsts
<1> DEFINE c == [k EXCEPT !.op = to, !.todo = S, !.next = first]
<1>4. /\ c \in CallRecord /\ c.op = to /\ c.id = k.id /\ c.client = k.client
      /\ c.want = k.want /\ c.rows = {} /\ c.todo = S /\ c.next = first
  BY <1>1, <1>3 DEF CallRecord
<1>5. call' = [call EXCEPT ![h] = c]
  BY <1>2
<1> HIDE DEF c
<1>6. call'[h] = c /\ \A g \in Handler \ {h} : call'[g] = call[g]
  BY <1>1, <1>5
<1>7. MarkCalls'
  BY <1>1, <1>2, <1>3, <1>4, <1>6 DEF IInv, MarkCalls
<1>8. UndoCalls'
  BY <1>1, <1>2, <1>4, <1>6 DEF IInv, UndoCalls
<1>9. Visiting'
  BY <1>2, <1>3, <1>4, <1>6 DEF IInv, Visiting
<1>10. Apart'
  BY <1>2, <1>4, <1>6 DEF IInv, Apart
<1> QED BY <1>1, <1>4, <1>5, <1>7, <1>8, <1>9, <1>10, CallKeeps

\* It visits one of them, which no other transaction holds.
LEMMA VisitStep ==
    ASSUME IInv, NEW h \in Handler, MarkClaim(h) \/ UndoClear(h)
    PROVE  IInv'
<1> DEFINE k == call[h]
           was == IF k.op = "mark.claim" THEN NoRecord ELSE k.id
           left == k.todo \ k.next
           found == {a \in k.next : stamp[a] = was}
<1>1. /\ call \in [Handler -> CallRecord] /\ k \in CallRecord
      /\ stamp \in [Asset -> RecordId \cup {NoRecord}]
      /\ UNCHANGED <<record, stamp, owing, failures>>
      /\ k.op \in {"mark.claim", "undo.clear"} /\ k.id \in RecordId
      /\ \A g \in Handler : ~ Waits(h, g)
      /\ k.next \subseteq k.todo
  BY DEF IInv, TypeOK, MarkCalls, UndoCalls, Visiting, MarkClaim, UndoClear, Visit
<1>2. PICK next \in Firsts(left) :
        call' = [call EXCEPT ![h] = [k EXCEPT !.rows = k.rows \cup found,
                                              !.todo = left, !.next = next]]
  BY DEF MarkClaim, UndoClear, Visit
<1>3. next \subseteq left /\ (next = {} <=> left = {})
  BY DEF Firsts
<1> DEFINE c == [k EXCEPT !.rows = k.rows \cup found, !.todo = left, !.next = next]
<1>4. /\ c \in CallRecord /\ c.op = k.op /\ c.id = k.id /\ c.client = k.client
      /\ c.want = k.want /\ c.rows = k.rows \cup found /\ c.todo = left /\ c.next = next
  BY <1>1, <1>3 DEF CallRecord
<1>5. call' = [call EXCEPT ![h] = c]
  BY <1>2
<1> HIDE DEF c
<1>6. call'[h] = c /\ \A g \in Handler \ {h} : call'[g] = call[g]
  BY <1>1, <1>5
<1>7. MarkCalls'
  BY <1>1, <1>3, <1>4, <1>6 DEF IInv, MarkCalls
<1>8. UndoCalls'
  BY <1>1, <1>4, <1>6 DEF IInv, UndoCalls
<1>9. Visiting'
  BY <1>1, <1>3, <1>4, <1>6 DEF IInv, Visiting
<1>10. Apart'
  <2>1. \A g \in Handler \ {h} : c.rows \cap call[g].rows = {}
    BY <1>1, <1>4 DEF IInv, Apart, Waits
  <2> QED BY <1>4, <1>6, <2>1 DEF IInv, Apart
<1> QED BY <1>1, <1>4, <1>5, <1>7, <1>8, <1>9, <1>10, CallKeeps

\* The count compared before the commit is enough: the rows updated are among
\* the devices charged, so as many rows are the same rows.
LEMMA CountedAll ==
    ASSUME IInv, NEW h \in Handler, call[h].op = "mark.claim",
           Cardinality(call[h].rows) = Cardinality(call[h].want)
    PROVE  call[h].rows = call[h].want
<1>1. /\ call[h].rows \subseteq call[h].want /\ call[h].want \subseteq Asset
  BY DEF IInv, TypeOK, MarkCalls, CallRecord
<1>2. IsFiniteSet(call[h].want)
  BY <1>1, FS_Subset
<1> QED BY <1>1, <1>2, FS_Subset

\* A commit of h changes the stamps of its own rows only: what the other calls
\* know stays true.
LEMMA CommitKeepsCalls ==
    ASSUME IInv, NEW h \in Handler, NEW r \in RecordId, r = call[h].id, Reply(h),
           \A x \in RecordId \ {r} : record'[x] = record[x],
           \A a \in Asset \ call[h].rows : stamp'[a] = stamp[a],
           \/ /\ call[h].op = "mark.claim"
              /\ \A a \in call[h].rows : stamp'[a] = r
           \/ /\ call[h].op = "undo.clear"
              /\ \A a \in call[h].rows : stamp'[a] = NoRecord
              /\ record'[r].status = "deleted"
    PROVE  MarkCalls' /\ UndoCalls' /\ Visiting' /\ Apart'
<1>1. /\ call \in [Handler -> CallRecord] /\ call'[h] = Idle
      /\ \A g \in Handler \ {h} : call'[g] = call[g]
      /\ \A g \in Handler : call[g].rows \subseteq Asset
  BY DEF IInv, TypeOK, CallRecord, Reply
<1>2. /\ \A g \in Handler \ {h} : call[g].rows \cap call[h].rows = {}
      /\ \A g \in Handler \ {h} : call[g].op \in {"mark", "mark.claim"} => call[g].id # r
      /\ call[h].op = "mark.claim" => \A g \in Handler \ {h} : call[g].id # r
  BY DEF IInv, Apart
<1>3. MarkCalls'
  BY <1>1, <1>2 DEF IInv, MarkCalls, Idle
<1>4. UndoCalls'
  BY <1>1, <1>2 DEF IInv, UndoCalls, Idle
<1>5. Visiting'
  BY <1>1 DEF IInv, Visiting, Idle
<1>6. Apart'
  BY <1>1 DEF IInv, Apart, MarkCalls, Idle
<1> QED BY <1>3, <1>4, <1>5, <1>6

LEMMA MarkCommitStep ==
    ASSUME IInv, NEW h \in Handler, MarkCommit(h)
    PROVE  IInv'
<1> DEFINE r == call[h].id
<1>1. /\ call \in [Handler -> CallRecord] /\ call[h].op = "mark.claim"
      /\ r \in RecordId /\ record[r].status = "absent" /\ call[h].client \in Client
      /\ call[h].want # {} /\ call[h].want \subseteq Asset
      /\ \A a \in call[h].want : ClientOf[a] = call[h].client
      /\ \A a \in call[h].rows : stamp[a] = NoRecord
      /\ record \in [RecordId -> BillingRecord]
      /\ stamp \in [Asset -> RecordId \cup {NoRecord}] /\ failures \in 0..MaxFailures
      /\ UNCHANGED <<owing, failures>> /\ Reply(h)
  BY DEF IInv, TypeOK, MarkCalls, MarkCommit, CallRecord
<1>2. CASE Cardinality(call[h].rows) # Cardinality(call[h].want)
  <2>1. UNCHANGED <<record, stamp>>
    BY <1>2 DEF MarkCommit
  <2> QED BY <1>1, <2>1, ReplyKeeps
<1>3. CASE Cardinality(call[h].rows) = Cardinality(call[h].want)
  <2>1. /\ record' = [record EXCEPT ![r] =
             [status |-> "live", client |-> call[h].client, assets |-> call[h].want]]
        /\ stamp' = [a \in Asset |-> IF a \in call[h].rows THEN r ELSE stamp[a]]
        /\ call' = [call EXCEPT ![h] = Idle]
        /\ call[h].rows = call[h].want
    BY <1>1, <1>3, CountedAll DEF MarkCommit, Reply
  <2>2. /\ record' \in [RecordId -> BillingRecord]
        /\ record'[r] = [status |-> "live", client |-> call[h].client, assets |-> call[h].want]
        /\ \A x \in RecordId \ {r} : record'[x] = record[x]
    BY <1>1, <2>1 DEF BillingRecord
  <2>3. TypeOK'
    BY <1>1, <2>1, <2>2 DEF IInv, TypeOK, Idle, CallRecord
  <2>4. StampedIsCharged'
    BY <1>1, <2>1, <2>2 DEF IInv, StampedIsCharged
  <2>5. Issued'
    BY <1>1, <2>2 DEF IInv, Issued
  <2>6. MarkCalls' /\ UndoCalls' /\ Visiting' /\ Apart'
    BY <1>1, <2>1, <2>2, CommitKeepsCalls
  <2> QED BY <2>3, <2>4, <2>5, <2>6 DEF IInv
<1> QED BY <1>2, <1>3

LEMMA UndoStep ==
    ASSUME IInv, NEW h \in Handler, NEW r \in RecordId, Undo(h, r)
    PROVE  IInv'
<1> DEFINE c == [Idle EXCEPT !.op = "undo", !.id = r]
<1>1. /\ call \in [Handler -> CallRecord] /\ call' = [call EXCEPT ![h] = c]
      /\ UNCHANGED <<record, stamp, owing, failures>> /\ record[r].status = "live"
  BY DEF IInv, TypeOK, Undo
<1>2. /\ c \in CallRecord /\ c.op = "undo" /\ c.id = r /\ c.rows = {} /\ c.todo = {}
      /\ c.next = {}
  BY DEF Idle, CallRecord
<1> HIDE DEF c
<1>3. call'[h] = c /\ \A g \in Handler \ {h} : call'[g] = call[g]
  BY <1>1
<1>4. MarkCalls' /\ UndoCalls' /\ Visiting'
  BY <1>1, <1>2, <1>3 DEF IInv, MarkCalls, UndoCalls, Visiting
<1>5. Apart'
  <2>1. \A g \in Handler : call[g].op \in {"mark", "mark.claim"} => call[g].id # r
    BY <1>1 DEF IInv, MarkCalls
  <2> QED BY <1>2, <1>3, <2>1 DEF IInv, Apart
<1> QED BY <1>1, <1>2, <1>4, <1>5, CallKeeps

\* The rows cleared are all the rows stamped: the record goes with its last stamp.
LEMMA ClearedAll ==
    ASSUME IInv, NEW h \in Handler, call[h].op = "undo.clear", call[h].next = {}
    PROVE  {a \in Asset : stamp[a] = call[h].id} \subseteq call[h].rows
  BY DEF IInv, UndoCalls, Visiting

LEMMA UndoDeleteStep ==
    ASSUME IInv, NEW h \in Handler, UndoDelete(h)
    PROVE  IInv'
<1> DEFINE r == call[h].id
<1>1. /\ call \in [Handler -> CallRecord] /\ call[h].op = "undo.clear" /\ r \in RecordId
      /\ call[h].next = {}
      /\ record \in [RecordId -> BillingRecord]
      /\ stamp \in [Asset -> RecordId \cup {NoRecord}] /\ failures \in 0..MaxFailures
      /\ UNCHANGED <<owing, failures>> /\ Reply(h)
  BY DEF IInv, TypeOK, UndoCalls, UndoDelete
<1>2. CASE record[r].status # "live"
  <2>1. UNCHANGED <<record, stamp>>
    BY <1>2 DEF UndoDelete
  <2> QED BY <1>1, <2>1, ReplyKeeps
<1>3. CASE record[r].status = "live"
  <2>1. /\ record' = [record EXCEPT ![r] = [record[r] EXCEPT !.status = "deleted"]]
        /\ stamp' = [a \in Asset |-> IF a \in call[h].rows THEN NoRecord ELSE stamp[a]]
        /\ call' = [call EXCEPT ![h] = Idle]
    BY <1>1, <1>3 DEF UndoDelete, Reply
  <2>2. /\ record' \in [RecordId -> BillingRecord]
        /\ record'[r].status = "deleted"
        /\ \A x \in RecordId \ {r} : record'[x] = record[x]
    BY <1>1, <2>1 DEF BillingRecord
  <2>3. TypeOK'
    BY <1>1, <2>1, <2>2 DEF IInv, TypeOK, Idle, CallRecord
  <2>4. StampedIsCharged'
    <3>1. {a \in Asset : stamp[a] = r} \subseteq call[h].rows
      BY <1>1, ClearedAll
    <3>2. \A a \in Asset : stamp[a] = r <=> a \in call[h].rows
      BY <1>1, <3>1 DEF IInv, UndoCalls
    <3> QED BY <1>1, <2>1, <2>2, <3>2 DEF IInv, StampedIsCharged
  <2>5. Issued'
    BY <1>1, <2>2 DEF IInv, Issued
  <2>6. MarkCalls' /\ UndoCalls' /\ Visiting' /\ Apart'
    <3>1. call[h].rows \subseteq Asset
      BY <1>1 DEF CallRecord
    <3>2. /\ \A a \in call[h].rows : stamp'[a] = NoRecord
          /\ \A a \in Asset \ call[h].rows : stamp'[a] = stamp[a]
      BY <2>1, <3>1
    <3> QED BY <1>1, <2>2, <3>2, CommitKeepsCalls
  <2> QED BY <2>3, <2>4, <2>5, <2>6 DEF IInv
<1> QED BY <1>2, <1>3

\* Every step keeps the invariant.
LEMMA StepIInv == IInv /\ [Next]_vars => IInv'
<1> SUFFICES ASSUME IInv, [Next]_vars PROVE IInv'
  OBVIOUS
<1>1. CASE UNCHANGED vars
  BY <1>1 DEF vars, IInv, TypeOK, StampedIsCharged, MarkCalls, UndoCalls, Visiting, Apart, Issued
<1>2. ASSUME NEW a \in Asset, Reprice(a) PROVE IInv'
  <2>1. TypeOK'
    BY <1>2 DEF Reprice, IInv, TypeOK
  <2> QED BY <1>2, <2>1 DEF Reprice, IInv, StampedIsCharged, MarkCalls, UndoCalls, Visiting,
                            Apart, Issued
<1>3. ASSUME NEW h \in Handler, NEW client \in Client, MarkBilled(h, client) PROVE IInv'
  BY <1>3, MarkBilledStep
<1>4. ASSUME NEW h \in Handler, NEW r \in RecordId, Undo(h, r) PROVE IInv'
  BY <1>4, UndoStep
<1>5. ASSUME NEW h \in Handler, MarkStart(h) \/ UndoStart(h) PROVE IInv'
  BY <1>5, StartStep
<1>6. ASSUME NEW h \in Handler, MarkClaim(h) \/ UndoClear(h) PROVE IInv'
  BY <1>6, VisitStep
<1>7. ASSUME NEW h \in Handler, MarkCommit(h) \/ UndoDelete(h) PROVE IInv'
  BY <1>7, MarkCommitStep, UndoDeleteStep
<1>8. ASSUME NEW h \in Handler, DeadlockVictim(h) \/ Fail(h) PROVE IInv'
  <2>1. Reply(h) /\ failures' \in 0..MaxFailures /\ UNCHANGED <<record, stamp, owing>>
    BY <1>8 DEF DeadlockVictim, Fail, IInv, TypeOK
  <2> QED BY <2>1, ReplyKeeps
<1> QED BY <1>1, <1>2, <1>3, <1>4, <1>5, <1>6, <1>7, <1>8 DEF Next

\* IInv holds in every state InboundBillingService reaches, for any number of
\* devices, clients, records and concurrent calls.
THEOREM InboundInvariant == Spec => []IInv
<1>1. Init => IInv
  BY InitIInv
<1>2. IInv /\ [Next]_vars => IInv'
  BY StepIInv
<1> QED BY <1>1, <1>2, PTL DEF Spec

\* StampedIsCharged: the devices a live record was made out for are those that
\* bear its id, although markBilled computes them before it stamps them.
THEOREM StampsMatch == Spec => []StampedIsCharged
<1>1. IInv => StampedIsCharged
  BY DEF IInv
<1> QED BY <1>1, InboundInvariant, PTL

(***************************************************************************)
(* Refinement                                                              *)
(***************************************************************************)
\* A step that leaves the records as they are is a stutter of Invoicing.
LEMMA SameRecords == UNCHANGED record => UNCHANGED Promise!invoicingVars
  BY DEF Promise!invoicingVars, issuedIds, liveAssets

\* The commit of markBilled issues an invoice, or rolls back.
LEMMA CommitIssues ==
    ASSUME IInv, NEW h \in Handler, MarkCommit(h), ~ UNCHANGED record
    PROVE  \E i \in RecordId, client \in Client, S \in SUBSET Asset :
              Promise!Issue(i, client, S)
<1> DEFINE r == call[h].id
           S == call[h].want
<1>1. /\ call \in [Handler -> CallRecord] /\ r \in RecordId /\ record[r].status = "absent"
      /\ S # {} /\ S \subseteq Asset /\ call[h].client \in Client
      /\ \A a \in S : ClientOf[a] = call[h].client
      /\ \A a \in call[h].rows : stamp[a] = NoRecord
      /\ record \in [RecordId -> BillingRecord]
  BY DEF IInv, TypeOK, MarkCalls, MarkCommit, CallRecord
<1>2. /\ record'[r] = [status |-> "live", client |-> call[h].client, assets |-> S]
      /\ \A x \in RecordId \ {r} : record'[x] = record[x]
      /\ call[h].rows = S
  BY <1>1, CountedAll DEF MarkCommit
<1>3. r \notin issuedIds /\ issuedIds' = issuedIds \cup {r}
  BY <1>1, <1>2 DEF issuedIds
<1>4. liveAssets' = [liveAssets EXCEPT ![r] = S]
  <2>1. \A i \in RecordId : liveAssets'[i] = IF i = r THEN S ELSE liveAssets[i]
    BY <1>1, <1>2 DEF liveAssets
  <2>2. liveAssets' = [i \in RecordId |-> liveAssets'[i]]
    BY DEF liveAssets
  <2>3. liveAssets = [i \in RecordId |-> liveAssets[i]]
    BY DEF liveAssets
  <2> HIDE DEF r, S
  <2> QED BY <1>1, <2>1, <2>2, <2>3
<1>5. \A a \in S : a \in Promise!Pending
  <2>1. ASSUME NEW a \in S, NEW i \in RecordId PROVE a \notin liveAssets[i]
    <3>1. liveAssets[i] = {x \in Asset : stamp[x] = i}
      BY DEF IInv, StampedIsCharged, liveAssets
    <3> QED BY <1>1, <1>2, <3>1
  <2> QED BY <1>1, <2>1 DEF Promise!Pending
<1>6. Promise!Issue(r, call[h].client, S)
  BY <1>1, <1>3, <1>4, <1>5 DEF Promise!Issue
<1> QED BY <1>1, <1>6

\* The delete of undo withdraws one, or rolls back.
LEMMA UndoWithdraws ==
    ASSUME IInv, NEW h \in Handler, UndoDelete(h), ~ UNCHANGED record
    PROVE  \E i \in RecordId : Promise!Withdraw(i)
<1> DEFINE r == call[h].id
<1>1. r \in RecordId /\ record \in [RecordId -> BillingRecord] /\ record[r].status = "live"
  BY DEF IInv, TypeOK, UndoCalls, UndoDelete
<1>2. /\ record'[r].status = "deleted" /\ \A x \in RecordId \ {r} : record'[x] = record[x]
  BY <1>1 DEF UndoDelete, BillingRecord
<1>3. UNCHANGED issuedIds
  BY <1>1, <1>2 DEF issuedIds
<1>4. liveAssets' = [liveAssets EXCEPT ![r] = {}]
  BY <1>1, <1>2 DEF liveAssets
<1>5. liveAssets[r] # {}
  BY <1>1 DEF liveAssets, IInv, Issued
<1> QED BY <1>1, <1>3, <1>4, <1>5 DEF Promise!Withdraw

\* KeepsPromise: whatever calls to markBilled and undo race, deadlock or fail, a
\* reception is on at most one outstanding record, and only with its client's.
THEOREM InboundBillingKeepsPromise == Spec => KeepsPromise
<1>1. Init => Promise!InvoicingInit
  BY DEF Init, Promise!InvoicingInit, issuedIds, liveAssets, NoRow
<1>2. IInv /\ [Next]_vars => [Promise!InvoicingNext]_(Promise!invoicingVars)
  <2> SUFFICES ASSUME IInv, [Next]_vars, ~ UNCHANGED record
               PROVE  Promise!InvoicingNext
    BY SameRecords
  <2>1. PICK h \in Handler : MarkCommit(h) \/ UndoDelete(h)
    BY DEF Next, vars, Reprice, MarkBilled, Undo, MarkStart, MarkClaim, UndoStart, UndoClear,
           Start, Visit, DeadlockVictim, Fail
  <2>2. ASSUME NEW i \in RecordId, NEW client \in Client, NEW S \in SUBSET Asset,
               Promise!Issue(i, client, S)
        PROVE  Promise!InvoicingNext
    BY <2>2 DEF Promise!InvoicingNext, Promise!Issue
  <2>3. ASSUME NEW i \in RecordId, Promise!Withdraw(i) PROVE Promise!InvoicingNext
    <3>1. liveAssets'[i] # liveAssets[i]
      BY <2>3 DEF Promise!Withdraw, liveAssets
    <3> QED BY <2>3, <3>1 DEF Promise!InvoicingNext
  <2> QED BY <2>1, <2>2, <2>3, CommitIssues, UndoWithdraws
<1> QED BY <1>1, <1>2, InboundInvariant, PTL DEF Spec, KeepsPromise, Promise!InvoicingSpec
==============================================================================
