------------------------- MODULE ChargeBillingProofs -------------------------
(***************************************************************************)
(* ChargeBilling proved: its inductive invariant, and that it implements   *)
(* Invoicing.                                                              *)
(***************************************************************************)
EXTENDS ChargeBilling, TLAPS

USE ChargeBillingAssumption, BackendAssumption

\* The tables are empty and no call is in flight.
LEMMA InitIInv == Init => IInv
  BY DEF Init, IInv, TypeOK, BatchesExact, LiveIsAudited, MarkCalls, Apart, Issued,
         NoRow, Idle, BatchRecord, CallRecord, Inserting, Billed

\* A step in which h answers and the tables stay as they are keeps the invariant.
LEMMA ReplyKeeps ==
    ASSUME IInv, NEW h \in Handler, Reply(h), failures' \in 0..MaxFailures,
           UNCHANGED <<batch, billedBy, audited>>
    PROVE  IInv'
<1>1. /\ call' \in [Handler -> CallRecord] /\ call'[h] = Idle
      /\ \A g \in Handler \ {h} : call'[g] = call[g]
  BY DEF IInv, TypeOK, Reply, Idle, CallRecord
<1>2. TypeOK' /\ BatchesExact' /\ LiveIsAudited' /\ Issued'
  BY <1>1 DEF IInv, TypeOK, BatchesExact, LiveIsAudited, Issued
<1>3. MarkCalls' /\ Apart'
  BY <1>1 DEF IInv, MarkCalls, Apart, Idle, Inserting, Billed
<1> QED BY <1>2, <1>3 DEF IInv

\* A step of one call that writes no table keeps the invariant, if what the call
\* knows afterwards is true and its rows are its own.
LEMMA CallKeeps ==
    ASSUME IInv, NEW h \in Handler, NEW c \in CallRecord,
           call' = [call EXCEPT ![h] = c],
           UNCHANGED <<batch, billedBy, audited, failures>>,
           MarkCalls', Apart'
    PROVE  IInv'
<1>1. TypeOK'
  BY DEF IInv, TypeOK
<1>2. BatchesExact' /\ LiveIsAudited' /\ Issued'
  BY DEF IInv, BatchesExact, LiveIsAudited, Issued
<1> QED BY <1>1, <1>2 DEF IInv

LEMMA MarkBilledStep ==
    ASSUME IInv, NEW h \in Handler, NEW client \in Client, NEW S \in SUBSET Charge,
           MarkBilled(h, client, S)
    PROVE  IInv'
<1>1. PICK b \in BatchId, e \in S :
        /\ Fresh(b)
        /\ call' = [call EXCEPT ![h] = [op |-> "mark", id |-> b, client |-> client,
                                        want |-> S, rows |-> {}, next |-> {e}]]
  BY DEF MarkBilled
<1> DEFINE c == [op |-> "mark", id |-> b, client |-> client,
                 want |-> S, rows |-> {}, next |-> {e}]
<1>2. c \in CallRecord
  BY DEF CallRecord
<1>3. /\ S # {} /\ \A x \in S : ClientOf[x] = client
      /\ UNCHANGED <<batch, billedBy, audited, failures>>
  BY DEF MarkBilled
<1>4. /\ call'[h] = c /\ \A g \in Handler \ {h} : call'[g] = call[g]
      /\ call \in [Handler -> CallRecord]
  BY <1>1, <1>2 DEF IInv, TypeOK
<1>5. MarkCalls'
  BY <1>1, <1>3, <1>4 DEF IInv, MarkCalls, Inserting, Fresh, Billed
<1>6. Apart'
  BY <1>1, <1>4 DEF IInv, Apart, Inserting, Fresh
<1> QED BY <1>1, <1>2, <1>3, <1>5, <1>6, CallKeeps

LEMMA MarkInsertStep ==
    ASSUME IInv, NEW h \in Handler, MarkInsert(h)
    PROVE  IInv'
<1> DEFINE rows == call[h].rows \cup call[h].next
           left == call[h].want \ rows
<1>0. /\ call \in [Handler -> CallRecord] /\ call[h].op = "mark"
      /\ UNCHANGED <<batch, billedBy, audited, failures>> /\ failures \in 0..MaxFailures
  BY DEF IInv, TypeOK, MarkInsert
<1>1. CASE Reply(h)
  BY <1>0, <1>1, ReplyKeeps
<1>2. ASSUME ~ Reply(h)
      PROVE  /\ \A x \in call[h].next : ~ Billed(x)
             /\ \/ \E x \in left :
                     call' = [call EXCEPT ![h] = [@ EXCEPT !.rows = rows, !.next = {x}]]
                \/ /\ left = {}
                   /\ call' = [call EXCEPT ![h] = [@ EXCEPT !.op = "mark.audit", !.rows = rows,
                                                            !.next = {}]]
  BY <1>2 DEF MarkInsert
<1>3. /\ rows \subseteq call[h].want /\ rows \in SUBSET Charge /\ call[h].want \in SUBSET Charge
      /\ call[h].id \in BatchId /\ call[h].client \in Client /\ call[h].want # {}
  BY <1>0 DEF IInv, MarkCalls, Inserting, CallRecord
<1>4. \A g \in Handler \ {h} : call[g].rows \cap rows = {}
  BY <1>0 DEF IInv, MarkCalls, Apart, Inserting, MarkInsert, Waits
\* What the new record of the call must be.
<1>5. ASSUME NEW c \in CallRecord, call' = [call EXCEPT ![h] = c],
             c.op \in {"mark", "mark.audit"}, c.id = call[h].id, c.client = call[h].client,
             c.want = call[h].want, c.rows = rows, c.next \subseteq call[h].want,
             c.op = "mark.audit" => rows = call[h].want, ~ Reply(h)
      PROVE  IInv'
  <2>1. /\ call'[h] = c /\ \A g \in Handler \ {h} : call'[g] = call[g]
        /\ \A x \in rows : ~ Billed(x)
    BY <1>0, <1>2, <1>5 DEF IInv, MarkCalls, Inserting
  <2>2. MarkCalls'
    <3>1. MarkCalls /\ batch' = batch /\ billedBy' = billedBy /\ audited' = audited
      BY <1>0 DEF IInv
    <3>2. /\ batch[call[h].id].status = "absent"
          /\ \A x \in call[h].want : ClientOf[x] = call[h].client
      BY <1>0, <3>1 DEF MarkCalls, Inserting
    <3>3. /\ call'[h].op \in Inserting
          /\ call'[h].op \notin {"mark.commit", "undo", "undo.audit"}
          /\ call'[h].op = "mark.audit" => call'[h].rows = call'[h].want
      BY <1>5, <2>1 DEF Inserting
    <3>4. /\ call'[h].id = call[h].id /\ call'[h].client = call[h].client
          /\ call'[h].want = call[h].want /\ call'[h].rows = rows
          /\ call'[h].next \subseteq call[h].want
      BY <1>5, <2>1
    <3> HIDE DEF rows
    <3>5. \A g \in Handler \ {h} : call'[g] = call[g]
      BY <2>1
    <3>6. \A x \in rows : ~ Billed(x)
      BY <2>1
    <3> QED BY <1>3, <3>1, <3>2, <3>3, <3>4, <3>5, <3>6 DEF MarkCalls, Billed
  <2>3. Apart'
    BY <1>0, <1>4, <1>5, <2>1 DEF IInv, Apart, Inserting
  <2> QED BY <1>0, <1>5, <2>2, <2>3, CallKeeps
<1>6. CASE /\ ~ Reply(h)
           /\ \E x \in left :
                call' = [call EXCEPT ![h] = [@ EXCEPT !.rows = rows, !.next = {x}]]
  <2>1. PICK x \in left :
          call' = [call EXCEPT ![h] = [@ EXCEPT !.rows = rows, !.next = {x}]]
    BY <1>6
  <2> DEFINE c == [call[h] EXCEPT !.rows = rows, !.next = {x}]
  <2>2. c \in CallRecord /\ {x} \subseteq call[h].want
    BY <1>0, <1>3 DEF CallRecord
  <2>3. /\ c.op = "mark" /\ c.id = call[h].id /\ c.client = call[h].client
        /\ c.want = call[h].want /\ c.rows = rows /\ c.next = {x}
    BY <1>0 DEF CallRecord
  <2> HIDE DEF c, rows
  <2> QED BY <1>5, <1>6, <2>1, <2>2, <2>3 DEF c
<1>7. CASE /\ ~ Reply(h)
           /\ left = {}
           /\ call' = [call EXCEPT ![h] = [@ EXCEPT !.op = "mark.audit", !.rows = rows,
                                                    !.next = {}]]
  <2> DEFINE c == [call[h] EXCEPT !.op = "mark.audit", !.rows = rows, !.next = {}]
  <2>2. c \in CallRecord /\ rows = call[h].want
    BY <1>0, <1>3, <1>7 DEF CallRecord
  <2>3. /\ c.op = "mark.audit" /\ c.id = call[h].id /\ c.client = call[h].client
        /\ c.want = call[h].want /\ c.rows = rows /\ c.next = {}
    BY <1>0 DEF CallRecord
  <2> HIDE DEF c, rows
  <2> QED BY <1>5, <1>7, <2>2, <2>3 DEF c
<1> QED BY <1>1, <1>2, <1>6, <1>7

LEMMA MarkAuditStep ==
    ASSUME IInv, NEW h \in Handler, MarkAudit(h)
    PROVE  IInv'
<1>1. /\ call \in [Handler -> CallRecord] /\ call[h].op = "mark.audit"
      /\ call[h].id \in BatchId /\ call[h].rows = call[h].want
      /\ UNCHANGED <<batch, billedBy, failures>>
      /\ audited' = audited \cup {<<"markBilled", call[h].id>>}
  BY DEF IInv, TypeOK, MarkCalls, Inserting, MarkAudit
<1> DEFINE c == [call[h] EXCEPT !.op = "mark.commit"]
<1>2. /\ call' = [call EXCEPT ![h] = c] /\ c \in CallRecord
      /\ c.op = "mark.commit" /\ c.id = call[h].id /\ c.client = call[h].client
      /\ c.want = call[h].want /\ c.rows = call[h].rows /\ c.next = call[h].next
  BY <1>1 DEF MarkAudit, CallRecord
<1> HIDE DEF c
<1>3. call'[h] = c /\ \A g \in Handler \ {h} : call'[g] = call[g]
  BY <1>1, <1>2
<1>4. TypeOK'
  BY <1>1, <1>2 DEF IInv, TypeOK
<1>5. BatchesExact' /\ LiveIsAudited' /\ Issued'
  BY <1>1 DEF IInv, BatchesExact, LiveIsAudited, Issued
<1>6. MarkCalls'
  BY <1>1, <1>2, <1>3 DEF IInv, MarkCalls, Inserting, Billed
<1>7. Apart'
  BY <1>1, <1>2, <1>3 DEF IInv, Apart, Inserting
<1> QED BY <1>4, <1>5, <1>6, <1>7 DEF IInv

LEMMA MarkCommitStep ==
    ASSUME IInv, NEW h \in Handler, MarkCommit(h)
    PROVE  IInv'
<1> DEFINE b == call[h].id
<1>1. /\ call \in [Handler -> CallRecord] /\ call[h].op = "mark.commit"
      /\ b \in BatchId /\ batch[b].status = "absent"
      /\ call[h].rows = call[h].want /\ call[h].want # {} /\ call[h].want \subseteq Charge
      /\ call[h].client \in Client
      /\ \A c \in call[h].want : ClientOf[c] = call[h].client /\ ~ Billed(c)
      /\ <<"markBilled", b>> \in audited
      /\ batch \in [BatchId -> BatchRecord] /\ billedBy \in [Charge -> BatchId \cup {NoBatch}]
  BY DEF IInv, TypeOK, MarkCalls, Inserting, MarkCommit, CallRecord
<1>2. /\ UNCHANGED <<audited, failures>>
      /\ batch' = [batch EXCEPT ![b] =
           [status |-> "live", client |-> call[h].client, charges |-> call[h].want]]
      /\ billedBy' = [c \in Charge |-> IF c \in call[h].rows THEN b ELSE billedBy[c]]
      /\ call' = [call EXCEPT ![h] = Idle]
  BY DEF MarkCommit, Reply
<1>3. /\ call' \in [Handler -> CallRecord] /\ call'[h] = Idle
      /\ \A g \in Handler \ {h} : call'[g] = call[g]
  BY <1>1, <1>2 DEF Idle, CallRecord
<1>4. /\ batch' \in [BatchId -> BatchRecord]
      /\ batch'[b] = [status |-> "live", client |-> call[h].client, charges |-> call[h].want]
      /\ \A x \in BatchId \ {b} : batch'[x] = batch[x]
  BY <1>1, <1>2 DEF BatchRecord
<1>5. TypeOK'
  BY <1>1, <1>2, <1>3, <1>4 DEF IInv, TypeOK
<1>6. BatchesExact'
  BY <1>1, <1>2, <1>4 DEF IInv, BatchesExact, Billed
<1>7. LiveIsAudited' /\ Issued'
  BY <1>1, <1>2, <1>4 DEF IInv, LiveIsAudited, Issued
<1>8. MarkCalls'
  <2>1. \A g \in Handler \ {h} : call[g].op \in Inserting =>
            call[g].id # b /\ call[g].rows \cap call[h].rows = {}
    BY <1>1 DEF IInv, Apart, Inserting
  <2>2. \A g \in Handler \ {h} : call[g].rows \subseteq Charge
    BY <1>1 DEF CallRecord
  <2> QED BY <1>1, <1>2, <1>3, <1>4, <2>1, <2>2 DEF IInv, MarkCalls, Inserting, Billed, Idle
<1>9. Apart'
  BY <1>1, <1>3 DEF IInv, Apart, Inserting, Idle
<1> QED BY <1>5, <1>6, <1>7, <1>8, <1>9 DEF IInv

LEMMA UndoStep ==
    ASSUME IInv, NEW h \in Handler, NEW b \in BatchId, Undo(h, b)
    PROVE  IInv'
<1> DEFINE c == [Idle EXCEPT !.op = "undo", !.id = b]
<1>1. /\ call \in [Handler -> CallRecord] /\ call' = [call EXCEPT ![h] = c]
      /\ UNCHANGED <<batch, billedBy, audited, failures>> /\ batch[b].status = "live"
  BY DEF IInv, TypeOK, Undo
<1>2. /\ c \in CallRecord /\ c.op = "undo" /\ c.id = b /\ c.rows = {} /\ c.next = {}
  BY DEF Idle, CallRecord
<1> HIDE DEF c
<1>3. call'[h] = c /\ \A g \in Handler \ {h} : call'[g] = call[g]
  BY <1>1
<1>4. MarkCalls'
  BY <1>1, <1>2, <1>3 DEF IInv, MarkCalls, Inserting, Billed
<1>5. Apart'
  BY <1>2, <1>3 DEF IInv, Apart, Inserting
<1> QED BY <1>1, <1>2, <1>4, <1>5, CallKeeps

LEMMA UndoDeleteStep ==
    ASSUME IInv, NEW h \in Handler, UndoDelete(h)
    PROVE  IInv'
<1> DEFINE b == call[h].id
<1>1. /\ call \in [Handler -> CallRecord] /\ call[h].op = "undo" /\ b \in BatchId
      /\ call[h].rows = {} /\ call[h].next = {}
      /\ batch \in [BatchId -> BatchRecord] /\ billedBy \in [Charge -> BatchId \cup {NoBatch}]
      /\ UNCHANGED <<audited, failures>> /\ failures \in 0..MaxFailures
  BY DEF IInv, TypeOK, MarkCalls, Inserting, UndoDelete
<1>2. CASE batch[b].status # "live"
  BY <1>1, <1>2, ReplyKeeps DEF UndoDelete
<1>3. CASE batch[b].status = "live"
  <2> DEFINE c == [call[h] EXCEPT !.op = "undo.audit"]
  <2>1. /\ batch' = [batch EXCEPT ![b] = [batch[b] EXCEPT !.status = "deleted"]]
        /\ billedBy' = [x \in Charge |-> IF billedBy[x] = b THEN NoBatch ELSE billedBy[x]]
        /\ call' = [call EXCEPT ![h] = c]
    BY <1>1, <1>3 DEF UndoDelete
  <2>2. /\ c \in CallRecord /\ c.op = "undo.audit" /\ c.id = b /\ c.rows = {} /\ c.next = {}
    BY <1>1 DEF CallRecord
  <2> HIDE DEF c
  <2>3. call'[h] = c /\ \A g \in Handler \ {h} : call'[g] = call[g]
    BY <1>1, <2>1
  <2>4. /\ batch' \in [BatchId -> BatchRecord] /\ batch'[b].status = "deleted"
        /\ \A x \in BatchId \ {b} : batch'[x] = batch[x]
    BY <1>1, <2>1 DEF BatchRecord
  <2>5. TypeOK'
    BY <1>1, <2>1, <2>2, <2>4 DEF IInv, TypeOK
  <2>6. BatchesExact'
    BY <1>1, <2>1, <2>4 DEF IInv, BatchesExact
  <2>7. LiveIsAudited' /\ Issued'
    BY <1>1, <2>4 DEF IInv, LiveIsAudited, Issued
  <2>8. MarkCalls'
    <3>1. \A g \in Handler \ {h} : call[g].op \in Inserting => call[g].id # b
      BY <1>1, <1>3 DEF IInv, MarkCalls
    <3>2. \A g \in Handler \ {h} : call[g].rows \subseteq Charge
      BY <1>1 DEF CallRecord
    <3> QED BY <1>1, <1>3, <2>1, <2>2, <2>3, <2>4, <3>1, <3>2 DEF IInv, MarkCalls, Inserting, Billed
  <2>9. Apart'
    BY <2>2, <2>3 DEF IInv, Apart, Inserting
  <2> QED BY <2>5, <2>6, <2>7, <2>8, <2>9 DEF IInv
<1> QED BY <1>2, <1>3

LEMMA UndoAuditStep ==
    ASSUME IInv, NEW h \in Handler, UndoAudit(h)
    PROVE  IInv'
<1>1. /\ call \in [Handler -> CallRecord] /\ call[h].op = "undo.audit" /\ call[h].id \in BatchId
      /\ UNCHANGED <<batch, billedBy, failures>>
      /\ audited' = audited \cup {<<"undoBilled", call[h].id>>}
      /\ call' = [call EXCEPT ![h] = Idle]
  BY DEF IInv, TypeOK, MarkCalls, Inserting, UndoAudit, Reply
<1>2. /\ call' \in [Handler -> CallRecord] /\ call'[h] = Idle
      /\ \A g \in Handler \ {h} : call'[g] = call[g]
  BY <1>1 DEF Idle, CallRecord
<1>3. TypeOK' /\ BatchesExact' /\ LiveIsAudited' /\ Issued'
  BY <1>1, <1>2 DEF IInv, TypeOK, BatchesExact, LiveIsAudited, Issued
<1>4. MarkCalls' /\ Apart'
  BY <1>1, <1>2 DEF IInv, MarkCalls, Apart, Idle, Inserting, Billed
<1> QED BY <1>3, <1>4 DEF IInv

\* Every step keeps the invariant.
LEMMA StepIInv == IInv /\ [Next]_vars => IInv'
<1> SUFFICES ASSUME IInv, [Next]_vars PROVE IInv'
  OBVIOUS
<1>1. CASE UNCHANGED vars
  BY <1>1 DEF vars, IInv, TypeOK, BatchesExact, LiveIsAudited, MarkCalls, Apart, Issued, Billed
<1>2. ASSUME NEW h \in Handler, NEW client \in Client, NEW S \in SUBSET Charge,
             MarkBilled(h, client, S)
      PROVE  IInv'
  BY <1>2, MarkBilledStep
<1>3. ASSUME NEW h \in Handler, NEW b \in BatchId, Undo(h, b) PROVE IInv'
  BY <1>3, UndoStep
<1>4. ASSUME NEW h \in Handler, Continue(h) PROVE IInv'
  BY <1>4, MarkInsertStep, MarkAuditStep, MarkCommitStep, UndoDeleteStep, UndoAuditStep
     DEF Continue
<1>5. ASSUME NEW h \in Handler, DeadlockVictim(h) PROVE IInv'
  <2>1. Reply(h) /\ failures' \in 0..MaxFailures /\ UNCHANGED <<batch, billedBy, audited>>
    BY <1>5 DEF DeadlockVictim, IInv, TypeOK
  <2> QED BY <2>1, ReplyKeeps
<1>6. ASSUME NEW h \in Handler, Fail(h) PROVE IInv'
  <2>1. Reply(h) /\ failures' \in 0..MaxFailures /\ UNCHANGED <<batch, billedBy, audited>>
    BY <1>6 DEF Fail, IInv, TypeOK
  <2> QED BY <2>1, ReplyKeeps
<1> QED BY <1>1, <1>2, <1>3, <1>4, <1>5, <1>6 DEF Next

\* IInv holds in every state ChargeBillingService reaches, for any number of
\* charges, clients, batches and concurrent calls.
THEOREM ChargeInvariant == Spec => []IInv
<1>1. Init => IInv
  BY InitIInv
<1>2. IInv /\ [Next]_vars => IInv'
  BY StepIInv
<1> QED BY <1>1, <1>2, PTL DEF Spec

\* BatchesExact: what markBilled counted and totalled on a batch is what the
\* charge_billed_events rows attribute to it, and undo leaves none behind.
THEOREM ChargesBatched == Spec => []BatchesExact
<1>1. IInv => BatchesExact
  BY DEF IInv
<1> QED BY <1>1, ChargeInvariant, PTL

\* LiveIsAudited: markBilled writes its audit row before the batch it names can
\* be seen.
THEOREM BatchesAudited == Spec => []LiveIsAudited
<1>1. IInv => LiveIsAudited
  BY DEF IInv
<1> QED BY <1>1, ChargeInvariant, PTL

(***************************************************************************)
(* Refinement                                                              *)
(***************************************************************************)
\* A step that leaves the batches as they are is a stutter of Invoicing.
LEMMA SameBatches == UNCHANGED batch => UNCHANGED Promise!invoicingVars
  BY DEF Promise!invoicingVars, issuedIds, liveCharges

\* The commit of markBilled issues an invoice.
LEMMA CommitIssues ==
    ASSUME IInv, NEW h \in Handler, MarkCommit(h)
    PROVE  \E i \in BatchId, client \in Client, S \in SUBSET Charge :
              Promise!Issue(i, client, S)
<1> DEFINE b == call[h].id
           S == call[h].want
<1>1. /\ call \in [Handler -> CallRecord] /\ b \in BatchId /\ batch[b].status = "absent"
      /\ call[h].rows = S /\ S # {} /\ S \subseteq Charge /\ call[h].client \in Client
      /\ \A c \in S : ClientOf[c] = call[h].client /\ ~ Billed(c)
      /\ batch \in [BatchId -> BatchRecord] /\ billedBy \in [Charge -> BatchId \cup {NoBatch}]
  BY DEF IInv, TypeOK, MarkCalls, Inserting, MarkCommit, CallRecord
<1>2. /\ batch'[b] = [status |-> "live", client |-> call[h].client, charges |-> S]
      /\ \A x \in BatchId \ {b} : batch'[x] = batch[x]
  BY <1>1 DEF MarkCommit
<1>3. b \notin issuedIds /\ issuedIds' = issuedIds \cup {b}
  BY <1>1, <1>2 DEF issuedIds
<1>4. liveCharges' = [liveCharges EXCEPT ![b] = S]
  <2>1. \A i \in BatchId : liveCharges'[i] = IF i = b THEN S ELSE liveCharges[i]
    BY <1>1, <1>2 DEF liveCharges
  <2>2. liveCharges' = [i \in BatchId |-> liveCharges'[i]]
    BY DEF liveCharges
  <2>3. liveCharges = [i \in BatchId |-> liveCharges[i]]
    BY DEF liveCharges
  <2> HIDE DEF b, S
  <2> QED BY <1>1, <2>1, <2>2, <2>3
<1>5. \A c \in S : c \in Promise!Pending
  <2>1. ASSUME NEW c \in S, NEW i \in BatchId PROVE c \notin liveCharges[i]
    <3>1. liveCharges[i] = {x \in Charge : billedBy[x] = i}
      BY DEF IInv, BatchesExact, liveCharges
    <3> QED BY <1>1, <3>1 DEF Billed
  <2> QED BY <1>1, <2>1 DEF Promise!Pending
<1>6. Promise!Issue(b, call[h].client, S)
  BY <1>1, <1>3, <1>4, <1>5 DEF Promise!Issue
<1> QED BY <1>1, <1>6

\* The delete of undo withdraws one, or finds it withdrawn.
LEMMA UndoWithdraws ==
    ASSUME IInv, NEW h \in Handler, UndoDelete(h)
    PROVE  UNCHANGED batch \/ \E i \in BatchId : Promise!Withdraw(i)
<1> DEFINE b == call[h].id
<1>1. b \in BatchId /\ batch \in [BatchId -> BatchRecord]
  BY DEF IInv, TypeOK, MarkCalls, Inserting, UndoDelete
<1>2. CASE batch[b].status = "live"
  <2>1. /\ batch'[b].status = "deleted" /\ \A x \in BatchId \ {b} : batch'[x] = batch[x]
    BY <1>1, <1>2 DEF UndoDelete, BatchRecord
  <2>2. UNCHANGED issuedIds
    BY <1>1, <1>2, <2>1 DEF issuedIds
  <2>3. liveCharges' = [liveCharges EXCEPT ![b] = {}]
    BY <1>1, <1>2, <2>1 DEF liveCharges
  <2>4. liveCharges[b] # {}
    BY <1>1, <1>2 DEF liveCharges, IInv, Issued
  <2> QED BY <1>1, <2>2, <2>3, <2>4 DEF Promise!Withdraw
<1> QED BY <1>1, <1>2 DEF UndoDelete

\* KeepsPromise: whatever calls to markBilled and undo race, deadlock or fail, a
\* charge is on at most one outstanding batch, and only with its own client's.
THEOREM ChargeBillingKeepsPromise == Spec => KeepsPromise
<1>1. Init => Promise!InvoicingInit
  BY DEF Init, Promise!InvoicingInit, issuedIds, liveCharges, NoRow
<1>2. IInv /\ [Next]_vars => [Promise!InvoicingNext]_(Promise!invoicingVars)
  <2> SUFFICES ASSUME IInv, [Next]_vars, ~ UNCHANGED batch
               PROVE  Promise!InvoicingNext
    BY SameBatches
  <2>1. PICK h \in Handler : MarkCommit(h) \/ UndoDelete(h)
    BY DEF Next, vars, Continue, MarkBilled, Undo, MarkInsert, MarkAudit, UndoAudit,
           DeadlockVictim, Fail
  <2>2. ASSUME NEW i \in BatchId, NEW client \in Client, NEW S \in SUBSET Charge,
               Promise!Issue(i, client, S)
        PROVE  Promise!InvoicingNext
    BY <2>2 DEF Promise!InvoicingNext, Promise!Issue
  <2>3. ASSUME NEW i \in BatchId, Promise!Withdraw(i) PROVE Promise!InvoicingNext
    <3>1. liveCharges'[i] # liveCharges[i]
      BY <2>3 DEF Promise!Withdraw, liveCharges
    <3> QED BY <2>3, <3>1 DEF Promise!InvoicingNext
  <2> QED BY <2>1, <2>2, <2>3, CommitIssues, UndoWithdraws
<1> QED BY <1>1, <1>2, ChargeInvariant, PTL DEF Spec, KeepsPromise, Promise!InvoicingSpec
==============================================================================
