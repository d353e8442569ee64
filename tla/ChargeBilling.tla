---------------------------- MODULE ChargeBilling ----------------------------
(***************************************************************************)
(* ChargeBillingService: marking ledger charges as invoiced.  A batch and  *)
(* one row per charge are inserted in one transaction; the primary key of  *)
(* the rows, the charge, is what keeps two calls from billing it twice.    *)
(* Every statement and every audit row is an await.                        *)
(***************************************************************************)
EXTENDS Backend

CONSTANTS Charge,       \* the rows of the events ledger
          Client,
          ClientOf,     \* charge -> the client it was posted for
          BatchId,      \* ids the charge_billing_batches table may hand out
          NoBatch,      \* no batch
          Nobody        \* no client

ASSUME ChargeBillingAssumption ==
    /\ ClientOf \in [Charge -> Client]
    /\ NoBatch \notin BatchId
    /\ Nobody \notin Client

VARIABLES batch,        \* charge_billing_batches, by id
          billedBy,     \* charge_billed_events: charge -> its batch
          audited,      \* the audit rows, as pairs <<action, batch id>>
          call,         \* handler -> the call it is serving
          failures      \* calls that have failed so far

vars == <<batch, billedBy, audited, call, failures>>

NoRow == [status |-> "absent", client |-> Nobody, charges |-> {}]

\* eventCount and totalAmountPaise are computed from the charges found, whose
\* ledger rows never change: the set stands for both.
BatchRecord == [status  : {"absent", "live", "deleted"},
                client  : Client \cup {Nobody},
                charges : SUBSET Charge]

Idle == [op |-> "idle", id |-> NoBatch, client |-> Nobody, want |-> {}, rows |-> {},
         next |-> {}]

CallRecord ==
    [op     : {"idle", "mark", "mark.audit", "mark.commit", "undo", "undo.audit"},
     id     : BatchId \cup {NoBatch},
     client : Client \cup {Nobody},
     want   : SUBSET Charge,    \* the charges asked for
     rows   : SUBSET Charge,    \* rows its open transaction has inserted
     next   : SUBSET Charge]    \* the row it inserts next: at most one

Init == /\ batch = [b \in BatchId |-> NoRow]
        /\ billedBy = [c \in Charge |-> NoBatch]
        /\ audited = {}
        /\ call = [h \in Handler |-> Idle]
        /\ failures = 0

Reply(h) == call' = [call EXCEPT ![h] = Idle]

Billed(c) == billedBy[c] # NoBatch

\* A row id handed out now: no open transaction has it.
Fresh(b) == batch[b].status = "absent" /\ \A h \in Handler : call[h].id # b

(***************************************************************************)
(* markBilled                                                              *)
(***************************************************************************)
\* The transaction finds every charge asked for, of this client and unbilled;
\* otherwise the request is refused.  The batch row it then inserts is seen by
\* nobody before the commit.  No order is asked for: any row may come first.
MarkBilled(h, client, S) ==
    /\ call[h] = Idle
    /\ S # {}
    /\ \A c \in S : ClientOf[c] = client /\ ~ Billed(c)
    /\ \E b \in BatchId, c \in S :
         /\ Fresh(b)
         /\ call' = [call EXCEPT ![h] = [op |-> "mark", id |-> b, client |-> client,
                                         want |-> S, rows |-> {}, next |-> {c}]]
    /\ UNCHANGED <<batch, billedBy, audited, failures>>

\* Another transaction has inserted the row h is about to insert.
Waits(h, g) == g # h /\ call[h].next \cap call[g].rows # {}

\* Mutant: the key of the rows is not the charge alone, so nothing collides.
MarkInsertNoKey(h) ==
    /\ call[h].op = "mark"
    /\ LET rows == call[h].rows \cup call[h].next
           left == call[h].want \ rows
       IN \/ /\ left # {}
             /\ \E c \in left :
                  call' = [call EXCEPT ![h] = [@ EXCEPT !.rows = rows, !.next = {c}]]
          \/ /\ left = {}
             /\ call' = [call EXCEPT ![h] = [@ EXCEPT !.op = "mark.audit", !.rows = rows,
                                                      !.next = {}]]
    /\ UNCHANGED <<batch, billedBy, audited, failures>>

\* Mutant: a collision is retried until the other batch is undone.
MarkInsertRetried(h) ==
    /\ call[h].op = "mark"
    /\ \A g \in Handler : ~ Waits(h, g)
    /\ \A c \in call[h].next : ~ Billed(c)
    /\ LET rows == call[h].rows \cup call[h].next
           left == call[h].want \ rows
       IN \/ /\ left # {}
             /\ \E c \in left :
                  call' = [call EXCEPT ![h] = [@ EXCEPT !.rows = rows, !.next = {c}]]
          \/ /\ left = {}
             /\ call' = [call EXCEPT ![h] = [@ EXCEPT !.op = "mark.audit", !.rows = rows,
                                                      !.next = {}]]
    /\ UNCHANGED <<batch, billedBy, audited, failures>>

\* One row is inserted.  An insert waits for a transaction that has the same row
\* uncommitted, and is refused (P2002) if the row is committed: the transaction
\* is rolled back.
MarkInsert(h) ==
    /\ call[h].op = "mark"
    /\ \A g \in Handler : ~ Waits(h, g)
    /\ LET rows == call[h].rows \cup call[h].next
           left == call[h].want \ rows
       IN \/ /\ \E c \in call[h].next : Billed(c)
             /\ Reply(h)
          \/ /\ \A c \in call[h].next : ~ Billed(c)
             /\ left # {}
             /\ \E c \in left :
                  call' = [call EXCEPT ![h] = [@ EXCEPT !.rows = rows, !.next = {c}]]
          \/ /\ \A c \in call[h].next : ~ Billed(c)
             /\ left = {}
             /\ call' = [call EXCEPT ![h] = [@ EXCEPT !.op = "mark.audit", !.rows = rows,
                                                      !.next = {}]]
    /\ UNCHANGED <<batch, billedBy, audited, failures>>

\* Mutant: an audit row that cannot be written is ignored.
MarkAuditIgnored(h) ==
    /\ call[h].op = "mark.audit"
    /\ \E rows \in {{}, {<<"markBilled", call[h].id>>}} : audited' = audited \cup rows
    /\ call' = [call EXCEPT ![h] = [@ EXCEPT !.op = "mark.commit"]]
    /\ UNCHANGED <<batch, billedBy, failures>>

\* The audit row goes through another connection and stays, whatever becomes of
\* the transaction.
MarkAudit(h) ==
    /\ call[h].op = "mark.audit"
    /\ audited' = audited \cup {<<"markBilled", call[h].id>>}
    /\ call' = [call EXCEPT ![h] = [@ EXCEPT !.op = "mark.commit"]]
    /\ UNCHANGED <<batch, billedBy, failures>>

MarkCommit(h) ==
    /\ call[h].op = "mark.commit"
    /\ batch' = [batch EXCEPT ![call[h].id] =
                   [status |-> "live", client |-> call[h].client, charges |-> call[h].want]]
    /\ billedBy' = [c \in Charge |-> IF c \in call[h].rows THEN call[h].id ELSE billedBy[c]]
    /\ Reply(h)
    /\ UNCHANGED <<audited, failures>>

(***************************************************************************)
(* undo                                                                    *)
(***************************************************************************)
Undo(h, b) ==
    /\ call[h] = Idle
    /\ batch[b].status = "live"
    /\ call' = [call EXCEPT ![h] = [Idle EXCEPT !.op = "undo", !.id = b]]
    /\ UNCHANGED <<batch, billedBy, audited, failures>>

\* Mutant: the rows of a deleted batch are not deleted with it.
UndoDeleteKeepsRows(h) ==
    /\ call[h].op = "undo"
    /\ LET b == call[h].id
       IN \/ /\ batch[b].status = "live"
             /\ batch' = [batch EXCEPT ![b] = [@ EXCEPT !.status = "deleted"]]
             /\ call' = [call EXCEPT ![h] = [@ EXCEPT !.op = "undo.audit"]]
          \/ /\ batch[b].status # "live"
             /\ Reply(h)
             /\ UNCHANGED batch
    /\ UNCHANGED <<billedBy, audited, failures>>

\* Deleting the batch deletes its rows; if it is gone already, the call fails.
UndoDelete(h) ==
    /\ call[h].op = "undo"
    /\ LET b == call[h].id
       IN \/ /\ batch[b].status = "live"
             /\ batch' = [batch EXCEPT ![b] = [@ EXCEPT !.status = "deleted"]]
             /\ billedBy' = [c \in Charge |-> IF billedBy[c] = b THEN NoBatch ELSE billedBy[c]]
             /\ call' = [call EXCEPT ![h] = [@ EXCEPT !.op = "undo.audit"]]
          \/ /\ batch[b].status # "live"
             /\ Reply(h)
             /\ UNCHANGED <<batch, billedBy>>
    /\ UNCHANGED <<audited, failures>>

UndoAudit(h) ==
    /\ call[h].op = "undo.audit"
    /\ audited' = audited \cup {<<"undoBilled", call[h].id>>}
    /\ Reply(h)
    /\ UNCHANGED <<batch, billedBy, failures>>

(***************************************************************************)
(* Errors                                                                  *)
(***************************************************************************)
\* The calls of C wait for each other's rows.
Deadlocked(C) == \A h \in C : \E g \in C : Waits(h, g)

\* PostgreSQL finds a deadlock and cancels one of its transactions.
DeadlockVictim(h) ==
    /\ \E C \in SUBSET Handler : h \in C /\ Deadlocked(C)
    /\ Reply(h)
    /\ UNCHANGED <<batch, billedBy, audited, failures>>

\* A statement fails or the process dies: an open transaction is rolled back.
Fail(h) ==
    /\ call[h] # Idle
    /\ failures < MaxFailures
    /\ failures' = failures + 1
    /\ Reply(h)
    /\ UNCHANGED <<batch, billedBy, audited>>

\* What a call does on its own once it has begun.
Continue(h) == \/ MarkInsert(h)
               \/ MarkAudit(h)
               \/ MarkCommit(h)
               \/ UndoDelete(h)
               \/ UndoAudit(h)

Next == \E h \in Handler :
           \/ \E client \in Client, S \in SUBSET Charge : MarkBilled(h, client, S)
           \/ \E b \in BatchId : Undo(h, b)
           \/ Continue(h)
           \/ DeadlockVictim(h)
           \/ Fail(h)

Spec == Init /\ [][Next]_vars

\* Node goes on with every call whose await has settled; PostgreSQL looks for
\* deadlocks until there is none, and wakes the calls that wait for a row before
\* a request that arrives later can take it.
Fairness == /\ \A h \in Handler : WF_vars(Continue(h)) /\ SF_vars(MarkInsert(h))
            /\ WF_vars(\E h \in Handler : DeadlockVictim(h))

(***************************************************************************)
(* Properties                                                              *)
(***************************************************************************)
\* Every row and every call has the type its fields have.
TypeOK == /\ batch \in [BatchId -> BatchRecord]
          /\ billedBy \in [Charge -> BatchId \cup {NoBatch}]
          /\ audited \subseteq {"markBilled", "undoBilled"} \X BatchId
          /\ call \in [Handler -> CallRecord]
          /\ failures \in 0..MaxFailures

\* The count and the total a batch was issued with are those of the rows that
\* name it: no race, error or undo leaves a charge on a batch that does not
\* count it, or on a batch that is gone.
BatchesExact ==
    \A b \in BatchId :
      {c \in Charge : billedBy[c] = b} = IF batch[b].status = "live" THEN batch[b].charges ELSE {}

\* No batch is outstanding that the audit log does not know of.
LiveIsAudited ==
    \A b \in BatchId : batch[b].status = "live" => <<"markBilled", b>> \in audited

\* Every request is answered: requests that bill the same charges in different
\* orders do not wait for each other forever.
EveryCallAnswers == \A h \in Handler : call[h] # Idle ~> call[h] = Idle

\* What the rows of the open transactions have in common with the tables: the
\* inductive invariant.
Inserting == {"mark", "mark.audit", "mark.commit"}

MarkCalls ==
    \A h \in Handler :
      /\ call[h].op \notin Inserting => call[h].rows = {} /\ call[h].next = {}
      /\ call[h].op \in Inserting =>
           /\ call[h].id \in BatchId
           /\ batch[call[h].id].status = "absent"
           /\ call[h].want # {}
           /\ \A c \in call[h].want : ClientOf[c] = call[h].client
           /\ call[h].client \in Client
           /\ call[h].rows \subseteq call[h].want
           /\ call[h].next \subseteq call[h].want
           /\ \A c \in call[h].rows : ~ Billed(c)
      /\ call[h].op \in {"mark.audit", "mark.commit"} => call[h].rows = call[h].want
      /\ call[h].op = "mark.commit" => <<"markBilled", call[h].id>> \in audited
      /\ call[h].op \in {"undo", "undo.audit"} =>
           call[h].id \in BatchId /\ batch[call[h].id].status # "absent"

Apart ==
    \A g, h \in Handler :
      g # h /\ call[g].op \in Inserting /\ call[h].op \in Inserting =>
        call[g].id # call[h].id /\ call[g].rows \cap call[h].rows = {}

Issued ==
    \A b \in BatchId :
      batch[b].status = "live" =>
        /\ batch[b].charges # {}
        /\ \A c \in batch[b].charges : ClientOf[c] = batch[b].client

IInv == TypeOK /\ BatchesExact /\ LiveIsAudited /\ MarkCalls /\ Apart /\ Issued

(***************************************************************************)
(* ChargeBilling implements Invoicing: the live batches are the invoices.  *)
(***************************************************************************)
issuedIds == {b \in BatchId : batch[b].status # "absent"}

liveCharges == [b \in BatchId |-> IF batch[b].status = "live" THEN batch[b].charges ELSE {}]

Promise == INSTANCE Invoicing WITH Invoice <- BatchId, issued <- issuedIds, bills <- liveCharges

\* Whatever calls race or fail, billing does what Invoicing promises.
KeepsPromise == Promise!InvoicingSpec
==============================================================================
