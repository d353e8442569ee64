---------------------------- MODULE InboundBilling ----------------------------
(***************************************************************************)
(* InboundBillingService: invoicing the reception of devices.  There is no *)
(* row per charge: a device is stamped with the record that bills it.      *)
(* Every statement is an await.  What a device owes for its reception      *)
(* changes under the service's feet, as the ledger is corrected and        *)
(* bundles waive charges.                                                  *)
(***************************************************************************)
EXTENDS Backend

CONSTANTS Asset,        \* the devices received
          Client,
          ClientOf,     \* asset -> the client it belongs to
          RecordId,     \* ids the inbound_billings table may hand out
          NoRecord,     \* no record: a null inboundBillingId
          Nobody        \* no client

ASSUME InboundBillingAssumption ==
    /\ IsFiniteSet(Asset)
    /\ ClientOf \in [Asset -> Client]
    /\ NoRecord \notin RecordId
    /\ Nobody \notin Client

VARIABLES record,       \* inbound_billings, by id
          stamp,        \* asset -> its inboundBillingId
          owing,        \* the assets with something to pay for their reception
          call,         \* handler -> the call it is serving
          failures      \* calls that have failed so far

vars == <<record, stamp, owing, call, failures>>

NoRow == [status |-> "absent", client |-> Nobody, assets |-> {}]

\* Counts and amounts are those of the devices found pending: the set stands
\* for them.
BillingRecord == [status : {"absent", "live", "deleted"},
                  client : Client \cup {Nobody},
                  assets : SUBSET Asset]

Idle == [op |-> "idle", id |-> NoRecord, client |-> Nobody, want |-> {}, rows |-> {},
         todo |-> {}, next |-> {}]

CallRecord ==
    [op     : {"idle", "mark", "mark.claim", "undo", "undo.clear"},
     id     : RecordId \cup {NoRecord},
     client : Client \cup {Nobody},
     want   : SUBSET Asset,     \* the devices found pending
     rows   : SUBSET Asset,     \* rows its open transaction has updated
     todo   : SUBSET Asset,     \* rows its updateMany still has to visit
     next   : SUBSET Asset]     \* the one it visits next: at most one

Init == /\ record = [r \in RecordId |-> NoRow]
        /\ stamp = [a \in Asset |-> NoRecord]
        /\ owing = Asset
        /\ call = [h \in Handler |-> Idle]
        /\ failures = 0

Reply(h) == call' = [call EXCEPT ![h] = Idle]

\* computePending: what the client owes for and no record bills.
PendingOf(client) ==
    {a \in Asset : ClientOf[a] = client /\ stamp[a] = NoRecord /\ a \in owing}

\* A row id handed out now: no open transaction has it.
Fresh(r) == record[r].status = "absent" /\ \A h \in Handler : call[h].id # r

\* An open transaction of another call holds the row h visits next.
Waits(h, g) == g # h /\ call[h].next \cap call[g].rows # {}

\* Corrections, suppressions and undone corrections of other services.
Reprice(a) ==
    /\ owing' = IF a \in owing THEN owing \ {a} ELSE owing \cup {a}
    /\ UNCHANGED <<record, stamp, call, failures>>

(***************************************************************************)
(* updateMany: PostgreSQL picks the rows that qualify when the statement   *)
(* starts and updates them one after the other, in no particular order.    *)
(***************************************************************************)
Firsts(S) == IF S = {} THEN {{}} ELSE {{a} : a \in S}

Start(h, from, to, S) ==
    /\ call[h].op = from
    /\ \E first \in Firsts(S) :
         call' = [call EXCEPT ![h] = [@ EXCEPT !.op = to, !.todo = S, !.next = first]]
    /\ UNCHANGED <<record, stamp, owing, failures>>

\* The statement waits for a row another transaction has updated, and updates it
\* itself only if its stamp is still the one the statement asks for.
Visit(h, op, was) ==
    /\ call[h].op = op
    /\ call[h].next # {}
    /\ \A g \in Handler : ~ Waits(h, g)
    /\ LET left == call[h].todo \ call[h].next
           found == {a \in call[h].next : stamp[a] = was}
       IN \E next \in Firsts(left) :
            call' = [call EXCEPT ![h] = [@ EXCEPT !.rows = call[h].rows \cup found,
                                                  !.todo = left, !.next = next]]
    /\ UNCHANGED <<record, stamp, owing, failures>>

(***************************************************************************)
(* markBilled                                                              *)
(***************************************************************************)
\* The transaction computes what is pending, refuses if that is nothing, and
\* inserts the record, which nobody sees before the commit.
MarkBilled(h, client) ==
    /\ call[h] = Idle
    /\ PendingOf(client) # {}
    /\ \E r \in RecordId :
         /\ Fresh(r)
         /\ call' = [call EXCEPT ![h] = [Idle EXCEPT !.op = "mark", !.id = r,
                                                     !.client = client,
                                                     !.want = PendingOf(client)]]
    /\ UNCHANGED <<record, stamp, owing, failures>>

MarkStart(h) ==
    Start(h, "mark", "mark.claim", {a \in call[h].want : stamp[a] = NoRecord})

\* Mutant: the update does not ask for an unset stamp.
MarkClaimAny(h) ==
    /\ call[h].op = "mark.claim"
    /\ call[h].next # {}
    /\ \A g \in Handler : ~ Waits(h, g)
    /\ LET left == call[h].todo \ call[h].next
       IN \E next \in Firsts(left) :
            call' = [call EXCEPT ![h] = [@ EXCEPT !.rows = call[h].rows \cup call[h].next,
                                                  !.todo = left, !.next = next]]
    /\ UNCHANGED <<record, stamp, owing, failures>>

MarkClaim(h) == Visit(h, "mark.claim", NoRecord)

\* Mutant: the number of rows updated is not compared with the devices charged.
MarkCommitUncounted(h) ==
    /\ call[h].op = "mark.claim"
    /\ call[h].next = {}
    /\ record' = [record EXCEPT ![call[h].id] =
         [status |-> "live", client |-> call[h].client, assets |-> call[h].want]]
    /\ stamp' = [a \in Asset |-> IF a \in call[h].rows THEN call[h].id ELSE stamp[a]]
    /\ Reply(h)
    /\ UNCHANGED <<owing, failures>>

\* If the update missed one of the devices, everything is rolled back.
MarkCommit(h) ==
    /\ call[h].op = "mark.claim"
    /\ call[h].next = {}
    /\ IF Cardinality(call[h].rows) = Cardinality(call[h].want)
       THEN /\ record' = [record EXCEPT ![call[h].id] =
                 [status |-> "live", client |-> call[h].client, assets |-> call[h].want]]
            /\ stamp' = [a \in Asset |-> IF a \in call[h].rows THEN call[h].id ELSE stamp[a]]
       ELSE UNCHANGED <<record, stamp>>
    /\ Reply(h)
    /\ UNCHANGED <<owing, failures>>

(***************************************************************************)
(* undo                                                                    *)
(***************************************************************************)
Undo(h, r) ==
    /\ call[h] = Idle
    /\ record[r].status = "live"
    /\ call' = [call EXCEPT ![h] = [Idle EXCEPT !.op = "undo", !.id = r]]
    /\ UNCHANGED <<record, stamp, owing, failures>>

\* One transaction clears the stamps ...
UndoStart(h) ==
    Start(h, "undo", "undo.clear", {a \in Asset : stamp[a] = call[h].id})

UndoClear(h) == Visit(h, "undo.clear", call[h].id)

\* ... and deletes the record.  If that is gone, it is rolled back.
UndoDelete(h) ==
    /\ call[h].op = "undo.clear"
    /\ call[h].next = {}
    /\ LET r == call[h].id
       IN IF record[r].status = "live"
          THEN /\ record' = [record EXCEPT ![r] = [@ EXCEPT !.status = "deleted"]]
               /\ stamp' = [a \in Asset |-> IF a \in call[h].rows THEN NoRecord ELSE stamp[a]]
          ELSE UNCHANGED <<record, stamp>>
    /\ Reply(h)
    /\ UNCHANGED <<owing, failures>>

(***************************************************************************)
(* Errors                                                                  *)
(***************************************************************************)
\* The calls of C wait for each other's rows.
Deadlocked(C) == \A h \in C : \E g \in C : Waits(h, g)

\* PostgreSQL finds a deadlock and cancels one of its transactions.
DeadlockVictim(h) ==
    /\ \E C \in SUBSET Handler : h \in C /\ Deadlocked(C)
    /\ Reply(h)
    /\ UNCHANGED <<record, stamp, owing, failures>>

\* A statement fails or the process dies: an open transaction is rolled back.
Fail(h) ==
    /\ call[h] # Idle
    /\ failures < MaxFailures
    /\ failures' = failures + 1
    /\ Reply(h)
    /\ UNCHANGED <<record, stamp, owing>>

Next == \/ \E a \in Asset : Reprice(a)
        \/ \E h \in Handler :
             \/ \E client \in Client : MarkBilled(h, client)
             \/ MarkStart(h)
             \/ MarkClaim(h)
             \/ MarkCommit(h)
             \/ \E r \in RecordId : Undo(h, r)
             \/ UndoStart(h)
             \/ UndoClear(h)
             \/ UndoDelete(h)
             \/ DeadlockVictim(h)
             \/ Fail(h)

Spec == Init /\ [][Next]_vars

(***************************************************************************)
(* Properties                                                              *)
(***************************************************************************)
\* Every row and every call has the type its fields have.
TypeOK == /\ record \in [RecordId -> BillingRecord]
          /\ stamp \in [Asset -> RecordId \cup {NoRecord}]
          /\ owing \subseteq Asset
          /\ call \in [Handler -> CallRecord]
          /\ failures \in 0..MaxFailures

\* What is stamped is exactly what is charged: the devices a record was made out
\* for are those that bear its stamp, and no stamp outlives its record.
StampedIsCharged ==
    \A r \in RecordId :
      {a \in Asset : stamp[a] = r} = IF record[r].status = "live" THEN record[r].assets ELSE {}

\* What a call in flight knows, and what the transactions keep apart: the
\* inductive invariant.
MarkCalls ==
    \A h \in Handler :
      /\ call[h].op \notin {"mark.claim", "undo.clear"} => call[h].rows = {} /\ call[h].next = {}
      /\ call[h].op \in {"mark", "mark.claim"} =>
           /\ call[h].id \in RecordId
           /\ record[call[h].id].status = "absent"
           /\ call[h].client \in Client
           /\ call[h].want # {}
           /\ \A a \in call[h].want : ClientOf[a] = call[h].client
      /\ call[h].op = "mark.claim" =>
           /\ call[h].todo \subseteq call[h].want
           /\ call[h].rows \subseteq call[h].want
           /\ \A a \in call[h].rows : stamp[a] = NoRecord

UndoCalls ==
    \A h \in Handler :
      /\ call[h].op \in {"undo", "undo.clear"} =>
           call[h].id \in RecordId /\ record[call[h].id].status # "absent"
      /\ call[h].op = "undo.clear" =>
           /\ {a \in Asset : stamp[a] = call[h].id} \subseteq call[h].rows \cup call[h].todo
           /\ \A a \in call[h].rows : stamp[a] = call[h].id

Visiting ==
    \A h \in Handler : /\ call[h].next \subseteq call[h].todo
                       /\ call[h].op \in {"mark.claim", "undo.clear"} =>
                            (call[h].next = {} <=> call[h].todo = {})

Apart ==
    \A g, h \in Handler :
      /\ g # h => call[g].rows \cap call[h].rows = {}
      /\ g # h /\ call[g].op \in {"mark", "mark.claim"} => call[g].id # call[h].id

Issued ==
    \A r \in RecordId :
      record[r].status = "live" =>
        /\ record[r].assets # {}
        /\ \A a \in record[r].assets : ClientOf[a] = record[r].client

IInv == /\ TypeOK
        /\ StampedIsCharged
        /\ MarkCalls
        /\ UndoCalls
        /\ Visiting
        /\ Apart
        /\ Issued

(***************************************************************************)
(* InboundBilling implements Invoicing: the live records are the invoices. *)
(***************************************************************************)
issuedIds == {r \in RecordId : record[r].status # "absent"}

liveAssets == [r \in RecordId |-> IF record[r].status = "live" THEN record[r].assets ELSE {}]

Promise == INSTANCE Invoicing
             WITH Charge <- Asset, Invoice <- RecordId, issued <- issuedIds, bills <- liveAssets

\* Whatever calls race or fail, billing does what Invoicing promises.
KeepsPromise == Promise!InvoicingSpec
==============================================================================
