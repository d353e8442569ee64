---------------------------- MODULE AssetRegister ----------------------------
(***************************************************************************)
(* The rows every service of the API shares - the asset with its           *)
(* currentStatus, the append-only status history, the append-only event    *)
(* ledger with its suppressions - and the HTTP calls in flight.            *)
(*                                                                         *)
(* A call is an async handler: each await is a point where other calls     *)
(* run.  What a handler has read it keeps in its own record, call[h], and  *)
(* may use it after other calls have committed.  Writes made through `tx`  *)
(* appear in one step, the commit; writes made through `this.prisma` (the  *)
(* ledger service never receives a tx) appear at once, whatever becomes of *)
(* the transaction around them.                                            *)
(***************************************************************************)
EXTENDS Backend

CONSTANTS Asset,        \* asset rows the instance may hold
          Stocked,      \* those received and stored before the run starts
          Received,     \* the ledger rows their reception left
          Ref,          \* ids of orders, requests and inspections
          NoRef,        \* no such id
          Optional      \* the optional charges an order may ask for

AssetStatus == {"receiving", "in_inspection", "in_storage", "deployed",
                "returning", "disposed", "in_repair", "for_resale", "sold"}

NoStatus == "none"      \* no such asset; a null fromStatus; a field not read

Event == {"INGEST", "INSPECT", "REPAIR", "DISPOSAL", "DISPOSAL_CERT_ADDON",
          "RETRIEVAL", "RETRIEVAL_FULL_CYCLE", "RETRIEVAL_WIPE", "TRANSPORT",
          "PICK_PACK", "FULL_PREP", "LABELING", "REPACKING"}

LedgerRow == [event : Event, asset : Asset, ref : Ref \cup {NoRef}]

\* sourceModule: the service that changed the status.
Source == {"inbound", "assets", "repair", "resale", "disposal", "inspections",
           "retrieval", "deployment"}

HistoryRow == [from : AssetStatus \cup {NoStatus}, to : AssetStatus, by : Source]

ASSUME RegisterAssumption ==
    /\ Stocked \subseteq Asset
    /\ NoRef \notin Ref
    /\ Received \in Seq(LedgerRow)
    /\ \A i \in 1..Len(Received) : Received[i].event = "INGEST"
    /\ Optional \subseteq {"TRANSPORT", "LABELING", "REPACKING", "RETRIEVAL_WIPE"}
    /\ MaxFailures \in Nat

VARIABLES status,       \* asset -> currentStatus
          history,      \* asset -> its AssetStatusHistory rows, oldest first
          ledger,       \* the EventLedger rows, oldest first
          suppressed,   \* positions in ledger named by an EventSuppression
          call,         \* handler -> the call it is serving
          failures,     \* calls that have failed so far
          unrecorded    \* ghost: assets whose status was last overwritten without a history row

registerVars == <<status, history, ledger, suppressed, call, failures, unrecorded>>

(***************************************************************************)
(* Calls in flight                                                         *)
(***************************************************************************)
Unread == [a \in Asset |-> NoStatus]

\* One entry of a handler's remaining work: a ledger row to post, or (at the end
\* of a deployment's round for an asset) the suppressions to insert.
Work == [do : Event \cup {"suppress"}, asset : Asset]

Operation == {"idle", "repair.create", "repair.approve", "repair.updateStatus",
              "resale.create", "resale.updateStatus", "disposal.create",
              "disposal.approve", "disposal.startProcessing", "disposal.complete",
              "inspections.create", "inspections.cancel", "inspections.complete",
              "retrieval.create", "retrieval.updateStatus", "deployment.create",
              "deployment.updateStatus", "assets.create", "assets.updateStatus"}

Await == {"idle", "read", "counted", "tx", "post", "aborted", "answered", "outcome"}

\* What a request body asks for: a status, a bundle, an inspection's result.
Target == AssetStatus \cup
          {"none", "pending", "approved", "sent", "returned", "completed", "cancelled",
           "listed", "in_progress", "initiated", "in_transit", "received", "delivered",
           "standard", "full_prep", "full_cycle", "clean", "damaged"}

CallRecord ==
    [op     : Operation,                             \* the service method
     at     : Await,                                 \* the await it is at
     id     : Ref \cup {NoRef},                      \* the row it works on
     on     : SUBSET Asset,                          \* the assets it writes
     seen   : [Asset -> AssetStatus \cup {NoStatus}], \* statuses it has read
     to     : Target,                                \* what was asked for
     ask    : SUBSET Optional,                       \* optional charges asked for
     due    : Seq(Work),                             \* what it does next
     rest   : Seq(Asset),                            \* assets its loop has to visit
     held   : SUBSET Asset,                          \* asset rows its tx has locked
     sup    : SUBSET (Nat \ {0}),                    \* suppressions not yet committed
     src    : Ref \cup {NoRef}]                      \* the retrieval it continues

Idle == [op |-> "idle", at |-> "idle", id |-> NoRef, on |-> {}, seen |-> Unread,
         to |-> "none", ask |-> {}, due |-> <<>>, rest |-> <<>>, held |-> {},
         sup |-> {}, src |-> NoRef]

Request(op, id, S, to) ==
    [Idle EXCEPT !.op = op, !.at = "read", !.id = id, !.on = S, !.to = to]

\* The statuses of the assets in S, as a query made now returns them.
Snapshot(S) == [a \in Asset |-> IF a \in S THEN status[a] ELSE NoStatus]

Always(s) == [a \in Asset |-> s]

Exists(a) == status[a] # NoStatus

Begin(h, c) == /\ call[h] = Idle
               /\ call' = [call EXCEPT ![h] = c]

In(h, op, at) == call[h].op = op /\ call[h].at = at

Reply(h) == call' = [call EXCEPT ![h] = Idle]

\* The ledger row of an optional charge, if it was asked for.
Asked(ask, charge, a) ==
    IF charge \in ask THEN <<[do |-> charge, asset |-> a]>> ELSE <<>>

\* A row id handed out now: no open transaction and no ledger row has it.
Fresh(id) == /\ \A h \in Handler : call[h].id # id
             /\ \A i \in 1..Len(ledger) : ledger[i].ref # id

(***************************************************************************)
(* Asset rows.  An UPDATE waits while another transaction holds the row.   *)
(***************************************************************************)
Unlocked(h, S) == \A g \in Handler \ {h} : call[g].held \cap S = {}

\* asset.update({ currentStatus }) with assetStatusHistory.record in the same
\* transaction: `from` is whatever the caller passes as fromStatus.
Move(h, S, from, to, by) ==
    /\ Unlocked(h, S)
    /\ status' = [a \in Asset |-> IF a \in S THEN to ELSE status[a]]
    /\ history' = [a \in Asset |->
                     IF a \in S
                     THEN Append(history[a], [from |-> from[a], to |-> to, by |-> by])
                     ELSE history[a]]
    /\ unrecorded' = unrecorded \ S

Stay == UNCHANGED <<status, history, unrecorded>>

Unposted == UNCHANGED <<ledger, suppressed, failures>>

(***************************************************************************)
(* The ledger                                                              *)
(***************************************************************************)
\* Mutant: a posting that is retried although its row was written.
PostRowRetried(h) ==
    /\ call[h].at \in {"tx", "post"}
    /\ call[h].due # <<>>
    /\ LET w == Head(call[h].due)
       IN /\ w.do \in Event
          /\ ledger' = Append(ledger, [event |-> w.do, asset |-> w.asset,
                                       ref |-> call[h].id])
    /\ UNCHANGED <<status, history, suppressed, call, failures, unrecorded>>

\* ledger.create of the next row due.  It commits on its own connection.  A
\* call that posts after its commit ("post") answers with the last row.
PostRow(h) ==
    /\ call[h].at \in {"tx", "post"}
    /\ call[h].due # <<>>
    /\ LET w == Head(call[h].due)
       IN /\ w.do \in Event
          /\ ledger' = Append(ledger, [event |-> w.do, asset |-> w.asset,
                                       ref |-> call[h].id])
    /\ IF call[h].at = "post" /\ Tail(call[h].due) = <<>>
       THEN Reply(h)
       ELSE call' = [call EXCEPT ![h] = [@ EXCEPT !.due = Tail(call[h].due)]]
    /\ UNCHANGED <<status, history, suppressed, failures, unrecorded>>

\* A statement fails, the transaction times out, or the process dies: nothing
\* that was not committed remains, and everything that was, does.
Fail(h) ==
    /\ call[h] # Idle
    /\ failures < MaxFailures
    /\ failures' = failures + 1
    /\ Reply(h)
    /\ UNCHANGED <<status, history, ledger, suppressed, unrecorded>>

(***************************************************************************)
(* Initially the stocked assets have been received into storage.           *)
(***************************************************************************)
RegisterInit ==
    /\ status = [a \in Asset |-> IF a \in Stocked THEN "in_storage" ELSE NoStatus]
    /\ history = [a \in Asset |->
                    IF a \in Stocked
                    THEN <<[from |-> NoStatus, to |-> "in_storage", by |-> "inbound"]>>
                    ELSE <<>>]
    /\ ledger = Received
    /\ suppressed = {}
    /\ call = [h \in Handler |-> Idle]
    /\ failures = 0
    /\ unrecorded = {}

RegisterTypeOK ==
    /\ status \in [Asset -> AssetStatus \cup {NoStatus}]
    /\ history \in [Asset -> Seq(HistoryRow)]
    /\ ledger \in Seq(LedgerRow)
    /\ suppressed \subseteq Nat \ {0}
    /\ call \in [Handler -> CallRecord]
    /\ failures \in 0..MaxFailures
    /\ unrecorded \in SUBSET Asset
=============================================================================
