------------------------------- MODULE Receiving -------------------------------
(***************************************************************************)
(* InboundService: expected deliveries, and the goods received notes (GRN) *)
(* that record what of them has arrived.  receiveDevices reads the         *)
(* delivery, then creates assets, the note and the new status in one       *)
(* transaction; an advisory lock serialises the numbering of the notes of  *)
(* one month.  The status is also derived by updateDelivery and written by *)
(* hand (updateDeliveryStatus).                                            *)
(***************************************************************************)
EXTENDS Backend

CONSTANTS Delivery,     \* ids of expected deliveries
          Quantity,     \* device counts an operator may expect, 0 without items
          Serial,       \* serial numbers of devices
          Batch,        \* sequences of serial numbers received in one call
          Month,        \* calendar months a call may run in
          Grn           \* ids the goods_received_notes table may hand out

ASSUME ReceivingAssumption ==
    /\ Quantity \subseteq Nat
    /\ Batch \subseteq Seq(Serial)
    /\ IsFiniteSet(Grn)

DeliveryStatus == {"pending", "partially_received", "completed", "cancelled"}

NoDelivery == "absent"

VARIABLES delivery,     \* expected_deliveries, by id
          note,         \* goods_received_notes, by id
          stock,        \* serial numbers of the assets that exist
          receiving,    \* handler -> the call it is serving
          broken,       \* calls that have failed so far
          byManager,    \* ghost: deliveries whose status was set by hand last
          crossed       \* ghost: deliveries two calls have worked on at once

receivingVars == <<delivery, note, stock, receiving, broken, byManager, crossed>>

DeliveryRow == [status : DeliveryStatus \cup {NoDelivery}, expected : Nat]

\* Without the override a receipt creates all its devices; with it, it takes those
\* that exist already as they are.
NoteRow == [on : SUBSET Delivery, month : SUBSET Month, number : Nat,
            devices : Seq(Serial), created : SUBSET Serial, override : BOOLEAN]

NoNote == [on |-> {}, month |-> {}, number |-> 0, devices |-> <<>>, created |-> {},
           override |-> FALSE]

ReceivingCall ==
    [op       : {"idle", "receive", "receive.insert", "receive.locked", "receive.counted", "edit"},
     on       : SUBSET Delivery,
     month    : SUBSET Month,
     expected : Nat,                 \* the sum of the items, as read or as asked for
     received : Nat,                 \* the sum of the receipts, as read
     override : BOOLEAN,
     devices  : Seq(Serial),
     rest     : Seq(Serial),         \* those the loop has not reached
     created  : SUBSET Serial,       \* assets inserted, not committed
     number   : Nat]

NoCall == [op |-> "idle", on |-> {}, month |-> {}, expected |-> 0, received |-> 0,
           override |-> FALSE, devices |-> <<>>, rest |-> <<>>, created |-> {}, number |-> 0]

Stored(g) == note[g] # NoNote

NotesOf(m) == {g \in Grn : note[g].month = {m}}

NotesOn(d) == {g \in Grn : note[g].on = {d}}

\* The devices on the stored notes of d, added up from the deviceCount of each.
ReceivedOf(d) == Cardinality(UNION {{g} \X DOMAIN note[g].devices : g \in NotesOn(d)})

\* What a receipt makes of the status, and what an edit of the items does.
AfterReceipt(received, expected) ==
    IF received >= expected THEN "completed" ELSE "partially_received"

Derived(received, expected) ==
    IF received = 0 /\ expected > 0 THEN "pending" ELSE AfterReceipt(received, expected)

ReceivingInit ==
    /\ delivery = [d \in Delivery |-> [status |-> NoDelivery, expected |-> 0]]
    /\ note = [g \in Grn |-> NoNote]
    /\ stock = {}
    /\ receiving = [h \in Handler |-> NoCall]
    /\ broken = 0
    /\ byManager = {}
    /\ crossed = {}

Done(h) == receiving' = [receiving EXCEPT ![h] = NoCall]

\* A call starts on d: it overlaps those that are working on d.
Starts(h, d, c) ==
    /\ receiving[h] = NoCall
    /\ receiving' = [receiving EXCEPT ![h] = c]
    /\ crossed' = IF \E g \in Handler : receiving[g].on = {d} THEN crossed \cup {d} ELSE crossed

CreateExpectedDelivery(d, q) ==
    /\ delivery[d].status = NoDelivery
    /\ delivery' = [delivery EXCEPT ![d] = [status |-> "pending", expected |-> q]]
    /\ UNCHANGED <<note, stock, receiving, broken, byManager, crossed>>

(***************************************************************************)
(* receiveDevices                                                          *)
(***************************************************************************)
InReceipt(h) == receiving[h].op \notin {"idle", "edit"}

\* The delivery, its items and its receipts are read before the transaction.  The
\* list of devices may be empty.
ReceiveDevices(h, d, batch, override, m) ==
    /\ delivery[d].status \notin {NoDelivery, "cancelled"}
    /\ Cardinality({g \in Grn : Stored(g)})
         + Cardinality({g \in Handler : InReceipt(g)}) < Cardinality(Grn)
    /\ Starts(h, d, [NoCall EXCEPT !.op = "receive", !.on = {d}, !.month = {m},
                                   !.expected = delivery[d].expected,
                                   !.received = ReceivedOf(d), !.override = override,
                                   !.devices = batch, !.rest = batch])
    /\ UNCHANGED <<delivery, note, stock, broken, byManager>>

\* Mutant: the serial number is not looked up, the insert takes what exists.
ReceiveLookUpNever(h) ==
    /\ receiving[h].op = "receive"
    /\ receiving[h].rest # <<>>
    /\ LET s == Head(receiving[h].rest)
       IN IF s \notin stock
          THEN receiving' = [receiving EXCEPT ![h].op = "receive.insert"]
          ELSE receiving' = [receiving EXCEPT ![h].rest = Tail(receiving[h].rest)]
    /\ UNCHANGED <<delivery, note, stock, broken, byManager, crossed>>

\* The loop looks the serial number up; a transaction sees its own inserts.
ReceiveLookUp(h) ==
    /\ receiving[h].op = "receive"
    /\ receiving[h].rest # <<>>
    /\ LET s == Head(receiving[h].rest)
           known == s \in stock \cup receiving[h].created
       IN IF ~ known
          THEN receiving' = [receiving EXCEPT ![h].op = "receive.insert"]
          ELSE IF receiving[h].override
          THEN receiving' = [receiving EXCEPT ![h].rest = Tail(receiving[h].rest)]
          ELSE Done(h)
    /\ UNCHANGED <<delivery, note, stock, broken, byManager, crossed>>

\* The insert waits while another transaction has inserted the same serial number,
\* and violates the unique key if that was committed.
InsertWaits(h, g) ==
    /\ g # h
    /\ receiving[h].op = "receive.insert"
    /\ Head(receiving[h].rest) \in receiving[g].created

ReceiveInsert(h) ==
    /\ receiving[h].op = "receive.insert"
    /\ \A g \in Handler : ~ InsertWaits(h, g)
    /\ LET s == Head(receiving[h].rest)
       IN IF s \in stock
          THEN Done(h)
          ELSE receiving' = [receiving EXCEPT ![h].op = "receive",
                                              ![h].created = receiving[h].created \cup {s},
                                              ![h].rest = Tail(receiving[h].rest)]
    /\ UNCHANGED <<delivery, note, stock, broken, byManager, crossed>>

HoldsMonth(h) == receiving[h].op \in {"receive.locked", "receive.counted"}

\* Mutant: no advisory lock.
ReceiveLockNone(h) ==
    /\ receiving[h].op = "receive"
    /\ receiving[h].rest = <<>>
    /\ receiving' = [receiving EXCEPT ![h].op = "receive.locked"]
    /\ UNCHANGED <<delivery, note, stock, broken, byManager, crossed>>

\* pg_advisory_xact_lock: held until the transaction ends.
ReceiveLock(h) ==
    /\ receiving[h].op = "receive"
    /\ receiving[h].rest = <<>>
    /\ \A g \in Handler : HoldsMonth(g) => receiving[g].month # receiving[h].month
    /\ receiving' = [receiving EXCEPT ![h].op = "receive.locked"]
    /\ UNCHANGED <<delivery, note, stock, broken, byManager, crossed>>

\* The notes of the month are counted; the next number is one more.
ReceiveCount(h) ==
    /\ receiving[h].op = "receive.locked"
    /\ receiving' = [receiving EXCEPT
         ![h].op = "receive.counted",
         ![h].number = Cardinality({g \in Grn : note[g].month = receiving[h].month}) + 1]
    /\ UNCHANGED <<delivery, note, stock, broken, byManager, crossed>>

NoteOf(h) == [on |-> receiving[h].on, month |-> receiving[h].month,
              number |-> receiving[h].number, devices |-> receiving[h].devices,
              created |-> receiving[h].created, override |-> receiving[h].override]

\* One device cannot be on a note twice: the primary key of grn_assets.
Repeats(s) == \E i, j \in DOMAIN s : i # j /\ s[i] = s[j]

\* Mutant: a receipt that leaves the delivery open while devices are missing
\* compares with this call's devices only.
ReceiveCommitForgetful(h) ==
    /\ receiving[h].op = "receive.counted"
    /\ IF Repeats(receiving[h].devices)
       THEN UNCHANGED <<delivery, note, stock, byManager>>
       ELSE /\ \E g \in Grn : ~ Stored(g) /\ note' = [note EXCEPT ![g] = NoteOf(h)]
            /\ stock' = stock \cup receiving[h].created
            /\ delivery' = [d \in Delivery |->
                 IF d \in receiving[h].on
                 THEN [delivery[d] EXCEPT !.status =
                         AfterReceipt(Len(receiving[h].devices), receiving[h].expected)]
                 ELSE delivery[d]]
            /\ byManager' = byManager \ receiving[h].on
    /\ Done(h)
    /\ UNCHANGED <<broken, crossed>>

\* The note with its devices and the status computed from what was read: they
\* appear with the commit.
ReceiveCommit(h) ==
    /\ receiving[h].op = "receive.counted"
    /\ IF Repeats(receiving[h].devices)
       THEN UNCHANGED <<delivery, note, stock, byManager>>
       ELSE /\ \E g \in Grn : ~ Stored(g) /\ note' = [note EXCEPT ![g] = NoteOf(h)]
            /\ stock' = stock \cup receiving[h].created
            /\ delivery' = [d \in Delivery |->
                 IF d \in receiving[h].on
                 THEN [delivery[d] EXCEPT !.status =
                         AfterReceipt(receiving[h].received + Len(receiving[h].devices),
                                      receiving[h].expected)]
                 ELSE delivery[d]]
            /\ byManager' = byManager \ receiving[h].on
    /\ Done(h)
    /\ UNCHANGED <<broken, crossed>>

(***************************************************************************)
(* updateDelivery with items, and updateDeliveryStatus                     *)
(***************************************************************************)
\* An edit that names items names at least one.
UpdateDelivery(h, d, q) ==
    /\ q > 0
    /\ delivery[d].status \notin {NoDelivery, "cancelled"}
    /\ q >= ReceivedOf(d)
    /\ Starts(h, d, [NoCall EXCEPT !.op = "edit", !.on = {d}, !.expected = q,
                                   !.received = ReceivedOf(d)])
    /\ UNCHANGED <<delivery, note, stock, broken, byManager>>

\* The status is derived again from the receipts read before.  An edit that names
\* no items leaves it, and everything else modelled here, alone.
UpdateDeliveryCommit(h) ==
    /\ receiving[h].op = "edit"
    /\ delivery' = [d \in Delivery |->
         IF d \in receiving[h].on
         THEN [status |-> Derived(receiving[h].received, receiving[h].expected),
               expected |-> receiving[h].expected]
         ELSE delivery[d]]
    /\ byManager' = byManager \ receiving[h].on
    /\ Done(h)
    /\ UNCHANGED <<note, stock, broken, crossed>>

\* A manager may write any status over any other.
UpdateDeliveryStatus(d, s) ==
    /\ delivery[d].status # NoDelivery
    /\ delivery' = [delivery EXCEPT ![d].status = s]
    /\ byManager' = byManager \cup {d}
    /\ UNCHANGED <<note, stock, receiving, broken, crossed>>

(***************************************************************************)
(* Errors                                                                  *)
(***************************************************************************)
\* Calls that wait for each other's inserts: PostgreSQL cancels one.
ReceiveDeadlock(h) ==
    /\ \E C \in SUBSET Handler : h \in C /\ \A x \in C : \E y \in C : InsertWaits(x, y)
    /\ Done(h)
    /\ UNCHANGED <<delivery, note, stock, broken, byManager, crossed>>

ReceivingFail(h) ==
    /\ receiving[h] # NoCall
    /\ broken < MaxFailures
    /\ broken' = broken + 1
    /\ Done(h)
    /\ UNCHANGED <<delivery, note, stock, byManager, crossed>>

ReceivingNext ==
    \/ \E d \in Delivery :
         \/ \E q \in Quantity : CreateExpectedDelivery(d, q)
         \/ \E s \in DeliveryStatus : UpdateDeliveryStatus(d, s)
    \/ \E h \in Handler :
         \/ \E d \in Delivery, b \in Batch, o \in BOOLEAN, m \in Month :
              ReceiveDevices(h, d, b, o, m)
         \/ ReceiveLookUp(h)
         \/ ReceiveInsert(h)
         \/ ReceiveLock(h)
         \/ ReceiveCount(h)
         \/ ReceiveCommit(h)
         \/ \E d \in Delivery, q \in Quantity : UpdateDelivery(h, d, q)
         \/ UpdateDeliveryCommit(h)
         \/ ReceiveDeadlock(h)
         \/ ReceivingFail(h)

ReceivingSpec == ReceivingInit /\ [][ReceivingNext]_receivingVars

(***************************************************************************)
(* Properties                                                              *)
(***************************************************************************)
ReceivingTypeOK ==
    /\ delivery \in [Delivery -> DeliveryRow]
    /\ note \in [Grn -> NoteRow]
    /\ stock \subseteq Serial
    /\ receiving \in [Handler -> ReceivingCall]
    /\ broken \in 0..MaxFailures
    /\ byManager \subseteq Delivery
    /\ crossed \subseteq Delivery

\* The numbers of the notes of a month are 1, 2, 3, ... without a gap and without
\* a double, however many receipts run at once or fail.
NumbersInSequence ==
    \A m \in Month :
      /\ {note[g].number : g \in NotesOf(m)} = 1..Cardinality(NotesOf(m))
      /\ \A g, k \in NotesOf(m) : note[g].number = note[k].number => g = k

\* Every asset was created by exactly one receipt, and a receipt without the
\* override created every device it lists.
CreatedOnce ==
    /\ stock = UNION {note[g].created : g \in Grn}
    /\ \A g, k \in Grn : g # k => note[g].created \cap note[k].created = {}
    /\ \A g \in Grn : ~ note[g].override =>
         note[g].created = {note[g].devices[i] : i \in DOMAIN note[g].devices}

\* Completed exactly when a receipt was stored and the devices make up what is
\* expected, pending only while no device has come, partially received only after
\* a receipt.
Tells(status, notes, received, expected) ==
    /\ status # "cancelled"
    /\ status = "completed" <=> notes # {} /\ received >= expected
    /\ status = "pending" => received = 0
    /\ status = "partially_received" => notes # {}

\* As long as calls on a delivery do not overlap, a status that was not written by
\* hand since is the one its receipts and its items tell.
StatusFollowsReceipts ==
    \A d \in Delivery \ (byManager \cup crossed) :
      delivery[d].status # NoDelivery =>
        Tells(delivery[d].status, NotesOn(d), ReceivedOf(d), delivery[d].expected)
================================================================================
