# Warehouse management: TLA+ models, checks and proofs

The repository is the API (`src/apps/api`, NestJS over PostgreSQL through Prisma)
and the web client (`src/apps/web`, React with a query cache) of a warehouse that
stores, ships, takes back, repairs, sells and disposes of its clients' devices, and
bills every one of these actions. This directory holds TLA+ modules of what both
do, TLC configurations that check them on small instances, and TLAPS proofs for any
size.

Paths are relative to `src/apps/api/src` (API) or `src/apps/web/src` (files that end
in `.tsx`, and `api/`, `lib/`) unless they begin with `src/`. `PROJECT.json` has, for
every definition, the lines it models (`map`), and the hazards of the code with the
properties that are about them.

## 1. The system

**API.** Every service is a NestJS class over one PostgreSQL database. A request is
an `async` handler: between any two `await`s other handlers run, in this process or
in another. Rows are read before, often outside, the transaction that writes them,
and the isolation level is PostgreSQL's default, READ COMMITTED: an
`UPDATE ... WHERE id = ?` waits for a transaction that holds the row and then
overwrites what it wrote. Two services are used by the others and decide what a
failure leaves behind: `AssetStatusHistoryService.record` takes the caller's
transaction, so a status change and its history row commit together;
`LedgerService.create` and `AuditService.log` never receive a transaction, so what
they write inside somebody's transaction is committed at once and survives its
rollback.

**Web client.** A page reads the API through cached answers; a change names the
answers to fetch again. Answers come in late, in any order, or not at all, and the
session may be changed by another tab.

| Component | State | Operations | What is hard | What makes it correct |
|---|---|---|---|---|
| Asset register (`asset-status-history`, `ledger`, schema) | status, history, ledger, suppressions | record, create, createSuppression, createCorrection | writes outside the transaction; `fromStatus` read earlier | history ends with the status; a charge stands once |
| Repairs, resale, disposal | request status, approval, challan | create, approve, updateStatus, process, complete | checks made on old reads, charge after the commit | sign-off before work, device accounted for, charged at most once |
| Deployment | order, its assets, charges, suppressions | create, updateStatus, update, transport charge | lock order, swallowed unique violation, charges outside the transaction, differences to an old total | a committed order is charged, a rolled-back one waives nothing |
| Retrieval, inspections | request, inspection, SLA mails | create, updateStatus, cancel, complete, breach sweep | the call goes on after its commit and redeploys | received devices are inspected, outcome reaches the retrieval |
| Asset forms | asset row | create, updateStatus | any status may be set by hand, and the edit decides from an old read whether to record it | history row with every change |
| Charge billing, inbound billing | batches, stamps | markBilled, undo | unique key races, deadlock, set computed before it is claimed | a charge is on one invoice |
| Inbound | deliveries, receipts, assets | expect, receive, edit, edit a receipt's date | stale totals, numbering, corrections of corrected rows | numbers without gap, an asset created once, one charge standing |
| Storage accrual | monthly runs, charges | run, re-run | crash between reversal and charge | a month adds up to its last run |
| Rate card | versions | create, findEffectiveAt | two versions at once | a rate on every day |
| Accounts | account row | create, invite, register, sign in, edit, suspend | counters and checks as read-modify-write | a way in for the owner; a client for a client's role |
| Connections | pool | borrow, give back | a transaction that asks for a second connection | a pool larger than the requests in flight answers them all without a timeout |
| Roles and tenancy | per endpoint, per page | guards, offers | two tables written apart | what is offered is permitted |
| Ticket pages, create forms | cached row, controls, dialogs, form | show, choose, confirm, submit | late answers, unsaved choices | shows and sends what the user sees |
| Query cache | answers | fetch, invalidate | lists of keys written by hand | pages catch up |
| Billing page, receiving page | lists put together from answers | mark, scan, paste, submit | answers of different moments | nothing vanishes or is listed twice |

## 2. Modules

```
Backend / AssetRegister      what API handlers have in common / the shared rows
  Repair Resale Disposal Assets
  Inspections -> Retrieval \
  Deployment  -------------- Redeploy
        Warehouse            all of them over one register   (WarehouseProofs)
Invoicing                    what billing promises
  ChargeBilling              implements it                   (ChargeBillingProofs)
  InboundBilling             implements it                   (InboundBillingProofs)
Receiving                    deliveries, receipts, assets    (ReceivingProofs)
ReceiptLedger                the ledger rows of one receipt  (ReceiptLedgerProofs)
StorageAccrual               the month's run               \
RateCard                     versions of one code           \
OrderEdits                   edits of one order              (BackOfficeProofs)
SlaNotifier                  the sweeps for breached SLAs   /
Accounts                     one account                     (AccountsProofs)
ConnectionPool               transactions and connections
Api -> Access                who may call what, a tab      \
TicketPages, CreateForms     a ticket's row, its form       \
ScreenCache                  answers, pages and changes      (ClientProofs)
BillingPage, ReceivePage     lists of several answers       /
MC*                          instances for TLC
```

### Services over the register

`status`, `history`, `ledger` and `suppressed` are the tables; `call[h]` is the
record of the request a handler is serving: the method (`op`), the await it is at
(`at`), the ids and statuses it has read (`id`, `on`, `seen`), what it still has to
post or to visit (`due`, `rest`), the rows its transaction holds (`held`) and the
suppressions it has not committed (`sup`). `Begin` is the arrival of a request with
its reads and checks, `Reply` its answer or its error. `Move` is
`asset.update({ currentStatus })` with `assetStatusHistory.record`; `PostRow` is one
`ledger.create`, which stays whatever happens next; `Fail` ends a call at any await.

Each service has its table as one variable, its transition table as a function, and
for each method an action for the reads and checks and one for each transaction or
write after it. A transaction whose statements nobody can tell apart is one step,
the commit; it is split where something else becomes visible in between: ledger
rows, row locks, a row updated first.

* `Disposal` does not change the status of the asset before completion.
* `Deployment.create` visits the assets in the order of the request, holds each row
  from its update on, posts row by row, and inserts one suppression per component
  charge. A collision is swallowed but has aborted the transaction: a further
  statement throws, otherwise COMMIT rolls back silently and the order is answered
  although it does not exist (`DeploymentAborted`).
* `Redeploy`: `handleRetrievalDiagnosticOutcome` runs after the commit of
  `inspections.complete` in the same call, creates an order as any operator would
  and then completes the retrieval.
* `Assets`: the manual edit writes a history row only if the status asked for is not
  the one read before the transaction. The ghost `unrecorded` has the assets whose
  status it overwrote that way; the next recorded change takes them out.

### Billing

`Invoicing` is the promise: a charge is on at most one outstanding invoice, of one
client, and an invoice changes only by being withdrawn. `ChargeBilling` keeps it
with a primary key: rows are inserted one by one in an order the code does not ask
for, an insert waits for another transaction's row (`Waits`), is refused when that
commits, and PostgreSQL cancels one of the calls that wait for each other
(`DeadlockVictim`). `InboundBilling` keeps it without a key, by computing the
pending devices, stamping those still unstamped and comparing the counts.

### Tables of their own

* `Receiving`: `receiveDevices` reads the delivery, then looks serials up and inserts
  assets one by one, takes the advisory lock of the month, counts its notes, and
  commits note, assets and status. `updateDelivery` and `updateDeliveryStatus` write
  the same status. A delivery may have no items, or items of quantity 0, and a receipt no
  devices: the DTOs accept both, and `AfterReceipt` writes for it what the code does,
  `partially_received` or `completed`. `byManager` and `crossed` are ghosts for what
  the status property excepts.
* `ReceiptLedger`: the versions of each charge of a receipt while its date is edited
  (correct, post again), an administrator corrects rows by hand and Full Prep orders
  waive them.
* `StorageAccrual`: a run reverses what the last recorded run charged, counts, posts
  and records itself, each write on its own; devices and terms change meanwhile.
* `RateCard`: create looks an open version up, ends it and inserts the new one in
  three statements.
* `OrderEdits`: an edit reads order and billed total, writes the order with its
  assets, then posts the difference.
* `SlaNotifier`: sweeps overlap, mail, then mark; a refused mail is lost.
* `ConnectionPool`: a transaction holds a connection and asks for a second for each
  row it posts, and gives it back when the row is written; a wait may end with a timeout.
* `Accounts`: every call reads the row, hashes or checks a password, and writes the
  row by id.

### The web client

* `Api` has one record per controller and one field per handler: the roles named by
  `@Roles` and whose rows the handler touches. `Access` is a tab: the user it read
  when loaded, the token in the storage other tabs write, the pages a role gets to
  through sidebar and links, and the calls each page makes or offers.
* `TicketPages` is one ticket on its list page, for the five kinds of ticket: cached
  rows per filter, fetches that overtake each other, the status select, the dialogs,
  requests that are lost. `CreateForms` is the form: client, assets, the typed end
  user who is linked, matched or created. Without a client the deployment form lists the
  assets and end users of all.
* `ScreenCache` has, for every page, the answers it shows, and for every change what
  it writes and which answers it names; a behaviour follows one change and one answer
  while the user moves about.
* `BillingPage` puts the list of what waits to be billed together from three answers,
  one of them the latest ledger rows of the chosen dates that no bundle covers, as many
  as an answer takes (500 in the code, `MaxAnswer`). Rows for storage are left out of
  the list but count toward the cut.
* `ReceivePage` allots scanned and pasted serials to the expected lines. Meanwhile others
  receive, give a received device another model, and change the lines' quantities and
  kinds.

## 3. What the runs check

Passing runs take between 10 seconds and three minutes with two workers. Components
that share no state are checked in one run, where a behaviour picks the one that
works (`focus`), so that their states add up and do not multiply.

| Run | Instance | Checks | States |
|---|---|---|---|
| `services` | five groups of services, one device in stock and one to be registered, 2 calls, 1 failure | `IInv`, `HistoryMatchesStatus`, `StatusJustified`, `SignedOff`, `ClosedWithProof`, `PostedAfterCommit` | 1.8 M |
| `goods` | orders (2 devices, 2 orders in either order); `Receiving` (1 delivery of 0, 2 or 3 devices, 2 serials, empty receipts); `ReceiptLedger` (1 charge, 2 dates, 3 versions); `StorageAccrual` (2 runs); `Accounts` (lock after 2 failures); 2 calls, 1 failure | `CommittedIsCharged`, `WaivedForBundle`; `NumbersInSequence`, `CreatedOnce`, `StatusFollowsReceipts`; `ReceiptCharged`, `StandsOnce`; `MonthCharged`; `ScopedHasClient`, `WayIn` | 2.0 M |
| `back_office` | `ChargeBilling` (3 charges of 2 clients, 3 batch ids); `RateCard` (3 days, 4 versions); `OrderEdits` (2 edits); 2 calls, 1 failure, fairness | `BatchesExact`, `LiveIsAudited`, `EveryCallAnswers`, refinement `KeepsPromise`; `AlwaysARate`; `BilledAsAsked`, `DevicesFollowOrder` | 0.3 M |
| `inbound` | `InboundBilling` (3 devices of 2 clients, 2 records, 2 calls, 1 failure); `BillingPage` (1 device with 3 rows, 2 charges, answers of 2 rows); `ReceivePage` (1 or 2 lines, of one kind or two, 2 serials) | `StampedIsCharged`, refinement `KeepsPromise`; `PendingListed`; `AutoFillFits` | 1.2 M |
| `progress` | a device with a retrieval, an inspection and redeployments, without failures; `SlaNotifier` (2 inspections, 2 sweeps); `ConnectionPool` (pools of 1 to 3, 2 requests at once); fairness | `RedeployFollows`; `MarkedMeansMailed`, `BreachIsReported`; `PoolSuffices` | 70 k |
| `client` | `CreateForms` (2 clients, 2 assets, 2 names); `Access` (every role, 2 clients); `ScreenCache` (every page, change and answer) | `SendsItsAssets`, `NamedUser`, `NameOnce`; `OfferedIsPermitted`; `PagesCatchUp` | 3.5 M |
| `tickets` | `TicketPages` (5 pages, 3 roles, 2 requests, 1 mishap), the rows and the create form | `OfferedIsAccepted`, `SelectTellsStatus`, `ShowsOwnChanges`, `PickerFree` | 4.6 M |

The properties are stated, with what they except and why, above their definitions.
The ones that need a word here:

* `StatusJustified`: an asset that no form moved is away from the shelf only while a
  request of the service that took it says so. Services overwrite each other's
  statuses on old reads, and a repair that lost its device still runs.
* `PostedAfterCommit`, `CommittedIsCharged`: the two ways of posting, after the commit
  and inside it, and what each still guarantees under failure.
* `StatusFollowsReceipts`, `BilledAsAsked`, `MonthCharged`, `ScopedHasClient`, `WayIn`:
  hold between calls that do not overlap, and a ghost records that calls did. That
  overlapping calls break them is what the code does; the hazards in `PROJECT.json`
  say where.
* `HistoryMatchesStatus`: holds for every asset but those in `unrecorded`, which only an
  edit by hand that overlaps another change of the device puts there; `v_history` shows
  one.
* `OfferedIsPermitted`, `OfferedIsAccepted`: for all pages and roles at once. What a page
  offers and the API refuses is listed by the definitions `Unserved` (an operator on the
  inbound, billing and ledger pages and in two forms; a client user on the pages of an
  asset, an inspection and of deployments, which its dashboard links; deletions of
  documents; the export of the ledger) and `Offered`.
* `PagesCatchUp` is about the answers shown by the page a change is made on, about the
  asset list and the counts, and about what shows an inspection. A change names no
  others: the rest of what it makes old, the page of an asset after a change on the
  inventory among it, is shown as it was for up to `staleTime` (30 s).
* `PendingListed`: the receptions listed are those the service would bill, whatever dates
  are chosen and however many rows the ledger has, because devices come from an answer of
  their own. Other charges are listed only if they are of the chosen dates and among the
  rows of the answer; the page tells nobody of those that are not.
* `PickerFree`: where the form is opened in the run, on each of the five pages, the user
  has the most its page tells apart (an approver on the repair and disposal pages, a
  writer on the others).
* `PoolSuffices`: with more connections than requests in flight every request ends without
  a timeout. In a pool no larger than that every request may hold the connection another
  waits for; only the timeouts of Prisma end it.

**Bounds.** Every hazard of the API is a pair of a read and a write around another
write: two calls that overlap show it, a third only repeats one. One device is enough
where services meet on one row; two are needed for lock order, three charges so that
two calls overlap in one and not in the others, three notes so that a number may be
left out between two others. Ids are never reused, so tables bound how many requests
a run creates. `MaxFailures` is 1, so that a call can die while another goes on.
`goods` has all lines of a delivery of one kind, because the server adds the lines up,
and two months would only halve the receipts that meet. The runs of the web client look
at one ticket, one change and one answer at a time: what a page shows of one does not
depend on others; an answer of two ledger rows is cut when there are three. In
`services`, repairs and disposals next to each other see no failure: they fail beside
resales and alone. The statuses an order goes through later are left to `goods`: no
other service reads them. Deadlock checking is off: tables run out of ids and users
stop; a real deadlock is what `EveryCallAnswers` and `PoolSuffices` are about.

### Disagreements with documents and comments

Each `v_*` run checks one sentence of the repository and finds a behaviour of the
code that contradicts it.

| Run | The sentence | What the code does |
|---|---|---|
| `v_single_tx` | `deployment/deployment.service.ts:319` "Everything runs inside a single Prisma transaction" | charges survive the rollback |
| `v_swallowed` | `deployment/deployment.service.ts:501` "ignore if already suppressed" | the order is answered and not stored |
| `v_priced_once` | `src/SPEC.md:361` "Every priced action posts exactly one ledger row" | two approvals of a disposal charge it twice; so do two completions of an inspection |
| `v_credit` | `inbound/inbound.service.ts:609` "reversing them would credit money that was never charged" | the mirror image: an order waives a charge that has been reversed |
| `v_history` | `asset-status-history/asset-status-history.service.ts:9` "Records one row per Asset.currentStatus transition" | an edit by hand that overlaps another change records nothing |

Found while modelling, without a run of their own:

* `src/infra/prisma/schema.prisma:43` "reachable only from in_storage": the storage
  check precedes the transaction, so a device may be taken from anywhere.
* `src/SPEC.md:205` "`received` when all lines fully received": two receipts at once
  each leave the delivery partially received (the reason for `crossed`).
* `inbound/inbound.service.ts:157` "Cannot receive against a cancelled delivery":
  cancelled while a receipt is under way, it is received all the same.
* `repair/repair.service.ts:349` "Closing a repair requires the Delivery Challan (DC) to
  be uploaded first": the challan may be deleted between its count and the completion.
* `inspections/inspections.service.ts:344` "Asset already has an open inspection": two
  creations at once both find none.
* `inspections/inspections.service.ts:120` "never sends a duplicate": the mark follows
  the mails, and a sweep does not wait for the one before.
* `src/SPEC.md:103` "`code` (unique within effective period": two new versions at once
  end the same predecessor and are both in force.
* `users/users.service.ts:234` "Re-validate the merged (post-update) state": an edit of
  the role and one of the client pass side by side and leave a client's role without one.
* `auth/auth.service.ts:13` "5 failures within 15 min": there is no window, and the
  count survives the lock, so that one failure after it locks again.
* `src/SPEC.md:223` asks for one photo, `inspections/inspections.service.ts:25` for
  three.
* `features/help/HelpPage.tsx:241`: a pending order offers a step to delivered
  (`features/deployment/DeploymentPage.tsx:44`) that the service refuses; it is the
  exception of `OfferedIsAccepted`.

## 4. Fairness

`MCWarehouse!Goes`, in `progress`: weak fairness on `Advance(h)` for each call: Node resumes every
handler whose await has settled, and every statement settles. Nothing is fair about
the arrival of requests. The run has no failures because a failed redeployment is
only logged; `RedeployFollows` says that nothing else, no interleaving and no
swallowed violation, keeps a sound full-cycle device from completing its retrieval.

`ChargeBilling!Fairness`: weak fairness on the steps of each call and on deadlock
detection, which PostgreSQL repeats until none is left, and strong fairness on the
insert of each call: a lock is given to those who wait before a later request. The
lock queue is not modelled; with two calls nobody is overtaken for ever.

`SlaFairness`: weak fairness on the steps of each sweep: the scheduler keeps starting
them every fifteen minutes and a sweep goes on. `PoolFairness`: weak fairness on each
request's steps but for the timeout of its wait (`pool_timeout`, `timeout`), so that
nothing is taken for progress that only a timeout clears up: a request that goes on
finding a free connection takes it, and one that has written its row gives it back.
Nothing is fair in the web client: its properties are invariants.

## 5. What is proved

All with TLAPS, for every value of the constants under the assumptions named in the
modules: ids of a table are ids, null is not an id, bounds and amounts are naturals,
and where the code counts rows (`InboundBillingAssumption`, `ReceivingAssumption`)
there are finitely many. `TicketAssumption` and `FormAssumption` say which pages there
are, `ReceiveAssumption` that a delivery is a list of lines with a kind and a number,
and `BillingAssumption` that the id of a charge is not that of a reception's row. Two
say what the ledger and the orders start from: the rows before the first call are
intake charges (`RegisterAssumption`), and an order names a device once
(`DeploymentAssumption`; `create` drops duplicates first,
`deployment/deployment.service.ts:325`).

| Module | Theorems | State |
|---|---|---|
| `WarehouseProofs` | `Invariant`, `TypeCorrect`, `HistoryTrusted`, `StatusHasReason`, `AlwaysSignedOff`, `AlwaysClosedWithProof`, `NeverChargedEarly`, `CommittedAlwaysCharged`, `WaivedOnlyForBundle` | `IInv`, `TypeOK`, `HistoryMatchesStatus`, `StatusJustified`, `SignedOff`, `ClosedWithProof`, `PostedAfterCommit`, `CommittedIsCharged`, `WaivedForBundle` |
| `ChargeBillingProofs` | `ChargeInvariant`, `ChargesBatched`, `BatchesAudited`, `ChargeBillingKeepsPromise` | `IInv`, `BatchesExact`, `LiveIsAudited`, `KeepsPromise` |
| `InboundBillingProofs` | `InboundInvariant`, `StampsMatch`, `InboundBillingKeepsPromise` | `IInv`, `StampedIsCharged`, `KeepsPromise` |
| `ReceivingProofs` | `ReceivingInvariant`, `NotesNumbered`, `AssetsCreatedOnce`; `StatusInvariant`, `ReceivingTyped`, `StatusTellsReceipts` | `IInv`, `NumbersInSequence`, `CreatedOnce`; `StatusIInv`, `ReceivingTypeOK`, `StatusFollowsReceipts` |
| `ReceiptLedgerProofs` | `ReceiptInvariant`, `ReceiptTyped`, `ReceptionStandsOnce`, `ReceptionFollowsDate` | `ReceiptIInv`, `ReceiptTypeOK`, `StandsOnce`, `ReceiptCharged` |
| `BackOfficeProofs` | `AccrualInvariant`, `MonthAlwaysCharged`; `RateInvariant`, `NoDayWithoutRate`; `OrderInvariant`, `TransportBilledAsAsked`, `DevicesWithUser`; `SlaInvariant`, `NoBreachInSilence` | `AccrualIInv`, `MonthCharged`; `RateIInv`, `AlwaysARate`; `OrderIInv`, `BilledAsAsked`, `DevicesFollowOrder`; `SlaIInv`, `MarkedMeansMailed` |
| `AccountsProofs` | `AccountInvariant`, `ScopeKept`, `NeverLockedOut` | `IInv`, `ScopedHasClient`, `WayIn` |
| `ClientProofs` | `TicketInvariant`, `OffersAreTaken`, `SelectsTellStatus`, `OwnChangesAreShown`, `FormOffersFree` | `TicketIInv`, `OfferedIsAccepted`, `SelectTellsStatus`, `ShowsOwnChanges`, `PickerFree` |
| | `FormInvariant`, `FormSendsItsAssets`, `TicketNamesItsUser`, `NoNameTwice` | `FormIInv`, `SendsItsAssets`, `NamedUser`, `NameOnce` |
| | `AccessInvariant`, `OffersArePermitted`; `CacheInvariant`, `ScreensCatchUp` | `AccessIInv`, `OfferedIsPermitted`; `CacheIInv`, `PagesCatchUp` |
| | `BillingInvariant`, `ListedIsPending`; `ReceiveInvariant`, `LinesAreNotOverfilled` | `BillingIInv`, `PendingListed`; `ReceiveIInv`, `AutoFillFits` |

**Warehouse.** `StatusJustified` is not inductive for two reasons. A call acts on what
it read: `CallsOK` collects what it still knows for certain then, which are only
facts that never become false again (the request exists, it was approved, a challan
was uploaded), not the status it saw. And an asset may be `in_repair` while its
repair has been completed from the point of view of another call: a call about to
complete repair r read r as returned, so r has given its device up. `Held` therefore
asks for an open repair that nobody is about to complete (`Unfinished`). The proof
has a lemma per service, one step per action, and frame lemmas for the others.
`HistoryTrusted` has the edits by hand too: every other change writes its row with the
status (`Move`), and an edit either does so or adds the asset to `unrecorded`.

The charges (`ChargesOK`, the other half of `IInv`) need what a call has still to post,
because a committed row and its charge are written in different steps. `DueWhere`: a
charge is due only in a call of the service that posts it, there and nowhere else.
For a charge posted after the commit (`RepairCharged`, `DisposalCharged`) the request
is on record before the first row, and no other call is past the commit of the same
repair. For one posted inside the transaction (`RetrievalCharged`, `OrderInProgress`,
`WaiverInProgress`) the rows on the ledger and the work left make up exactly what the
commit promises: a device of the order is either still to come and not charged, or
charged once; a component to be waived comes after the bundle that pays for it. A
transaction that fails leaves rows of an order that does not exist, and its id is not
used again. Most steps post nothing, and one lemma (`PlainStep`) covers them.

**Charge billing.** `MarkCalls` says what an open transaction has: its batch id is
unused, its rows are unbilled and among the charges asked for; `Apart` that two
transactions have different ids and no row in common, from `Waits`. At the commit the
rows are all the charges asked for. The refinement maps `issued` to the ids ever used
and `bills` to the live batches; the commit is `Issue`, the delete `Withdraw`.

**Inbound billing.** The rows a call has updated are among the devices it charges; as
many rows as devices are the same devices (`CountedAll`, by cardinality), which is
why comparing the counts is enough. `UndoCalls`: the rows an undo has cleared or
still has to visit are all that bear the stamp.

**Receiving.** `Sound` says what a call has done of its loop: without the override the
devices it lists are those it has created and those left; once it has counted, its
number is one more than the notes of its month. The latter survives other calls only
because of the advisory lock (`Exclusive`: two calls past it have different months).
What open transactions have inserted is theirs alone, because an insert waits for the
other's row and fails on a committed one.

The status rests on what a call has read: on a delivery that is not `crossed` the call
is the only one, and the sum and the items it read are still the delivery's
(`CallsFollow`). A receipt stores its note and writes the status in one transaction, so
the sum it writes from is the old one and the length of its list (`ReceivedGrows`): what
was received is counted as the pairs of a note and a position in its list, and the pairs
of the new note are no other's. `NothingBefore` is needed for a new delivery, which
starts with no receipt.

**Receipt ledger.** What an edit finds is read in one statement and reversed in later
ones, and others write between them. It comes out right because only edits add rows
and the receipt's row is locked from the first statement on (`OneEdit`): what the
holder found is all there is, and what it leaves out are at least the rows before the
last (`FoundAll`). So it reverses the standing row and posts one, or does neither.
Corrections and orders only raise the counts of rows or mark them (`InPlace`), and
`NotLeftOut` says that nobody else makes an edit pass a standing row over.

**Storage accrual.** In the middle of a run the ledger is the last run's charges less
those reversed, or the new run's less those not yet posted (`Stands`); `OneRun` holds
as long as nothing disturbed. **Rate card.** A day has a version in force or a create
under way that will insert one that covers it (`Provided`): whoever ends a version
early is such a create. That the latest of the versions in force exists is the
well-founded order of the naturals. **Order edits**, **accounts.** As long as edits do
not overlap there is one, and what it read is still so (`OneEditor`, `OneEdit`,
`OneSignIn`); failures only lose it. **Breach sweeps.** A recipient a sweep has no longer
to mail about the inspection it is at has been mailed (`SweepsMail`); mails are never
taken back, so no other sweep undoes that.

**Ticket pages.** All changes lead to statuses of a higher rank (`OffersLeadOn`,
`AcceptsLeadOn`, by the tables of the five pages). A cached row that is neither behind
nor late is what the service has, but between a change and its reply (`RowsTrue`); an
answer that is not late brings what is so (`AnswersTrue`). A select that shows another
choice than its row has a reason (`Explained`): its dialog is open, its request is on
its way, it was refused or dismissed, or the ticket has come as far. At rest only the
last is left, and there the choice would not be an option of the row.

**Create forms.** The assets picked are the chosen client's (`PickedFromClient`), since
the choice of another clears them. A handler that goes on with an end user took one
whose name is that of the box when the button was pressed (`NamesTrue`). A name being
created is nobody's yet, and is being created once, unless it was asked for in haste
(`CreatedOnce`): that carries `NameOnce` over the answers in between.

**Roles and tenancy.** The page a tab is on is one its role gets to, and the rows it
lists are those its session may see. That every call such a page makes or offers is
taken by the endpoint, or is on the list of those that are not, is one lemma over the
tables of pages and controllers (`AsksServed`), page by page.

**Query cache.** Likewise one lemma goes through the changes: each names the answers it
makes old, those the page shows and those of the inventory (`ChangesNameEnough`). Once
a change is done, an answer from before it is known to be old, and one still on its
way may bring such only if it has outrun the change (`Settled`).

**Billing page.** A device whose reception was never reversed has no row or one; so
the ledger and the list of pending receptions, which the page joins, name it once.

**Receiving page.** The least the page took the server to have received, since it was
opened or got other lines, is at most what it takes it to have received now
(`SeenLeast`). A serial goes to a line only while
what was received by then and the rows filled in make less than is expected
(`Fitting`), and `Taken` never falls below that. Sums and counts are cardinalities
(`Total`), so that the library's theorems on finite sets reach them. That no serial
stands in two rows is a bijection between rows and serials (`SerialsCounted`).

**Model-checked only.** Every safety invariant and action property of the passing runs
is proved for every value of the constants. What is left to TLC is liveness
(`RedeployFollows`, `EveryCallAnswers`, `BreachIsReported`, `PoolSuffices`), which
the prover does not do; `ConnectionPool` has no other property.

## 6. Not modelled, and why

Amounts and rates are left out of the services over the register: the ledger rows are
events with their asset and reference; the two wipe rates are one event, the two
disposal rates one. Audit rows are modelled only where they are in a transaction's way
(`ChargeBilling`). Zones, SLA dates, ticket numbers, notes and photos change nothing
the models look at.

* Transport pricing, business hours, days in status and courier zones are pure
  calculations or lookups without state.
* Clients, locations and end users are single-row creates and updates; creating an end
  user is in `CreateForms`, their lists in `ScreenCache`.
* Edits of one received device (but for what they do to the receiving page, in
  `ReceivePage`), ticket numbers and zones of orders and requests, and
  uploads of documents other than the delivery challan: rows of labels that no other
  operation reads.
* PDFs, CSV export, inventory and audit queries: reads and layout.
* Pages: what they draw, totals and filters other than those of the ticket lists, the
  inline edits. Known and outside the models: plain `fetch` calls ignore a 401 that
  `api/client.ts` would act on, and a late 401 clears a session begun since; the
  billing page names an answer (`accrual-runs`) that no page asks for; devices scanned
  while a submission is on its way are lost when it succeeds
  (`features/inbound/ReceiveDevicesPage.tsx:296`); the row-level filter of PostgreSQL
  behind the tenant middleware.
