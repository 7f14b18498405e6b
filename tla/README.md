# A verification project for Amar Hisab

Amar Hisab is an offline-first accounting and inventory system for shops. Every
device runs a Dart server with its own SQLite file (`src/lib`, `src/bin/server.dart`);
a Flutter client talks to it over HTTP (`src/flutter_app`); a Go service with
PostgreSQL (`src/cloud/sync`) merges the changes of the devices of a business.

This directory holds TLA+ modules of the parts in which something can go wrong that a
test hardly reaches, the TLC configurations that check them on small instances, and
theorems proved with TLAPS for every value of the constants.

Contents: [inventory](#1-inventory) · [modules and plan](#2-modules-and-plan) ·
[from the code to the model](#3-from-the-code-to-the-model) · [runs](#4-runs) ·
[fairness](#5-fairness) · [proofs](#6-proofs) ·
[divergences](#7-where-code-and-documents-disagree) ·
[what is not modelled](#8-what-is-not-modelled)

How to run, in this directory:

    tlc -workers 2 -config CloudSync.cfg MCCloudSync.tla
    tlapm CloudSyncProofs.tla

`PROJECT.json` lists the components, the runs, the line of the source behind every
definition ("map"), one mutation of the code's behaviour per property that the
property must notice ("mutants"), the hazards, the findings and the theorems.

## 1. Inventory

| Component | State | Operations | What is hard, what makes it correct |
|---|---|---|---|
| Cloud process (`cloud/sync/cmd/server`) | per replica: starting, serving, draining | start with its parts, drain after a signal, exit, crash | two replicas over one database; what a shutdown may cut; a start with a part missing |
| Device authentication (`internal/auth`) | table `devices` | a check at the beginning of each call | the row changes while a call is under way |
| Redis broadcaster (`store/broadcaster.go`) | none | publish a hint after a commit | it is outside the transaction and its error is discarded |
| Cloud Sync Service (`cloud/sync/internal`) | `cloud_change_log` with a BIGSERIAL, unique `change_id` | `PushBatch` = resolve each event, append the winners in one transaction; `PullChanges` = stream rows after a cursor | Handlers run concurrently; the lookup is outside the transaction; errors of it are discarded; sequence numbers become visible out of order. A change is stored once, a reply is true |
| Conflict policy (`conflict/resolver.go`) | none | last write wins, field merge, append-only, event sourcing | ties, missing payloads, what counts as a conflict |
| Local outbox (`change_log`) | rows pending, synced or conflict; per-device sequence | `recordChange` inside the business transaction, marks after a push | a change is neither lost nor overtaken |
| Sync engine (`sync_engine.dart`) | `_cycleRunning`, cursors in `sync_state` | timer or trigger → push, then pull | edits between its awaits; a lost reply; a process that ends between two marks; a pull that fails for good |
| Change applier, local resolver | business tables, `change_log` | apply one pulled event in a transaction | replays, ties, payloads that cannot be written |
| Inventory | `stock`, `batches`, `stock_movements` | add, deduct, transfer, adjust | three views of the same goods that no constraint ties together; FIFO; names of lots |
| Sales | `sales`, items, `sale_payments`, returns | create, pay, update, cancel, return | several transactions per request; cached totals that decide what may be cancelled |
| Journal | `journal_entries`, `journal_lines` | create-and-post, drafts, post | header, lines and outbox row are separate statements; a refused line; posting after the sale or the purchase has committed |
| Purchases | `purchases`, items, payments | create, update, cancel | goods, journal and outbox rows follow the status at different times, or not at all |
| Setup, users, RBAC | `businesses`, `users`, `roles`, permission cache | initialise, login, refresh | guard before an await; tokens and caches that outlive a change |
| Student portal | tokens, students | sign in, read | expiry |
| Flutter client | cache tables, checkout state | refresh, check out | cache emptied before it is filled; no idempotency key |
| Products, warehouses, reports, audit log, metrics | rows, none | CRUD, queries | nothing interleaves |

How they interact. A service of the Dart server writes business rows and outbox rows,
normally in one SQLite transaction. Sales and purchases call the inventory inside
their transaction and the journal after it. The sync engine reads the outbox, pushes
to the cloud over gRPC and applies what it pulls through the change applier to the
same tables the services write. The isolate is single-threaded and SQLite is
synchronous: code between two awaits is not interrupted, but every await of the
network lets handlers run. In the cloud, handlers of many devices, and of one device
that gave up on a call and pushed again, interleave between any two SQL statements.

Everything in this code that is hard to test is listed in `PROJECT.json` under
"hazards", each at its line with the properties that cover it or the reason why
none does.

## 2. Modules and plan

| Module | What it is | Status |
|---|---|---|
| `CloudResolver` | the conflict policy, pure operators | done |
| `CloudSync` | ledger and concurrent `PushBatch` handlers | done |
| `MergeLog` | abstract specification: a log that grows by whole batches, each change once | done; `CloudSync` implements it (checked and proved) |
| `CloudSyncProofs` | theorems about `CloudSync` | done |
| `CloudServer` | composes `CloudSync` with processes, authentication, hints and pull streams | done; implements `MergeLog` too |
| `CloudServerProofs` | theorems about `CloudServer` | done |
| `DeviceSync` | outbox, engine, applier: the actions of one device | done |
| `SyncSystem` | composes `CloudSync` and `DeviceSync`: calls, orphans, cuts, pulls | done; implements `MergeLog` too |
| `SyncSystemProofs` | theorems about `SyncSystem` | done |
| `Inventory` | stock, lots, movements | done |
| `SumLemmas` | what sums over finite sets obey, for the proofs below | done |
| `InventoryProofs` | theorems about `Inventory` | done |
| `Sales` | sales, payments, returns, their journal and outbox, with cuts | done |
| `SalesProofs` | theorems about `Sales` that need no sums | done |
| `SalesBooksProofs` | theorems about the goods and the journal of `Sales` | done |
| `Journal` | entries, lines, drafts, posting, statement by statement | done |
| `Purchases` | composes `Journal` with purchases, stock and outbox, with cuts | done |
| `PurchasesProofs` | theorems about `Purchases` and `Journal` | done |
| `MC…` | instances for TLC | one per composed or checked module |

The order follows importance: first the replication (nothing else in the system is
concurrent across machines and nothing else can silently lose data), then the two
modules that keep goods and money, then what surrounds them: the deployment of the
service, buying, and the journal both share.

What would come next:

1. `Sales` on top of `Journal`, as `Purchases` is, so that the entries of sales carry
   their outbox rows as well.
2. Devices that pull through a `CloudServer` pull slot, row by row, in place of the
   snapshot that `SyncSystem` hands over at once.

Modules that are to be proved about hold no RECURSIVE operator and get their
constants with named assumptions. One action per handler or per stage of one. Sums are
`SumFunction` of the community modules, a fold that the provers can unfold.

## 3. From the code to the model

### CloudResolver, CloudSync, MergeLog

`Applies`, `Conflicts`, `Merged` are the three parts of `Decision` in
`resolver.go`. A change is a record; ids are numbers that compare like the UUID
strings; a payload is a function from the fields that its JSON object has to values, or
`NoPayload`. A field that is null is not one that is absent: `fieldMerge` skips both, but
`payloadEquivalent` compares the numbers of keys first (`resolver.go:149`), so that
`{a: 1, b: null}` conflicts with `{a: 1}`.

A handler is a slot with a program counter (`Call`). `PushBatch` is the arrival of a
request. `ResolveNext` is one turn of the loop over events, outside any transaction;
`ResolveBlind` is the same with a `LatestFor` whose error is discarded
(`sync_service.go:86`). `InsertNext` is one turn of the loop in `AppendChanges`,
either an insert or a duplicate that is skipped and looked up. `Commit` ends the
transaction and builds the reply; `Rollback` is any failing statement; `EndCall`
takes the reply away. `Blocked` is PostgreSQL's wait on a unique index for the other
transaction to end.

Every event of a batch is resolved against the *committed* ledger (`sync_service.go:86`),
before anything of the batch is appended. So two events of one append-only entity in
one batch are both appended, and of two field merges of one entity the second drops
what the first one set. `ResolveNext` looks into the ledger only, and `MCBatches` has a
batch with two events of one stock movement.

Simplifications: a batch is a set that is processed in the device's sequence order.
The serial is drawn when the insert takes place; PostgreSQL draws it before a blocked
insert waits, so a blocked insert may get a smaller number than the model gives it.
That makes more numbers visible out of order, which the model has from other
interleavings. `inserted` in `AppendChanges` is never set (`change_store.go:128`), so
the code looks the stored row up after an insert too; the number it finds is the one
just inserted. There is one business, because every query of the service filters by it.

Ghosts: `commits` counts transactions; a row knows the number of its transaction
(`commit`) and how many had committed when its call began (`seen`), and a call knows
the number under which it committed (`commit`, 0 if it added nothing).

`MergeLog` knows neither handlers nor failures: a step adds a batch of one device,
each id and each position once. It does not promise that positions are filled in
order, because the code does not keep that (section 7).

### CloudServer

| Steps | Code |
|---|---|
| `Start`, `Terminate`, `Exit`, `Crash` | `main.go`: the parts it needs, `GracefulStop`, the end of `Serve`, and a process that is killed |
| `Administer` | an update of `devices` outside the service (the portal revokes or authorizes) |
| `BeginPush`, `PushStep`, `CommitPush`, `FailPush`, `EndPush` | `PushBatch` of `CloudSync`, behind the check and inside a process |
| `CommitUnsure` | the COMMIT took place and its answer is lost: the handler reports an error |
| `Publish`, `PublishFails` | `NotifyChangeAvailable`, with or without a Redis client |
| `BeginPull`, `QueryRows`, `SendRow`, `EndPull`, `FailPull`, `ClosePull` | `PullChanges` and `StreamAfter`: one query, a row at a time |

The deployment has two replicas over one PostgreSQL (`deploy/k8s.yaml`), so a push and
its retry may run in different processes. `ParseBearer` is what the check compares; a
token is its claims, and base64 and HMAC are left out (a token names the secret it was
signed with). `ParseBearer` turns every error of its lookup into `ErrUnauthorized`, so
the branch "device lookup failed" of `authenticate` cannot be reached. `Environment` is
what a process may find when it starts; `Start` needs all of its parts, and Redis may
be absent.

A hint is the largest sequence of its batch, not a high-water mark: hints may go
backwards, and the properties speak of each hint by itself. For that a hint carries, as
a ghost, the number of the transaction it is about: `RowsAreAnnounced` counts for a row only
the hint of the call that committed it (`Tells`), because a row may commit after a
higher sequence was published (`migrate.go:17`). `due` are the calls between
their commit and their publication. Ghosts: `lost` collects the hints that were
dropped, `sent` and `seen` what a pull has sent and what had been committed when it began.
`Subscribe` has no caller and is not modelled. Not modelled either: an early signal, which
makes `Serve` return an error, and the `--migrate` branch.

### DeviceSync, SyncSystem

`log` is `change_log`, `rows` the business tables, `cursor` and `pushCursor` the two
columns of `sync_state`, `engine` what the engine holds in memory between awaits.

| Action | Code |
|---|---|
| `DraftSale`, `UpdateSale`, `CancelSale` | `SalesService.createSale` (Draft), `updateSale`, `deleteSale`: row and outbox row |
| `AddStock`, `DeductStock` | `InventoryService`: a movement, and for a deduction the stock snapshot beside it |
| `StartPush`, `SkipPush` | `runCycle` to the await of `pushBatch`; nothing pending |
| `Reply`, `ReplyCut` | `markChangesSynced`, `savePushCursor`, `markChangesConflict`; the process ends in the middle of them |
| `Break`, `Fail` | a broken connection or a restart; an Internal error of the service |
| `Pull`, `ApplyNext`, `ApplyFails`, `EndPull` | `pullChanges` and `ChangeApplier.apply`, event by event |
| `DropReply` | a call nobody waits for any more ends |

The payload keeps what decides about the applier: one column (`val`) and whether the
payload has keys that are no columns (`extra`), as createSale ("items", "payments")
and updateSale (camelCase keys) send them. Each edit reads the clock twice, for
`updated_at` and for the change's timestamp, and the second reading is not earlier.
What the code does with a pulled change is kept in full: `created_at` is stripped,
so no INSERT of a peer can be written (`WriteFails`); an UPDATE sets no `updated_at`;
the cloud drops UPDATEs of `stock` without a conflict.

A request that is lost before it arrives is no step. A deduction takes its goods from
one lot that suffices; whether there is enough is Inventory's business and is
abstracted here. `Uuid` fixes the ids a device will draw, all different: an
assumption about random UUIDs, and the only one.

### Inventory

One action per operation of `InventoryService`. The FIFO loop is its result: `Ahead`
is what the loop consumed before it reached a lot, `Taken` what it takes from it,
and it takes less than asked when the lots run out. Quantities are integers (REAL in
SQLite; the shop's fractions behave alike up to rounding). Products may be any, and the
warehouses any finite number (`InventoryAssumption`). The code orders lots by
`received_at`, a local time, and then by id; the model takes the order of the ids. The two
are one as long as the device's clock is not set back between two receipts; `OldestFirst`
is about the order in which lots came, and says nothing of a device whose clock was. `Renumbered` is the
"-T" that a transfer appends to a batch number. The operations are atomic because
they run in one transaction whose awaits do no I/O.

Left out: the outbox row and audit row of a movement (same transaction, covered by
`DeviceSync`), the low-stock event and the adjustment journal after the commit.
`adjustStock` to the present quantity raises a LateInitializationError and changes
nothing; it is excluded.

Ghosts: `corrected` and `misplaced` remember the products on which an upward
correction, or a receipt onto another place's lot, has happened.

### Sales

A request is a sequence of transactions. `job` says which of them comes next, and
`Cut` ends the request between two of them: a crash, or an exception of a statement.
One isolate serves one request at a time between awaits that wait for nothing, so
requests do not overlap.

| Steps | Code |
|---|---|
| `CreateSale`, then `PostNothing` or `PostEntry`, `PostLine`…, `TellEntry` | `createSale`: the transaction; `_postAccounting` and `createAndPost` after it |
| `InsertPayment`, `RefreshTotals`, `TellPayment`, `TellTotals` | `receivePayment`, no transaction at all |
| `UpdateSale` or `CancelSale`, then `TellStatus` | `updateSale`, `deleteSale` |
| `ProcessReturn` | `processReturn`, one transaction |

`chart` is the set of accounts the business has set up; every subset is an initial
state, since `_postAccounting` falls back from one account to another and drops the
tax line without a tax account. `Lines` is the journal in the order of the code, and
`Valid` is `_validateBalanced`. A sale has one item and integer amounts. Only an
overpayment is refused: `tax_percent` and the payments may be negative
(`sales_controller.dart:84,108`, `sales_service.dart:233-258`), and so may an amount after
discounts; `Order` and `Prepaid` are sets of integers, and `MCSales` has orders and
payments of either sign. `receivePayment` does refuse an amount that is not positive.
The status is any text (`sales_controller.dart:110`): "Other" stands for every word that
the service does not know. `told` is what the outbox rows of a sale say together.

Ghosts: `sold` are the sales created as Completed, `negative` those whose first payments
add up to less than nothing, `cut` those with a cut request.

### Journal, Purchases

`JournalService` opens no transaction, though `journal_repository_impl.dart:9` says that it
does; so `InsertEntry`, each `InsertLine` and `RecordJournalChange` commit by themselves,
and `RefuseLine` is the foreign key on an account the business has not set up: the
request fails and what it has written stays. `PostJournal` reads the lines back and
checks the balance again; it writes no outbox row.

| Steps | Code |
|---|---|
| `CreateJournal`, `InsertLine`…, `RecordJournalChange`, `RefuseLine` | `createJournal` |
| `PostJournal` | `postJournal` |
| `CreatePurchase`, then `PostNothing` or `PostPurchase`, `InsertLine`…, `RecordJournalChange` | `createPurchase`: the transaction; `_postAccounting` and `createAndPost` after it |
| `UpdatePurchase` or `CancelPurchase`, then `TellStatus` | `updatePurchase`, `deletePurchase` |
| `Cut` | a crash or an exception between two statements |

A purchase has one item of one product, as a sale has, and only an overpayment is refused
(`purchase_service.dart:144-151`): tax and payments have either sign. Its entry has its id. The status
is free text in the code: "Other" stands for any word that the service does not know.
`chart` is every subset of the four accounts a purchase is posted to.

Ghosts: `cut` are the entries whose writing ended early, `untold` the purchases whose last
request was cut before its outbox row. A later request on the purchase heals the second.

## 4. Runs

| Run | Shows | Bounds | States |
|---|---|---|---|
| `CloudSync` | a change id and a sequence number occur once; append-only entities fork only within a batch, by calls that overlap or after failed lookups; successful replies are true; the deployment implements `MergeLog`; transactions never wait in a circle; a pull leaves no gap; hints are committed, rows are announced; a shutdown drops nothing; a revoked device fades | 2 replicas, 2 devices, 2 push slots for the first (one per replica) and 1 for the second, 1 pull slot; five batches with a tie, a redelivery, a fork of two devices, a fork within a batch, a null beside an absent field, and a field merge; 2 calls at a time (`MaxLoad`), 1 failure, 1 signal or revocation, no new call once the serial is 2 | 2.13 M |
| `SyncSystemSafety` | nothing is lost between outbox and ledger; the ledger is causal per device | 2 devices, 2 slots and 2 changes for the first; batches of 1; clocks that tie and differ; all five edits; 1 cut or failure | 2.05 M |
| `SyncCursor` | a cursor passes an unseen change only through the race of sequence numbers | 2 writers and 1 reader, 1 failure | 864 k |
| `SyncLiveness` | every edit is eventually acknowledged, although pulls fail for good | as `SyncSystemSafety` with 1 change per device, 1 failure | 58.7 k |
| `SyncCursorGap` (violation) | a cursor can skip a change for ever | as `SyncCursor`, no failure | – |
| `SyncDuplicates` (violation) | a change redelivered by a retry that overlaps the first call is marked as a conflict | as `SyncSystemSafety` | – |
| `SyncArrival` (violation) | a peer's INSERT never arrives, and blocks what follows it | as `SyncLiveness` with 2 changes and no failure at all | – |
| `Inventory` | stock, lots and movements agree up to two named causes of drift; never negative; first in, first out | 1 product, 2 warehouses, 2 numbers, 3 units, 3 lots | 309 k |
| `InventoryTransfer` (violation) | a second transfer from one lot fails although there is enough | 2 units | – |
| `Sales` | header, payments, journal, outbox and stock agree; what a cut can spoil and what not | 2 sales, three kinds of order (without tax, with one, with a negative one), first payments from -1 to 2, 2 units in stock, any status, cuts on 1 sale | 4.79 M |
| `Purchases` | the books balance; entries are told whole; journal, goods and outbox agree with the purchases; what a cut or a refused line can spoil | 2 interchangeable purchases, four kinds of order (a negative tax and a free one among them), payments from -1 to 2, 1 manual entry with two kinds of lines, all sixteen charts of accounts, a cut on 1 document | 6.10 M |
| `SalesPayment` (violation) | a payment can be stored that peers never hear of | as `Sales` | – |

Why the bounds are enough. The races of the service are between two calls on one
entity: two slots of one device give an orphan and its retry, a second device gives a
rival, and a reader that can see a gap needs two writers beside it. One failure
reaches what the properties are about, since a failure only takes away a call, a
lookup or a wait; the theorems of section 6 hold for any number of them, and for any
number of replicas, calls, devices and edits. Two calls at a time are enough for every
race of `CloudServer`, each of which is between two calls, or between a call and its
process; three slots let any two of them meet. `BatchLimit` 1 makes every second change wait for another
batch, which is what the limit of 500 does to a long offline period. Three lots with
three units give a deduction that ends inside a lot, exactly at one, and after the
last; one product suffices, since products only meet in `AddToBatch` onto a lot of
another product, which behaves like one of another warehouse. In `Sales`, two sales
compete for two units, and the orders cover tax, no tax, a negative tax and one that takes
all the stock; payments of -1 to 2 cover less than nothing, nothing, a part, and all of an order.

What the properties mean, beyond their comments in the modules:

* `NoWaitCycle` is about deadlock in PostgreSQL: the handlers insert in the order of
  their device's sequence numbers (`CloudSync!IsNext`), which is what rules it out. It rests on
  `BatchAssumption`: a change keeps its number. The mutant that inserts in any order has
  a circle.
* `RevokedDevicesFade` is exact about what a revocation does not do: calls that have
  passed the check go on and add rows.
* `EntriesAreWhole` and `PostedEntriesBalance` hold over cuts and refused lines: a
  truncated manual draft stays a draft unless what is left of it balances, and only the
  entry of a purchase, which is 'posted' from its header on, can be posted without its lines.
* `ForksOverlap` and `CursorMissesOnlyLateCommits` are exact statements of what the code
  lets happen. A fork has three ways: two events in one batch, two calls of which neither
  had seen the other's commit when it began, or a lookup that failed (it counts as
  having seen nothing). A change is skipped in one way: it commits after a row with a
  higher number. They say that there is no other.
* `RowsAreAnnounced` speaks of the hint of a row's own call. A hint with a higher
  number that was published before the row was committed does not count, since who
  pulled on it has not seen the row.
* `PullsLeaveNoGap` says when the cursor may move: the device saves it after a stream that
  ended without an error (`sync_engine.dart:207-217`), and then it must have been sent
  everything. Within a stream it says that rows come in order, as the device applies
  each when it arrives.
* `JournalTellsSales` and `JournalTellsPurchases` say when there is no entry: an account
  is missing, the amount is not positive, the tax or the payments are negative, or a request
  was cut. An entry that exists has booked the tax if it is positive, and balances. (One with
  a negative tax exists if the payments are as negative: then it balances over the amount.)
* `PaidSalesStay`, `JournalTellsSales`, `OutboxTellsSales` are conditional on `Whole`:
  the condition is the list of what a cut may spoil. `GoodsAccounted` and
  `GoodsFollowPurchases` have no such condition: cuts never touch the goods, because they
  move in one transaction.
* `MovementsExplainStock` says that the upward correction, which creates no lot, is
  the only source of drift apart from receipts onto foreign lots. `MovementsNeverUnderstate`
  is about the sum over the warehouses: at a single one it is false, because a transfer
  out of a place with fewer lots than stock brings more goods than movements.

`CHECK_DEADLOCK FALSE` is set everywhere: edits, requests, failures and sequences
are bounded, so every instance comes to an end.

## 5. Fairness

`SyncSystem!Fairness`, used by `SyncLiveness` and `SyncArrival`:

* The engine starts a cycle again and again: a periodic timer (`sync_engine.dart:88-94`,
  30 s by default) with a backoff that is capped at 30 minutes and only delays a cycle.
  `bin/server.dart:234-235` starts the engine when sync is configured.
* The service serves a call that it has accepted and ends a call nobody reads.
* A reply and a stream that are not cut arrive, and the engine works through them. A cut is
  noticed. This is the network's part: `pushBatch` sets no deadline
  (`sync_client.dart:178-198`), so on a connection that is dead and never reset a cycle
  waits, `_cycleRunning` stays set, and nothing is pushed until a restart.

Each is weak fairness of an action that stays enabled until it is taken. Nothing is assumed about
edits, and nothing about the success of a pull. Failures are not fair and end after
`MaxFaults`: no protocol makes progress under failures without end.

## 6. Proofs

`CloudSyncProofs` proves, for any sets of devices, handlers, batches and any
bounds, from the assumptions `CloudAssumption` (what `DeviceOf` and `Batches` are)
and `NilAssumption` (`Nil` is not a change):

| Theorem | Statement |
|---|---|
| `Invariant` | `CloudSpec => []IInv` |
| `TypeCorrect` | `CloudSpec => []TypeOK` |
| `IdempotentPush` | `CloudSpec => []LedgerIdsOnce` |
| `ForksNeedOverlap` | `CloudSpec => []ForksOverlap` |
| `TrueReplies` | `CloudSpec => []RepliesAreTrue` |
| `Refinement` | `CloudSpec => ImplementsMergeLog` |

None of the safety properties is inductive, since each speaks of committed rows and a
commit takes them from an open transaction. `IInv` is the conjunction of

* `TypeOK`;
* `Numbers`: sequence and transaction numbers never exceed their counters, so that a
  new number is fresh;
* `UniqueRows`: rows of open transactions differ in id and number from the ledger's
  and from each other's. Its preservation is where `Blocked`, the wait on the unique
  index, is needed;
* `Authors`: what a call holds comes from its device (for `MergeLog`: a batch has one);
* `Winners`: an append-only winner has no rival committed before its call began. It
  rests on the lookup reading at least what was committed by then, or counting as
  having seen nothing when it failed;
* `Answers`: each event of a request is still to be resolved, among the winners,
  among the inserted rows, or settled (`Covered` and `NotDropped`).

There is a lemma per action and below it a step per conjunct. Lemmas about data:
a nonempty set of numbers has a least element (from well-foundedness of `<`), a
nonempty set of rows a highest; `LatestFor` finds a row of the entity if there is one;
a merged change keeps id, device and entity. `LogStep` maps every step to an append or a
stutter of `MergeLog`.

`CloudServerProofs` proves, for any numbers of replicas, push and pull slots, devices,
signals and failures, with `ServerAssumption` and `BatchAssumption` (who owns a slot; a
change has one number for good):

| Theorem | Statement |
|---|---|
| `ServerInvariant` | `ServerSpec => []ServerInv` |
| `ServerTypeCorrect` | `ServerSpec => [](TypeOK /\ ServerTypeOK)` |
| `ServerLedger` | `ServerSpec => [](LedgerIdsOnce /\ ForksOverlap /\ RepliesAreTrue)` |
| `NoDeadlock` | `ServerSpec => []NoWaitCycle` |
| `PullsComplete` | `ServerSpec => []PullsLeaveNoGap` |
| `HintsTrue`, `RowsTold` | `ServerSpec => []HintsAreCommitted`, `… []RowsAreAnnounced` |
| `ServerRefinement` | `ServerSpec => ImplementsMergeLog` |
| `GracefulShutdown`, `RevocationHolds` | `ServerSpec => ShutdownDropsNothing`, `… RevokedDevicesFade` |

`ServerInv` is `IInv` with `ServerTypeOK`, `PingInv`, `PullInv` and `OrderInv`. `IInv` survives the
new steps since a crash only empties slots (`CutInv`). `PingInv` says that the
number a call will announce is that of a row and bounds the rows of the call (`Tops`), so that
the hint of a commit is about each of its rows; and that a call that owes a hint has committed. `PullInv` orders what a pull
has sent before what it still holds, and says that the two together are what it owes.
`OrderInv` orders what a transaction has inserted before what it will insert; from it,
`NoDeadlock` follows: a transaction in a circle waits for one that waits at a higher
number, and numbers are bounded by `MaxNumber`.

`SyncSystemProofs` proves, for any devices, call slots, edits, clock readings, batch limits
and failures, with `DeviceAssumption` (above all: the ids devices draw are different) and
`SlotAssumption`:

| Theorem | Statement |
|---|---|
| `SystemInvariant` | `Spec => []SystemInv` |
| `SystemTypeCorrect` | `Spec => []SystemTypeOK` |
| `NothingLost` | `Spec => []AckedIsCovered` |
| `LedgerCausal` | `Spec => []CausalOrder` |
| `CursorsMissOnlyLate` | `Spec => []CursorMissesOnlyLateCommits` |
| `ServiceKeepsPromises` | `Spec => [](LedgerIdsOnce /\ ForksOverlap /\ RepliesAreTrue)` |
| `SystemRefinement` | `Spec => ImplementsMergeLog` |

`SystemInv` is, besides `IInv` and the three properties themselves,

* `Logs`: tables are finite, an own change has the shape its device gives it, and two
  changes of one device have different numbers;
* `Waiting`: the call a device waits for carries the batch in the engine's hand. This is
  why marking that batch as synced is right, whatever was edited since;
* `Calls`: a call, an orphan included, holds changes its device has made, and its
  request leaves out no earlier change that the ledger does not cover. It begins so
  because `PendingBatch` is a prefix of what is pending (`BatchIsPrefix`) and everything
  else is covered by `AckedIsCovered`; it stays so because what is covered stays
  covered and a new edit has a higher number than all before it (`LogsGrow`);
* `LedgerIsMade`: the ledger has only changes that their device has made;
* `Pulls`: up to its cursor, and up to where its engine has got, a device has every row but
  late ones, those committed after a row with a higher number; and what is missing
  before an event of its stream is late or itself in the stream.

A reply covers its whole request (`Answers` in `IInv`), so a commit makes `CausalOrder`
true for its rows (`CommitStepInv`); and a row it adds below the highest of the
ledger is late (`CommitIsLate`). TLC had confirmed `SystemInv` on the instances of
`SyncSystemSafety` and `SyncCursor`.

`SumLemmas` says what `SumFunctionOnSet` obeys: it is 0 over the empty set, an integer or a
natural number over such values, takes an element more or less, respects `<=`, splits over
disjoint sets, adds value by value, and is kept by a renaming of the elements (`SumEmpty`,
`SumInt`, `SumNat`, `SumRemove`, `SumAdd`, `SumMonotone`, `SumDisjoint`, `SumPlus`, `SumRenamed`,
and what follows from them). The library proves nothing about folds, and its induction
theorems have operators as parameters. So `SubsetsByRemoval` is an induction over the subsets
of a finite set for a *set* of good ones, from well-foundedness of `<`; and `SumSolves` shows
with it that the recursive equation of the fold has a solution, without which nothing is
known of the CHOOSE that stands for it.

`InventoryProofs` proves, for any products, numbers, quantities and finite sets of
warehouses, from `InventoryAssumption`:

| Theorem | Statement |
|---|---|
| `InventoryInvariance` | `Spec => []InventoryIInv` |
| `InventoryTypes` | `Spec => []InventoryTypeOK` |
| `LotsWithinStock` | `Spec => []BatchesWithinStock` |
| `ViewsAgree` | `Spec => []MovementsExplainStock` |
| `NoGoodsFromNowhere` | `Spec => []MovementsNeverUnderstate` |
| `FirstInFirstOut` | `Spec => OldestFirst` |

`InventoryIInv` adds one part to the properties, `LotsNumbered`: there are finitely many lots,
with different ids, and the next id is free. The loop is what needs work. `LoopTakes` says
how much it takes: all that was asked, or all there is. The lots are taken in the order of
their ids up to the last that is touched, and `Ahead` telescopes along that order. From it follow
what the lots of each place hold afterwards (`ConsumedHere`, `ConsumedElsewhere`) and what
arrives at the other end of a transfer (`ArrivingLots`). `MovementsNeverUnderstate` then is
arithmetic over the warehouses (`OverallChanged`): the loop never takes more than it
was asked for, and a transfer adds to one warehouse what it takes from the other.
`FirstInFirstOut` looks at two lots of a place: as the newer one loses goods, what lies ahead of
it, the older one included, is less than the quantity asked for.

`SalesProofs` proves, for any sales, orders, bounds and charts of accounts, from
`SalesAssumption` (orders have a positive quantity and integer amounts and taxes, first
payments are integers; `NoSale` and `NoEntry` are no rows):

| Theorem | Statement |
|---|---|
| `SalesInvariant` | `Spec => []SalesIInv` |
| `SalesTypeCorrect` | `Spec => []SalesTypeOK` |
| `HeadersTrue` | `Spec => []HeaderTellsPayments` |
| `PaidStays` | `Spec => []PaidSalesStay` |
| `OutboxTrue` | `Spec => []OutboxTellsSales` |

The properties speak of sales that no request is working on. The invariant says what
holds in the middle of a request, step by step: `Requests` (a request works on a sale
that exists, and holds lines while it inserts lines), `Headers` (the header lags only
between the payment row and the refresh), `Outbox` (which part of the outbox lags at
which step, and by how much), `SoldStay` (a sale completed when it was created never
becomes editable again). `PaidSalesStay` follows by way of `Headers`: the cached
`paid_amount` that deleteSale reads is current whenever no request is under way, unless one was
cut.

`SalesBooksProofs` proves from the same assumption:

| Theorem | Statement |
|---|---|
| `SalesGoods` | `Spec => []GoodsAccounted` |
| `SalesJournal` | `Spec => []JournalTellsSales` |

`Goods` makes the first inductive: finitely many sales have been sold or restocked, and what
was restocked exists and is 'Returned', so that it cannot be returned again. `Books` makes the
second inductive. While lines are inserted the entry by itself balances over nothing; what
balances is the entry *with the lines still in the request's hand*
(`BookOf`), over what the sale charges: its amount, and its tax if that is positive (`Charged`).
The sale is still as it was created when the request begins to post (`Posting`), and `Lines`
falls back from one account to another without changing an amount: `LinesAddUp` adds both
sides up for every chart. From it follows `LinesBalance`: lines that `_validateBalanced`
accepts add up to `Charged`, and with the accounts there, an amount that is positive, and
neither tax nor payments negative they are accepted. Here is where the signs matter. A
payment that is negative is not in the lines but in what is due (`DueExact`), so the debits
exceed the credits by it; a negative tax has no line, so the debits fall short by it. The
ghost `negative` keeps the first fact when later payments have hidden it from the header.

`PurchasesProofs` proves, for any purchases, manual entries, drafted lines, orders and
charts of accounts, from `JournalAssumption` and `PurchasesAssumption` (as for sales):

| Theorem | Statement |
|---|---|
| `PurchasesInvariant` | `Spec => []PurchasesIInv` |
| `PurchasesTypeCorrect` | `Spec => []PurchasesTypeOK` |
| `EntriesTold` | `Spec => []EntriesAreWhole` |
| `BooksBalance` | `Spec => []PostedEntriesBalance` |
| `EntryIsOfPurchase` | `Spec => []EntryTellsPurchase`: the entry of a received purchase has the lines of `_postAccounting`, unless its request was cut |
| `PurchasesTold` | `Spec => []OutboxTellsPurchases` |
| `PurchasesGoods` | `Spec => []GoodsFollowPurchases` |
| `PurchasesJournal` | `Spec => []JournalTellsPurchases` |

`PostedEntriesBalance` is not inductive: while lines are being inserted the table holds a
prefix. The invariant says so: `Requests` (what the request at work is about), `Writing`
(the table has a prefix of the lines in its hand, and these balance), `Entries` (a written entry has
all its lines unless it was cut), `Outbox` (which outbox row lags, and at which step).
A prefix that is completed is equal to the lines that `Valid` has accepted, so the first
six theorems need no sums.

The last two do. `Books` says that a purchase's total is what was paid and what is due, that its
entry was made of lines that balance, and that the entry is there if it can be. From
`EntryTellsPurchase` and `SidesOfPurchase`, which adds up `_postAccounting` for every
chart, `LinesBalance` follows: lines that balance have booked all of a tax that is
positive; and they balance if neither tax nor payments are negative and there is an
account for the tax. `Goods` follows a
purchase from one side of the inequality to the other: cancelling moves it from
`Received` to `Withdrawn`, or keeps it out of the first, and the stock changes only when
a purchase is created.

TLC had confirmed `LotsNumbered`, `Goods` and `Books` (of sales and of purchases) on the
instances of section 4. What TLC alone shows is `EditsGetAcknowledged`, the liveness of the engine, since fairness and
ENABLED are out of the prover's reach; and the divergences of section 7, which are
counterexamples. Every other property of a run is the statement of a theorem.

## 7. Where code and documents disagree

Runs with `"expect": "violation"` show these; `PROJECT.json` quotes the lines.

1. `SyncCursorGap`: the pull cursor is not a point in the log. A change whose number
   was drawn first and committed last is skipped for ever by a device that pulls in
   between.
2. `SyncDuplicates`: a duplicate push is not silent; it comes back as a conflict and
   overwrites 'synced' on the device that made the change. It takes a retry that looks the
   entity up before the first call has committed; later the resolver drops the retry, except for
   customers and suppliers, whose field merge always applies.
3. `SyncArrival`: replicas do not converge. A pulled INSERT violates NOT NULL on
   `created_at`, the exception ends the pull, and the next pull starts at the same
   event.
4. `InventoryTransfer`: the name "<number>-T" of a transferred lot is taken after the
   first transfer from it.
5. `SalesPayment`: the payment and its outbox row do not commit together.

Met while modelling, without a run of their own:

* Architecture Book:1449 and :2160 call stock a summary of the movements; after
  `adjustStock` upwards or a deduction without lots it is not (the exact conditions are
  `MovementsExplainStock`, and the sum is only bounded by `MovementsNeverUnderstate`).
* README.md:87 says every mutation emits a balanced journal entry; `receivePayment`,
  returns and cancellations emit none, and an entry is posted before its lines are in.
* Proto Contract Book:169 speaks of FIFO deduction and postings in one atomic step;
  the posting follows the commit, and when it raises (tax without a tax account) the
  client gets an error for a sale that exists.
* `processReturn` restocks the goods of a Draft or Hold sale that never took any
  (`GoodsAccounted` has the term `restocked \ sold` for it). Cancelling a completed
  unpaid sale brings back neither goods nor journal.
* `resolver.go:10-11` promises that the first write of an append-only entity wins;
  overlapping calls can both append, and so can one call two events of its batch, which
  are both resolved against the committed ledger (`ForksOverlap`). For the same reason
  the second of two field merges in one batch overwrites what the first one merged:
  `resolver.go:107` merges over the row that was committed before.
* A negative `tax_percent` or a negative payment is accepted (`sales_controller.dart:84,108`,
  `sales_service.dart:252-258`, `purchase_service.dart:144-151`). The lines of the journal
  then do not balance: `createAndPost` raises after the document and its goods have been
  committed, the client gets an error, and the document stays without an entry although
  every account is there. Only where the tax equals the payments does it balance, over
  the amount alone.
* `savePushCursor` keeps the larger of a global and a device-local sequence in one
  column. Nothing reads it.
* Generated batch numbers (`AUTO-<ms>`) can collide within a millisecond.
* `adjustStock` to the present quantity returns from its closure without a result and
  raises a LateInitializationError; nothing is changed.
* `purchase_service.dart:389` says that the posting of a purchase "silently skips" when
  accounts are missing. With tax and no "Tax Paid" account it raises instead, after
  the goods have been committed; a client that tries again receives them twice.
* Without "Accounts Payable", what is due to the supplier is credited to "Cash", and what
  was paid for a draft or an order never reaches the books.
* A purchase created as Draft or Ordered can never be received: `updatePurchase` allows only
  the two of them. Cancelling a received purchase takes back neither goods nor journal.
* `postJournal` writes no outbox row: peers keep the entry as a draft.
* `device_auth.go:57`, `jwt.WithLeeway(30)` "seconds of clock skew", is 30 nanoseconds.
* `broadcaster.go:34` calls a hint the new high-water sequence; hints may go backwards.
* The readiness probe of `deploy/k8s.yaml` asks for the gRPC health service, which `main.go`
  does not register.

## 8. What is not modelled

`PROJECT.json` lists every component with its status. What is left out, and why:

* Warehouses, products, categories, brands, units: single rows that are created and
  renamed by one statement; nothing interleaves and nothing else depends on the order.
* Reports, exports, the audit log, in-memory events, metrics, the wiring of the HTTP
  server: they read, or write what nobody reads.
* Setup: one request of an empty database. Two that race over the guard
  (`setup_controller.dart:58`) leave two businesses, about which no document says anything.
* Authentication, users, roles and permissions on the device: reads of single rows before
  a request. The permission cache is never invalidated, and permissions never change after
  the setup.
* The student portal: tokens with an expiry; every operation is one statement or a read.
* The Flutter client: screens over the HTTP API. Its cache is emptied before it is
  refilled and is rebuilt by the next fetch; a checkout without an idempotency
  key is, for the server, a second sale, which `Sales` has.
* Maintenance scripts: run without the server.
* Generated code (`sync.pb.go`, `sync_grpc.pb.go`): transport.

Within modelled parts: several businesses, several items per sale or purchase, fractions
of quantities,
field merge and DELETE on the device (no modelled service emits them), the text of
payloads, `Subscribe` and `refreshPaymentTotals` (no caller), the journal of a stock adjustment (one
more caller of `createAndPost`), and how long a call waits for a connection of the pool.
