# Verification of revenue-and-costs

The repository is a service for Amazon sellers' accountants: an enterprise tops
up a wallet, pays for shops out of it, uploads settlement and shipment reports,
and gets them imported, converted to CNY, calculated, published and exported. An
API process and one or more worker processes share one PostgreSQL database;
pg-boss queues and a transactional outbox connect them, and a web client polls.

This directory models the parts of it in which several actors, retries and
failures meet, checks them with TLC, and proves the central safety properties
with TLAPS for instances of any size. Paths below are relative to the
repository's `src/` unless they say otherwise.

## Inventory

| Component | State it keeps | Operations | What is hard | What makes it correct |
|---|---|---|---|---|
| wallet (`modules/wallet`) | balance and status per enterprise, append-only ledger | post an entry, adjust, restrict | retried and replayed entries, restricted wallets | the ledger explains the balance; a key is posted once; a restricted wallet is not spent |
| payments (`modules/payments`) | orders, event inbox, reversals | create, mark pending, apply a verified event | callbacks late, twice, out of order, contradictory | one credit per order; reversals never exceed it |
| shops (`modules/shops`) | shops, terms, charges | create, renew, rename, trash, purge, expire | idempotency keys shared by members, lock upgrades, leap days | every year of a shop is paid once; a repeated request is accepted; no charge without a payment of its own |
| outbox and queues (`worker`, `db/outbox.ts`) | outbox events, pg-boss jobs, session advisory locks | dispatch, fetch, run, acknowledge, expire | crash between insert and mark, callbacks that outlive their attempt | work is neither lost nor done twice |
| imports (`modules/imports`) | batch status, dataset versions, facts, acknowledgements | analyse, confirm, commit, acknowledge, roll back, replay | re-confirmation racing a failing job, replays of old sources | facts materialised once; a batch in progress has work behind it; a replay replaces no newer rows |
| calculation (`modules/calculation`) | runs, frozen inputs | request, calculate, fail | two runs of one batch, rates that change in between | a run ends; its inputs are frozen |
| publishing (`modules/publishing`) | snapshots, current pointer | announce, publish, record | three separate writes, two batches overtaking each other | a published batch has a snapshot; the pointer never goes back |
| terminal reconciler (`worker/terminal-reconciler.ts`) | reconciliation marks | select, lock, project, record | acting on what is no longer so | repairs what handlers left, and nothing else |
| uploads (`modules/uploads`) | upload batches, files, chunks, archive budgets | register, append, complete, remove, expire, cancel, archive | chunks racing removal, budgets shared by batches, lost COMMIT answers | usage is exact; nothing referred to is removed; a batch is committed when it is whole |
| exports (`modules/exports`) | export requests, tokens, artefacts | request, generate, download, cancel, invalidate | a right is withdrawn while an export runs | no export outlives its permission; files and rows agree |
| memberships, enterprises | members, customers, invitations | invite, activate, remove | two removals at once, phones that move | an enterprise keeps a member; an invitation lets in one account |
| auth, authorization | accounts, codes, sessions, roles | sign in, register, change phone, disable, promote | logins and phone changes that overlap | a code is used once; sessions end with the credentials they came from |
| exchange rates (`modules/fx`) | official snapshots, overrides, sync runs | sync, override, convert, freeze | partial syncs, several administrators, readers between writers | a rate is the right day's; overrides do not overlap; a report keeps its set |
| web client (`web`) | the upload page, the shop shell | select, send, poll, restore | answers lost, overtaken, or for another shop | the page never locks itself; it shows what the server says |
| operations, catalog, preferences, mappings, database access, API, helpers, scripts | settings, copies, none | | | not state machines that interact |

The API and the workers meet only in the database: the API writes a business row
and an outbox event in one transaction; a worker's dispatcher hands the event to
pg-boss; a handler takes a session advisory lock on *queue and object*, runs a
few transactions, and writes the next event; the terminal reconciler looks for
failed jobs whose business object still shows work in progress.

`PROJECT.json` lists the hazards of this code at the lines where they bite, each
with the property that would notice it going wrong.

## Modules

| Module | Models | Builds on |
|---|---|---|
| `Money` | `wallet/money.ts`: half-up rounding, quotes, cumulative reversals | |
| `Wallet` | `wallet/service.ts`: `appendWalletEntry`, `adjustEnterprise` | |
| `Payments` | `payments`: orders and every outcome of `applyVerifiedEvent` | `Wallet`, `Money` |
| `Billing` | all movers of a wallet, shop charges included | `Payments` |
| `AccountBook` | abstract specification of billing | |
| `JobQueue` | outbox dispatcher, pg-boss, execution locks, the frame of a handler | |
| `Pipeline` | the handlers from `import.commit` to `report.auto-publish`, the API calls that start and restart them | `JobQueue` |
| `TerminalReconciler` | the reconciler, the whole pipeline, its fairness and properties | `Pipeline` |
| `Uploads` | the staging of uploads | `JobQueue` |
| `Finalization` | `upload.finalize`, `import.analyze`, their projections; uploads as a whole | `Uploads` |
| `Authorization` | capabilities, what a change does to a customer's membership | |
| `Exports` | exports, their worker, memberships as far as exports see them | `JobQueue`, `Authorization` |
| `OtpLimits` | how often a code may be asked for | |
| `Identity` | accounts, codes, sessions, members, invitations | `Authorization`, `OtpLimits` |
| `Shops` | the life of a shop | `Authorization` |
| `Workflow` | the steps derived for a shop and the shell that polls them | |
| `UploadPage` | the upload page | |
| `FxQuotes` | official rates | |
| `Fx` | overrides, conversions, the rates of a report | `FxQuotes` |
| `Datasets` | what commits, replays, rollbacks and resumes do to the datasets of a shop | |
| `MC...` | the instance of each composition that TLC checks | |
| `BillingProofs` | theorems about `Billing` | `Billing` |
| `PipelineProofs` | theorems about `TerminalReconciler` | `TerminalReconciler` |
| `UploadsProofs` | theorems about `Finalization` | `Finalization` |
| `ExportsProofs` | theorems about `Exports` | `Exports` |
| `DatasetsProofs` | theorems about `Datasets` | `Datasets` |
| `IdentityProofs` | theorems about `Identity` | `Identity` |
| `ShopsProofs` | theorems about `Shops`, `Workflow` and `UploadPage` | `Shops`, `Workflow`, `UploadPage` |
| `FxProofs` | theorems about `Fx` and `FxQuotes` | `Fx` |

### Conventions

A step is one database transaction or one autonomous statement: the rows it
reads for update are locked to its end. A transaction that reads a row nothing
locks, or that waits for a lock in its middle, is several steps. A thrown error
rolls the transaction back and is a disabled step, unless what the caller does
next matters.

*Scenarios.* Databases and workloads differ in more than their size, so most
specifications have a constant set `Scenarios` and a variable `scenario`, chosen
in `Init` and never changed: the kinds of fault that occur, the number of
workers, what the clients ask for, and the bounds (`maxFaults`, `maxExports`,
`MaxRows`, ...). A run then explores several small workloads at once, and a
theorem holds for every one.

*Mutated forms.* Operators marked *Mutated form* are plausible mistakes in the
definition that follows them; no specification uses them, they serve to show that
a property notices the mistake.

*Grouped properties.* Where one property has several parts, each part has a name
and its own comment, and the property is their conjunction (`LedgerSound`,
`FilesSound`, `RowsExact`, `LoginsOnce`, ...); the first part of one of them is
the type invariant of the specification.

### Billing

`wallet`, `ledger`, `order`, `inbox`, `reversal` and `charge` are the tables of
migration 0003. Orders are named by their idempotency key; business keys are a
prefix and the thing they are derived from. A callback is any member of the
constant `Callbacks`, delivered at any moment and any number of times; `matches`
stands for provider, merchant and currency. A callback that the code or the
database refuses is rolled back, a step that is not enabled. Database constraints
that decide an outcome are modelled as such: the CHECK of `payment_order`
(`CanReconcile`) and the UNIQUE of `shop_charge.wallet_ledger_id`
(`LedgerEntryFree`).

### Pipeline and terminal reconciler

`batch`, `run`, `snapshots`, `current` are the business rows; `outbox`, `sent`,
`jobs` the queue; `slot` the callbacks that are running, `rec` the reconciler.
A run is named by its input manifest: the batch, how often the shop's dataset
pointers moved (`data`) and the rate synchronisation (`rates`). Times are not
modelled; what the reconciler decides with `updated_at <= completed_on` is the
flag `overtaken`, set on a failed job by every later write of its batch. The
reads and the update of one projection are one step: the lock keeps the handler
of that object out, and any write of the batch in between makes the job
overtaken, so that the update would change nothing.

Faults are drawn from the scenario's `faultKinds`, at most `maxFaults` of them: a
process dies, a statement is refused, an attempt expires while its callback still
runs, an event is dispatched twice, the answer of a COMMIT is lost. A dead
worker's job becomes available again through expiry, as pg-boss does after a
missed heartbeat.

pg-boss itself is not in the repository. `Fetch`, `Expire`, `FailAttempt`, `Ack`
and the job states follow how `registerHandlers` and the reconciler use it:
`retryLimit` attempts, heartbeats, results per job, an acknowledgement that
counts only while the job is active.

### Uploads and finalization

What a file is (kind, size, content, what an archive holds, how its analysis
ends) is the scenario's `shape`; nested archives are refused by the code, so
there is one level. `Uploads` has the requests of the client and the expiry;
`Finalization` the two handlers, whose local variables (is a budget reserved, is
the ciphertext written) live in the slot. The ciphertext directory, the staging
directory and the archive work directory are sets of names. A volume without
room is a refused statement. Once a batch is COMMITTING, it is `Pipeline`'s.

### Exports

A request is two steps: what `authenticate()` read, and the transaction. Exports
are numbered in the order of creation and name their object. Progress has five
values, the ones a guard or an UPDATE tells apart. The look for a row and the
removal of a file are one step where the code holds the job lock over both.
Reports that fail a check for good are the scenario's `badSnapshots`. The format
check of legacy reports is left out.

### Identity

Rows are numbered. Five kinds of transaction read an unlocked row and write
later; each keeps what it read in a variable (`logins`, `adminTxs`, `adds`,
`removals`, `invites`). `changes` and a session's `since` are history variables:
they count the events after which no older credential may let anybody in.
`OtpLimits` is part of the same specification; its requests run in the scenario
`Flood`. Names, HMACs, CSRF tokens, SMS providers and display settings are left
out.

### Shops

Dates are `<<year, month, day>>`, compared and advanced as `dates.ts` does it. A
create has two steps because it takes the wallet FOR SHARE first and FOR UPDATE
later; two of them can wait for each other, and the database aborts one
(`AbortDeadlocked`). A renewal holds its rows throughout and is one step. `ledger`
has the wallet's entries of these charges. A member who reuses a colleague's key is
handed the colleague's entry by `appendWalletEntry`, and the UNIQUE of
`shop_charge.wallet_ledger_id` rolls the request back (`LedgerEntryFree`), as in
`Billing`. `granted`, `work` and `bulks` are what the other handlers of the service
keep: requests that were authorized, shops in use, and bulk requests already
answered.

### Workflow and upload page

`Workflow` moves the latest batch of a shop through the situations the other
parts leave it in, derives the six steps as `deriveWorkflowSteps` does, and lets
the shell poll them; requests carry whether they are the latest. `UploadPage` has
one task per asynchronous function of the page, with the place where it waits;
`mine` and `fresh` stand for the comparisons of batch and epoch. A file is one
chunk, the server is the state of its batch and of its files: failed files do not
keep a batch open, a removal repeated after it emptied the batch is answered as
before (`RemovedAlready`), and a file's failure may be reported again, or after the
batch has gone on (`ServeReport`). `RefreshLimit` is 3 in the code.
`ArchivedWereListed`, and that an import is followed, are for a viewer who waits
for one answer before asking the next thing. One who does not can break the
first: cancel twice and start anew in between, so that a second `startUpload`
creates a batch while the first still waits for its own, and remove a file of
the first batch; the answer of the removal shortens the list of the second, which
has that file (a behaviour of 30 steps, found with three batches and three tasks).

### Exchange rates

Days are `1 .. lastDay`. The source is outside the repository: on a trading day
it publishes rates, and it may correct them. Each request of a sync is three steps:
the source answers (`AnswerPage`), the awaited answer is dated by the clock of that
later moment (`ReadClock`), and it is stored (`StorePage`); days pass in between, and
the worker may die. `overnight` is a history variable: the days whose rates came
after an answer without them, and that ended before its look at the clock. A snapshot
is shared by answers with the same body. The job is exclusive, the operator's script
is not. `slowSyncs` says whether a sync may last past midnight. A write of an
override is three steps around the advisory lock of the set; a conversion is
three reads; a report freezes the overrides and is published under the lock.

### Datasets

One shop. A batch has an accounting period, a set of months; when the user chose
none it is all of them. Within it a calculation asks for one date rule and for
acknowledgements of what is incomplete (`OneMode`, `Pending`, also in `Confirm` and
`ResumeEnd`), and there must be a slice in it. The run freezes the versions of all
slices, of either rule, and those outside the period as OUT_OF_SCOPE
(`Disposition`): publication compares them, the calculation does not count them.
A commit takes its batch, then the shop, then its slices; a rollback a
slice, then the shop; a resumed replay the shop, then the batch. What they write
becomes visible in the last step. `Legacy` versions were made under the older
date rule, which puts some rows into another month.

## Runs

| Run | Module | Checks | States |
|---|---|---|---|
| `billing` | `MCBilling` | `TypeOK`, `LedgerSound`, `CreditedOnce`, `ReversalsExact`, `ChargesPaid`, `ImplementsAccountBook` | 140 812 |
| `races` | `MCPipeline` | `ResultsBacked`, `WorkNeverForgotten`, `NewWorkNotFailed`, `CurrentMovesForward`, `WorkSettles`, under `FairSpec` | 48 476 |
| `forsaken` | `MCPipeline` | `NeverStranded`: violated | |
| `uploads` | `MCUploads` | `ChunksExact`, `UsageExact`, `FilesSound`, `AnalysisNotForgotten`, `PreflightSound` | 952 944 |
| `duplicates` | `MCUploads` | `DuplicatesNeedNothing`: violated | |
| `exports` | `MCExports` | `LiveExportsEntitled`, `FilesSound`, `ExportSettles`, under `FairSpec` | 409 644 |
| `identity` | `MCIdentity` | `SessionsCurrent`, `LoginsOnce`, `PhonesMove`, `MembersRemain`, `LimitsSound` | 480 024 |
| `shops` | `MCShops` | `YearsPaid`, `ReplaysAccepted`, `CreatesEnd`, under `FairSpec` | 81 233 |
| `workflow` | `MCWorkflow` | `StepsTrue`, `PageCatchesUp` | 169 521 |
| `upload_page` | `MCUploadPage` | `PageGoesOn`, `ArchivedWereListed` | 3 003 857 |
| `fx` | `MCFx` | `LatestAnswerCurrent`, `NoTradingDaySkipped`, `OverridesSound`, `PublishedSetCurrent`, `RatesArrive` | 508 887 |
| `datasets` | `MCDatasets` | `RowsExact`, `ReplayNeverOverwritesNewer`, `AcknowledgementsEarned`, `CommitsEnd`, under `FairSpec` | 210 830 |

What each shows is in `PROJECT.json`. All hold but the ones of `forsaken` and
`duplicates`.

### The findings

`forsaken`: the reconciler's own projection of a failed `calculation.requested`
job moves `updated_at` of a batch whose run is already READY. It then finds the
failed `report.auto-publish` job of the same batch overtaken, does nothing,
records it as reconciled, and the batch shows CALCULATING for ever
(`worker/terminal-reconciler.ts:228`). `WorkNeverForgotten` is what does hold: it
speaks of commits and runs, not of publications.

`duplicates`: a batch holds two files of the same content. The first is archived
and analysed while the second is not yet stored, so the preflight counts two
sources and one analysis and the batch is ANALYZING. The second is then stored by
sharing the first one's object, of which the preflight hears nothing, and its
analysis finds the row of the shared object and returns before
`refreshUploadPreflight` (`modules/imports/postgres-analyzer.ts:83`). Everything
is analysed, nothing is queued, and the batch stays ANALYZING until the user
completes it again or cancels it. `PreflightSound` and `AnalysisNotForgotten` are
what does hold.

### Observations

Met while modelling, and left as the code has them:

- A confirmation under a key whose event is already in the outbox adds no event
  (`INSERT ... ON CONFLICT DO NOTHING`), and the batch shows COMMITTING with no
  work behind it. The runs use fresh keys (`keysReused |-> FALSE`).
- The last clause of `ReversalConflict`, a larger amount that reverses less
  credit, is unreachable: `CumulativeGrows` in `BillingProofs` proves that what
  is reversed grows with what is returned.
- The ledger key of a shop charge does not name the account, and the UNIQUE of
  `shop_charge.wallet_ledger_id` is what keeps two members with one key apart: the
  second gets an unmapped database error, and no shop.
- Two creates of a shop can deadlock on the lock upgrade; one request fails with
  an internal error and can be repeated.
- A renewal makes a shop ACTIVE even when the new close date has passed, and a
  rename that meets an existing name fails with an unmapped database error.
- An upload that expires leaves its `import_batch` UPLOADING.
- The actor of a request is read once: a member removed meanwhile finishes the
  request under way.
- `addMember` after a phone change that merged rows picks the REVOKED one and
  fails on the unique index. Racing a phone change it writes an ACTIVE row under
  the old phone (`enterprises/service.ts:228` reads the account and holds nothing).
  When another account of the enterprise later moves to that phone, its change
  violates `enterprise_member_live_phone_uq`, an error nothing maps.
  `PhoneChangeFits` excepts this case (`LeftBehind`), the workload `Movers` has it.
- `fetchPage` reads the date after it has awaited the whole answer
  (`modules/fx/chinamoney-json.ts:124`). When the source answers before it publishes
  the rates of the day and the answer is taken up after midnight, the range ends in
  the past, the missing rates count as proof, and the day is stored as NON_TRADING.
  The day of `overnight` is then passed over by conversions, which the design allows
  only when it is proven that there was no trading (`软件设计说明书.md` §10.3). TLC finds
  it in the workload `Midnight` when `AnswersOnTradingDays` is stated without
  `overnight`: the operator's script is caught by midnight and ends after the job of
  the next day has stored the rates, so its answer is the latest. The moment is short
  (a request is given up after 30 seconds), and the next sync that asks for the day
  repairs it. `NoTradingDaySkipped` says that no other day is ever taken for closed
  in error.
- A READY run that was never published blocks the replay of its sources; a
  version that was rolled away stays ACTIVE.
- A version without rows (all sources of its slice were read again and put their
  rows elsewhere) has no binding and so is in no closure. Such a version may be
  younger than a replay that replaces it: a slice retired, rolled back and retired
  again around the replay. It takes an older release's report beside another, four
  batches and two moves, more than the run's bounds; TLC found it when the
  property was stated without its condition on rows. No row of it is lost, since
  it has none, and `ReplayNeverOverwritesNewer` speaks of versions with rows.

### Bounds

*Billing.* One wallet, because no transaction touches two; two orders, so that a
transaction id can be claimed twice, one of them discounted, so that rounding
matters (a refund of 1 out of 2 paid takes back 2 of 3 credited); six event ids;
two accounts with one idempotency key, the case in which ledger keys collide.
Amounts are small because only their order and equality matter.

*Pipeline.* One batch with two callback slots shows every race of handlers on one
object; two batches with one slot show batches overtaking each other. The retry
limit is 1 (5 in the code): there is a first, a repeated and a last attempt, and
the code tells only the last one apart; it is 0 with two batches. Faults are
bounded by 1 or 2, and 4 crashes in `forsaken`, which needs two jobs to run out of
attempts. `MaxRates` 1 lets a second run of a batch appear. One confirmation key
allows one re-confirmation. Symmetry is used in `forsaken` only, which has no
liveness property, and for the files of `upload_page`.

*Uploads.* Six workloads: files in chunks with two requests at once; an archive
and two handlers with every fault; an archive whose entry has the path of a file
beside it, which exhausts its budget; the same content in two batches, and twice
in one batch; a broken archive beside a good file. Two bytes are enough for a
repeated, an adjacent and an overlapping chunk.

*Exports.* A customer and a member whose rights come and go through two epochs;
an administrator's export with two handlers and two faults of every kind; the
same with the faults after which handlers still tidy up; a report that fails for
good. One export is under way at a time: exports share nothing but their shop.

*Identity.* Six workloads, each with the rows one kind of overlap needs: logins
while administrators change accounts, phone changes of invited members,
customers whose phones move, members added and removed by two actors, members
added while phones change, and four requests for codes that share phone, address
and device in every way.

*Shops.* A term that starts on February 29, closes before, on and after its
anniversaries, and money for four years; two members and money for one shop; two
members with the same keys and money for three years.

*Workflow and page.* One or two shops and two or three moves of the server; two
paths, two faults. *Exchange rates.* Two or three days, one or two currencies, two
faults; syncs that last past midnight have a workload without conversions (`Slow`),
one with them and little else (`Midnight`), and none whose rates must arrive.
*Datasets.* Twelve rows of six files over two months and two sites, periods of one
month and of all, three batches, two moves of a pointer.

Deadlock checking is off everywhere: these instances come to rest when the
bounded inputs have been used up.

### Fairness

*Queue* (`races`, `exports`). Weak fairness of the dispatcher and the reconciler
(interval timers in every worker), of fetching and expiry (pg-boss polls), of
handler steps and acknowledgements (a callback that does not go on is a crash,
which is bounded), and strong fairness of obtaining an advisory lock, since
PostgreSQL queues the waiters. Nothing is asked of the API or of faults.

*Shops, datasets.* A transaction that has begun goes on, its locks are granted in
the order they are asked for (strong fairness for the ones that wait), and the
database resolves deadlocks.

*Workflow.* The latest request is answered and the poll timer ticks; answers that
were overtaken need never come. *Exchange rates.* Days pass, and the worker with
its retries goes on. Only in the workloads without `slowSyncs`, where a day waits for
the syncs under way, does `RatesArrive` promise anything.

## Proofs

Each theorem holds for every value of the constants that satisfies the named
assumptions, which TLC evaluates on every run. The invariants marked *inductive*
were first checked by TLC as invariants of the run.

### Billing

Assumptions: amounts are positive, a discount never raises what is paid above
what is credited, names are distinct from the NULLs, callbacks are well formed
(`PaymentsAssumption`, `BillingAssumption`).

- `TypeOKHolds`. `TypeOK` is not inductive: that a reversal's delta is a number
  depends on what `PreviousReversal` returns, a `CHOOSE` of the row with the
  largest cumulative amount (`ORDER BY ... DESC LIMIT 1`). `TypeInv` (inductive)
  adds that the rows of an order ascend; then the chosen row is the last one
  (`PreviousIsLast`), and appending keeps the order because `ReversalConflict`
  refuses smaller amounts.
- `LedgerCorrect`. Every action moves wallets in one of three ways
  (`NextMovesWallets`: not at all, by posting under a fresh key, by restricting),
  and each of the three preserves `LedgerSound` (`LedgerStep`).
- `CreditedOnceHolds`. `CreditedOnce` is inductive together with `TypeInv`. The
  actions that credit nothing keep it by one frame lemma (`CreditFrame`: no ledger
  entry of kind `payment-paid` is added and no order changes what it says of its
  payment); the payment itself is the one real step.
- `ReversalsExactHolds`. `ReversalInv` (inductive) says where each row of an
  order's reversals comes from: its credit is `CumulativeCreditReversal` of its
  amount, its delta the difference from the row before (`RowsComputed`), and a
  ledger entry with that delta exists. That the total never exceeds what was
  credited, and is all of it once all was returned, is then arithmetic about
  half-up rounding: `CumulativeReversal`, `CumulativeGrows`.
- `ChargesPaidHolds`. The charge and its ledger entry are found through a shared
  key, so the invariant `ChargeInv` (inductive) adds the converse: every ledger
  entry of a charge kind has a charge (`ShopEntriesCharged`).
- `BillingImplementsAccountBook`. The refinement of `AccountBook`: every step of
  every actor is one posting under a fresh business key by one of the book's
  three reasons, or leaves the book alone.

### Pipeline and terminal reconciler

Assumption: `JobQueueAssumption`, the shape of a scenario.

- `PipelineInvHolds`, `ResultsBackedHolds`. What a slot, the reconciler or a job
  holds is related to the rows (`SlotsOK`, `RecOK`, `JobsOK`), a batch's status to
  what was committed for it (`BatchesFit`) and events to the step before them
  (`EventsFit`): a callback that was late, repeated or overtaken then cannot
  materialise facts again or record a publication that did not happen.
- `CurrentMovesForwardHolds`, an action property, from the same invariant.
- `ReconcilerInvHolds`, `WorkNeverForgottenHolds`. A COMMITTING batch or a QUEUED
  run has an event, an open job or a failed job nobody reconciled (`CommitsHeld`,
  `RunsHeld`); a completed job has left its object settled (`CommitsDone`,
  `RunsDone`), or a callback is about to acknowledge it; while the reconciler is
  about to record, the work it decided about is settled or superseded
  (`RecFresh`, `RecCommit`, `RecRun`). The theorem speaks of scenarios in which
  confirmations bring keys of their own: see the first observation.
- `NewWorkNotFailedHolds`, an action property: the reconciler fails a batch only
  when no newer job or event of the same queue and object exists. It needs that a
  mark is set by the reconciler alone and that the verdict it is about to write is
  still current (`RecFresh`).

### Exports

Assumptions: `JobQueueAssumption` and `ExportsAssumption`, the shape of a scenario.

- `ExportsInvHolds`. The inductive invariant: types and ranges (`RowsOK`,
  `QueueOK`, `SlotsOK`, `RecOK`), mutual exclusion of the callbacks of one export
  through the job lock (`Exclusive`), objects and rows (`FilesOK`), entitlement
  (`LiveExportsEntitled`), a completed job has a decided export (`DoneDecided`),
  a job somebody works on is unmarked (`HeldUnmarked`), and files no row refers to
  are in the hands of a callback that will look at them (`LeftoversHeld`).
- `LiveExportsEntitledHolds`. The heart of it is that a revocation and the
  invalidation of exports are one transaction, and that a request or a worker
  which read an older row compares the epoch again under the shop's row.
- `FilesSoundHolds`. `LeftoversHeld` alone does not say that the work behind the
  leftover is not over; `DoneDecided` and `HeldUnmarked` do: the callback's job is
  open, or failed and still to be reconciled.

### Identity

Assumptions: limits are positive, every request has a phone, an address and a
device (`LimitsAssumption`), bounds are numbers (`ScenariosAssumption`), and the
database starts in order (`SeedAssumption`): rows are well typed, live sessions
carry the generation of their account, sessions are counted in their account's
logins (those from before logins were counted have sequence 0, as
`0040_account_login_lifecycle.sql` leaves them), the unique indexes of the member
rows hold, their enterprises exist, and an enterprise has a member.

- `SessionsCurrentHolds`. Generations are not compared with history directly:
  `InStep` (inductive) says that a login or a live session is behind its account
  by as many generations as events it has not seen, so that equal generations
  mean none. One frame lemma (`Carried`) covers every step after which accounts
  moved their generation and their count of events together, codes once consumed
  stayed so, and at most one login began; `SessionBegins` covers the two actions
  that write a session.
- `LoginsOnceHolds` is the type invariant of the module with two facts beside it.
  `CodesOnce` (inductive): a code that opened a session or is about to was
  consumed before its attempts were used up, and nobody else has it. `Counted`:
  an account has counted at least as far as its sessions, so the next place is
  free. `PrepareAccountChange` and the others only have to keep the types.
- `MembersRemainHolds`. That a member is active is not enough, since a removal
  under way may take it: `SomeoneStays` (inductive) asks for one nobody is
  removing. It needs `RowsHeld`, that locked rows stay as they were found, against
  the activation of pending rows by a registration or a phone change
  (`ActivationStep`), and the count of `removeMember`, which leaves a second
  active row that no other removal of the enterprise can hold.
- `PhonesMoveHolds`. A phone change rebinds the rows of the account, merges the
  pending rows of the new phone, and joins what is left. That each of these
  statements keeps the unique indexes follows from the indexes themselves
  (`MembersKeyed`, inductive): `RebindIndexed` needs that nobody else's active row
  waits under the new phone in an enterprise of the account, which is exactly
  `~LeftBehind`; `ActivationIndexed` needs that merging comes before joining. For
  customers, every step that grants a shop answers one invitation of that shop
  that was not answered before (`Admits`, `OneMore`), so grants never outnumber
  answered invitations however the phones moved in between.
- `LimitsSoundHolds`. `LocksExclude` (inductive): two requests never hold the lock
  of the same phone, address or device. Hence what a request counted stays true
  until it inserts (`CountsTrue`). That nobody waits in a circle follows from the
  types alone: of the requests that wait, one that has come furthest waits for one
  that has all its locks (`SomeoneGoesOn`).

### Uploads

Assumptions: `JobQueueAssumption`, and `UploadsAssumption`: finitely many files,
each with a kind, a size and an outcome, an entry in an archive of its own batch;
limits are numbers.

The inductive invariant is built in layers, each proved with the ones below.

- Sums. `SumFunctionOnSet` is a fold over a set in an order nobody knows.
  `SummationExists` and `SummationUnique` give the function of all subsets that
  it computes, by the well-foundedness of the subset order; `SumAdd`,
  `SumDifference`, `SumUnion` and `SumSame` are what the rest needs of it.
- `QueueInvHolds`: events, jobs, slots and the reconciler are typed and fit each
  other, and two callbacks of one object are never both inside the handler
  (`Exclusive`).
- `FilesInvHolds`: what a file's status, its object, its plaintext and its
  ciphertext say of each other (`FileFits`), a batch of its files (`BatchFits`), an
  analysis of its file (`RowFits`), and what a handler between two of its steps
  may rely on (`SlotSees`, `RecSees`). Steps before the queue, of the archiver and
  of the analyser are proved apart, all through one frame lemma (`FilesStep`).
- `WorkInvHolds`: a file that waits to be archived or analysed, or whose
  ciphertext nothing refers to, has an event, an open job, or a failed one nobody
  reconciled (`HeldInv`); completed work has been done; and a batch that is
  ANALYZING still lacks an analysis or holds one content twice (`Counted`), the
  exception being the finding `duplicates`.
- `AnalysisNotForgottenHolds` and the action property `PreflightSoundHolds` follow
  from `WorkInv`: a batch that a step turns to COMMITTING was decided on counts
  that are its sets (`JustDecided`).
- `UsageExactHolds` (`Accounts`): what the batch row counts is the sum over the
  files it keeps and the archives it reserved for. Each step changes one file, or
  a set of them that leave together, by as much as it adds to the row.
- `ChunksExactHolds` (`Receipted`): a file has received the sum of its receipts.
- `FilesSoundHolds` puts together `FilesInv` (what a row refers to is there) and
  `HeldInv` (what no row refers to will be looked at).

### Shops

Assumption: `ShopsAssumption`: dates are dates, the calendar is not empty, the
price and the money are numbers. `WorkflowAssumption`: the situations a shop is
found in and the queues that may hang are known ones, the bound on moves is a
number. `UploadPageAssumption`: the limit of refreshes is a number, and an earlier
visit leaves a batch in a state of the server's.

- `ShopsInvHolds`. The inductive invariant has the types, that terms are of one
  day to a hundred years (`TermsFit`), and the properties themselves, of years,
  charges and ledger. Most steps change neither a
  term nor a charge and go through two frame lemmas (`QuietStep`, `RowsKept`). The
  real ones are `FinishCreateKeeps`, which charges the years 1 to n of a new shop,
  and `RenewKeeps`, which charges the ones after those already billed; that
  `billedYears`, the least number of years that reach the close date, is one is
  `LeastExists` and `YearsInRange`.
- `YearsPaidHolds`: every year of a term is charged by exactly one charge
  (`TermsPaid`); a charge that was not waived has a ledger entry of its own for the
  price of its years, also where colleagues share keys (`ChargesEntered`); and the
  wallet holds what the entries left, never less than nothing (`NeverOverdrawn`).
- `ReplaysAcceptedHolds`. A repetition of a create is compared with the name the
  shop had at first. `ReplaysStay` shows that renaming, trashing and purging
  never lose that name.
- `StepsTrueHolds`, of `Workflow`. That the steps are true of any situation is an
  argument by cases over the few things `getWorkflow` reads (`SituationFacts`,
  `StepFacts`). It needs an invariant, `PageInv`, because requests are answered late
  and shops change under them: batches are numbered in ascending order, a
  snapshot is of a published batch (`Numbered`), requests under way carry a view of a
  shop or none (`Requested`). `PageStepKeeps` and `ServerStepKeeps` have one step
  for each action.
- `PageGoesOnHolds`, of `UploadPage`. `FlowInv` adds to the types (`Shape`) what
  each of the page's flags waits for (`Ends`): restoring excludes a removal, and
  the restoration is one that will be heeded. For a viewer who waits (`Orderly`) at
  most one answer besides those of an upload is awaited, every polling is of the
  present generation, and an import is only confirmed while none is followed.
- `ArchivedWereListedHolds`, of `UploadPage`. `ListInv` says of each task what it
  promises about the list: files still sent are listed (`Awaits`), a removal is of
  the page's batch, which nothing is sent to any more, and a new batch is newer
  than what is still sent (`Apart`). Only a batch found again with files missing
  may hold more than the list; nothing touches it, so it is never handed over
  (`Abandoned`). Most steps leave each task like one that was there or of a kind
  the list does not matter to (`Derived`), and go through `ListRests`.

### Datasets

Assumption: `DatasetsAssumption`: finitely many rows and slices, each row of a
known object, with a readable date of a known month or none.

- `DatasetsInvHolds`. The inductive invariant has four parts beside the types. A
  version holds exactly the rows that its batch stages for its slice, a batch that
  has not committed has no version, and one that has has at most one of a slice
  (`VersionsExact`). The batch of a count has committed under the present date
  rule and has a version of every slice it staged a row for (`CountsFit`). A run
  has one version of a slice, and those within its accounting period are of one date rule (`RunsFit`,
  the reason for the check of modes in `requestCalculation`; those out of scope may
  be of the other). A replay has promised to read
  versions older than itself (`ClosuresOld`). A transaction that waits holds a
  batch that is still COMMITTING (`HeldCommitting`), so a commit never
  materialises twice. Steps that make no version go through one frame lemma
  (`Quiet`); the real step is `CommitStepKeeps`.
- `RowsExactHolds`. `CountsConserve`: the facts of a batch's object are its
  inserted rows, since staging puts each into the slice of its marketplace and
  month and nowhere else. `RunsCountOnce`: under one date rule a row has one
  slice, so two versions that a run includes share none.
- `ReplayNeverOverwritesNewerHolds`. A replay's commit finds the closure it
  promised; what it replaces is therefore in the closure or has no rows, and what
  is in the closure is older.
- `AcknowledgementsEarnedHolds`. Facts and predecessors of a version never change,
  so an acknowledgement once passed on stays one of the same facts.

### Exchange rates

Assumptions: `QuotesAssumption` (bounds are numbers, a slice has days, an operator's
range is one of days of history, and the rates of a trading day quote at least one
currency, also after a correction) and `FxAssumption` (a key is not a name of the
lock's other states, days that conversions ask about are numbers).

- `FxInvHolds`. The inductive invariant is about two things that hardly touch.
  Of the source it says that what is stored was published and what is recorded as
  absent is over (`QuotesTrue`): a day that is past without rates never gets any
  (`Closed`), which is why `safeAbsenceCutoff` may conclude from yesterday and from
  a day before one that is quoted, but not from today. For an answer that is not
  stored yet this must be said at each of its three steps (`PageTrue`): what it lacks
  is closed as soon as the day is over, unless midnight came in between, which is
  what `overnight` records. Of the overrides it says
  that a write under way is the first under its key and, once its trigger has
  passed and it holds the lock, that nothing has become current since that the
  trigger would have refused (`WritesFit`); `KeysOnce` makes the record found under
  a key the only one. Steps are proved apart for the official rates (`QuoteStep`,
  with `AnswerStep`, `ClockStep` and `StoreStep` for the requests),
  the overrides (`BeginStep`, `InsertStep`, `CommitStep`), conversions (`ReadStep`)
  and the report (`ReportStep`).
- `OverridesSoundHolds`: two of its three parts need `WritesFit` and `KeysOnce`,
  the third is the type invariant.
- `NoTradingDaySkippedHolds`. A conversion's quotes, days and overrides are of
  three moments; `ReaderTrue` says that each was true of the source and stays so
  (`MarketGoesOn`), so the moments need not agree. The days of `overnight` are
  excepted: see the observation on `fetchPage`.
- `LatestAnswerCurrentHolds`. The answers of one run are of different days
  (`PagesApart`), so among the answers of the run that finished last only one
  speaks of a day, and the latest visible one about it is that one. The first of
  the arms of `StatusIn` excludes the second by `QuotesTrue`.
- `PublishedSetCurrentHolds`, an action property: `CheckedFits`.

That a set of days has a first or a last one (`Min`, `Max`, the latest position of
a view) is taken from the well-foundedness of the naturals: `NatMin`, `NatMax`,
`LatestIsLast`.

### What is only model-checked, and why

- Liveness (`WorkSettles`, `ExportSettles`, `CreatesEnd`, `PageCatchesUp`,
  `RatesArrive`, `CommitsEnd`): fairness and ENABLED are beyond this prover.
- `NeverStranded` and `DuplicatesNeedNothing` do not hold.

## Not modelled

Operations: `replication.ts` copies stored objects and verifies them, one writer
that no other part waits for. Static tables and their validation (mappings),
settings written in single statements (catalog, preferences), wrappers of the
driver, routing, pure formatting, scripts. In the modelled components: the text
of messages, reading of report files (encodings, columns, amounts), the decimal
formulas of a calculation, the workbook of an export, encryption and hashing,
pages of the web client that show one answer.

## Plan

Every safety property that a run checks and that holds is proved. Should the
second finding be repaired (a preflight refreshed when a file shares an object), `Duplicated` goes
from `Counted`, and `DuplicatesNeedNothing` becomes provable from `WorkInv`.
