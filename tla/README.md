# Verification of rto-accounting

TLA+ models of the accounting application under `src/`: a FastAPI web server over
PostgreSQL that keeps the purchases, vehicles ("units"), sales, repairs, leases and
ledger of a used-car and golf-cart business. TLC checks the models on small
instances, TLAPS proves the theorems for every size.

## 1. The system

| Component | State | Operations |
|---|---|---|
| Purchases (`services/purchase_service.py`, `routes/purchases.py`) | `purchases`, the `transactions` row of each, `units` it creates or links, `purchase_events` | create, edit, mark reviewed, reopen |
| Review queue (`routes/review.py`) | none; a page that shows pending purchases | render, one-click review |
| Unit form, transaction form (`routes/units.py`, `routes/transactions.py`) | `units`, `transactions` | create, overwrite |
| Historical import (`scripts/import_historical_purchases.py`) | the same tables, from a process of its own | import a row, dry run, re-run |
| Sales (`services/sale_service.py`, `routes/sales.py`) | `sales`, their transaction, payment, invoice, the unit's status | create, complete, edit |
| Repair jobs (`services/repair_service.py`, `routes/repair_jobs.py`) | `repair_jobs`, revenue transaction, payments | create, close, pay, edit |
| Lease accounts (`services/lease_service.py`, `routes/lease_accounts.py`) | `lease_accounts`, payments; balances are derived | create, pay, edit |
| Invoices, payments (`services/invoice_service.py`, `routes/payments.py`) | `invoices` (a snapshot of the balance), `payments` | created by the above; payment form |
| Accounts (`services/user_service.py`, `auth.py`, `scripts/users.py`) | `users`, signed cookies | sign in, change password, disable, set role |
| Documents (`services/document_service.py`) | receipt files and their rows | upload, download |
| Enrichment (`scripts/enrich_historical_units.py`) | year, make, model of `units`, from a process of its own | propose from notes, fill, dry run |
| Backup, retention (`deploy/rto-backup*.sh`, `rto-backup-prune.py`) | backup directories, on the server and off it | dump, archive, verify, publish, prune, copy offsite |
| Network check (`deploy/rto-netcheck.py`) | `samples.jsonl`, `events.jsonl`, and what the logger remembers | sample, log, restart; report |
| Exceptions, dashboard | exception records; aggregates | open, resolve; read |

All but the last three interact only through the database. A handler opens one session, reads,
decides, writes and commits; `get_db` (`database.py`) closes the session and so
rolls back whatever was not committed. What is hard about it:

- Handlers declared `def` run in a thread pool, on READ COMMITTED transactions,
  with no row versions and no `SELECT ... FOR UPDATE`. Between what a handler
  read and what it writes, others commit.
- `create_purchase` and `update_purchase` are `async def` and contain no `await`:
  uvicorn runs one worker (`deploy/rto-web.service`), so its event loop runs these
  two one at a time, but the threads of other handlers, and command line scripts
  in processes of their own, interleave with them.
- SQLAlchemy writes only the columns whose new value differs from the loaded one.
  A column that did not change keeps what another transaction committed since.
- A page an administrator decides from may be minutes old.
- The scripts read for long and commit late, may be killed anywhere, and are run
  again by hand. The backup and the logger are run by systemd, which restarts them
  or starts them the next night.

What makes each part correct, and where it could go wrong, is in the `hazards` of
`PROJECT.json`, at the line where it bites.

## 2. What is modelled

| Module | Models |
|---|---|
| `Sessions` | `NULL`, and how a SQLAlchemy session saves a column |
| `PurchaseRules` | the pure rules of `purchase_service.py`: line of a category, totals, which edits are allowed |
| `Purchases` | purchases with their units, ledger entries and history, under concurrent requests |
| `ReviewedLedger` | the abstract specification: figures move only while an entry is open |
| `ReviewDesk` | `Purchases` with the pages the administrators decide from |
| `Invoices` | the arithmetic of `invoice_service.py`: what an invoice records, what its page shows |
| `Sales` | sales with their transaction, invoice, payments and units, under concurrent requests |
| `Payments`, `RepairJobs`, `Leases`, `Receivables` | repair jobs and lease accounts over the payments they share; `Receivables` composes them and adds the payment form |
| `Accounts` | users, sessions, the sign-in lock and the commands of `scripts/users.py` |
| `ImportedOnce` | the abstract specification of the import: every row once, for good |
| `HistoricalImport` | runs of the importer over a file, row by row |
| `Enrichment` | what the notes of a vehicle are read as, and the run that fills in what they say |
| `Retention` | which backups `rto-backup-prune.py` keeps |
| `Backup` | the nightly backup beside uploads and migrations, day after day |
| `Netcheck` | the outage logger and the analysis of its samples |
| `MC...` | the values of the constants for TLC, and the symmetries |
| `Purchases_proofs` | the theorems about `Purchases` and `ReviewDesk` |
| `Sales_proofs`, `Receivables_proofs`, `Accounts_proofs`, `HistoricalImport_proofs`, `Enrichment_proofs`, `Backup_proofs`, `Netcheck_proofs` | the theorems about the module each is named after |

### Purchases

| Variable | Code |
|---|---|
| `purchases` | the rows of `purchases`: category, amount, shipping plus fees (`extras`, which the code only ever adds up), unit, `created_unit`, whether imported (`source_reference`), reviewer and status |
| `ledger` | the `transactions` row of each purchase |
| `units` | VIN, line and acquisition cost of each unit. A unit's key is also its stock number (`unit_id` is made from it) |
| `history` | `purchase_events` |
| `requests` | the sessions in flight: what each handler has loaded and decided |
| `adjusted` | a history variable: purchases and units overwritten through the transaction or the unit form |

Each request is two steps. `Begin...` is the handler up to its decision: the guard
is the code's conditions, and the record put in `requests` is what the session has
loaded. `Commit...` is everything it writes, against the database of that moment:
`Save(loaded, new, inDb)` is the rule by which a column is written or left.
`Abandon` is an exception, a violated constraint, or the server dying in between.

| Action | Code |
|---|---|
| `BeginCreate`, `CommitCreate` | `create_purchase`, `record_purchase` (`Record`, `Insert`, `InsertUnit`) |
| `BeginEdit`, `CommitEdit` | `update_purchase`: `is_editable`, `check_edit_allowed`, then the fields (`Corrected`), `sync_purchase_transaction` (`SyncLedger`, `SyncUnit`) and the event (`LogEdit`) |
| `BeginReview`, `CommitReview` | `mark_purchase_reviewed` and `mark_reviewed`, from the list or the queue |
| `BeginReopen`, `CommitReopen` | `reopen_purchase` and `reopen` |
| `ImportRow` | one row of the historical importer: read, insert and commit |
| `NewUnit`, `EditUnit`, `EditTransaction` | the unit form and the transaction form |

Abstractions:

- All reads of a handler happen at `Begin`. The handlers read the purchase first,
  and the later reads (its ledger row, its unit) serve only to know which columns
  are dirty; the values they could have seen in between are those of the forms,
  which `adjusted` sets apart anyway.
- The unit and transaction forms are one step. They decide nothing, and each column
  ends with the form's value or, if that was the loaded one, the database's; so an
  overlapping write leaves, column by column, a value that a form or a purchase put
  there. A row that a form has saved is `adjusted` from then on, and no property
  relates an adjusted row to its purchase.
- Importing a row is one step: no property depends on what falls between its
  reads and its commit except two units of one VIN, and that is `HistoricalImport`.
  The stock tags of one run are abstracted to "the unit of some imported vehicle".
- A VIN is a spelling. The lookups compare without letter case (`Alike`, from
  `Lower`), the unique constraint with it (`VinFree`), and the forms keep what was
  typed: one VIN can have two units in two spellings, and `.first()` of a query
  without an order then returns either (`FirstOf`). Purchases of the application
  alone never make two (`OneCreator`); the importer or the unit form between the
  two steps of a creation may.
- Left out: vendors, purchaser, dates, descriptions, mileage and payment source
  (written, never decided on), receipts and their events, the status `approved`
  (no code of the application sets it), the author of entry and edit events, and
  the review status of the transaction.

Bounds: `MaxEvents` events per purchase, `MaxImported` imported purchases,
`MaxAdjusted` rows touched by the two forms. They appear in the guards that name
them (`CanLog`, `ImportRow`, `Adjust`). No fairness is assumed and no liveness is
claimed: a handler waits for nothing but its own form, and a system in which
nobody clicks is fine. For the same reason the runs do not check for deadlock: the
bounds end every behaviour, and so may the users.

### ReviewDesk

`shown` is the last page each administrator had: figures and, as a history
variable, how many events the purchase had then. `Look` renders, `Click` posts the
id of a purchase that a page showed. Every other step is a step of `Purchases`.

### Sales

| Variable | Code |
|---|---|
| `sales` | the rows of `sales`: unit, customer, line, price, fees, down payment, `total_contract_amount` and status |
| `revenue`, `invoices` | the `transactions` row and the invoice that `finalize_new_sale` writes with each sale |
| `payments` | the amount of each payment, and its sale, if it has one |
| `leases` | the unit of each lease account |
| `units` | status and `linked_customer_id` |
| `requests` | the sessions in flight |
| `revived` | a history variable: sales brought back from cancelled on the unit they had |
| `adjusted` | a history variable: sales whose row or payments a form has changed, units a form has set or an edited sale has left or joined |

| Action | Code |
|---|---|
| `BeginCreate`, `CommitCreate` | `create_sale` and `finalize_new_sale`: the sale, its transaction, its payment (`Pay`), the unit (`SellUnit`) and the invoice (`SaleInvoice`) |
| `BeginComplete`, `CommitComplete` | `complete_sale` |
| `BeginEdit`, `CommitEdit` | `update_sale` |
| `SavePayment`, `SaveLease`, `SaveUnit` | the payment form, the lease form, the unit form |

The requests are two steps each, as in `Purchases`, and all three handlers run in
threads, so any number of them overlap. The forms beside them decide nothing and
are one step, for the reason given above.

Abstractions: units exist from the start; names, dates, notes and payment methods
are left out; a payment of a lease or a repair is a payment of no sale; nothing
reads the transaction of a sale again, and the transaction form is left to
`Purchases`. Nothing needs a bound: the tables have as many rows as the instance
has keys.

### Payments, RepairJobs, Leases, Receivables

| Variable | Code |
|---|---|
| `payments`, `requests` | the payment rows of jobs and leases; the sessions in flight |
| `jobs`, `revenue`, `invoices` | the rows of `repair_jobs`; per job, its `repair_revenue` transactions and its invoices |
| `leases` | the rows of `lease_accounts`: financed balance, scheduled payment, frequency. No balance is stored |
| `receipts` | per payment taken, its collection transaction and its invoice |
| `formed`, `raced`, `touched` | history variables: jobs a form has completed or changed; leases on which payments overlapped; leases whose deal or payments a form has changed |

| Action | Code |
|---|---|
| `CreateJob`, `UpdateJob` | `create_job`, `update_job` |
| `BeginClose`, `CommitClose` | `do_close_job`, `close_repair_job`, `create_invoice_from_repair` (`Bill`) |
| `PayJob` | `record_repair_payment` |
| `CreateLease`, `UpdateLease` | `create_lease`, `update_lease` |
| `BeginTake`, `CommitTake` | `record_rto_payment`, `create_invoice_from_rto_payment` (`Receipt`) |
| `SavePayment` | the payment form |

`LeaseBalance` and `MonthsLeft` are the pure functions of `lease_service.py`. Its
divisions of floats are exact but for the pairs in `RoundsUp`: amounts are cents, so
a double can only miss a whole number it should hit. It then counts a payment more,
so `MonthsPayOff` says of these pairs that the months shown are the fewest for a
balance one scheduled payment higher (`Counted`): a monthly lease is shown a month
too many. Of all others it says that they are the fewest that pay off the balance. Abstractions: labor and
materials are one total, dates are whether there is one, the statuses of a lease
(nothing decides on them) and the business line are left out.

### Accounts

| Variable | Code |
|---|---|
| `users` | role, active, `session_version`, `must_change_password`, `failed_login_count`, `locked_until` as none, future or past |
| `cookies` | user and version in the session cookie of each browser |
| `requests` | sign-ins, password changes and command lines between read and commit |
| `bumps`, `tries`, `temporary`, `raced`, `crowded` | history variables, explained where they are declared |

| Action | Code |
|---|---|
| `BeginSignIn`, `BeginFailure`, `BeginChange` | `authenticate`, `login`, `change_password` |
| `BeginCommand` | the commands of `scripts/users.py`: reset, disable, enable, role, unlock |
| `CreateUser` | `create_user` |
| `Commit` | the commit of any of them, column by column, and `start_session` after it |
| `EndSession`, `LockExpires` | logout, the limits of a session and `require_user`; the end of a lock |

A password is right or wrong for the row that was read. Clocks are a choice: a lock
may end, and a session may expire, at any moment.

### HistoricalImport

`purchases` has, per source reference, the purchases that carry it; `units` the VIN
of each unit, as it is spelled; `runs` where each run of the script stands, what it is
inserting and which unit it remembers for each stock number. A row is one transaction
of two steps. `typed` and `mishaps` are history variables: units whose VIN came from
the unit form, and whether runs overlapped or failed. As in `Purchases`, look-ups are
without letter case (`Having`, `Found`) and the unique constraint is with it
(`VinFree`).

| Action | Code |
|---|---|
| `Start`, `Finish` | `main --commit` |
| `Skip` | `_already_imported` |
| `Raise` | `resolve_vehicle_unit` refuses a stock number and a VIN of two units |
| `BeginRow`, `CommitRow` | `process_vehicle_row`, `process_non_vehicle_row`, `record_purchase`, and the commit |
| `RowFails`, `CommitFails` | a flush or the commit fails; after the latter the tag stays remembered |
| `Crash` | the process is killed |
| `EnterUnit`, `EditUnit` | `create_unit` and `update_unit`, which look nothing up and keep the VIN as typed |

`DryRun` is the dry run, every row under a savepoint, as a recursive function over
the lines of the file. Where two units have one VIN in two spellings it takes some one
of them for each look-up (`Pick`), so `DryRunForetells` leaves such a start out: a
real run may take the other. `MaxSaves` bounds the saves of the form. The figures of a row, vendors, the summary and the failure file are left out; what a
row books is `ImportRow` of `Purchases`.

### Enrichment

`Proposal` is `find_year` and `find_make_and_model` over the tokens of a note. The year
is sought among the runs of digits of the whole text, so `Runs` says which a token has
in it, be it a number or not ("#2013"). A run
loads every unit (`Load`), fills what was empty (`Commit`) or is interrupted
(`Interrupt`), and the unit form saves meanwhile (`SaveUnit`). The query that picks
the purchase of a unit has no order, so `Load` picks any. The report is left out.

### Backup and Retention

`Choose` of `Retention` is `choose` of `rto-backup-prune.py`, over days. In `Backup`,
`run` is the backup in progress, with what it has counted, dumped and archived;
`docs` says of each document whether its file and its row exist; `backups` and
`cloud` are the days on the two shelves.

| Action | Code |
|---|---|
| `UploadStep`, `Migrate` | an upload (file, then row) and a migration (`alembic/versions`; of which only that the revision changes), at any moment |
| `Start`, `CountRows`, `Dump`, `Archive`, `Recount` | the commands of `rto-backup.sh`, in its order |
| `Publish`, `Refuse` | `rto-backup-verify.sh`, and the rename that publishes |
| `Prune` | `rto-backup-prune.py`, and `OnSuccess` of `rto-backup.service` |
| `Send`, `SendFails` | `rto-backup-offsite.sh` |
| `Stop` | a failed command, the time-out, a machine that goes down |
| `Midnight` | the timer. Days are renumbered a cycle of the calendar later, so nights go on for ever in a finite instance |

Left out: free disk space, what a crash leaves under `.partial_*`, copies off the
server of backups pruned here.

### Netcheck

`logger` is what the process remembers (`since`, `outage`); `samples`, `recoveries`
and `endings` are its two files, which outlive it. A sample has the time of the host,
which promises nothing: two samples may have one time (a restart samples at once, a
probe that overran leaves no sleep, seconds are truncated), and the clock may be set
back. Where the code keeps the time of a sample, the model therefore keeps its number.

| Action | Code |
|---|---|
| `TakeSample`, `LogChecks`, `LogOutage` | an iteration of `run`: the sample, the events of checks, the events of outages |
| `Tick`, `SetBack` | time, at any moment, also while the host is frozen; a correction of the clock |
| `End`, `Restart` | SIGTERM, a crash or a reboot; `Restart=always` |

The report is `analyze` of what `read_jsonl` returns: `Chronological` is its stable sort
by time, and `Analyze` a recursive function over the number of samples read, so that
both can be proved about. `MaxSamples`, `MaxTicks` and `MaxEnds` bound the instance.
`OutagesAreReported` is about outages whose samples the clock left in their places
(`InPlace`); otherwise the report has them in another order than they were taken, and
the events cannot agree with it. The probes, the window of
the report, its wording and its explanations are left out.

## 3. What the runs show

Passing runs:

| Run | Question | Instance |
|---|---|---|
| `purchases_units` | Do unit costs and ledger entries follow the right purchase through any interleaving? `OneCreator`, `CostFollowsCreator`, `LedgerFollows`, `VehicleKeepsUnit` | a handler of the event loop between its reads and its writes, two purchases, two units, one VIN in two spellings, a vehicle and a parts category, an import, a form |
| `purchases_serial` | With one request at a time, do purchases implement `ReviewedLedger`? `TypeOK`, `KeepsReviewedLedger` | one handler, a car, a cart and an expense category |
| `review_desk` | Does the history explain figures and status when edits, reviews and reopenings race, and if a review locks figures its reviewer did not see, can it be found out? `HistoryIsComplete`, `ReviewFollowsHistory`, `ReviewedAsSeenOrLogged` | two administrators with the queue open, two handlers, one purchase, five events |
| `sales_serial` | Is the lookup of `_active_sale_for_unit` enough when nothing runs beside it, and do invoice, payments and balance of a sale agree? `TypeOK`, `OneActiveSale`, `PaidAsInvoiced` | two sales of both lines, two units, fees, a down payment, an overridden total, a payment |
| `sales_race` | Does a sold unit name a buyer whatever overlaps? `SoldUnitHasBuyer` | two requests, two sales of one unit to two customers, a lease, the unit form |
| `receivables` | Does a job closed by overlapping requests have a bill that agrees with its page, do receipts of overlapping payments ever state too little, and are the months shown the fewest that pay a lease off? `TypeOK`, `BilledAsShown`, `ReceiptsNeverUnderstate`, `ReceiptStatesBalance`, `MonthsPayOff` | two requests, a job and a lease, two payments, a correction, two totals, a monthly and a weekly deal, a quotient that rounds up |
| `accounts` | Do sessions end when they should, is a temporary password changed, does an account lock in time, and does an administrator remain? `TypeOK`, `BumpsEndSessions`, `TemporaryMustChange`, `LockedInTime`, `AdminRemains` | two administrators, a browser, two requests or commands, a lock after two |
| `historical_import` | Whatever crashes, fails, overlaps or is repeated: is every row entered once and for good, on the unit of its VIN, and does a run do what a dry run says? `TypeOK`, `SameVinSameUnit`, `TagsLinked`, `DryRunForetells`, `ArrivesOnce` | a file of seven lines with every kind of row and one VIN in two spellings, two runs, a crash or failed commit, a save of the unit form meanwhile |
| `backup` | Are backups whole, the right ones kept, and copied off the server every night once failures end? `TypeOK`, `EveryRowHasItsFile`, `RefusesOnlyMigrations`, `KeepsWhatIsOwed`, `CopiedEveryNight` | weeks of two days, months of three, two documents of which the file of one was lost before, a migration, two troubles |
| `netcheck` | Does the report list exactly the observed stretches of failure, and do the events agree with it? `TypeOK`, `ReportsStretches`, `EventsAgree` | two checks, four samples at four times, which may be equal or go back, an end of the logger |
| `enrichment` | Does what is read from notes follow the rules, and does a run keep what was typed? `TypeOK`, `TypedStays`, `FromItsNotes`, `ModelFollowsMake` | every note of up to three tokens and many of five, a unit of two purchases, two saves |

The instances are small and enough. Creating and editing handlers of purchases run
one at a time (`LoopFree`), so one slot with the importer and the forms beside it
has every race over units and costs. A race over a status needs two handlers: one
decides, the other commits first. Two purchases of one vehicle are what the rules
of `created_unit` are about, and two totals make an edit visible. Two sales of one
unit to two customers show every mixture of the columns they write; a second unit
lets a sale leave a unit, another take its place and the first come back. A price
of 3, a fee of 1, a down payment of 0 or 1 and a total of 9 keep every sum the code
could confuse with another apart.

Two closings of one job with totals of 0 and 3, and two payments of one lease, are
the smallest overlaps, and no property there relates more than one job or lease.
Two administrators are what the last-administrator rule needs; a limit of two
wrong passwords, which two overlapping ones can miss, shows how increments are lost
as well as the real five does. A tag
named by an expense before its vehicle, by two vehicles and by an expense without a
row number, with a second run and a crash, covers the ways `stock_to_unit` can be
wrong. One save of the unit form, of a new vehicle or over a unit there is, is enough
to fall between a look-up and its insertion. In `backup`, weeks of two days and months of three meet in every way
within a cycle of six, and `late` lets a backup fall on either side of each
limit. Four samples, with pauses, a reboot and a clock set back, hold two outages and
what lies between them, or one that continues after a pause.

### Fairness

Two specifications state fairness; the others claim no liveness, since a handler
waits for nothing but its own form, and a system in which nobody clicks is fine.

- `HistoricalImport`: `WF(Start(i))` and `WF(Row(i))`. A process that is not
  stopped goes on, and the operator runs the importer again, which its
  documentation allows at any time (`import_historical_purchases.py:34`). Crashes
  and failed commits are bounded by `MaxTrouble`.
- `Backup`: `WF(due /\ Start)` (`rto-backup.timer` with `Persistent=true`),
  `WF(RunStep)` (`TimeoutStartSec` ends a run that hangs, which is `Stop`),
  `WF(Send)` (`OnSuccess`) and `WF(Midnight)`. What is an operator's choice, such as
  a backup by hand, is not fair. Failures are bounded by `MaxTrouble`, so
  `CopiedEveryNight` speaks of the nights after the last one.

Runs do not check for deadlock where the bounds end every behaviour and the users
may stop as well. `ArrivesOnce` and `KeepsReviewedLedger` are refinements: the
abstract specification is instantiated over the concrete state, in the first case
with its liveness.

### Where the code disagrees with its documents

`repairs_twice` is the run TLC finds violated: a closing submitted twice books its
revenue twice, while `repair_service.py:12` says it is created once. `findings`
quotes the line.

The models have further behaviours the documents rule out. No run is spent on
them, but each is seen by adding the property named, or by dropping the exception a
property makes:

- an edit that loaded the purchase before a review commits after it, and a reviewed
  purchase changes (`docs/business_rules.md:162`; `KeepsReviewedLedger` with two
  slots);
- a review locks what an edit wrote after the page was rendered
  (`purchase_service.py:45`; `ReviewedAsSeenOrLogged` without "logged");
- an imported vehicle, reopened and corrected, moves its unit's cost
  (`docs/business_rules.md:163`);
- parts with shipping are booked without it, and with it after any edit, which logs
  no event when nothing else changed (`models/purchase_event.py:10`);
- two sales of one unit created together both find it free, and a cancelled sale
  edited back joins the sale made meanwhile (`docs/business_rules.md:106`;
  `OneActiveSale` with two slots, or without `revived`);
- wrong passwords in flight together lose increments of the counter: with two
  requests, an account locks after up to fifteen, not five (`Guesses`);
- two commands that each take away one of the last two administrators leave none,
  and so may a command decided while its user was no administrator, when another
  has made the user one by the time it is saved (`AdminRemains` without `crowded`);
- an import that was interrupted leaves the expenses of a tag without their unit
  for good (`TagsLinked` without `Interrupted`), and of the rows without a number
  only the first is imported;
- one VIN spelled in two ways gets two units when the unit form saves one of them, or
  two processes enter them at once, as the look-ups ignore letter case and the unique
  constraint does not (`models/unit.py:15`; `SameVinSameUnit` without `typed`);
- a night whose copy off the server failed is not made up for: the next run sends
  only its own backup;
- the sale form makes a sale complete without a payment or a lease; cancelling a
  sale leaves the unit sold, and moving it leaves both units as they were; the
  invoice of a golf cart sold below its price and fees is created open; an invoice
  keeps its status when later payments settle it; a stock number links a general
  expense, or parts of another line, to a unit; a unit form opened before the
  enrichment and saved after it blanks what was filled.

Each property of a passing run has a mutant in `PROJECT.json`: a fault of the code
(the definitions commented "Fault") under which TLC finds it violated.

## 4. What is proved

Every property of the passing runs has a theorem for every value of the constants,
but for those listed at the end of this section. A theorem assumes only the named
assumption of the module it is about: forms carry values of the tables' types,
`Null` is none of them, keys of different kinds differ, bounds are natural numbers.
Where it needs more, this is said below.

Most invariants are not inductive by themselves, for one reason: a handler decides
from what it read and writes later. Each proof therefore adds a fact about the
requests in flight, that what they read still holds or how far it may have
changed, and that fact is where the reasons lie why the code works.

### Purchases and ReviewDesk (`Purchases_proofs`)

| Theorem | States |
|---|---|
| `TypeCorrect` | `Spec => []TypeOK`: columns and foreign keys, also of what sessions hold |
| `UnitsHaveOneCreator` | `Spec => []OneCreator` |
| `CostsFollowCreators` | `Spec => []CostFollowsCreator` |
| `LedgerFollowsPurchases` | `Spec => []LedgerFollows` |
| `VehiclesKeepTheirUnit` | `Spec => VehicleKeepsUnit` |
| `HistoriesAreComplete` | `Spec => []HistoryIsComplete` |
| `ReviewsFollowHistories` | `Spec => []ReviewFollowsHistory` |
| `OnlyStaleDecisionsBreakTheLedger` | every step is one of `ReviewedLedger` or commits an overtaken decision |
| `ReviewsAsSeenOrLogged` | `DeskSpec => ReviewedAsSeenOrLogged` |

`TypeOK` is inductive. Its lemmas follow the actions; `RowsGrow` carries the
foreign keys of the requests in flight over a step that only adds rows.

What an edit writes is decided from what it loaded, so nothing can be said of its
commit without a link between the two. The invariant `IInv` adds it:

- `OneAsync`: at most one create or edit is in flight (the event loop), hence no
  other edit can come between an edit's two steps;
- `EditsInStep`: what an edit in flight has loaded is still in the database, up to
  the other forms, and was allowed by `check_edit_allowed`;
- `CreatorsAreVehicles`: a purchase with `created_unit` is a vehicle's and has a
  unit, so the edit that moves a cost moves the cost of the unit created.

`InitIInv` and `NextIInv` are the induction; `InsertInStep`, `RecordInStep`,
`OtherEdits` and `EditSaved` are its main lemmas. `NextKeepsUnits` proves the
action property from the same invariant.

`OneCreator` speaks of VINs too. `VInv` adds what a creation in flight has looked up:
no unit the purchase form created has the VIN it is to enter, in any spelling
(`CreatesFresh`). That stays so because of `OneAsync`; the importer and the unit form
may come in between, but what they enter is set apart, and needs no more than the
unique constraint.

The history is about logs that only grow. `HInv` says of each purchase that its
saves follow one another up to its present figures (`Told`); that an edit logs the
very figures it found is again `EditsInStep`. `DInv` adds that a decision in flight
has loaded the reviewer that goes with the other status (`Expects`), so whichever
of two decisions commits last, status and reviewer are of one decision.

The handlers overlap, so `KeepsReviewedLedger` fails: a review can overtake an edit.
`OnlyStaleDecisionsBreakTheLedger` says that nothing else does. `BookOK` reads the
abstract ledger off the rows, and every step is a step of `ReviewedLedger` or a stutter
unless it ends a request whose check of the status no longer holds (`StaleDecision`,
`StillAsLoaded`). For the desk, `PInv` says that a
page still shows the figures of a purchase or the history has an edit since, and
carries this from the page to the click and from the click to the reviewer.

### Sales (`Sales_proofs`)

| Theorem | States |
|---|---|
| `SalesTyped` | `Spec => []TypeOK` |
| `SoldUnitsHaveBuyers` | `Spec => []SoldUnitHasBuyer` |
| `InvoicesSayWhatWasPaid` | `Spec => []PaidAsInvoiced` |
| `OnlyStaleRequestsSellTwice` | a step that breaks `OneActiveSale` commits a request that had read before another one wrote |

`SoldUnitHasBuyer` needs `BInv`: a unit nobody has set has a customer only if it is
sold (`UnsoldHasNoCustomer`), and so had every row a request has loaded
(`Loaded`, `RequestInStep`). That is why the columns of two sales mix well: where
one of them is not written because its loaded value was the same already, the unit
was sold to that customer. `StepBInv` is the induction step, from what a step does
to sales (`SalesStay`) and to units (`UnitsStay`); the lemmas before the theorem
establish those for each action.

`PaidAsInvoiced` follows from what a sale is until a form touches it (`AsMade`): its
invoice is the one made with it, and what the counter took (`CounterTook`) is all
that was paid on it: no payment or one, whose sums need no induction.

`OneActiveSale` fails when requests overlap: two sales created together both find the
unit free. `OnlyStaleRequestsSellTwice` says that there is no other way, revived sales
apart: a step after which it fails ends a request (`StaleCommit`) of which what it had
read no longer holds (`Fresh`), for any number of requests in flight.

### Receivables (`Receivables_proofs`)

| Theorem | States |
|---|---|
| `ReceivablesTyped` | `Spec => []TypeOK` |
| `ClosedJobsAreBilled` | `Spec => []BilledAsShown` |
| `ReceiptsTellEnough` | `Spec => []ReceiptsNeverUnderstate` |
| `ReceiptsAgreeWithPages` | `Spec => []ReceiptStatesBalance` |
| `MonthsAreEnough` | `Spec => []MonthsPayOff` |

They assume besides that there are finitely many payments: a sum is of a table.

`Received` adds up a set of payments as a recursive function over its subsets that
chooses which payment comes next. `SumExists` shows that there is such a function
and `AnyOrder` that the choice does not matter, by least counterexamples; hence
`ReceivedMore`: a payment more is its amount more. The proofs use only this and
its companions.

A job nobody has completed by a form has, once complete, an invoice for what it
says (`Billed`). Two closings overlap, and a column that does not change is not
written; `BillsOK` therefore says what of the row a closing has loaded is still
true (`StillTrue`): its type, a completion, a date, and the total unless another
closing has completed the job meanwhile.

For a lease, payments only ever lower the balance, so a receipt and the balance a
request has computed are at least what the pages compute (`NeverLess`); while no
two payments overlap the balance computed is exact, and so is one receipt
(`Exact`). `LeaseOK` joins the two. `MonthsCover` is the arithmetic of the months:
rounding first to payments and then to months comes out neither short nor long, and
where the doubles miss a quotient the months are those of a scheduled payment more.

### Accounts (`Accounts_proofs`)

From `AccountsConstantsOK`, which has finitely many users and slots:

| Theorem | States |
|---|---|
| `AccountsTyped` | `Spec => []TypeOK` |
| `SessionsEnd` | `Spec => []BumpsEndSessions` |
| `TemporaryPasswordsChange` | `Spec => []TemporaryMustChange` |
| `AnAdminRemains` | `Spec => AdminRemains` |
| `AccountsLockInTime` | `Spec => []LockedInTime` |

`TypeOK` is inductive. For the others, two more facts are needed of every request in
flight: `Decided`, that what it will save is what its kind makes of the row it read
(`NewRow`), and that what it read is still there. For sessions and temporary
passwords the latter is `InStep`, which speaks of users on whom no two such commands
overlapped; with `Counted` (versions count bumps) and `CookiesCounted` (a cookie's
version is that of the count at its sign-in) it makes `SInv`. For administrators it
is `AsRead`, while nothing has crossed a command that may take one away: such a
command has read the role and the state its user still has, and if it takes an
administrator away there is another. `CommitColumns` and `CommitAdmins` say what a
commit, which saves only the columns its request changed, does to the columns the
invariants relate; `BeginAccepts` and `SameAdmins` carry the rest.

`LockedInTime` needs to know how many wrong passwords can still be counted. A
request that commits sets the counter to what it read plus one, so what matters is
what each slot lacks of the last count that does not lock: what the counter lacks,
or what the request in the slot has read, if that is more. In ascending order these
are bounded by `d[1]`, ..., `d[Many]`, and `S[Many]` sums up the ways left
(`Counting`); `Bounded` says that this sum and the wrong passwords so far stay below
`Guesses`. A wrong password counted takes one off the first of the `d` that is as
large as its own and brings those before it to the same, which lowers the sum by
one at least (`CountingOne`, `BoundedCounts`); giving up a request, or beginning
another, does not raise it (`BoundedStays`), and a right password, a reset or a lock
begins anew (`BoundedAnew`). The sums are of binomial coefficients, so Pascal's rule
is proved of the library's `choose` (`Factorial`, `Pascal`).

### HistoricalImport (`HistoricalImport_proofs`)

For every file, any number of runs that overlap, fail and crash, and any saves of the
unit form meanwhile:

| Theorem | States |
|---|---|
| `TypeCorrect` | `Spec => []TypeOK` |
| `OneUnitPerVin` | `Spec => []SameVinSameUnit` |
| `EnteredOnce` | `Spec => Promise!Safety`: each step enters a free reference, or stutters |
| `ExpensesFindTheirVehicle` | `Spec => []TagsLinked` |
| `RunsDoAsForetold` | `Spec => []DryRunForetells` |

`IInv` has no two units of one VIN in one spelling (`UnitsGood`), purchases on units
there are (`PurchasesGood`), and runs whose decision in flight names one or the one it
brings (`RunsGood`, `PlanOK`). `VInv` is about VINs however they are spelled: a purchase
is on a unit of its VIN unless the form changed that (`Filed`), a run that goes to a
unit knows it for the row's (`RunFiled`), and until two runs overlap, one that is to
bring a unit found none (`RunFresh`) and what the form has not touched has each VIN
once (`Singly`).

`TagsLinked` follows the one run that a history without interruption has. `Smooth`
splits that history in three: nothing entered yet (`Untouched`), the first run on
its way (`OnFirst`), everything entered (`Complete`). On its way the run has entered
exactly the lines it has behind it (`Seen`), and remembers for each tag the last
vehicle among them (`Remembers`), which is what an expense is linked to once all
the vehicles are behind. That a stock tag is no VIN is part of `FileOK`.

`DryRunForetells` is an induction along the file (`Foreseen`): a run nothing has
disturbed runs alone, and has made of tables and memory what the dry run has before
the line the run is at (`Follows`). It started where each VIN had one unit (`Sure`), so
each look-up has one result (`OneFound`). `DryRun` is a recursive function over the lines
in the importer's order; that there is one (`ForeseesExists`) is shown by giving
each line a place (`Place`) and taking the first place the function would not
reach. `DryLines` then unfolds it line by line.

### Enrichment (`Enrichment_proofs`)

| Theorem | States |
|---|---|
| `TypeCorrect` | `Spec => []TypeOK` |
| `TypedIsNotOverwritten` | `Spec => []TypedStays` |
| `FilledFromItsNotes` | `Spec => []FromItsNotes` |
| `ModelsFollowMakes` | `Spec => []ModelFollowsMake` |

`EInv` says of a run in flight that the units not saved since are as it loaded them
and that it took one purchase of each (`RunGood`), and that a saved unit is a typed
one (`RacedSaved`). `ModelsFollowMakes` speaks of notes of any length: the loop over
repeated makes and colors stops (`FollowerStops`) at the first token that is
neither, and the make is the first there is (`MakeIsFirst`).

### Backup (`Backup_proofs`)

From `BackupOK` and `RetentionOK`, for any number of documents, any calendar and
any retention:

| Theorem | States |
|---|---|
| `BackupTyped` | `Spec => []TypeOK` |
| `BackupsAreWhole` | `Spec => []EveryRowHasItsFile` |
| `UploadsDoNotSpoil` | `Spec => []RefusesOnlyMigrations` |
| `OwedBackupsStay` | `Spec => []KeepsWhatIsOwed` |

`TypeOK` says that after pruning today's backup is still there; it is inductive with
`NoneAhead`, that no backup is newer than today, hence today's is the newest, which
pruning keeps (`PruningKeepsNewest`). The next two need `BInv`: a document has its
whole file before its row (`FileBeforeRow`), so that an archive written after the
dump has every file the dump asks for, and the counts taken around the dump bound
what it holds, since rows are only added (`RunInStep`).

`OwedBackupsStay` is inductive with `Shelved` (what is there has been made). The
oldest backup of a period stays the oldest as nights pass, and renumbering the days
by a whole cycle of the calendar moves weeks to weeks and months to months
(`PeriodOf` and the lemmas after it); days moved to the edge of the window lie
before every period something is owed from, since `Horizon` covers the longest
retention.

### Netcheck (`Netcheck_proofs`)

From `NetcheckOK`, which has finitely many checks:

| Theorem | States |
|---|---|
| `TypeCorrect` | `Spec => []TypeOK` |
| `StretchesAreReported` | `Spec => []ReportsStretches` |
| `EventsAgreeWithReport` | `Spec => []EventsAgree` |

`IInv` says what the files and the memory of the logger have to do with each other:
every sample is of a life of the logger up to the present one (`InOrder`), and its time
may be any; what
`since` and `outage` hold is a stretch of the samples that goes on up to the last
one judged (`Noted`, `Gathered`), which is one behind while the iteration is under
way (`Checked`, `Judged`); and every event in the files has its samples
(`RecoveryOK`, `EndingOK`), which later samples do not change (`LoggedKept`).

The report is about one state, but samples of any number. The analysis is
proved for any log, and the report reads one: `Chronological` is as long as the samples,
and a stretch of them that the clock left in its place (`Kept`) lies there as it was
taken (`ChronologicalIs`), whatever the sort makes of the others. That goes by what one
insertion does (`InsertedIs`, `SortStep`, `SortedUp`). `ScanExists` shows that
the recursive function of `Analyze` exists and `ScansOK` what it holds after each
sample (`ScanOK`): all the longest stretches that have ended, and the one that may
go on. Both go by the least sample at which they would fail. `ScanStep` is one
sample more; it rests on a stretch having one leftmost beginning (`LeftUnique`) and
on what a sample does to the longest stretches (`MaximalBefore`).

`OutagesReported` then takes an outage of the events that is in place, extends it to
the left as far as nothing went unobserved, and finds that stretch in the report.

### Only model-checked

- `KeepsReviewedLedger` and `OneActiveSale` with one request at a time. The web server
  has a thread pool, so this is no assumption a theorem should make: the theorems say
  instead, for any number of requests, which step alone can break them.
- The liveness of `ArrivesOnce` (that every row arrives) and `CopiedEveryNight`:
  liveness under fairness is out of the prover's reach.

## 5. Plan

Done: the models; the proofs of every property but those above.

Next, of the code: exception records and their audit history, receipts of purchases and the review lock they bypass, one active lease per unit.

## 6. Not modelled

`PROJECT.json` lists every component with its status.

- The dashboard aggregates what the other modules keep; exception records are
  status and notes of their own, with no effect on the rest.
- Customers and vendors are plain forms over rows that nothing decides on.
- The origin check, configuration and templates keep no state. Development scripts
  and migrations run once, offline.
- Line items of invoices, simple receipts of other income and sending by mail are
  output.
- Receipts of purchases, the listing and download of documents.
- Of the backup: free disk space, `.partial_*` leftovers. Of the
  network check: the probes and the wording of the report. Of the import: amounts,
  warnings, the summary and the failure file.
