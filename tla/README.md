# posd in TLA+

posd is a Django point-of-sale and ERP application: several businesses, each
with branches, stock, cash drawers, sales, purchases, a general ledger and HR.
It runs as several web workers over one PostgreSQL database at READ COMMITTED
(`pos_system/settings_production.py`; no `ATOMIC_REQUESTS`), with worker
processes started by management commands. What is hard about it is therefore
what several transactions do to the same rows, what happens when one of them is
rolled back or its process dies, and what a handler still believes after
another one has committed. This directory models those parts, checks them with
TLC and proves what it can of all twelve of them with TLAPS.

Contents: [inventory](#inventory), [plan](#plan), [the modules](#the-modules),
[runs and bounds](#runs-and-bounds), [fairness](#fairness), [proofs](#proofs),
[what the code does not do](#what-the-code-does-not-do),
[limits](#what-is-not-modelled).

## Inventory

| Component | Source | State it keeps | Operations | What makes it correct |
|---|---|---|---|---|
| Branch stock engine | `pos/models.py` 5599-5857, `pos/branch_services.py` 238-294 | `BranchStock` rows, `Product.stock_quantity`, `StockMovement` | `receive`, `deduct`; sale, adjust, direct transfer | no update lost; movements explain stock; aggregate is the sum; lock waits end; sorted handlers never deadlock among themselves |
| Distribution | `pos/branch_services.py` 177-871 | requisitions, transfer requests, dispatches and their items | create, approve, reject, dispatch, confirm receipt, resolve | goods leave once, only approved; receipts agree with stock; shortfalls are flagged |
| Background jobs | `core/jobs/queue.py`, `core/views/jobs.py`, `run_jobs` | `Job` rows, a worker's copy | enqueue, claim, execute, retry | one worker per job; attempts bounded; every job settles |
| Event outbox | `core/events/bus.py`, `core/views/events.py`, `dispatch_events` | `OutboxEvent`, `EventDelivery`, a dispatcher's batch | publish, dispatch, retry | delivered to every subscriber or given up; one dispatcher per event |
| Document numbering | `core/numbering/service.py`, `save` methods | `DocumentSequence` rows | next number; fallback | no number twice, none skipped |
| Stock ledger, valuation | `inventory/services/` | `StockLedgerEntry`, `ValuationLayer`, documents | post, reverse, adjust, transfer, reconcile | balances chain; no double posting; FIFO layers equal the balance |
| POS inventory adapter | `pos/services/pos_inventory_adapter.py` | none of its own | sale, return, receipt to ledger | POS stock and ledger stay together, also when posting fails |
| Approval workflows | `core/workflows/engine.py` | `ApprovalRequest`, steps, actions | submit, approve, reject, delegate | each step approved once, in order; every request can end |
| Offline sales | `pos/terminal_sync_service.py`, `pos/sync_views.py`, `static/**/offline-*.js`, `sync-manager.js` | a device's outbox, sales | sell offline, send, process_sync, acknowledge, forget | recorded once however often it is sent; never lost; arrives although others fail |
| Request idempotency | `pos/idempotency.py` | `IdempotencyKey` | check_and_create, mark, clean up | an operation runs once per key |
| Event log upload | `events/`, `sync/` | `EventLog`, `SyncStatus` | record, upload, resolve conflicts | every event is uploaded |
| Checkout | `pos/views.py` 2866-3191 | sale, items, payments, customer | complete_sale, returns, held orders | stock, credit limit and points hold under concurrent sales |
| Sales orders | `pos/sales_order_services.py` | orders, delivery notes | confirm, create note, dispatch, complete | delivered at most what was ordered, deducted once |
| Purchasing | `pos/models.py` 1568-1845, 3053-3335 | purchases, received and returned notes | receive, return | received once; balances follow |
| Supplier accounts | `pos/supplier_ap_services.py` | invoices, payments, credits, allocations | pay, allocate, refund | allocations within amounts; statuses tell the balances |
| Cash drawer | `pos/zreport_service.py`, `cash_*_services.py` | shifts, sessions, floats, pickups, paid-outs, Z reports | open, close, pick up, pay out, reconcile | expected cash equals what happened in the shift |
| Till assignment | `pos/cashier_assignment_service.py` | assignments, transfer requests | assign, transfer, release | one till per cashier and one cashier per till |
| Banking | `pos/banking_services.py` | records, statement lines, matches | import, match, unmatch | matched at most once |
| General ledger | `accounting/services.py` | journals, periods | post, reverse, close | balanced, in an open period, posted once per key |
| HR | `hr/services.py` | leave, attendance, payroll | approve, run | balances and runs consistent |
| Backup, restore | `backup/`, `restore/` | snapshots, files | snapshot, upload, restore | mostly I/O |
| Support | settings, scoping, registry, permissions, audit, notifications, webhooks, e-mail | configuration and logs | filters, look-ups, appends | covered well by the tests |

The first five rows, the ledger, the adapter's receipts, approvals of purchases,
offline sales, checkout, purchasing, supplier accounts and the drawer are modelled; `PROJECT.json`
says of every component how far, and why not.

How they interact. Handlers call services directly, in one transaction as a
rule: a sale calls the branch stock engine, the numbering service, and
`publish`, which inserts an event in the sale's own transaction. Distribution
calls the stock engine for every line of a document. The outbox and the job
queue are read by processes of their own, which share nothing with the web
workers but the rows. A terminal or a front office without a connection keeps its
sales in the browser and sends them, if need be again, when there is one. The admin pages act on rows that have changed since
the page was rendered. A purchase is approved by the workflow engine, received
into the products' stock and posted to the stock ledger by a signal; it then is a
bill of its supplier. A sale belongs to a shift, whose Z report counts it.

Two styles of code need two kinds of care. Services that lock a row and look at
it again (the stock engine, distribution, `process_approval`, `mark_as_received`,
`close_session`, the second stock check of a sale) are one transaction each, and
the question is what they do not lock. Views without a transaction read a row,
decide, and save the whole copy later; the question is who saved it in between.

The hazards this leads to are listed, each at its line, in `PROJECT.json`
("hazards"), with the properties that cover them, or the reason why none does.

## Plan

The order is by what the business would miss most.

1. *Done*: `StockAccount` (abstract), `BranchStock`, `Distribution`, `JobQueue`,
   `EventBus`, `DocumentNumbering`, the last five with proofs.
2. *Done*: `StockLedger` (ledger, adjustments, warehouse transfers, deliveries and
   the adapter's receipts), `PurchaseApproval`, `Till`, `OfflineSales`, `Purchasing` and
   `Payables`, `Checkout`, all with proofs. Every invariant that a run checks is a theorem.
3. *Components left*: `SalesOrders` (draft notes, double dispatch), `EventUpload`, cashier assignment, the moving average cost of `receive` as a
   function against a reference, journals and bank matches.

Abstract specifications: the append-only account (done); "a document goes through its life cycle once" for
transfers, orders and notes.

## The modules

A component's module holds its constants with their assumptions, its state, its
actions and its properties; `MC...` gives the constants their values for TLC;
`...Proofs` holds the theorems. `PlatformProofs` has those of the four services of
`core/`, `JobQueue`, `EventBus`, `DocumentNumbering` and `PurchaseApproval`, and
`ProcurementProofs` those of `Purchasing` and `Payables`, `TillProofs` those of `Till` and
`Checkout`; the names in these modules therefore say whose they are (`JobNext`,
`EventNext`, `ApprovalNext`, `PayablesNext`, `CheckoutNext`).
`SumLemmas` holds what all of them use about finite sets and sums. History variables never guard an action, except
where a bound limits how many such cases a run has.

### StockAccount, BranchStock, BranchStockProofs

`StockAccount` is what the stock engine promises: an account per branch and
product, whose quantity and ledger change together, by appending a chain of
movements (each `balance` is the one before plus its `delta`). It has no
transactions and no locks.

`BranchStock` is `BranchStock.receive` and `deduct` (models.py 5632-5779)
statement by statement, inside the transaction of the request that calls them.
`LockAndApply` is the `SELECT .. FOR UPDATE`, the computation and the row's
`UPDATE`, `ReadTotal` is the `aggregate(Sum)`, `WriteProduct` the
`Product.objects.filter().update()` and the insertion of the movement; `Commit`,
`Rollback` (an exception anywhere, or the death of the process) and
`DeadlockVictim` end the transaction. A statement sees committed rows and its
transaction's own (`View`), and row locks are held to the end. A request is a
handler, its document if it has one, and its calls; `Programs` says what the
handler locks around the calls, and in which order it makes them:

| Handler | Its statements |
|---|---|
| `sale` | `FOR UPDATE` of all its products in the order of their names (`views.py` 3032-3037, `Product.Meta.ordering`), then a call per line (3080) |
| `synced` | per line the product (`sync_views.py` 357-384), then its call |
| `device` | per line the insertion of the `SaleItem`, which refers to the product, then its call (`terminal_sync_service.py` 141-187) |
| `transfer` | the same with the `StockTransfer`, out and in (`branch_services.py` 261-294, 914-928) |
| `dispatch` | the document (574-578), then its calls sorted by product id (618) |
| `receipt` | the shipment (692), its calls sorted (700), the document (756, 772) |
| `resolution` | the document (800-850), then a call |

`LockProduct`, `ReferToProduct` and `LockPaper` are the locks that are not part of
a call. An insertion that refers to a product locks its row `FOR KEY SHARE`, which
excludes `FOR UPDATE` and nothing else. `LockPaper` looks at the document's status,
so a document is dispatched once, and received only thereafter (`sent`). The
handlers that sort work on the stock of one branch.

| Variable | Code |
|---|---|
| `stock`, `agg`, `ledger` | committed `BranchStock.quantity`, `Product.stock_quantity`, `StockMovement` rows |
| `rowLock`, `prodLock`, `paperLock` | holders of the row locks of stock, products and documents or shipments |
| `sent` | the documents that have been dispatched |
| `asked`, `prog`, `pos`, `phase`, `total` | the request, its statements and where it is; the sum it has read |
| `moves`, `aggWrite` | its uncommitted writes |

`ImplementsAccount` is the refinement: under the identity mapping of `stock`
and `ledger`, every behaviour of `BranchStock` is one of `StockAccount`.

Locks it leaves out: the unique number of a dispatch (`models.py` 6189-6197), for which
a dispatch waits before it has touched a stock row; the item rows of a document or
shipment, which only the handlers change that hold it; the `StockTransfer` row, which only
the request that made it knows; the invoice sequence (`DocumentNumbering`); the
creation of a missing `BranchStock` row; and the upload of a stock list (`views.py`
1427-1561), which is a handler of its own that sorts nothing.
`BranchStockService.adjust` has no caller.

### Distribution, DistributionProofs

`DistributionService` for requisitions (served by HQ) and transfers between
branches. A handler holds its document's row for the whole of its transaction,
so it is one action (`CreateRequisition`, `CreateTransfer`, `Approve`, `Reject`,
`ConfirmReceipt`, `Resolve`). `dispatch` is not: it reads the available stock of
each line without a lock, and sales, purchases and other dispatches commit in
between, so it is `BeginDispatch`, one `CheckLine` per line in product order,
then `FinishDispatch` or `AbortDispatch`. That its source and destination differ
is the guard of `Dispatch.clean`, which `Dispatch.save` calls (`models.py` 6178-6189). The state is the documents with their
lines, the shipments with their items, the dispatches under way, the stock, and
the ledger as a sum per movement type. Deductions and receipts are single
additions here because `BranchStock` shows that the engine never loses one.
`Move` books a list of lines at once; the movements of lines already deducted
are invisible until the commit, so nothing can tell.

Inputs are those the forms can send: quantities up to what the line has, at most
`MaxQty`. The receipt of a line is at most what was sent
(`dispatch_detail.html` 123); the REST endpoint bypasses that and is not
modelled.

### JobQueue, PlatformProofs

`enqueue` is two actions, `CheckKey` and `Insert`: nothing holds the key in
between. `Claim` is the one transaction of `claim_next_job`. `Succeed` and
`Fail` end `execute_job`, which runs in no transaction and saves *every* column
of the copy it claimed (`job.save()`), so `Save` writes the copy's attempts,
too. `Die` is the death of the worker's process: its job stays `running`, and no
code looks for such jobs. A failed job shows a Retry button
(`job_list.html` 99), and a page stays open while the job moves on; `Retry` is
what `JobRetryView.post` does, which reads no status. `forced` remembers the
jobs retried when they were not failed (any more).

### EventBus, PlatformProofs

`Publish`, `Commit` and `Rollback` are a publisher's transaction. `ClaimBatch`
(of the first `Batch` events that wait, in order) is the locking transaction of `dispatch_pending_events`, `Handle` one
subscriber's call with its `EventDelivery`, `Settle` the save of the outcome,
which saves the status but not the attempts; `Die` and `Retry` as above. An
event that has no subscriber is dispatched by `Settle` right away (`Handlers =
<<>>`). Deliveries are kept as the set of subscribers that have succeeded.

### DocumentNumbering, PlatformProofs

`next_document_number` inside the transaction that inserts the document:
`LockRow`, or `FindNoRow` followed by `CreateRow` or `CreationFails`; then
`InsertDocument`, which waits while another transaction has inserted the same
number, or `Collide`, which fails on the unique constraint; then `Commit`.
`Rollback` may happen at any point and undoes the increment. `Fallback` is the
legacy numbering of `Sale.save` and `Purchase.save`. `Rivals` are the rows that
the unique constraint compares with a new one: none when the branch is NULL.
`BranchInPattern` and `HasFallback` select the kind of document: sales and
purchases print no branch and have the fallback; adjustments and warehouse
transfers print the branch and have none.

### StockLedger, StockLedgerProofs

The second stock system of the application: `StockLedgerEntry` rows of an
account (warehouse and product), each with the balance after it.
`post_stock_movement` is `Select` (the `SELECT .. FOR UPDATE` of the newest
entry, which chooses its row when the statement begins) and `PostEntry` (the
lock is granted, the balance checked, the entry inserted), or `Reject` and
`Fault`. Who waits for the lock goes on with the entry it chose, since entries
are never updated, and misses what the holder has inserted.

A session is one request in one transaction, with a document's lines:

| Order | Code | When a line fails |
|---|---|---|
| `transfer` | `stock_transfer_service.py` 28-100 | everything is rolled back |
| `adjustment` | `Count`, then `stock_adjustment_service.py` 88-150 | rolled back; the status is written last |
| `delivery` | the movements of `sales_order_services.py` 180-230 | logged, and the next line is posted |
| `receipt`, `resave` | `sync_purchase_receipt`, called from `Purchase.save` | logged, and the lines after it are left out |

`Raise` holds that difference. `Commit`, `Die` and `DeadlockVictim` end a
transaction; `held` are the ledger rows it has locked, `HoldsProduct` the product
rows that deliveries and receipts lock besides. `ReceiptLines` is the adapter's
test whether the purchase has entries already. `raced` remembers the accounts on
which two transactions met, `twice` the documents that two requests posted at one
time: for those the code promises more than it does.

### Purchasing, ProcurementProofs

One approved order, its lines, the goods received note, two goods returned notes
and the products. Every statement outside a transaction is an action: `Read` and
`SaveOrder` (send, close), `ReadReceipt` (the view compares with what it has
read), `LockOrder` and `PostReceipt` (`mark_as_received`: the lines in order, a
refused one ends the loop), then `ClearNote`, `ListLines`, `WriteNote` (the note
is rebuilt outside the transaction), `ReadReturn` and `SaveReturn`.
`CreateReturn` and `CancelReturn` are one transaction each, which lock what they
decide on. `Sell` is what else moves the stock. `Die` may strike anywhere.

`work` holds the copies a request has read; `overwritten` is the history of rows
saved from a copy that was out of date, `torn` says that the last rebuild of the
note was disturbed. Properties except the rows in them, and only those.

### PurchaseApproval, PlatformProofs

The order's way from draft to sent and the engine's requests for it. `Read`,
`Submit`, `FindRequest` and `SaveOrder` are the statements of the views
(`purchase_submit`, `purchase_approve`, `purchase_send_to_supplier`), `OpenInbox` is the
inbox, `LockRequest` and `Decide` are `process_approval` with the request's row
locked from one to the other. `SavesOrder` is what `purchase_approve` makes of
the engine's answer, which includes approving the order when the engine raised.
`log` are the `ApprovalAction` rows. `final` remembers the requests whose last
step was signed on the order's page, `bypassed` that a view approved the order
without completing a request, `broken` that a view died or saved an old copy.

### Payables, ProcurementProofs

One supplier's bills (invoices, and received purchases without one), payments,
credits. A payment is `Begin`, `ChooseSequence`, `CreatePayment` (inserted with its
number, whose sequence row it holds until it commits), `Allocate` and, for an invoice,
`Assess` and `Mark` per bill (`recalculate_status`: it sums, then its `UPDATE`
waits for another writer of the row), `CommitPayment`. A reversal lists, deletes,
reopens and commits; an application or a refund of a credit reads the credit in
the view, checks, totals and marks it. A transaction sees what is committed and
what it wrote (`SeenPaid`, `SeenCredited`).

No bill is locked before its balance is decided on. What may keep two payments
apart is the row their numbers come from. `ChooseSequence` is `next_document_number`
for a payment or a refund: it locks the first row of the year of the *entered* date
(`models.py` 2076-2080, `numbering/service.py` 54-69), or finds none and inserts one
which nobody else sees before the commit (`Fresh`), so that there may be two, since
a `NULL` branch is not unique; or both fail, and the number follows the last one
without a lock (2086-2098, `numbered = {}`). So two payments lock one row only if
their dates are of one year, the row was there and neither fell back. `crossed` are
the bills and credits on which two transactions met that lock no row in common; the
properties except those and no others. `RowId` bounds the rows of a year: one for
each connection is enough, since only those at work at one time can each insert one.

That payment numbers are unique makes some overlapping payments of one day fail
(`payment_number`, as two rows or the fallback may print the same): the model lets
all of them succeed, so it has more behaviours than the code. Payments of
different years have different numbers, and both succeed.

### Till, TillProofs

Shifts of cashiers: `AskOpen`, `NumberShift`, `InsertShift`; `AskSale` finds the
open shift before the sale's transaction, and `CommitSale` never looks again;
`AskSlip` and `CommitSlip` are pickups and paid-outs, `AskHandle` and `SaveSlip`
what is done to a slip later, saved from the copy. `close_session` is one
transaction: `LockShift`, `Count`, `ReadLastReport`, `LockLastReport`,
`InsertReport`, `Seal`. `Count` remembers the sales and slips it sums, so that a sum
is written down once, in `Expected`. The foreign key of a sale or slip waits for the shift's
row while it is locked, which is what makes counting and sealing agree.
`late` are the sales and slips booked on a shift closed by then, `undone` the
slips that were reversed.

### Checkout, TillProofs

`complete_sale` in a shop without branches: `AskCustomer` reads the customer,
`PriceBasket` decides on the promotion, `LockProducts` locks the products and
checks them again, `Number` waits for the invoice sequence, `CompleteSale` does the
rest: deducts line by line (`Deducted`), counts the promotion, saves the customer's whole row
from the copy. A customer's payment is `AskPayment`, `InsertPayment`,
`SaveBalance`, without a transaction. `RefuseSale` is an error that the handler
answers, `Die` an exception elsewhere or the death of the process: a sale is rolled
back, a payment that was inserted stays. `crossed` are the customers with whom two
requests dealt at one time, `torn` those whose payment died between its two writes.
A `fixed` promotion takes at most what the basket is worth (`promotion_service.py`
103); the free units of a `buy_x_get_y` one (110-132), and redeemed points, may be worth
more, and then `Charge` is negative. What a branch's sale does to the stock is a request
of `BranchStock`, its number a document of `DocumentNumbering`, its shift `Till`.

### OfflineSales, OfflineSalesProofs

Two pairs of a device and a handler: a terminal (`offline-terminal-sync.js`) and
`TerminalSyncService.process_sync`, the front office (`offline-db.js`,
`sync-manager.js`) and `sync_offline_sales_view`. They have the same protocol, so
one module holds both, and says where they differ.

| Step | Code |
|---|---|
| `MakeSale`, `Send`, `Forget` | `recordSaleLocally`, `savePendingSale`; the request with all that is pending; what the answer names is deleted, by the terminal at once, by the office one by one |
| `NoAnswer`, `Break` | `fetch` throws; the connection breaks, or the page is loaded again, while the server goes on |
| `LookUp` | the look-up by `idempotency_key`, outside the sale's transaction and without a lock |
| `Number` | terminal: `Sale.save` takes the next of the sequence and keeps its row locked; office: `count() + 1` |
| `Insert` | the unique constraints on key and number, which wait for whoever has inserted the same |
| `LockFirst`, `Deduct` | a line's two locks: branch stock, then product on a terminal; the other order in the office |
| `Pay`, `Commit`, `CommitFails` | the payments; the acknowledgement is written down before the commit |
| `Answer`, `Die` | the answer reaches the page that still waits for it; the worker dies |
| `DeadlockVictim` | PostgreSQL raises in one of the waiting: the sale fails, but the office swallows it if it was deducting (`except: pass`) and books the rest |

`outbox`, `pages` and `work` are the stores, requests and transactions; `sales`
the rows, with the lines that were taken from the branch's stock; `issued` the
sequence. `made` (sales that were made) and `torn` (those whose commit failed after
the acknowledgement) are history. All is of one branch and one day, since that is
how far numbers can collide. The sequence is the row of `DocumentNumbering`, and a
line's deduction the call of `BranchStock`; what they do inside is proved there.

## Runs and bounds

| Run | Properties | Bounds, and why they are enough |
|---|---|---|
| `branch_stock` | `LedgerExplainsStock`, `NoWaitCycle` (of dispatches and receipts), `ImplementsAccount` (refinement), `EveryTxEnds` | two requests out of sales of every kind with one line and two, direct transfers both ways, dispatches and receipts of two lines and a resolution; two branches, two products whose names and ids are in opposite order, three documents: every pair of lock orders, with the deadlock and its victim |
| `two_documents` | `LedgerMatchesStock`, `ParentFollowsShipment`, `ReceiptsMatchLedger`, `SentForGood` | two documents of one product, quantities to 2, two receipts of a shipment: partial and repeated receipts, two dispatches competing for the stock |
| `job_queue` | `OneWorkerPerJob`, `JobCopyIsCurrent`, `CompletedForGood`, `EveryJobSettles` | two jobs, two workers, two attempts, two retries (the second one can be stale) |
| `event_bus` | `OneDispatcherPerEvent`, `DispatchedMeansDelivered`, `EveryEventSettles` | two events, two dispatchers, batches of two, two subscribers, two attempts, one retry (failed events are claimed again, so one is enough to be stale) |
| `numbering` | `NoCollisionInRow`, `NumbersWithoutGap`, `EveryDocumentEnds` | three documents, of a branch with a row, a branch without, or no branch |
| `stock_ledger` | `ChainedWhenAlone`, `OnHandNotNegative`, `TransferWhole`, `CountTakesEffect`, `ReceiptIsPrefix`, `EverySessionEnds` | three accounts of two products, three requests of which `MaxRunning` = 2 at a time: transfers both ways (deadlock), deliveries that run out at either line, a count with two posters, a purchase received and saved again |
| `purchasing` | `WithinOrder`, `StockAccounted`, `ReturnsWithinReceipt`, `ReceiptNoteCurrent` | an order of 1 + 2 units of one product on two lines, deliveries with and without damage, two returned notes, one unit sold, two requests; one save from an old copy (`MaxOverwritten`): later damage is excepted, so one shows what it may spoil |
| `approval` | `SignedStepByStep`, `OrderMatchesRequests` | two steps, two users of whom one may sign both, two requests of the engine, two sessions: a step signed twice, a rejection that races a signature, a second submission |
| `payables` | `WithinAmounts`, `BalancesTold` | an invoice of 2 and a purchase of 1, two payments (by hand, or first due first), dated in two years of which the first has sequence rows, a credit of 1, two sessions: two payments that share a row, and two that do not since the year differs, the row is new or was passed over. No entry exceeds its payment by hand: that rollback is left to `Abort` and to the proof; `MaxCrossed` = 1 balance on which transactions meet that no row keeps apart: what happens to it later is excepted, so one shows what it may spoil elsewhere |
| `till` | `ReportTrue`, `ReportsNumbered` | three requests, two cashiers, two shifts, two sales, a slip: two closes at once beside a sale, a slip, or an opening |
| `checkout` | `StockSold`, `PromotionUses`, `CustomerKept` | two requests, seven baskets, two products, one customer, a promotion of one use, three sales, two payments: enough sales to exhaust the stock, the credit limit and the promotion, and one each in which points and a promotion (buy one, get two) exceed the basket |
| `offline_sales` | `RecordedOnce`, `NothingLost`, `EverySaleArrives` | a terminal and an office, two sales each, one of two lines and one that the office can never book, two workers: both lock orders and the deadlock, a request sent again while the first still runs, a batch with a sale that always fails before one that may succeed; `MaxFaults` = 1 death, lost answer or failed commit. With 2 the run passes, too, but takes too long to repeat (973 081 states) |

Bounds in guards: `MaxQty`, `MaxTraded`, `MaxMoved`, `MaxReceipts`
(`Distribution`), `MaxJobs`, `MaxEvents`, `MaxRetries`, `MaxRunning`, `MaxSold`,
`MaxOverwritten`, `MaxRequests`, `MaxCrossed`, `MaxSales`, `MaxPaid`, `MaxFaults`, and the sets `Year` and `RowId` of `Payables`. They
cap how much happens, never what a step may do. Transactions of `BranchStock`,
`DocumentNumbering` and `StockLedger` are used up: each handles one request, and
`OfflineSales` is done when all its sales are made and sent. That is why the runs switch off the deadlock check: when all are done the system
stops, and the bounded modules stop at their bounds. Symmetry is used only in runs
without liveness properties.

The invariants exclude nothing silently. `OneWorkerPerJob`, `JobCopyIsCurrent`,
`CompletedForGood`, and `OneDispatcherPerEvent`, leave out what an
admin forced from a stale page; `EveryJobSettles` and `EveryEventSettles` leave out
rows whose process died; `LedgerMatchesStock` leaves out transit write-offs;
`EverySaleArrives` leaves out what its comment names; and the later modules leave out exactly the rows of the history variables above.
Each exception was put there because TLC showed the property false without it.

## Fairness

- `BranchStock`, `DocumentNumbering`, `StockLedger`: weak fairness of each
  transaction's own steps. A process that runs executes its next statement unless
  it waits for a lock, and PostgreSQL's lock manager hands a lock on.
  `DeadlockVictim` is fair because `deadlock_timeout` is. Nobody has to begin, die
  or roll back.
- `JobQueue`, `EventBus`: weak fairness of claiming and of finishing, for each
  process: `run_jobs` and `dispatch_events` poll for ever with `--daemon`,
  tasks and handlers return or raise, and a supervisor starts a process again
  that died. The backoff of a job runs out. Nobody has to enqueue, publish, die
  or press Retry. Priorities do not starve a job in the model because
  `MaxJobs` bounds the jobs that can overtake it; in the code, a
  stream of urgent jobs that never ends starves the others.
- `OfflineSales`: weak fairness of each page, which sends on a timer and uses the
  answers it gets; strong fairness of each worker's steps, since a row it waits for
  may be taken and given back any number of times, but PostgreSQL queues those who
  wait; weak fairness of `DeadlockVictim`. Nobody has to sell, and no fault has to
  happen. Deadlocks that go on for ever are excepted in the property: a sale that
  always fails comes back with every batch, and whom PostgreSQL picks is open.
- The others have no liveness property: every step is a person's decision, or
  belongs to a request that a person can repeat.

## Proofs

`BranchStockProofs` proves, for all branches, products, transactions and
requests, under the assumptions on the constants that `BranchStock` names
(the opening quantities are integers, requests are sequences of calls, product
ids are numbers, `Free` is no transaction; for the lock order, that a handler that sorts its
lines works on one branch and has a document, that there are finitely many products,
and that ids of different products differ):

- `TypeCorrect`: `Spec => []TypeOK`.
- `InvariantHolds`: `Spec => []IInv`. `LedgerExplainsStock` is not inductive by
  itself: a commit appends what the transaction has pending, and nothing in it
  says that this chains from the committed quantity. `PendingHeld` does: pending
  movements belong to the holder of the row, so nobody else has committed to it
  since, and they chain from its quantity.
- `LedgerExact`: `Spec => []LedgerExplainsStock`.
- `Implementation`: `Spec => Account!Spec`, by mapping a commit to `Post` on the
  accounts it moved, and all else to a stutter.
- `SortedLockingHasNoDeadlock`: `Spec => []NoWaitCycle`, for dispatches and receipts
  among themselves and no other handlers. By `LocksAreTheCalls` (`Spec => []LockInv`) a
  transaction holds exactly the rows of the statements it has executed. Each member of
  a circle is given a height: least at its first paper, then by the product of the call it
  is in (and whether it is at the stock row or the product), greatest where a receipt comes
  to its document. Who waits for another stands lower than that one, since calls ascend
  (`CallingUphill`), but a circle has a highest member (`GreatestRank` of `SumLemmas`).
  A receipt at its document waits for nobody of the circle (`NobodyLeaves`): whoever
  holds the document is a dispatch of it, and a document is not dispatched and
  received at one time (`SentInTime`), or is at its own end. The statement does not
  hold with a sale in the circle (see [below](#what-the-code-does-not-do)).

The lemmas on `Chain` and `Balance` (appending one movement, concatenating two
chains) are proved by arithmetic on sequences, not by induction.

`DistributionProofs` proves, for all branches, products, document ids and
bounds, from the assumptions that `Distribution` names:

- `TypeCorrect`, `StockExplained`: `Spec => []LedgerMatchesStock`, and
  `ParentTellsShipment`: `Spec => []ParentFollowsShipment`. The strengthening is
  `PickingApproved`: a dispatch under way holds a document that is approved, so
  the handlers that need another status cannot touch it meanwhile. What `Move`
  does to the stock and to the sums of the ledger is the lemma `BookedMove`; that
  the two stay together line by line is `RowsKeepMatch`.
- `GoodsSentForGood`: `Spec => SentForGood`.
- `ReceiptsRecorded`: `Spec => []ReceiptsMatchLedger`, that the received quantities of
  all documents of a branch and product add up to what its ledger booked as received.
  A receipt changes many lines and one sum at once; the invariant that makes the two
  sums comparable is `ReceiptInv`: a shipment goes where its document goes
  (`ShipmentsGoToDestination`), and a document that does not exist yet has
  received nothing. Documents are finitely many (`IsFiniteSet(Doc)`, since a sum of
  infinitely many has no value). The sums are taken apart line by line with `SumLemmas`.

`StockLedgerProofs` proves, for any accounts, products, requests, lines, documents,
purchases, quantities and opening entries, from the assumptions that `StockLedger`
names (lines move something, an account has at most one opening entry, of more than
nothing; what is counted is not negative; purchases are received and nothing else
carries their number, so adjustment documents and purchases differ):

- `InvariantHolds`: `Spec => []IInv`, with `TypeCorrect`. It relates requests to the rows
  they have made: an entry is one line of its request, no line has two, and it is pending,
  committed or gone as the request runs, is done or has failed (`EntriesFollowOrders`);
  the posted lines are the first ones of the request, up to the line it is at, but for
  requests that go on after a failure (`LinesInOrder`); an entry's balance is that of the
  entry it read plus its own quantity (`BalancesAdded`).
- `TransfersWhole`: `Spec => []TransferWhole`, from `IInv` alone.
- `ReceiptsArePrefixes`: `Spec => []ReceiptIsPrefix`. The adapter's test for existing
  entries runs before the lines are posted, so it protects only together with the lock of
  `mark_as_received`: `ReceiptInv` says that one request at a time handles a purchase, and
  that if it has lines to post, then no others are in.
- `CountsTakeEffect`: `Spec => []CountTakesEffect`. `SheetInv`: the requests of a document
  post its line; a document that was not posted by two at a time is a draft while one
  runs, and posted exactly if one is done.
- `AloneIsChained`: `Spec => []ChainedWhenAlone`, and `OnHandStaysNonNegative`:
  `Spec => []OnHandNotNegative`. For an account that is not in `raced`, `ChainInv` says
  that one request at a time is between its selection and its end (or the next selection
  would have put the account into `raced`), that pending entries come after committed
  ones, so that a rollback takes off the end of the chain, that the entry selected is
  still the newest, and that each balance is the sum of the quantities up to it. The
  code checks the newest balance; so it checks the sum.

`PlatformProofs` holds the proofs of the four services of `core/`. They share no state;
each has its own specification, invariant and theorems.

Of `EventBus` it proves, for all publishers, dispatchers, subscribers, keys, batch
sizes and bounds, from `EventBusAssumption` (at least one attempt, batches are not
empty, subscribers are a list):

- `EventTypeCorrect`, `SingleDispatcher`, `Delivered`: the safety invariants of the run;
  `GivenUp` and `SettledForGood`, that an event gives up only at its last attempt and
  is dispatched for good, which no run repeats.
  `CopyIsCurrent` does for batches what `JobCopyIsCurrent` does for jobs: an event that was not
  forced and is in a batch is `processing`, so no claim finds it, and the attempts
  that `Settle` compares are those of the row. `Delivered` needs `RoundInOrder`:
  as long as no handler failed, those called in this round have succeeded. It
  holds of forced events, too, since nothing is taken from the deliveries.

Of `JobQueue` it proves, for all callers, workers, keys, priorities and bounds,
from `JobQueueAssumption` (at least one attempt, priorities are numbers):

- `JobTypeCorrect`, `SingleWorker`, `CurrentCopies`, `AttemptsBounded`: the safety
  invariants of the run, and `DoneForGood`, its action property. A job that is
  claimed was pending, and by `JobCopyIsCurrent` a pending job that was not forced
  is in no worker's hands: that is why `OneWorkerPerJob` and `JobCopyIsCurrent`
  are inductive together and not apart. The bound on attempts needs `JobAttemptsLeft`:
  a row is pending only while it has attempts left.

Of `DocumentNumbering` it proves, for all scopes, existing rows, numbers issued
earlier, patterns and transactions, from `NumberingAssumption` (one existing row
per scope, `Nobody` is no transaction):

- `NumberingTypeCorrect`, and `RowNumbersDiffer`: `Spec => []NoCollisionInRow`. The
  strengthening: a transaction that has a row's number holds the row and has the
  number after its counter (`HolderIsNext`); documents are within the counter
  (`DocsWithinCounter`); a document that collided did so with a document outside
  its row (`CollidedElsewhere`), which for later steps needs that printed numbers
  are unique (`PrintedOnce`).
- `RowNumbersWithoutGap`: `Spec => []NumbersWithoutGap`, because only the commit
  of the holder moves the counter, by one, and adds the document with that number.

Of `PurchaseApproval` it proves, for any number of sessions, users, steps and
requests, from `ApprovalAssumption`:

- `ApprovalTypeCorrect`, `SignedInOrder`: `Spec => []SignedStepByStep`, and
  `OrderAndEngineAgree`: `Spec => []OrderMatchesRequests`. A decision is computed
  from the copy read when the row was locked, so the strengthening says that this
  copy is still the row (`CopiesFresh`), which holds because at most one session
  decides on a request (`OneDecider`). What a signature adds to the log is the lemma
  `NextSignature`. For the order, an approval that is about to be saved counts as
  granted (`GrantRests`, `FinalKept`), and a session keeps the task and the copied
  status it began with (`TaskKept`), or a `send` could be saved over a draft.

`ProcurementProofs` holds the proofs of `Purchasing` and `Payables`, two modules that
share no state.

Of `Purchasing` it proves, for any lines, products, deliveries, returned notes and
requests, from `PurchasingAssumption` (lines and notes are finite sets, each line
orders something):

- `OrderInductive`: `Spec => []OrderInv`, of which the next four are conjuncts. None of
  them is inductive alone. A receipt locks the order from `LockOrder` to its last line,
  so one at a time posts (`PostingAlone`) and its lines are as it has read them
  (`PostingCurrent`); this is what keeps a line within its order. `SavesOutcome` and
  `SavesStatus` say what the views outside a transaction have read and will save, and
  `NothingYet` that a note which was not made returns nothing.
- `ReceiptsWithinOrder` (`WithinOrder`), `OrderStockAccounted` (`StockAccounted`),
  `ReturnsCovered` (`ReturnsWithinReceipt`). A receipt changes the lines, the stock and
  what was overwritten at once; `LinesPosted` says what posting does to each line, and
  `GoodOnOne` and `NoteChanged` what one line, or one note, does to a product's sums.
- `ReceivedNoteCurrent` (`ReceiptNoteCurrent`): between the deletion of the note's rows and
  their insertion nobody else fills it, unless another receipt has come whose own
  rebuild is still to start (`NoteRebuilt`).

Of `Payables` it proves, for any bills, payments, credits, amounts and connections,
from `PayablesAssumption` (finite sets of each; an invoice is of more than nothing,
which `create_invoice`, `supplier_ap_services.py` 42, ensures: without it the initial
status `unpaid` would be wrong, as the proof of the initial state showed):

- `PayablesInductive`: `PayablesSpec => []PayablesInv`. A transaction decides on what is
  committed when it reads, and writes at its commit. `TxFits` says of one transaction
  that what it read is still so: what it allocates is outstanding (`AllocFits`), each
  invoice it changes is marked, or about to be, with the status that the change leads
  to (`MarksTell`, `VerdictTells`, `AllocMarked`, `DeletedMarked`), and a credit's total
  counts what it uses (`CreditFits`). It is one invariant for payments, reversals,
  applications and refunds, as any of them may commit under the feet of another:
  `UsedApart` shows that the commit of one leaves what another has used as it was,
  unless it puts the row into `crossed`. Two payments that take their numbers from one
  sequence row are kept apart by it: the second has read nothing yet when the first
  commits, since both would hold the row (`Guarded`, `HeldApart`, `OneEach`: a transaction
  is numbered from at most one row, and holds that row once it has the number). Two
  reversals are kept apart by the allocations. Any other two are not, and are in
  `crossed` if they meet. `Started`, `Year` and `RowId` are arbitrary.
- `AmountsKept` (`WithinAmounts`) and `BalancesAreTold` (`BalancesTold`): that the commit
  keeps them is `CommitPaymentKeeps`, `CommitReversalKeeps` and `CommitCreditKeeps`,
  which change one term of a bill's or a credit's sum.

`TillProofs` proves, for any number of requests, cashiers, shifts, sales and slips
and any amounts, from `TillAssumption` (sessions are numbers, amounts too, and a slip
is of more than nothing):

- `TypeCorrect`, `ReportsAreTrue`: `Spec => []ReportTrue`, and `NumberedWithoutGap`:
  `Spec => []ReportsNumbered`. A close holds the row of a shift that is open
  (`ShiftHeld`), so at most one closes it (`OneCloser`) and nothing commits to it
  between the sum and the report (`SumsCurrent`); what came late came to a shift that is
  closed (`LateClosed`). For the numbers: a close that has read the last report has at
  most the next number (`NumberNext`), who has inserted a report is alone with its
  number (`SealerAlone`), and reports and closed shifts correspond (`ReportsCount`,
  `ReportsClosed`, `ClosedReported`, `OnePerShift`). Sums of amounts occur as terms
  only: equal sets have equal sums, and no proof adds.

Of `Checkout` it proves, for any products, customers, baskets, prices, limits and
payments, from `CheckoutAssumption` (requests are finitely many; prices, discounts and
limits are naturals; the promotion may be used at least once; a basket has lines of at
least one unit each):

- `CheckoutInductive`: `CheckoutSpec => []CheckoutInv`, of which the next three are
  conjuncts. Sums over sales and payments grow by a row at a time: `SalesAlone`,
  `SaleAdds` and `PaymentAdds` say what a step makes of them.
- `StockIsSold` (`StockSold`): products are locked by one sale (`LocksApart`), so what it
  found is still there (`LockedAsFound`) and an absolute write of the stock is a
  subtraction. What the deduction of the lines takes is `DeductedTakes`: never more than
  they say, and exactly that for a product with one line. `Deducted` is a recursive
  function; that it computes its recursion is `LeftExists` and `DeductedSteps`.
- `PromotionBounded` (`PromotionUses`): each request that was granted the promotion still
  counts it (`PromotionsInFlight`), and when the last one is granted, a use is left.
- `CustomersKept` (`CustomerKept`): a customer not in `crossed` is served by one request
  (`ServedAlone`), whose copy is the row (`CopiesAreCurrent`), and between the two writes
  of a payment the balance is higher by its amount (`PaymentsHalfway`). The limit and the
  points need no strengthening, since the sale checks them on that copy.
  The attempt to prove that balances are not negative failed at a sale with points worth
  more than its goods, and later with a promotion that was; the property now excepts both
  by name, and the run has such baskets.

`OfflineSalesProofs` proves, for any number of devices, pages, workers, sales, lines
and faults, from `OfflineAssumption` (keys are numbers, which stand for their order;
a device per page and per sale; a basket is a sequence of products):

- `TypeCorrect`, `RecordedAtMostOnce`: `Spec => []RecordedOnce`, and `NoSaleLost`:
  `Spec => []NothingLost`. The look-up by key protects nothing, as it is outside the
  transaction; what does is that a worker that has inserted a sale holds its key and
  its number, which no committed sale has (`KeysReserved`), and that no two hold the
  same (`HeldApart`). That a terminal's sale is whole is `LinesDone`: the lines passed
  are those deducted, which the office's swallowed deadlock would break. And no sale
  is lost because what is acknowledged, on the server or in the page, is recorded or
  torn (`AcksTrue`), so that a page may forget it. That a batch has a first sale
  (`MinIn`) is the well-foundedness of the naturals.

Each strengthening was an invariant of a TLC run before it was proved.

`SumLemmas` has the facts about finite sets and sums that the others cite: an
element can be taken out of a sum or added to it, in any order (`SumTakeOut`,
`SumAdd`), sums of equal terms are equal (`SumSame`), one term changes (`SumChange`),
bounds carry over (`SumAtMost`, `SumNatural`), a row after the last adds its term
(`SumAppend`), and a bounded set of ranks has a greatest
(`GreatestRank`). All rest on `SetInduction`, induction over the subsets of a finite
set. The library's own induction theorems take the predicate as an operator, which
the provers cannot instantiate; `SetInduction` takes the set of the subsets of which
it holds, and follows from the well-foundedness of the strict subset relation. `StepByStep` is induction over the numbers up to
a bound in the same form. That
`SumFunctionOnSet` computes what it says is `SumIsFold` to `SumsChosen`: its definition
chooses a function that satisfies the recursion, and there is exactly one.

Only model-checked: liveness (`EveryTxEnds`, `EveryJobSettles`,
`EveryEventSettles`, `EveryDocumentEnds`, `EverySessionEnds`, `EverySaleArrives`),
which needs fairness and ENABLED. `TypeOK` of `BranchStock` states only the domains of
`agg` and `total`, which are sums over the branches: no theorem needs more of them.

## What the code does not do

Disagreements of the code with what it, its documentation or its interface says,
and faults seen while modelling. The properties except them by name, or do not
speak of them.

*Branch stock and distribution.*
- "Destination stock must ONLY have received quantity"
  (`tests_stock_transfer_lifecycle.py` 170) holds once: confirming the receipt of a
  partially received shipment again adds the whole quantity again to the stock and
  to the document's line (`branch_services.py` 692, 732), while the shipment's item
  is overwritten.
- Two overlapping sales at two branches leave `Product.stock_quantity` wrong: each
  sums the branches before the other commits (`models.py` 5672).
- Two dispatches that pass the unlocked stock check leave the source negative
  (`branch_services.py` 640).
- A transit loss is in the ledger twice (see `LedgerMatchesStock`).
- The "deadlock-free sorted locking" of `branch_services.py` 563 holds among dispatches and
  receipts only. A sale, even of one line, locks its products before its stock rows
  (`views.py` 3032, 3080), a dispatch the other way round: a dispatch and a sale of the
  same product at a branch deadlock, and one of them fails: if the victim retried for ever,
  `EveryTxEnds` would not hold (its mutant). So do
  direct transfers, which call in an order of their own.
- A dispatch may ship more than its approval rule allowed.

*Jobs, events, numbers.*
- `enqueue` looks a key up and inserts without holding it: two pending jobs of one
  key (`queue.py` 63).
- A job or event whose process died is never claimed again, and its idempotency
  key stays taken.
- Branches count on their own and print no branch, but invoice numbers are unique
  per business (`models.py` 1357): the branch that sells second fails, keeps its
  counter and fails again until the next day.
- Two first documents without a branch create two sequence rows, since NULLs are
  not compared; the legacy fallback takes the number the sequence issues next.

*Stock ledger and adapter.*
- "Sequential balance calculation" (`stock_ledger_service.py` 44) fails when two
  transactions post to an account at once; the later balance misses the earlier
  quantity.
- `pos/signals.py` posts a sale when the `Sale` row is created, before its items
  are, so that nothing is posted; returns likewise.
- `sync_purchase_receipt` posts the ordered quantity when `quantity_received` is 0
  (`pos_inventory_adapter.py` 185).
- Step 7 of `post_stock_movement` always fails silently: `models` is not imported
  (153-168). The adjustment view raises after its commit (`len` of a document).

*Purchasing and approval.*
- `mark_as_received` returns `False` from inside its atomic block, which commits
  the lines before the refused one, while the view says that the receipt failed
  (`models.py` 1730, `views.py` 4822).
- An order may have a product on two lines; on receipt the last line's copy
  overwrites the stock of the first.
- Received goods go to `Product.stock_quantity` only, which the next sale at a
  branch overwrites with the total of the branches (`models.py` 5738-5742).
- Damaged goods never enter the stock, but a note that returns them subtracts them;
  the limit of a return counts both reasons together. An old copy of a note saved
  after its cancellation lets it be cancelled, and restocked, again.
- `purchase_cancel` imports `SupplierPaymentAllocation`, which does not exist
  (`views.py` 4859).
- `purchase_approve` approves also when the engine raised, and without a pending
  request; decisions in the inbox do not touch the order; a second submission makes
  a second request; after a crash between the last signature and the order's save
  the button approves without the engine.
- Delegation from the interface always fails (`delegated_to` is not passed), and a
  workflow without steps leaves a request without a step (`engine.py` 86).

*Supplier accounts and bank matches.*
- "Validate allocation doesn't exceed remaining balance" (`supplier_services.py` 87) is not
  kept by two payments at a time whose dates are of different years, that are the first
  of a year, or of which one falls back to counting: each sees the whole balance, and
  the bill is paid twice; an invoice's status then tells one of the
  two. `record_payment` likewise, and refunds of a credit.
- First-due-first allocation may pay an invoice and then also its purchase; an
  invoice may stay `partially_paid` when a credit met its last payment.
- `api_auto_match` raises `KeyError` after its commit (`banking_views.py` 676);
  `manual_match` does not look whether its lines are matched; a payment matched
  one to many can be reversed.

*Till and checkout.*
- A sale that found its shift open may commit after the close: unlocked and in no Z
  report, although `close_session` says it "Locks all transactions in the session".
  Pickups and paid-outs do not ask whether the shift is open.
- Two openings at once give a cashier two open shifts. A paid-out saved from an old
  copy undoes its reversal.
- `close_session` looks for `expected_cash` at the wrong level of the report data
  (`zreport_service.py` 267), so that the difference is closing less opening cash.
- A product on two lines passes each line's check; the second `deduct_stock` returns
  `False` unnoticed: sold without leaving the stock.
- The screen shows a total of at least 0 (`pos_screen.html` 3831), the server computes a
  negative one when the points redeemed, or what a buy-x-get-y promotion gives, are worth
  more than the goods (`views.py` 3017, `promotion_service.py` 110-132);
  on credit, this makes the customer's balance negative.
- A customer's payment is inserted before the balance is reduced, without a transaction
  (`models.py` 5124): if the process dies in between, the customer has paid and owes.
- The customer's row is saved whole from an unlocked copy: concurrent sales and
  payments lose one another; a promotion's `max_uses` is exceeded by the requests in
  flight.

*Offline sales.*
- A front-office sale with a list of payments fails at every attempt, since
  `SalePayment` has no field `reference` (`sync_views.py` 413), although the screen says
  "It will auto-sync when online." (`pos_screen.html` 4901). `Barred` excepts it.
- Both handlers note a sale as processed inside its atomic block
  (`terminal_sync_service.py` 221, `sync_views.py` 461): one whose commit fails is in
  the answer both as recorded and as an error, leaves the outbox and is lost (`torn`).
- The office numbers by `count() + 1` what the sequence numbers elsewhere
  (`sync_views.py` 328). A counted number that is the terminal's next fails the
  terminal's sales for the rest of the day, as their increment is rolled back.
- A deadlock in the office's deduction is swallowed (`sync_views.py` 379-384): the sale
  is recorded without leaving the branch's stock, and acknowledged.
- No template includes `offline-terminal-sync.js`. The third client, `pos-sync.js`
  (310-332), empties its queue on `success`, which the handler answers also when sales
  failed.

*Upload.* `sync/tasks.py` 47 pages by offset through a query that shrinks as events
are marked, and skips every second batch. Nothing imports `pos/idempotency.py`.

## What is not modelled

`PROJECT.json` lists every component with its status and the reason. Left out on
purpose within the modelled ones: formatting of numbers beyond what tells two of
them apart, the moving average cost, logging, audit rows, notifications, and
permissions of users other than approvers. `StockLedger` has no reversals,
valuation rates or FIFO layers; `Purchasing` has one order; `Payables` takes
invoices as given; `Till` has no voided reports and no cash count; `Checkout` has no
returns and no held orders; `OfflineSales` no catalogue on its way down, no inactive
branches or terminals, no missing products, and no loyalty points. Writers of `BranchStock` that bypass `receive` and
`deduct` (`sales_order_services.py` 200-207) break the ledger by construction and
belong to the planned `SalesOrders`. Most of the repository's lines are forms,
tables, reports, e-mail, HR and accounting screens of one user at a time: there is
little in them for a model checker, and the repository's tests reach it.
Serialisation failures do not exist at READ COMMITTED. Other isolation levels and
databases (SQLite in development) are not modelled.
