# FilaOps: a TLA+ verification project

FilaOps is an ERP for 3D-print farms: a FastAPI server on PostgreSQL with a
React front end. This project models the part where a wrong step costs stock,
goods or money: production orders and the material they consume, inventory
postings by overlapping requests, sales orders and shipping, payments and
invoices, purchasing and planned orders, machine slots and maintenance windows,
and the journal entries of a completion. All paths below are relative to
`src/backend/app/` unless they start with `docs/` or `backend/`.

## 1. The system

One server process (`backend/run.sh`, one uvicorn worker) serves all requests.
A request gets a database session of its own (`db/session.py`) with
`autocommit=False, autoflush=False`: what a handler assigns is written at the
next explicit flush or at commit. Handlers declared `async def` contain no
`await` around their database work, so each runs from its first line to its
last on the event loop; handlers declared `def` run in the thread pool, beside
the loop and beside each other. Transactions are `READ COMMITTED`. Few things are
serialized by a lock: inventory rows (`services/inventory_ledger.py`, `SELECT ...
FOR UPDATE`), the sales order of a refund, the order that is accepted short or closed,
and advisory locks for payment numbers, journal entry numbers and the completion
entry of an order.

### Components

| component | state | operations | status |
|---|---|---|---|
| Production-order life cycle (`services/production_order_*.py`) | `production_orders`: status, ordered / completed / scrapped quantities, `actual_end`, `qc_status` | create, update quantity, delete, schedule, release, split, refresh routing, start, hold, complete, accept short, close scrapped, cancel, record scrap | `ProductionOrders` (whole handlers), `CompletionPosting` (handlers in parts); without the raw operation edit, material swaps and spool assignment |
| Operation execution (`services/operation_status.py`, `operation_blocking.py`, `scrap_service.py`) | `production_order_operations`: status, good, bad | queue, take back, start, complete, skip, scrap; deriving the order's status | `ProductionOrders`, `CompletionPosting`; without the replacement order of operation scrap and operations generated by hand |
| Reservation and consumption books (`services/inventory_service.py`) | `inventory`, material rows, inventory transactions | reserve, sync, release, consume a row, backflush, receive | `WorkOrderBooks`, production stage, one lot |
| Held movements (`endpoints/inventory.py`, `inventory_ledger.py`) | `requires_approval`, `approved_by`, `voided_by` | approve, reject | `ProductionOrders`, `SalesFulfilment`; manual adjustments only as a policy request of `InventoryPosting` |
| Reservation repair and reconciliation | none of its own | report, repair, count entry | `ProductionOrders` for its rules, `InventoryPosting` for its overlap |
| Sessions, locks and the event loop (`inventory_ledger.py`, `db/session.py`) | row locks, sessions, pending writes | lock, read, post, commit, fail, close | `InventoryPosting`, complete |
| Sales orders and fulfilment (`sales_order_*.py`, `status_sync_service.py`, `shipping_service.py`, `transaction_service.py`) | order status, lines, allocated and shipped quantities, shipments | create, confirm, edit, start production, sync, ship (six ways), close short, reopen, cancel | `SalesFulfilment`; without addresses, rates, events and terms |
| Quotes and conversion (`quote_service.py`, `quote_conversion_service.py`) | quotes | price, convert | the conversion is a way to create an order in `SalesFulfilment`; pricing is not modelled |
| Invoices and payments (`payment_service.py`, `invoice_service.py`, `endpoints/payments.py`) | payments, invoices, `amount_paid` | record, refund, void, issue, send, resync | `Billing`; without PDF, e-mail and overdue marking |
| Purchasing and receiving (`purchase_order_service.py`) | purchase orders, lines, receipts, freight | edit, order, receive, cancel, close | `Purchasing`; without vendors, documents, lots and spools |
| MRP and netting (`mrp.py`, `supply_netting.py`) | planned orders | run, firm, release, cancel | `Planning`; the explosion of demand is an input, planned production orders are not modelled |
| Scheduling and maintenance windows (`resource_scheduling.py`, `dispatch_service.py`, `maintenance_window_service.py`, `endpoints/scheduling.py`) | slots on machines, windows, printer status | schedule, reschedule, dispatch, auto-schedule, assign; open, close and cancel windows, sync | `Maintenance`, `Scheduling`; without materials and capacities |
| Printers and MQTT (`services/mqtt/monitor.py`) | telemetry, printer status | connect, flush status, set status | the flush and the hand-set status in `Maintenance`; the rest is device I/O |
| GL posting and costing (`production_gl_service.py`, `transaction_service.py`, `backend/scripts/backfill_production_completion_gl.py`) | journal entries | post, sweep, backfill, roll back | `CompletionPosting`, and the entries of shipments and payments in `SalesFulfilment` and `Billing`; no accounts by item type, no periods |
| Lots, traceability and spools | lots, spools, genealogy | FIFO, assign | not modelled |
| Items, BOMs, routings, units | master data | edit, convert | not modelled: constants of the models |
| Quality plans and gates | plans, measurements | gate by plan | not modelled: an inspection is its result |
| Auth, users, licence, settings | accounts | log in, count seats | not modelled |
| Import, export, notifications, e-mail, reports | none | read, bulk-load | not modelled: I/O |
| Front end | view state | none | not modelled: calls the handlers above |

### How they interact

Everything goes through the database. An order handler calls
`inventory_service`, which reads and writes the inventory row, the
material rows and the ledger in the same session; a completed operation calls
`update_po_status`, which may complete the order, backflush and receive it, post
its journal entry, and sync the sales order it was made for. The books of reserved
material are kept in three places at once: `allocated_quantity` on the inventory
row, `quantity_allocated` on every material row, and the ledger. Two production
orders meet in the inventory row; sales orders and production orders meet in
the line's allocated quantity and the finished-goods row; purchasing meets
planning in the planned order's quantity; scheduling meets maintenance in the
printer's status and the machine's time.

### What is hard

* Four handlers can receive an order into stock; six can ship one. No column
  says that it has been done.
* Two paths consume the same material rows, and each consumption may be held
  for approval, then approved or rejected.
* Releases write one release row for every reservation row ever written.
* Handlers of operations, QC, scrap and the schedule endpoint do not look at the
  order's status. The schedule endpoint does not look at the operation's either: it
  queues one that is complete, and a finished order can be worked on again.
* `autoflush=False` makes a query blind to what the handler just changed: rows
  it has added, a payment it has voided.
* Quantities are read into the session and written back as absolute values; a
  query with `FOR UPDATE` does not refresh what the session has read.
* An `async def` handler that waits for a lock stops the loop, and with it
  the closing of sessions whose handlers failed.
* Freight is spread over receipts, while lines are edited and deleted in between.
* Checks for a free slot and the booking are two steps, without a lock.
* A journal entry sweeps every row of its order that has none yet, and three
  programs do so: completions, the closing of an order, and a script.

## 2. Modules

| module | what it is |
|---|---|
| `WorkOrderBooks` | the inventory service as operators on the books of one order (inventory row, material rows, ledger sums). No variables. |
| `ProductionOrders` | orders, operations and books; one action per handler. EXTENDS `WorkOrderBooks`. |
| `StockBook` | abstract: requests take effect once, at once, and move quantity and ledger by the same amount. |
| `InventoryPosting` | sessions, row locks, the event loop, failures, deadlock detection. Shown to implement `StockBook`. |
| `SalesFulfilment` | sales orders, lines, work orders, one finished item; one action per handler. |
| `Billing` | payments and invoices of one sales order, split at locks and commits. |
| `Purchasing`, `Planning` | purchase orders with receipts and freight; planned orders, EXTENDS `Purchasing`. |
| `Maintenance`, `Scheduling` | windows and printer status over time; slots of operations, EXTENDS `Maintenance`. |
| `JournalBook` | abstract: a completion entry is made at once, for rows that have none, books what they cost, and is taken back as a whole. |
| `CompletionPosting` | one production order with its handlers in parts, its ledger rows and journal entries. Shown to implement `JournalBook`. |
| `MC*` | symmetry, small instances and routes for TLC. |
| `FiniteLemmas` | lemmas about sums over finite sets and about the largest and smallest of a set. |
| `*Proofs` | seven modules: lemmas on the operators, invariance and refinement proofs. |

An action of `ProductionOrders`, `SalesFulfilment`, `Purchasing` and
`Maintenance` is a whole handler in one transaction. Where handlers run in threads
or wait for locks, `InventoryPosting`, `Billing`, `Scheduling` and `CompletionPosting`
split them. A request that the code answers with an error changes nothing and
is a disabled action.

### ProductionOrders

`order[o]` is the row of `production_orders`, `op[o][i]` the rows of its
operations, `mat[o][i]` the material row of operation `i`, `txn[o]` the order's
rows of `inventory_transactions` summed by type, `inv` the inventory row of the
material, with the on-hand of the finished item (`fg`) and `ledgerNet`, the
sum of reservations minus releases over all orders (a history variable;
`DriftIsOneSided` checks that it is that sum). `UpdatePoStatus` is part of the
operation actions, as in the code, with the completion it may trigger. Statuses
that the handlers set but the status table lacks (`scheduled`, `qc_hold`) are in;
`split` is in the table and is set by no handler.

Abstracted: one material, one unit of it per piece and operation (rates, scrap
factors and units scale numbers); one location; no lots or costs. A routing has at
most two operations: the last one's material rows are not flushed when a new
order reserves, the others' are, and an operation either has a predecessor or
has none; two operations show both. A QC inspection is one without an explicit
passed/failed split; conditional and waived results move orders as passed does.
Scheduling queues an operation whatever its status (`schedule_operation`,
`resource_scheduling.py:740`). `order[o].reopened` counts how often that was a finished one; only
`QueueOperation` reads it, for its bound `MaxReopened`. A finished operation that was queued
and taken back to pending lets `RefreshRouting` replace a consumed row; the ledger keeps what
was consumed for it: `replaced` is its sum, `applied` what of it left on-hand, and `left` the held
quantities that can still be approved (`ApproveLeft`).
`RecordInspection` picks any operation, or none, to stand for an explicit
target, the typed lookup or the code pattern.

Left out of `Next`: the raw operation edit (`update_operation`, which writes any status and
quantities without deriving the order's status; as scheduling does, it can reopen what was finished),
`generate_operations_manual(force)`, status writes of the legacy
`endpoints/admin/fulfillment_queue.py` (they are in `SalesFulfilment`),
`validate_inventory_consistency(auto_fix)`, `swap_material_variant`, and the
replacement order of operation scrap (a draft without operations that reserves nothing).

### InventoryPosting

A session is a request. `Kind` says how it treats a row: `direct` requests lock
before they read (count entries, finished goods written off), `policy` requests
read the row before the lock to decide whether a consumption is held
(`create_inventory_transaction`), `repair` requests sum up the ledger first
(`release_stranded_allocations`). `Inline` are the `async def` handlers. `loaded`
and `draft` are the session's identity map, `effect` the ledger rows it has
flushed, `lock` PostgreSQL's row locks, `want` the row it waits for, `seen` the
net map of a repair. `Fail` is a handler that raises; its session keeps its locks
until `Close`, which the loop has to dispatch. `Running`, `MayLock`, `MayClose` and
`InCircle` are what the steps of a request wait for: that it waits for no lock, that the row is
free or its own, that the loop is free, and that the database has found a circle.
`DeadlockAbort` is PostgreSQL's own
detection; nothing in the configuration sets `lock_timeout` or `statement_timeout`.
A row stands for on-hand with the sum of its movements, or for allocated with
reservations minus releases.

### SalesFulfilment

`so`, `line`, `wo` are the sales orders, their lines and the work orders linked to
them; `fg` is the product's on-hand less allocated; `goods` sums, per order, the
shipment movements (posted and held) and the cost entry. The actions come in groups:
`Entry` (create, convert, confirm, edit, close short, cancel), `GenerateWork`,
`Production` (work orders by hand, start, completion, inspection, with the sync of
the sales order in the handlers that call it), `LegacyQueue` (the fulfilment queue's own
status writes) and `Shipping` (six handlers, approval of held movements, legacy
close-out and reopening). One product; a work order is its quantity and status,
its inner life is `ProductionOrders`. `open` says whether an operation can be reported; `RequeueWork` is
the schedule endpoint, after which `StartWork` and `FinishOperations` take a complete work order up again,
and the report overwrites the completed quantity. `ended` and `received` decide, as in the code, whether
a completion receives and syncs; `lowered` is history.

### Billing

One sales order: `pay`, `inv` and the `session` of every thread and of the event loop.
The payment endpoints are `async`, those of invoices run in threads. The steps of a
recorded payment are loaded, numbered (advisory lock of the number) and inserted; a
refund locks the order first and the number after it. A circle of the two is
resolved by `Deadlock`. What a session has loaded survives the lock, and its sums
are over what the database shows it, without its own unflushed changes. A payment recorded for an
invoice (PATCH /invoices) may be of any sign, as nothing asks for it; those of the order endpoint are
positive. `refund` says which rows refunds have written; `nonpositive` is history.

### Purchasing and Planning

`po`, `line` and `booked` are purchase orders with their freight, their lines with
ordered and received quantity, and the receipt movements of a product. Receipts
allocate freight by the share of cost that they take; the one that leaves nothing
open takes the rest. `plan` holds the planned orders; a release of all or a part of one
makes a draft purchase order. `demand` and what production has `issued` belong to
the environment.

### Maintenance and Scheduling

`now` is the clock, `window` the maintenance windows, `printer` the printers'
status. A window does nothing when its time comes: the pages that show printers run
the sync, telemetry is flushed over it, and a status may be set by hand. Time is
counted in slots, `0..Horizon`.
`op`, `order` and `request` add operations with their slots and the schedule
endpoint, which checks for conflicts and commits in two steps on a thread;
reschedule, dispatch, auto-schedule, assign and start are atomic on the loop. The
history fields `moved`, `stale`, `revived`, `pushed` and `covered` name the ways by which
the code knowingly or unknowingly books over something.

### CompletionPosting

`job` is one order with one operation, `mat` its material row, `row` its rows of
`inventory_transactions` with the journal entry they point to, `entry` the
completion entries, `credits` what scrap entries took out of work in progress,
`session` what each request has loaded and flushed. Steps: load, read materials,
post scrap, post stock, sweep, commit. Locks: the entry numbers, the order's row,
the inventory row, the order's advisory lock around the sweep.
`LoadSchedule` queues the operation whatever its status, and `LoadStart` takes a queued one. `Abort` is an error, a
request chosen by the deadlock detection, or a crash: nothing flushed stays.
`Written` is the partial UPDATE of SQLAlchemy: the columns that differ from what was
loaded. `SweepBackfill` and `RollBack` are the script. `overlapped` is
history: a request committed over what another had committed since it loaded; so is `reopened`: the
operation was scheduled after it was complete. Hold, release, cancel and the routing refresh are only in
`ProductionOrders`.
`Committed`, `Journaled` and `Booked` map it to `JournalBook`: the rows that are committed,
the entry of each, and the entries without their scrap. There a posting, a sweep and an abort change
nothing, a commit adds rows and, after a sweep, makes the entry with them, and a rollback voids it.

## 3. Runs

| run | instance | what it shows |
|---|---|---|
| `routed` | 1 order, 2 operations, up to 2 pieces, 2 on hand, 1 inspection, 1 finished operation scheduled again | the whole life of an order: received once and then settled, consumed once per row, closed orders hold nothing, until it is taken up again; what is consumed and received stays accounted for then |
| `competing` | 2 orders, 1 operation, 1 piece | the same books when orders compete for one row: the drift between allocation and ledger is one-sided |
| `split` | 2 orders of 2 operations and up to 3 pieces, one on the floor | a split keeps parent and child backed by reservations |
| `bom` | 2 orders without routing, 2 inspections | on-hand is what was posted or approved: backflush of the bill of materials, held and approved |
| `posting` | 3 direct requests, one inline, 2 rows, 2 postings each | locking first loses nothing and implements `StockBook`; the only way to be stuck |
| `posting_ends` | one policy, one repair, one inline direct request, with fairness | drift appears only after a request that read before it locked has committed; if no handler raises, every request is answered |
| `sales` | 2 sales orders, 2 lines, 2 work orders, 1 product, lines of up to 2 | goods leave an order once, cost follows goods, lines are made once and frozen once shipped |
| `billing` | 3 payments or refunds, 2 invoices, 2 threads and the loop, with fairness | cash follows payments, refunds stay within what was collected, voided invoices are reversed, and the loop is given back |
| `procurement` | 2 purchase orders, 2 lines, 2 products, 2 planned orders | nothing is received twice, freight is capitalised once, a plan is ordered once |
| `schedule` | 1 printer, 1 other machine, 2 windows, 3 slots of time, 3 operations of 2 orders, 1 thread | no machine is booked twice and no printer stuck in maintenance, but for the named causes; the slot found is free and earliest |
| `completion` | 1 order of 2 pieces, 2 threads, the loop and the script, 4 rows, 2 entries | no row is journaled twice, `JournalBook` is implemented; receipts and work in progress, but for the named causes |
| `find_VoidedPaymentUncounted` | 2 payments, 2 invoices, amounts up to 2 | finds that a voided payment still counts, see section 6 |

**Bounds.** In `ProductionOrders`, quantities up to 2 let an order be finished short,
over-scrapped, and split (up to 3 in `split`, where an order can be made larger and
then split in unequal parts); with 1 the interplay of two orders stays small enough to be
complete. Two orders are enough for the books because orders meet only in sums over one row.
`ScrappedOnce` and `ReleasedOnce` bound counters of a routed order that otherwise grow without end
(`ReleasedTwice` with two orders). `MaxReopened = 1` is one finished operation scheduled again: enough for a
second receipt, a replaced row and a short report after the receipt. An order that is taken up again is neither
scrapped nor inspected, and of its held consumptions only those of replaced rows are decided (`ReopenedPlainly`).
The theorems hold for any `MaxReopened` and without these bounds. With two orders `MaxReopened = 0` keeps
the state space small. `OneOnTheFloor` and
`StillPlanned` keep `split` to orders of which nothing was reported.
`MaxInspections = 1` lets QC fail an order, or pass one; passing after failing
needs 2 (`bom`). In `InventoryPosting` three sessions, two rows and two postings
each give circles of waiting, chains behind a failed session, and a second
posting to a row that is locked already.

The other modules have a `SmallInstance` constraint in their `MC` module, a
disjunction of shapes with a comment on each. `sales`: two orders without work
compete for the opening stock, one order is followed with one work order through all
its ways (taken up again while the order is on its way to shipment and has that line only), and with two up to the first shipment. `billing`: two handlers at a time suffice,
as every lock has two sides and every stale read one other writer; a third payment
meets one invoice, and one payment at most is not positive or set by PATCH. `procurement`: an order by hand with freight and prices 0 to 2
(a zero cost and unequal shares), or planning with orders of one line. `schedule`: windows
alone, two operations alone, or one of each; three slots of time are two bookings
end to end and a gap. `completion`: two requests at a time, two pieces of scrap; the operation is scheduled again only when it is
complete, once, and while no requests have overlapped, and from then on one request follows another;
four rows are two whole completions, two entries a backfill with a completion. A
state outside the constraint is checked but not continued. Ids that nothing
compares are symmetric; the runs with symmetry have no liveness property.
`CHECK_DEADLOCK FALSE`: the server stops when no request comes.

**Fairness.** Most models state none: a step is a request somebody
may or may not send, and nothing runs in the background. In `InventoryPosting`
each session's own progress (`Run`) is weakly fair: threads and the loop are
scheduled, PostgreSQL passes on a lock that was given up and aborts a member of
a circle. `Begin` and `Fail` are not fair. `EveryRequestEnds` supposes that no
handler raises; with a raising handler the server can really get stuck, and
`StuckOnlyBehindFailure` says that this is the only way; it counts neither a request that might
still come nor a handler that might raise as a way out. In `Billing` a session's
`Commit` is weakly fair; `Wait` is strongly fair because PostgreSQL grants a lock in
the order it was asked for, so nobody is overtaken for ever, and its deadlock
detection is weakly fair. That no request has to come is kept: beginning one is not fair.

## 4. Properties

* `AllocationCoversLedger`, `DriftIsOneSided`: the release path floors
  `allocated_quantity` at zero and writes the unfloored quantity to the ledger.
  The two part, but never so that stock is promised twice.
* `ReceivedIsSettled`: at most one receipt per order although four handlers can
  write it; after it no reservation, no open operation, no unconsumed material. Only the scheduling of a
  finished operation opens the way to another receipt, and for each further one it takes one more.
* `ShortIsUnreceived`, `UninspectedCompletionIsReceived`, `ClosedHoldsNothing`:
  what each status says about stock, as long as no inspection has moved the order and no finished
  operation of it was scheduled again. The documents state the second
  without that premise, see section 6.
* `ConsumptionMatchesRows`, `ConsumedRowFrozen`, `OnHandMatchesPostings`: the
  two consumption paths and the approval queue against the rows they consume. When a refresh replaces a
  consumed row, the books keep what was consumed; only reopened orders have such rows.
* `SplitKeepsBacking`: needs the premise that the parent was backed, because a
  cancelled or re-opened order may have released more than it reserved, and then
  its later reservations do not show in its net. It also needs that no material row grows:
  a draft that was made larger keeps its rows, and a split sizes them for what remains.
* `DriftComesFromStaleReads`, `RefinesBook`, `StuckOnlyBehindFailure`,
  `EveryRequestEnds`: posting under overlap.
* `ShippedOnce`: six handlers take goods for an order, by different tests of what was
  shipped already. Only an order that a legacy QC pass moved back ships twice.
* `CostMatchesGoods`, `ShipOrderTakesAll`: the cost entry is made at shipment, from
  movements of which some may be held for approval.
* `LineNotMadeTwice`, `AllocatedWasProduced`: work is generated per line, again after
  cancellations and splits, and the sync sums what the work orders have made. A work order taken up again
  and reported with fewer pieces has made less than was synced, and nothing recomputes it.
* `ShippedWithinOrdered`, `ShippedLinesFrozen`: edits and short closes after shipments in part.
* `CashMatchesPayments`, `RefundsWithinCollected`, `VoidedIsReversed`: journal
  entries against rows, with sends, payments, refunds and voids overlapping.
  What PATCH /invoices records with a negative amount is no refund and passes no guard; `RefundsWithinCollected`
  measures refunds against payments of positive amounts. Recorded for a voided draft, an amount that is not
  positive posts the receivable and leaves the invoice voided: `VoidedIsReversed` excepts invoices that had one.
* `EventLoopFreed`: a payment and a refund take two locks in opposite orders, one of
  them on the loop; still every wait ends.
* `ReceivedWithinOrdered`, `ReceivedIsFull`, `StockIsReceived`: lines are edited,
  deleted and received in any order, and the order's status follows.
* `FreightOnce`: the shares of all receipts add up to the freight, with its known exceptions in the premise.
* `PlannedOnce`: releases in parts, firming, cancellation, repeated runs.
* `MaintenanceHasWindow`: the status a window has set is taken back when
  the last window ends, whoever ends it.
* `BookingsDisjoint`, `RoutingOrderKept`: five handlers book, with different checks.
  Their exceptions are history flags, set where the code books without looking;
  what remains is that no other history leads to an overlap.
* `SuggestedSlotIsEarliest`: the search of a gap against its definition, over every
  plan the run reaches.
* `JournaledOnce`: completions, closings and the script sweep the same rows.
* `ReceivedOnce`: the exceptions are a request that committed over another one's commit, an operation that
  was scheduled again after it was complete, and material that cannot be consumed, which `update_po_status` swallows.
* `AcceptIsFirst`: accept-short and close hold the row, so no completion gets between
  their check for receipts and their commit.
* `RefinesJournal`: what `create_production_completion_gl_entry_with_preview` promises, as a machine of
  three steps. Between a sweep and its commit other requests post, commit and abort, and the script
  rolls entries back; the entry must still cover rows that no other has, and cost what they cost.
* `WipClears`: `production_gl_service.py:28` promises that account 1210 nets to exactly zero for
  every completed order. It does, except where scrap had no record, came after the sweep,
  or was counted by two sweeps, or where the operation was scheduled again: a second close finds no rows to sweep.

## 5. Proofs

The theorems hold for every value of the constants: any numbers of orders, lines, requests,
machines and amounts. Each `THEOREM Spec => []P` rests on an inductive invariant that says
more than `P`; this is what it adds, and why it is needed.

* `FiniteLemmas`: the sums of the models are folds over a finite set. The fold is recursive over
  subsets, and the induction theorems of the library cannot be instantiated; so each lemma takes a
  smallest subset on which its statement fails (one exists, because strict inclusion of
  finite sets is well-founded), takes an element out of it, and reaches a contradiction. From this:
  how a sum changes with one entry, on a larger set, on a disjoint union, by a factor, and
  that it is monotone. The largest and the smallest of a finite set are found the same way.
* `ProductionOrdersProofs`, first part: `TypeCorrect` and `LedgerIsCovered`, for any set of
  orders, any quantities, either routing and bill of materials. `TypeOK` says more
  than types here: it keeps `allocated` and `fg` from going negative.
  `AllocationCoversLedger` alone is not inductive: that a release keeps it needs the
  types of what is subtracted. The invariant is `Accounted == TypeOK /\
  AllocationCoversLedger`. Every operator of `WorkOrderBooks` maps sound books (typed, and
  covering the ledger) to sound books; then there is one lemma per handler.
* Second part: `FloorInv == Accounted /\ OrdersOK /\ Tallied`. `OrdersOK` is what the handlers
  keep of each order without saying so. Some of it holds whatever is scheduled again: each receipt but one
  has a reopened operation to account for it, and while the order does not look received each one has; the ledger's consumption is that of the
  rows and of those replaced; the BOM line is consumed by a receipt only; nothing is consumed of
  an order still in planning; an id not given out has an empty ledger. The rest, `FirstRunOK`, is promised until a
  finished operation is scheduled again: a consumed row belongs to an operation that is
  done, an order that has an end has nothing left to report, and what the status says of receipts and reservations. `Tallied` says
  the same of the shared inventory row: on-hand and `ledgerNet` are sums over the orders, on-hand with what
  was applied for rows since replaced. Most handlers leave these sums
  as they are, replace no row and keep a consumed one (`Balanced`); the refresh, and an approval of what it left
  behind, keep the sums only (`Tallies`). From
  it follow `ReceivedIsSettled`, `UninspectedCompletionIsReceived`, `ShortIsUnreceived`,
  `ClosedHoldsNothing`, `ConsumptionMatchesRows`, `DriftIsOneSided`, `OnHandMatchesPostings`,
  and the action properties `ConsumedRowFrozen` and `SplitKeepsBacking`.
* `InventoryPostingProofs`: for any number of requests and rows,
  `PostingTypeCorrect`, `DirectPostsLoseNothing` (`Spec => []DriftComesFromStaleReads`)
  and, when every request is direct, `DirectPostsAreSerial` (`Spec => RefinesBook`). The
  invariant `Fresh` adds that only a request that has not ended waits for or holds a
  lock, that what a session has flushed lies in rows it has locked, and that what a
  direct session believes of a row it has locked is the committed quantity plus its
  own postings, while it has read no other row. The last part is what reading before
  locking breaks. `StuckOnlyByFailure` (`Spec => []StuckOnlyBehindFailure`): of any number of requests only
  finitely many have begun, as one begins at a time (`AlwaysFinitelyManyBegun`). Suppose all are stuck and
  none of them waits for a failed one. Then each waits for another that is open, and of the finite sets
  that are closed under `Holder` a smallest one is a circle, which the database would have
  broken. `RequestsUseUpTheirSteps`, for a finite set of rows: each step of a request lowers a natural
  number (`StepsLeft`: postings left, stranded rows left to release, a lock awaited, and the end) and no other
  request's. With the theorem before it this is the safety half of `EveryRequestEnds`: requests neither stop
  short nor go round; what fairness adds is that what may happen does.
* `SalesFulfilmentProofs`: `SalesTyped`, `GoodsLeaveOnce`, `CostFollowsGoods`, `ShipOrderTakesEverything`,
  `LinesAreMadeOnce`, `AllocatedIsProduced`, `NothingBeyondTheOrder` and `ShippedLinesStay`, all from
  `SalesInv`. `OrdersOK`: an order marked as shipped keeps a shipped status until it is moved back; the
  handlers refuse a shipped status, each in its own way. `GoodsOK`: an order whose goods left or are held has
  that mark, so that the first shipment finds nothing costed (`IssueOK`), and what `ship_order`
  took is the sum of the lines, which stay (`TakenOK`). That `ship_order` holds nothing is arithmetic: what
  it compares with the stock covers every item. `LinesOK` bounds what is shipped of a line by
  what is ordered, and what is allocated by the sum of what its work orders made (`Made`), which only grows until
  a work order is reported with fewer pieces than before (`Lowered`).
  `WorkOK`: of two work orders that live for one line, one was revived. It holds because a work order
  for a line belongs to the line's order (`Linked`: lines with work orders are neither deleted
  nor handed on), so that the generation, which looks at the work orders of the order, sees all of the line.
  A step is described by what it may do to each table (`OrdersMove`, `GoodsMove`, `LinesMove`, `WorkMove`),
  and the invariant is shown once from these.
* `BillingProofs`: `CashFollowsPayments`, from `CashInv`: the entries of each payment
  (`RowsOK`), what a session has read against the rows there are (`SessionsOK`), and that
  the row a payment handler is about to insert is no other's (`OwnRows`).
  `RefundsAreCovered` and `VoidedStaysReversed`, from `LedgerInv`: refunds run on the event
  loop, and while one holds the order, what was collected covers it (`Covered`); a voided
  invoice without payments is exactly as `VoidInvoice` has left it (`InvoicesOK`), unless an amount or a sum recorded for it was not positive.
  `LoopNeverWaitsInVain`, from `LocksInv` (one holder of the numbers, no payment being inserted while a refund
  has the order, no invoice served by the loop): what the loop waits for has a thread that may go on, or
  a deadlock that the database sees, and each step of a handler under way uses up one of at most
  three. That is the safety half of `EventLoopFreed`.
* `PlanningProofs`: `NeverOverReceived` and `NothingLeftToCome` from `ReceiptInv`,
  `OrderedOnce` from `PlansInv`, `StockMatchesLines` from `GoodsInv` (an unused line
  and an order not yet on its way have received nothing), and `FreightIsSharedOnce` from `FreightInv`: as long as the terms of an
  order stay the same, what the tracker has allocated is within half a unit of the share of
  what was received, so what the last receipt takes is not negative and is exactly the rest; a receipt's unit costs are off
  by at most half a unit for each piece, which bounds what all of them capitalise. An open order always has
  a line to come, so some receipt is the last one. All handlers but receipt and change of status
  are summarised by one relation (`Revised`).
* `SchedulingProofs`: `PrinterComesBack`, from `MaintenanceInv`: types, and that only
  a cancelled window is marked as never flipped (`MarkedIsCancelled`). `NoDoubleBooking` and
  `RoutingIsKept`: `PlanOK` states the promises of pairs of
  rows, so that each handler is judged by the one row it changes, and `WindowsOK` adds that a window that
  blocks has a length. `EarliestSlot`: the largest end of the
  bookings before a gap is the earliest free time, whether or not bookings overlap.
* `CompletionPostingProofs`: `RowsJournaledOnce` from `JournalInv` (types; one sweeper at a time;
  what is swept is visible, has no entry yet and is of the sweeper's own or committed; committed rows
  keep their entries; an entry's rows point back at it). One sweeper at a time is what the
  advisory lock gives. `AcceptedFirst` from `AcceptInv`, which needs that the script posts nothing.
  `StockPostedOnce` from `ReceiptInv`: what a session has read of the order is what is there and
  what it has checked still holds, as long as nobody committed over it. `WorkInProgressClears` from
  `WipInv`: a sweep counts no more scrap than the recorded credits, and one that shows the receipt counts
  all of it, unless some came late. `EntriesComeWhole` (`Spec => RefinesJournal`) adds `BookInv` to
  `JournalInv`: only consumption and receipts are swept, and a row not in use holds nothing. Posting and
  aborting are then stutters of the book, because they touch only rows that are not committed; a commit
  after a sweep is its `Journal` step, because the rows swept are still there at the same cost and
  without an entry, which is what makes the two sums equal (`CostIsTotal`).

Assumptions: those named in the modules (a routing of at most two operations, positive bounds,
distinct null values, natural costs, finite sets where something is summed
over them, and, for `InventoryPosting`, `sum(quantity) == on_hand` at the start).

`RequestsUseUpTheirSteps` alone assumes that the rows are finitely many.

Only model-checked: liveness (`EveryRequestEnds`, `EventLoopFreed`), for which the provers have no
rules. The properties that say who may go on are stated by the guards of the actions, not with
ENABLED; on the instances of the runs TLC finds the two equivalent.
Every other property of a passing run is the conclusion of a theorem.

## 6. Where documents and code part

`find_VoidedPaymentUncounted` is a run in which TLC finds the counterexample.
`endpoints/payments.py:505` voids a payment and its comment (`:511`) says that it no longer
counts, so that the invoice drops back off paid; `payment_service.py:488` sums the payments by a query, and the
session was made with `autoflush=False` (`db/session.py:33`), so that the sum still has the payment
in it and the invoice stays paid.

These were met on the way. The actions that lead to them are in the models; no run is
spent on them.

Production and inventory:

* A short close "completes the order at the actual quantity" (`docs/user-guide/production.md:408`):
  `receive_finished_goods` receives the ordered one (`inventory_service.py:2033`).
* "Inventory has been updated" (`docs/user-guide/production.md:283`): QC failed and then passed
  completes an order that was never received (`production_order_service.py:852`).
* A consumption is held because it "would cause negative inventory" (`models/inventory.py:132`):
  the order's own reservation is counted against it (`inventory_service.py:493`).
* Posts serialize (`inventory_ledger.py:66`): the policy check reads the row before the lock
  (`inventory_service.py:486`), and the repair sums before its lock
  (`reservation_reconciliation_service.py:437`, `:454`).
* Releasing un-allocates "materials that were reserved" (`inventory_service.py:1058`):
  after a split, or after a second release, more is released than was ever reserved.
* `complete` is a terminal status (`core/status_config.py:59`): a failed inspection
  moves a complete order to `qc_hold`.
* Reservations of terminal orders can be repaired (`reservation_reconciliation_service.py:50`):
  `scrapped` is terminal, keeps its reservations when `record_scrap` sets it, and is not on the list.
* Scrap is capped at the ordered quantity (`production_order_service.py:1129`): bulk
  completion adds its own on top of what was recorded.
* Creating an order reserves its materials (`docs/user-guide/production.md:327`): the
  rows of the last operation are not flushed when the reservation query runs. Releasing
  the order heals it (`ReserveMissing`).
* A rejected movement never touches on-hand (`inventory_ledger.py:320`): a voided row
  can still be approved, which applies it.
* Accept-short consumes in proportion (`docs/user-guide/production.md:421`): remaining
  material rows are consumed whole.
* A complete operation is "Terminal" (`core/status_config.py:105`): scheduled again, it can be reported
  anew. The order, in progress, can then be bulk-completed, which receives it a second time; cancelled and closed
  orders are worked on again the same way. Finishing the operation again with
  all pieces completes the order without a second receipt, because its end is set; what was
  reserved since is then not released.
  With fewer pieces it makes the order short with its goods in stock, of which `production_order_execution_service.py:193` says
  that "No inventory transactions have happened yet at that point" (and `docs/user-guide/production.md:412`
  likewise). Both decisions on a short order look for a receipt and refuse.
* A refresh of the routing asks that no operation has begun (`production_order_service.py:399`):
  a complete one that was scheduled and taken back to pending passes, and its consumed rows are deleted.
* A finished order enters `short` by itself (`docs/user-guide/production.md:412`): not
  when scrap at a reported operation skipped the rest (`scrap_service.py:440`).

Sales:

* Portal orders shipped by `ship_order` or a bought label relieve no stock.
* The approval of a held shipment books no cost entry, although the comment in
  `sales_order_fulfillment_service.py` (near line 113) says that the approval "reposts the cost".
* An order all of whose movements were held counts as not shipped for
  `TransactionService.ship_order`; a legacy QC pass reopens shipped orders. The latter
  relieves stock a second time.
* A work order taken up again and reported with fewer pieces takes `quantity_completed` down
  (`operation_status.py:517`) and is not synced: the line keeps more allocated than was made.
* Accept-short does not sync the sales order; the sync after a bulk completion
  misses the work order just completed (autoflush again); a cancelled sibling blocks
  `ready_to_ship`.
* Legacy QC failure scraps finished goods that were never received; the legacy start
  writes reservation rows of negative quantity (`endpoints/admin/fulfillment_queue.py:614`).

Billing:

* PATCH /invoices has no lower bound on `amount_paid` (`schemas/invoice.py:29`): a negative one
  takes the net below what was refunded, past every check. Zero, or any amount that leaves the sum at
  zero or less, recorded for a voided draft posts its receivable and leaves it voided (`payment_service.py:477`).
* Concurrent recorders lose an update of `amount_paid`, despite `payment_service.py:443`.
* Sending or paying under way takes a voided invoice out of its terminal status; two
  sends post the receivable twice; two creations make two invoices.
* A draft becomes `partially_paid` by the resync, without a receivable. A payment set to
  completed by PATCH is posted only later; completed, voided and completed again, it
  stays reversed.

Purchasing:

* Freight is capitalised "EXACTLY ONCE" (`purchase_order_service.py:552`): deleting or
  reducing the last open line leaves a rest that nobody takes, and the order can then be
  closed only by an empty receipt. A final receipt of a line of zero cost leaves it too; edits of
  costs between receipts may allocate too much.
* The totals are recomputed after a delete that is not flushed and keep the deleted line (`:66`).
* `received -> cancelled` is allowed and keeps the stock.
* The incoming statuses of a run omit `shipped`, which `supply_netting.py:25` counts; a
  firmed order is not netted and is planned again; a failed run commits its deletions.

Scheduling:

* The schedule endpoint has no status check (its effects on orders are above); schedule, dispatch and auto-schedule do not
  look at successors; auto-schedule takes a running operation back to the queue.
* A completed operation that comes back takes its old slot, whoever got it since.
* `cancel_window` goes by the status alone: a window that has begun and was not synced
  leaves its printer in maintenance. Of adjacent windows the second forgets the first
  one's prior status; an expired window takes away a maintenance set by hand.
* `create_window` does not look at bookings; a start without an override does not check
  that the machine is busy.

Completion entries:

* 1210 "nets to exactly zero" (`production_gl_service.py:28`): not where scrap of labour
  alone left no record, where scrap came after completion, or where a second sweep
  (backfill of an unfinished order, overlapping completions) counts scrap again.
* A held consumption is of type `negative_adjustment`, and the sweep, which provides for
  approved held rows, asks for type `consumption`: it is never journaled.
* "A poster failure rolls everything back together" (`production_gl_service.py:394`):
  `update_po_status` swallows a failing completion and commits the order as complete
  without receipt (`operation_status.py:218`).
* An order closed as scrapped can be scheduled, started and scrapped again; its second close finds no
  rows (`production_gl_service.py:431`) and the second scrap stays in work in progress.
* A stale start revives an order completed or closed in between, which then completes
  again; a stale report moves a completed order to `short`.
* A report without scrap resets the operation's scrapped quantity to zero.

## 7. Not modelled, and what could follow

Not modelled: spools, lots and traceability; items, bills of materials, routings and units
(bill lines and conversions, without a state machine of their own); quote pricing; quality plans; users,
licences and settings; import, export, notifications and reports; device I/O; the front end. Most
of the repository's lines are of this kind: pages and forms, endpoints that read and
render, seeds, imports and exports. They keep no state that the hazards of section 1
need, so the models cover the transactional core and a small share of all lines.

What could follow, in this order:

1. `ProductionOrders` as the abstract specification of `CompletionPosting`, for
   histories without an overlapping commit.
2. Lots and spools below `WorkOrderBooks`: FIFO consumption and its genealogy.
