# Verification of the Mayode system

TLA+ models of the back end of the Mayode system (`src/backend`, NestJS, Prisma and
PostgreSQL), the TLC runs that check them and the theorems the TLA+ proof system proves
about them, with the one client that keeps state of its own: the mobile app's queue of writes
made without coverage.

## How the back end works, as far as the models need it

* Every operation is an asynchronous handler.  The handlers of one process interleave at each
  `await`, and there may be several processes.
* Shared state is in PostgreSQL, at READ COMMITTED.  A `prisma.$transaction` commits or rolls
  back as a whole but other transactions commit between its statements.  What makes a
  transaction one step is a lock (`SELECT ... FOR UPDATE`, `pg_advisory_xact_lock`), or a
  claim: an `updateMany` whose `where` names the status it expects and whose count is checked.
* Many handlers read first and open their transaction later.  What they read is then a
  snapshot: it is what the models keep in a request, and most of the hazards come from it.
* Errors end a handler with an HTTP status; nothing is retried.  Scheduled jobs
  (`@Cron`) run in the same process and log their errors.

## Inventory

| Part | State | Operations | Hard behaviour | What makes it correct |
|---|---|---|---|---|
| Sale orders (`sale-orders/`) | `sale_orders`, `order_loads`, `stock_movements` | reserve, confirm, approve, load a truck, move a truck, complete, close short, cancel, expire | snapshots before locks, a claim with a compensating write, an hourly sweep | what an order holds is what it has still to load; no overselling; sale and order agree; every reservation ends |
| Cooperative sales (`sales/`) | `sales`, `invoices`, `payments`, apportionments | create, reduce, settle, collect | reads before transactions, postings after the commit | a sale is not changed once paid; the books follow the sale |
| Warehouse balance (`warehouses/stock.ts`, `batch-draw.ts`) | batch ledger, allocations, reservations | balance, lock, draw | two kinds of orders with two kinds of locks | the balance never goes negative |
| Operations orders and billing (`ops/sales-ops`, `ops/billing`) | `ops_orders`, `ops_invoices`, `ops_payments` | order, review, correct, invoice, void, pay, reconcile, authorise, revoke, cancel | provider callbacks and polling, repeated calls, checks made before locks | one live invoice; payments counted once; only paid orders are released; the books follow |
| Operations dispatch (`ops/dispatch`) | `order_allocations`, `ops_dispatches`, batch ledger | set aside, free, report a shortage, prepare, release, cancel, close short | reads before locks, repeated releases, orders competing for a batch | a load leaves once; set-aside rice is there; a closed order holds nothing |
| Operations stock (`ops/stock`, `receiving`, `processing`) | batch ledger, counts, transfers, runs | receive, process, count, transfer | concurrent approvals | the ledger is never negative, a transfer arrives once |
| General ledger (`accounting/`) | `ledger_entries`, `ledger_counters`, `accounting_locks` | post, reverse, close and reopen periods | revisions of what was posted, closed periods, concurrent postings of one source | the books hold one posting per record; numbers have no gap; a closed period does not change |
| Irrigation (`irrigation/`) | structures, water allocations, dues | allocate, revise, bill, pay | structure and period locks | water given does not exceed water available |
| Dues, charges, loans, credit, inputs | accounts, instalments, payouts | bill, pay, waive, apply, disburse, deduct | one account served by several desks | a payment is counted once, a balance is never negative |
| Authentication (`auth/`) | codes, refresh tokens | request, verify, refresh, revoke | retries, expiry, attempts | a code or a token is used once |
| Mobile offline queue (`mobile/src/services`, `idempotency.interceptor.ts`) | queued writes, local records, id map; receipts | save, queue, flush, discard, clear, sign in and out | lost answers, kills, repeated requests, storage awaited between check and change | nothing kept is lost or done twice, order is kept, the queue drains |
| Everything else | forms and master data | single-row writes | - | - |

`PROJECT.json` lists every component with its sources and every hazard with its line.

## Modules

| Module | Models |
|---|---|
| `SaleOrders` | the life of sale orders over one warehouse and one lot, with the part of `sales.service.ts` that acts on them and the operations orders that take from the same floor |
| `SaleOrdersProofs`, `SaleOrdersSalesProofs` | the theorems about it: stock and reservations, sales |
| `MCSaleOrders` | its small instance |
| `Books` | what posting promises: per business record, the lines of one posting |
| `Ledger` | the general ledger of one cooperative: postings, manual journals, reversals, entry numbers, closing and reopening; implements `Books` |
| `LedgerProofs` | the theorems about it, the implementation of `Books` included |
| `MCLedger` | its small instances |
| `OpsBilling`, `MCOpsBilling` | one operations order from review to release, its invoices, payments and what the ledger holds of them |
| `OpsBillingProofs`, `OpsBillingMoneyProofs` | the theorems about it: what counts once, and what adds up |
| `OpsDispatch`, `MCOpsDispatch` | operations orders that set rice of the same batches aside, load it and let it go |
| `OpsDispatchProofs` | the theorems about it |
| `OfflineSync`, `MCOfflineSync` | the phone's queue of writes and local records, the network, and the server's receipts |
| `OfflineSyncProofs` | the theorems about it |
| `FiniteSums` | lemmas about `SumFunctionOnSet` that the proofs about weights and money cite |

The modules meet where the code does: `SaleOrders` has the operations allocations as
`OpsAllocate`, `OpsPrepare`, `OpsDispatch`, `OpsCancelLoad` and `OpsRelease`; the module `OpsDispatch` has the accounts' side of an order
as `Authorize` and `PaymentConfirmed`, which `OpsBilling` models in full; and what `OpsBilling`
keeps as `books` is what difference posting makes of it, which `Ledger` shows.

### SaleOrders

One warehouse, one lot, any number of orders.  Kilograms are natural numbers; prices,
grades, people, vehicles and the event trail are left out.

| In the model | In the code |
|---|---|
| `order[o]` | a row of `sale_orders`; status `NONE` is a row not inserted yet, `credit` is `creditTermDays != null`, `override` is `releaseApprovedByUserId` |
| `sale[s]` | a row of `sales`: the order its confirmation was for, `quantityKg`, `paymentReceived` |
| `loadedKg[o]`, `trucks[o]` | the sum and the statuses of the `order_loads` rows |
| `held[o]`, `reservedKg` | RESERVE less UNRESERVE in `stock_movements`, per order and over the warehouse |
| `onHandKg`, `allocatedKg` | the batch ledger of the warehouse (its sellable batches pooled) and what `order_allocations` still set aside |
| `prepared[kg]` | operations loads of that weight that are PREPARED |
| `strayKg` | history: what operations loads took beyond what was set aside for them |
| `req[w]` | a request in progress: the step it is at and what it has read |
| `raced`, `died`, `errors` | history: orders on which two requests overlapped, orders on which a request died, confirmations that threw |

A request reads in one step and acts in later ones.  `Reserve`, `Cancel` and `ExpireStale`
are one step each: all they decide is decided under the warehouse lock (what `cancel` and the
sweep read before it, the ordered weight, cannot change while an order is RESERVED).
`confirm` is five steps (read, claim, create the sale, link it, or put the order back),
`loadTruck` two (read, load under the lock), `closeShort` four (read, the read and the write
of `reduceQuantity`, claim under the lock), `setLoadStatus`, `complete`, `approve` and
`settle` two.  `ConfirmError` is any failure of `sales.create` or of the linking transaction,
before or after the sale is committed.  `Crash` ends a request between two steps.

`OpsAllocate`, `OpsPrepare`, `OpsDispatch`, `OpsCancelLoad` and `OpsRelease` are what operations
orders do to this floor.  `prepare` counts what is set aside and the loads prepared without a
lock, so that two loads may be prepared from the same set-aside rice.  `release` checks only that
the weight is on the floor and then takes from the allocations what they have left, so the second
of the two leaves with rice that was never set aside for it.  The model has no operations orders
of their own, so `OpsDispatch` lets a load take any part of its weight from the allocations; which
loads can really be prepared is in the module `OpsDispatch`.

Left out: the existence and tenancy checks of `reserve`, the transport mode's consistency with
the order, the dispatch document and inventory statuses `loadTruck` and `closeShort` also
write, farmer payouts (`paid` stands for "money has moved").  New stock coming in is left out:
it only makes room.

**Properties.**  `HoldMatchesOrder`, `NeverOversoldBySaleOrders`, `AllocationsStayCovered`,
`LotNotOversold`, `SaleMatchesOrder`, `OneSalePerConfirmation`, `CompletedMeansDelivered`,
`CancelledIsClean`, the action property `TrucksAreAllowed`, and the liveness property
`ReservationsEnd`.  Each is stated in words above its definition.
`NeverOversoldBySaleOrders` and `AllocationsStayCovered` count what operations did to the floor
without regard to reservations or allocations (`opsKg`, `strayKg`) against them: what they say is
that sale orders add nothing to it.

Those that exclude `raced` orders (`HoldMatchesOrder`, `SaleMatchesOrder`, `CompletedMeansDelivered`)
hold only while requests on one order do not overlap, because the code reads before it locks.  What
an overlap does, and no property of a passing run rules out: a truck loaded during a short close
leaves with more than the order says, and its weight leaves the reservation twice
(`sale_orders_close_race`); a short close whose second transaction is refused, or whose process dies before it, leaves the sale
smaller than its order; a departure written late overwrites the delivery of a truck, also after
the order was completed; and a sale settled between the check and the transaction of
`reduceQuantity` is shrunk although it is paid (`sale_orders_paid_shrunk`).

**Fairness.**  `FairSpec` assumes that the sweep reaches an order that stays RESERVED (a job
runs hourly and takes every such order past the cutoff, `sale-orders.scheduler.ts`) and that a
request that has begun is driven on (an event loop does not starve a handler).  Nothing is
assumed about people: no request has to arrive, no truck has to move.

**Bounds.**  `MaxTrucks` trucks per order, `MaxErrors` failing confirmations, `MaxDeaths` orders
with a dead request, `MaxOpsKg` kilograms of operations allocations, `MaxOpsLoads` operations
loads of one weight prepared at a time; all in the guards.  Orders
of three kilograms with trucks of one or four and a tolerance of 34 % (run `sale_orders_races`)
and orders of two or three with trucks of one or three and one of 50 % (`sale_orders_stock`) make every case of
the tolerance happen: under, short but complete, exact and over, and beyond it.  The floor and
the lot of `sale_orders_stock` hold four kilograms, less than two orders may ask for.  Its one
kilogram of operations allocations and two prepared loads make two loads leave from one allocation.

| Run | What it asks | Result |
|---|---|---|
| `sale_orders_races` | one order, two requests at once, one failing confirmation | holds |
| `sale_orders_stock` | two orders, operations allocations and loads on a floor and a lot too small for all, one dead request | holds |
| `sale_orders_close_race` | a short close leaves the order at the weight that was loaded | violated: a truck loaded between the reads and the claim of `closeShort` |
| `sale_orders_oversold` | "reservations cannot oversell" (`warehouses/stock.ts:38`) | violated: operations allocations do not look at reservations |
| `sale_orders_paid_shrunk` | a reduction is "refused once money has moved" (`sales.service.ts:404`) | violated: the sale is settled between the check and the transaction |
| `sale_orders_stuck` | a reservation nobody confirmed returns (`sale-orders.service.ts:967`) | violated: a process that dies between the claim and the link |

**Proved** (`SaleOrdersProofs`, for every value of the constants that satisfies the three
assumptions: finitely many orders, natural stock, positive weights, natural bounds).

* `TypeCorrect`, `StockNeverOversold` and `AllocationsCovered` from `StockInvariant`.  The
  stock invariant needs `NeverClosesUpwards`: a request never remembers more loaded than
  ordered, so a short close only gives rice back, whatever has changed since it read.  Operations
  loads lower the stock on hand and the allocations by different weights, and the difference is
  what `strayKg` records.
* `HoldsMatchOrders` from `HoldInvariant`: an order nobody raced for is served by one worker
  (`ServedAlone`), so what that worker read is still so when it acts (`SnapshotsHold`); an order
  is loaded only once confirmed and not beyond its weight while open
  (`LoadedAfterConfirmed`); an order not yet reserved has nothing (`NothingBeforeReserved`).
  The invariant is about each order separately (`HoldAt`): a step either acts on the order or
  leaves its rows and its requests as they are (`HoldFrame`).

`SaleOrdersSalesProofs` has the rest, from the same assumptions.  A step is about another order and
leaves this one alone (`Apart`), or it is one of its own (`StepOn`).

* `CancelledOrdersAreClean` and `TrucksLeaveAllowed` from `Links`, which holds of raced orders too.
  An order without a sale is at the beginning or cancelled, has no trucks and holds its whole
  weight or nothing (`Unsold`); an order with one is past its confirmation and the sale is its own
  (`Sold`).  That is not inductive without what a request may rely on when it acts, whatever other
  requests have done since it read (`Trusted`): the weight of an order only changes in a short
  close, which ends its loading; a payment or an approval is never taken back; one confirmation at
  a time has claimed an order (`OneClaim`), and until it links its sale or gives up the order stays
  CONFIRMED without one.
* `OneSaleEach` from `CountAt`: an order that is not claimed, or whose confirmation is about to
  create its sale or has just failed, has at most as many sales as confirmations failed.
* `LotStaysWithin`: a reservation looks at the sum of the live orders under the lock, and no other
  step makes an order count for more (`CountsNoMore`; a short close needs `NeverClosesUpwards`).
* `CompletedAreDelivered` and `SalesMatchOrders` from `UnracedInvariant`, about orders nobody
  raced for: what `complete`, `setLoadStatus` and `reduceQuantity` read is still so when they write (`StillReads`), and the sale has the weight of its order, or, between
  the two transactions of a short close, what was loaded (`Billed`).

Only model-checked: `ReservationsEnd`, since the prover does not reach liveness.

### Ledger

One cooperative (counters, locks and journals are kept per cooperative).  Transactions run at
READ COMMITTED; `pc[t]` says how far transaction `t` is and `job[t]` what it is booking.

| In the model | In the code |
|---|---|
| `journals` | the `journal_id`s of `ledger_entries`: kind, source, revision, day, number, what it reverses, the accounts of its lines |
| `booked[s]` | the sum of the lines of all rows of `s`, which is what `postToLedger` reads; rows are never edited or deleted (a trigger) |
| `lastValue[y]` | `ledger_counters` |
| `closedThrough` | `accounting_locks`, 0 for no row |
| `closing[a]` | a close or reopen that has read and checked the lock and has not written it |

`postToLedger` is the path locking, dating, numbering, inserting, inserted: it takes the
advisory lock of its source and reads its rows (`ReadSource`), reads the closing lock
(`DateJournal`), takes the number (`NextNumber`, which holds the counter row), inserts
(`InsertRows`, where the period trigger and the unique indexes are) and commits.  A manual
journal and a reversal join at dating.  A reversal looks for an earlier one before its
transaction begins.  `RollBack` ends a transaction at any point: a timeout, a lost connection,
or the failure of the caller's own transaction, which the posting may run in.  A transaction
books one source; callers that post several in one transaction are several such paths that
commit together, which matters to no property here but `PostingsEnd` (see below).

Days are small integers and years a fixed number of days.  Lines are functions from accounts to
whole amounts; unbalanced lines are refused before anything else (`accounting.service.ts:171-176`
and a deferred trigger), so the inputs are balanced ones, and the check that the books balance
before a close always passes.  Random journal ids are alike, so the least unused one is drawn.

**Properties.**  `ImplementsBooks` (the books hold the lines of one posting of each record,
whatever is posted again, concurrently or after a failure), `NumbersGapFree`,
`RevisionsInOrder`, `ReversedAtMostOnce`, `EveryJournalCounts`, and the liveness property
`PostingsEnd`.

**Fairness.**  PostgreSQL serves the waiters of a lock in turn, so a transaction whose next step
is possible again and again takes it (strong fairness of `Advance(t)`).  No request has to
arrive.  `PostingsEnd` does not cover callers that post several sources in one transaction: they
take further source locks while holding the counter row, and PostgreSQL breaks such a wait by
rolling one of them back.

**Bounds.**  `MaxJournals` counts journals and transactions in progress.  Two transactions and
three journals allow a posting, its adjustment and its cancellation to race, and a manual
journal with two reversals of it; the two postings have no account in common, so that the unique
index on revisions alone does not keep them apart.  Two days in two years make a posting in a
closed period change its year, and with it its counter.

| Run | What it asks | Result |
|---|---|---|
| `ledger_books` | two transactions on one record, three journal ids, one administrator | holds |
| `ledger_closed_period` | "once a period is closed nothing can be posted on or before its last day" (`period-lock.service.ts:9`) | violated: rows inserted before the close commit after it |
| `ledger_close_order` | "closing moves forward month by month; reopening needs a reason and is recorded" (`period-lock.service.ts:9-10`) | violated: of two closings at once the one that writes last wins |

**Proved** (`LedgerProofs`, for every value of the constants: any sets of transactions,
administrators, records, accounts and balanced or unbalanced integer lines, any calendar; the
journal ids are natural numbers and no records).  All of it from one inductive invariant,
`IInv`.  The rows alone are not inductive: that a commit gives its source the desired lines
needs `ReadsStillHold` (what a transaction read of its source is still so when it commits), which
needs `SourcesExclusive` (the advisory lock); that numbers have no gap needs `NumberIsNext` (the
counter row is held to the end); that a reversal is the only one needs `ReversalsExclusive` (the
unique index) and `RowsAddUp` (a journal id has no rows before its journal).  A step that writes
no row keeps the invariant when its own job is in order (`MoveKeepsJobs`); `CommitFacts` says
what a commit changes.

* `LedgerImplementsBooks`: every commit of a posting is the `Post` of its lines in `Books`, and
  every other step is not seen there.
* `NumbersNeverGap`, `RevisionsStayInOrder`, `ReversalsHappenOnce`, `JournalsCount`,
  `TypeCorrect`.

Only model-checked: `PostingsEnd`.

### OpsBilling

One order with any number of invoices and payments; amounts are natural numbers.

| In the model | In the code |
|---|---|
| `order` | a row of `ops_orders`: `status`, `total`, `amountPaid`, `paymentStatus`, `fulfilState` (only whether it is released), `authorizationOverride` |
| `inv[i]`, `pay[p]` | rows of `ops_invoices` and `ops_payments`; `times` counts confirmed rows of one reference, which the unique index keeps at one |
| `books[i]` | what the ledger holds for an invoice and its payments after `book` |
| `lock[i]` | the row lock `lockInvoice` takes |
| `tx[t]` | a request under way: what it is, on what, and the payments it has added up |
| `answer`, `notice` | external: what a customer did with a prompt, what a bank will report, as often as it likes |

Each request is a read and a write.  Taking money in (`recordPayment`, `handleCallback`,
`confirmPending`, `reconcileClickPesa`) locks the invoice between the two, so its read and its
write see the same payments; everything else (void, cancel, issue, correct, authorise, revoke)
writes what it decided on its read, with the claims the code has.  The unique index on provider
and reference is `Counts`.  A prompt is sent before its row exists, as in the code, so a request
that dies in between leaves a customer asked and no row.  `Crash` ends a request anywhere; the
database rolls back and frees its lock.  The checks that concern dispatches are in `OpsDispatch`.
A customer may also pay another amount than the prompt asked for: the reconciliation then tells
people and leaves the payment PENDING (`LeaveMismatched`), to be asked about again on the next pass
until accounts confirm or reject it, or for good.  Left out: control numbers, sharing, the
one-shilling tolerance, the job's window (payments between one minute and three days old) and its
limit of 100 payments in one pass, which payments that stay pending count against.  The code names
a prompt by the invoice and the number of its mobile-money rows plus one, so that of two prompts
sent before either row is written the second one's row is refused (unique index); the model's
prompts have references of their own, and a prompt whose row is never written is one whose request
died.

**Properties.**  `TotalsAgree`, `EachPaymentCountsOnce`, `OrderShowsItsMoney`, `ReleasedIsPaid`,
`OneInvoiceInForce`, `BooksFollow`, and the liveness property `PendingIsSettled`.  Four history
variables name what the code lets happen, so that the properties say what holds otherwise:
`overlapped` (two requests to invoice at once issue an invoice each, nothing claims the order),
`revived` (a prompt confirmed on a voided invoice makes it live again: neither `confirmPending`
nor the reconciliation looks at the status), `unbooked` (invoices voided with their order:
`cancel` sets them to VOID at `sales-ops.service.ts:274` without calling `book`, and nothing books
them later, so their revenue and debt stay in the ledger, although "a void invoice or a rejected
payment books nothing", `billing.service.ts:185`) and `lateEdit` (a correction of a returned order written after it was sent back and
approved).

`PendingIsSettled` is about prompts paid as asked or refused: one that was collected with another
amount stays as it is.

**Fairness.**  The job runs every ten minutes and asks about every pending payment in turn (within the
window and the limit named above), hence strong fairness for each prompt; a transaction that holds or waits for an invoice's lock ends (PostgreSQL serves waiters in turn, hence strong
fairness for the job's lock).  The customer need not answer and nobody else need act.

**Bounds.**  Two invoices; an order of 3 paid by a slip of 1, a prompt of 2 and a transfer of 2
with one clerk, the job and one crash; an order of 2 with a transfer and two clerks.  The totals to
correct to are 2 and 3.  That makes part payment, overpayment, voiding, a second invoice and
every pair of requests happen.

| Run | What it asks | Result |
|---|---|---|
| `ops_billing` | the properties above | holds |

**Proved** (`OpsBillingProofs`, for any invoices, payments, amounts and clerks that satisfy the
module's assumptions).

* `PaymentsCountOnce` from `PaymentInvariant`: requests, payments and notices refer to rows there
  are, and every row has the count its status calls for.  No write depends on what its request
  read before: a row is confirmed or rejected only where its `where` or the unique index still
  finds it open.
* `OneInvoice` from `InvoiceInvariant`: besides the one above, while no two requests to invoice
  overlapped and no void invoice revived, an order has at most one live invoice or one request to
  issue one, never both (`Single`).

`OpsBillingMoneyProofs` has the rest, under the same assumptions.  A step is one of six kinds
(`Kinds`): it begins a request, takes an invoice's lock, writes what was read without the lock,
books money under the lock, dies, or happens outside.

* `TypeCorrect` and `InvoicesShowTheirMoney` from `Shape`, `LocksHeld` (a request that writes money
  holds its invoice's lock, and nobody else does), `PromptsOnce` (a prompt is sent once, so its row
  is never written over) and `SeenUnderLock`: what a request added up under the lock is still the
  money there when it writes.  That is what the lock of `lockInvoice` is for, and without it a
  total is lost.
  With it an invoice shows the payments confirmed for it (`PaidIsMoney`).
* `OrdersShowTheirMoney`: an order whose money is on one invoice shows that invoice's payments.
* `BooksFollowInvoices` from `BooksHold`: after every step the books hold what an invoice asks for and
  what was paid on it, except for invoices voided with their order.
* `ReleasedOrdersArePaid` from `Releases`: an order under review has no invoice (`NoneInReview`),
  invoices are for the order's total unless it was edited late (`ForTheTotal`), and an order that
  says it is paid, or is about to be released, has an invoice paid in full (`SaidIsPaid`).  Once there
  is one there always is: a total never changes and money is never taken back.

Only model-checked: `PendingIsSettled`.

### OpsDispatch

Any number of orders of one line, batches in one warehouse.

| In the model | In the code |
|---|---|
| `order[o]` | a row of `ops_orders` from INVOICED on, `sent` its line's `dispatchedQty`, `paid` whether its `paymentStatus` is PAID |
| `alloc[a]` | a row of `order_allocations`: `quantityKg`, `dispatchedKg`, `releasedKg` |
| `load[d]` | a row of `ops_dispatches` with its line |
| `stock[b]` | the sum of the batch ledger at the warehouse |
| `tx[t]` | a request under way and what it has read |

A request reads and writes in two steps (`prepare` in three: the order, the loads prepared, the
new load).  `allocate` checks the batch and `release` the dispatch and the physical stock under
locks, in their second step; what a line still needs, what is loaded already and what state the
order is in are read in the first.  The state of the order is worked out again at the end
(`Refreshed`).  Left out: several lines and warehouses, a dispatch of several lines (all of one
transaction), blocked batches, proof of delivery, the postings of `stock-accounting`.

**Properties.**  `LoadsLeaveOnce` and the types hold whatever requests cross.  `SetAsideIsThere`
holds while requests on one order do not overlap, whatever those of other orders do; `OrderInBounds`
and `ClosedHoldsNothing` are about the orders whose own requests came one after the other
(`raced` remembers the others).  The code takes no lock on an order, and two overlapping requests
on one order can set aside more than it needs, load the same rice twice, or put a released or
closed order's rice back.  `CompletedIsDelivered` names two more things to know: an order closed
short is completed (`short`), and one delivered under an override and paid afterwards stays
INVOICED for good, because only `release` completes an order (`paidLate`).  Two further
observations: `closeShort` leaves loads that are still PREPARED, which can then never be released,
only cancelled; and `reportShortage` says SHORTAGE of an order whatever has been delivered since it
was read, until the next operation on the order works its state out again.

**Bounds.**  `Days` has two instances: two orders after the same kilogram, each with two
requests at once, and one order of two kilograms with three allocations, two loads and two
requests at once.  Symmetry of equal orders, loads and requests is used; the run checks no
liveness property.

| Run | What it asks | Result |
|---|---|---|
| `ops_dispatch` | the properties above | holds |

**Proved** (`OpsDispatchProofs`, for any orders, allocations, loads, batches and requests that
satisfy the module's assumptions): every property of the run, from one invariant of five parts.

* `Shape`: the types, and rows and requests refer to rows there are.
* `LoadsLeaveOnce` is inductive with `Shape` alone: stock and `sent` move by the weight of one load
  in the step that releases it, whose status is read again under the lock (`LeavingOnce`).
* `OrdersInTurn`: an order whose requests came one after the other has one request at a time, and
  what that request has read is still `Current` when it writes.  Without it the bounds of an order
  are not inductive, since `allocate`, `prepare`, `closeShort` and the ways to give rice back trust
  what they have read.  `BoundedOrders` and `NothingHeldAfterwards` follow from it.
* `InStock`: a batch holds what is set aside of it, while no two requests on one order overlapped
  (`SetAsideStaysThere`; the batch is checked under its lock, so requests on other orders may cross).
* `Delivered`: an order is completed when it has been delivered and paid, or closed short, and then
  only (`CompletedAreDelivered`).

The sums over allocations and loads are handled by the lemmas of `FiniteSums`.

### OfflineSync

One phone with one account, one server process, any set of writes.

| In the model | In the code |
|---|---|
| `queue`, `ids` | the account's pending mutations and `mayode.ids` in AsyncStorage: they survive the app |
| `offline[c]`, `copy[c]` | the local row of a created record under its `offline-...` id and under the server's: which write it shows as pending |
| `byLocalId` | queued writes whose url or data still name a local id |
| `flush` | `running` and the loop over the snapshot of the queue |
| `discarding` | a discard or clear under way: what it asked for and whose rows are still to be removed |
| `gaps` | history: how often a write was handled without leaving a receipt |
| `crossed`, `overtaken`, `direct` | history: writes whose discarding crossed a flush, their own saving or a sign-out; writes replayed or cleared while still being saved; writes sent at once |
| `req[a]` | requests: on their way, waiting behind another of the same key, at the handler, answered, or given up by the phone |
| `pending`, `receipt`, `handled` | the interceptor's map, `sync_receipts`, and how often the handler committed |
| `write[m]` | what the user was told: sending, kept, saved, synchronized, refused, discarded |

A save is sent at once (`SaveOnline`) or queued (`SaveOffline`); a direct request without an
answer is queued under the same key (`DirectGivesUp`), and its first copy may still arrive.  A
write is in the queue before its row is staged (`Stage`), so a flush may meet it in between.
A replay is answered (`ReplayOk`, which also stages the edits still queued for the record),
removed (`RemoveSynced`) or fails and stops the flush (`ReplayFails`).  Discarding is several
steps: the checks (`AskDiscard`, `AskClear`), the removal of each row (`DiscardRow`) and the change of
the queue (`Discard`), and a flush may start between any two of them; the lookup and the removal of
one row are one step, and, as a bound of the model, one discard or clear is under way at a time.
`PhoneDies` keeps what is on disk; `ServerDies` drops the map and every request in progress.
`Handle` is the commit of the handler and `Record` the writing of its receipt afterwards, which may
fail: the request then ends in an error although the write was carried out.  `Arrive` takes the
arrival of a request and its look at the receipts as one step: nothing is decided between them but
by the requests it would wait behind.  The interceptor refuses a known key with another body, which
this app never sends: a key belongs to one write and its body is what was saved.  Left out: photos
(sent with the request), token renewal, the lists the read cache keeps, more than one account.

**Properties.**  `NothingLost`, `AppearsOnce`, `PendingRowsAreQueued`, `ReplaysInOrder` and the
liveness property `QueueDrains`.  What they except is what the code does:

- a write whose receipt could not be stored, because its `create` failed or the server died before
  it, is carried out again when it is repeated, which "each record appears once on the server"
  (`docs/field-mobile-implementation.md:33`) does not allow for (`gaps` counts how often);
- `clearAll` also empties writes queued after it read the queue, and a write replayed while it is
  being staged keeps a pending row (`overtaken`);
- `flush` does not look whether a discard is under way.  One that starts between the check of
  `running` (`sync-queue.ts:161`, `:180`) and the change of the queue still sends what was discarded,
  although the user was told "It will not be sent to the server." (`i18n.ts:1371`), and its staging
  can put back a row just removed, which then stays pending with nothing queued (`crossed`);
- a write sent at once may pass queued ones (`direct`);
- discarding an edit queued under a local id after its record has arrived leaves the record's row
  marked pending;
- a record the app was killed with while it sent it for the first time was never said to be kept,
  and is not.

**Fairness.**  The phone's timers and promises and the server's go on (`PhoneWorks`,
`ServerWorks`); users, sessions and failures owe nothing.  `QueueDrains` is for a first write
that can be delivered: one the server refuses, or one that names a discarded record, stays in
front until the user discards it, and everything behind it waits.

**Bounds.**  `mishapsLeft` counts lost connections, deaths, failures and sign-outs.  `Days`: one
new record with three mishaps; a record and its correction, and a record and a child the server
refuses, with one each; two unrelated records, one of them refused, with none.  Two requests at a time: one
that was given up and the one that repeats it.

| Run | What it asks | Result |
|---|---|---|
| `offline_sync` | the properties above | holds |

**Proved** (`OfflineSyncProofs`, for any writes, any number of requests at a time and any
mishaps): `WritesAppearOnce`, from `ReceiptInvariant`.  That a write is handled once but for its
gaps is not inductive: it takes `WorkIsPending` (the map of running work names the one request that
works on a write, and only while it has no receipt) and `Counted`: the handler has committed exactly
once for each gap and once more when there is a receipt or a request on its way to writing it
(`AtReceipt`).  The phone's steps are covered by one fact, `SameWork`: they put no request at the
handler and take none away.

The other theorems (`TypeCorrect`, `NothingIsLost`, `PendingRowsStayQueued`, `ReplayedInOrder`)
rest on `PhoneInv`, which relates the phone to the server.  None of the properties is inductive:

- *Nothing lost*: `WriteAt` ties what the user was told to the queue in both directions (a write
  is queued only while it is being staged or kept), so that a write about to be queued is not in
  the queue or the running flush; and `FlushState` says that what the flush is about to remove was
  carried out.  `SlotAt` carries the commit from the handler to the answer.
- *Pending rows*: `RowAt` says under which record a write's row may be, which is what makes
  `Reconcile` and `DiscardRow` find it, and that the write just synchronized has left both rows.
  Between a discard's removal of a row and its change of the queue the write is queued without a
  row: `DiscardState` says that what has been removed stays removed until the discard ends
  (`RowGone`), unless a flush, a sign-out or its own saving crossed it.
- *Order*: the property speaks of the queue when the handler commits, long after the request was
  sent.  `FlushOrder` compares the queue with the flush's snapshot: what stands in front of a write
  of the snapshot is done or in front of it there too.  `FrontIsDone` is what a request then
  carries: from the moment it is sent, nothing undone is queued in front of its write, and nothing
  can get there, since writes are only appended and a begun write is never queued again.

That removing writes from the queue keeps the others in their order (`QueueShrinks`) is proved from
`WithoutIs`, by induction over the positions of the queue (`CountUp`).  For it `Without` is
written as a function of the position: the provers know nothing of `SelectSeq`.

Only model-checked: `QueueDrains` (liveness).

## Plan

1. `Documents`: the customer invoices and bills of `accounting.service.ts` (create, pay, void) as
   clients of `Books`, whose postings follow the commit of the row: what a race of pay and void,
   or a crash between the row and its posting, leaves on the books.  `Ledger` implementing `Books`
   lets it use the two actions of `Books` instead of the transactions of `Ledger`.
2. `StockMoves` (counts, transfers, receiving and processing over the batch ledger),
   `Irrigation`, `Otp`, `Loans`, in that order.
3. In `SaleOrders`, `OpsBilling` and `OpsDispatch`, exclude from a property only the overlaps that
   really break it (a short close over a truck, say, and not two trucks) instead of every order on
   which two requests overlapped, so that the runs and theorems speak of the harmless ones too.

## Not modelled

Master data, reports, messaging, user interfaces and outside services (see `PROJECT.json`):
single-row writes, pure input and output, or code without interleavings of its own.
Floating-point rounding of kilograms and money (`r2`, `r3`) is left out: the models count whole
units.
