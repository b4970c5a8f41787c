# TLA+ models of the supermarket checkout ecosystem

Three NestJS services share one pattern: an HTTP request or a Kafka message
runs a use case in one PostgreSQL transaction, the transaction stores an event
in the service's outbox table, and a relay brings the event to Kafka, where the
other services consume it.

    HTTP -> checkout-service  --SaleCompleted, SaleCanceled, RegisterClosed--> inventory, management
    HTTP -> inventory-service --InventoryLossRegistered--> management;  ProductReceived, LowStockAlert
    HTTP -> management-service --ProductPriceUpdated--> checkout;  NewProductRegistered, EmployeeRegistered

This directory models the three services: which states their tables may reach
when requests overlap, fail and are repeated, whether every event arrives, and
whether the services agree once it has.

Modules, bottom up (an arrow reads "is built on"; the abstract specifications
that are implemented are on the right):

    Checkout -> Sale                                    implements SaleEvents  (in CheckoutEvents)
    CheckoutHistory -> Checkout                         (history variables: who lost a race)
    OutboxRelay
    InventoryStock -> SaleEvents, StockItem             implements SaleBooks
    ManagementLedger -> SaleEvents                      implements SaleBooks
    SaleFlow -> InventoryStock, ManagementLedger        (both, over one SaleEvents)
    CatalogSync -> MasterData                           implements LatestPrice

## Inventory of the system

| Component | State | Operations | What makes it correct |
| --- | --- | --- | --- |
| checkout: sale aggregate | one sale with its items, payment, dates | start, addItem, removeItem, registerPayment, complete, cancel, rehydrate | totals are the sums of the lines, payment covers the total, only legal status changes |
| checkout: sales and sessions | `pos_sessions`, `sales`, `sale_items`, `outbox_events` | open/close session, start sale, add/remove item, pay, complete, cancel | one open session per register, closed sessions have no open sale, an event for every change and only once |
| checkout: local catalog | `product_catalog_items` | synchronize from ProductPriceUpdated, scan | the newest price wins whatever the order of delivery |
| outbox relay and worker (in each service) | `outbox_events`, `runInFlight`, the topic | dispatch after commit, replay of a pending batch | published means in Kafka, every event arrives |
| inventory: stock | `inventory_items`, `stock_movements`, `processed_events`, losses, adjustments, invoices | sale issue, sale reversal, supplier invoice, loss, physical count | quantity on hand is the sum of the movements, a sale is issued once and reversed at most once |
| inventory: low stock alerts | `lastLowStockAlertAt` | periodic scan | no item is forgotten, cooldown respected |
| management: ledger | `financial_entries`, `daily_financial_consolidations`, `cash_reconciliations`, `processed_events` | consolidate, compensate, reconcile, capture loss | one revenue per sale, one reversal, reconciliation counts the session's sales |
| management: products and employees | `products`, `employees`, price events | register, update price | unique barcodes and codes, events that lead every till to the current price |
| management: profit and loss report | none of its own | report | revenue of the completed sales less the losses |
| the services together | all of the above | events travel through Kafka | stock is out and revenue is in exactly for completed sales |

Components interact only through the outbox, Kafka topics and, inside a
service, the database.  Nothing is locked explicitly: TypeORM's
`transaction()` runs at PostgreSQL's default READ COMMITTED, no repository
reads with a row lock and no entity has a version column.  So the hard
behaviours are:

- use cases that read, decide and write later, with other commits in between;
- `Repository.save`, which reads the row again and updates the columns that
  differ from a copy that may be old;
- calls that fail halfway (send acknowledged but not marked, commit without
  dispatch, a failing failure handler) and services that stop;
- events that come twice, late, or in another order than they were stored,
  since every event name has a topic of its own.

`PROJECT.json` lists these hazards at the lines where they bite.

## What is modelled

### Sale (pure operators)

The aggregate `Sale` of `domain/entities/sale.entity.ts`: a record with the
columns of tables `sales` and `sale_items`.  For each domain method there is the
record it leaves (`AddItem`, `Complete`, ...) and when it does not throw
(`CanAddItem`, `CanComplete`, ...).  `Consistent` is `assertConsistentTotals`,
which `rehydrate` runs on every load.  Money is in cents, so rounding is exact.
`changeAmount`, `paidAt` and `cancellationReason` are null together with
`paidAmount` and `canceledAt` in every write of the code and are folded into
them.

### Checkout (state machine, extends Sale)

| Variable | Code |
| --- | --- |
| `sessionTable` | `pos_sessions` |
| `saleTable` | `sales` with `sale_items` |
| `outbox` | `outbox_events` in commit order |
| `request` | per operator, the transaction in flight: next statement, aggregates in memory, row seen by `save` |

A request takes one step per database statement: `FindOpen`, `FindSale`,
`FindSessionToStart`, `FindSessionToClose`, `FindSessionOfSale`, `CountSales`,
`FindCatalog`, `SelectSale` (the SELECT inside `save`) and one write step
(`InsertSession`, `UpdateSession`, `InsertSale`, `UpdateSale`).  The domain
method runs in the step whose result it uses.  From its first UPDATE a
transaction holds the row lock, later writers of the row wait for its commit
and readers see nothing of it, so the UPDATE, the item rows, the outbox row and
the commit are one step.  `Merge` computes what that UPDATE does to the row as
it is by then.  `Rollback` is a failure at any point before the commit.

`SharedSessions` says whether requests of different operators may meet on one
session.  The code does not compare the operator of a request with that of the
session (the request does not even carry one), so FALSE is an assumption about
the tills: each cashier works on the sessions they opened and waits for an
answer before the next request.  Both cases are checked.  Under shared sessions
SalesAreInOrder (a sale can be loaded and is paid for) fails, and so do
ClosedSessionsAreSettled, EachEventOnce, EventsTellTheTruth and SalesMoveForward
in a form that exempts no sale and no session.  They all fail for one reason, a
write that trusts what was read without a lock or a version.  The run race_load
keeps the counterexample of SalesCanBeLoaded, a sale that can never be loaded
again.

### CheckoutHistory (history variables over Checkout)

What is left of these properties when requests do overlap?  `CheckoutHistory`
answers without an assumption about the tills.  `stale` has the operators whose
request has read something that another commit has changed since (`Overtakes`:
the row of its sale, the row of its session, or the open sales it counted), and
`overtaken` the sales and sessions that a stale request has written.  `Track`
only records; it restricts no step of Checkout.  The properties are then stated
for what is not in `overtaken`: a closed session is settled
(ClosedSessionsAreSettled), an event is stored once (EachEventOnce) and stays
true (EventsTellTheTruth), a sale can be loaded and is paid for
(SalesStayInOrder) and moves forward (SalesMoveForward).  So a write that trusts
an outdated read is the only way in which the checkout breaks them.  They bound
the damage of a race and do not say that there is none: the exempted sales and
sessions are those the race happened to.  With own sessions nothing is ever
exempted (proved: OwnSessionsAreNotOvertaken), and the five properties hold
without exception.

### OutboxRelay (state machine)

`dispatch`, one await at a time (`Find`, `Acknowledged` or `Unacknowledged`,
`MarkPublished` or `MarkFails`, `RegisterFailure`), run for an event by the
request that stored it and for a batch by the worker of each instance
(`RunNow`).  `Batches` is the query `findPendingBatch` with its order and
limit.  `Throw` is an exception out of `dispatch`, `Crash` a process that stops.
The relay, worker and repository are the same in the three services, so one
module stands for all.

### SaleEvents and CheckoutEvents (what the other services see)

`SaleEvents` is the checkout service without requests, statements and carts: the
status of sessions and sales and the set of stored events, each with the status
its sale was loaded in.  `CheckoutEvents` maps `Checkout` to it
(`ImplementsSaleEvents`, checked and proved): every step of every request is one
of its steps or a stutter.  `Overlaps` is `SharedSessions`; with it a save may lose against
another one and events may be stored twice, up to `MaxCopies` of a name.  The
consumers are modelled on top of `SaleEvents`, so what is shown of them holds of
what `Checkout` can store and of nothing less.

Once stored, an event may be consumed at any later time, in any order and any
number of times.  That covers the relay (late, again), topics of their own for
every event name (no order between completion, cancellation and closing) and
Kafka's redelivery after a handler that threw or an offset that was not
committed.

### SaleBooks (abstract specification of a consumer)

Per sale one value, `effect`, that goes from none to booked (only after the
completion is stored) and from booked to undone (only after a cancellation of
the completed sale).  Stock and ledger each implement it, with `effect` computed
from their tables.

### StockItem (pure operators) and InventoryStock (state machine)

`StockItem` has the methods of `InventoryItem`, the quantity delta each stock
movement records, and the documents a request may carry.  Costs are in cents,
rounded as `toFixed(2)` does.  `lastLowStockAlertAt` is the time since the alert,
counted up to the cooldown.

| Variable | Code |
| --- | --- |
| `items` | `inventory_items` |
| `movements` | `stock_movements` in commit order |
| `processed` | `processed_events` |
| `invoices` | supplier references of `supplier_invoices` |
| `tx` | per consumer, request and worker, the open transaction: lines, next line, rows read and seen |
| `lastAlert`, `overtaken` | history for the properties, read by no action |

`process-sale-issue` and `revert-sale-issue` look into `processed_events` twice,
with the commits of other instances in between: first for the event itself and
another one of its name (`Receive`), then for the event of the other name
(`LookUp`).  `Skip` records an event that means nothing.  `Submit` begins a loss, a count or an invoice;
`Scan` is the query of `emit-low-stock-alerts`.  Each line of a transaction is
then `Load` (findByProductId), `Select` (the SELECT inside `save`) and `Update`,
which takes the row lock that lasts until the commit; the last update is
`Commit`, with `Merge` computing what TypeORM writes to the row as it is by
then.  `Rollback` is a failing statement, a deadlock PostgreSQL breaks, or a
stop; `Clash` is the insert that fails because the row appeared meanwhile.
`Tick` lets time pass.

### ManagementLedger (state machine)

| Variable | Code |
| --- | --- |
| `entries` | `financial_entries` |
| `daily` | `daily_financial_consolidations` |
| `reconciliations` | `cash_reconciliations` |
| `losses` | `inventory_loss_entries` |
| `booked` | `processed_events` |
| `prices` | `currentPrice` of `products` |
| `job` | per consumer instance, the transaction between its lookups and its writes |

One operator per handler says what it is about to write
(`ConsolidateCompletedSale`, `CompensateCanceledSale`, `ReconcileRegisterClosure`,
`CaptureInventoryLoss`; the empty set where it throws).  `Take` is the lookup in
`processed_events`, `LookUp` the one in the tables (revenue of a sale, cash of a
session, price of a product), `Write` commits under the unique indexes, `Abort`
rolls back.  `RevenueNetTotal`, `InventoryLossTotal`
and `Report` are the profit and loss report.

### SaleFlow (composition)

`SaleEvents` stores events, `InventoryStock` and `ManagementLedger` consume them
with a `processed_events` table each, and every committed movement of a loss is
the `InventoryLossRegistered` event the ledger consumes.

### MasterData, CatalogSync and LatestPrice

`MasterData` has the requests of the management service: register a product or
an employee (look, then insert), and update a price (find, stamp the event with
the clock, SELECT of the save, update).  `CatalogSync` adds the local catalog of
the checkout service and its consumer (`FindItem`, `SelectItem`, `SaveItem`,
`DropMessage`), which runs without a transaction and without `processed_events`.
`LatestPrice` is its promise: an item shows an event that was told and never
goes back to an older one.

The MC modules add what TLC needs: symmetry, and the amounts, dates, lines and
documents of the instances.

## Runs

| Run | Checks | Shows |
| --- | --- | --- |
| tills | OneOpenSessionPerRegister, SalesAreInOrder, ImplementsSaleEvents | two cashiers on their own sessions of one register; carts of two products, two prices and all payments |
| overlaps | TypeOK, StateChangesAreInOutbox, ReversalFollowsCompletion, PayloadsAddUp, ImplementsSaleEvents, ClosedSessionsAreSettled, EachEventOnce, EventsTellTheTruth, SalesStayInOrder, SalesMoveForward | two operators on one session and its sale: what survives even when requests overwrite each other, and that all else goes wrong only where an outdated read was trusted |
| relay_safe | TypeOK, PublishedIsInTopic, AnswersAreTrue | two instances, two events, two faults |
| relay_live | EventuallyInTopic, EventuallySettled, WorkersComeBack | one instance, one refused event, two faults |
| stock | TypeOK, StockMatchesMovements, InvoiceReceivedOnce, AverageCostWithinCosts, AlertsRespectCooldown, ScansMoveNoStock | a sale, two documents of five kinds and a scan on one product, every interleaving of their statements |
| instances | ReversionsFindTheirItem | two consumer instances on the events of one sale with two lines, the two lookups of each interleaved |
| alerts | LowStockIsAnnounced | two products that lock crosswise, a query that reads one row |
| ledger | ConsolidationMatchesEntries, NothingNetsBelowZero, LedgerImplementsBooks | two consumer instances, two sales on different days, one in cash, two sessions |
| flow | TypeOK, BooksAgree, ReportMatchesSales, StockImplementsBooks, ClosureAfterSalesIsRight, EventsAreHandled | a sale and a loss through all three services |
| catalog | TypeOK, KeysAreUnique, ImplementsLatestPrice, ScansShowTheCurrentPrice | two requests that compete for a barcode and a code and reprice products, one consumer |
| race_load | SalesCanBeLoaded | violated: two requests on one sale leave totals of one and items of the other |
| race_reconcile | ReconciliationCountsTheSession | violated: a closing consumed before the completion of a sale of its session is reconciled without its cash, for good |

Some properties deserve a word, since they state less than one may hope for:

- The properties of overlaps exempt overtaken sales and sessions, see
  CheckoutHistory above.
- StockMatchesMovements exempts products that were saved from a row that had
  changed since it was read (`overtaken`).  The code does lose such updates:
  a sale and a count that overlap leave both movements and one quantity.  The
  property says that nothing else separates quantity and movements.
  ScansShowTheCurrentPrice exempts overlapping updates of one price (`crossed`)
  in the same way, AlertsRespectCooldown overtaken rows.
- ReversionsFindTheirItem does not say that a reversion never throws: with two
  instances it may, when another instance skips the same cancellation and then
  the completion between its lookups.  It says that the cancellation has then
  been handled, so that the redelivery is skipped and the partition goes on.
- ClosureAfterSalesIsRight is the part of ReconciliationCountsTheSession that
  holds: a closing handled after the session's sale events is right.

Bounds, and why they are enough:

- `MaxQty`, `MaxPaid`, `Prices`: a line of two can be raised and lowered and
  removed in two ways; `MaxPaid` in the tills run covers the largest cart (8)
  and one cent of change.  Overlaps uses one product, since it
  is about which of two writes remains.
- `MaxEvents` bounds the requests that emit.  The tills run has room for the
  four events two sessions and a sale can have (a completion, a cancellation,
  two closures), overlaps for two, enough for a completion followed by a
  cancellation, or for the same event twice.  Overlaps has one session with one
  sale, since a request relies on one of each; with room for three events it
  was checked once without error (2.8 million states), and tills once with two
  sales of one product (534 thousand); both are left out for their running time.
- `MaxCopies` bounds events of one name for one sale.  Without overlaps there is
  one (EachEventOnce, with nothing overtaken); overlaps has room for two, as
  many as `MaxEvents`.
- Two operators, two clerks, two managers, two accountants: every race of the
  code is between a reader and one writer.
- `MaxFaults` bounds database failures and crashes of the relay, `MaxAttempts`
  the attempts counter, which only orders events of the same instant.  The
  other modules do not bound faults.
- `MaxDocuments` bounds the documents of a run: two around a sale in stock (a
  receipt, count or loss before, between and after issue and reversion, at two
  costs, so that stock runs through zero and below), three in alerts (both
  crossed invoices and a count or loss, or a count per product).  The register
  closings that mean nothing to the stock are left out of the stock run by a
  constraint.
- `Cooldown` is one tick: before, at and after are the three ages it tells apart.
- `MaxTime` and `MaxUpdates` in catalog: two updates are enough to be out of
  order, three instants for equal, older and younger stamps.
- flow has one sale and one loss; two sales without a loss, and catalog with
  three updates and one employee, were checked once without error (92 thousand
  and 1.1 million states) and are left out for their running time.

Deadlock is checked where something can always go on: tills, overlaps,
race_load and relay_live.  In the others everything may be done (all events
published or handled, all ids used) or the bound reached.

Fairness:

- relay_live: a started call ends one way or the other (weak fairness on the
  steps of a dispatcher), `setInterval` keeps firing (weak fairness on
  `RunNow`), and Kafka is not away for ever: an event a worker tries to send
  again and again is acknowledged at last (strong fairness on `Acknowledged`,
  worker and event fixed).  Database faults are finite.  The request's own
  dispatch gets no promise but that it ends.
- alerts: time passes, the interval calls the scan again, each transaction that
  was begun ends by commit or rollback, and from some time on scans do not
  fail.  Nothing makes requests arrive.
- flow: kafkajs hands a message to the handler until it returns, so a consumer
  goes on while an event is not processed; from some time on its transactions
  only fail for a clash with another insert; a request ends; a product that
  sells is registered at last.
- catalog: the same for the catalog consumer.  Here the fairness on `FindItem`
  is strong and on the events not yet handled, since messages that were handled
  may be read again in between without end.

EventuallyInTopic is stated for fewer refused events than a batch holds.
`findPendingBatch` has no limit on attempts and orders by age, so refused
events that fill a batch starve everything younger.  LowStockIsAnnounced is
stated for products among the first `AlertLimit` low ones: the limit of
`findLowStockCandidates` applies before its cooldown filter, so products behind
them are not announced while those before them stay low.

EventuallySettled is checked with one instance: there only the request of the
event and one worker can undo each other's mark.

## Proofs

The `...Proofs` modules prove with TLAPS, for every value of the constants:

- **Relay** (`OutboxRelayProofs`): OutboxTypesHold, PublishedEventsAreInKafka,
  RequestsAnswerTheTruth from `Inv`, which adds that a request only ever
  dispatches its own event (`OwnBatch`) and that a dispatcher about to mark an
  event has sent it (`MarkedAfterSend`).
- **Checkout** (`CheckoutProofs`): CheckoutTypesHold,
  RegistersHaveOneOpenSession, OutboxRecordsEveryChange,
  ReversalsFollowCompletions, EventTotalsAddUp from `Inv`, which adds
  `RequestsFit`: what the loaded copy, the row seen by the save and the
  remembered status of a request in flight have to do with the tables and the
  outbox (for example, a copy loaded as COMPLETED has its event in the outbox).
  They hold for shared sessions, too.
  So do, over CheckoutHistory, ClosedSessionsStaySettled, EventsAreStoredOnce,
  EventsStayTrue, SalesAreKeptInOrder and SalesOnlyMoveForward.
  With own sessions (`SharedSessions = FALSE`): OwnSessionsAreNotOvertaken,
  which makes the five hold of every sale and session, OwnSalesAreInOrder.
- **What the other services see** (`CheckoutEventsProofs`):
  CheckoutImplementsSaleEvents, for shared and for own sessions, any number of
  sessions, sales, products and finitely many operators.
- **Stock** (`StockProofs`), for any number of consumers, requests, workers,
  documents and copies of events: StockTypeCorrect, InvoicesReceivedOnce,
  ReversionsAlwaysFindTheirItem, ScansKeepQuantities, QuantityMatchesMovements,
  AverageCostIsBetween, AlertsKeepTheCooldown.  For one consumer instance:
  StockRefinesBooks, and SettledStockIsRight when requests do not overlap.
- **Ledger** (`LedgerProofs`), for any number of consumer instances and copies:
  LedgerTypesHold, ConsolidationAddsUp; with `MaxCopies = 1` LedgerRefinesBooks
  and NoBookNetsBelowZero.  For one instance and requests that do not overlap:
  SettledLedgerIsRight, ReportIsRight, ClosureExpectsTheDrawer.
- **The services together** (`FlowProofs`): FlowTypeCorrect without a further
  assumption, FlowStockRefinesBooks for one consumer of the stock, and
  BothBooksAgree, FlowReportIsRight and FlowClosureIsRight for one consumer in
  each service and requests that do not overlap (`OneOfEach`).
- **Catalog** (`CatalogProofs`): CatalogTypeCorrect and KeysStayUnique;
  CatalogRefinesLatestPrice, for one consumer instance.

How the arguments go:

- The code checks in memory and writes later, without a lock, so none of the
  properties of CheckoutHistory follows from a check alone.  `PendingInv` adds
  to `Inv` what a request relies on however it is overtaken: the id it will
  insert is still free, a sale stays in its session, the status of a copy is the
  one its operation decided on from the status it loaded (`Decides`).
  `RacesInv` adds that what a request has read is what the tables hold
  (`Current`) unless the request is stale, and that what is not overtaken is in
  order (`TablesInOrder`).  `StaysCurrent` is the frame: a commit of another
  request leaves a request current or makes it stale.  A request that is current
  when it writes saves what the domain method computed (`MergeOverCurrentRow`),
  and the method takes a sale in order to a sale in order (`ResultIsInOrder`);
  the write of a stale request concerns only what is overtaken from then on
  (`TablesStep`).  `EventsMatch` strengthens EventsTellTheTruth so that the
  second event of a kind can be excluded.
- With own sessions `OwnInv` says that a request is about rows of its operator.
  A step of one operator changes only those, hence nothing another request has
  read (`OthersAreNotOvertaken`), and nobody is ever stale.
- For CheckoutImplementsSaleEvents a statement that commits is the action of
  SaleEvents with its meaning and every other statement a stutter.  `EventsInv`
  is what this needs of the requests in flight however they overlap:
  `PendingInv`, and room in the outbox for the events to come (`Room`).  Where requests overlap
  the weak guards of SaleEvents follow from it, and a save that lost against
  another one is covered by `SaveStatus` (`MergeIsTyped`); where they do not,
  `OwnInv` gives the exact guards.  That the id of an event is the number of
  earlier ones plus one needs a bijection between the events and what is stored
  of them (`NotesAreAsMany`): ordinals tell any two events apart
  (`OrdinalsGrow`).  `EventsConstantsHold` discharges the assumption of
  SaleEvents, so its consumers may be put behind Checkout.
- `StockInv` says of each transaction what its writer may carry (`TxIsSound`),
  that the items of a sale exist once its completion is handled and as long as no
  cancellation is (`IssuedItemsExist`: items are never deleted, and a completion
  is skipped only after a completion or a cancellation), and that a receipt's
  reference is in the table whose index refuses the second one
  (`ReceiptsHaveInvoices`).  A reversion past its lookups therefore has its items
  or a handled cancellation (`ConsumerTx`), which needs neither events to be
  unique nor consumers to be alone.
- `LedgerInv` says that each entry comes from a stored event of its sale
  (`EntriesAreSound`) and that a job holds nothing but what its event may write
  (`JobIsSound`).  With one event of each name the unique index on the source
  event then bounds the entries of a sale, whatever two instances looked up
  before; so the ledger needs no assumption on the number of its consumers.
  The steps of the lemmas include a loss report at any time (`OpenNext`), so the
  invariants hold in SaleFlow, too.
  `SettledInv` relates rows of `sales` to their events (`RowMatchesEvents`, from
  `SaleEventsProofs`), explains each effect by the events that were handled
  (`BooksExplained`) and says that what an open job decided is still decided so
  (`JobIsDecided`); the last needs one instance.
- The sums of the report, of a day and of a drawer are folds over sets, about
  which the library knows nothing.  `SaleEventsProofs` proves what is needed of
  them (`TotalOfOne`, `TotalOfParts`, ...) by induction over finite subsets: the
  sum is unfolded as a function on the subsets of a finite set, for which
  WellFoundedInduction applies.  Then a day and a drawer are split into sales:
  a sale contributes its amount if its revenue stands and nothing otherwise
  (`SaleTotal`), because a reversal copies day, drawer and amount of the entry
  it reverses.  That is why nothing nets below zero, and with `SettledInv` the
  sales that contribute are the completed ones.
- Four more invariants carry the stock.  `QuantityIsMoved` has the quantity of a
  product that nothing overtook equal to the fold of its movements; a commit
  appends one movement per line, and lines of one product do not repeat.
  `CostsAreReceived` extends AverageCostWithinCosts to the rows that open
  transactions have read, since those are what a save writes back.
  `AlertsAreRemembered` ties the history variable lastAlert to the marker in the
  row and says that a scan found due what it is about to announce.
  `SalesAreBooked` says that the movements of a sale were made by a handled
  event and that an open consumer transaction is still news (one instance);
  `StockIsSettled` adds what a handled cancellation left behind.
- In `FlowProofs` the definitions that SaleFlow instantiates and those the two
  proof modules speak of are shown to be the same ones.  A step of the
  composition is then a step of the inventory service and, for the ledger, one of
  its own or a loss report (`FlowStep`), where StockInv is what types the
  losses.  `SettledFlow` is the conjunction of the invariants of both.
- `CatalogInv` types what requests and consumers hold.  For the refinement
  `SyncIsFresh` adds that the item an open handler looked at is still the item
  of the catalog, which is true for one instance alone.

The assumptions are the named ASSUMEs of the modules (prices are positive
integers, bounds are natural numbers, ids of different kinds differ, documents
are well formed, a sale has one line per product) and those in the theorems
above.  That a sale has one line per product is `Sale.addItem`, which adds to
the line that is there, and the primary key (saleId, productId) of `sale_items`
(`src/apps/checkout-service/migrations/1762732800000-CreateCheckoutSessionAndSaleTables.ts:60`).
SaleFlow repeats the assumptions of the modules it instantiates (`FlowConstants`),
so that TLC evaluates them for its constants as well.

`CheckoutEventsConstants` asks for finitely many operators and, where requests
overlap, for as many copies of an event as the outbox may hold.

Only model-checked is liveness (EventuallyInTopic, EventuallySettled,
WorkersComeBack, LowStockIsAnnounced, EventsAreHandled,
ScansShowTheCurrentPrice), which is beyond the prover.

## Not modelled

- Several consumer instances at work on events of one sale in the inventory
  service: during a rebalance two may issue one sale, or issue and skip the
  reversion, since `processed_events` is looked up first and the movements have
  no unique index that stops the second.  The run instances models them, for the
  one property that holds then.  StockImplementsBooks, BooksAgree and
  ReportMatchesSales are therefore stated for one instance each; the run ledger
  and the proof LedgerRefinesBooks have several.
- Consumers fed by overlapping requests of shared sessions: then a sale (one
  that is overtaken in CheckoutHistory) may have two SaleCompleted events and the ledger books it twice, because only the
  event id is unique.  The consumers' runs use the events of own sessions.
- The checkout service does not consume NewProductRegistered, so a product is in
  the local catalog only once its price has changed; that event,
  EmployeeRegistered, ProductReceived and LowStockAlert have no consumer here.
- Several tenants: every query names the tenant of the request.
- Validation of inputs and formats, HTTP mapping, logging, configuration, the
  shared libraries: they change no state.
- The producer's and consumers' connection handling beyond "a send may fail"
  and "a message comes again".
- The transactions' isolation is READ COMMITTED as PostgreSQL documents it, at
  the grain of one statement; what happens inside a statement is not modelled.

## Plan

Everything of the first plan is done: Sale, Checkout and OutboxRelay;
CatalogSync with MasterData; InventoryStock; ManagementLedger; SaleFlow; the
refinements and their proofs.  What would add most next:

1. A history variable for `InventoryStock` with two consumer instances, like
   the one of `CheckoutHistory`, that says of which sales the quantity can be
   wrong after a rebalance.
2. The relay between `Checkout` and `SaleFlow` in one composition, for an
   end-to-end liveness property from the commit of a sale to its entry.
