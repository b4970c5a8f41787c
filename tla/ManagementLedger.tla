-------------------------- MODULE ManagementLedger --------------------------
(***************************************************************************)
(* The books of the management service: its Kafka consumers turn the sale, *)
(* register and loss events of the other services into financial entries,  *)
(* daily consolidations, cash reconciliations and loss entries, of which   *)
(* the profit and loss report is made.                                     *)
(*                                                                         *)
(* A message is handled in one transaction at READ COMMITTED that looks up *)
(* first whether the event is to be skipped, then what it is to be booked  *)
(* with, then writes: three steps, with those of other instances between   *)
(* them.  The writes are visible at the commit.  A handler that throws     *)
(* writes nothing and the message is read again.  Amounts are in cents;    *)
(* cashiers, registers, names, timestamps and the column status of a       *)
(* reconciliation (the sign of its difference) are left out.               *)
(***************************************************************************)
EXTENDS SaleEvents, Integers, FiniteSetsExt

CONSTANTS
  Accountants,  \* instances of the Kafka consumer, one message at a time
  Amount,       \* payload.total of each sale
  InCash,       \* was the sale paid in cash?
  Day,          \* UTC date of payload.completedAt
  OpeningFloat, \* payload.openingFloatAmount of each session
  Products,     \* ids of products
  Prices        \* what a product may cost

ASSUME LedgerConstants ==
  /\ Amount \in [Sales -> Nat \ {0}]
  /\ InCash \in [Sales -> BOOLEAN]
  /\ Day \in [Sales -> Nat]
  /\ OpeningFloat \in [Sessions -> Nat]
  /\ Prices \subseteq Nat \ {0}

VARIABLES
  lossEvents,      \* InventoryLossRegistered events of the inventory service
  prices,          \* currentPrice of the rows of products, 0 without a row
  entries,         \* table financial_entries
  daily,           \* table daily_financial_consolidations
  reconciliations, \* table cash_reconciliations
  losses,          \* table inventory_loss_entries
  booked,          \* table processed_events
  job              \* the transaction each consumer has open

ledgerVars ==
  <<prices, entries, daily, reconciliations, losses, booked, job>>

-----------------------------------------------------------------------------
NoDay   == [total |-> 0, count |-> 0]
Nothing == [entries |-> {}, reconciliations |-> {}, losses |-> {}]
Free    == [pc |-> "free", event |-> None, writes |-> Nothing]

Days == {Day[x] : x \in Sales}

LedgerInit ==
  /\ prices = [p \in Products |-> 0]
  /\ entries = {}
  /\ daily = [d \in Days |-> NoDay]
  /\ reconciliations = {}
  /\ losses = {}
  /\ booked = {}
  /\ job = [l \in Accountants |-> Free]

BookedFor(name, a) == \E e \in booked : e.name = name /\ e.aggregate = a

-----------------------------------------------------------------------------
(* What a handler looks up, and what it is about to write.                 *)

\* Mutant: a completion is consolidated whatever was processed before it.
SkipNoCompletion(e) ==
  CASE e.name = "SaleCanceled"   -> \/ BookedFor("SaleCanceled", e.aggregate)
                                    \/ e.previous # "COMPLETED"
    [] e.name = "RegisterClosed" -> BookedFor("RegisterClosed", e.aggregate)
    [] OTHER                     -> FALSE

\* The first lookup.
IsSkipped(e) ==
  CASE e.name = "SaleCompleted"  -> BookedFor("SaleCanceled", e.aggregate)
    [] e.name = "SaleCanceled"   -> \/ BookedFor("SaleCanceled", e.aggregate)
                                    \/ e.previous # "COMPLETED"
    [] e.name = "RegisterClosed" -> BookedFor("RegisterClosed", e.aggregate)
    [] OTHER                     -> FALSE

Revenue(e) ==
  [source |-> e, type |-> "SALE_REVENUE", sale |-> e.aggregate,
   session |-> e.session, cash |-> InCash[e.aggregate],
   day |-> Day[e.aggregate], amount |-> Amount[e.aggregate]]

ConsolidateCompletedSale(e) == {[Nothing EXCEPT !.entries = {Revenue(e)}]}

RevenueOf(x) == {n \in entries : n.sale = x /\ n.type = "SALE_REVENUE"}

\* Mutant: the reversal is dated, and its cash counted, anew.
ReversalOfToday(e, n) ==
  [n EXCEPT !.source = e, !.type = "SALE_CANCELLATION_REVERSAL", !.cash = TRUE]

\* Mutant: the reversal keeps the type of the entry it copies.
ReversalAsRevenue(e, n) == [n EXCEPT !.source = e]

\* Register, method, date and amount are those of the revenue entry.
Reversal(e, n) ==
  [n EXCEPT !.source = e, !.type = "SALE_CANCELLATION_REVERSAL"]

CompensateCanceledSale(e) ==
  IF RevenueOf(e.aggregate) = {} THEN {Nothing}
  ELSE {[Nothing EXCEPT !.entries = {Reversal(e, n)}] :
          n \in RevenueOf(e.aggregate)}

\* Mutant: a reversal adds to the sum.
EveryAmountCounts(n) == n.amount

Signed(n) == IF n.type = "SALE_REVENUE" THEN n.amount ELSE -n.amount

SumNetCashMovementBySession(s) ==
  MapThenSumSet(Signed, {n \in entries : n.session = s /\ n.cash})

\* A negative expected amount throws.
ReconcileRegisterClosure(e) ==
  LET expected == OpeningFloat[e.session] + SumNetCashMovementBySession(e.session)
  IN  IF expected < 0 THEN {}
      ELSE {[Nothing EXCEPT !.reconciliations =
               {[source |-> e, session |-> e.session, expected |-> expected]}]}

\* Without the product there is no price to value the loss at: it throws.
CaptureInventoryLoss(e) ==
  IF prices[e.aggregate] = 0 THEN {}
  ELSE {[Nothing EXCEPT !.losses =
           {[source |-> e, day |-> e.day,
             amount |-> e.quantity * prices[e.aggregate]]}]}

WritesOf(e) ==
  CASE e.name = "SaleCompleted"           -> ConsolidateCompletedSale(e)
    [] e.name = "SaleCanceled"            -> CompensateCanceledSale(e)
    [] e.name = "RegisterClosed"          -> ReconcileRegisterClosure(e)
    [] e.name = "InventoryLossRegistered" -> CaptureInventoryLoss(e)

-----------------------------------------------------------------------------
Job(pc, e, writes) == [pc |-> pc, event |-> e, writes |-> writes]

\* An event with an id that was processed is ignored.
Take(l) ==
  \E e \in (stored \cup lossEvents) \ booked :
    /\ job[l] = Free
    /\ job' = [job EXCEPT ![l] =
                 Job(IF IsSkipped(e) THEN "write" ELSE "lookup", e, Nothing)]
    /\ UNCHANGED <<prices, entries, daily, reconciliations, losses, booked,
                   lossEvents, checkoutVars>>

\* The second lookup, and what comes of it unless the handler throws.
LookUp(l) ==
  LET e == job[l].event
  IN  /\ job[l].pc = "lookup"
      /\ \/ WritesOf(e) = {} /\ job' = [job EXCEPT ![l] = Free]
         \/ \E writes \in WritesOf(e) :
              job' = [job EXCEPT ![l] = Job("write", e, writes)]
      /\ UNCHANGED <<prices, entries, daily, reconciliations, losses, booked,
                     lossEvents, checkoutVars>>

\* Mutant: no unique index.
AlwaysUnique(w) == TRUE

\* Unique indexes: the source event in each table, the session of a
\* reconciliation.  A transaction that meets one rolls back; one whose
\* saveIfAbsent finds the row of its event in time changes nothing, either.
Unique(w) ==
  /\ \A n \in w.entries : \A o \in entries : o.source # n.source
  /\ \A n \in w.losses : \A o \in losses : o.source # n.source
  /\ \A n \in w.reconciliations : \A o \in reconciliations :
       o.source # n.source /\ o.session # n.session

\* A revenue entry is added to its day; a reversal is not taken off it.
Accumulated(new) ==
  [d \in Days |->
     LET revenue == {n \in new : n.day = d /\ n.type = "SALE_REVENUE"}
     IN  [total |-> daily[d].total + MapThenSumSet(Signed, revenue),
          count |-> daily[d].count + Cardinality(revenue)]]

\* Mutant: the transaction leaves no record of the event.
WriteUnrecorded(l) ==
  LET w == job[l].writes
  IN  /\ job[l].pc = "write"
      /\ Unique(w)
      /\ entries' = entries \cup w.entries
      /\ daily' = Accumulated(w.entries)
      /\ reconciliations' = reconciliations \cup w.reconciliations
      /\ losses' = losses \cup w.losses
      /\ job' = [job EXCEPT ![l] = Free]
      /\ UNCHANGED <<prices, booked, lossEvents, checkoutVars>>

Write(l) ==
  LET w == job[l].writes
  IN  /\ job[l].pc = "write"
      /\ Unique(w)
      /\ entries' = entries \cup w.entries
      /\ daily' = Accumulated(w.entries)
      /\ reconciliations' = reconciliations \cup w.reconciliations
      /\ losses' = losses \cup w.losses
      /\ booked' = booked \cup {job[l].event}
      /\ job' = [job EXCEPT ![l] = Free]
      /\ UNCHANGED <<prices, lossEvents, checkoutVars>>

\* A statement fails, or the instance stops.
Abort(l) ==
  /\ job[l].pc # "free"
  /\ job' = [job EXCEPT ![l] = Free]
  /\ UNCHANGED <<prices, entries, daily, reconciliations, losses, booked,
                 lossEvents, checkoutVars>>

\* A product is registered, or its price changes.
PriceProduct(p) ==
  /\ \E price \in Prices \ {prices[p]} :
       prices' = [prices EXCEPT ![p] = price]
  /\ UNCHANGED <<entries, daily, reconciliations, losses, booked, job,
                 lossEvents, checkoutVars>>

LedgerNext ==
  \/ \E l \in Accountants : Take(l) \/ LookUp(l) \/ Write(l) \/ Abort(l)
  \/ \E p \in Products : PriceProduct(p)

Init == CheckoutInit /\ LedgerInit /\ lossEvents = {}
Next == LedgerNext \/ (CheckoutNext /\ UNCHANGED <<ledgerVars, lossEvents>>)
vars == <<checkoutVars, ledgerVars, lossEvents>>
Spec == Init /\ [][Next]_vars

-----------------------------------------------------------------------------
(* The profit and loss report.                                             *)

RevenueNetTotal(d) == MapThenSumSet(Signed, {n \in entries : n.day = d})

AmountOf(n) == n.amount
InventoryLossTotal(d) == MapThenSumSet(AmountOf, {n \in losses : n.day = d})

ProfitAndLossTotal(d) == RevenueNetTotal(d) - InventoryLossTotal(d)

Report(fromDate, toDate) ==
  MapThenSumSet(ProfitAndLossTotal, fromDate..toDate)

-----------------------------------------------------------------------------
(* Properties.                                                             *)

EntryRow ==
  [source: SaleEvent, type: {"SALE_REVENUE", "SALE_CANCELLATION_REVERSAL"},
   sale: Sales, session: Sessions, cash: BOOLEAN, day: Nat, amount: Nat \ {0}]
ReconciliationRow == [source: ClosedEvent, session: Sessions, expected: Nat]

\* Type invariant of the ledger.
LedgerTypeOK ==
  /\ prices \in [Products -> Prices \cup {0}]
  /\ entries \subseteq EntryRow
  /\ daily \in [Days -> [total: Nat, count: Nat]]
  /\ reconciliations \subseteq ReconciliationRow
  /\ booked \subseteq stored \cup lossEvents
  /\ \A l \in Accountants : job[l].pc \in {"free", "lookup", "write"}

ReversalOf(x) ==
  {n \in entries : n.sale = x /\ n.type = "SALE_CANCELLATION_REVERSAL"}

EffectOnLedger(x) ==
  CASE RevenueOf(x) = {} /\ ReversalOf(x) = {} -> "none"
    [] (\E n \in RevenueOf(x) : RevenueOf(x) = {n}) /\ ReversalOf(x) = {} -> "booked"
    [] /\ \E n \in RevenueOf(x) : RevenueOf(x) = {n}
       /\ \E n \in ReversalOf(x) : ReversalOf(x) = {n} -> "undone"
    [] OTHER -> "wrong"

LedgerBooks ==
  INSTANCE SaleBooks WITH effect <- [x \in Sales |-> EffectOnLedger(x)]

\* With one consumer instance the revenue of a sale is booked once and
\* reversed at most once, however often and in whichever order its events come.
LedgerImplementsBooks == LedgerBooks!BooksSpec

SalesEvents(S) == {e \in stored : e.aggregate \in S}

\* Once the events of the sales are handled, in any order, the report of all
\* days is the revenue of the sales that are completed, less the losses.
CompletedRevenue ==
  MapThenSumSet(LAMBDA x : Amount[x],
                {x \in Sales : sales[x].status = "COMPLETED"})

LastDay == Max({n.day : n \in entries \cup losses} \cup {0})

ReportMatchesSales ==
  SalesEvents(Sales) \subseteq booked =>
    Report(0, LastDay) = CompletedRevenue - MapThenSumSet(AmountOf, losses)

\* A reversal falls on the day of the revenue and into the drawer it was paid
\* into: no day and no drawer ever nets below zero, and no closure throws.
NothingNetsBelowZero ==
  /\ \A d \in Days : RevenueNetTotal(d) >= 0
  /\ \A s \in Sessions : SumNetCashMovementBySession(s) >= 0

\* What is in the drawer of a session besides its opening float.
CashTaken(s) ==
  MapThenSumSet(LAMBDA x : Amount[x],
                {x \in Sales : /\ sales[x].session = s /\ InCash[x]
                               /\ sales[x].status = "COMPLETED"})

\* test: 'reconciles a balanced register using the opening float plus net cash
\* sales'.  Every reconciliation expects the cash sales of its session.
ReconciliationCountsTheSession ==
  \A r \in reconciliations :
    r.expected = OpeningFloat[r.session] + CashTaken(r.session)

\* A closure that is handled after the events of the session's sales expects
\* exactly the cash that completed and canceled sales left in the drawer.
ClosureAfterSalesIsRight ==
  [][\A r \in reconciliations' \ reconciliations :
       SalesEvents({x \in Sales : sales[x].session = r.session}) \subseteq booked
         => r.expected = OpeningFloat[r.session] + CashTaken(r.session)]_vars

\* The consolidation of a day counts the revenue entries of the day, once each,
\* although it is added up event by event.
ConsolidationMatchesEntries ==
  \A d \in Days :
    daily[d].total = MapThenSumSet(Signed,
      {n \in entries : n.day = d /\ n.type = "SALE_REVENUE"})
=============================================================================
