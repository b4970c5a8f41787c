--------------------------- MODULE InventoryStock ---------------------------
(***************************************************************************)
(* The inventory service: what its Kafka consumer, its REST requests and   *)
(* its low stock worker do to the stock of the products.                   *)
(*                                                                         *)
(* Each of them runs its use case in one transaction at READ COMMITTED, a  *)
(* database statement at a time: a consumer looks up what was processed;   *)
(* then the item of a line is found, changed in memory and saved, then     *)
(* that of the next line.  A save looks at the row again and updates the   *)
(* columns that differ from what it saw; the row stays locked until the    *)
(* commit, and no read takes a lock.  All that only the commit makes       *)
(* visible is part of the commit here.                                     *)
(*                                                                         *)
(* A message is read again until its handler has returned, and may come    *)
(* again afterwards: a consumer takes up any stored event at any time.     *)
(***************************************************************************)
EXTENDS SaleEvents, StockItem

CONSTANTS
  Items,        \* the lines of each sale, one per product
  Consumers,    \* consumer instances, each with one message at a time
  Clerks,       \* REST requests in flight
  Documents,    \* the losses, counts and invoices the requests may carry
  MaxDocuments, \* bound: stock movements of documents
  Workers,      \* low stock workers, one scan each at a time
  ByBarcode,    \* the products in the order of their barcodes
  AlertLimit    \* rows the scan reads: twenty batches

Writers == Consumers \cup Clerks \cup Workers

ASSUME StockConstants ==
  /\ Items \in [Sales -> Seq(LineType) \ {<<>>}]
  /\ \A x \in Sales : \A i \in DOMAIN Items[x] : Items[x][i].quantity > 0
  /\ \A x \in Sales : \A i, j \in DOMAIN Items[x] :
       Items[x][i].product = Items[x][j].product => i = j
  /\ \A doc \in Documents : IsDocument(doc)
  /\ ToSet(ByBarcode) = Products
  /\ Consumers \cap Clerks = {}
  /\ (Consumers \cup Clerks) \cap Workers = {}

VARIABLES
  items,      \* table inventory_items
  movements,  \* table stock_movements, in commit order
  processed,  \* table processed_events
  invoices,   \* supplier references of table supplier_invoices
  tx,         \* the transaction each writer has open
  lastAlert,  \* history: age of the last alert of a product, Never once it recovered
  overtaken   \* history: products saved from a row that was no longer current

stockVars == <<items, movements, processed, invoices, tx, lastAlert, overtaken>>

-----------------------------------------------------------------------------
Rows == [p \in Products |-> NoItem]

Begin(pc, kind, cause, lines, read) ==
  [pc |-> pc, kind |-> kind, cause |-> cause, lines |-> lines, next |-> 1,
   read |-> read, seen |-> Rows, age |-> 0]

Idle == Begin("idle", "none", None, <<>>, Rows)

StockInit ==
  /\ items = Rows
  /\ movements = <<>>
  /\ processed = {}
  /\ invoices = {}
  /\ tx = [w \in Writers |-> Idle]
  /\ lastAlert = [p \in Products |-> Never]
  /\ overtaken = {}

At(w, pc)  == tx[w].pc = pc
Goto(w, t) == tx' = [tx EXCEPT ![w] = t]
Finish(w)  == Goto(w, Idle)

TablesUnchanged == UNCHANGED <<items, movements, processed, invoices,
                               lastAlert, overtaken, checkoutVars>>

Line(w)    == tx[w].lines[tx[w].next]
Product(w) == Line(w).product

-----------------------------------------------------------------------------
(* How a transaction begins.                                               *)

SaleEventKind == [SaleCompleted |-> "issue", SaleCanceled |-> "revert"]

Delivered == {e \in stored : e.name \in DOMAIN SaleEventKind}

Handled(name, x) == \E e \in processed : e.name = name /\ e.aggregate = x

\* The first lookup of a handler, for an event of its own name.
IsRepeated(e) ==
  \/ Handled(e.name, e.aggregate)
  \/ e.name = "SaleCanceled" /\ e.previous # "COMPLETED"

\* An event with an id that was processed is ignored.  One that is processed
\* between that lookup and the next is found by the next.
Receive(c) ==
  \E e \in Delivered \ processed :
    /\ At(c, "idle")
    /\ Goto(c, Begin(IF IsRepeated(e) THEN "skip" ELSE "lookup",
                     SaleEventKind[e.name], e, Items[e.aggregate], Rows))
    /\ TablesUnchanged

\* Mutant: a completion is not compared with the cancellations before it.
IssueAnyway(e) == e.name = "SaleCanceled" /\ ~Handled("SaleCompleted", e.aggregate)

\* Mutant: a cancellation is not compared with the completions before it.
RevertAnyway(e) == e.name = "SaleCompleted" /\ Handled("SaleCanceled", e.aggregate)

\* The second lookup: the sale was canceled before it was issued, or there is
\* nothing to revert.
IsPointless(e) ==
  \/ e.name = "SaleCompleted" /\ Handled("SaleCanceled", e.aggregate)
  \/ e.name = "SaleCanceled" /\ ~Handled("SaleCompleted", e.aggregate)

LookUp(c) ==
  /\ At(c, "lookup")
  /\ Goto(c, [tx[c] EXCEPT !.pc = IF IsPointless(tx[c].cause) THEN "skip" ELSE "load"])
  /\ TablesUnchanged

\* save writes the row of an event again that another consumer has processed.
Skip(c) ==
  /\ At(c, "skip")
  /\ processed' = processed \cup {tx[c].cause}
  /\ Finish(c)
  /\ UNCHANGED <<items, movements, invoices, lastAlert, overtaken, checkoutVars>>

OfDocument(m) == m.type \in {"LOSS", "RECEIPT", "PHYSICAL_ADJUSTMENT"}

\* MaxDocuments counts the requests in flight, too.
RoomForDocument ==
  Len(SelectSeq(movements, OfDocument))
    + Cardinality({k \in Clerks : ~At(k, "idle")}) < MaxDocuments

\* An invoice looks for its supplier reference first.
Submit(k) ==
  \E doc \in Documents :
    /\ At(k, "idle") /\ RoomForDocument
    /\ doc.kind = "invoice" => doc.reference \notin invoices
    /\ Goto(k, Begin("load", doc.kind, doc, doc.lines, Rows))
    /\ TablesUnchanged

Low == {p \in Products : items[p] # NoItem /\ IsBelowMinimumThreshold(items[p])}

Before(p, q) ==
  \E i, j \in DOMAIN ByBarcode : i < j /\ ByBarcode[i] = p /\ ByBarcode[j] = q

Limited(rows) == {p \in rows : Cardinality({q \in rows : Before(q, p)}) < AlertLimit}

\* The limit of the query applies before the cooldown filter.
FindLowStockCandidates == {p \in Limited(Low) : ShouldEmitLowStockAlert(items[p])}

InOrder(S) ==
  {s \in [1..Cardinality(S) -> S] : \A i, j \in DOMAIN s : i < j => Before(s[i], s[j])}

Scan(v) ==
  \E found \in InOrder(FindLowStockCandidates) :
    /\ At(v, "idle")
    /\ found # <<>>
    /\ Goto(v, Begin("select", "alert", None,
                     [i \in DOMAIN found |-> LineOf(found[i], 0)], items))
    /\ TablesUnchanged

-----------------------------------------------------------------------------
(* The lines of a transaction, one after the other.                        *)

Found(row) == IF row = NoItem THEN Initialize ELSE row

\* A reversion throws without the row of the issue; a count that changes
\* nothing throws as it would record an empty movement.
Throws(kind, row, line) ==
  \/ kind = "revert" /\ row = NoItem
  \/ kind = "count" /\ QuantityDelta(kind, Found(row), line) = 0

Load(w) ==
  /\ At(w, "load")
  /\ IF Throws(tx[w].kind, items[Product(w)], Line(w))
     THEN Finish(w)
     ELSE Goto(w, [tx[w] EXCEPT !.pc = "select",
                                !.read[Product(w)] = items[Product(w)]])
  /\ TablesUnchanged

Select(w) ==
  /\ At(w, "select")
  /\ Goto(w, [tx[w] EXCEPT !.pc = "update",
                           !.seen[Product(w)] = items[Product(w)]])
  /\ TablesUnchanged

Locked(t) == {t.lines[i].product : i \in 1..(t.next - 1)}

\* The row lock of another transaction is waited for; an insert fails when
\* the row has appeared meanwhile.
MayWrite(w) ==
  /\ At(w, "update")
  /\ \A v \in Writers \ {w} : Product(w) \notin Locked(tx[v])

MayInsert(w) == tx[w].seen[Product(w)] = NoItem => items[Product(w)] = NoItem

LastLine(w) == tx[w].next = Len(tx[w].lines)

Update(w) ==
  /\ MayWrite(w) /\ MayInsert(w) /\ ~LastLine(w)
  /\ Goto(w, [tx[w] EXCEPT !.next = @ + 1,
                           !.pc = IF tx[w].kind = "alert" THEN "select"
                                                          ELSE "load"])
  /\ TablesUnchanged

\* What the use case made of the row it read.
Copy(t, line) ==
  IF t.kind = "alert"
  THEN MarkLowStockAlertEmitted(t.read[line.product], t.age)
  ELSE Applied(t.kind, Found(t.read[line.product]), line)

\* Mutant: the row is written as the use case has it, whatever changed.
WholeRow(row, seen, copy) == copy

\* The columns in which the copy differs from the row the save looked at.
Merge(row, seen, copy) ==
  IF seen = NoItem THEN copy
  ELSE [c \in DOMAIN row |-> IF copy[c] = seen[c] THEN row[c] ELSE copy[c]]

ProductsOf(t) == {t.lines[i].product : i \in DOMAIN t.lines}

Saved(t) ==
  [p \in Products |->
     IF p \in ProductsOf(t)
     THEN LET line == CHOOSE l \in ToSet(t.lines) : l.product = p
          IN  Merge(items[p], t.seen[p], Copy(t, line))
     ELSE items[p]]

\* Mutant: a count is recorded as the quantity counted.
CountedAsDelta(t, line) ==
  [type |-> MovementType[t.kind], product |-> line.product, cause |-> t.cause,
   delta |-> IF t.kind = "count" THEN line.quantity
             ELSE QuantityDelta(t.kind, Found(t.read[line.product]), line)]

MovementOf(t, line) ==
  [type |-> MovementType[t.kind], product |-> line.product, cause |-> t.cause,
   delta |-> QuantityDelta(t.kind, Found(t.read[line.product]), line)]

MovementsOf(t) ==
  IF t.kind = "alert" THEN <<>>
  ELSE [i \in DOMAIN t.lines |-> MovementOf(t, t.lines[i])]

\* History only: see lastAlert.
Remembered(t, rows) ==
  [p \in Products |->
     IF rows[p] = NoItem \/ ~IsBelowMinimumThreshold(Found(rows[p])) THEN Never
     ELSE IF t.kind = "alert" /\ p \in ProductsOf(t) THEN t.age
     ELSE lastAlert[p]]

\* History only: the row was another one when the save looked at it, or when
\* it was updated.
Overtaken(t) ==
  {p \in ProductsOf(t) : t.seen[p] # t.read[p] \/ items[p] # t.read[p]}

\* Mutant: no unique index on the supplier reference.
CommitTwice(w) ==
  LET t == tx[w]
  IN  /\ MayWrite(w) /\ MayInsert(w) /\ LastLine(w)
      /\ items' = Saved(t)
      /\ movements' = movements \o MovementsOf(t)
      /\ processed' = IF w \in Consumers THEN processed \cup {t.cause} ELSE processed
      /\ invoices' = IF t.kind = "invoice" THEN invoices \cup {t.cause.reference}
                     ELSE invoices
      /\ lastAlert' = Remembered(t, items')
      /\ overtaken' = overtaken \cup Overtaken(t)
      /\ Finish(w)
      /\ UNCHANGED checkoutVars

\* The last update, and with it everything else the transaction writes.
\* uq_supplier_invoices_tenant_reference fails a second invoice.
Commit(w) ==
  LET t == tx[w]
  IN  /\ MayWrite(w) /\ MayInsert(w) /\ LastLine(w)
      /\ t.kind = "invoice" => t.cause.reference \notin invoices
      /\ items' = Saved(t)
      /\ movements' = movements \o MovementsOf(t)
      /\ processed' = IF w \in Consumers THEN processed \cup {t.cause} ELSE processed
      /\ invoices' = IF t.kind = "invoice" THEN invoices \cup {t.cause.reference}
                     ELSE invoices
      /\ lastAlert' = Remembered(t, items')
      /\ overtaken' = overtaken \cup Overtaken(t)
      /\ Finish(w)
      /\ UNCHANGED checkoutVars

\* A statement fails, or the instance stops.
Rollback(w) ==
  /\ ~At(w, "idle")
  /\ Finish(w)
  /\ TablesUnchanged

\* The rollback that nothing can prevent: the row was inserted by another.
Clash(w) == At(w, "update") /\ ~MayInsert(w) /\ Rollback(w)

-----------------------------------------------------------------------------
Older(age) == IF age < Cooldown THEN age + 1 ELSE age
Aged(rows) ==
  [p \in Products |-> IF rows[p] = NoItem THEN NoItem
                      ELSE [rows[p] EXCEPT !.alert = Older(@)]]

Tick ==
  /\ items' = Aged(items)
  /\ lastAlert' = [p \in Products |-> Older(lastAlert[p])]
  /\ tx' = [w \in Writers |->
              [tx[w] EXCEPT !.read = Aged(@), !.seen = Aged(@),
                            !.age = IF tx[w].kind = "alert" THEN Older(@) ELSE @]]
  /\ UNCHANGED <<movements, processed, invoices, overtaken, checkoutVars>>

Step(w) == Load(w) \/ Select(w) \/ Update(w) \/ Commit(w)

StockNext ==
  \/ \E c \in Consumers : Receive(c) \/ LookUp(c) \/ Skip(c)
  \/ \E k \in Clerks : Submit(k)
  \/ \E v \in Workers : Scan(v)
  \/ \E w \in Writers : Step(w) \/ Rollback(w)
  \/ Tick

Init == CheckoutInit /\ StockInit
Next == StockNext \/ (CheckoutNext /\ UNCHANGED stockVars)
vars == <<checkoutVars, stockVars>>
Spec == Init /\ [][Next]_vars

\* Time passes and the interval calls the worker again and again; a transaction
\* that holds a lock ends, one way or the other; and at some time the scans stop
\* failing.
Fairness ==
  /\ WF_vars(Tick)
  /\ \A v \in Workers : WF_vars(Scan(v)) /\ WF_vars(Step(v))
  /\ \A w \in Writers : WF_vars(Step(w) \/ Rollback(w))
  /\ <>[][\A v \in Workers : ~Rollback(v)]_vars

FairSpec == Spec /\ Fairness

-----------------------------------------------------------------------------
(* Properties.                                                             *)

Tx == [pc: {"idle", "lookup", "skip", "load", "select", "update"},
       kind: DOMAIN MovementType \cup {"alert", "none"},
       cause: SaleEvent \cup Documents \cup {None},
       lines: Seq(LineType),
       next: Nat \ {0},
       read: [Products -> ItemRow \cup {NoItem}],
       seen: [Products -> ItemRow \cup {NoItem}],
       age: 0..Cooldown]

\* Type invariant of the tables and of the transactions in flight.
TypeOK ==
  /\ CheckoutTypeOK
  /\ items \in [Products -> ItemRow \cup {NoItem}]
  /\ \A i \in DOMAIN movements : MovementIsWellFormed(movements[i])
  /\ processed \subseteq stored
  /\ tx \in [Writers -> Tx]
  /\ lastAlert \in [Products -> 0..Never]
  /\ overtaken \subseteq Products

MovedBy(p) == FoldSeq(LAMBDA m, sum : IF m.product = p THEN sum + m.delta ELSE sum,
                      0, movements)

\* The quantity on hand is the sum of the movements of the product, unless
\* some transaction saved the product from a row that had changed since it was
\* read: no other order of sales, documents, scans and faults separates them.
StockMatchesMovements ==
  \A p \in Products \ overtaken :
    items[p] # NoItem => items[p].onHand = MovedBy(p)

MovesOf(x, type) ==
  {i \in DOMAIN movements :
     movements[i].type = type /\ movements[i].cause.aggregate = x}

MovesOfLine(x, type, line) ==
  {i \in MovesOf(x, type) :
     /\ movements[i].product = line.product
     /\ movements[i].delta \in {line.quantity, -line.quantity}}

\* Each line of the sale was moved so many times.
MovedTimes(x, type, n) ==
  \A i \in DOMAIN Items[x] : Cardinality(MovesOfLine(x, type, Items[x][i])) = n

EffectOnStock(x) ==
  CASE MovedTimes(x, "SALE_ISSUE", 0) /\ MovedTimes(x, "SALE_REVERSION", 0) -> "none"
    [] MovedTimes(x, "SALE_ISSUE", 1) /\ MovedTimes(x, "SALE_REVERSION", 0) -> "booked"
    [] MovedTimes(x, "SALE_ISSUE", 1) /\ MovedTimes(x, "SALE_REVERSION", 1) -> "undone"
    [] OTHER -> "wrong"

Books == INSTANCE SaleBooks WITH effect <- [x \in Sales |-> EffectOnStock(x)]

\* With one consumer instance the stock of a sale is issued once and returned
\* at most once, all lines together, however often and in whichever order the
\* events come.
ImplementsBooks == Books!BooksSpec

\* A reversion that finds no item throws, and is delivered again.  It does so
\* only when another consumer has processed a cancellation of the sale between
\* its lookups, so that the next delivery is ignored or skipped: no reversion
\* throws on every delivery and blocks its partition.
ReversionsFindTheirItem ==
  \A c \in Consumers :
    At(c, "load") /\ tx[c].kind = "revert" =>
      \/ items[Product(c)] # NoItem
      \/ Handled("SaleCanceled", tx[c].cause.aggregate)

\* However requests with one supplier reference overlap, it is received once.
InvoiceReceivedOnce ==
  \A i, j \in DOMAIN movements :
    /\ movements[i].type = "RECEIPT" /\ movements[j].type = "RECEIPT"
    /\ movements[i].cause.reference = movements[j].cause.reference
    /\ movements[i].product = movements[j].product
    => i = j

\* The average cost of a product lies between the lowest and the highest
\* unit cost it was ever received at, through negative stock, counts and sales.
CostsReceived(p) ==
  {line.unitCost : line \in
     {l \in UNION {ToSet(doc.lines) : doc \in
              {d \in Documents : d.kind = "invoice" /\ d.reference \in invoices}} :
        l.product = p}}

AverageCostWithinCosts ==
  \A p \in Products : items[p] # NoItem /\ items[p].cost # NoCost =>
    /\ \E low \in CostsReceived(p) : low <= items[p].cost
    /\ \E high \in CostsReceived(p) : items[p].cost <= high

\* An alert about a product is not repeated within the cooldown, unless the
\* stock recovered meanwhile (or its row was saved from a stale copy).
AlertsRespectCooldown ==
  [][\A v \in Workers : Commit(v) =>
       \A p \in ProductsOf(tx[v]) \ overtaken' : lastAlert[p] >= Cooldown]_vars

InWindow(p) == p \in Limited(Low)

\* A product that stays low, and among the first the query reads, is announced
\* again whenever the cooldown is over.  One behind them need not be: while
\* they cool down they still fill the limit of the query.
Announce(p) == \E v \in Workers : Commit(v) /\ p \in ProductsOf(tx[v])

LowStockIsAnnounced ==
  \A p \in Products : <>[]InWindow(p) => []<><<Announce(p)>>_vars

\* A sale or a document that commits while a scan saves its item is not
\* undone by it: the save writes the alert marker and nothing else, unless the
\* row had changed before the save looked at it.
ScansMoveNoStock ==
  [][\A v \in Workers : Commit(v) =>
       \A p \in ProductsOf(tx[v]) : tx[v].seen[p] = tx[v].read[p] =>
         items'[p].onHand = items[p].onHand]_vars
=============================================================================
