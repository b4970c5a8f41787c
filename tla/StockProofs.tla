---------------------------- MODULE StockProofs -----------------------------
(***************************************************************************)
(* Proofs about InventoryStock, for every number of requests, workers,     *)
(* sales and documents and, up to the last two parts, of consumer          *)
(* instances: types; reversions find their items, invoices are received    *)
(* once and scans move no stock, although no transaction locks what it     *)
(* reads; quantities are the sums of their movements, average costs stay   *)
(* between the costs received and alerts keep the cooldown for the         *)
(* products that no transaction saved from an outdated row.  With one      *)
(* instance the stock implements SaleBooks, and when requests do not       *)
(* overlap it says of a sale what its row says, whatever came first.       *)
(***************************************************************************)
EXTENDS InventoryStock, SaleEventsProofs, SequenceTheorems

Row == ItemRow \cup {NoItem}
Kinds == {"issue", "revert", "loss", "invoice", "count"}

LEMMA KindsOfMovements == DOMAIN MovementType = Kinds
BY DEF MovementType, Kinds

LEMMA NothingIsNoRow == NoItem \notin ItemRow
BY DEF NoItem, ItemRow

-----------------------------------------------------------------------------
(* Items.                                                                  *)

LEMMA DivIsNat ==
  ASSUME NEW a \in Nat, NEW b \in Nat \ {0}
  PROVE  a \div b \in Nat
OBVIOUS

LEMMA ProductIsNat ==
  ASSUME NEW a \in Nat, NEW b \in Nat
  PROVE  a * b \in Nat
OBVIOUS

LEMMA AverageIsACost ==
  ASSUME NEW item \in ItemRow, NEW quantity \in Nat, NEW unitCost \in Nat
  PROVE  AverageUnitCost(item, quantity, unitCost) \in Nat
<1>1. CASE item.cost = NoCost \/ item.onHand <= 0
  BY <1>1 DEF AverageUnitCost
<1>2. CASE ~(item.cost = NoCost \/ item.onHand <= 0)
  <2>1. item.onHand \in Nat \ {0} /\ item.cost \in Nat
    BY <1>2 DEF ItemRow
  <2> DEFINE next == item.onHand + quantity
             sum == item.onHand * item.cost + quantity * unitCost
  <2>2. next \in Nat \ {0} /\ 2 * next \in Nat \ {0}
    BY <2>1
  <2>3. sum \in Nat
    BY <2>1, ProductIsNat
  <2>4. 2 * sum + next \in Nat
    BY <2>2, <2>3
  <2>5. (2 * sum + next) \div (2 * next) \in Nat
    <3> HIDE DEF sum, next
    <3> QED
      BY <2>2, <2>4, DivIsNat
  <2> QED
    BY <1>2, <2>5 DEF AverageUnitCost
<1> QED
  BY <1>1, <1>2

LEMMA RefreshKeepsRow ==
  ASSUME NEW item \in ItemRow
  PROVE  /\ RefreshLowStockAlertState(item) \in ItemRow
         /\ RefreshLowStockAlertState(item).onHand = item.onHand
BY StockItemConstants DEF RefreshLowStockAlertState, ItemRow, Never

LEMMA TwoColumns ==
  ASSUME NEW item \in ItemRow, NEW n \in Int, NEW m \in Nat
  PROVE  /\ [item EXCEPT !.onHand = n, !.threshold = m] \in ItemRow
         /\ [item EXCEPT !.cost = m, !.onHand = n] \in ItemRow
<1>1. PICK a : a = [item EXCEPT !.onHand = n]
  OBVIOUS
<1>2. PICK b : b = [item EXCEPT !.cost = m]
  OBVIOUS
<1>3. a \in ItemRow /\ b \in ItemRow
  BY <1>1, <1>2 DEF ItemRow
<1>4. [a EXCEPT !.threshold = m] \in ItemRow /\ [b EXCEPT !.onHand = n] \in ItemRow
  BY <1>3 DEF ItemRow
<1>5. /\ [item EXCEPT !.onHand = n, !.threshold = m] = [a EXCEPT !.threshold = m]
      /\ [item EXCEPT !.cost = m, !.onHand = n] = [b EXCEPT !.onHand = n]
  BY <1>1, <1>2
<1> QED
  BY <1>4, <1>5

\* Every method of an item leaves an item.
LEMMA AppliedIsARow ==
  ASSUME NEW kind \in Kinds, NEW item \in ItemRow, NEW line \in LineType
  PROVE  Applied(kind, item, line) \in ItemRow
<1> USE DEF LineType
<1>1. CASE kind = "issue"
  <2>1. [item EXCEPT !.onHand = @ - line.quantity] \in ItemRow
    BY DEF ItemRow
  <2> QED
    BY <1>1, <2>1, RefreshKeepsRow DEF Applied, IssueSale
<1>2. CASE kind = "revert"
  <2>1. [item EXCEPT !.onHand = @ + line.quantity] \in ItemRow
    BY DEF ItemRow
  <2> QED
    BY <1>2, <2>1, RefreshKeepsRow DEF Applied, RevertSaleIssue
<1>3. CASE kind = "loss"
  <2>1. [item EXCEPT !.onHand = @ - line.quantity] \in ItemRow
    BY DEF ItemRow
  <2> QED
    BY <1>3, <2>1, RefreshKeepsRow DEF Applied, RegisterLoss
<1>4. CASE kind = "count"
  <2> DEFINE minimum == IF line.threshold = Unset THEN item.threshold ELSE line.threshold
  <2>1. [item EXCEPT !.onHand = line.quantity, !.threshold = minimum] \in ItemRow
    <3>1. line.quantity \in Int /\ minimum \in Nat
      BY DEF ItemRow
    <3> QED
      BY <3>1, TwoColumns
  <2> QED
    BY <1>4, <2>1, RefreshKeepsRow DEF Applied, ApplyPhysicalCount
<1>5. CASE kind = "invoice"
  <2>1. AverageUnitCost(item, line.quantity, line.unitCost) \in Nat
    BY AverageIsACost
  <2>2. [item EXCEPT !.cost = AverageUnitCost(item, line.quantity, line.unitCost),
                     !.onHand = @ + line.quantity] \in ItemRow
    <3>1. item.onHand + line.quantity \in Int
      BY DEF ItemRow
    <3> QED
      BY <2>1, <3>1, TwoColumns
  <2> QED
    BY <1>5, <2>2, RefreshKeepsRow DEF Applied, ReceiveStock
<1> QED
  BY <1>1, <1>2, <1>3, <1>4, <1>5 DEF Kinds

LEMMA InitialRow == Initialize \in ItemRow
BY StockItemConstants DEF Initialize, ItemRow, NoCost, Never

LEMMA FoundIsARow ==
  ASSUME NEW row \in Row
  PROVE  Found(row) \in ItemRow
BY InitialRow DEF Found, Row

\* A save leaves an item; the quantity on hand only changes if the copy differs
\* in it from the row the save looked at.
LEMMA MergeIsARow ==
  ASSUME NEW row \in Row, NEW seen \in Row, NEW copy \in ItemRow,
         seen # NoItem => row # NoItem
  PROVE  /\ Merge(row, seen, copy) \in ItemRow
         /\ seen # NoItem /\ copy.onHand = seen.onHand =>
              Merge(row, seen, copy).onHand = row.onHand
<1>1. CASE seen = NoItem
  BY <1>1 DEF Merge
<1>2. CASE seen # NoItem
  <2>1. row \in ItemRow
    BY <1>2 DEF Row
  <2>2. DOMAIN row = {"onHand", "threshold", "cost", "alert"}
    BY <2>1 DEF ItemRow
  <2>3. Merge(row, seen, copy) =
          [c \in {"onHand", "threshold", "cost", "alert"} |->
             IF copy[c] = seen[c] THEN row[c] ELSE copy[c]]
    BY <1>2, <2>2 DEF Merge
  <2>4. Merge(row, seen, copy) \in ItemRow
    BY <2>1, <2>3 DEF ItemRow
  <2>5. copy.onHand = seen.onHand => Merge(row, seen, copy).onHand = row.onHand
    BY <2>3
  <2> QED
    BY <2>4, <2>5
<1> QED
  BY <1>1, <1>2

-----------------------------------------------------------------------------
(* The invariant.                                                          *)

Movement ==
  [type: {"SALE_ISSUE", "SALE_REVERSION", "LOSS", "RECEIPT", "PHYSICAL_ADJUSTMENT"},
   product: Products, cause: SaleEvent \cup Documents \cup {None}, delta: Int]

HasItems(lines) == \A i \in DOMAIN lines : items[lines[i].product] # NoItem

\* A reversion that goes on has found the issue, and so the items are there,
\* unless the issue was reverted before; a completion that is skipped comes
\* after another one or after a cancellation.
ConsumerTx(t) ==
  /\ t.cause \in Delivered /\ t.cause.aggregate \in Sales
  /\ t.kind = SaleEventKind[t.cause.name]
  /\ t.lines = Items[t.cause.aggregate]
  /\ t.kind = "revert" /\ t.pc \notin {"lookup", "skip"} =>
       \/ HasItems(t.lines)
       \/ Handled("SaleCanceled", t.cause.aggregate)
  /\ t.cause.name = "SaleCompleted" /\ t.pc = "skip" =>
       \/ Handled("SaleCompleted", t.cause.aggregate)
       \/ Handled("SaleCanceled", t.cause.aggregate)

\* The transaction of a document: a count that goes on changes something.
ClerkTx(t) ==
  /\ t.cause \in Documents /\ t.kind = t.cause.kind /\ t.lines = t.cause.lines
  /\ t.kind = "count" /\ t.pc # "load" =>
       QuantityDelta("count", Found(t.read[t.lines[1].product]), t.lines[1]) # 0

\* The transaction of a scan: it saves the items it read, and reads no others.
WorkerTx(t) ==
  /\ t.kind = "alert" /\ t.pc # "load"
  /\ \A i \in DOMAIN t.lines : t.read[t.lines[i].product] # NoItem

\* Rows are never deleted: what a save saw is still there.
TxIsSound(w, t) ==
  t.pc # "idle" =>
    /\ t.next \in DOMAIN t.lines
    /\ \A p \in Products : t.seen[p] # NoItem => items[p] # NoItem
    /\ w \in Consumers => ConsumerTx(t)
    /\ w \in Clerks => ClerkTx(t)
    /\ w \in Workers => WorkerTx(t)

\* A completion that was issued, and not canceled since, has made its items.
IssuedItemsExist ==
  \A x \in Sales :
    Handled("SaleCompleted", x) /\ ~Handled("SaleCanceled", x) =>
      HasItems(Items[x])

ReceiptsHaveInvoices ==
  \A i \in DOMAIN movements :
    movements[i].type = "RECEIPT" => movements[i].cause.reference \in invoices

StockInv ==
  /\ StoredInv
  /\ TypeOK
  /\ movements \in Seq(Movement)
  /\ \A w \in Writers : TxIsSound(w, tx[w])
  /\ IssuedItemsExist
  /\ ReceiptsHaveInvoices
  /\ InvoiceReceivedOnce

-----------------------------------------------------------------------------
(* What a commit writes.                                                   *)

\* A line that reaches its commit has the quantity its movement needs.
LEMMA LineIsMeant ==
  ASSUME NEW w \in Consumers \cup Clerks, NEW t \in Tx, TxIsSound(w, t),
         t.pc = "update", NEW i \in DOMAIN t.lines
  PROVE  /\ t.kind \in Kinds
         /\ t.lines[i] \in LineType
         /\ t.kind # "count" => t.lines[i].quantity > 0
         /\ t.kind = "count" =>
              QuantityDelta("count", Found(t.read[t.lines[i].product]), t.lines[i]) # 0
<1>1. t.lines[i] \in LineType
  BY DEF Tx
<1>2. CASE w \in Consumers
  <2>1. ConsumerTx(t)
    BY <1>2 DEF TxIsSound
  <2>2. t.kind \in {"issue", "revert"}
    BY <2>1 DEF ConsumerTx, Delivered, SaleEventKind
  <2>3. t.lines[i].quantity > 0
    BY <2>1, StockConstants DEF ConsumerTx
  <2> QED
    BY <1>1, <2>2, <2>3 DEF Kinds
<1>3. CASE w \in Clerks
  <2>1. ClerkTx(t)
    BY <1>3 DEF TxIsSound
  <2>2. IsDocument(t.cause) /\ t.kind = t.cause.kind /\ t.lines = t.cause.lines
    BY <2>1, StockConstants DEF ClerkTx
  <2>3. t.kind \in {"loss", "count", "invoice"}
    BY <2>2 DEF IsDocument
  <2>4. t.kind \in {"loss", "count"} => i = 1
    BY <2>2 DEF IsDocument
  <2>5. t.kind = "loss" => t.lines[i].quantity > 0
    BY <2>2, <2>4 DEF IsDocument
  <2>6. t.kind = "invoice" => t.lines[i].quantity > 0
    BY <2>2 DEF IsDocument, IsInvoice
  <2>7. t.kind = "count" =>
          QuantityDelta("count", Found(t.read[t.lines[i].product]), t.lines[i]) # 0
    BY <2>1, <2>4 DEF ClerkTx
  <2> QED
    BY <1>1, <2>3, <2>5, <2>6, <2>7 DEF Kinds
<1> QED
  BY <1>2, <1>3

LEMMA DeltaIsMeant ==
  ASSUME NEW kind \in Kinds, NEW item \in ItemRow, NEW line \in LineType,
         kind # "count" => line.quantity > 0,
         kind = "count" => QuantityDelta("count", item, line) # 0
  PROVE  /\ QuantityDelta(kind, item, line) \in Int
         /\ kind \in {"issue", "loss"} => QuantityDelta(kind, item, line) < 0
         /\ kind \in {"revert", "invoice"} => QuantityDelta(kind, item, line) > 0
         /\ kind = "count" => QuantityDelta(kind, item, line) # 0
BY DEF QuantityDelta, Kinds, ItemRow, LineType

LEMMA MovementIsMeant ==
  ASSUME NEW w \in Consumers \cup Clerks, NEW t \in Tx, TxIsSound(w, t),
         t.pc = "update", NEW i \in DOMAIN t.lines
  PROVE  /\ MovementOf(t, t.lines[i]) \in Movement
         /\ MovementIsWellFormed(MovementOf(t, t.lines[i]))
         /\ MovementOf(t, t.lines[i]).type = MovementType[t.kind]
         /\ MovementOf(t, t.lines[i]).product = t.lines[i].product
         /\ MovementOf(t, t.lines[i]).cause = t.cause
<1> DEFINE line == t.lines[i]
           item == Found(t.read[line.product])
           delta == QuantityDelta(t.kind, item, line)
<1>1. /\ t.kind \in Kinds /\ line \in LineType
      /\ t.kind # "count" => line.quantity > 0
      /\ t.kind = "count" => QuantityDelta("count", item, line) # 0
  BY LineIsMeant
<1>2. line.product \in Products /\ t.cause \in SaleEvent \cup Documents \cup {None}
  BY <1>1 DEF LineType, Tx
<1>3. item \in ItemRow
  BY <1>2, FoundIsARow DEF Tx, Row
<1> HIDE DEF item
<1>4. /\ delta \in Int
      /\ t.kind \in {"issue", "loss"} => delta < 0
      /\ t.kind \in {"revert", "invoice"} => delta > 0
      /\ t.kind = "count" => delta # 0
  BY <1>1, <1>3, DeltaIsMeant
<1>5. MovementOf(t, line) =
        [type |-> MovementType[t.kind], product |-> line.product,
         cause |-> t.cause, delta |-> delta]
  BY DEF MovementOf, item
<1> HIDE DEF delta, line
<1>6. /\ t.kind = "issue" => MovementType[t.kind] = "SALE_ISSUE"
      /\ t.kind = "revert" => MovementType[t.kind] = "SALE_REVERSION"
      /\ t.kind = "loss" => MovementType[t.kind] = "LOSS"
      /\ t.kind = "invoice" => MovementType[t.kind] = "RECEIPT"
      /\ t.kind = "count" => MovementType[t.kind] = "PHYSICAL_ADJUSTMENT"
  BY DEF MovementType
<1>7. MovementOf(t, line) \in Movement
  BY <1>1, <1>2, <1>4, <1>5, <1>6 DEF Movement, Kinds
<1>8. MovementIsWellFormed(MovementOf(t, line))
  <2>1. PICK m : m = MovementOf(t, line)
    OBVIOUS
  <2>2. m.type = MovementType[t.kind] /\ m.delta = delta
    BY <1>5, <2>1
  <2>3. CASE t.kind \in {"issue", "loss"}
    BY <1>4, <1>6, <2>1, <2>2, <2>3 DEF MovementIsWellFormed
  <2>4. CASE t.kind \in {"revert", "invoice"}
    BY <1>4, <1>6, <2>1, <2>2, <2>4 DEF MovementIsWellFormed
  <2>5. CASE t.kind = "count"
    BY <1>4, <1>6, <2>1, <2>2, <2>5 DEF MovementIsWellFormed
  <2> QED
    BY <1>1, <2>3, <2>4, <2>5 DEF Kinds
<1> QED
  BY <1>5, <1>7, <1>8 DEF line

LEMMA MovementsAreMeant ==
  ASSUME NEW w \in Writers, NEW t \in Tx, TxIsSound(w, t), t.pc = "update"
  PROVE  /\ MovementsOf(t) \in Seq(Movement)
         /\ \A i \in DOMAIN MovementsOf(t) :
              /\ i \in DOMAIN t.lines
              /\ MovementIsWellFormed(MovementsOf(t)[i])
              /\ MovementsOf(t)[i].type = MovementType[t.kind]
              /\ MovementsOf(t)[i].product = t.lines[i].product
              /\ MovementsOf(t)[i].cause = t.cause
              /\ t.kind \in Kinds
<1>1. CASE t.kind = "alert"
  BY <1>1 DEF MovementsOf
<1>2. CASE t.kind # "alert"
  <2>1. w \in Consumers \cup Clerks
    BY <1>2 DEF TxIsSound, WorkerTx, Writers
  <2>2. MovementsOf(t) = [i \in DOMAIN t.lines |-> MovementOf(t, t.lines[i])]
    BY <1>2 DEF MovementsOf
  <2>3. t.lines \in Seq(LineType)
    BY DEF Tx
  <2>4. DOMAIN t.lines = 1..Len(t.lines) /\ Len(t.lines) \in Nat
    BY <2>3
  <2>5. \A i \in DOMAIN t.lines : MovementOf(t, t.lines[i]) \in Movement
    BY <2>1, MovementIsMeant
  <2>6. MovementsOf(t) \in Seq(Movement)
    BY <2>2, <2>4, <2>5, IsASeq
  <2>7. \A i \in DOMAIN t.lines : t.kind \in Kinds
    BY <2>1, LineIsMeant
  <2> QED
    BY <2>1, <2>2, <2>6, <2>7, MovementIsMeant
<1> QED
  BY <1>1, <1>2

\* What is written of a product of the transaction.
LEMMA CopyIsARow ==
  ASSUME NEW w \in Writers, NEW t \in Tx, TxIsSound(w, t), t.pc = "update",
         NEW line \in ToSet(t.lines)
  PROVE  /\ Copy(t, line) \in ItemRow
         /\ t.kind = "alert" => Copy(t, line).onHand = t.read[line.product].onHand
<1>1. PICK i \in DOMAIN t.lines : line = t.lines[i]
  BY DEF ToSet
<1>2. line \in LineType /\ line.product \in Products
  <2>1. t.lines[i] \in LineType
    BY DEF Tx
  <2> QED
    BY <1>1, <2>1 DEF LineType
<1>3. t.read[line.product] \in Row
  BY <1>2 DEF Tx, Row
<1>4. CASE t.kind = "alert"
  <2>1. w \in Workers
    BY <1>1, <1>4, LineIsMeant DEF Writers, Kinds
  <2>2. t.read[line.product] \in ItemRow
    BY <1>1, <1>3, <2>1 DEF TxIsSound, WorkerTx, Row
  <2>3. t.age \in 0..Never
    BY StockItemConstants DEF Tx, Never
  <2>4. Copy(t, line) = [t.read[line.product] EXCEPT !.alert = t.age]
    BY <1>4 DEF Copy, MarkLowStockAlertEmitted
  <2> QED
    BY <2>2, <2>3, <2>4 DEF ItemRow
<1>5. CASE t.kind # "alert"
  <2>1. w \in Consumers \cup Clerks
    BY <1>5 DEF TxIsSound, WorkerTx, Writers
  <2>2. t.kind \in Kinds
    BY <1>1, <2>1, LineIsMeant
  <2> QED
    BY <1>2, <1>3, <1>5, <2>2, FoundIsARow, AppliedIsARow DEF Copy
<1> QED
  BY <1>4, <1>5

LEMMA SavedAreRows ==
  ASSUME items \in [Products -> Row],
         NEW w \in Writers, NEW t \in Tx, TxIsSound(w, t), t.pc = "update"
  PROVE  /\ Saved(t) \in [Products -> Row]
         /\ \A p \in Products : items[p] # NoItem => Saved(t)[p] # NoItem
         /\ \A i \in DOMAIN t.lines : Saved(t)[t.lines[i].product] # NoItem
         /\ t.kind = "alert" => \A p \in ProductsOf(t) :
              t.seen[p] = t.read[p] => Saved(t)[p].onHand = items[p].onHand
<1>1. ASSUME NEW p \in Products, p \in ProductsOf(t)
      PROVE  /\ Saved(t)[p] \in ItemRow
             /\ t.kind = "alert" /\ t.seen[p] = t.read[p] =>
                  Saved(t)[p].onHand = items[p].onHand
  <2>1. \E l \in ToSet(t.lines) : l.product = p
    BY <1>1 DEF ProductsOf, ToSet
  <2>2. PICK line : line = CHOOSE l \in ToSet(t.lines) : l.product = p
    OBVIOUS
  <2>3. line \in ToSet(t.lines) /\ line.product = p
    BY <2>1, <2>2
  <2>4. Saved(t)[p] = Merge(items[p], t.seen[p], Copy(t, line))
    BY <1>1, <2>2 DEF Saved
  <2>5. /\ Copy(t, line) \in ItemRow
        /\ t.kind = "alert" => Copy(t, line).onHand = t.read[p].onHand
    BY <2>3, CopyIsARow
  <2>6. /\ items[p] \in Row /\ t.seen[p] \in Row
        /\ t.seen[p] # NoItem => items[p] # NoItem
    BY DEF Tx, Row, TxIsSound
  <2>7. t.kind = "alert" => t.read[p] # NoItem
    <3>1. PICK i \in DOMAIN t.lines : p = t.lines[i].product
      BY <1>1 DEF ProductsOf
    <3>2. t.kind = "alert" => w \in Workers
      BY <3>1, LineIsMeant DEF Writers, Kinds
    <3> QED
      BY <3>1, <3>2 DEF TxIsSound, WorkerTx
  <2>8. /\ Merge(items[p], t.seen[p], Copy(t, line)) \in ItemRow
        /\ t.seen[p] # NoItem /\ Copy(t, line).onHand = t.seen[p].onHand =>
             Merge(items[p], t.seen[p], Copy(t, line)).onHand = items[p].onHand
    BY <2>5, <2>6, MergeIsARow
  <2> QED
    BY <2>4, <2>5, <2>7, <2>8
<1>2. \A p \in Products : p \notin ProductsOf(t) => Saved(t)[p] = items[p]
  BY DEF Saved
<1>3. \A i \in DOMAIN t.lines : t.lines[i].product \in Products
  <2>1. \A i \in DOMAIN t.lines : t.lines[i] \in LineType
    BY DEF Tx
  <2> QED
    BY <2>1 DEF LineType
<1>4. \A p \in ProductsOf(t) : p \in Products
  BY <1>3 DEF ProductsOf
<1>5. Saved(t) = [p \in Products |-> Saved(t)[p]]
  BY DEF Saved
<1> QED
  BY <1>1, <1>2, <1>3, <1>4, <1>5, NothingIsNoRow DEF Row, ProductsOf

-----------------------------------------------------------------------------
(* Steps that write no table.                                              *)

LEMMA IdleIsTyped == Idle \in Tx
BY StockItemConstants DEF Idle, Begin, Tx, Rows

LEMMA HandledIsKept ==
  ASSUME processed \subseteq processed', NEW name, NEW x, Handled(name, x)
  PROVE  Handled(name, x)'
BY DEF Handled

\* A transaction stays sound while events are added and no row is deleted.
LEMMA SoundnessGrows ==
  ASSUME stored \subseteq stored', processed \subseteq processed',
         \A p \in Products : items[p] # NoItem => items'[p] # NoItem,
         NEW w, NEW t \in Tx, TxIsSound(w, t)
  PROVE  TxIsSound(w, t)'
<1>1. \A i \in DOMAIN t.lines : t.lines[i].product \in Products
  <2>1. \A i \in DOMAIN t.lines : t.lines[i] \in LineType
    BY DEF Tx
  <2> QED
    BY <2>1 DEF LineType
<1>2. ASSUME ConsumerTx(t) PROVE ConsumerTx(t)'
  <2>1. HasItems(t.lines) => HasItems(t.lines)'
    BY <1>1 DEF HasItems
  <2>2. \A name \in {"SaleCompleted", "SaleCanceled"} :
          Handled(name, t.cause.aggregate) => Handled(name, t.cause.aggregate)'
    BY HandledIsKept
  <2> QED
    BY <1>2, <2>1, <2>2 DEF ConsumerTx, Delivered
<1>3. ClerkTx(t) => ClerkTx(t)'
  BY DEF ClerkTx
<1>4. WorkerTx(t) => WorkerTx(t)'
  BY DEF WorkerTx
<1> QED
  BY <1>2, <1>3, <1>4 DEF TxIsSound

LEMMA AllStaySound ==
  ASSUME stored \subseteq stored', processed \subseteq processed',
         \A p \in Products : items[p] # NoItem => items'[p] # NoItem,
         tx' \in [Writers -> Tx],
         \A w \in Writers : TxIsSound(w, tx'[w])
  PROVE  \A w \in Writers : TxIsSound(w, tx[w])'
<1>1. ASSUME NEW w \in Writers PROVE TxIsSound(w, tx[w])'
  <2>1. PICK t \in Tx : t = tx'[w]
    OBVIOUS
  <2>2. TxIsSound(w, t)'
    BY <2>1, SoundnessGrows
  <2> QED
    BY <2>1, <2>2 DEF TxIsSound, ConsumerTx, ClerkTx, WorkerTx, HasItems, Handled
<1> QED
  BY <1>1

LEMMA TablesKeepStock ==
  ASSUME StockInv, TablesUnchanged, tx' \in [Writers -> Tx],
         \A w \in Writers : TxIsSound(w, tx'[w])
  PROVE  StockInv'
<1>1. UNCHANGED <<items, movements, processed, invoices, lastAlert, overtaken,
                  sessions, sales, stored>>
  BY DEF TablesUnchanged, checkoutVars
<1>2. StoredInv'
  BY <1>1 DEF StockInv, StoredInv, CheckoutTypeOK
<1>3. TypeOK'
  BY <1>1 DEF StockInv, TypeOK, CheckoutTypeOK
<1>4. \A w \in Writers : TxIsSound(w, tx[w])'
  BY <1>1, AllStaySound
<1>5. IssuedItemsExist' /\ ReceiptsHaveInvoices' /\ InvoiceReceivedOnce'
  BY <1>1 DEF StockInv, IssuedItemsExist, HasItems, ReceiptsHaveInvoices,
              InvoiceReceivedOnce, Handled
<1>6. movements' \in Seq(Movement)
  BY <1>1 DEF StockInv
<1> QED
  BY <1>2, <1>3, <1>4, <1>5, <1>6 DEF StockInv

LEMMA GotoKeepsStock ==
  ASSUME StockInv, NEW w \in Writers, NEW t \in Tx, TxIsSound(w, t),
         Goto(w, t), TablesUnchanged
  PROVE  StockInv'
<1>1. tx \in [Writers -> Tx] /\ \A v \in Writers : TxIsSound(v, tx[v])
  BY DEF StockInv, TypeOK
<1>2. tx' = [tx EXCEPT ![w] = t]
  BY DEF Goto
<1>3. tx' \in [Writers -> Tx]
  BY <1>1, <1>2
<1>4. ASSUME NEW v \in Writers PROVE TxIsSound(v, tx'[v])
  <2>1. CASE v = w
    BY <1>1, <1>2, <2>1
  <2>2. CASE v # w
    BY <1>1, <1>2, <2>2
  <2> QED
    BY <2>1, <2>2
<1> QED
  BY <1>3, <1>4, TablesKeepStock

LEMMA ReceiveKeepsStock ==
  ASSUME StockInv, NEW c \in Consumers, Receive(c)
  PROVE  StockInv'
<1>1. PICK e \in Delivered \ processed :
        /\ TablesUnchanged
        /\ Goto(c, Begin(IF IsRepeated(e) THEN "skip" ELSE "lookup",
                         SaleEventKind[e.name], e, Items[e.aggregate], Rows))
  BY DEF Receive
<1>2. e \in stored /\ e.name \in {"SaleCompleted", "SaleCanceled"}
  BY <1>1 DEF Delivered, SaleEventKind
<1>3. e \in SaleEvent /\ e.aggregate \in Sales
  BY <1>2 DEF StockInv, StoredInv, CheckoutTypeOK, SaleEvent, ClosedEvent
<1>4. SaleEventKind[e.name] \in {"issue", "revert"}
  BY <1>2 DEF SaleEventKind
<1>5. Items[e.aggregate] \in Seq(LineType) /\ 1 \in DOMAIN Items[e.aggregate]
  BY <1>3, StockConstants
<1>6. PICK t : t = [pc |-> IF IsRepeated(e) THEN "skip" ELSE "lookup",
                    kind |-> SaleEventKind[e.name], cause |-> e,
                    lines |-> Items[e.aggregate], next |-> 1,
                    read |-> Rows, seen |-> Rows, age |-> 0]
  OBVIOUS
<1>7. Goto(c, t)
  BY <1>1, <1>6 DEF Begin
<1>8. t \in Tx
  BY <1>3, <1>4, <1>5, <1>6, StockItemConstants, KindsOfMovements DEF Tx, Rows, Kinds
<1>9. t.pc = "skip" /\ e.name = "SaleCompleted" => Handled("SaleCompleted", e.aggregate)
  BY <1>6 DEF IsRepeated
<1>10. ConsumerTx(t)
  BY <1>1, <1>3, <1>6, <1>9 DEF ConsumerTx
<1>11. TxIsSound(c, t)
  BY <1>5, <1>6, <1>10, StockConstants DEF TxIsSound, Rows
<1>12. c \in Writers
  BY DEF Writers
<1> QED
  BY <1>1, <1>7, <1>8, <1>11, <1>12, GotoKeepsStock

LEMMA SubmitKeepsStock ==
  ASSUME StockInv, NEW k \in Clerks, Submit(k)
  PROVE  StockInv'
<1>1. PICK doc \in Documents :
        /\ TablesUnchanged
        /\ Goto(k, Begin("load", doc.kind, doc, doc.lines, Rows))
  BY DEF Submit
<1>2. IsDocument(doc)
  BY StockConstants
<1>3. /\ doc.lines \in Seq(LineType)
      /\ doc.kind \in {"loss", "count", "invoice"}
      /\ doc.lines # <<>>
  <2>1. doc.lines \in Seq(LineType) /\ doc.kind \in {"loss", "count", "invoice"}
    BY <1>2 DEF IsDocument
  <2>2. CASE doc.kind = "invoice"
    BY <1>2, <2>1, <2>2 DEF IsDocument, IsInvoice
  <2>3. CASE doc.kind # "invoice"
    <3>1. Len(doc.lines) = 1
      BY <1>2, <2>1, <2>3 DEF IsDocument
    <3> QED
      BY <2>1, <3>1, EmptySeq
  <2> QED
    BY <2>1, <2>2, <2>3
<1>4. 1 \in DOMAIN doc.lines
  BY <1>3
<1>5. PICK t : t = [pc |-> "load", kind |-> doc.kind, cause |-> doc,
                    lines |-> doc.lines, next |-> 1,
                    read |-> Rows, seen |-> Rows, age |-> 0]
  OBVIOUS
<1>6. Goto(k, t)
  BY <1>1, <1>5 DEF Begin
<1>7. t \in Tx
  BY <1>3, <1>5, StockItemConstants, KindsOfMovements DEF Tx, Rows, Kinds
<1>8. ClerkTx(t)
  BY <1>5 DEF ClerkTx
<1>9. TxIsSound(k, t)
  BY <1>4, <1>5, <1>8, StockConstants DEF TxIsSound, Rows
<1>10. k \in Writers
  BY DEF Writers
<1> QED
  BY <1>1, <1>6, <1>7, <1>9, <1>10, GotoKeepsStock

LEMMA ScanKeepsStock ==
  ASSUME StockInv, NEW v \in Workers, Scan(v)
  PROVE  StockInv'
<1>1. PICK found \in InOrder(FindLowStockCandidates) :
        /\ found # <<>> /\ TablesUnchanged
        /\ Goto(v, Begin("select", "alert", None,
                         [i \in DOMAIN found |-> LineOf(found[i], 0)], items))
  BY DEF Scan
<1>2. \A p \in FindLowStockCandidates : p \in Products /\ items[p] # NoItem
  BY DEF FindLowStockCandidates, Limited, Low
<1>3. Cardinality(FindLowStockCandidates) \in Nat
  <2>1. FindLowStockCandidates \subseteq Products
    BY <1>2
  <2> QED
    BY <2>1, FS_Subset, FS_CardinalityType, StockItemConstants
<1>4. PICK n \in Nat : found \in [1..n -> FindLowStockCandidates]
  BY <1>3 DEF InOrder
<1>5. n # 0
  <2>1. found \in Seq(FindLowStockCandidates)
    BY <1>4, IsASeq
  <2>2. Len(found) = n
    BY <1>4, <2>1
  <2> QED
    BY <1>1, <2>1, <2>2, EmptySeq
<1>6. PICK lines : lines = [i \in 1..n |-> LineOf(found[i], 0)]
  OBVIOUS
<1>7. \A i \in 1..n : LineOf(found[i], 0) \in LineType /\ LineOf(found[i], 0).product = found[i]
  BY <1>2, <1>4 DEF LineOf, LineType
<1>8. lines \in Seq(LineType) /\ DOMAIN lines = 1..n
  BY <1>6, <1>7, IsASeq
<1>9. PICK t : t = [pc |-> "select", kind |-> "alert", cause |-> None,
                    lines |-> lines, next |-> 1,
                    read |-> items, seen |-> Rows, age |-> 0]
  OBVIOUS
<1>10. Goto(v, t)
  BY <1>1, <1>4, <1>6, <1>9 DEF Begin
<1>11. items \in [Products -> ItemRow \cup {NoItem}]
  BY DEF StockInv, TypeOK
<1>12. t \in Tx
  BY <1>8, <1>9, <1>11, StockItemConstants DEF Tx, Rows
<1>13. WorkerTx(t)
  BY <1>2, <1>4, <1>6, <1>7, <1>8, <1>9 DEF WorkerTx
<1>14. 1 \in DOMAIN t.lines
  BY <1>5, <1>8, <1>9
<1>15. TxIsSound(v, t)
  BY <1>9, <1>13, <1>14, StockConstants DEF TxIsSound, Rows
<1>16. v \in Writers
  BY DEF Writers
<1> QED
  BY <1>1, <1>10, <1>12, <1>15, <1>16, GotoKeepsStock

LEMMA RollbackKeepsStock ==
  ASSUME StockInv, NEW w \in Writers, Finish(w), TablesUnchanged
  PROVE  StockInv'
<1>1. Idle.pc = "idle"
  BY DEF Idle, Begin
<1>2. TxIsSound(w, Idle)
  BY <1>1 DEF TxIsSound
<1> QED
  BY <1>2, IdleIsTyped, GotoKeepsStock DEF Finish

\* The line a transaction works on.
LEMMA LineIsTyped ==
  ASSUME StockInv, NEW w \in Writers, ~At(w, "idle")
  PROVE  /\ tx[w] \in Tx /\ TxIsSound(w, tx[w])
         /\ tx[w].next \in DOMAIN tx[w].lines
         /\ Line(w) \in LineType /\ Product(w) \in Products
<1>1. tx[w] \in Tx /\ TxIsSound(w, tx[w])
  BY DEF StockInv, TypeOK
<1>2. tx[w].next \in DOMAIN tx[w].lines
  BY <1>1 DEF TxIsSound, At
<1>3. Line(w) \in LineType
  BY <1>1, <1>2 DEF Line, Tx
<1> QED
  BY <1>1, <1>2, <1>3 DEF Product, LineType

LEMMA LookUpKeepsStock ==
  ASSUME StockInv, NEW c \in Consumers, LookUp(c)
  PROVE  StockInv'
<1>1. PICK r : r = tx[c]
  OBVIOUS
<1>2. PICK pc : pc = IF IsPointless(r.cause) THEN "skip" ELSE "load"
  OBVIOUS
<1>3. PICK t : t = [r EXCEPT !.pc = pc]
  OBVIOUS
<1>4. r.pc = "lookup" /\ TablesUnchanged /\ Goto(c, t)
  BY <1>1, <1>2, <1>3 DEF LookUp, At
<1>5. c \in Writers /\ ~At(c, "idle")
  BY <1>1, <1>4 DEF Writers, At
<1>6. r \in Tx /\ TxIsSound(c, r)
  BY <1>1, <1>5, LineIsTyped
<1>7. /\ t \in Tx /\ t.pc = pc /\ t.kind = r.kind /\ t.cause = r.cause
      /\ t.lines = r.lines /\ t.next = r.next /\ t.read = r.read /\ t.seen = r.seen
  BY <1>2, <1>3, <1>6 DEF Tx
<1>8. ConsumerTx(r)
  BY <1>4, <1>6 DEF TxIsSound
<1>9. ASSUME t.kind = "revert", pc = "load"
      PROVE  HasItems(t.lines) \/ Handled("SaleCanceled", t.cause.aggregate)
  <2>1. t.cause.name = "SaleCanceled" /\ t.cause.aggregate \in Sales
        /\ t.lines = Items[t.cause.aggregate]
    BY <1>7, <1>8, <1>9 DEF ConsumerTx, Delivered, SaleEventKind
  <2>2. Handled("SaleCompleted", t.cause.aggregate)
    BY <1>2, <1>7, <1>9, <2>1 DEF IsPointless
  <2> QED
    BY <2>1, <2>2 DEF StockInv, IssuedItemsExist
<1>10. ASSUME t.cause.name = "SaleCompleted", pc = "skip"
       PROVE  Handled("SaleCanceled", t.cause.aggregate)
  BY <1>2, <1>7, <1>10 DEF IsPointless
<1>11. ConsumerTx(t)
  BY <1>2, <1>7, <1>8, <1>9, <1>10 DEF ConsumerTx
<1>12. TxIsSound(c, t)
  BY <1>4, <1>6, <1>7, <1>11, StockConstants DEF TxIsSound
<1> QED
  BY <1>4, <1>5, <1>7, <1>12, GotoKeepsStock

LEMMA LoadKeepsStock ==
  ASSUME StockInv, NEW w \in Writers, Load(w)
  PROVE  StockInv'
<1>a. PICK r, p, row : r = tx[w] /\ p = Product(w) /\ row = items[p]
  OBVIOUS
<1>1. /\ r \in Tx /\ TxIsSound(w, r) /\ r.pc = "load"
      /\ r.next \in DOMAIN r.lines /\ p = r.lines[r.next].product /\ p \in Products
  BY <1>a, LineIsTyped DEF Load, At, Product, Line
<1>2. TablesUnchanged
  BY DEF Load
<1>3. CASE Finish(w)
  BY <1>2, <1>3, RollbackKeepsStock
<1>4. CASE ~Finish(w)
  <2>1. /\ ~Throws(r.kind, row, r.lines[r.next])
        /\ Goto(w, [r EXCEPT !.pc = "select", !.read[p] = row])
    BY <1>4, <1>a DEF Load, Line
  <2>2. PICK a : a = [r EXCEPT !.pc = "select"]
    OBVIOUS
  <2>3. PICK t : t = [a EXCEPT !.read[p] = row]
    OBVIOUS
  <2>4. Goto(w, t)
    BY <2>1, <2>2, <2>3
  <2>5. a \in Tx /\ a.pc = "select" /\ a.kind = r.kind /\ a.cause = r.cause
        /\ a.lines = r.lines /\ a.next = r.next /\ a.seen = r.seen /\ a.read = r.read
    BY <1>1, <2>2 DEF Tx
  <2>6. row \in ItemRow \cup {NoItem}
    BY <1>a, <1>1 DEF StockInv, TypeOK
  <2>7. /\ t \in Tx /\ t.pc = "select" /\ t.kind = r.kind /\ t.cause = r.cause
        /\ t.lines = r.lines /\ t.next = r.next /\ t.seen = r.seen
        /\ t.read = [r.read EXCEPT ![p] = row]
    BY <1>1, <2>3, <2>5, <2>6 DEF Tx
  <2>8. t.read[p] = row
    BY <1>1, <2>7 DEF Tx
  <2>9. ConsumerTx(r) => ConsumerTx(t)
    BY <1>1, <2>7 DEF ConsumerTx
  <2>10. ASSUME ClerkTx(r) PROVE ClerkTx(t)
    <3>1. t.cause \in Documents /\ t.kind = t.cause.kind /\ t.lines = t.cause.lines
      BY <2>7, <2>10 DEF ClerkTx
    <3>2. ASSUME t.kind = "count"
          PROVE  QuantityDelta("count", Found(t.read[t.lines[1].product]), t.lines[1]) # 0
      <4>1. Len(t.lines) = 1
        BY <3>1, <3>2, StockConstants DEF IsDocument
      <4>2. r.next = 1
        BY <4>1, <1>1, <2>7 DEF Tx
      <4> QED
        BY <4>2, <1>1, <2>1, <2>7, <2>8, <3>2 DEF Throws
    <3> QED
      BY <3>1, <3>2 DEF ClerkTx
  <2>11. ~WorkerTx(r)
    BY <1>1 DEF WorkerTx
  <2>12. TxIsSound(w, t)
    BY <1>1, <2>7, <2>9, <2>10, <2>11 DEF TxIsSound
  <2> QED
    BY <1>2, <2>4, <2>7, <2>12, GotoKeepsStock
<1> QED
  BY <1>3, <1>4

LEMMA SelectKeepsStock ==
  ASSUME StockInv, NEW w \in Writers, Select(w)
  PROVE  StockInv'
<1>1. PICK r, p, row : r = tx[w] /\ p = Product(w) /\ row = items[p]
  OBVIOUS
<1>2. /\ r \in Tx /\ TxIsSound(w, r) /\ r.pc = "select" /\ p \in Products
  BY <1>1, LineIsTyped DEF Select, At
<1>3. TablesUnchanged /\ Goto(w, [r EXCEPT !.pc = "update", !.seen[p] = row])
  BY <1>1 DEF Select
<1>4. PICK a : a = [r EXCEPT !.pc = "update"]
  OBVIOUS
<1>5. PICK t : t = [a EXCEPT !.seen[p] = row]
  OBVIOUS
<1>6. Goto(w, t)
  BY <1>3, <1>4, <1>5
<1>7. a \in Tx /\ a.pc = "update" /\ a.kind = r.kind /\ a.cause = r.cause
      /\ a.lines = r.lines /\ a.next = r.next /\ a.seen = r.seen /\ a.read = r.read
  BY <1>2, <1>4 DEF Tx
<1>8. row \in ItemRow \cup {NoItem}
  BY <1>1, <1>2 DEF StockInv, TypeOK
<1>9. /\ t \in Tx /\ t.pc = "update" /\ t.kind = r.kind /\ t.cause = r.cause
      /\ t.lines = r.lines /\ t.next = r.next /\ t.read = r.read
      /\ t.seen = [r.seen EXCEPT ![p] = row]
  BY <1>2, <1>5, <1>7, <1>8 DEF Tx
<1>10. \A q \in Products : t.seen[q] # NoItem => items[q] # NoItem
  BY <1>1, <1>2, <1>9 DEF TxIsSound, Tx
<1>11. /\ ConsumerTx(r) => ConsumerTx(t)
       /\ ClerkTx(r) => ClerkTx(t)
       /\ WorkerTx(r) => WorkerTx(t)
  BY <1>2, <1>9 DEF ConsumerTx, ClerkTx, WorkerTx
<1>12. TxIsSound(w, t)
  BY <1>2, <1>9, <1>10, <1>11 DEF TxIsSound
<1> QED
  BY <1>3, <1>6, <1>9, <1>12, GotoKeepsStock

LEMMA UpdateKeepsStock ==
  ASSUME StockInv, NEW w \in Writers, Update(w)
  PROVE  StockInv'
<1>1. PICK r, pc : r = tx[w] /\ pc = IF r.kind = "alert" THEN "select" ELSE "load"
  OBVIOUS
<1>2. r \in Tx /\ TxIsSound(w, r) /\ r.pc = "update" /\ r.next \in DOMAIN r.lines
  BY <1>1, LineIsTyped DEF Update, MayWrite, At
<1>3. /\ TablesUnchanged /\ r.next # Len(r.lines)
      /\ Goto(w, [r EXCEPT !.next = @ + 1, !.pc = pc])
  BY <1>1 DEF Update, LastLine
<1>4. PICK a : a = [r EXCEPT !.next = @ + 1]
  OBVIOUS
<1>5. PICK t : t = [a EXCEPT !.pc = pc]
  OBVIOUS
<1>6. Goto(w, t)
  BY <1>3, <1>4, <1>5
<1>7. r.lines \in Seq(LineType) /\ r.next \in 1..Len(r.lines)
  BY <1>2 DEF Tx
<1>8. r.next + 1 \in DOMAIN r.lines /\ Len(r.lines) # 1
  BY <1>3, <1>7
<1>9. a \in Tx /\ a.kind = r.kind /\ a.cause = r.cause /\ a.lines = r.lines
      /\ a.next = r.next + 1 /\ a.seen = r.seen /\ a.read = r.read
  BY <1>2, <1>4 DEF Tx
<1>10. /\ t \in Tx /\ t.pc = pc /\ t.kind = r.kind /\ t.cause = r.cause
       /\ t.lines = r.lines /\ t.next = r.next + 1 /\ t.read = r.read /\ t.seen = r.seen
  BY <1>1, <1>5, <1>9 DEF Tx
<1>11. ConsumerTx(r) => ConsumerTx(t)
  BY <1>1, <1>2, <1>10 DEF ConsumerTx
<1>12. ASSUME ClerkTx(r) PROVE ClerkTx(t)
  <2>1. t.cause \in Documents /\ t.kind = t.cause.kind /\ t.lines = t.cause.lines
    BY <1>10, <1>12 DEF ClerkTx
  <2>2. t.kind # "count"
    BY <1>8, <1>10, <2>1, StockConstants DEF IsDocument
  <2> QED
    BY <2>1, <2>2 DEF ClerkTx
<1>13. WorkerTx(r) => WorkerTx(t)
  BY <1>1, <1>10 DEF WorkerTx
<1>14. TxIsSound(w, t)
  BY <1>2, <1>8, <1>10, <1>11, <1>12, <1>13 DEF TxIsSound
<1> QED
  BY <1>3, <1>6, <1>10, <1>14, GotoKeepsStock

-----------------------------------------------------------------------------
(* Steps that write the tables.                                            *)

\* What a transaction that ends leaves of the transactions.
LEMMA FinishIsSound ==
  ASSUME StockInv, NEW w \in Writers, Finish(w)
  PROVE  tx' \in [Writers -> Tx] /\ \A v \in Writers : TxIsSound(v, tx'[v])
<1>1. tx \in [Writers -> Tx] /\ \A v \in Writers : TxIsSound(v, tx[v])
  BY DEF StockInv, TypeOK
<1>2. tx' = [tx EXCEPT ![w] = Idle]
  BY DEF Finish, Goto
<1>3. Idle.pc = "idle"
  BY DEF Idle, Begin
<1>4. ASSUME NEW v \in Writers PROVE TxIsSound(v, tx'[v])
  <2>1. CASE v = w
    BY <1>1, <1>2, <1>3, <2>1 DEF TxIsSound
  <2>2. CASE v # w
    BY <1>1, <1>2, <2>2
  <2> QED
    BY <2>1, <2>2
<1> QED
  BY <1>1, <1>2, <1>4, IdleIsTyped

LEMMA SkipKeepsStock ==
  ASSUME StockInv, NEW c \in Consumers, Skip(c)
  PROVE  StockInv'
<1>1. PICK e : e = tx[c].cause
  OBVIOUS
<1>2. /\ tx[c].pc = "skip" /\ processed' = processed \cup {e} /\ Finish(c)
      /\ UNCHANGED <<items, movements, invoices, lastAlert, overtaken,
                     sessions, sales, stored>>
  BY <1>1 DEF Skip, At, checkoutVars
<1>3. c \in Writers /\ TxIsSound(c, tx[c])
  BY DEF StockInv, Writers
<1>4. ConsumerTx(tx[c])
  BY <1>2, <1>3 DEF TxIsSound
<1>5. e \in stored
  BY <1>1, <1>4 DEF ConsumerTx, Delivered
<1>6. StoredInv'
  BY <1>2 DEF StockInv, StoredInv, CheckoutTypeOK
<1>7. tx' \in [Writers -> Tx] /\ \A v \in Writers : TxIsSound(v, tx'[v])
  BY <1>2, <1>3, FinishIsSound
<1>8. TypeOK'
  BY <1>2, <1>5, <1>7 DEF StockInv, TypeOK, CheckoutTypeOK
<1>9. \A w \in Writers : TxIsSound(w, tx[w])'
  BY <1>2, <1>7, AllStaySound
<1>10. ReceiptsHaveInvoices' /\ InvoiceReceivedOnce' /\ movements' \in Seq(Movement)
  BY <1>2 DEF StockInv, ReceiptsHaveInvoices, InvoiceReceivedOnce
<1>11. IssuedItemsExist'
  <2>1. ASSUME NEW x \in Sales,
               Handled("SaleCompleted", x)', ~Handled("SaleCanceled", x)'
        PROVE  Handled("SaleCompleted", x) /\ ~Handled("SaleCanceled", x)
    <3>1. ~Handled("SaleCanceled", x)
      BY <1>2, <2>1 DEF Handled
    <3>2. Handled("SaleCompleted", x) \/ (e.name = "SaleCompleted" /\ e.aggregate = x)
      BY <1>2, <2>1 DEF Handled
    <3> QED
      BY <1>1, <1>2, <1>4, <3>1, <3>2 DEF ConsumerTx
  <2> QED
    BY <1>2, <2>1 DEF StockInv, IssuedItemsExist, HasItems
<1> QED
  BY <1>6, <1>8, <1>9, <1>10, <1>11 DEF StockInv

\* The kind of a transaction tells which writer it is of.
LEMMA KindOfWriter ==
  ASSUME NEW w \in Writers, NEW t \in Tx, TxIsSound(w, t), t.pc # "idle"
  PROVE  /\ w \in Consumers <=> t.kind \in {"issue", "revert"}
         /\ w \in Clerks <=> t.kind \in {"loss", "count", "invoice"}
         /\ w \in Workers <=> t.kind = "alert"
<1>1. w \in Consumers => t.kind \in {"issue", "revert"}
  BY DEF TxIsSound, ConsumerTx, Delivered, SaleEventKind
<1>2. w \in Clerks => t.kind \in {"loss", "count", "invoice"}
  BY StockConstants DEF TxIsSound, ClerkTx, IsDocument
<1>3. w \in Workers => t.kind = "alert"
  BY DEF TxIsSound, WorkerTx
<1> QED
  BY <1>1, <1>2, <1>3 DEF Writers

LEMMA CommittedMovements ==
  ASSUME StockInv, NEW w \in Writers, NEW t \in Tx, TxIsSound(w, t), t.pc = "update",
         movements' = movements \o MovementsOf(t),
         t.kind = "invoice" => t.cause.reference \notin invoices,
         invoices' = IF t.kind = "invoice" THEN invoices \cup {t.cause.reference}
                     ELSE invoices
  PROVE  /\ movements' \in Seq(Movement)
         /\ \A i \in DOMAIN movements' : MovementIsWellFormed(movements'[i])
         /\ ReceiptsHaveInvoices'
         /\ InvoiceReceivedOnce'
<1>1. PICK new : new = MovementsOf(t)
  OBVIOUS
<1>2. /\ new \in Seq(Movement)
      /\ \A i \in DOMAIN new :
           /\ i \in DOMAIN t.lines
           /\ MovementIsWellFormed(new[i])
           /\ new[i].type = MovementType[t.kind]
           /\ new[i].product = t.lines[i].product
           /\ new[i].cause = t.cause
           /\ t.kind \in Kinds
  BY <1>1, MovementsAreMeant
<1>3. PICK old : old = movements
  OBVIOUS
<1>4. old \in Seq(Movement) /\ \A i \in DOMAIN old : MovementIsWellFormed(old[i])
  BY <1>3 DEF StockInv, TypeOK
<1>5. movements' = old \o new
  BY <1>1, <1>3
<1>6. movements' \in Seq(Movement)
  BY <1>2, <1>4, <1>5
<1>7. \A i \in DOMAIN movements' :
        \/ i \in DOMAIN old /\ movements'[i] = old[i]
        \/ i - Len(old) \in DOMAIN new /\ movements'[i] = new[i - Len(old)]
  BY <1>2, <1>4, <1>5
<1>8. \A i \in DOMAIN movements' : MovementIsWellFormed(movements'[i])
  BY <1>2, <1>4, <1>7
<1>9. ASSUME NEW i \in DOMAIN new, new[i].type = "RECEIPT"
      PROVE  t.kind = "invoice"
  <2>1. t.kind \in Kinds /\ MovementType[t.kind] = "RECEIPT"
    BY <1>2, <1>9
  <2> QED
    BY <2>1 DEF MovementType, Kinds
<1>10. ReceiptsHaveInvoices'
  <2>1. ASSUME NEW i \in DOMAIN movements', movements'[i].type = "RECEIPT"
        PROVE  movements'[i].cause.reference \in invoices'
    <3>1. CASE i \in DOMAIN old /\ movements'[i] = old[i]
      BY <1>3, <2>1, <3>1 DEF StockInv, ReceiptsHaveInvoices
    <3>2. CASE i - Len(old) \in DOMAIN new /\ movements'[i] = new[i - Len(old)]
      BY <1>2, <1>9, <2>1, <3>2
    <3> QED
      BY <1>7, <3>1, <3>2
  <2> QED
    BY <2>1 DEF ReceiptsHaveInvoices
<1>11. ASSUME t.kind = "invoice"
       PROVE  \A i, j \in DOMAIN t.lines : t.lines[i].product = t.lines[j].product => i = j
  <2>1. w \in Clerks
    BY <1>11, KindOfWriter
  <2>2. IsDocument(t.cause) /\ t.cause.kind = "invoice" /\ t.lines = t.cause.lines
    BY <1>11, <2>1, StockConstants DEF TxIsSound, ClerkTx
  <2> QED
    BY <2>2 DEF IsDocument, IsInvoice
<1>12. InvoiceReceivedOnce'
  <2>1. ASSUME NEW i \in DOMAIN movements', NEW j \in DOMAIN movements',
               movements'[i].type = "RECEIPT", movements'[j].type = "RECEIPT",
               movements'[i].cause.reference = movements'[j].cause.reference,
               movements'[i].product = movements'[j].product
        PROVE  i = j
    <3>1. ASSUME NEW k \in DOMAIN old, NEW l \in DOMAIN new,
                 old[k].type = "RECEIPT", new[l].type = "RECEIPT"
          PROVE  old[k].cause.reference # new[l].cause.reference
      BY <1>2, <1>3, <1>9, <3>1 DEF StockInv, ReceiptsHaveInvoices
    <3>2. CASE i \in DOMAIN old /\ movements'[i] = old[i]
      <4>1. CASE j \in DOMAIN old /\ movements'[j] = old[j]
        BY <1>3, <2>1, <3>2, <4>1 DEF StockInv, InvoiceReceivedOnce
      <4>2. CASE j - Len(old) \in DOMAIN new /\ movements'[j] = new[j - Len(old)]
        BY <2>1, <3>1, <3>2, <4>2
      <4> QED
        BY <1>7, <4>1, <4>2
    <3>3. CASE i - Len(old) \in DOMAIN new /\ movements'[i] = new[i - Len(old)]
      <4>1. CASE j \in DOMAIN old /\ movements'[j] = old[j]
        BY <2>1, <3>1, <3>3, <4>1
      <4>2. CASE j - Len(old) \in DOMAIN new /\ movements'[j] = new[j - Len(old)]
        <5>1. ASSUME NEW k \in DOMAIN new, NEW l \in DOMAIN new,
                     new[k].type = "RECEIPT", new[k].product = new[l].product
              PROVE  k = l
          <6>1. k \in DOMAIN t.lines /\ l \in DOMAIN t.lines /\ t.kind = "invoice"
            BY <1>2, <1>9, <5>1
          <6>2. t.lines[k].product = t.lines[l].product
            BY <1>2, <5>1
          <6> QED
            BY <1>11, <6>1, <6>2
        <5>2. i - Len(old) = j - Len(old)
          BY <2>1, <3>3, <4>2, <5>1
        <5>3. i \in Int /\ j \in Int /\ Len(old) \in Int
          BY <1>4, <1>6
        <5> QED
          BY <5>2, <5>3
      <4> QED
        BY <1>7, <4>1, <4>2
    <3> QED
      BY <1>7, <3>2, <3>3
  <2> QED
    BY <2>1 DEF InvoiceReceivedOnce
<1> QED
  BY <1>6, <1>8, <1>10, <1>12

LEMMA CommitKeepsStock ==
  ASSUME StockInv, NEW w \in Writers, Commit(w)
  PROVE  StockInv'
<1>1. PICK t : t = tx[w]
  OBVIOUS
<1>2. t \in Tx /\ TxIsSound(w, t) /\ t.pc = "update"
  BY <1>1, LineIsTyped DEF Commit, MayWrite, At
<1>3. /\ t.kind = "invoice" => t.cause.reference \notin invoices
      /\ items' = Saved(t)
      /\ movements' = movements \o MovementsOf(t)
      /\ processed' = IF w \in Consumers THEN processed \cup {t.cause} ELSE processed
      /\ invoices' = IF t.kind = "invoice" THEN invoices \cup {t.cause.reference}
                     ELSE invoices
      /\ lastAlert' = Remembered(t, items')
      /\ overtaken' = overtaken \cup Overtaken(t)
      /\ Finish(w)
      /\ UNCHANGED <<sessions, sales, stored>>
  BY <1>1 DEF Commit, checkoutVars
<1>4. items \in [Products -> Row]
  BY DEF StockInv, TypeOK, Row
<1>5. /\ items' \in [Products -> Row]
      /\ \A p \in Products : items[p] # NoItem => items'[p] # NoItem
      /\ \A i \in DOMAIN t.lines : items'[t.lines[i].product] # NoItem
  BY <1>2, <1>3, <1>4, SavedAreRows
<1>6. tx' \in [Writers -> Tx] /\ \A v \in Writers : TxIsSound(v, tx'[v])
  BY <1>3, FinishIsSound
<1>7. /\ movements' \in Seq(Movement)
      /\ \A i \in DOMAIN movements' : MovementIsWellFormed(movements'[i])
      /\ ReceiptsHaveInvoices'
      /\ InvoiceReceivedOnce'
  BY <1>2, <1>3, CommittedMovements
<1>8. StoredInv'
  BY <1>3 DEF StockInv, StoredInv, CheckoutTypeOK
<1>9. \A i \in DOMAIN t.lines : t.lines[i].product \in Products
  <2>1. \A i \in DOMAIN t.lines : t.lines[i] \in LineType
    BY <1>2 DEF Tx
  <2> QED
    BY <2>1 DEF LineType
<1>10. w \in Consumers => ConsumerTx(t)
  BY <1>2 DEF TxIsSound
<1>11. TypeOK'
  <2>1. CheckoutTypeOK'
    BY <1>8 DEF StoredInv
  <2>2. items' \in [Products -> ItemRow \cup {NoItem}]
    BY <1>5 DEF Row
  <2>3. processed' \subseteq stored'
    BY <1>3, <1>10 DEF StockInv, TypeOK, ConsumerTx, Delivered
  <2>4. lastAlert' \in [Products -> 0..Never]
    <3>1. t.age \in 0..Never /\ Never \in 0..Never
      BY <1>2, StockItemConstants DEF Tx, Never
    <3>2. lastAlert \in [Products -> 0..Never]
      BY DEF StockInv, TypeOK
    <3> QED
      BY <1>3, <3>1, <3>2 DEF Remembered
  <2>5. overtaken' \subseteq Products
    BY <1>3, <1>9 DEF StockInv, TypeOK, Overtaken, ProductsOf
  <2> QED
    BY <1>6, <1>7, <2>1, <2>2, <2>3, <2>4, <2>5 DEF TypeOK
<1>12. IssuedItemsExist'
  <2>1. ASSUME NEW x \in Sales,
               Handled("SaleCompleted", x)', ~Handled("SaleCanceled", x)'
        PROVE  HasItems(Items[x])'
    <3>1. ~Handled("SaleCanceled", x)
      BY <1>3, <2>1 DEF Handled
    <3>2. CASE Handled("SaleCompleted", x)
      <4>1. \A i \in DOMAIN Items[x] : Items[x][i].product \in Products
        <5>1. \A i \in DOMAIN Items[x] : Items[x][i] \in LineType
          BY StockConstants
        <5> QED
          BY <5>1 DEF LineType
      <4> QED
        BY <1>5, <3>1, <3>2, <4>1 DEF StockInv, IssuedItemsExist, HasItems
    <3>3. CASE ~Handled("SaleCompleted", x)
      <4>1. w \in Consumers /\ t.cause.aggregate = x
        BY <1>3, <2>1, <3>3 DEF Handled
      <4>2. t.lines = Items[x]
        BY <1>10, <4>1 DEF ConsumerTx
      <4> QED
        BY <1>5, <4>2 DEF HasItems
    <3> QED
      BY <3>2, <3>3
  <2> QED
    BY <2>1 DEF IssuedItemsExist
<1>13. \A v \in Writers : TxIsSound(v, tx[v])'
  BY <1>3, <1>5, <1>6, AllStaySound
<1> QED
  BY <1>7, <1>8, <1>11, <1>12, <1>13 DEF StockInv

\* Time changes the ages of the alerts and nothing else.
LEMMA AgedAreRows ==
  ASSUME NEW rows \in [Products -> Row]
  PROVE  /\ Aged(rows) \in [Products -> Row]
         /\ \A p \in Products :
              /\ Aged(rows)[p] = NoItem <=> rows[p] = NoItem
              /\ Found(Aged(rows)[p]).onHand = Found(rows[p]).onHand
<1>1. ASSUME NEW p \in Products, rows[p] # NoItem
      PROVE  /\ Aged(rows)[p] \in ItemRow /\ Aged(rows)[p].onHand = rows[p].onHand
  <2>1. PICK row : row = rows[p]
    OBVIOUS
  <2>2. row \in ItemRow
    BY <1>1, <2>1 DEF Row
  <2>3. Older(row.alert) \in 0..Never
    BY <2>2, StockItemConstants DEF Older, ItemRow, Never
  <2>4. Aged(rows)[p] = [row EXCEPT !.alert = Older(@)]
    BY <1>1, <2>1 DEF Aged
  <2> QED
    BY <2>1, <2>2, <2>3, <2>4 DEF ItemRow
<1>2. ASSUME NEW p \in Products, rows[p] = NoItem
      PROVE  Aged(rows)[p] = NoItem
  BY <1>2 DEF Aged
<1>3. Aged(rows) = [p \in Products |-> Aged(rows)[p]]
  BY DEF Aged
<1> QED
  BY <1>1, <1>2, <1>3, NothingIsNoRow DEF Row, Found

LEMMA TickKeepsStock ==
  ASSUME StockInv, Tick
  PROVE  StockInv'
<1>1. /\ items' = Aged(items)
      /\ lastAlert' = [p \in Products |-> Older(lastAlert[p])]
      /\ UNCHANGED <<movements, processed, invoices, overtaken, sessions, sales, stored>>
  BY DEF Tick, checkoutVars
<1>2. items \in [Products -> Row] /\ lastAlert \in [Products -> 0..Never]
  BY DEF StockInv, TypeOK, Row
<1>3. /\ items' \in [Products -> Row]
      /\ \A p \in Products : items[p] # NoItem => items'[p] # NoItem
  BY <1>1, <1>2, AgedAreRows
<1>4. ASSUME NEW w \in Writers
      PROVE  tx'[w] \in Tx /\ TxIsSound(w, tx'[w])
  <2>1. PICK r : r = tx[w]
    OBVIOUS
  <2>2. PICK age : age = IF r.kind = "alert" THEN Older(r.age) ELSE r.age
    OBVIOUS
  <2>3. r \in Tx /\ TxIsSound(w, r)
    BY <2>1 DEF StockInv, TypeOK
  <2>4. tx'[w] = [r EXCEPT !.read = Aged(@), !.seen = Aged(@), !.age = age]
    BY <2>1, <2>2 DEF Tick
  <2>5. PICK a : a = [r EXCEPT !.read = Aged(@)]
    OBVIOUS
  <2>6. PICK b : b = [a EXCEPT !.seen = Aged(@)]
    OBVIOUS
  <2>7. PICK t : t = [b EXCEPT !.age = age]
    OBVIOUS
  <2>8. tx'[w] = t
    BY <2>4, <2>5, <2>6, <2>7
  <2>9. r.read \in [Products -> Row] /\ r.seen \in [Products -> Row]
    BY <2>3 DEF Tx, Row
  <2>10. /\ Aged(r.read) \in [Products -> ItemRow \cup {NoItem}]
         /\ Aged(r.seen) \in [Products -> ItemRow \cup {NoItem}]
    BY <2>9, AgedAreRows DEF Row
  <2>11. age \in 0..Cooldown
    BY <2>2, <2>3, StockItemConstants DEF Tx, Older
  <2>12. a \in Tx /\ a.pc = r.pc /\ a.kind = r.kind /\ a.cause = r.cause
         /\ a.lines = r.lines /\ a.next = r.next /\ a.read = Aged(r.read) /\ a.seen = r.seen
    BY <2>3, <2>5, <2>10 DEF Tx
  <2>13. b \in Tx /\ b.pc = r.pc /\ b.kind = r.kind /\ b.cause = r.cause
         /\ b.lines = r.lines /\ b.next = r.next /\ b.read = Aged(r.read)
         /\ b.seen = Aged(r.seen)
    BY <2>6, <2>10, <2>12 DEF Tx
  <2>14. t \in Tx /\ t.pc = r.pc /\ t.kind = r.kind /\ t.cause = r.cause
         /\ t.lines = r.lines /\ t.next = r.next /\ t.read = Aged(r.read)
         /\ t.seen = Aged(r.seen)
    BY <2>7, <2>11, <2>13 DEF Tx
  <2>15. \A i \in DOMAIN t.lines : t.lines[i].product \in Products
    <3>1. \A i \in DOMAIN t.lines : t.lines[i] \in LineType
      BY <2>14 DEF Tx
    <3> QED
      BY <3>1 DEF LineType
  <2>16. \A p \in Products :
           /\ t.seen[p] # NoItem => r.seen[p] # NoItem
           /\ r.read[p] # NoItem => t.read[p] # NoItem
           /\ Found(t.read[p]).onHand = Found(r.read[p]).onHand
    BY <2>9, <2>14, AgedAreRows
  <2>17. ConsumerTx(r) => ConsumerTx(t)
    BY <2>14 DEF ConsumerTx
  <2>18. ASSUME ClerkTx(r) PROVE ClerkTx(t)
    <3>1. t.cause \in Documents /\ t.kind = t.cause.kind /\ t.lines = t.cause.lines
      BY <2>14, <2>18 DEF ClerkTx
    <3>2. ASSUME t.kind = "count" PROVE 1 \in DOMAIN t.lines
      <4>1. Len(t.lines) = 1
        BY <3>1, <3>2, StockConstants DEF IsDocument
      <4> QED
        BY <4>1, <2>14 DEF Tx
    <3>3. ASSUME t.kind = "count", t.pc # "load"
          PROVE  QuantityDelta("count", Found(t.read[t.lines[1].product]), t.lines[1]) # 0
      BY <2>14, <2>15, <2>16, <2>18, <3>2, <3>3 DEF ClerkTx, QuantityDelta
    <3> QED
      BY <3>1, <3>3 DEF ClerkTx
  <2>19. WorkerTx(r) => WorkerTx(t)
    BY <2>14, <2>15, <2>16 DEF WorkerTx
  <2>20. TxIsSound(w, t)
    BY <2>3, <2>14, <2>16, <2>17, <2>18, <2>19 DEF TxIsSound
  <2> QED
    BY <2>8, <2>14, <2>20
<1>5. tx' \in [Writers -> Tx]
  <2>1. tx' = [w \in Writers |-> tx'[w]]
    BY DEF Tick
  <2> QED
    BY <1>4, <2>1
<1>6. \A w \in Writers : TxIsSound(w, tx[w])'
  BY <1>1, <1>3, <1>4, <1>5, AllStaySound
<1>7. StoredInv'
  BY <1>1 DEF StockInv, StoredInv, CheckoutTypeOK
<1>8. lastAlert' \in [Products -> 0..Never]
  <2>1. \A age \in 0..Never : Older(age) \in 0..Never
    BY StockItemConstants DEF Older, Never
  <2> QED
    BY <1>1, <1>2, <2>1
<1>9. TypeOK'
  BY <1>1, <1>3, <1>5, <1>7, <1>8 DEF StockInv, TypeOK, StoredInv, Row
<1>10. \A x \in Sales : \A i \in DOMAIN Items[x] : Items[x][i].product \in Products
  <2>1. \A x \in Sales : \A i \in DOMAIN Items[x] : Items[x][i] \in LineType
    BY StockConstants
  <2> QED
    BY <2>1 DEF LineType
<1>11. IssuedItemsExist'
  BY <1>1, <1>3, <1>10 DEF StockInv, IssuedItemsExist, HasItems, Handled
<1>12. ReceiptsHaveInvoices' /\ InvoiceReceivedOnce' /\ movements' \in Seq(Movement)
  BY <1>1 DEF StockInv, ReceiptsHaveInvoices, InvoiceReceivedOnce
<1> QED
  BY <1>6, <1>7, <1>9, <1>11, <1>12 DEF StockInv

LEMMA CheckoutKeepsStock ==
  ASSUME StockInv, [CheckoutNext]_checkoutVars, UNCHANGED stockVars
  PROVE  StockInv'
<1>1. UNCHANGED <<items, movements, processed, invoices, tx, lastAlert, overtaken>>
  BY DEF stockVars
<1>2. StoredInv' /\ stored \subseteq stored'
  BY StoredStep DEF StockInv
<1>3. TypeOK'
  BY <1>1, <1>2 DEF StockInv, TypeOK, StoredInv
<1>4. \A w \in Writers : TxIsSound(w, tx[w])'
  BY <1>1, <1>2, AllStaySound DEF StockInv, TypeOK
<1>5. IssuedItemsExist' /\ ReceiptsHaveInvoices' /\ InvoiceReceivedOnce'
  BY <1>1 DEF StockInv, IssuedItemsExist, HasItems, ReceiptsHaveInvoices,
              InvoiceReceivedOnce, Handled
<1> QED
  BY <1>1, <1>2, <1>3, <1>4, <1>5 DEF StockInv

-----------------------------------------------------------------------------
LEMMA StockInitially == Init => StockInv
<1> SUFFICES ASSUME Init PROVE StockInv
  OBVIOUS
<1>1. StoredInv
  BY StoredInitially DEF Init
<1>2. /\ items = Rows /\ movements = <<>> /\ processed = {} /\ invoices = {}
      /\ tx = [w \in Writers |-> Idle] /\ overtaken = {}
      /\ lastAlert = [p \in Products |-> Never]
  BY DEF Init, StockInit
<1>3. TypeOK
  BY <1>1, <1>2, IdleIsTyped, StockItemConstants DEF TypeOK, StoredInv, Rows, Never
<1>4. \A w \in Writers : TxIsSound(w, tx[w])
  BY <1>2 DEF TxIsSound, Idle, Begin
<1>5. IssuedItemsExist /\ ReceiptsHaveInvoices /\ InvoiceReceivedOnce
  BY <1>2 DEF IssuedItemsExist, HasItems, ReceiptsHaveInvoices, InvoiceReceivedOnce, Handled
<1> QED
  BY <1>1, <1>2, <1>3, <1>4, <1>5 DEF StockInv

LEMMA StockStep ==
  ASSUME StockInv, [Next]_vars
  PROVE  StockInv'
<1>1. ASSUME NEW w \in Writers, Rollback(w) PROVE StockInv'
  BY <1>1, RollbackKeepsStock DEF Rollback
<1>2. ASSUME NEW w \in Writers, Step(w) PROVE StockInv'
  BY <1>2, LoadKeepsStock, SelectKeepsStock, UpdateKeepsStock, CommitKeepsStock DEF Step
<1>3. CASE StockNext
  BY <1>1, <1>2, <1>3, ReceiveKeepsStock, LookUpKeepsStock, SkipKeepsStock,
     SubmitKeepsStock, ScanKeepsStock, TickKeepsStock DEF StockNext
<1>4. CASE CheckoutNext /\ UNCHANGED stockVars
  BY <1>4, CheckoutKeepsStock
<1>5. CASE UNCHANGED vars
  BY <1>5, CheckoutKeepsStock DEF vars
<1> QED
  BY <1>3, <1>4, <1>5 DEF Next

LEMMA StockAlways == Spec => []StockInv
BY StockInitially, StockStep, PTL DEF Spec

\* Tables and transactions keep their types: a count that changes nothing, or a
\* line without quantity, never becomes a movement.
THEOREM StockTypeCorrect == Spec => []TypeOK
<1>1. StockInv => TypeOK
  BY DEF StockInv
<1> QED
  BY <1>1, StockAlways, PTL

\* One supplier reference is received once, in however many requests it comes.
THEOREM InvoicesReceivedOnce == Spec => []InvoiceReceivedOnce
<1>1. StockInv => InvoiceReceivedOnce
  BY DEF StockInv
<1> QED
  BY <1>1, StockAlways, PTL

\* With any number of consumer instances, copies of events and overlapping
\* requests, a reversion only misses its item when the sale was canceled by
\* another instance between its lookups: then the next delivery is skipped.
THEOREM ReversionsAlwaysFindTheirItem == Spec => []ReversionsFindTheirItem
<1>1. ASSUME StockInv, NEW c \in Consumers, At(c, "load"), tx[c].kind = "revert"
      PROVE  \/ items[Product(c)] # NoItem
             \/ Handled("SaleCanceled", tx[c].cause.aggregate)
  <2>1. c \in Writers /\ ~At(c, "idle")
    BY <1>1 DEF Writers, At
  <2>2. TxIsSound(c, tx[c]) /\ tx[c].next \in DOMAIN tx[c].lines
    BY <1>1, <2>1, LineIsTyped
  <2>3. ConsumerTx(tx[c])
    BY <2>1, <2>2 DEF TxIsSound, At
  <2> QED
    BY <1>1, <2>2, <2>3 DEF ConsumerTx, HasItems, At, Product, Line
<1>2. StockInv => ReversionsFindTheirItem
  BY <1>1 DEF ReversionsFindTheirItem
<1> QED
  BY <1>2, StockAlways, PTL

\* The scan that commits leaves every quantity as its last writer left it,
\* unless the row had changed between the scan's read and the look of its save.
THEOREM ScansKeepQuantities == Spec => ScansMoveNoStock
<1>1. ASSUME StockInv, NEW v \in Workers, Commit(v),
             NEW p \in ProductsOf(tx[v]), tx[v].seen[p] = tx[v].read[p]
      PROVE  items'[p].onHand = items[p].onHand
  <2>1. PICK t : t = tx[v]
    OBVIOUS
  <2>2. v \in Writers
    BY DEF Writers
  <2>3. t \in Tx /\ TxIsSound(v, t) /\ t.pc = "update"
    BY <1>1, <2>1, <2>2, LineIsTyped DEF Commit, MayWrite, At
  <2>4. t.kind = "alert"
    BY <2>2, <2>3, KindOfWriter
  <2>5. items' = Saved(t)
    BY <1>1, <2>1 DEF Commit
  <2>6. items \in [Products -> Row]
    BY <1>1 DEF StockInv, TypeOK, Row
  <2> QED
    BY <1>1, <2>1, <2>2, <2>3, <2>4, <2>5, <2>6, SavedAreRows
<1>2. StockInv => [\A v \in Workers : Commit(v) =>
                     \A p \in ProductsOf(tx[v]) : tx[v].seen[p] = tx[v].read[p] =>
                       items'[p].onHand = items[p].onHand]_vars
  BY <1>1
<1> QED
  BY <1>2, StockAlways, PTL DEF ScansMoveNoStock

-----------------------------------------------------------------------------
(* The quantity on hand and the movements.                                 *)

\* The sum MovedBy makes, of any movements.
MovedIn(seq, p) ==
  FoldSeq(LAMBDA m, sum : IF m.product = p THEN sum + m.delta ELSE sum, 0, seq)

DeltaOf(seq, p) ==
  [i \in DOMAIN seq |-> IF seq[i].product = p THEN seq[i].delta ELSE 0]

LEMMA DeltaIsInt ==
  ASSUME NEW seq \in Seq(Movement), NEW p, NEW i \in DOMAIN seq
  PROVE  DeltaOf(seq, p)[i] \in Int
<1>1. seq[i] \in Movement
  OBVIOUS
<1> QED
  BY <1>1 DEF DeltaOf, Movement

\* The fold over a sequence of movements is the total of their deltas.
LEMMA MovedTotal ==
  ASSUME NEW seq \in Seq(Movement), NEW p
  PROVE  MovedIn(seq, p) = Total(DeltaOf(seq, p), DOMAIN seq)
<1>1. PICK S : S = DOMAIN seq
  OBVIOUS
<1>2. PICK g : g = DeltaOf(seq, p)
  OBVIOUS
<1>3. IsFiniteSet(S) /\ \A i \in S : g[i] \in Int
  <2>1. S = 1..Len(seq) /\ Len(seq) \in Nat
    BY <1>1
  <2>2. IsFiniteSet(S)
    BY <2>1, FS_Interval
  <2>3. \A i \in S : g[i] \in Int
    BY <1>1, <1>2, DeltaIsInt
  <2> QED
    BY <2>2, <2>3
<1> DEFINE Added(m, sum) == IF m.product = p THEN sum + m.delta ELSE sum
           IsIter(h) ==
             h = [s \in SUBSET S |->
                    IF s = {} THEN 0
                    ELSE Added(seq[CHOOSE x \in s : TRUE],
                               h[s \ {CHOOSE x \in s : TRUE}])]
           iter == CHOOSE h : IsIter(h)
<1>4. ASSUME NEW i \in S, NEW sum \in Int
      PROVE  Added(seq[i], sum) = g[i] + sum
  BY <1>1, <1>2, <1>3, <1>4 DEF DeltaOf
<1>5. ASSUME NEW h, SumsUp(h, g, S) \/ IsIter(h)
      PROVE  \A s \in SUBSET S : h[s] \in Int
  <2> DEFINE Good == {s \in SUBSET S : h[s] \in Int}
  <2>1. {} \in Good
    <3>1. h[{}] = 0
      <4> HIDE DEF Added
      <4> QED
        BY <1>5 DEF SumsUp
    <3> QED
      BY <3>1
  <2>2. ASSUME NEW s \in SUBSET S, s # {}, \A x \in s : s \ {x} \in Good
        PROVE  s \in Good
    <3>1. One(s) \in s /\ One(s) \in S
      BY <2>2 DEF One
    <3>2. h[s \ {One(s)}] \in Int
      BY <2>2, <3>1
    <3>3. g[One(s)] + h[s \ {One(s)}] \in Int
      BY <1>3, <3>1, <3>2
    <3>4. \/ h[s] = g[One(s)] + h[s \ {One(s)}]
          \/ h[s] = Added(seq[One(s)], h[s \ {One(s)}])
      <4> HIDE DEF Added
      <4> QED
        BY <1>5, <2>2 DEF SumsUp, One
    <3>5. h[s] = g[One(s)] + h[s \ {One(s)}]
      <4> HIDE DEF Added
      <4> QED
        BY <1>4, <3>1, <3>2, <3>4
    <3> QED
      BY <3>3, <3>5
  <2>3. SUBSET S \subseteq Good
    <3> HIDE DEF Good
    <3> QED
      BY <1>3, <2>1, <2>2, SubsetInduction
  <2> QED
    BY <2>3
<1>6. ASSUME NEW h, SumsUp(h, g, S) \/ IsIter(h)
      PROVE  SumsUp(h, g, S) /\ IsIter(h)
  <2> DEFINE a == [s \in SUBSET S |->
                     IF s = {} THEN 0 ELSE g[One(s)] + h[s \ {One(s)}]]
             b == [s \in SUBSET S |->
                     IF s = {} THEN 0 ELSE Added(seq[One(s)], h[s \ {One(s)}])]
  <2>1. ASSUME NEW s \in SUBSET S, s # {}
        PROVE  Added(seq[One(s)], h[s \ {One(s)}]) = g[One(s)] + h[s \ {One(s)}]
    <3>1. One(s) \in S /\ s \ {One(s)} \in SUBSET S
      BY <2>1 DEF One
    <3>2. h[s \ {One(s)}] \in Int
      BY <1>5, <1>6, <3>1
    <3> HIDE DEF Added
    <3> QED
      BY <1>4, <3>1, <3>2
  <2>2. \A s \in SUBSET S : a[s] = b[s]
    <3> HIDE DEF Added
    <3> QED
      BY <2>1
  <2>3. a = [s \in SUBSET S |-> a[s]] /\ b = [s \in SUBSET S |-> b[s]]
    <3> HIDE DEF Added
    <3> QED
      OBVIOUS
  <2>4. a = b
    <3> HIDE DEF a, b
    <3> QED
      BY <2>2, <2>3
  <2>5. (SumsUp(h, g, S) <=> h = a) /\ (IsIter(h) <=> h = b)
    <3> HIDE DEF Added
    <3> QED
      BY DEF SumsUp, One
  <2> QED
    BY <1>6, <2>4, <2>5
<1>7. PICK f : SumsUp(f, g, S) /\ f[S] = Total(g, S)
  BY <1>3, TotalSumsUp
<1>8. IsIter(iter)
  <2>1. \E h : IsIter(h)
    <3> HIDE DEF IsIter
    <3> QED
      BY <1>6, <1>7
  <2> HIDE DEF IsIter
  <2> QED
    BY <2>1
<1>9. SumsUp(iter, g, S)
  <2> HIDE DEF IsIter, iter
  <2> QED
    BY <1>6, <1>8
<1>10. MovedIn(seq, p) = iter[S]
  BY <1>1 DEF MovedIn, FoldSeq, FoldFunction, FoldFunctionOnSet, MapThenFoldSet
<1>11. iter[S] = f[S]
  <2> HIDE DEF iter
  <2> QED
    BY <1>3, <1>7, <1>9, SumIsUnique
<1> QED
  BY <1>1, <1>2, <1>7, <1>10, <1>11

\* Movements added to others add their deltas; of a product that is none of
\* them, or the one of a line.
LEMMA MovedMore ==
  ASSUME NEW old \in Seq(Movement), NEW new \in Seq(Movement), NEW p
  PROVE  /\ (\A i \in DOMAIN new : new[i].product # p) =>
              MovedIn(old \o new, p) = MovedIn(old, p)
         /\ \A k \in DOMAIN new :
              (\A i \in DOMAIN new : new[i].product = p <=> i = k) =>
                MovedIn(old \o new, p) = MovedIn(old, p) + new[k].delta
<1>1. PICK s : s = old \o new
  OBVIOUS
<1>2. PICK n : n = Len(old)
  OBVIOUS
<1>3. PICK m : m = Len(new)
  OBVIOUS
<1>4. n \in Nat /\ m \in Nat /\ DOMAIN old = 1..n /\ DOMAIN new = 1..m
  BY <1>2, <1>3
<1>5. /\ s \in Seq(Movement) /\ DOMAIN s = 1..(n + m)
      /\ \A i \in 1..n : s[i] = old[i]
      /\ \A i \in 1..m : s[n + i] = new[i]
  BY <1>1, <1>2, <1>3
<1>6. PICK A : A = 1..n
  OBVIOUS
<1>7. PICK B : B = (n + 1)..(n + m)
  OBVIOUS
<1>8. DOMAIN s = A \cup B /\ A \cap B = {} /\ DOMAIN old = A
  BY <1>4, <1>5, <1>6, <1>7
<1>9. IsFiniteSet(A) /\ IsFiniteSet(B)
  <2>1. 1 \in Int /\ n \in Int /\ n + 1 \in Int /\ n + m \in Int
    BY <1>4
  <2> QED
    BY <1>6, <1>7, <2>1, FS_Interval
<1>10. PICK g : g = DeltaOf(s, p)
  OBVIOUS
<1>11. PICK f : f = DeltaOf(old, p)
  OBVIOUS
<1>12. /\ \A i \in A \cup B : g[i] \in Int
       /\ \A i \in A : f[i] \in Int
  BY <1>5, <1>8, <1>10, <1>11, DeltaIsInt
<1>13. Total(g, A) = Total(f, A)
  <2>1. \A i \in A : g[i] = f[i]
    BY <1>4, <1>5, <1>6, <1>8, <1>10, <1>11 DEF DeltaOf
  <2>2. A \in SUBSET A /\ \A i \in A \ A : g[i] = 0
    OBVIOUS
  <2> QED
    BY <1>9, <1>12, <2>1, <2>2, TotalOfSome
<1>14. Total(g, A \cup B) = Total(g, A) + Total(g, B)
  BY <1>8, <1>9, <1>12, TotalOfUnion
<1>15. MovedIn(s, p) = Total(g, A \cup B) /\ MovedIn(old, p) = Total(f, A)
  BY <1>5, <1>8, <1>10, <1>11, MovedTotal
<1>16. Total(f, A) \in Int
  BY <1>9, <1>12, TotalIsInt
<1>17. \A j \in B : j - n \in DOMAIN new /\ s[j] = new[j - n] /\ j = n + (j - n)
  BY <1>4, <1>5, <1>7
<1>18. ASSUME \A i \in DOMAIN new : new[i].product # p
       PROVE  MovedIn(s, p) = MovedIn(old, p)
  <2>1. \A j \in B \ {} : g[j] = 0
    BY <1>8, <1>10, <1>17, <1>18 DEF DeltaOf
  <2>2. {} \in SUBSET B /\ \A j \in {} : f[j] \in Int /\ g[j] = f[j]
    OBVIOUS
  <2>3. Total(g, B) = Total(f, {})
    BY <1>9, <2>1, <2>2, TotalOfSome
  <2>4. Total(f, {}) = 0
    BY TotalOfNone
  <2> QED
    BY <1>13, <1>14, <1>15, <1>16, <2>3, <2>4
<1>19. ASSUME NEW k \in DOMAIN new, \A i \in DOMAIN new : new[i].product = p <=> i = k
       PROVE  MovedIn(s, p) = MovedIn(old, p) + new[k].delta
  <2>1. PICK j : j = n + k
    OBVIOUS
  <2>2. j \in B /\ s[j] = new[k]
    BY <1>4, <1>5, <1>7, <2>1
  <2>3. g[j] = new[k].delta
    BY <1>8, <1>10, <1>19, <2>2 DEF DeltaOf
  <2>4. \A i \in B \ {j} : g[i] = 0
    <3> TAKE i \in B \ {j}
    <3>1. i - n # k
      BY <1>17, <2>1
    <3> QED
      BY <1>8, <1>10, <1>17, <1>19, <3>1 DEF DeltaOf
  <2>5. {j} \in SUBSET B /\ \A i \in {j} : g[i] \in Int /\ g[i] = g[i]
    BY <1>12, <2>2
  <2>6. Total(g, B) = Total(g, {j})
    BY <1>9, <2>4, <2>5, TotalOfSome
  <2>7. Total(g, {j}) = g[j]
    BY <1>12, <2>2, TotalOfOne
  <2> QED
    BY <1>13, <1>14, <1>15, <1>16, <2>3, <2>6, <2>7
<1> QED
  BY <1>1, <1>18, <1>19

\* What a method does to the quantity is what its movement says.
LEMMA AppliedMoves ==
  ASSUME NEW kind \in Kinds, NEW item \in ItemRow, NEW line \in LineType
  PROVE  Applied(kind, item, line).onHand = item.onHand + QuantityDelta(kind, item, line)
<1> USE DEF LineType
<1>0. item.onHand \in Int
  BY DEF ItemRow
<1>1. CASE kind \in {"issue", "loss"}
  <2>1. PICK a : a = [item EXCEPT !.onHand = @ - line.quantity]
    OBVIOUS
  <2>2. a \in ItemRow /\ a.onHand = item.onHand - line.quantity
    BY <2>1 DEF ItemRow
  <2>3. Applied(kind, item, line) = RefreshLowStockAlertState(a)
    BY <1>1, <2>1 DEF Applied, IssueSale, RegisterLoss
  <2>4. QuantityDelta(kind, item, line) = -line.quantity
    BY <1>1 DEF QuantityDelta
  <2> QED
    BY <1>0, <2>2, <2>3, <2>4, RefreshKeepsRow
<1>2. CASE kind = "revert"
  <2>1. PICK a : a = [item EXCEPT !.onHand = @ + line.quantity]
    OBVIOUS
  <2>2. a \in ItemRow /\ a.onHand = item.onHand + line.quantity
    BY <2>1 DEF ItemRow
  <2>3. Applied(kind, item, line) = RefreshLowStockAlertState(a)
    BY <1>2, <2>1 DEF Applied, RevertSaleIssue
  <2>4. QuantityDelta(kind, item, line) = line.quantity
    BY <1>2 DEF QuantityDelta
  <2> QED
    BY <1>0, <2>2, <2>3, <2>4, RefreshKeepsRow
<1>3. CASE kind = "count"
  <2>0. PICK minimum : minimum = IF line.threshold = Unset THEN item.threshold
                                 ELSE line.threshold
    OBVIOUS
  <2>1. PICK a : a = [item EXCEPT !.onHand = line.quantity, !.threshold = minimum]
    OBVIOUS
  <2>2. a \in ItemRow /\ a.onHand = line.quantity
    <3>1. line.quantity \in Int /\ minimum \in Nat
      BY <2>0 DEF ItemRow
    <3> QED
      BY <2>1, <3>1, TwoColumns DEF ItemRow
  <2>3. Applied(kind, item, line) = RefreshLowStockAlertState(a)
    BY <1>3, <2>0, <2>1 DEF Applied, ApplyPhysicalCount
  <2>4. QuantityDelta(kind, item, line) = line.quantity - item.onHand
    BY <1>3 DEF QuantityDelta
  <2> QED
    BY <1>0, <2>2, <2>3, <2>4, RefreshKeepsRow
<1>4. CASE kind = "invoice"
  <2>0. PICK cost : cost = AverageUnitCost(item, line.quantity, line.unitCost)
    OBVIOUS
  <2>1. PICK a : a = [item EXCEPT !.cost = cost, !.onHand = @ + line.quantity]
    OBVIOUS
  <2>2. a \in ItemRow /\ a.onHand = item.onHand + line.quantity
    <3>0. line.quantity \in Nat /\ line.unitCost \in Nat
      OBVIOUS
    <3>1. cost \in Nat
      BY <2>0, <3>0, AverageIsACost
    <3>2. item.onHand + line.quantity \in Int
      BY <1>0, <3>0
    <3> QED
      BY <2>1, <3>1, <3>2, TwoColumns DEF ItemRow
  <2>3. Applied(kind, item, line) = RefreshLowStockAlertState(a)
    BY <1>4, <2>0, <2>1 DEF Applied, ReceiveStock
  <2>4. QuantityDelta(kind, item, line) = line.quantity
    BY <1>4 DEF QuantityDelta
  <2> QED
    BY <1>0, <2>2, <2>3, <2>4, RefreshKeepsRow
<1> QED
  BY <1>1, <1>2, <1>3, <1>4 DEF Kinds

\* A sale and a document have one line for a product.
LEMMA OneLineEach ==
  ASSUME NEW w \in Consumers \cup Clerks, NEW t \in Tx, TxIsSound(w, t),
         t.pc # "idle", NEW i \in DOMAIN t.lines, NEW j \in DOMAIN t.lines,
         t.lines[i].product = t.lines[j].product
  PROVE  i = j
<1>1. CASE w \in Consumers
  BY <1>1, StockConstants DEF TxIsSound, ConsumerTx
<1>2. CASE w \in Clerks
  <2>1. IsDocument(t.cause) /\ t.kind = t.cause.kind /\ t.lines = t.cause.lines
    BY <1>2, StockConstants DEF TxIsSound, ClerkTx
  <2>2. CASE t.kind = "invoice"
    BY <2>1, <2>2 DEF IsDocument, IsInvoice
  <2>3. CASE t.kind \in {"loss", "count"}
    <3>1. Len(t.lines) = 1 /\ t.lines \in Seq(LineType)
      BY <2>1, <2>3 DEF IsDocument
    <3> QED
      BY <3>1
  <2> QED
    BY <2>1, <2>2, <2>3 DEF IsDocument
<1> QED
  BY <1>1, <1>2

\* A save of a row that is the one that was read writes the copy as it is.
LEMMA SavedAsCopied ==
  ASSUME NEW w \in Writers, NEW t \in Tx, TxIsSound(w, t), t.pc = "update",
         items \in [Products -> Row], NEW p \in ProductsOf(t),
         t.seen[p] = t.read[p], items[p] = t.read[p]
  PROVE  \E i \in DOMAIN t.lines :
           /\ t.lines[i] \in LineType /\ t.lines[i].product = p /\ p \in Products
           /\ Saved(t)[p] = Copy(t, t.lines[i])
           /\ Copy(t, t.lines[i]) \in ItemRow
<1>1. \E l \in ToSet(t.lines) : l.product = p
  BY DEF ProductsOf, ToSet
<1>2. PICK line : line = CHOOSE l \in ToSet(t.lines) : l.product = p
  OBVIOUS
<1>3. line \in ToSet(t.lines) /\ line.product = p
  BY <1>1, <1>2
<1>4. PICK i \in DOMAIN t.lines : line = t.lines[i]
  BY <1>3 DEF ToSet
<1>5. line \in LineType
  BY <1>4 DEF Tx
<1>6. p \in Products
  BY <1>3, <1>5 DEF LineType
<1>7. Saved(t)[p] = Merge(items[p], t.seen[p], Copy(t, line))
  BY <1>2, <1>6 DEF Saved
<1>8. PICK copy : copy = Copy(t, line)
  OBVIOUS
<1>9. copy \in ItemRow
  BY <1>3, <1>8, CopyIsARow
<1>10. PICK row \in Row : row = items[p]
  BY <1>6
<1>11. Merge(row, row, copy) = copy
  <2>1. CASE row = NoItem
    BY <2>1 DEF Merge
  <2>2. CASE row # NoItem
    <3>1. DOMAIN row = {"onHand", "threshold", "cost", "alert"}
      BY <2>2 DEF Row, ItemRow
    <3>2. Merge(row, row, copy) =
            [c \in {"onHand", "threshold", "cost", "alert"} |-> copy[c]]
      BY <2>2, <3>1 DEF Merge
    <3> QED
      BY <1>9, <3>2 DEF ItemRow
  <2> QED
    BY <2>1, <2>2
<1> QED
  BY <1>3, <1>4, <1>5, <1>6, <1>7, <1>8, <1>9, <1>10, <1>11

\* A commit writes of a product that nothing overtook what its transaction made
\* of the row as it still is.
LEMMA CommitOfCurrent ==
  ASSUME StockInv, NEW w \in Writers, Commit(w), NEW p \in Products \ overtaken'
  PROVE  /\ p \notin overtaken
         /\ p \notin ProductsOf(tx[w]) => items'[p] = items[p]
         /\ p \in ProductsOf(tx[w]) =>
              /\ tx[w].read[p] = items[p]
              /\ items'[p] \in ItemRow
              /\ \E i \in DOMAIN tx[w].lines :
                   /\ tx[w].lines[i] \in LineType /\ tx[w].lines[i].product = p
                   /\ items'[p] = Copy(tx[w], tx[w].lines[i])
<1>1. PICK t : t = tx[w]
  OBVIOUS
<1>2. t \in Tx /\ TxIsSound(w, t) /\ t.pc = "update"
  BY <1>1, LineIsTyped DEF Commit, MayWrite, At
<1>3. items' = Saved(t) /\ overtaken' = overtaken \cup Overtaken(t)
  BY <1>1 DEF Commit
<1>4. items \in [Products -> Row]
  BY DEF StockInv, TypeOK, Row
<1>5. p \notin ProductsOf(t) => items'[p] = items[p]
  BY <1>3 DEF Saved
<1>6. ASSUME p \in ProductsOf(t)
      PROVE  /\ t.read[p] = items[p]
             /\ items'[p] \in ItemRow
             /\ \E i \in DOMAIN t.lines :
                  /\ t.lines[i] \in LineType /\ t.lines[i].product = p
                  /\ items'[p] = Copy(t, t.lines[i])
  <2>1. t.seen[p] = t.read[p] /\ items[p] = t.read[p]
    BY <1>3, <1>6 DEF Overtaken
  <2>2. PICK i \in DOMAIN t.lines :
          /\ t.lines[i] \in LineType /\ t.lines[i].product = p
          /\ Saved(t)[p] = Copy(t, t.lines[i])
          /\ Copy(t, t.lines[i]) \in ItemRow
    BY <1>2, <1>4, <1>6, <2>1, SavedAsCopied
  <2> QED
    BY <1>3, <2>1, <2>2
<1> QED
  BY <1>1, <1>3, <1>5, <1>6

\* The inductive form of StockMatchesMovements: a product without a row has
\* nothing on hand, and no movement.
QuantityIsMoved ==
  \A p \in Products \ overtaken : Found(items[p]).onHand = MovedIn(movements, p)

LEMMA CommitMovesQuantity ==
  ASSUME StockInv, QuantityIsMoved, NEW w \in Writers, Commit(w)
  PROVE  QuantityIsMoved'
<1> SUFFICES ASSUME NEW p \in Products \ overtaken'
             PROVE  Found(items'[p]).onHand = MovedIn(movements', p)
  BY DEF QuantityIsMoved
<1>1. PICK t : t = tx[w]
  OBVIOUS
<1>2. t \in Tx /\ TxIsSound(w, t) /\ t.pc = "update"
  BY <1>1, LineIsTyped DEF Commit, MayWrite, At
<1>3. PICK old, new : old = movements /\ new = MovementsOf(t)
  OBVIOUS
<1>4. movements' = old \o new
  BY <1>1, <1>3 DEF Commit
<1>5. /\ old \in Seq(Movement) /\ new \in Seq(Movement)
      /\ \A i \in DOMAIN new : i \in DOMAIN t.lines /\ new[i].product = t.lines[i].product
  BY <1>2, <1>3, MovementsAreMeant DEF StockInv
<1>6. p \notin overtaken /\ Found(items[p]).onHand = MovedIn(old, p)
  BY <1>3, CommitOfCurrent DEF QuantityIsMoved
<1>7. CASE p \notin ProductsOf(t)
  <2>1. \A i \in DOMAIN new : new[i].product # p
    BY <1>5, <1>7 DEF ProductsOf
  <2>2. MovedIn(old \o new, p) = MovedIn(old, p)
    BY <1>5, <2>1, MovedMore
  <2>3. items'[p] = items[p]
    BY <1>1, <1>7, CommitOfCurrent
  <2> QED
    BY <1>4, <1>6, <2>2, <2>3
<1>8. CASE p \in ProductsOf(t)
  <2>1. t.read[p] = items[p] /\ items'[p] \in ItemRow
    BY <1>1, <1>8, CommitOfCurrent
  <2>2. PICK k \in DOMAIN t.lines :
          /\ t.lines[k] \in LineType /\ t.lines[k].product = p
          /\ items'[p] = Copy(t, t.lines[k])
    BY <1>1, <1>8, CommitOfCurrent
  <2>3. Found(items'[p]).onHand = Copy(t, t.lines[k]).onHand
    BY <2>1, <2>2, NothingIsNoRow DEF Found
  <2>4. CASE t.kind = "alert"
    <3>1. t.lines[k] \in ToSet(t.lines)
      BY DEF ToSet
    <3>2. Copy(t, t.lines[k]).onHand = t.read[p].onHand
      BY <1>2, <2>2, <2>4, <3>1, CopyIsARow
    <3>3. w \in Workers
      BY <1>2, <2>4, KindOfWriter
    <3>4. t.read[p] # NoItem
      BY <1>2, <2>2, <3>3 DEF TxIsSound, WorkerTx
    <3>5. new = <<>>
      BY <1>3, <2>4 DEF MovementsOf
    <3>6. old \o new = old
      BY <1>5, <3>5
    <3>7. Found(items[p]).onHand = t.read[p].onHand
      BY <2>1, <3>4 DEF Found
    <3> QED
      BY <1>4, <1>6, <2>3, <3>2, <3>6, <3>7
  <2>5. CASE t.kind # "alert"
    <3>1. w \in Consumers \cup Clerks
      BY <1>2, <2>5, KindOfWriter DEF Writers
    <3>2. t.kind \in Kinds
      BY <1>2, <3>1, LineIsMeant
    <3>3. Found(t.read[p]) \in ItemRow
      BY <1>2, FoundIsARow DEF Tx, Row
    <3>4. PICK delta : delta = QuantityDelta(t.kind, Found(t.read[p]), t.lines[k])
      OBVIOUS
    <3>5. Copy(t, t.lines[k]).onHand = Found(items[p]).onHand + delta
      BY <2>1, <2>2, <2>5, <3>2, <3>3, <3>4, AppliedMoves DEF Copy
    <3>6. new = [i \in DOMAIN t.lines |-> MovementOf(t, t.lines[i])]
      BY <1>3, <2>5 DEF MovementsOf
    <3>7. k \in DOMAIN new /\ new[k].delta = delta
      BY <2>2, <3>4, <3>6 DEF MovementOf
    <3>8. \A i \in DOMAIN new : new[i].product = p <=> i = k
      BY <1>2, <1>5, <2>2, <3>1, OneLineEach
    <3>9. MovedIn(old \o new, p) = MovedIn(old, p) + delta
      BY <1>5, <3>7, <3>8, MovedMore
    <3> QED
      BY <1>4, <1>6, <2>3, <3>5, <3>9
  <2> QED
    BY <2>4, <2>5
<1> QED
  BY <1>7, <1>8

\* What can change of the rows and the movements besides a commit is the age of
\* the alerts.
LEMMA OtherSteps ==
  ASSUME StockInv, [Next]_vars, \A w \in Writers : ~Commit(w)
  PROVE  /\ UNCHANGED <<movements, invoices, overtaken>>
         /\ \/ UNCHANGED <<items, lastAlert>>
            \/ items' = Aged(items) /\ lastAlert' = [p \in Products |-> Older(lastAlert[p])]
         /\ (\A c \in Consumers : ~Skip(c)) => UNCHANGED processed
         /\ [CheckoutNext]_checkoutVars
<1>1. ASSUME TablesUnchanged \/ UNCHANGED vars
      PROVE  UNCHANGED <<movements, processed, invoices, overtaken, items, lastAlert,
                         checkoutVars>>
  BY <1>1 DEF TablesUnchanged, vars, stockVars
<1>2. CASE StockNext
  <2>1. CASE \E c \in Consumers : Receive(c) \/ LookUp(c)
    BY <1>1, <2>1 DEF Receive, LookUp
  <2>2. CASE \E c \in Consumers : Skip(c)
    BY <2>2 DEF Skip
  <2>3. CASE \E k \in Clerks : Submit(k)
    BY <1>1, <2>3 DEF Submit
  <2>4. CASE \E v \in Workers : Scan(v)
    BY <1>1, <2>4 DEF Scan
  <2>5. CASE \E w \in Writers : Step(w) \/ Rollback(w)
    BY <1>1, <2>5 DEF Step, Rollback, Load, Select, Update
  <2>6. CASE Tick
    BY <2>6 DEF Tick
  <2> QED
    BY <1>2, <2>1, <2>2, <2>3, <2>4, <2>5, <2>6 DEF StockNext
<1>3. CASE CheckoutNext /\ UNCHANGED stockVars
  BY <1>3 DEF stockVars
<1> QED
  BY <1>1, <1>2, <1>3 DEF Next

\* Movements are appended, whatever happens; the checkout is left alone.
LEMMA MovementsStay ==
  ASSUME StockInv, [Next]_vars, NEW i \in DOMAIN movements
  PROVE  i \in DOMAIN movements' /\ movements'[i] = movements[i]
<1>1. CASE \E w \in Writers : Commit(w)
  <2>1. PICK w \in Writers : Commit(w)
    BY <1>1
  <2>2. PICK t, old, new : t = tx[w] /\ old = movements /\ new = MovementsOf(t)
    OBVIOUS
  <2>3. t \in Tx /\ TxIsSound(w, t) /\ t.pc = "update"
    BY <2>1, <2>2, LineIsTyped DEF Commit, MayWrite, At
  <2>4. old \in Seq(Movement) /\ new \in Seq(Movement) /\ movements' = old \o new
    BY <2>1, <2>2, <2>3, MovementsAreMeant DEF StockInv, Commit
  <2> QED
    BY <2>2, <2>4
<1>2. CASE \A w \in Writers : ~Commit(w)
  BY <1>2, OtherSteps
<1> QED
  BY <1>1, <1>2

LEMMA StockLeavesCheckout == StockNext => UNCHANGED checkoutVars
BY DEF StockNext, TablesUnchanged, Receive, LookUp, Skip, Submit, Scan, Step, Load, Select,
   Update, Commit, Rollback, Tick

LEMMA QuantityStep ==
  ASSUME StockInv, QuantityIsMoved, [Next]_vars
  PROVE  QuantityIsMoved'
<1>1. CASE \E w \in Writers : Commit(w)
  BY <1>1, CommitMovesQuantity
<1>2. CASE \A w \in Writers : ~Commit(w)
  <2>1. UNCHANGED <<movements, overtaken>> /\ (UNCHANGED items \/ items' = Aged(items))
    BY <1>2, OtherSteps
  <2>2. items \in [Products -> Row]
    BY DEF StockInv, TypeOK, Row
  <2>3. \A p \in Products : Found(items'[p]).onHand = Found(items[p]).onHand
    BY <2>1, <2>2, AgedAreRows
  <2> QED
    BY <2>1, <2>3 DEF QuantityIsMoved
<1> QED
  BY <1>1, <1>2

LEMMA QuantityInitially == Init => QuantityIsMoved
<1> SUFFICES ASSUME Init PROVE QuantityIsMoved
  OBVIOUS
<1>1. items = Rows /\ movements = <<>>
  BY DEF Init, StockInit
<1>2. ASSUME NEW p \in Products PROVE MovedIn(<<>>, p) = 0
  <2>1. <<>> \in Seq(Movement) /\ DOMAIN <<>> = {}
    OBVIOUS
  <2> QED
    BY <2>1, MovedTotal, TotalOfNone
<1>3. \A p \in Products : Found(items[p]).onHand = 0
  BY <1>1 DEF Rows, Found, Initialize
<1> QED
  BY <1>1, <1>2, <1>3 DEF QuantityIsMoved

\* With any number of consumers, requests and scans, and whatever fails, the
\* quantity on hand is the sum of the movements, but for the products that were
\* saved from a row that had changed.
THEOREM QuantityMatchesMovements == Spec => []StockMatchesMovements
<1>1. StockInv /\ QuantityIsMoved /\ [Next]_vars => (StockInv /\ QuantityIsMoved)'
  BY StockStep, QuantityStep
<1>2. Init => StockInv /\ QuantityIsMoved
  BY StockInitially, QuantityInitially
<1>3. QuantityIsMoved => StockMatchesMovements
  BY DEF QuantityIsMoved, StockMatchesMovements, MovedBy, MovedIn, Found
<1> QED
  BY <1>1, <1>2, <1>3, PTL DEF Spec

-----------------------------------------------------------------------------
(* The average cost.                                                       *)

LEMMA ProductsGrow ==
  ASSUME NEW a \in Nat, NEW x \in Nat, NEW y \in Nat, x <= y
  PROVE  a * x <= a * y
OBVIOUS

LEMMA DivIsBetween ==
  ASSUME NEW a \in Nat, NEW n \in Nat \ {0}, NEW x \in Nat, NEW y \in Nat,
         n * x <= a, a < n * (y + 1)
  PROVE  x <= a \div n /\ a \div n <= y
<1>1. PICK q \in Nat : q = a \div n
  BY DivIsNat
<1>2. n * q <= a /\ a < n * (q + 1)
  BY <1>1
<1>3. x <= q
  <2>1. SUFFICES ASSUME q + 1 <= x PROVE FALSE
    BY <1>1
  <2>2. n * (q + 1) <= n * x
    BY <1>1, <2>1, ProductsGrow
  <2>3. n * (q + 1) \in Nat /\ n * x \in Nat
    BY <1>1, ProductIsNat
  <2> QED
    BY <1>2, <2>2, <2>3
<1>4. q <= y
  <2>1. SUFFICES ASSUME y + 1 <= q PROVE FALSE
    BY <1>1
  <2>2. n * (y + 1) <= n * q
    BY <1>1, <2>1, ProductsGrow
  <2>3. n * (y + 1) \in Nat /\ n * q \in Nat
    BY <1>1, ProductIsNat
  <2> QED
    BY <1>2, <2>2, <2>3
<1> QED
  BY <1>1, <1>3, <1>4

\* An average that is rounded to the nearest lies between what is averaged.
LEMMA AverageIsBetween ==
  ASSUME NEW a \in Nat \ {0}, NEW b \in Nat \ {0}, NEW x \in Nat, NEW y \in Nat,
         NEW low \in Nat, NEW high \in Nat,
         low <= x, low <= y, x <= high, y <= high
  PROVE  /\ low <= (2 * (a * x + b * y) + (a + b)) \div (2 * (a + b))
         /\ (2 * (a * x + b * y) + (a + b)) \div (2 * (a + b)) <= high
<1>1. PICK ax \in Nat : ax = a * x
  BY ProductIsNat
<1>2. PICK by \in Nat : by = b * y
  BY ProductIsNat
<1>3. PICK al \in Nat : al = a * low
  BY ProductIsNat
<1>4. PICK bl \in Nat : bl = b * low
  BY ProductIsNat
<1>5. PICK ah \in Nat : ah = a * high
  BY ProductIsNat
<1>6. PICK bh \in Nat : bh = b * high
  BY ProductIsNat
<1>7. al <= ax /\ ax <= ah /\ bl <= by /\ by <= bh
  BY <1>1, <1>2, <1>3, <1>4, <1>5, <1>6, ProductsGrow
<1>8. PICK n \in Nat \ {0} : n = 2 * (a + b)
  OBVIOUS
<1>9. PICK s \in Nat : s = 2 * (ax + by) + (a + b)
  OBVIOUS
<1>10. n * low = 2 * al + 2 * bl /\ n * (high + 1) = 2 * ah + 2 * bh + n
  BY <1>3, <1>4, <1>5, <1>6, <1>8
<1>11. n * low <= s /\ s < n * (high + 1)
  BY <1>7, <1>8, <1>9, <1>10
<1>12. low <= s \div n /\ s \div n <= high
  BY <1>11, DivIsBetween
<1> QED
  BY <1>1, <1>2, <1>8, <1>9, <1>12

\* The cost of a row, if it has one, lies between two of the costs.
Between(row, costs) ==
  row # NoItem /\ row.cost # NoCost =>
    /\ \E low \in costs : low <= row.cost
    /\ \E high \in costs : row.cost <= high

\* The method of an item changes its cost for a receipt only, and then to one
\* between those it knows.
LEMMA AppliedCost ==
  ASSUME NEW kind \in Kinds, NEW item \in ItemRow, NEW line \in LineType,
         NEW costs \in SUBSET Nat, Between(item, costs),
         kind = "invoice" => line.quantity > 0 /\ line.unitCost \in costs
  PROVE  Between(Applied(kind, item, line), costs)
<1> USE DEF LineType
<1>0. item # NoItem
  BY NothingIsNoRow
<1>1. CASE kind # "invoice"
  <2>1. Applied(kind, item, line).cost = item.cost
    BY <1>1 DEF Applied, IssueSale, RevertSaleIssue, RegisterLoss,
                ApplyPhysicalCount, RefreshLowStockAlertState, ItemRow, Kinds
  <2> QED
    BY <1>0, <2>1 DEF Between
<1>2. CASE kind = "invoice"
  <2>1. PICK u, q : u = line.unitCost /\ q = line.quantity
    OBVIOUS
  <2>2. u \in Nat /\ q \in Nat \ {0} /\ u \in costs
    BY <1>2, <2>1
  <2>3. PICK cost : cost = AverageUnitCost(item, q, u)
    OBVIOUS
  <2>4. PICK a : a = [item EXCEPT !.cost = cost, !.onHand = @ + q]
    OBVIOUS
  <2>5. a.cost = cost /\ RefreshLowStockAlertState(a).cost = cost
    BY <2>4 DEF RefreshLowStockAlertState, ItemRow
  <2>6. Applied(kind, item, line).cost = cost
    BY <1>2, <2>1, <2>3, <2>4, <2>5 DEF Applied, ReceiveStock
  <2>7. CASE item.cost = NoCost \/ item.onHand <= 0
    <3>1. cost = u
      BY <2>3, <2>7 DEF AverageUnitCost
    <3> QED
      BY <2>2, <2>6, <3>1 DEF Between
  <2>8. CASE ~(item.cost = NoCost \/ item.onHand <= 0)
    <3>1. item.onHand \in Nat \ {0} /\ item.cost \in Nat
      BY <2>8 DEF ItemRow
    <3>2. PICK n, c : n = item.onHand /\ c = item.cost
      OBVIOUS
    <3>3. n \in Nat \ {0} /\ c \in Nat
      BY <3>1, <3>2
    <3>4. cost = (2 * (n * c + q * u) + (n + q)) \div (2 * (n + q))
      BY <2>3, <2>8, <3>2 DEF AverageUnitCost
    <3>5. (\E l \in costs : l <= c) /\ (\E h \in costs : c <= h)
      BY <1>0, <2>8, <3>2 DEF Between
    <3>6. PICK l \in costs : l <= c /\ l <= u
      BY <2>2, <3>3, <3>5
    <3>7. PICK h \in costs : c <= h /\ u <= h
      BY <2>2, <3>3, <3>5
    <3>8. l \in Nat /\ h \in Nat
      OBVIOUS
    <3>9. l <= cost /\ cost <= h
      BY <2>2, <3>3, <3>4, <3>6, <3>7, <3>8, AverageIsBetween
    <3> QED
      BY <2>6, <3>9 DEF Between
  <2> QED
    BY <2>7, <2>8
<1> QED
  BY <1>1, <1>2

LEMMA CopyCost ==
  ASSUME NEW w \in Writers, NEW t \in Tx, TxIsSound(w, t), t.pc = "update",
         NEW i \in DOMAIN t.lines, NEW costs \in SUBSET Nat,
         Between(t.read[t.lines[i].product], costs),
         t.kind = "invoice" => t.lines[i].unitCost \in costs
  PROVE  Between(Copy(t, t.lines[i]), costs)
<1>1. PICK line, p : line = t.lines[i] /\ p = line.product
  OBVIOUS
<1>2. line \in LineType /\ p \in Products
  <2>1. t.lines[i] \in LineType
    BY DEF Tx
  <2> QED
    BY <1>1, <2>1 DEF LineType
<1>3. PICK row \in Row : row = t.read[p]
  BY <1>2 DEF Tx, Row
<1>4. CASE t.kind = "alert"
  <2>1. row # NoItem
    BY <1>1, <1>3, <1>4, KindOfWriter DEF TxIsSound, WorkerTx
  <2>2. Copy(t, line) = [row EXCEPT !.alert = t.age]
    BY <1>1, <1>3, <1>4 DEF Copy, MarkLowStockAlertEmitted
  <2>3. Copy(t, line).cost = row.cost
    BY <2>1, <2>2 DEF Row, ItemRow
  <2> QED
    BY <1>1, <1>3, <2>1, <2>3 DEF Between
<1>5. CASE t.kind # "alert"
  <2>1. w \in Consumers \cup Clerks
    BY <1>5, KindOfWriter DEF Writers
  <2>2. t.kind \in Kinds /\ (t.kind = "invoice" => line.quantity > 0)
    BY <1>1, <2>1, LineIsMeant
  <2>3. Found(row) \in ItemRow /\ Between(Found(row), costs)
    BY <1>1, <1>3, FoundIsARow DEF Found, Between, Initialize
  <2> QED
    BY <1>1, <1>2, <1>3, <1>5, <2>2, <2>3, AppliedCost DEF Copy
<1> QED
  BY <1>1, <1>4, <1>5

\* A save writes the cost of the copy, or leaves the one of the row.
LEMMA MergeCost ==
  ASSUME NEW row \in Row, NEW seen \in Row, NEW copy \in ItemRow, NEW costs,
         seen # NoItem => row # NoItem,
         Between(row, costs), Between(copy, costs)
  PROVE  Between(Merge(row, seen, copy), costs)
<1>1. CASE seen = NoItem
  BY <1>1 DEF Merge
<1>2. CASE seen # NoItem
  <2>1. row \in ItemRow /\ DOMAIN row = {"onHand", "threshold", "cost", "alert"}
    BY <1>2 DEF Row, ItemRow
  <2>2. Merge(row, seen, copy) =
          [c \in {"onHand", "threshold", "cost", "alert"} |->
             IF copy[c] = seen[c] THEN row[c] ELSE copy[c]]
    BY <1>2, <2>1 DEF Merge
  <2>3. Merge(row, seen, copy).cost \in {row.cost, copy.cost}
    BY <2>2
  <2> QED
    BY <1>2, <2>1, <2>3, NothingIsNoRow DEF Between
<1> QED
  BY <1>1, <1>2

LEMMA AgedCost ==
  ASSUME NEW rows \in [Products -> Row], NEW p \in Products, NEW costs,
         Between(rows[p], costs)
  PROVE  Between(Aged(rows)[p], costs)
<1>1. PICK row \in Row : row = rows[p]
  OBVIOUS
<1>2. Aged(rows)[p] = IF row = NoItem THEN NoItem ELSE [row EXCEPT !.alert = Older(@)]
  BY <1>1 DEF Aged
<1>3. row # NoItem => Aged(rows)[p].cost = row.cost
  BY <1>2 DEF Row, ItemRow
<1> QED
  BY <1>1, <1>2, <1>3 DEF Between

\* The costs received only grow, and they are costs.
LEMMA CostsAreKept ==
  ASSUME NEW p
  PROVE  /\ CostsReceived(p) \in SUBSET Nat
         /\ invoices \subseteq invoices' => CostsReceived(p) \subseteq CostsReceived(p)'
         /\ \A doc \in Documents : \A i \in DOMAIN doc.lines :
              doc.kind = "invoice" /\ doc.reference \in invoices /\ doc.lines[i].product = p
                => doc.lines[i].unitCost \in CostsReceived(p)
<1>1. ASSUME NEW c
      PROVE  c \in CostsReceived(p) <=>
               \E doc \in Documents : /\ doc.kind = "invoice" /\ doc.reference \in invoices
                                      /\ \E l \in ToSet(doc.lines) : l.product = p /\ c = l.unitCost
  BY DEF CostsReceived
<1>2. ASSUME NEW c
      PROVE  c \in CostsReceived(p)' <=>
               \E doc \in Documents : /\ doc.kind = "invoice" /\ doc.reference \in invoices'
                                      /\ \E l \in ToSet(doc.lines) : l.product = p /\ c = l.unitCost
  BY DEF CostsReceived
<1>3. \A doc \in Documents : doc.lines \in Seq(LineType)
  BY StockConstants DEF IsDocument
<1>4. \A doc \in Documents : \A l \in ToSet(doc.lines) : l \in LineType
  BY <1>3 DEF ToSet
<1>5. \A doc \in Documents : \A i \in DOMAIN doc.lines : doc.lines[i] \in ToSet(doc.lines)
  BY DEF ToSet
<1>6. CostsReceived(p) \in SUBSET Nat
  BY <1>1, <1>4 DEF LineType
<1>7. invoices \subseteq invoices' => CostsReceived(p) \subseteq CostsReceived(p)'
  BY <1>1, <1>2
<1> QED
  BY <1>1, <1>5, <1>6, <1>7

LEMMA BetweenMore ==
  ASSUME NEW row, NEW costs, NEW more, costs \subseteq more, Between(row, costs)
  PROVE  Between(row, more)
BY DEF Between

\* What a transaction has read it read from the table, now or before.
LEMMA NewReads ==
  ASSUME StockInv, [Next]_vars, NEW w \in Writers, NEW p \in Products
  PROVE  tx'[w].read[p] \in {NoItem, tx[w].read[p], items[p], Aged(tx[w].read)[p]}
<1>1. tx \in [Writers -> Tx]
  BY DEF StockInv, TypeOK
<1>2. PICK r, row : r = tx[w] /\ row = items[p]
  OBVIOUS
<1>3. r \in Tx
  BY <1>1, <1>2
<1>4. ASSUME UNCHANGED tx PROVE tx'[w].read[p] = tx[w].read[p]
  BY <1>4
<1>5. ASSUME NEW v \in Writers, NEW t, Goto(v, t),
             v = w => t.read[p] \in {NoItem, r.read[p], row}
      PROVE  tx'[w].read[p] \in {NoItem, r.read[p], row}
  <2>1. CASE v = w
    BY <1>1, <1>5, <2>1 DEF Goto
  <2>2. CASE v # w
    BY <1>1, <1>2, <1>5, <2>2 DEF Goto
  <2> QED
    BY <2>1, <2>2
<1>6. Rows[p] = NoItem /\ Idle.read[p] = NoItem
  BY DEF Rows, Idle, Begin
<1>7. ASSUME NEW v \in Writers, Finish(v)
      PROVE  tx'[w].read[p] \in {NoItem, r.read[p], row}
  BY <1>5, <1>6, <1>7 DEF Finish
<1>8. ASSUME NEW c \in Consumers, Receive(c) \/ LookUp(c)
      PROVE  tx'[w].read[p] \in {NoItem, r.read[p], row}
  <2>1. CASE Receive(c)
    <3>1. PICK pc, e : Goto(c, Begin(pc, SaleEventKind[e.name], e, Items[e.aggregate], Rows))
      BY <2>1 DEF Receive
    <3> QED
      BY <1>5, <1>6, <3>1 DEF Begin, Writers
  <2>2. CASE LookUp(c)
    <3>1. PICK s, t, pc : s = tx[c] /\ Goto(c, t) /\ t = [s EXCEPT !.pc = pc]
      BY <2>2 DEF LookUp
    <3>2. t.read = s.read /\ c \in Writers
      BY <1>1, <3>1 DEF Tx, Writers
    <3> QED
      BY <1>2, <1>5, <3>1, <3>2
  <2> QED
    BY <1>8, <2>1, <2>2
<1>9. ASSUME NEW k \in Clerks, Submit(k)
      PROVE  tx'[w].read[p] \in {NoItem, r.read[p], row}
  <2>1. PICK doc \in Documents : Goto(k, Begin("load", doc.kind, doc, doc.lines, Rows))
    BY <1>9 DEF Submit
  <2> QED
    BY <1>5, <1>6, <2>1 DEF Begin, Writers
<1>10. ASSUME NEW v \in Workers, Scan(v)
       PROVE  tx'[w].read[p] \in {NoItem, r.read[p], row}
  <2>1. PICK lines : Goto(v, Begin("select", "alert", None, lines, items))
    BY <1>10 DEF Scan
  <2> QED
    BY <1>2, <1>5, <2>1 DEF Begin, Writers
<1>11. ASSUME NEW v \in Writers, Load(v)
       PROVE  tx'[w].read[p] \in {NoItem, r.read[p], row}
  <2>1. CASE Finish(v)
    BY <1>7, <2>1
  <2>2. CASE ~Finish(v)
    <3>1. PICK q, there : q = Product(v) /\ there = items[q]
      OBVIOUS
    <3>2. PICK s : s = tx[v]
      OBVIOUS
    <3>3. PICK t : t = [s EXCEPT !.pc = "select", !.read[q] = there]
      OBVIOUS
    <3>4. Goto(v, t)
      BY <1>11, <2>2, <3>1, <3>2, <3>3 DEF Load
    <3>5. s \in Tx /\ q \in Products
      BY <1>1, <1>11, <3>1, <3>2, LineIsTyped DEF Load, At
    <3>6. t.read = [s.read EXCEPT ![q] = there]
      BY <3>3, <3>5 DEF Tx
    <3>7. t.read[p] = IF p = q THEN there ELSE s.read[p]
      BY <3>5, <3>6 DEF Tx
    <3> QED
      BY <1>2, <1>5, <3>1, <3>2, <3>4, <3>7
  <2> QED
    BY <2>1, <2>2
<1>12. ASSUME NEW v \in Writers, Select(v)
       PROVE  tx'[w].read[p] \in {NoItem, r.read[p], row}
  <2>1. PICK s, t : /\ s = tx[v] /\ Goto(v, t)
                    /\ t = [s EXCEPT !.pc = "update", !.seen[Product(v)] = items[Product(v)]]
    BY <1>12 DEF Select
  <2>2. t.read = s.read
    BY <1>1, <2>1 DEF Tx
  <2> QED
    BY <1>2, <1>5, <2>1, <2>2
<1>13. ASSUME NEW v \in Writers, Update(v)
       PROVE  tx'[w].read[p] \in {NoItem, r.read[p], row}
  <2>1. PICK s, t, pc : /\ s = tx[v] /\ Goto(v, t)
                        /\ t = [s EXCEPT !.next = @ + 1, !.pc = pc]
    BY <1>13 DEF Update
  <2>2. t.read = s.read
    BY <1>1, <2>1 DEF Tx
  <2> QED
    BY <1>2, <1>5, <2>1, <2>2
<1>14. ASSUME Tick PROVE tx'[w].read[p] = Aged(tx[w].read)[p]
  BY <1>1, <1>14 DEF Tick, Tx
<1>15. CASE StockNext
  <2>1. CASE \E c \in Consumers : Skip(c)
    BY <1>2, <1>7, <2>1 DEF Skip, Writers
  <2>2. CASE \E v \in Writers : Step(v) \/ Rollback(v)
    BY <1>2, <1>7, <1>11, <1>12, <1>13, <2>2 DEF Step, Rollback, Commit
  <2> QED
    BY <1>2, <1>8, <1>9, <1>10, <1>14, <1>15, <2>1, <2>2 DEF StockNext
<1>16. CASE UNCHANGED stockVars
  BY <1>4, <1>16 DEF stockVars
<1> QED
  BY <1>15, <1>16 DEF Next, vars

\* The inductive form of AverageCostWithinCosts: it holds of what transactions
\* have read, too.
CostsAreReceived ==
  \A p \in Products :
    /\ Between(items[p], CostsReceived(p))
    /\ \A w \in Writers : Between(tx[w].read[p], CostsReceived(p))

\* What a commit writes of a product.
LEMMA CommitWritesCost ==
  ASSUME StockInv, CostsAreReceived, NEW w \in Writers, Commit(w), NEW p \in Products
  PROVE  /\ invoices \subseteq invoices'
         /\ Between(items'[p], CostsReceived(p)')
<1>1. PICK t : t = tx[w]
  OBVIOUS
<1>2. t \in Tx /\ TxIsSound(w, t) /\ t.pc = "update"
  BY <1>1, LineIsTyped DEF Commit, MayWrite, At
<1>3. /\ items' = Saved(t)
      /\ invoices' = IF t.kind = "invoice" THEN invoices \cup {t.cause.reference}
                     ELSE invoices
  BY <1>1 DEF Commit
<1>4. invoices \subseteq invoices'
  BY <1>3
<1>5. PICK costs : costs = CostsReceived(p)'
  OBVIOUS
<1>6. /\ costs \in SUBSET Nat /\ CostsReceived(p) \subseteq costs
      /\ \A doc \in Documents : \A i \in DOMAIN doc.lines :
           doc.kind = "invoice" /\ doc.reference \in invoices' /\ doc.lines[i].product = p
             => doc.lines[i].unitCost \in costs
  <2>1. \A doc \in Documents : doc.lines \in Seq(LineType)
    BY StockConstants DEF IsDocument
  <2>2. \A doc \in Documents : \A l \in ToSet(doc.lines) : l.unitCost \in Nat
    <3>1. \A doc \in Documents : \A l \in ToSet(doc.lines) : l \in LineType
      BY <2>1 DEF ToSet
    <3> QED
      BY <3>1 DEF LineType
  <2>3. costs = {line.unitCost : line \in
                  {l \in UNION {ToSet(doc.lines) : doc \in
                     {d \in Documents : d.kind = "invoice" /\ d.reference \in invoices'}} :
                   l.product = p}}
    BY <1>5 DEF CostsReceived
  <2>4. ASSUME NEW doc \in Documents, NEW i \in DOMAIN doc.lines, doc.kind = "invoice",
               doc.reference \in invoices', doc.lines[i].product = p
        PROVE  doc.lines[i].unitCost \in costs
    <3>1. doc.lines[i] \in ToSet(doc.lines)
      BY DEF ToSet
    <3> QED
      BY <2>3, <2>4, <3>1
  <2>5. costs \in SUBSET Nat
    BY <2>2, <2>3
  <2> QED
    BY <1>4, <1>5, <2>4, <2>5, CostsAreKept
<1>7. PICK row, seen : row = items[p] /\ seen = t.seen[p]
  OBVIOUS
<1>8. /\ row \in Row /\ seen \in Row /\ (seen # NoItem => row # NoItem)
      /\ Between(row, costs) /\ Between(t.read[p], costs)
  <2>1. items \in [Products -> Row]
    BY DEF StockInv, TypeOK, Row
  <2>2. Between(row, costs) /\ Between(t.read[p], costs)
    BY <1>1, <1>6, <1>7, BetweenMore DEF CostsAreReceived
  <2> QED
    BY <1>2, <1>7, <2>1, <2>2 DEF Tx, Row, TxIsSound
<1>9. CASE p \notin ProductsOf(t)
  <2>1. items'[p] = row
    BY <1>3, <1>7, <1>9 DEF Saved
  <2> QED
    BY <1>4, <1>5, <1>8, <2>1
<1>10. CASE p \in ProductsOf(t)
  <2>1. \E l \in ToSet(t.lines) : l.product = p
    BY <1>10 DEF ProductsOf, ToSet
  <2>2. PICK line : line = CHOOSE l \in ToSet(t.lines) : l.product = p
    OBVIOUS
  <2>3. line \in ToSet(t.lines) /\ line.product = p
    BY <2>1, <2>2
  <2>4. PICK i \in DOMAIN t.lines : line = t.lines[i]
    BY <2>3 DEF ToSet
  <2>5. items'[p] = Merge(row, seen, Copy(t, line))
    BY <1>3, <1>7, <1>10, <2>2 DEF Saved
  <2>6. t.kind = "invoice" => line.unitCost \in costs
    <3>1. ASSUME t.kind = "invoice"
          PROVE  /\ t.cause \in Documents /\ t.cause.kind = "invoice"
                 /\ t.lines = t.cause.lines
      BY <1>2, <3>1, KindOfWriter DEF TxIsSound, ClerkTx
    <3> QED
      BY <1>3, <1>6, <2>3, <2>4, <3>1
  <2>7. Between(Copy(t, line), costs)
    BY <1>2, <1>6, <1>8, <2>3, <2>4, <2>6, CopyCost
  <2>8. Copy(t, line) \in ItemRow
    BY <1>2, <2>3, CopyIsARow
  <2>9. Between(items'[p], costs)
    BY <1>8, <2>5, <2>7, <2>8, MergeCost
  <2> QED
    BY <1>4, <1>5, <2>9
<1> QED
  BY <1>9, <1>10

LEMMA CostsStep ==
  ASSUME StockInv, CostsAreReceived, [Next]_vars
  PROVE  CostsAreReceived'
<1> SUFFICES ASSUME NEW p \in Products
             PROVE  /\ Between(items'[p], CostsReceived(p)')
                    /\ \A w \in Writers : Between(tx'[w].read[p], CostsReceived(p)')
  BY DEF CostsAreReceived, Between
<1>1. PICK costs, more : costs = CostsReceived(p) /\ more = CostsReceived(p)'
  OBVIOUS
<1>2. items \in [Products -> Row] /\ \A w \in Writers : tx[w].read \in [Products -> Row]
  BY DEF StockInv, TypeOK, Tx, Row
<1>3. Between(items[p], costs) /\ \A w \in Writers : Between(tx[w].read[p], costs)
  BY <1>1 DEF CostsAreReceived
<1>4. invoices \subseteq invoices' /\ Between(items'[p], more)
  <2>1. CASE \E w \in Writers : Commit(w)
    BY <1>1, <2>1, CommitWritesCost
  <2>2. CASE \A w \in Writers : ~Commit(w)
    <3>1. UNCHANGED invoices /\ (UNCHANGED items \/ items' = Aged(items))
      BY <2>2, OtherSteps
    <3>2. costs \subseteq more
      BY <1>1, <3>1, CostsAreKept
    <3>3. Between(items'[p], costs)
      BY <1>2, <1>3, <3>1, AgedCost
    <3> QED
      BY <3>1, <3>2, <3>3, BetweenMore
  <2> QED
    BY <2>1, <2>2
<1>5. ASSUME NEW w \in Writers PROVE Between(tx'[w].read[p], more)
  <2>1. tx'[w].read[p] \in {NoItem, tx[w].read[p], items[p], Aged(tx[w].read)[p]}
    BY NewReads
  <2>2. Between(NoItem, costs)
    BY DEF Between
  <2>3. Between(Aged(tx[w].read)[p], costs)
    <3>1. PICK rows : rows = tx[w].read
      OBVIOUS
    <3> QED
      BY <1>2, <1>3, <3>1, AgedCost
  <2>4. Between(tx'[w].read[p], costs)
    BY <1>3, <2>1, <2>2, <2>3
  <2>5. costs \subseteq more
    BY <1>1, <1>4, CostsAreKept
  <2> QED
    BY <2>4, <2>5, BetweenMore
<1> QED
  BY <1>1, <1>4, <1>5

\* Whatever is averaged into the cost of a product, and from whatever stale
\* copy, the cost stays between the lowest and the highest it was received at.
THEOREM AverageCostIsBetween == Spec => []AverageCostWithinCosts
<1>1. StockInv /\ CostsAreReceived /\ [Next]_vars => (StockInv /\ CostsAreReceived)'
  BY StockStep, CostsStep
<1>2. ASSUME Init PROVE CostsAreReceived
  <2>1. items = Rows /\ tx = [w \in Writers |-> Idle]
    BY <1>2 DEF Init, StockInit
  <2> QED
    BY <2>1 DEF CostsAreReceived, Between, Rows, Idle, Begin
<1>3. CostsAreReceived => AverageCostWithinCosts
  BY DEF CostsAreReceived, Between, AverageCostWithinCosts
<1> QED
  BY <1>1, <1>2, <1>3, StockInitially, PTL DEF Spec

-----------------------------------------------------------------------------
(* The alerts.                                                             *)

LEMMA RefreshedAlert ==
  ASSUME NEW item \in ItemRow, NEW alert, item.alert = alert
  PROVE  RefreshLowStockAlertState(item).alert =
           IF IsBelowMinimumThreshold(RefreshLowStockAlertState(item)) THEN alert ELSE Never
BY DEF RefreshLowStockAlertState, IsBelowMinimumThreshold, ItemRow

\* A method forgets the alert of an item that is not low afterwards, and no other.
LEMMA AppliedAlert ==
  ASSUME NEW kind \in Kinds, NEW item \in ItemRow, NEW line \in LineType
  PROVE  Applied(kind, item, line).alert =
           IF IsBelowMinimumThreshold(Applied(kind, item, line)) THEN item.alert ELSE Never
<1> USE DEF LineType
<1>0. item.onHand \in Int /\ line.quantity \in Nat /\ line.unitCost \in Nat
  BY DEF ItemRow
<1>1. CASE kind \in {"issue", "loss"}
  <2>1. PICK a : a = [item EXCEPT !.onHand = @ - line.quantity]
    OBVIOUS
  <2>2. a \in ItemRow /\ a.alert = item.alert
    BY <2>1 DEF ItemRow
  <2>3. Applied(kind, item, line) = RefreshLowStockAlertState(a)
    BY <1>1, <2>1 DEF Applied, IssueSale, RegisterLoss
  <2> QED
    BY <2>2, <2>3, RefreshedAlert
<1>2. CASE kind = "revert"
  <2>1. PICK a : a = [item EXCEPT !.onHand = @ + line.quantity]
    OBVIOUS
  <2>2. a \in ItemRow /\ a.alert = item.alert
    BY <2>1 DEF ItemRow
  <2>3. Applied(kind, item, line) = RefreshLowStockAlertState(a)
    BY <1>2, <2>1 DEF Applied, RevertSaleIssue
  <2> QED
    BY <2>2, <2>3, RefreshedAlert
<1>3. CASE kind = "count"
  <2>0. PICK minimum : minimum = IF line.threshold = Unset THEN item.threshold
                                 ELSE line.threshold
    OBVIOUS
  <2>1. PICK a : a = [item EXCEPT !.onHand = line.quantity, !.threshold = minimum]
    OBVIOUS
  <2>2. line.quantity \in Int /\ minimum \in Nat
    BY <2>0 DEF ItemRow
  <2>3. a \in ItemRow
    BY <2>1, <2>2, TwoColumns
  <2>4. a.alert = item.alert
    BY <2>1 DEF ItemRow
  <2>5. Applied(kind, item, line) = RefreshLowStockAlertState(a)
    BY <1>3, <2>0, <2>1 DEF Applied, ApplyPhysicalCount
  <2> QED
    BY <2>3, <2>4, <2>5, RefreshedAlert
<1>4. CASE kind = "invoice"
  <2>0. PICK cost, n : /\ cost = AverageUnitCost(item, line.quantity, line.unitCost)
                       /\ n = item.onHand + line.quantity
    OBVIOUS
  <2>1. PICK a : a = [item EXCEPT !.cost = cost, !.onHand = n]
    OBVIOUS
  <2>2. cost \in Nat /\ n \in Int
    <3>1. cost \in Nat
      BY <1>0, <2>0, AverageIsACost
    <3>2. n \in Int
      BY <1>0, <2>0
    <3> QED
      BY <3>1, <3>2
  <2>3. a \in ItemRow
    BY <2>1, <2>2, TwoColumns
  <2>4. a.alert = item.alert
    BY <2>1 DEF ItemRow
  <2>5. Applied(kind, item, line) = RefreshLowStockAlertState(a)
    BY <1>4, <2>0, <2>1 DEF Applied, ReceiveStock
  <2> QED
    BY <2>3, <2>4, <2>5, RefreshedAlert
<1> QED
  BY <1>1, <1>2, <1>3, <1>4 DEF Kinds

\* An item that may be announced: low, and not announced within the cooldown.
Due(row) == row # NoItem /\ ShouldEmitLowStockAlert(row)

ScanIsDue(t) ==
  t.pc # "idle" => \A i \in DOMAIN t.lines : Due(t.read[t.lines[i].product])

\* The inductive form of AlertsRespectCooldown: a row that nothing overtook knows
\* when its product was last announced, and the items a scan announces were due
\* when it read them.
AlertsAreRemembered ==
  /\ \A p \in Products \ overtaken :
       /\ lastAlert[p] = Found(items[p]).alert
       /\ ~IsBelowMinimumThreshold(Found(items[p])) => Found(items[p]).alert = Never
  /\ \A v \in Workers : ScanIsDue(tx[v])

LEMMA AgedAlert ==
  ASSUME NEW rows \in [Products -> Row], NEW p \in Products
  PROVE  /\ Found(Aged(rows)[p]).alert = Older(Found(rows[p]).alert)
         /\ IsBelowMinimumThreshold(Found(Aged(rows)[p])) <=>
              IsBelowMinimumThreshold(Found(rows[p]))
         /\ Due(rows[p]) => Due(Aged(rows)[p])
<1>1. PICK row \in Row : row = rows[p]
  OBVIOUS
<1>2. Aged(rows)[p] = IF row = NoItem THEN NoItem ELSE [row EXCEPT !.alert = Older(@)]
  BY <1>1 DEF Aged
<1>3. CASE row = NoItem
  <2>1. Older(Never) = Never
    BY StockItemConstants DEF Older, Never
  <2> QED
    BY <1>1, <1>2, <1>3, <2>1 DEF Found, Initialize, Due
<1>4. CASE row # NoItem
  <2>1. row \in ItemRow
    BY <1>4 DEF Row
  <2>2. PICK aged : aged = [row EXCEPT !.alert = Older(@)]
    OBVIOUS
  <2>3. /\ aged.alert = Older(row.alert) /\ aged.onHand = row.onHand
        /\ aged.threshold = row.threshold
    BY <2>1, <2>2 DEF ItemRow
  <2>4. Older(row.alert) \in 0..Never
    BY <2>1, StockItemConstants DEF Older, ItemRow, Never
  <2>5. aged \in ItemRow
    BY <2>1, <2>2, <2>4 DEF ItemRow
  <2>6. Found(Aged(rows)[p]) = aged /\ Found(rows[p]) = row /\ Aged(rows)[p] = aged
    BY <1>1, <1>2, <1>4, <2>2, <2>5, NothingIsNoRow DEF Found
  <2>7. row.alert >= Cooldown => Older(row.alert) >= Cooldown
    BY <2>1, StockItemConstants DEF Older, ItemRow, Never
  <2> QED
    BY <1>1, <1>4, <2>3, <2>5, <2>6, <2>7, NothingIsNoRow
       DEF IsBelowMinimumThreshold, Due, ShouldEmitLowStockAlert
<1> QED
  BY <1>3, <1>4

LEMMA CommitRemembersAlert ==
  ASSUME StockInv, AlertsAreRemembered, NEW w \in Writers, Commit(w),
         NEW p \in Products \ overtaken'
  PROVE  /\ lastAlert'[p] = Found(items'[p]).alert
         /\ ~IsBelowMinimumThreshold(Found(items'[p])) => Found(items'[p]).alert = Never
<1>1. PICK t : t = tx[w]
  OBVIOUS
<1>2. t \in Tx /\ TxIsSound(w, t) /\ t.pc = "update"
  BY <1>1, LineIsTyped DEF Commit, MayWrite, At
<1>3. lastAlert'[p] =
        IF items'[p] = NoItem \/ ~IsBelowMinimumThreshold(Found(items'[p])) THEN Never
        ELSE IF t.kind = "alert" /\ p \in ProductsOf(t) THEN t.age ELSE lastAlert[p]
  BY <1>1 DEF Commit, Remembered
<1>4. /\ p \notin overtaken
      /\ lastAlert[p] = Found(items[p]).alert
      /\ ~IsBelowMinimumThreshold(Found(items[p])) => Found(items[p]).alert = Never
  <2>1. p \notin overtaken
    BY CommitOfCurrent
  <2> QED
    BY <2>1 DEF AlertsAreRemembered
<1>5. CASE p \notin ProductsOf(t)
  <2>1. items'[p] = items[p]
    BY <1>1, <1>5, CommitOfCurrent
  <2> QED
    BY <1>3, <1>4, <1>5, <2>1 DEF Found, Initialize
<1>6. CASE p \in ProductsOf(t)
  <2>1. t.read[p] = items[p] /\ items'[p] \in ItemRow /\ items'[p] # NoItem
    BY <1>1, <1>6, CommitOfCurrent, NothingIsNoRow
  <2>2. PICK k \in DOMAIN t.lines :
          /\ t.lines[k] \in LineType /\ t.lines[k].product = p
          /\ items'[p] = Copy(t, t.lines[k])
    BY <1>1, <1>6, CommitOfCurrent
  <2>3. PICK copy : copy = items'[p]
    OBVIOUS
  <2>4. Found(items'[p]) = copy
    BY <2>1, <2>3 DEF Found
  <2>5. CASE t.kind = "alert"
    <3>1. w \in Workers
      BY <1>2, <2>5, KindOfWriter
    <3>2. PICK row : row = t.read[p]
      OBVIOUS
    <3>3. Due(row)
      BY <1>1, <1>2, <2>2, <3>1, <3>2 DEF AlertsAreRemembered, ScanIsDue
    <3>4. row \in ItemRow
      BY <1>2, <3>2, <3>3 DEF Due, Tx
    <3>5. copy = [row EXCEPT !.alert = t.age]
      BY <2>2, <2>3, <2>5, <3>2 DEF Copy, MarkLowStockAlertEmitted
    <3>6. copy.alert = t.age /\ IsBelowMinimumThreshold(copy)
      BY <3>3, <3>4, <3>5 DEF Due, ShouldEmitLowStockAlert, IsBelowMinimumThreshold, ItemRow
    <3> QED
      BY <1>3, <1>6, <2>1, <2>4, <2>5, <3>6
  <2>6. CASE t.kind # "alert"
    <3>1. w \in Consumers \cup Clerks
      BY <1>2, <2>6, KindOfWriter DEF Writers
    <3>2. t.kind \in Kinds
      BY <1>2, <2>2, <3>1, LineIsMeant
    <3>3. Found(items[p]) \in ItemRow
      BY FoundIsARow DEF StockInv, TypeOK, Row
    <3>4. copy = Applied(t.kind, Found(items[p]), t.lines[k])
      BY <2>1, <2>2, <2>3, <2>6 DEF Copy
    <3>5. copy.alert = IF IsBelowMinimumThreshold(copy) THEN Found(items[p]).alert ELSE Never
      BY <2>2, <3>2, <3>3, <3>4, AppliedAlert
    <3> QED
      BY <1>3, <1>4, <2>1, <2>4, <2>6, <3>5
  <2> QED
    BY <2>5, <2>6
<1> QED
  BY <1>5, <1>6

LEMMA ScansStayDue ==
  ASSUME StockInv, AlertsAreRemembered, [Next]_vars, NEW v \in Workers
  PROVE  ScanIsDue(tx'[v])
<1>1. tx \in [Writers -> Tx] /\ v \in Writers
  BY DEF StockInv, TypeOK, Writers
<1>2. PICK r : r = tx[v]
  OBVIOUS
<1>3. r \in Tx /\ TxIsSound(v, r) /\ ScanIsDue(r)
  BY <1>1, <1>2 DEF StockInv, AlertsAreRemembered
<1>4. ASSUME NEW u \in Writers, NEW t, Goto(u, t), u = v => ScanIsDue(t)
      PROVE  ScanIsDue(tx'[v])
  <2>1. CASE u = v
    BY <1>1, <1>4, <2>1 DEF Goto
  <2>2. CASE u # v
    BY <1>1, <1>2, <1>3, <1>4, <2>2 DEF Goto
  <2> QED
    BY <2>1, <2>2
<1>5. ASSUME UNCHANGED tx PROVE ScanIsDue(tx'[v])
  BY <1>2, <1>3, <1>5
<1>6. ASSUME NEW u \in Writers, Finish(u) PROVE ScanIsDue(tx'[v])
  BY <1>4, <1>6 DEF Finish, ScanIsDue, Idle, Begin
<1>7. ASSUME NEW c \in Consumers, Receive(c) \/ LookUp(c) \/ Skip(c)
      PROVE  ScanIsDue(tx'[v])
  <2>1. PICK t : Goto(c, t)
    BY <1>7 DEF Receive, LookUp, Skip, Finish
  <2> QED
    BY <1>4, <2>1, StockConstants DEF Writers
<1>8. ASSUME NEW k \in Clerks, Submit(k) PROVE ScanIsDue(tx'[v])
  <2>1. PICK t : Goto(k, t)
    BY <1>8 DEF Submit
  <2> QED
    BY <1>4, <2>1, StockConstants DEF Writers
<1>9. ASSUME NEW u \in Workers, Scan(u) PROVE ScanIsDue(tx'[v])
  <2>1. PICK found \in InOrder(FindLowStockCandidates) :
          Goto(u, Begin("select", "alert", None,
                        [i \in DOMAIN found |-> LineOf(found[i], 0)], items))
    BY <1>9 DEF Scan
  <2>2. \A i \in DOMAIN found : found[i] \in FindLowStockCandidates
    BY <2>1 DEF InOrder
  <2>3. \A p \in FindLowStockCandidates : Due(items[p])
    BY DEF FindLowStockCandidates, Limited, Low, Due
  <2>4. PICK t : t = [pc |-> "select", kind |-> "alert", cause |-> None,
                      lines |-> [i \in DOMAIN found |-> LineOf(found[i], 0)], next |-> 1,
                      read |-> items, seen |-> Rows, age |-> 0]
    OBVIOUS
  <2>5. ScanIsDue(t)
    BY <2>2, <2>3, <2>4 DEF ScanIsDue, LineOf
  <2> QED
    BY <1>4, <2>1, <2>4, <2>5 DEF Begin, Writers
<1>10. ASSUME NEW u \in Writers, Load(u) PROVE ScanIsDue(tx'[v])
  <2>1. CASE Finish(u)
    BY <1>6, <2>1
  <2>2. CASE ~Finish(u)
    <3>1. PICK t : Goto(u, t)
      BY <1>10, <2>2 DEF Load
    <3>2. u # v
      BY <1>2, <1>3, <1>10, StockConstants DEF Load, At, TxIsSound, WorkerTx
    <3> QED
      BY <1>4, <3>1, <3>2
  <2> QED
    BY <2>1, <2>2
<1>11. ASSUME NEW u \in Writers, Select(u) PROVE ScanIsDue(tx'[v])
  <2>1. PICK s, t : /\ s = tx[u] /\ Goto(u, t) /\ s.pc = "select"
                    /\ t = [s EXCEPT !.pc = "update", !.seen[Product(u)] = items[Product(u)]]
    BY <1>11 DEF Select, At
  <2>2. t.read = s.read /\ t.lines = s.lines
    BY <1>1, <2>1 DEF Tx
  <2> QED
    BY <1>2, <1>3, <1>4, <2>1, <2>2 DEF ScanIsDue
<1>12. ASSUME NEW u \in Writers, Update(u) PROVE ScanIsDue(tx'[v])
  <2>1. PICK s, t, pc : /\ s = tx[u] /\ Goto(u, t) /\ s.pc = "update"
                        /\ t = [s EXCEPT !.next = @ + 1, !.pc = pc]
    BY <1>12 DEF Update, MayWrite, At
  <2>2. t.read = s.read /\ t.lines = s.lines
    BY <1>1, <2>1 DEF Tx
  <2> QED
    BY <1>2, <1>3, <1>4, <2>1, <2>2 DEF ScanIsDue
<1>13. ASSUME Tick PROVE ScanIsDue(tx'[v])
  <2>1. PICK t : t = tx'[v]
    OBVIOUS
  <2>2. t.pc = r.pc /\ t.lines = r.lines /\ t.read = Aged(r.read)
    BY <1>1, <1>2, <1>3, <1>13, <2>1 DEF Tick, Tx
  <2>3. \A i \in DOMAIN r.lines : r.lines[i].product \in Products
    <3>1. \A i \in DOMAIN r.lines : r.lines[i] \in LineType
      BY <1>3 DEF Tx
    <3> QED
      BY <3>1 DEF LineType
  <2>4. r.read \in [Products -> Row]
    BY <1>3 DEF Tx, Row
  <2> QED
    BY <1>3, <2>1, <2>2, <2>3, <2>4, AgedAlert DEF ScanIsDue
<1>14. CASE StockNext
  <2>1. CASE \E u \in Writers : Step(u) \/ Rollback(u)
    BY <1>6, <1>10, <1>11, <1>12, <2>1 DEF Step, Rollback, Commit
  <2> QED
    BY <1>7, <1>8, <1>9, <1>13, <1>14, <2>1 DEF StockNext
<1>15. CASE UNCHANGED stockVars
  BY <1>5, <1>15 DEF stockVars
<1> QED
  BY <1>14, <1>15 DEF Next, vars

LEMMA AlertsStep ==
  ASSUME StockInv, AlertsAreRemembered, [Next]_vars
  PROVE  AlertsAreRemembered'
<1>1. \A v \in Workers : ScanIsDue(tx'[v])
  BY ScansStayDue
<1>2. ASSUME NEW p \in Products \ overtaken'
      PROVE  /\ lastAlert'[p] = Found(items'[p]).alert
             /\ ~IsBelowMinimumThreshold(Found(items'[p])) => Found(items'[p]).alert = Never
  <2>1. CASE \E w \in Writers : Commit(w)
    BY <2>1, CommitRemembersAlert
  <2>2. CASE \A w \in Writers : ~Commit(w)
    <3>1. /\ UNCHANGED overtaken
          /\ \/ UNCHANGED <<items, lastAlert>>
             \/ /\ items' = Aged(items)
                /\ lastAlert' = [q \in Products |-> Older(lastAlert[q])]
      BY <2>2, OtherSteps
    <3>2. /\ lastAlert[p] = Found(items[p]).alert
          /\ ~IsBelowMinimumThreshold(Found(items[p])) => Found(items[p]).alert = Never
      BY <3>1 DEF AlertsAreRemembered
    <3>3. CASE UNCHANGED <<items, lastAlert>>
      BY <3>2, <3>3
    <3>4. CASE items' = Aged(items) /\ lastAlert' = [q \in Products |-> Older(lastAlert[q])]
      <4>1. items \in [Products -> Row]
        BY DEF StockInv, TypeOK, Row
      <4>2. Older(Never) = Never
        BY StockItemConstants DEF Older, Never
      <4> QED
        BY <3>2, <3>4, <4>1, <4>2, AgedAlert
    <3> QED
      BY <3>1, <3>3, <3>4
  <2> QED
    BY <2>1, <2>2
<1>3. AlertsAreRemembered' <=>
        /\ \A p \in Products \ overtaken' :
             /\ lastAlert'[p] = Found(items'[p]).alert
             /\ ~IsBelowMinimumThreshold(Found(items'[p])) => Found(items'[p]).alert = Never
        /\ \A v \in Workers : ScanIsDue(tx'[v])
  BY DEF AlertsAreRemembered, ScanIsDue, Due
<1> QED
  BY <1>1, <1>2, <1>3

\* Several workers may scan at once, and sales and documents commit in between:
\* a product is not announced twice within the cooldown, unless it recovered or
\* its row was overtaken.
THEOREM AlertsKeepTheCooldown == Spec => AlertsRespectCooldown
<1>1. StockInv /\ AlertsAreRemembered /\ [Next]_vars => (StockInv /\ AlertsAreRemembered)'
  BY StockStep, AlertsStep
<1>2. ASSUME Init PROVE AlertsAreRemembered
  <2>1. /\ items = Rows /\ tx = [w \in Writers |-> Idle]
        /\ lastAlert = [p \in Products |-> Never]
    BY <1>2 DEF Init, StockInit
  <2> QED
    BY <2>1 DEF AlertsAreRemembered, ScanIsDue, Rows, Idle, Begin, Found, Initialize, Writers
<1>3. ASSUME StockInv, AlertsAreRemembered, NEW v \in Workers, Commit(v),
             NEW p \in ProductsOf(tx[v]) \ overtaken'
      PROVE  lastAlert[p] >= Cooldown
  <2>1. PICK t : t = tx[v]
    OBVIOUS
  <2>2. v \in Writers
    BY DEF Writers
  <2>3. t \in Tx /\ t.pc = "update"
    BY <1>3, <2>1, <2>2, LineIsTyped DEF Commit, MayWrite, At
  <2>4. PICK i \in DOMAIN t.lines : p = t.lines[i].product
    BY <1>3, <2>1 DEF ProductsOf
  <2>5. t.lines[i] \in LineType
    BY <2>3 DEF Tx
  <2>6. p \in Products
    BY <2>4, <2>5 DEF LineType
  <2>7. t.read[p] = items[p] /\ p \notin overtaken
    BY <1>3, <2>1, <2>2, <2>6, CommitOfCurrent
  <2>8. Due(t.read[p])
    BY <1>3, <2>1, <2>3, <2>4 DEF AlertsAreRemembered, ScanIsDue
  <2>9. lastAlert[p] = Found(items[p]).alert
    BY <1>3, <2>6, <2>7 DEF AlertsAreRemembered
  <2> QED
    BY <2>7, <2>8, <2>9 DEF Due, ShouldEmitLowStockAlert, Found
<1>4. StockInv /\ AlertsAreRemembered =>
        [\A v \in Workers : Commit(v) =>
           \A p \in ProductsOf(tx[v]) \ overtaken' : lastAlert[p] >= Cooldown]_vars
  BY <1>3
<1> QED
  BY <1>1, <1>2, <1>4, StockInitially, PTL DEF Spec, AlertsRespectCooldown

-----------------------------------------------------------------------------
(* One consumer instance: the sales on the books of the stock.             *)

SaleMoves == {"SALE_ISSUE", "SALE_REVERSION"}

\* The stock of a sale is issued by the completion that was handled, once, and
\* returned by a cancellation that was handled, once.
SaleIsBooked(x) ==
  /\ MovesOf(x, "SALE_ISSUE") # {} =>
       MovedTimes(x, "SALE_ISSUE", 1) /\ Handled("SaleCompleted", x)
  /\ MovesOf(x, "SALE_REVERSION") # {} =>
       /\ MovedTimes(x, "SALE_REVERSION", 1) /\ Handled("SaleCanceled", x)
       /\ MovesOf(x, "SALE_ISSUE") # {}
  /\ Handled("SaleCompleted", x) =>
       MovesOf(x, "SALE_ISSUE") # {} \/ Handled("SaleCanceled", x)

Skipped(e) == IsRepeated(e) \/ IsPointless(e)

\* What the consumer looked up still holds: nobody else handles events.
TxIsNews(t) ==
  /\ t.pc = "lookup" => ~IsRepeated(t.cause)
  /\ t.pc \in {"load", "select", "update"} => ~Skipped(t.cause)
  /\ t.pc = "skip" => Skipped(t.cause)

EventIsNews(c) == TxIsNews(tx[c])

SalesAreBooked ==
  /\ \A x \in Sales : SaleIsBooked(x)
  /\ \A c \in Consumers : EventIsNews(c)

\* The effect of a sale can be read off the existence of its movements.
LEMMA EffectIsBooked ==
  ASSUME NEW x \in Sales, SaleIsBooked(x)
  PROVE  EffectOnStock(x) = IF MovesOf(x, "SALE_ISSUE") = {} THEN "none"
                            ELSE IF MovesOf(x, "SALE_REVERSION") = {} THEN "booked"
                            ELSE "undone"
<1>1. ASSUME NEW type, MovesOf(x, type) = {}
      PROVE  MovedTimes(x, type, 0)
  <2>1. \A line : MovesOfLine(x, type, line) = {}
    BY <1>1 DEF MovesOfLine
  <2> QED
    BY <2>1, FS_EmptySet DEF MovedTimes
<1>2. 1 \in DOMAIN Items[x]
  <2>1. Items[x] \in Seq(LineType) /\ Items[x] # <<>>
    BY StockConstants
  <2> QED
    BY <2>1
<1>3. ASSUME NEW type, MovedTimes(x, type, 1)
      PROVE  ~MovedTimes(x, type, 0)
  BY <1>2, <1>3 DEF MovedTimes
<1>4. MovesOf(x, "SALE_REVERSION") # {} => MovesOf(x, "SALE_ISSUE") # {}
  BY DEF SaleIsBooked
<1>5. /\ MovesOf(x, "SALE_ISSUE") # {} => MovedTimes(x, "SALE_ISSUE", 1)
      /\ MovesOf(x, "SALE_REVERSION") # {} => MovedTimes(x, "SALE_REVERSION", 1)
  BY DEF SaleIsBooked
<1> QED
  BY <1>1, <1>3, <1>4, <1>5 DEF EffectOnStock

LEMMA EffectsAreBooked ==
  \A x \in Sales : SaleIsBooked(x) =>
    EffectOnStock(x) = IF MovesOf(x, "SALE_ISSUE") = {} THEN "none"
                       ELSE IF MovesOf(x, "SALE_REVERSION") = {} THEN "booked"
                       ELSE "undone"
BY EffectIsBooked

LEMMA EffectWasBooked ==
  \A x \in Sales : SaleIsBooked(x)' =>
    EffectOnStock(x)' = IF MovesOf(x, "SALE_ISSUE")' = {} THEN "none"
                        ELSE IF MovesOf(x, "SALE_REVERSION")' = {} THEN "booked"
                        ELSE "undone"
<1>1. (\A x \in Sales : SaleIsBooked(x) =>
         EffectOnStock(x) = IF MovesOf(x, "SALE_ISSUE") = {} THEN "none"
                            ELSE IF MovesOf(x, "SALE_REVERSION") = {} THEN "booked"
                            ELSE "undone")'
  BY EffectsAreBooked, PTL
<1> QED
  BY <1>1

\* The movements a commit adds for the sales: those of its event.
LEMMA CommittedMoves ==
  ASSUME StockInv, NEW w \in Writers, Commit(w), NEW x, NEW type \in SaleMoves
  PROVE  /\ ~(w \in Consumers /\ tx[w].cause.aggregate = x
                /\ MovementType[tx[w].kind] = type) =>
              /\ MovesOf(x, type)' = MovesOf(x, type)
              /\ \A n : MovedTimes(x, type, n)' <=> MovedTimes(x, type, n)
         /\ w \in Consumers /\ tx[w].cause.aggregate = x
              /\ MovementType[tx[w].kind] = type =>
              /\ MovesOf(x, type)' # {}
              /\ MovesOf(x, type) = {} => MovedTimes(x, type, 1)'
<1>1. PICK t : t = tx[w]
  OBVIOUS
<1>2. t \in Tx /\ TxIsSound(w, t) /\ t.pc = "update"
  BY <1>1, LineIsTyped DEF Commit, MayWrite, At
<1>3. PICK old, new : old = movements /\ new = MovementsOf(t)
  OBVIOUS
<1>4. movements' = old \o new
  BY <1>1, <1>3 DEF Commit
<1>5. /\ old \in Seq(Movement) /\ new \in Seq(Movement)
      /\ \A i \in DOMAIN new : /\ i \in DOMAIN t.lines
                               /\ new[i].type = MovementType[t.kind]
                               /\ new[i].product = t.lines[i].product
                               /\ new[i].cause = t.cause
                               /\ t.kind \in Kinds
  BY <1>2, <1>3, MovementsAreMeant DEF StockInv
<1>6. PICK n, m : n = Len(old) /\ m = Len(new)
  OBVIOUS
<1>7. n \in Nat /\ m \in Nat /\ DOMAIN old = 1..n /\ DOMAIN new = 1..m
  BY <1>5, <1>6
<1>8. PICK s : s = movements'
  OBVIOUS
<1>9. /\ DOMAIN s = 1..(n + m)
      /\ \A i \in 1..n : s[i] = old[i]
      /\ \A i \in 1..m : s[n + i] = new[i]
  BY <1>4, <1>5, <1>6, <1>7, <1>8
<1>10. \A j \in 1..(n + m) : j \in 1..n \/ (j - n \in 1..m /\ j = n + (j - n))
  BY <1>7
<1>11. CASE ~(w \in Consumers /\ t.cause.aggregate = x /\ MovementType[t.kind] = type)
  <2>1. ASSUME NEW i \in DOMAIN new, new[i].type = type, new[i].cause.aggregate = x
        PROVE  FALSE
    <3>1. t.kind \in Kinds /\ MovementType[t.kind] = type /\ t.cause.aggregate = x
      BY <1>5, <2>1
    <3>2. t.kind \in {"issue", "revert"}
      BY <3>1 DEF MovementType, Kinds, SaleMoves
    <3>3. w \in Consumers
      BY <1>2, <3>2, KindOfWriter
    <3> QED
      BY <1>11, <3>1, <3>3
  <2>2. ASSUME NEW j
        PROVE  /\ j \in DOMAIN s /\ s[j].type = type /\ s[j].cause.aggregate = x <=>
                    j \in DOMAIN old /\ old[j].type = type /\ old[j].cause.aggregate = x
               /\ j \in DOMAIN old => s[j] = old[j]
    <3>1. j \in 1..n => j \in 1..(n + m)
      BY <1>7
    <3>2. CASE j \in 1..n
      BY <1>7, <1>9, <3>1, <3>2
    <3>3. CASE j \in 1..(n + m) /\ j \notin 1..n
      <4>1. j - n \in DOMAIN new /\ s[j] = new[j - n]
        BY <1>7, <1>9, <1>10, <3>3
      <4>2. ~(s[j].type = type /\ s[j].cause.aggregate = x)
        BY <2>1, <4>1
      <4> QED
        BY <1>7, <3>3, <4>2
    <3>4. CASE j \notin 1..(n + m)
      BY <1>7, <1>9, <3>1, <3>4
    <3> QED
      BY <3>2, <3>3, <3>4
  <2>3. MovesOf(x, type)' = MovesOf(x, type)
    BY <1>3, <1>8, <2>2 DEF MovesOf
  <2>4. \A line : MovesOfLine(x, type, line)' = MovesOfLine(x, type, line)
    BY <1>3, <1>8, <2>2, <2>3 DEF MovesOfLine, MovesOf
  <2>5. \A k : MovedTimes(x, type, k)' <=> MovedTimes(x, type, k)
    BY <2>4 DEF MovedTimes
  <2> QED
    BY <1>1, <1>11, <2>3, <2>5
<1>12. CASE w \in Consumers /\ t.cause.aggregate = x /\ MovementType[t.kind] = type
  <2>1. /\ x \in Sales /\ t.lines = Items[x] /\ t.kind \in {"issue", "revert"}
        /\ t.kind # "alert"
    BY <1>2, <1>12, KindOfWriter DEF TxIsSound, ConsumerTx
  <2>2. /\ new = [i \in DOMAIN t.lines |-> MovementOf(t, t.lines[i])]
        /\ DOMAIN new = DOMAIN Items[x]
    BY <1>3, <2>1 DEF MovementsOf
  <2>3. \A i \in DOMAIN new :
          /\ new[i].type = type /\ new[i].cause.aggregate = x
          /\ new[i].product = Items[x][i].product
          /\ new[i].delta \in {Items[x][i].quantity, -Items[x][i].quantity}
    BY <1>5, <1>12, <2>1, <2>2 DEF MovementOf, QuantityDelta
  <2>4. 1 \in DOMAIN new
    <3>1. Items[x] \in Seq(LineType) /\ Items[x] # <<>>
      BY <2>1, StockConstants
    <3> QED
      BY <2>2, <3>1
  <2>5. \A j \in DOMAIN s :
          j \in MovesOf(x, type)' <=> s[j].type = type /\ s[j].cause.aggregate = x
    BY <1>8 DEF MovesOf
  <2>6. \A i \in DOMAIN new : n + i \in DOMAIN s /\ n + i \in MovesOf(x, type)'
    <3>1. \A i \in 1..m : n + i \in 1..(n + m)
      BY <1>7
    <3> QED
      BY <1>7, <1>9, <2>3, <2>5, <3>1
  <2>7. ASSUME MovesOf(x, type) = {}, NEW k \in DOMAIN Items[x]
        PROVE  Cardinality(MovesOfLine(x, type, Items[x][k])') = 1
    <3>1. PICK S : S = MovesOfLine(x, type, Items[x][k])'
      OBVIOUS
    <3>2. ASSUME NEW j
          PROVE  j \in S <=>
                   /\ j \in DOMAIN s /\ s[j].type = type /\ s[j].cause.aggregate = x
                   /\ s[j].product = Items[x][k].product
                   /\ s[j].delta \in {Items[x][k].quantity, -Items[x][k].quantity}
      BY <1>8, <3>1 DEF MovesOfLine, MovesOf
    <3>3. n + k \in S
      <4>1. s[n + k] = new[k]
        BY <1>7, <1>9, <2>2, <2>7
      <4> QED
        BY <2>2, <2>3, <2>6, <2>7, <3>2, <4>1
    <3>4. ASSUME NEW j \in S PROVE j = n + k
      <4>1. j \in 1..(n + m) /\ j \notin 1..n
        <5>1. j \in 1..(n + m)
          BY <1>9, <3>2
        <5>2. ASSUME j \in 1..n PROVE FALSE
          <6>1. s[j] = old[j]
            BY <1>9, <5>2
          <6>2. j \in MovesOf(x, type)
            BY <1>3, <1>7, <3>2, <5>2, <6>1 DEF MovesOf
          <6> QED
            BY <2>7, <6>2
        <5> QED
          BY <5>1, <5>2
      <4>2. j - n \in DOMAIN new /\ j = n + (j - n) /\ s[j] = new[j - n]
        BY <1>7, <1>9, <1>10, <4>1
      <4>3. Items[x][j - n].product = Items[x][k].product
        BY <2>3, <3>2, <4>2
      <4>4. j - n = k
        BY <2>1, <2>2, <2>7, <4>2, <4>3, StockConstants
      <4> QED
        BY <4>2, <4>4
    <3>5. S = {n + k}
      BY <3>3, <3>4
    <3> QED
      BY <3>1, <3>5, FS_Singleton
  <2>8. MovesOf(x, type) = {} => MovedTimes(x, type, 1)'
    BY <2>7 DEF MovedTimes
  <2> QED
    BY <1>1, <1>12, <2>4, <2>6, <2>8
<1> QED
  BY <1>1, <1>11, <1>12

\* What one instance skips is to be skipped.
LEMMA SkippedEvent ==
  ASSUME StockInv, SalesAreBooked, NEW c \in Consumers, Skip(c)
  PROVE  \E e \in Delivered : Skipped(e) /\ processed' = processed \cup {e}
<1>1. tx[c].pc = "skip" /\ processed' = processed \cup {tx[c].cause}
  BY DEF Skip, At
<1>2. c \in Writers
  BY DEF Writers
<1>3. TxIsSound(c, tx[c])
  BY <1>2 DEF StockInv
<1>4. tx[c].cause \in Delivered
  BY <1>1, <1>3 DEF TxIsSound, ConsumerTx
<1>5. Skipped(tx[c].cause)
  BY <1>1 DEF SalesAreBooked, EventIsNews, TxIsNews
<1> QED
  BY <1>1, <1>4, <1>5

LEMMA EventsStayNews ==
  ASSUME StockInv, SalesAreBooked, [Next]_vars, \A c, d \in Consumers : c = d,
         NEW c \in Consumers
  PROVE  EventIsNews(c)'
<1>1. tx \in [Writers -> Tx] /\ c \in Writers
  BY DEF StockInv, TypeOK, Writers
<1>2. PICK r : r = tx[c]
  OBVIOUS
<1>3. r \in Tx /\ TxIsNews(r)
  BY <1>1, <1>2 DEF SalesAreBooked, EventIsNews, TxIsNews
<1>4. ASSUME UNCHANGED processed, TxIsNews(tx'[c])
      PROVE  EventIsNews(c)'
  BY <1>4 DEF EventIsNews, TxIsNews, Skipped, IsRepeated, IsPointless, Handled
<1>5. ASSUME NEW u \in Writers, NEW t, Goto(u, t), u = c => TxIsNews(t)
      PROVE  TxIsNews(tx'[c])
  <2>1. CASE u = c
    BY <1>1, <1>5, <2>1 DEF Goto
  <2>2. CASE u # c
    BY <1>1, <1>2, <1>3, <1>5, <2>2 DEF Goto
  <2> QED
    BY <2>1, <2>2
<1>6. ASSUME NEW u \in Writers, Finish(u) PROVE TxIsNews(tx'[c])
  BY <1>5, <1>6 DEF Finish, TxIsNews, Idle, Begin
<1>7. ASSUME Receive(c) PROVE EventIsNews(c)'
  <2>1. PICK e \in Delivered \ processed :
          /\ UNCHANGED processed
          /\ Goto(c, Begin(IF IsRepeated(e) THEN "skip" ELSE "lookup",
                           SaleEventKind[e.name], e, Items[e.aggregate], Rows))
    BY <1>7 DEF Receive, TablesUnchanged
  <2> QED
    BY <1>1, <1>4, <1>5, <2>1 DEF Begin, TxIsNews, Skipped
<1>8. ASSUME Skip(c) PROVE EventIsNews(c)'
  <2>1. tx'[c].pc = "idle"
    BY <1>1, <1>8 DEF Skip, Finish, Goto, Idle, Begin
  <2> QED
    BY <2>1 DEF EventIsNews, TxIsNews
<1>8a. ASSUME LookUp(c) PROVE EventIsNews(c)'
  <2>1. PICK t : t = [r EXCEPT !.pc = IF IsPointless(r.cause) THEN "skip" ELSE "load"]
    OBVIOUS
  <2>2. r.pc = "lookup" /\ Goto(c, t) /\ UNCHANGED processed
    BY <1>2, <1>8a, <2>1 DEF LookUp, At, TablesUnchanged
  <2>3. t.cause = r.cause /\ t.pc = IF IsPointless(r.cause) THEN "skip" ELSE "load"
    BY <1>3, <2>1 DEF Tx
  <2>4. TxIsNews(t)
    BY <1>3, <2>2, <2>3 DEF TxIsNews, Skipped
  <2> QED
    BY <1>1, <1>4, <1>5, <2>2, <2>4
<1>9. ASSUME NEW k \in Clerks, Submit(k) PROVE EventIsNews(c)'
  <2>1. PICK t : Goto(k, t) /\ UNCHANGED processed
    BY <1>9 DEF Submit, TablesUnchanged
  <2> QED
    BY <1>4, <1>5, <2>1, StockConstants DEF Writers
<1>10. ASSUME NEW v \in Workers, Scan(v) PROVE EventIsNews(c)'
  <2>1. PICK t : Goto(v, t) /\ UNCHANGED processed
    BY <1>10 DEF Scan, TablesUnchanged
  <2> QED
    BY <1>4, <1>5, <2>1, StockConstants DEF Writers
<1>11. ASSUME NEW u \in Writers, Load(u) \/ Select(u) \/ Update(u) PROVE EventIsNews(c)'
  <2>1. UNCHANGED processed
    BY <1>11 DEF Load, Select, Update, TablesUnchanged
  <2>2. CASE Finish(u)
    BY <1>4, <1>6, <2>1, <2>2
  <2>3. CASE ~Finish(u)
    <3>1. PICK s : s = tx[u]
      OBVIOUS
    <3>2. s \in Tx /\ s.pc \in {"load", "select", "update"}
      BY <1>1, <1>11, <3>1 DEF Load, Select, Update, MayWrite, At
    <3>3. \E t : /\ Goto(u, t) /\ t.cause = s.cause
                 /\ t.pc \in {"load", "select", "update"}
      <4>1. CASE Load(u)
        <5>1. PICK q, there, t :
                Goto(u, t) /\ t = [s EXCEPT !.pc = "select", !.read[q] = there]
          BY <2>3, <3>1, <4>1 DEF Load
        <5>2. t.cause = s.cause /\ t.pc \in {"load", "select", "update"}
          BY <3>2, <5>1 DEF Tx
        <5> QED
          BY <5>1, <5>2
      <4>2. CASE Select(u)
        <5>1. PICK q, there, t :
                Goto(u, t) /\ t = [s EXCEPT !.pc = "update", !.seen[q] = there]
          BY <3>1, <4>2 DEF Select
        <5>2. t.cause = s.cause /\ t.pc \in {"load", "select", "update"}
          BY <3>2, <5>1 DEF Tx
        <5> QED
          BY <5>1, <5>2
      <4>3. CASE Update(u)
        <5>1. PICK pc, t : /\ Goto(u, t) /\ pc \in {"load", "select"}
                           /\ t = [s EXCEPT !.next = @ + 1, !.pc = pc]
          BY <3>1, <4>3 DEF Update
        <5>2. t.cause = s.cause /\ t.pc \in {"load", "select", "update"}
          BY <3>2, <5>1 DEF Tx
        <5> QED
          BY <5>1, <5>2
      <4> QED
        BY <1>11, <4>1, <4>2, <4>3
    <3> QED
      BY <1>2, <1>3, <1>4, <1>5, <2>1, <3>1, <3>2, <3>3 DEF TxIsNews
  <2> QED
    BY <2>2, <2>3
<1>12. ASSUME NEW u \in Writers, Commit(u) PROVE EventIsNews(c)'
  <2>1. Finish(u)
    BY <1>12 DEF Commit
  <2>2. CASE u = c
    BY <1>1, <2>1, <2>2 DEF Finish, Goto, Idle, Begin, EventIsNews, TxIsNews
  <2>3. CASE u # c
    <3>1. u \notin Consumers
      BY <2>3
    <3>2. UNCHANGED processed
      BY <1>12, <3>1 DEF Commit
    <3> QED
      BY <1>4, <1>6, <2>1, <3>2
  <2> QED
    BY <2>2, <2>3
<1>13. ASSUME NEW u \in Writers, Rollback(u) PROVE EventIsNews(c)'
  BY <1>4, <1>6, <1>13 DEF Rollback, TablesUnchanged
<1>14. ASSUME Tick PROVE EventIsNews(c)'
  <2>1. tx'[c].pc = r.pc /\ tx'[c].cause = r.cause /\ UNCHANGED processed
    BY <1>1, <1>2, <1>3, <1>14 DEF Tick, Tx
  <2> QED
    BY <1>3, <1>4, <2>1 DEF TxIsNews
<1>15. ASSUME UNCHANGED stockVars PROVE EventIsNews(c)'
  BY <1>2, <1>3, <1>4, <1>15 DEF stockVars
<1>16. CASE StockNext
  <2>1. \A d \in Consumers : Receive(d) \/ LookUp(d) \/ Skip(d) => EventIsNews(c)'
    BY <1>7, <1>8, <1>8a
  <2>2. \A u \in Writers : Step(u) \/ Rollback(u) => EventIsNews(c)'
    BY <1>11, <1>12, <1>13 DEF Step
  <2> QED
    BY <1>9, <1>10, <1>14, <1>16, <2>1, <2>2 DEF StockNext
<1> QED
  BY <1>15, <1>16 DEF Next, vars

\* The effect of a commit on a sale: its consumer issues what was not issued, or
\* returns what was issued and not returned.
LEMMA CommitBooksSale ==
  ASSUME StockInv, SalesAreBooked, NEW w \in Writers, Commit(w), NEW x \in Sales
  PROVE  /\ SaleIsBooked(x)'
         /\ ~(w \in Consumers /\ tx[w].cause.aggregate = x) =>
              EffectOnStock(x)' = EffectOnStock(x)
         /\ w \in Consumers /\ tx[w].cause.aggregate = x /\ tx[w].kind = "issue" =>
              /\ MovesOf(x, "SALE_ISSUE") = {} /\ MovesOf(x, "SALE_REVERSION") = {}
              /\ MovesOf(x, "SALE_ISSUE")' # {} /\ MovesOf(x, "SALE_REVERSION")' = {}
              /\ EventsOn("SaleCompleted", x) # {}
         /\ w \in Consumers /\ tx[w].cause.aggregate = x /\ tx[w].kind # "issue" =>
              /\ MovesOf(x, "SALE_ISSUE") # {} /\ MovesOf(x, "SALE_REVERSION") = {}
              /\ MovesOf(x, "SALE_ISSUE")' # {} /\ MovesOf(x, "SALE_REVERSION")' # {}
              /\ \E e \in EventsOn("SaleCanceled", x) : e.previous = "COMPLETED"
<1>1. PICK t, e : t = tx[w] /\ e = t.cause
  OBVIOUS
<1>2. t \in Tx /\ TxIsSound(w, t) /\ t.pc = "update"
  BY <1>1, LineIsTyped DEF Commit, MayWrite, At
<1>3. processed' = IF w \in Consumers THEN processed \cup {e} ELSE processed
  BY <1>1 DEF Commit
<1>4. SaleIsBooked(x)
  BY DEF SalesAreBooked
<1>5. "SALE_ISSUE" \in SaleMoves /\ "SALE_REVERSION" \in SaleMoves
  BY DEF SaleMoves
<1>6. CASE ~(w \in Consumers /\ e.aggregate = x)
  <2>1. /\ MovesOf(x, "SALE_ISSUE")' = MovesOf(x, "SALE_ISSUE")
        /\ MovesOf(x, "SALE_REVERSION")' = MovesOf(x, "SALE_REVERSION")
        /\ \A n : MovedTimes(x, "SALE_ISSUE", n)' <=> MovedTimes(x, "SALE_ISSUE", n)
        /\ \A n : MovedTimes(x, "SALE_REVERSION", n)' <=> MovedTimes(x, "SALE_REVERSION", n)
    BY <1>1, <1>5, <1>6, CommittedMoves
  <2>2. \A name : Handled(name, x)' <=> Handled(name, x)
    BY <1>3, <1>6 DEF Handled
  <2>3. SaleIsBooked(x)'
    BY <1>4, <2>1, <2>2 DEF SaleIsBooked
  <2>4. EffectOnStock(x)' = EffectOnStock(x)
    BY <2>1 DEF EffectOnStock
  <2> QED
    BY <1>1, <1>6, <2>3, <2>4
<1>7. CASE w \in Consumers /\ e.aggregate = x
  <2>1. /\ e \in stored /\ e.name \in {"SaleCompleted", "SaleCanceled"}
        /\ t.kind = SaleEventKind[e.name]
    BY <1>1, <1>2, <1>7 DEF TxIsSound, ConsumerTx, Delivered, SaleEventKind
  <2>2. ~Skipped(e)
    BY <1>1, <1>2, <1>7 DEF SalesAreBooked, EventIsNews, TxIsNews
  <2>3. \A name : Handled(name, x)' <=> Handled(name, x) \/ e.name = name
    BY <1>3, <1>7 DEF Handled
  <2>4. CASE e.name = "SaleCompleted"
    <3>1. t.kind = "issue" /\ MovementType[t.kind] = "SALE_ISSUE"
      BY <2>1, <2>4 DEF SaleEventKind, MovementType
    <3>2. ~Handled("SaleCanceled", x) /\ ~Handled("SaleCompleted", x)
      BY <1>7, <2>2, <2>4 DEF Skipped, IsRepeated, IsPointless
    <3>3. MovesOf(x, "SALE_ISSUE") = {} /\ MovesOf(x, "SALE_REVERSION") = {}
      BY <1>4, <3>2 DEF SaleIsBooked
    <3>4. MovesOf(x, "SALE_ISSUE")' # {} /\ MovedTimes(x, "SALE_ISSUE", 1)'
      BY <1>1, <1>5, <1>7, <3>1, <3>3, CommittedMoves
    <3>5. MovesOf(x, "SALE_REVERSION")' = MovesOf(x, "SALE_REVERSION")
      BY <1>1, <1>5, <1>7, <3>1, CommittedMoves
    <3>6. SaleIsBooked(x)'
      BY <2>3, <2>4, <3>3, <3>4, <3>5 DEF SaleIsBooked
    <3>7. EventsOn("SaleCompleted", x) # {}
      BY <1>7, <2>1, <2>4 DEF EventsOn
    <3> QED
      BY <1>1, <1>7, <3>1, <3>3, <3>4, <3>5, <3>6, <3>7
  <2>5. CASE e.name = "SaleCanceled"
    <3>1. t.kind = "revert" /\ MovementType[t.kind] = "SALE_REVERSION"
      BY <2>1, <2>5 DEF SaleEventKind, MovementType
    <3>2. /\ ~Handled("SaleCanceled", x) /\ Handled("SaleCompleted", x)
          /\ e.previous = "COMPLETED"
      BY <1>7, <2>2, <2>5 DEF Skipped, IsRepeated, IsPointless
    <3>3. MovesOf(x, "SALE_ISSUE") # {} /\ MovesOf(x, "SALE_REVERSION") = {}
      BY <1>4, <3>2 DEF SaleIsBooked
    <3>4. MovesOf(x, "SALE_REVERSION")' # {} /\ MovedTimes(x, "SALE_REVERSION", 1)'
      BY <1>1, <1>5, <1>7, <3>1, <3>3, CommittedMoves
    <3>5. /\ MovesOf(x, "SALE_ISSUE")' = MovesOf(x, "SALE_ISSUE")
          /\ MovedTimes(x, "SALE_ISSUE", 1)' <=> MovedTimes(x, "SALE_ISSUE", 1)
      BY <1>1, <1>5, <1>7, <3>1, CommittedMoves
    <3>6. SaleIsBooked(x)'
      BY <1>4, <2>3, <2>5, <3>2, <3>3, <3>4, <3>5 DEF SaleIsBooked
    <3>7. \E f \in EventsOn("SaleCanceled", x) : f.previous = "COMPLETED"
      BY <1>7, <2>1, <2>5, <3>2 DEF EventsOn
    <3> QED
      BY <1>1, <1>7, <3>1, <3>3, <3>4, <3>5, <3>6, <3>7
  <2> QED
    BY <2>1, <2>4, <2>5
<1> QED
  BY <1>6, <1>7

LEMMA BookedStep ==
  ASSUME StockInv, SalesAreBooked, [Next]_vars, \A c, d \in Consumers : c = d
  PROVE  SalesAreBooked'
<1>1. \A c \in Consumers : EventIsNews(c)'
  BY EventsStayNews
<1>2. ASSUME NEW x \in Sales PROVE SaleIsBooked(x)'
  <2>1. CASE \E w \in Writers : Commit(w)
    BY <2>1, CommitBooksSale
  <2>2. CASE \A w \in Writers : ~Commit(w)
    <3>1. SaleIsBooked(x) /\ UNCHANGED movements
      BY <2>2, OtherSteps DEF SalesAreBooked
    <3>2. \A type, n : MovesOf(x, type)' = MovesOf(x, type)
                       /\ (MovedTimes(x, type, n)' <=> MovedTimes(x, type, n))
      BY <3>1 DEF MovesOf, MovedTimes, MovesOfLine
    <3>3. CASE \E c \in Consumers : Skip(c)
      <4>1. PICK e \in Delivered : Skipped(e) /\ processed' = processed \cup {e}
        BY <3>3, SkippedEvent
      <4>2. \A name : Handled(name, x) => Handled(name, x)'
        BY <4>1 DEF Handled
      <4>3. ASSUME Handled("SaleCompleted", x)'
            PROVE  Handled("SaleCompleted", x) \/ Handled("SaleCanceled", x)
        BY <4>1, <4>3 DEF Handled, Skipped, IsRepeated, IsPointless
      <4> QED
        BY <3>1, <3>2, <4>2, <4>3 DEF SaleIsBooked
    <3>4. CASE \A c \in Consumers : ~Skip(c)
      <4>1. UNCHANGED processed
        BY <2>2, <3>4, OtherSteps
      <4>2. \A name : Handled(name, x)' <=> Handled(name, x)
        BY <4>1 DEF Handled
      <4> QED
        BY <3>1, <3>2, <4>2 DEF SaleIsBooked
    <3> QED
      BY <3>3, <3>4
  <2> QED
    BY <2>1, <2>2
<1> QED
  BY <1>1, <1>2 DEF SalesAreBooked

LEMMA BookedInitially == Init => SalesAreBooked
<1> SUFFICES ASSUME Init PROVE SalesAreBooked
  OBVIOUS
<1>1. movements = <<>> /\ processed = {} /\ tx = [w \in Writers |-> Idle]
  BY DEF Init, StockInit
<1>2. \A x, type : MovesOf(x, type) = {}
  BY <1>1 DEF MovesOf
<1>3. \A x \in Sales : SaleIsBooked(x)
  BY <1>1, <1>2 DEF SaleIsBooked, Handled
<1>4. \A c \in Consumers : EventIsNews(c)
  BY <1>1 DEF EventIsNews, TxIsNews, Idle, Begin, Writers
<1> QED
  BY <1>3, <1>4 DEF SalesAreBooked

\* The instance of SaleBooks has the steps of checkout as they are.
LEMMA SameCheckout ==
  /\ CheckoutInit <=> Books!CheckoutInit
  /\ CheckoutNext <=> Books!CheckoutNext
<1>1. CheckoutInit <=> Books!CheckoutInit
  BY DEF CheckoutInit, Books!CheckoutInit
<1>2. \A name, a, s, previous :
        Store(name, a, s, previous) <=> Books!Store(name, a, s, previous)
  <2>1. \A S : Cardinality(S) = Books!Cardinality(S)
    BY DEF Cardinality, Books!Cardinality
  <2> QED
    BY <2>1 DEF Store, EventsOn, Books!Store, Books!EventsOn
<1>3. \A x, status : LoadedIn(x, status) <=> Books!LoadedIn(x, status)
  BY DEF LoadedIn, Usable, Books!LoadedIn, Books!Usable
<1>4. \A x, status : SaveStatus(x, status) <=> Books!SaveStatus(x, status)
  BY Zenon DEF SaveStatus, Books!SaveStatus
<1>5. \A s : (OpenSession(s) \/ CloseSession(s))
               <=> (Books!OpenSession(s) \/ Books!CloseSession(s))
  BY <1>2 DEF OpenSession, CloseSession, Usable,
       Books!OpenSession, Books!CloseSession, Books!Usable
<1>6. \A x, s : StartSale(x, s) <=> Books!StartSale(x, s)
  BY DEF StartSale, Usable, Books!StartSale, Books!Usable
<1>7. \A x : (ChangeCart(x) \/ PaySale(x)) <=> (Books!ChangeCart(x) \/ Books!PaySale(x))
  BY <1>3, <1>4 DEF ChangeCart, PaySale, Books!ChangeCart, Books!PaySale
<1>8. \A x : CompleteSale(x) <=> Books!CompleteSale(x)
  BY <1>2, <1>3, <1>4 DEF CompleteSale, Books!CompleteSale
<1>9. \A x : CancelSale(x) <=> Books!CancelSale(x)
  BY <1>2, <1>3, <1>4 DEF CancelSale, EventsOn, Books!CancelSale, Books!EventsOn
<1> QED
  BY <1>1, <1>5, <1>6, <1>7, <1>8, <1>9 DEF CheckoutNext, Books!CheckoutNext

\* Every step books a sale, undoes one, is one of checkout or changes no effect.
LEMMA StockStepIsAStepOfBooks ==
  ASSUME StockInv, SalesAreBooked, [Next]_vars, \A c, d \in Consumers : c = d
  PROVE  Books!BooksNext \/ UNCHANGED Books!booksVars
<1>1. PICK before, after : /\ before = [x \in Sales |-> EffectOnStock(x)]
                           /\ after = [x \in Sales |-> EffectOnStock(x)]'
  OBVIOUS
<1>2. ASSUME before = after, [CheckoutNext]_checkoutVars
      PROVE  Books!BooksNext \/ UNCHANGED Books!booksVars
  BY <1>1, <1>2, SameCheckout DEF Books!BooksNext, Books!booksVars, Books!checkoutVars, checkoutVars
<1>3. CASE \A w \in Writers : ~Commit(w)
  <2>1. UNCHANGED movements /\ [CheckoutNext]_checkoutVars
    BY <1>3, OtherSteps
  <2>2. \A x : EffectOnStock(x)' = EffectOnStock(x)
    BY <2>1 DEF EffectOnStock, MovedTimes, MovesOfLine, MovesOf
  <2> QED
    BY <1>1, <1>2, <2>1, <2>2
<1>4. ASSUME NEW w \in Writers, Commit(w)
      PROVE  Books!BooksNext \/ UNCHANGED Books!booksVars
  <2>1. UNCHANGED checkoutVars
    BY <1>4 DEF Commit
  <2>2. CASE w \notin Consumers
    <3>1. \A x \in Sales : EffectOnStock(x)' = EffectOnStock(x)
      BY <1>4, <2>2, CommitBooksSale
    <3> QED
      BY <1>1, <1>2, <2>1, <3>1
  <2>3. CASE w \in Consumers
    <3>1. PICK x : x = tx[w].cause.aggregate
      OBVIOUS
    <3>2. x \in Sales /\ tx[w].kind \in {"issue", "revert"}
      <4>1. tx[w] \in Tx /\ TxIsSound(w, tx[w]) /\ tx[w].pc = "update"
        BY <1>4, LineIsTyped DEF Commit, MayWrite, At
      <4> QED
        BY <2>3, <3>1, <4>1, KindOfWriter DEF TxIsSound, ConsumerTx
    <3>3. \A y \in Sales : y # x => EffectOnStock(y)' = EffectOnStock(y)
      BY <1>4, <3>1, CommitBooksSale
    <3>4. /\ EffectOnStock(x) = IF MovesOf(x, "SALE_ISSUE") = {} THEN "none"
                                ELSE IF MovesOf(x, "SALE_REVERSION") = {} THEN "booked"
                                ELSE "undone"
          /\ EffectOnStock(x)' = IF MovesOf(x, "SALE_ISSUE")' = {} THEN "none"
                                 ELSE IF MovesOf(x, "SALE_REVERSION")' = {} THEN "booked"
                                 ELSE "undone"
      <4>1. SaleIsBooked(x) /\ SaleIsBooked(x)'
        BY <1>4, <3>2, CommitBooksSale DEF SalesAreBooked
      <4>2. SaleIsBooked(x)' =>
              EffectOnStock(x)' = IF MovesOf(x, "SALE_ISSUE")' = {} THEN "none"
                                  ELSE IF MovesOf(x, "SALE_REVERSION")' = {} THEN "booked"
                                  ELSE "undone"
        BY <3>2, EffectWasBooked
      <4> QED
        BY <3>2, <4>1, <4>2, EffectIsBooked
    <3>5. CASE tx[w].kind = "issue"
      <4>1. /\ EffectOnStock(x) = "none" /\ EffectOnStock(x)' = "booked"
            /\ EventsOn("SaleCompleted", x) # {}
        BY <1>4, <2>3, <3>1, <3>2, <3>4, <3>5, CommitBooksSale
      <4>2. after = [before EXCEPT ![x] = "booked"] /\ before[x] = "none"
        BY <1>1, <3>2, <3>3, <4>1
      <4>3. Books!Book(x)
        BY <1>1, <2>1, <4>1, <4>2
           DEF Books!Book, Books!EventsOn, EventsOn, Books!checkoutVars, checkoutVars
      <4> QED
        BY <3>2, <4>3 DEF Books!BooksNext
    <3>6. CASE tx[w].kind = "revert"
      <4>1. /\ EffectOnStock(x) = "booked" /\ EffectOnStock(x)' = "undone"
            /\ \E e \in EventsOn("SaleCanceled", x) : e.previous = "COMPLETED"
        BY <1>4, <2>3, <3>1, <3>2, <3>4, <3>6, CommitBooksSale
      <4>2. after = [before EXCEPT ![x] = "undone"] /\ before[x] = "booked"
        BY <1>1, <3>2, <3>3, <4>1
      <4>3. Books!Undo(x)
        BY <1>1, <2>1, <4>1, <4>2
           DEF Books!Undo, Books!EventsOn, EventsOn, Books!checkoutVars, checkoutVars
      <4> QED
        BY <3>2, <4>3 DEF Books!BooksNext
    <3> QED
      BY <3>2, <3>5, <3>6
  <2> QED
    BY <2>2, <2>3
<1> QED
  BY <1>3, <1>4

LEMMA StockStartsAsBooks == Init => Books!BooksInit
<1> SUFFICES ASSUME Init PROVE Books!BooksInit
  OBVIOUS
<1>1. Books!CheckoutInit
  BY SameCheckout DEF Init
<1>2. \A x \in Sales : EffectOnStock(x) = "none"
  <2>1. SalesAreBooked /\ movements = <<>>
    BY BookedInitially DEF Init, StockInit
  <2>2. \A x : MovesOf(x, "SALE_ISSUE") = {}
    BY <2>1 DEF MovesOf
  <2> QED
    BY <2>1, <2>2, EffectIsBooked DEF SalesAreBooked
<1> QED
  BY <1>1, <1>2 DEF Books!BooksInit

\* With one consumer instance the stock of every sale is issued at most once and
\* returned at most once, all lines together, whatever the checkout stores, in
\* whichever order and how often its events come, and whatever rolls back.
THEOREM StockRefinesBooks ==
  ASSUME \A c, d \in Consumers : c = d
  PROVE  Spec => ImplementsBooks
<1>1. Init => StockInv /\ SalesAreBooked /\ Books!BooksInit
  BY StockInitially, BookedInitially, StockStartsAsBooks
<1>2. StockInv /\ SalesAreBooked /\ [Next]_vars => StockInv' /\ SalesAreBooked'
  BY StockStep, BookedStep
<1>3. StockInv /\ SalesAreBooked /\ [Next]_vars => [Books!BooksNext]_(Books!booksVars)
  BY StockStepIsAStepOfBooks
<1> QED
  BY <1>1, <1>2, <1>3, PTL DEF Spec, ImplementsBooks, Books!BooksSpec

-----------------------------------------------------------------------------
(* One consumer instance and requests that do not overlap: what the stock  *)
(* says of a sale does not depend on the order its events came in.         *)

\* Once its events are handled the stock of a sale is out exactly if the sale
\* stands completed.
StockIsRight(x) ==
  EventsOn("SaleCompleted", x) \cup EventsOn("SaleCanceled", x) \subseteq processed =>
    (EffectOnStock(x) = "booked" <=> sales[x].status = "COMPLETED")

\* A cancellation that was handled left nothing of the sale issued.
StockIsSettled ==
  \A x \in Sales :
    /\ RowMatchesEvents(x)
    /\ MovesOf(x, "SALE_ISSUE") # {} /\ Handled("SaleCanceled", x) =>
         MovesOf(x, "SALE_REVERSION") # {}

LEMMA StockSettles ==
  ASSUME StockInv, SalesAreBooked, StockIsSettled, [Next]_vars, ~Overlaps
  PROVE  StockIsSettled'
<1> SUFFICES ASSUME NEW x \in Sales
             PROVE  /\ RowMatchesEvents(x)'
                    /\ MovesOf(x, "SALE_ISSUE")' # {} /\ Handled("SaleCanceled", x)' =>
                         MovesOf(x, "SALE_REVERSION")' # {}
  BY DEF StockIsSettled
<1>1. [CheckoutNext]_checkoutVars
  BY OtherSteps DEF Commit
<1>2. RowMatchesEvents(x)'
  BY <1>1, RowStep DEF StockInv, StockIsSettled
<1>3. ASSUME NEW w \in Writers, Commit(w),
             MovesOf(x, "SALE_ISSUE")' # {}, Handled("SaleCanceled", x)'
      PROVE  MovesOf(x, "SALE_REVERSION")' # {}
  <2>1. SaleIsBooked(x)
    BY DEF SalesAreBooked
  <2>2. CASE ~(w \in Consumers /\ tx[w].cause.aggregate = x)
    <3>1. \A type \in SaleMoves : MovesOf(x, type)' = MovesOf(x, type)
      BY <1>3, <2>2, CommittedMoves
    <3>2. Handled("SaleCanceled", x)
      BY <1>3, <2>2 DEF Commit, Handled
    <3> QED
      BY <1>3, <3>1, <3>2 DEF StockIsSettled, SaleMoves
  <2>3. CASE w \in Consumers /\ tx[w].cause.aggregate = x
    <3>1. tx[w] \in Tx /\ TxIsSound(w, tx[w]) /\ tx[w].pc = "update"
      BY <1>3, LineIsTyped DEF Commit, MayWrite, At
    <3>2. CASE tx[w].kind = "issue"
      <4>1. /\ tx[w].cause.name = "SaleCompleted" /\ ~Skipped(tx[w].cause)
        BY <2>3, <3>1, <3>2 DEF TxIsSound, ConsumerTx, Delivered, SaleEventKind,
                               SalesAreBooked, EventIsNews, TxIsNews
      <4>2. ~Handled("SaleCanceled", x)
        BY <2>3, <4>1 DEF Skipped, IsPointless
      <4> QED
        BY <1>3, <2>3, <4>1, <4>2 DEF Commit, Handled
    <3>3. CASE tx[w].kind # "issue"
      BY <1>3, <2>3, <3>3, CommitBooksSale
    <3> QED
      BY <3>2, <3>3
  <2> QED
    BY <2>2, <2>3
<1>4. ASSUME \A w \in Writers : ~Commit(w),
             MovesOf(x, "SALE_ISSUE")' # {}, Handled("SaleCanceled", x)'
      PROVE  MovesOf(x, "SALE_REVERSION")' # {}
  <2>1. \A type : MovesOf(x, type)' = MovesOf(x, type)
    BY <1>4, OtherSteps DEF MovesOf
  <2>2. CASE \A c \in Consumers : ~Skip(c)
    <3>1. UNCHANGED processed
      BY <1>4, <2>2, OtherSteps
    <3> QED
      BY <1>4, <2>1, <3>1 DEF StockIsSettled, Handled
  <2>3. CASE \E c \in Consumers : Skip(c)
    <3>1. PICK e \in Delivered : Skipped(e) /\ processed' = processed \cup {e}
      BY <2>3, SkippedEvent
    <3>2. CASE Handled("SaleCanceled", x)
      BY <1>4, <2>1, <3>2 DEF StockIsSettled
    <3>3. CASE ~Handled("SaleCanceled", x)
      <4>1. e.name = "SaleCanceled" /\ e.aggregate = x /\ e \in stored
        BY <1>4, <3>1, <3>3 DEF Handled, Delivered
      <4>2. Handled("SaleCompleted", x)
        BY <1>4, <2>1 DEF SalesAreBooked, SaleIsBooked
      <4>3. EventsOn("SaleCompleted", x) # {}
        BY <4>2 DEF Handled, EventsOn, StockInv, TypeOK
      <4>4. e.previous = "COMPLETED"
        BY <4>1, <4>3 DEF StockIsSettled, RowMatchesEvents, EventsOn
      <4> QED
        BY <3>1, <3>3, <4>1, <4>2, <4>4 DEF Skipped, IsRepeated, IsPointless
    <3> QED
      BY <3>2, <3>3
  <2> QED
    BY <2>2, <2>3
<1> QED
  BY <1>2, <1>3, <1>4

LEMMA SettledIsRight ==
  ASSUME StockInv, SalesAreBooked, StockIsSettled, NEW x \in Sales
  PROVE  StockIsRight(x)
<1> SUFFICES ASSUME EventsOn("SaleCompleted", x) \cup EventsOn("SaleCanceled", x)
                      \subseteq processed
             PROVE  EffectOnStock(x) = "booked" <=> sales[x].status = "COMPLETED"
  BY DEF StockIsRight
<1>1. SaleIsBooked(x) /\ RowMatchesEvents(x)
  BY DEF SalesAreBooked, StockIsSettled
<1>2. ASSUME NEW name \in {"SaleCompleted", "SaleCanceled"}
      PROVE  Handled(name, x) <=> EventsOn(name, x) # {}
  <2>1. Handled(name, x) => EventsOn(name, x) # {}
    BY DEF Handled, EventsOn, StockInv, TypeOK
  <2>2. EventsOn(name, x) # {} => Handled(name, x)
    BY DEF Handled, EventsOn
  <2> QED
    BY <2>1, <2>2
<1>3. EffectOnStock(x) = "booked" <=>
        MovesOf(x, "SALE_ISSUE") # {} /\ MovesOf(x, "SALE_REVERSION") = {}
  BY <1>1, EffectIsBooked
<1>4. CASE sales[x].status = "COMPLETED"
  <2>1. Handled("SaleCompleted", x) /\ ~Handled("SaleCanceled", x)
    BY <1>1, <1>2, <1>4 DEF RowMatchesEvents
  <2> QED
    BY <1>1, <1>3, <1>4, <2>1 DEF SaleIsBooked
<1>5. CASE sales[x].status # "COMPLETED"
  <2>1. MovesOf(x, "SALE_ISSUE") # {} => Handled("SaleCanceled", x)
    BY <1>1, <1>2, <1>5 DEF SaleIsBooked, RowMatchesEvents
  <2>2. MovesOf(x, "SALE_ISSUE") # {} => MovesOf(x, "SALE_REVERSION") # {}
    BY <2>1 DEF StockIsSettled
  <2> QED
    BY <1>3, <1>5, <2>2
<1> QED
  BY <1>4, <1>5

LEMMA StockSettledInitially == Init => StockIsSettled
<1> SUFFICES ASSUME Init PROVE StockIsSettled
  OBVIOUS
<1>1. \A x \in Sales : RowMatchesEvents(x)
  BY RowInitially DEF Init
<1>2. \A x \in Sales : ~Handled("SaleCanceled", x)
  BY DEF Init, StockInit, Handled
<1> QED
  BY <1>1, <1>2 DEF StockIsSettled

\* Whatever the order in which the completion and the cancellation of a sale
\* reach the one instance of the consumer, and however often, its stock is out
\* exactly if the sale is completed.
THEOREM SettledStockIsRight ==
  ASSUME ~Overlaps, \A c, d \in Consumers : c = d
  PROVE  Spec => [](\A x \in Sales : StockIsRight(x))
<1>1. Init => StockInv /\ SalesAreBooked /\ StockIsSettled
  BY StockInitially, BookedInitially, StockSettledInitially
<1>2. StockInv /\ SalesAreBooked /\ StockIsSettled /\ [Next]_vars =>
        StockInv' /\ SalesAreBooked' /\ StockIsSettled'
  BY StockStep, BookedStep, StockSettles
<1>3. StockInv /\ SalesAreBooked /\ StockIsSettled => \A x \in Sales : StockIsRight(x)
  BY SettledIsRight
<1> QED
  BY <1>1, <1>2, <1>3, PTL DEF Spec
=============================================================================
