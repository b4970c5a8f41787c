----------------------------- MODULE StockItem ------------------------------
(***************************************************************************)
(* The domain objects of the inventory service as pure operators: the row  *)
(* of inventory_items with what each method of InventoryItem does to it,   *)
(* the stock movement each method is recorded with, and the documents      *)
(* (losses, counts, supplier invoices) a request can carry.                *)
(*                                                                         *)
(* Costs are in cents.  Of lastLowStockAlertAt the time since it is kept,  *)
(* counted up to the cooldown: that is all the code asks of it.  Names,    *)
(* barcodes, units and timestamps are left out.                            *)
(***************************************************************************)
EXTENDS Integers, SequencesExt

CONSTANTS
  Products,  \* ids of products
  Cooldown   \* minutes of LOW_STOCK_ALERT_COOLDOWN_MINUTES, in ticks

ASSUME StockItemConstants == Cooldown \in Nat \ {0} /\ IsFiniteSet(Products)

NoCost == 0            \* averageUnitCost is null
Never  == Cooldown + 1 \* lastLowStockAlertAt is null
Unset  == -1           \* minimumThreshold is undefined

NoItem  == [onHand |-> "none"]
ItemRow == [onHand: Int, threshold: Nat, cost: Nat, alert: 0..Never]

Initialize == [onHand |-> 0, threshold |-> 0, cost |-> NoCost, alert |-> Never]

-----------------------------------------------------------------------------
IsBelowMinimumThreshold(item) ==
  item.threshold > 0 /\ item.onHand <= item.threshold

RefreshLowStockAlertState(item) ==
  IF IsBelowMinimumThreshold(item) THEN item ELSE [item EXCEPT !.alert = Never]

\* Mutant: a new cost is averaged in whatever the stock on hand is.
AlwaysWeighted(item, quantity, unitCost) ==
  IF item.cost = NoCost \/ item.onHand + quantity = 0
  THEN unitCost
  ELSE (2 * (item.onHand * item.cost + quantity * unitCost)
          + (item.onHand + quantity)) \div (2 * (item.onHand + quantity))

\* The average of stock and receipt, rounded to the cent; the receipt alone
\* when there is no stock (or less than none) it could be averaged with.
AverageUnitCost(item, quantity, unitCost) ==
  IF item.cost = NoCost \/ item.onHand <= 0
  THEN unitCost
  ELSE LET next == item.onHand + quantity
       IN  (2 * (item.onHand * item.cost + quantity * unitCost) + next)
             \div (2 * next)

ReceiveStock(item, quantity, unitCost) ==
  RefreshLowStockAlertState(
    [item EXCEPT !.cost = AverageUnitCost(item, quantity, unitCost),
                 !.onHand = @ + quantity])

\* Mutant: an alert is forgotten at every sale.
IssueForgetsAlert(item, quantity) ==
  [item EXCEPT !.onHand = @ - quantity, !.alert = Never]

IssueSale(item, quantity) ==
  RefreshLowStockAlertState([item EXCEPT !.onHand = @ - quantity])

RevertSaleIssue(item, quantity) ==
  RefreshLowStockAlertState([item EXCEPT !.onHand = @ + quantity])

RegisterLoss(item, quantity) ==
  RefreshLowStockAlertState([item EXCEPT !.onHand = @ - quantity])

\* A count need not name a threshold.
ApplyPhysicalCount(item, counted, minimumThreshold) ==
  RefreshLowStockAlertState(
    [item EXCEPT !.onHand = counted,
                 !.threshold = IF minimumThreshold = Unset THEN @
                               ELSE minimumThreshold])

\* Mutant: low stock is announced once, until it recovers.
EmitOnce(item) == IsBelowMinimumThreshold(item) /\ item.alert = Never

\* alert counts up to Cooldown: reaching it is lastLowStockAlertAt <= cutoff.
ShouldEmitLowStockAlert(item) ==
  IsBelowMinimumThreshold(item) /\ item.alert >= Cooldown

MarkLowStockAlertEmitted(item, age) == [item EXCEPT !.alert = age]

-----------------------------------------------------------------------------
(***************************************************************************)
(* One line of a transaction on the stock: a product with the quantity     *)
(* sold, lost, counted or received, the unit cost of a receipt and the     *)
(* minimum threshold of a count.                                           *)
(***************************************************************************)
LineType ==
  [product: Products, quantity: Nat, unitCost: Nat, threshold: Nat \cup {Unset}]

LineOf(p, n) ==
  [product |-> p, quantity |-> n, unitCost |-> 0, threshold |-> Unset]

Loss(p, n) == [kind |-> "loss", reference |-> "none", lines |-> <<LineOf(p, n)>>]
Count(p, counted, minimum) ==
  [kind |-> "count", reference |-> "none",
   lines |-> <<[LineOf(p, counted) EXCEPT !.threshold = minimum]>>]
Receipt(p, n, unitCost) == [LineOf(p, n) EXCEPT !.unitCost = unitCost]
Invoice(reference, receipts) ==
  [kind |-> "invoice", reference |-> reference, lines |-> receipts]

\* assertUniqueProductIds, and the positive quantities and costs of the lines.
IsInvoice(doc) ==
  /\ doc.lines # <<>>
  /\ \A i, j \in DOMAIN doc.lines :
       doc.lines[i].product = doc.lines[j].product => i = j
  /\ \A i \in DOMAIN doc.lines :
       doc.lines[i].quantity > 0 /\ doc.lines[i].unitCost > 0

\* A loss and a count are of one product; a loss has a positive quantity.
IsDocument(doc) ==
  /\ doc.kind \in {"loss", "count", "invoice"}
  /\ doc.lines \in Seq(LineType)
  /\ doc.kind \in {"loss", "count"} => Len(doc.lines) = 1
  /\ doc.kind = "loss" => doc.lines[1].quantity > 0
  /\ doc.kind = "invoice" => IsInvoice(doc)

Applied(kind, item, line) ==
  CASE kind = "issue"   -> IssueSale(item, line.quantity)
    [] kind = "revert"  -> RevertSaleIssue(item, line.quantity)
    [] kind = "loss"    -> RegisterLoss(item, line.quantity)
    [] kind = "count"   -> ApplyPhysicalCount(item, line.quantity, line.threshold)
    [] kind = "invoice" -> ReceiveStock(item, line.quantity, line.unitCost)

MovementType ==
  [issue   |-> "SALE_ISSUE", revert |-> "SALE_REVERSION", loss |-> "LOSS",
   invoice |-> "RECEIPT",    count  |-> "PHYSICAL_ADJUSTMENT"]

\* Mutant: what leaves the stock is recorded as what comes in.
UnsignedDelta(kind, item, line) ==
  IF kind = "count" THEN line.quantity - item.onHand ELSE line.quantity

\* quantityDelta of the movement: signed by its type; the applied delta of a count.
QuantityDelta(kind, item, line) ==
  CASE kind \in {"issue", "loss"}     -> -line.quantity
    [] kind \in {"revert", "invoice"} -> line.quantity
    [] kind = "count"                 -> line.quantity - item.onHand

\* A movement as StockMovement.rehydrate takes it.
MovementIsWellFormed(m) ==
  CASE m.type \in {"SALE_ISSUE", "LOSS"}        -> m.delta < 0
    [] m.type \in {"SALE_REVERSION", "RECEIPT"} -> m.delta > 0
    [] m.type = "PHYSICAL_ADJUSTMENT"           -> m.delta # 0
=============================================================================
