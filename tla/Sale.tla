-------------------------------- MODULE Sale --------------------------------
(***************************************************************************)
(* The Sale aggregate of the checkout service, as pure operators: the      *)
(* shape of a sale, its totals, what each domain method does to it and     *)
(* when the method throws instead, and the check every load from the       *)
(* database goes through (assertConsistentTotals).                         *)
(*                                                                         *)
(* Money is counted in cents, so roundMoney is exact and does not appear.  *)
(* changeAmount and paidAt are written with paidAmount and null when it is *)
(* null: pay has the payment method and the paid amount.                   *)
(* completedAt, and canceledAt with cancellationReason, are kept as        *)
(* whether they are null.  Names, units and timestamps are left out.       *)
(***************************************************************************)
EXTENDS Integers, FiniteSetsExt

CONSTANTS
  Sessions,   \* ids of POS sessions
  Products,   \* ids of products a cart can hold
  Prices,     \* unit prices a catalog item can carry
  MaxQty,     \* bound: the largest quantity of one cart line
  MaxPaid     \* bound: the largest amount a customer hands over

ASSUME SaleConstants ==
  /\ Prices \subseteq Nat \ {0}
  /\ MaxQty \in Nat \ {0}
  /\ MaxPaid \in Nat

Methods == {"CASH", "CARD"}   \* CARD stands for every method that is not cash
Status  == {"OPEN", "PAID", "COMPLETED", "CANCELED"}

(***************************************************************************)
(* A cart has one line per product; a product that is not in the cart has  *)
(* quantity 0.  The unit price is the one of the moment the line was       *)
(* created.                                                                *)
(***************************************************************************)
NoLine == [qty |-> 0, price |-> 0]
Line   == {NoLine} \cup [qty: 1..MaxQty, price: Prices]
Carts  == [Products -> Line]
EmptyCart == [p \in Products |-> NoLine]

TotalItemsQuantity(cart) == MapThenSumSet(LAMBDA p : cart[p].qty, Products)
Subtotal(cart) == MapThenSumSet(LAMBDA p : cart[p].qty * cart[p].price, Products)

Quantities == {TotalItemsQuantity(cart) : cart \in Carts}
Totals     == {Subtotal(cart) : cart \in Carts}

NoPay     == [method |-> "NONE", paid |-> 0]   \* the columns are null
Payment   == [method: Methods, paid: 1..MaxPaid]
PayColumn == [method: Methods \cup {"NONE"}, paid: 0..MaxPaid]
IsPaid(pay) == pay.method # "NONE" /\ pay.paid # 0

\* A row of table sales together with its rows of table sale_items.
SaleRow ==
  [session: Sessions, status: Status, qty: Quantities, total: Totals,
   pay: PayColumn, completedAt: BOOLEAN, canceledAt: BOOLEAN, items: Carts]

-----------------------------------------------------------------------------
(* The methods of the aggregate.                                           *)

Start(s) ==
  [session |-> s, status |-> "OPEN",
   qty |-> TotalItemsQuantity(EmptyCart), total |-> Subtotal(EmptyCart),
   pay |-> NoPay, completedAt |-> FALSE, canceledAt |-> FALSE,
   items |-> EmptyCart]

IsOpen(sale) == sale.status = "OPEN"

\* Mutant: the quantity is not recalculated.
QuantityForgotten(sale, cart) ==
  [sale EXCEPT !.items = cart, !.total = Subtotal(cart)]

RecalculateTotals(sale, cart) ==
  [sale EXCEPT !.items = cart,
               !.qty   = TotalItemsQuantity(cart),
               !.total = Subtotal(cart)]

\* A second scan of a product raises the quantity of its line and leaves the
\* unit price of the line alone, whatever the catalog says by now.
AddItem(sale, p, n, price) ==
  LET line == sale.items[p]
  IN  RecalculateTotals(sale,
        [sale.items EXCEPT ![p] =
           [qty   |-> line.qty + n,
            price |-> IF line.qty = 0 THEN price ELSE line.price]])

\* Mutant: a scan does not ask whether the sale is still open.
AddToAnySale(sale, p, n) == sale.items[p].qty + n <= MaxQty

CanAddItem(sale, p, n) == IsOpen(sale) /\ sale.items[p].qty + n <= MaxQty

RemoveItem(sale, p, n) ==
  LET line == sale.items[p]
  IN  RecalculateTotals(sale,
        [sale.items EXCEPT ![p] =
           IF line.qty = n THEN NoLine ELSE [line EXCEPT !.qty = @ - n]])

\* Mutants: a line is removed from a sale that is not open; or more than the
\* line holds is removed from it.
RemoveFromAnySale(sale, p, n) == n <= sale.items[p].qty
RemoveAnyQuantity(sale, p, n) == IsOpen(sale)

CanRemoveItem(sale, p, n) == IsOpen(sale) /\ n <= sale.items[p].qty

CartIsEmpty(sale) == sale.qty = 0 \/ sale.total <= 0

\* Cash may exceed the total (the rest is change); anything else must match it.
Covers(pay, total) ==
  IF pay.method = "CASH" THEN pay.paid >= total ELSE pay.paid = total

\* Mutant: a sale can be paid again.
PayAgain(sale, pay) == ~CartIsEmpty(sale) /\ Covers(pay, sale.total)

CanRegisterPayment(sale, pay) ==
  IsOpen(sale) /\ ~CartIsEmpty(sale) /\ Covers(pay, sale.total)

RegisterPayment(sale, pay) == [sale EXCEPT !.pay = pay, !.status = "PAID"]

\* Mutant: any sale with a payment can be completed, whatever its status.
CompleteAgain(sale) == IsPaid(sale.pay) /\ ~CartIsEmpty(sale)

CanComplete(sale) ==
  sale.status = "PAID" /\ IsPaid(sale.pay) /\ ~CartIsEmpty(sale)

Complete(sale) == [sale EXCEPT !.status = "COMPLETED", !.completedAt = TRUE]

CanCancel(sale, approved) ==
  sale.status # "CANCELED" /\ (IsOpen(sale) \/ approved)

Cancel(sale) == [sale EXCEPT !.status = "CANCELED", !.canceledAt = TRUE]

-----------------------------------------------------------------------------
(***************************************************************************)
(* Sale.rehydrate ends in assertConsistentTotals: a row that fails it can  *)
(* not be loaded, so no request can act on the sale any more.              *)
(***************************************************************************)
TotalsAddUp(sale) ==
  /\ sale.qty = TotalItemsQuantity(sale.items)
  /\ sale.total = Subtotal(sale.items)

DatesFitStatus(sale) ==
  CASE sale.status = "OPEN" ->
         sale.pay = NoPay /\ ~sale.completedAt /\ ~sale.canceledAt
    [] sale.status = "CANCELED" ->
         /\ sale.canceledAt
         /\ (sale.pay = NoPay /\ ~sale.completedAt) \/ IsPaid(sale.pay)
    [] OTHER ->
         /\ IsPaid(sale.pay)
         /\ sale.completedAt <=> sale.status = "COMPLETED"
         /\ ~sale.canceledAt

\* Mutant: a load does not compare the totals with the items.
ConsistentDates(sale) == DatesFitStatus(sale)

Consistent(sale) == TotalsAddUp(sale) /\ DatesFitStatus(sale)

\* What registerPayment promised and completion relies on.
PaymentCoversTotal(sale) == IsPaid(sale.pay) => Covers(sale.pay, sale.total)
=============================================================================
