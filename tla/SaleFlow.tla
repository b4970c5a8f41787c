------------------------------ MODULE SaleFlow ------------------------------
(***************************************************************************)
(* The three services together: the events the checkout service stores     *)
(* move stock in the inventory service and book revenue in the management  *)
(* service, each through a consumer of its own, and the losses that the    *)
(* inventory service records are expensed by the management service.       *)
(***************************************************************************)
EXTENDS SaleEvents, SequencesExt

CONSTANTS
  Products, Cooldown, Items, Consumers, Clerks, Documents, MaxDocuments,
  Workers, ByBarcode, AlertLimit,                  \* see InventoryStock
  Accountants, Amount, InCash, Day, OpeningFloat, Prices  \* see ManagementLedger

VARIABLES
  items, movements, processed, invoices, tx, lastAlert, overtaken,
  prices, entries, daily, reconciliations, losses, booked, job

Stock == INSTANCE InventoryStock

\* register-inventory-loss stores its event with the movement of the loss.
LossEventOf(i) ==
  [name |-> "InventoryLossRegistered", aggregate |-> movements[i].product,
   quantity |-> -movements[i].delta, day |-> 1, id |-> i]

LossEvents ==
  {LossEventOf(i) : i \in {j \in DOMAIN movements : movements[j].type = "LOSS"}}

Ledger == INSTANCE ManagementLedger WITH lossEvents <- LossEvents

\* What the two modules assume of their constants.
ASSUME FlowConstants ==
  /\ Cooldown \in Nat \ {0} /\ IsFiniteSet(Products)
  /\ Items \in [Sales -> Seq(Stock!LineType) \ {<<>>}]
  /\ \A x \in Sales : \A i \in DOMAIN Items[x] : Items[x][i].quantity > 0
  /\ \A x \in Sales : \A i, j \in DOMAIN Items[x] :
       Items[x][i].product = Items[x][j].product => i = j
  /\ \A doc \in Documents : Stock!IsDocument(doc)
  /\ ToSet(ByBarcode) = Products
  /\ Consumers \cap Clerks = {} /\ (Consumers \cup Clerks) \cap Workers = {}
  /\ Amount \in [Sales -> Nat \ {0}] /\ Day \in [Sales -> Nat]
  /\ InCash \in [Sales -> BOOLEAN] /\ OpeningFloat \in [Sessions -> Nat]
  /\ Prices \subseteq Nat \ {0}

stockVars  == <<items, movements, processed, invoices, tx, lastAlert, overtaken>>
ledgerVars == <<prices, entries, daily, reconciliations, losses, booked, job>>
vars       == <<checkoutVars, stockVars, ledgerVars>>

-----------------------------------------------------------------------------
Init == CheckoutInit /\ Stock!StockInit /\ Ledger!LedgerInit

CheckoutStep ==
  /\ CheckoutNext
  /\ UNCHANGED <<stockVars, ledgerVars>>

StockStep == Stock!StockNext /\ UNCHANGED ledgerVars

LedgerStep == UNCHANGED stockVars /\ Ledger!LedgerNext

Next == CheckoutStep \/ StockStep \/ LedgerStep

Spec == Init /\ [][Next]_vars

\* A consumer reads on, takes up every message again until it is handled, and
\* at some time its transactions only fail for a clash; a request ends, one way or the
\* other; products get registered.
Fairness ==
  /\ \A c \in Consumers :
       WF_vars(/\ \/ Stock!Receive(c) \/ Stock!LookUp(c) \/ Stock!Skip(c)
                  \/ Stock!Step(c) \/ Stock!Clash(c)
               /\ UNCHANGED ledgerVars)
  /\ \A k \in Clerks :
       WF_vars((Stock!Step(k) \/ Stock!Rollback(k)) /\ UNCHANGED ledgerVars)
  /\ \A l \in Accountants :
       WF_vars(/\ UNCHANGED stockVars
               /\ Ledger!Take(l) \/ Ledger!LookUp(l) \/ Ledger!Write(l))
  /\ \A p \in Products :
       WF_vars(prices[p] = 0 /\ UNCHANGED stockVars /\ Ledger!PriceProduct(p))
  /\ <>[][/\ \A c \in Consumers : Stock!Rollback(c) => Stock!Clash(c)
          /\ \A l \in Accountants : ~Ledger!Abort(l)]_vars

FairSpec == Spec /\ Fairness

-----------------------------------------------------------------------------
(* Properties.                                                             *)

\* Type invariant of the three services.
TypeOK == Stock!TypeOK /\ Ledger!LedgerTypeOK

\* The stock is one of the books SaleBooks speaks of, with documents, losses
\* and faults in between; see ManagementLedger for the other.
StockImplementsBooks == Stock!ImplementsBooks

\* When both services have handled the events of a sale, in whichever orders,
\* they agree about it with each other and with the checkout: stock is out and
\* revenue is in if and only if the sale is completed and was not canceled.
BooksAgree ==
  \A x \in Sales :
    EventsOn("SaleCompleted", x) \cup EventsOn("SaleCanceled", x)
      \subseteq processed \cap booked
    => /\ Stock!EffectOnStock(x) = "booked" <=> sales[x].status = "COMPLETED"
       /\ Ledger!EffectOnLedger(x) = "booked" <=> sales[x].status = "COMPLETED"

\* See ManagementLedger.
ReportMatchesSales       == Ledger!ReportMatchesSales
ClosureAfterSalesIsRight == Ledger!ClosureAfterSalesIsRight

\* Every event is handled by everyone who consumes it: no handler throws on a
\* message for ever, whatever came before it.
EventsAreHandled ==
  []<>(Stock!Delivered \subseteq processed /\ stored \cup LossEvents \subseteq booked)
=============================================================================
