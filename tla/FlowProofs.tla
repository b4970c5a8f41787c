----------------------------- MODULE FlowProofs -----------------------------
(***************************************************************************)
(* The three services together: a step of the composition is a step of the *)
(* inventory service and a step of the ledger, as their own proofs know    *)
(* them, so their invariants hold side by side; and when both consumers    *)
(* have handled the events of a sale, the two books agree about it.        *)
(*                                                                         *)
(* What SaleFlow takes from the two modules and what their proofs speak of *)
(* are instances of the same definitions: the first lemmas say so, by      *)
(* expanding both.                                                         *)
(***************************************************************************)
EXTENDS SaleFlow, TLAPS

SP == INSTANCE StockProofs
LP == INSTANCE LedgerProofs WITH lossEvents <- LossEvents

-----------------------------------------------------------------------------
(* The definitions are the same.                                           *)

LEMMA SameCheckout ==
  /\ (CheckoutInit <=> SP!CheckoutInit) /\ (CheckoutNext <=> SP!CheckoutNext)
  /\ (CheckoutInit <=> LP!CheckoutInit) /\ (CheckoutNext <=> LP!CheckoutNext)
  /\ checkoutVars = SP!checkoutVars /\ checkoutVars = LP!checkoutVars
BY Zenon DEF
  CancelSale, SP!CancelSale, LP!CancelSale, ChangeCart, SP!ChangeCart,
  LP!ChangeCart, CheckoutInit, SP!CheckoutInit, LP!CheckoutInit,
  CheckoutNext, SP!CheckoutNext, LP!CheckoutNext, CloseSession,
  SP!CloseSession, LP!CloseSession, CompleteSale, SP!CompleteSale,
  LP!CompleteSale, EventsOn, SP!EventsOn, LP!EventsOn, LoadedIn,
  SP!LoadedIn, LP!LoadedIn, OpenSession, SP!OpenSession, LP!OpenSession,
  PaySale, SP!PaySale, LP!PaySale, SaveStatus, SP!SaveStatus, LP!SaveStatus,
  StartSale, SP!StartSale, LP!StartSale, Store, SP!Store, LP!Store, Usable,
  SP!Usable, LP!Usable, checkoutVars, SP!checkoutVars, LP!checkoutVars,
  Cardinality, SP!Cardinality, LP!Cardinality

LEMMA SameStock ==
  /\ Stock!StockInit <=> SP!StockInit
  /\ Stock!StockNext <=> SP!StockNext
<1> USE DEF
  Stock!Aged, SP!Aged, Stock!Applied, SP!Applied, Stock!ApplyPhysicalCount,
  SP!ApplyPhysicalCount, Stock!At, SP!At, Stock!AverageUnitCost,
  SP!AverageUnitCost, Stock!Before, SP!Before, Stock!Begin, SP!Begin,
  Stock!Commit, SP!Commit, Stock!Copy, SP!Copy, Stock!Delivered,
  SP!Delivered, Stock!FindLowStockCandidates, SP!FindLowStockCandidates,
  Stock!Finish, SP!Finish, Stock!Found, SP!Found, Stock!Goto, SP!Goto,
  Stock!Handled, SP!Handled, Stock!Idle, SP!Idle, Stock!InOrder, SP!InOrder,
  Stock!Initialize, SP!Initialize, Stock!IsBelowMinimumThreshold,
  SP!IsBelowMinimumThreshold, Stock!IssueSale, SP!IssueSale, Stock!LastLine,
  SP!LastLine, Stock!Limited, SP!Limited, Stock!Line, SP!Line, Stock!LineOf,
  SP!LineOf, Stock!Load, SP!Load, Stock!Locked, SP!Locked, Stock!Low,
  SP!Low, Stock!MarkLowStockAlertEmitted, SP!MarkLowStockAlertEmitted,
  Stock!MayInsert, SP!MayInsert, Stock!MayWrite, SP!MayWrite, Stock!Merge,
  SP!Merge, Stock!MovementOf, SP!MovementOf, Stock!MovementType,
  SP!MovementType, Stock!MovementsOf, SP!MovementsOf, Stock!Never, SP!Never,
  Stock!NoCost, SP!NoCost, Stock!NoItem, SP!NoItem, Stock!OfDocument,
  SP!OfDocument, Stock!Older, SP!Older, Stock!Overtaken, SP!Overtaken,
  Stock!Product, SP!Product, Stock!ProductsOf, SP!ProductsOf,
  Stock!QuantityDelta, SP!QuantityDelta, Stock!Receive, SP!Receive,
  Stock!ReceiveStock, SP!ReceiveStock, Stock!RefreshLowStockAlertState,
  SP!RefreshLowStockAlertState, Stock!RegisterLoss, SP!RegisterLoss,
  Stock!Remembered, SP!Remembered, Stock!RevertSaleIssue,
  SP!RevertSaleIssue, Stock!Rollback, SP!Rollback, Stock!RoomForDocument,
  SP!RoomForDocument, Stock!Rows, SP!Rows, Stock!SaleEventKind,
  SP!SaleEventKind, Stock!Saved, SP!Saved, Stock!Scan, SP!Scan,
  Stock!Select, SP!Select, Stock!ShouldEmitLowStockAlert,
  SP!ShouldEmitLowStockAlert, Stock!Skip, SP!Skip, Stock!IsRepeated,
  SP!IsRepeated, Stock!IsPointless, SP!IsPointless, Stock!LookUp, SP!LookUp,
  Stock!Step, SP!Step, Stock!StockInit, SP!StockInit,
  Stock!Submit, SP!Submit, Stock!TablesUnchanged, SP!TablesUnchanged,
  Stock!Throws, SP!Throws, Stock!Tick, SP!Tick, Stock!Unset, SP!Unset,
  Stock!Update, SP!Update, Stock!Writers, SP!Writers, Stock!checkoutVars,
  SP!checkoutVars, Stock!Cardinality, SP!Cardinality, Stock!ToSet, SP!ToSet
<1>1. ASSUME NEW c PROVE Stock!Receive(c) <=> SP!Receive(c)
  BY Zenon
<1>2. ASSUME NEW c PROVE Stock!Skip(c) <=> SP!Skip(c)
  BY Zenon
<1>3. ASSUME NEW k PROVE Stock!Submit(k) <=> SP!Submit(k)
  BY Zenon
<1>4. ASSUME NEW v PROVE Stock!Scan(v) <=> SP!Scan(v)
  BY Zenon
<1>5. ASSUME NEW w PROVE Stock!Load(w) <=> SP!Load(w)
  BY Zenon
<1>6. ASSUME NEW w PROVE Stock!Select(w) <=> SP!Select(w)
  BY Zenon
<1>7. ASSUME NEW w PROVE Stock!Update(w) <=> SP!Update(w)
  BY Zenon
<1>8. ASSUME NEW w PROVE Stock!Commit(w) <=> SP!Commit(w)
  BY Zenon
<1>9. ASSUME NEW w PROVE Stock!Rollback(w) <=> SP!Rollback(w)
  BY Zenon
<1>10. Stock!Tick <=> SP!Tick
  BY Zenon
<1>11. Stock!StockInit <=> SP!StockInit
  BY Zenon
<1>12. ASSUME NEW c PROVE Stock!LookUp(c) <=> SP!LookUp(c)
  BY Zenon
<1> QED
  <2> HIDE DEF
  Stock!Aged, SP!Aged, Stock!Applied, SP!Applied, Stock!ApplyPhysicalCount,
  SP!ApplyPhysicalCount, Stock!At, SP!At, Stock!AverageUnitCost,
  SP!AverageUnitCost, Stock!Before, SP!Before, Stock!Begin, SP!Begin,
  Stock!Commit, SP!Commit, Stock!Copy, SP!Copy, Stock!Delivered,
  SP!Delivered, Stock!FindLowStockCandidates, SP!FindLowStockCandidates,
  Stock!Finish, SP!Finish, Stock!Found, SP!Found, Stock!Goto, SP!Goto,
  Stock!Handled, SP!Handled, Stock!Idle, SP!Idle, Stock!InOrder, SP!InOrder,
  Stock!Initialize, SP!Initialize, Stock!IsBelowMinimumThreshold,
  SP!IsBelowMinimumThreshold, Stock!IssueSale, SP!IssueSale, Stock!LastLine,
  SP!LastLine, Stock!Limited, SP!Limited, Stock!Line, SP!Line, Stock!LineOf,
  SP!LineOf, Stock!Load, SP!Load, Stock!Locked, SP!Locked, Stock!Low,
  SP!Low, Stock!MarkLowStockAlertEmitted, SP!MarkLowStockAlertEmitted,
  Stock!MayInsert, SP!MayInsert, Stock!MayWrite, SP!MayWrite, Stock!Merge,
  SP!Merge, Stock!MovementOf, SP!MovementOf, Stock!MovementType,
  SP!MovementType, Stock!MovementsOf, SP!MovementsOf, Stock!Never, SP!Never,
  Stock!NoCost, SP!NoCost, Stock!NoItem, SP!NoItem, Stock!OfDocument,
  SP!OfDocument, Stock!Older, SP!Older, Stock!Overtaken, SP!Overtaken,
  Stock!Product, SP!Product, Stock!ProductsOf, SP!ProductsOf,
  Stock!QuantityDelta, SP!QuantityDelta, Stock!Receive, SP!Receive,
  Stock!ReceiveStock, SP!ReceiveStock, Stock!RefreshLowStockAlertState,
  SP!RefreshLowStockAlertState, Stock!RegisterLoss, SP!RegisterLoss,
  Stock!Remembered, SP!Remembered, Stock!RevertSaleIssue,
  SP!RevertSaleIssue, Stock!Rollback, SP!Rollback, Stock!RoomForDocument,
  SP!RoomForDocument, Stock!Rows, SP!Rows, Stock!SaleEventKind,
  SP!SaleEventKind, Stock!Saved, SP!Saved, Stock!Scan, SP!Scan,
  Stock!Select, SP!Select, Stock!ShouldEmitLowStockAlert,
  SP!ShouldEmitLowStockAlert, Stock!Skip, SP!Skip, Stock!IsRepeated,
  SP!IsRepeated, Stock!IsPointless, SP!IsPointless, Stock!LookUp, SP!LookUp,
  Stock!Submit, SP!Submit, Stock!TablesUnchanged,
  SP!TablesUnchanged, Stock!Throws, SP!Throws, Stock!Tick, SP!Tick,
  Stock!Unset, SP!Unset, Stock!Update, SP!Update, Stock!checkoutVars,
  SP!checkoutVars, Stock!Cardinality, SP!Cardinality, Stock!ToSet, SP!ToSet
  <2> QED
    BY <1>1, <1>2, <1>3, <1>4, <1>5, <1>6, <1>7, <1>8, <1>9, <1>10, <1>11, <1>12, Zenon
    DEF Stock!StockNext, SP!StockNext

LEMMA SameLedger ==
  /\ Ledger!LedgerInit <=> LP!LedgerInit
  /\ Ledger!LedgerNext <=> LP!LedgerNext
BY Zenon DEF
  Ledger!Abort, LP!Abort, Ledger!Accumulated, LP!Accumulated,
  Ledger!BookedFor, LP!BookedFor, Ledger!CaptureInventoryLoss,
  LP!CaptureInventoryLoss, Ledger!CompensateCanceledSale,
  LP!CompensateCanceledSale, Ledger!ConsolidateCompletedSale,
  LP!ConsolidateCompletedSale, Ledger!Days, LP!Days, Ledger!Free, LP!Free,
  Ledger!IsSkipped, LP!IsSkipped, Ledger!Job, LP!Job,
  Ledger!LedgerInit, LP!LedgerInit, Ledger!LedgerNext, LP!LedgerNext,
  Ledger!LookUp, LP!LookUp,
  Ledger!NoDay, LP!NoDay, Ledger!Nothing, LP!Nothing, Ledger!PriceProduct,
  LP!PriceProduct, Ledger!ReconcileRegisterClosure,
  LP!ReconcileRegisterClosure, Ledger!Revenue, LP!Revenue, Ledger!RevenueOf,
  LP!RevenueOf, Ledger!Reversal, LP!Reversal, Ledger!Signed, LP!Signed,
  Ledger!SumNetCashMovementBySession, LP!SumNetCashMovementBySession,
  Ledger!Take, LP!Take, Ledger!Unique, LP!Unique, Ledger!Write, LP!Write,
  Ledger!WritesOf, LP!WritesOf, Ledger!checkoutVars, LP!checkoutVars,
  Ledger!Cardinality, LP!Cardinality, Ledger!MapThenSumSet,
  LP!MapThenSumSet, Ledger!MapThenFoldSet, LP!MapThenFoldSet
LEMMA SameStockState ==
  /\ Stock!TypeOK <=> SP!TypeOK
  /\ \A x : Stock!EffectOnStock(x) = SP!EffectOnStock(x)
<1>1. Stock!TypeOK <=> SP!TypeOK
  BY Zenon DEF
  Stock!CheckoutTypeOK, SP!CheckoutTypeOK, Stock!ClosedEvent,
  SP!ClosedEvent, Stock!ItemRow, SP!ItemRow, Stock!LineType, SP!LineType,
  Stock!MovementIsWellFormed, SP!MovementIsWellFormed, Stock!MovementType,
  SP!MovementType, Stock!Never, SP!Never, Stock!NoItem, SP!NoItem,
  Stock!SaleEvent, SP!SaleEvent, Stock!SaleStatus, SP!SaleStatus, Stock!Tx,
  SP!Tx, Stock!TypeOK, SP!TypeOK, Stock!Unset, SP!Unset, Stock!Writers,
  SP!Writers, Stock!Cardinality, SP!Cardinality
<1>2. ASSUME NEW x PROVE Stock!EffectOnStock(x) = SP!EffectOnStock(x)
  BY Zenon DEF
  Stock!EffectOnStock, SP!EffectOnStock, Stock!MovedTimes, SP!MovedTimes,
  Stock!MovesOf, SP!MovesOf, Stock!MovesOfLine, SP!MovesOfLine,
  Stock!Cardinality, SP!Cardinality
<1> QED
  BY <1>1, <1>2

LEMMA SameLedgerState ==
  /\ Ledger!LedgerTypeOK <=> LP!LedgerTypeOK
  /\ \A x : Ledger!EffectOnLedger(x) = LP!EffectOnLedger(x)
  /\ Ledger!ReportMatchesSales <=> LP!ReportMatchesSales
<1>1. Ledger!LedgerTypeOK <=> LP!LedgerTypeOK
  BY Zenon DEF
  Ledger!ClosedEvent, LP!ClosedEvent, Ledger!Days, LP!Days, Ledger!EntryRow,
  LP!EntryRow, Ledger!LedgerTypeOK, LP!LedgerTypeOK,
  Ledger!ReconciliationRow, LP!ReconciliationRow, Ledger!SaleEvent,
  LP!SaleEvent, Ledger!SaleStatus, LP!SaleStatus, Ledger!Cardinality,
  LP!Cardinality
<1>2. ASSUME NEW x PROVE Ledger!EffectOnLedger(x) = LP!EffectOnLedger(x)
  BY Zenon DEF
  Ledger!EffectOnLedger, LP!EffectOnLedger, Ledger!RevenueOf, LP!RevenueOf,
  Ledger!ReversalOf, LP!ReversalOf, Ledger!Cardinality, LP!Cardinality
<1>3. Ledger!ReportMatchesSales <=> LP!ReportMatchesSales
  BY Zenon DEF
  Ledger!AmountOf, LP!AmountOf, Ledger!CompletedRevenue,
  LP!CompletedRevenue, Ledger!InventoryLossTotal, LP!InventoryLossTotal,
  Ledger!LastDay, LP!LastDay, Ledger!ProfitAndLossTotal,
  LP!ProfitAndLossTotal, Ledger!Report, LP!Report,
  Ledger!ReportMatchesSales, LP!ReportMatchesSales, Ledger!RevenueNetTotal,
  LP!RevenueNetTotal, Ledger!SalesEvents, LP!SalesEvents, Ledger!Signed,
  LP!Signed, Ledger!Cardinality, LP!Cardinality, Ledger!Max, LP!Max,
  Ledger!MapThenSumSet, LP!MapThenSumSet, Ledger!MapThenFoldSet,
  LP!MapThenFoldSet
<1> QED
  BY <1>1, <1>2, <1>3

LEMMA SameEvents ==
  \A name, x : /\ EventsOn(name, x) = SP!EventsOn(name, x)
               /\ EventsOn(name, x) = LP!EventsOn(name, x)
BY DEF EventsOn, SP!EventsOn, LP!EventsOn

LEMMA FiniteHere == \A S : IsFiniteSet(S) <=> SP!IsFiniteSet(S)
BY Zenon DEF IsFiniteSet, SP!IsFiniteSet

\* What the proofs of the inventory service assume of the constants.
LEMMA StockAssumed ==
  /\ Cooldown \in Nat \ {0} /\ SP!IsFiniteSet(Products)
  /\ /\ Items \in [Sales -> Seq(SP!LineType) \ {<<>>}]
     /\ \A x \in Sales : \A i \in DOMAIN Items[x] : Items[x][i].quantity > 0
     /\ \A x \in Sales : \A i, j \in DOMAIN Items[x] :
          Items[x][i].product = Items[x][j].product => i = j
     /\ \A doc \in Documents : SP!IsDocument(doc)
     /\ SP!ToSet(ByBarcode) = Products
     /\ Consumers \cap Clerks = {}
     /\ (Consumers \cup Clerks) \cap Workers = {}
<1>1. Stock!LineType = SP!LineType
  BY Zenon DEF Stock!LineType, SP!LineType, Stock!Unset, SP!Unset
<1>2. ASSUME NEW doc PROVE Stock!IsDocument(doc) <=> SP!IsDocument(doc)
  BY Zenon DEF
  Stock!IsDocument, SP!IsDocument, Stock!IsInvoice, SP!IsInvoice,
  Stock!LineType, SP!LineType, Stock!Unset, SP!Unset
<1>3. ToSet(ByBarcode) = SP!ToSet(ByBarcode)
  BY DEF ToSet, SP!ToSet
<1> QED
  BY <1>1, <1>2, <1>3, FiniteHere, FlowConstants

LEMMA LedgerAssumed ==
  /\ Amount \in [Sales -> Nat \ {0}]
  /\ InCash \in [Sales -> BOOLEAN]
  /\ Day \in [Sales -> Nat]
  /\ OpeningFloat \in [Sessions -> Nat]
  /\ Prices \subseteq Nat \ {0}
BY FlowConstants

-----------------------------------------------------------------------------
(* A step of the composition is a step of each service.                    *)

LEMMA StockTakesTheStep == [Next]_vars => [SP!Next]_(SP!vars)
<1> SUFFICES ASSUME [Next]_vars PROVE [SP!Next]_(SP!vars)
  OBVIOUS
<1>1. CASE CheckoutStep
  BY <1>1, SameCheckout DEF CheckoutStep, stockVars, SP!Next, SP!stockVars
<1>2. CASE StockStep
  BY <1>2, SameStock DEF StockStep, SP!Next
<1>3. CASE UNCHANGED checkoutVars /\ UNCHANGED stockVars
  BY <1>3 DEF checkoutVars, SP!checkoutVars, stockVars, SP!vars, SP!stockVars
<1>4. CASE LedgerStep
  BY <1>3, <1>4 DEF LedgerStep, Ledger!LedgerNext, Ledger!Take,
     Ledger!LookUp, Ledger!Write, Ledger!Abort, Ledger!PriceProduct, Ledger!checkoutVars, checkoutVars
<1> QED
  BY <1>1, <1>2, <1>3, <1>4 DEF Next, vars

LEMMA StockKeepsItsInvariant ==
  ASSUME SP!StockInv, [Next]_vars
  PROVE  SP!StockInv'
BY StockTakesTheStep, SP!StockStep, SaleEventsConstants, StockAssumed

\* A loss leaves the stock: the event of its movement has a positive quantity.
LEMMA LossesAreTyped == SP!StockInv => LossEvents \subseteq LP!LossEvent
<1> SUFFICES ASSUME SP!StockInv, NEW i \in DOMAIN movements, movements[i].type = "LOSS"
             PROVE  LossEventOf(i) \in LP!LossEvent
  BY DEF LossEvents
<1>1. movements \in Seq(SP!Movement) /\ SP!MovementIsWellFormed(movements[i])
  BY DEF SP!StockInv, SP!TypeOK
<1>2. PICK m : m = movements[i]
  OBVIOUS
<1>3. m \in SP!Movement /\ i \in Nat
  BY <1>1, <1>2
<1>4. m.product \in Products /\ m.delta \in Int /\ m.delta < 0
  BY <1>1, <1>2, <1>3 DEF SP!Movement, SP!MovementIsWellFormed
<1>5. -m.delta \in Nat \ {0}
  BY <1>4
<1>6. LossEventOf(i) = [name |-> "InventoryLossRegistered", aggregate |-> m.product,
                        quantity |-> -m.delta, day |-> 1, id |-> i]
  BY <1>2 DEF LossEventOf
<1> QED
  BY <1>3, <1>5, <1>4, <1>6 DEF LP!LossEvent

\* For the ledger a step of the inventory service reports losses, or nothing.
LEMMA LedgerSeesTheStep ==
  ASSUME SP!StockInv, LossEvents' \subseteq LP!LossEvent, [Next]_vars
  PROVE  [LP!OpenNext]_(LP!vars)
<1>1. CASE CheckoutStep
  <2>1. movements' = movements /\ UNCHANGED ledgerVars
    BY <1>1 DEF CheckoutStep, stockVars
  <2>2. LossEvents' = LossEvents
    BY <2>1 DEF LossEvents, LossEventOf
  <2> QED
    BY <1>1, <2>1, <2>2, SameCheckout DEF CheckoutStep, ledgerVars, LP!OpenNext, LP!Next,
       LP!ledgerVars
<1>2. CASE StockStep
  <2>1. \A i \in DOMAIN movements : i \in DOMAIN movements' /\ movements'[i] = movements[i]
    BY <1>2, StockTakesTheStep, SP!MovementsStay, SaleEventsConstants, StockAssumed DEF Next
  <2>2. LossEvents \subseteq LossEvents'
    BY <2>1 DEF LossEvents, LossEventOf
  <2>3. UNCHANGED <<sessions, sales, stored>>
    BY <1>2, SameStock, SP!StockLeavesCheckout, SaleEventsConstants, StockAssumed
    DEF StockStep, SP!checkoutVars
  <2> QED
    BY <1>2, <2>2, <2>3
    DEF StockStep, ledgerVars, LP!OpenNext, LP!LossReported, LP!ledgerVars, LP!checkoutVars
<1>3. CASE LedgerStep
  BY <1>3, SameLedger DEF LedgerStep, LP!OpenNext, LP!Next
<1>4. CASE UNCHANGED vars
  <2>1. LossEvents' = LossEvents
    BY <1>4 DEF vars, stockVars, LossEvents, LossEventOf
  <2> QED
    BY <1>4, <2>1 DEF vars, checkoutVars, ledgerVars, LP!vars, LP!checkoutVars, LP!ledgerVars
<1> QED
  BY <1>1, <1>2, <1>3, <1>4 DEF Next

LEMMA FlowStep ==
  /\ SP!StockInv /\ [Next]_vars => SP!StockInv' /\ [SP!Next]_(SP!vars)
  /\ SP!StockInv /\ [Next]_vars => [LP!OpenNext]_(LP!vars)
<1>1. SP!StockInv /\ [Next]_vars => SP!StockInv'
  BY StockKeepsItsInvariant
<1>2. (SP!StockInv => LossEvents \subseteq LP!LossEvent)'
  BY LossesAreTyped, PTL
<1> QED
  BY <1>1, <1>2, StockTakesTheStep, LedgerSeesTheStep

LEMMA FlowInitially == Init => SP!Init /\ LP!Init
<1> SUFFICES ASSUME Init PROVE SP!Init /\ LP!Init
  OBVIOUS
<1>1. movements = <<>>
  BY DEF Init, Stock!StockInit
<1>2. LossEvents = {}
  BY <1>1 DEF LossEvents
<1> QED
  BY <1>2, SameCheckout, SameStock, SameLedger DEF Init, SP!Init, LP!Init

-----------------------------------------------------------------------------
(* The theorems.                                                           *)

\* The tables of both services keep their types, and with them the losses that
\* one reports and the other expenses, with any number of instances and copies.
THEOREM FlowTypeCorrect == Spec => []TypeOK
<1>1. Init => SP!StockInv /\ LP!LedgerInv
  BY FlowInitially, SP!StockInitially, LP!LedgerInitially, SaleEventsConstants,
     StockAssumed, LedgerAssumed
<1>2. SP!StockInv /\ LP!LedgerInv /\ [Next]_vars => SP!StockInv' /\ LP!LedgerInv'
  BY FlowStep, LP!LedgerStep, SaleEventsConstants, LedgerAssumed
<1>3. SP!StockInv /\ LP!LedgerInv => TypeOK
  <2>1. LP!LedgerInv => LP!LedgerTypeOK
    BY DEF LP!LedgerInv, LP!TablesAreSound, LP!EntriesAreSound, LP!EntryIsSound,
       LP!JobIsSound, LP!LedgerTypeOK
  <2> QED
    BY <2>1, SameStockState, SameLedgerState DEF SP!StockInv, TypeOK
<1> QED
  BY <1>1, <1>2, <1>3, PTL DEF Spec

\* The inductive invariant of the composition when every service has one
\* consumer instance and requests do not overlap.
SettledFlow ==
  /\ SP!StockInv /\ SP!SalesAreBooked /\ SP!StockIsSettled
  /\ LP!LedgerInv /\ LP!EventsAreUnique /\ LP!SettledInv

OneOfEach ==
  /\ MaxCopies = 1 /\ ~Overlaps
  /\ \A c, d \in Consumers : c = d
  /\ \A l, m \in Accountants : l = m

LEMMA FlowStartsSettled == Init => SettledFlow
<1> SUFFICES ASSUME SP!Init, LP!Init PROVE SettledFlow
  BY FlowInitially
<1>1. SP!StockInv /\ SP!SalesAreBooked /\ SP!StockIsSettled
  BY SP!StockInitially, SP!BookedInitially, SP!StockSettledInitially,
     SaleEventsConstants, StockAssumed
<1>2. LP!LedgerInv /\ LP!EventsAreUnique /\ LP!SettledInv
  BY LP!LedgerInitially, LP!StoredInitially, LP!SettledInitially,
     SaleEventsConstants, LedgerAssumed DEF LP!Init
<1> QED
  BY <1>1, <1>2 DEF SettledFlow

LEMMA FlowStaysSettled ==
  ASSUME OneOfEach, SettledFlow, [Next]_vars
  PROVE  SettledFlow'
<1>1. SP!StockInv' /\ [SP!Next]_(SP!vars) /\ [LP!OpenNext]_(LP!vars)
  BY FlowStep DEF SettledFlow
<1>2. SP!SalesAreBooked' /\ SP!StockIsSettled'
  BY <1>1, SP!BookedStep, SP!StockSettles, SaleEventsConstants, StockAssumed
  DEF OneOfEach, SettledFlow
<1>3. LP!LedgerInv'
  BY <1>1, LP!LedgerStep, SaleEventsConstants, LedgerAssumed DEF SettledFlow
<1>4. LP!EventsAreUnique'
  BY <1>1, LP!UniqueStep, SaleEventsConstants, LedgerAssumed
  DEF OneOfEach, SettledFlow, LP!LedgerInv
<1>5. LP!SettledInv'
  BY <1>1, LP!SettledStep, SaleEventsConstants, LedgerAssumed DEF OneOfEach, SettledFlow
<1> QED
  BY <1>1, <1>2, <1>3, <1>4, <1>5 DEF SettledFlow

\* Whatever the orders in which the completion and the cancellation of a sale
\* reach the two services, and however often: once both have handled them, stock
\* is out and revenue is in for the sales that stand completed, and no others.
THEOREM BothBooksAgree ==
  ASSUME OneOfEach
  PROVE  Spec => []BooksAgree
<1>1. SettledFlow => BooksAgree
  <2> SUFFICES ASSUME SettledFlow, NEW x \in Sales,
                      EventsOn("SaleCompleted", x) \cup EventsOn("SaleCanceled", x)
                        \subseteq processed \cap booked
               PROVE  /\ Stock!EffectOnStock(x) = "booked" <=> sales[x].status = "COMPLETED"
                      /\ Ledger!EffectOnLedger(x) = "booked"
                           <=> sales[x].status = "COMPLETED"
    BY DEF BooksAgree
  <2>1. SP!StockIsRight(x)
    BY SP!SettledIsRight, SaleEventsConstants, StockAssumed DEF SettledFlow
  <2>2. SP!EffectOnStock(x) = "booked" <=> sales[x].status = "COMPLETED"
    BY <2>1, SameEvents DEF SP!StockIsRight
  <2>3. LP!EventsOn("SaleCompleted", x) \cup LP!EventsOn("SaleCanceled", x) \subseteq booked
    BY SameEvents
  <2>4. LP!EffectOnLedger(x) = "booked" <=> sales[x].status = "COMPLETED"
    BY <2>3, LP!SettledIsRight, SaleEventsConstants, LedgerAssumed DEF SettledFlow
  <2> QED
    BY <2>2, <2>4, SameStockState, SameLedgerState
<1> QED
  BY <1>1, FlowStartsSettled, FlowStaysSettled, PTL DEF Spec

\* The report stays right while the inventory service reports losses.
THEOREM FlowReportIsRight ==
  ASSUME OneOfEach
  PROVE  Spec => []ReportMatchesSales
<1>1. SettledFlow => ReportMatchesSales
  BY LP!SettledReport, SameLedgerState, SaleEventsConstants, LedgerAssumed
  DEF SettledFlow, ReportMatchesSales
<1> QED
  BY <1>1, FlowStartsSettled, FlowStaysSettled, PTL DEF Spec

\* A closure handled after the events of the session's sales expects the cash in
\* the drawer, with the other services at work.
THEOREM FlowClosureIsRight ==
  ASSUME OneOfEach
  PROVE  Spec => ClosureAfterSalesIsRight
<1>1. ASSUME SettledFlow, [Next]_vars, NEW r \in reconciliations' \ reconciliations,
             Ledger!SalesEvents({x \in Sales : sales[x].session = r.session}) \subseteq booked
      PROVE  r.expected = OpeningFloat[r.session] + Ledger!CashTaken(r.session)
  <2>1. [LP!OpenNext]_(LP!vars)
    BY <1>1, FlowStep DEF SettledFlow
  <2>2. LP!SalesEvents({x \in Sales : sales[x].session = r.session}) \subseteq booked
    BY <1>1 DEF Ledger!SalesEvents, LP!SalesEvents
  <2>3. r.expected = OpeningFloat[r.session] + LP!CashTaken(r.session)
    BY <1>1, <2>1, <2>2, LP!ClosureStep, SaleEventsConstants, LedgerAssumed DEF SettledFlow
  <2>4. LP!CashTaken(r.session) = Ledger!CashTaken(r.session)
    BY Zenon DEF LP!CashTaken, Ledger!CashTaken, LP!MapThenSumSet, Ledger!MapThenSumSet,
       LP!MapThenFoldSet, Ledger!MapThenFoldSet
  <2> QED
    BY <2>3, <2>4
<1>2. SettledFlow /\ [Next]_vars =>
        [\A r \in reconciliations' \ reconciliations :
           Ledger!SalesEvents({x \in Sales : sales[x].session = r.session}) \subseteq booked
             => r.expected = OpeningFloat[r.session] + Ledger!CashTaken(r.session)]_(Ledger!vars)
  BY <1>1
<1> QED
  BY <1>2, FlowStartsSettled, FlowStaysSettled, PTL
  DEF Spec, ClosureAfterSalesIsRight, Ledger!ClosureAfterSalesIsRight

\* The books that the inventory service is said to implement are the same.
LEMMA SameBooks ==
  /\ Stock!Books!BooksInit <=> SP!Books!BooksInit
  /\ [Stock!Books!BooksNext]_(Stock!Books!booksVars)
       <=> [SP!Books!BooksNext]_(SP!Books!booksVars)
BY Zenon DEF
  Stock!Books!Book, SP!Books!Book, Stock!Books!BooksInit,
  SP!Books!BooksInit, Stock!Books!BooksNext, SP!Books!BooksNext,
  Stock!Books!CancelSale, SP!Books!CancelSale, Stock!Books!ChangeCart,
  SP!Books!ChangeCart, Stock!Books!CheckoutInit, SP!Books!CheckoutInit,
  Stock!Books!CheckoutNext, SP!Books!CheckoutNext, Stock!Books!CloseSession,
  SP!Books!CloseSession, Stock!Books!CompleteSale, SP!Books!CompleteSale,
  Stock!Books!EventsOn, SP!Books!EventsOn, Stock!Books!LoadedIn,
  SP!Books!LoadedIn, Stock!Books!OpenSession, SP!Books!OpenSession,
  Stock!Books!PaySale, SP!Books!PaySale, Stock!Books!SaveStatus,
  SP!Books!SaveStatus, Stock!Books!StartSale, SP!Books!StartSale,
  Stock!Books!Store, SP!Books!Store, Stock!Books!Undo, SP!Books!Undo,
  Stock!Books!Usable, SP!Books!Usable, Stock!Books!booksVars,
  SP!Books!booksVars, Stock!Books!checkoutVars, SP!Books!checkoutVars,
  Stock!Books!Cardinality, SP!Books!Cardinality, Stock!EffectOnStock,
  SP!EffectOnStock, Stock!MovedTimes, SP!MovedTimes, Stock!MovesOf,
  SP!MovesOf, Stock!MovesOfLine, SP!MovesOfLine, Stock!Cardinality,
  SP!Cardinality

\* With one consumer instance the stock is one of the books of the sales, with
\* the ledger beside it.
THEOREM FlowStockRefinesBooks ==
  ASSUME \A c, d \in Consumers : c = d
  PROVE  Spec => StockImplementsBooks
<1>1. Init => SP!StockInv /\ SP!SalesAreBooked /\ Stock!Books!BooksInit
  BY FlowInitially, SP!StockInitially, SP!BookedInitially, SP!StockStartsAsBooks,
     SameBooks, SaleEventsConstants, StockAssumed
<1>2. SP!StockInv /\ SP!SalesAreBooked /\ [Next]_vars => SP!StockInv' /\ SP!SalesAreBooked'
  BY FlowStep, SP!BookedStep, SaleEventsConstants, StockAssumed
<1>3. SP!StockInv /\ SP!SalesAreBooked /\ [Next]_vars =>
        [Stock!Books!BooksNext]_(Stock!Books!booksVars)
  BY FlowStep, SP!StockStepIsAStepOfBooks, SameBooks, SaleEventsConstants, StockAssumed
<1> QED
  BY <1>1, <1>2, <1>3, PTL DEF Spec, StockImplementsBooks, Stock!ImplementsBooks,
     Stock!Books!BooksSpec
====
