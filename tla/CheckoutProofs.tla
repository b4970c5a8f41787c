--------------------------- MODULE CheckoutProofs ---------------------------
(***************************************************************************)
(* Proofs about Checkout and CheckoutHistory, for any number of sessions,  *)
(* sales, registers and operators, in four parts, each resting on the ones *)
(* before it.  The first three hold however the requests interleave:       *)
(*   1. what the tables, the outbox and the memory of the requests always  *)
(*      look like (Inv);                                                   *)
(*   2. what a request relies on besides (PendingInv);                     *)
(*   3. that what a request has read is what the tables hold, until it is  *)
(*      overtaken, and what the tables then keep (RacesInv, HistoryInv).   *)
(* The fourth is about operators who work on the sessions they opened: no  *)
(* request of theirs is ever overtaken (OwnInv).                           *)
(***************************************************************************)
EXTENDS CheckoutHistory, TLAPS

\* The arithmetic of a cart (MapThenSumSet) is not needed: what counts is that
\* the totals of a cart in Carts are in Quantities and Totals.
LEMMA CartTotalsAreTyped ==
  ASSUME NEW cart \in Carts
  PROVE  TotalItemsQuantity(cart) \in Quantities /\ Subtotal(cart) \in Totals
  BY DEF Quantities, Totals

\* The empty cart is a cart, and the payment columns of a new sale are null.
LEMMA EmptyCartIsCart ==
  ASSUME SaleConstants
  PROVE  EmptyCart \in Carts /\ NoPay \in PayColumn
  <1>1. EmptyCart \in Carts
    BY DEF EmptyCart, Carts, Line
  <1>2. 0 \in 0..MaxPaid
    BY DEF SaleConstants
  <1> QED
    BY <1>1, <1>2 DEF NoPay, PayColumn

\* Sale.start returns a sale.
LEMMA StartIsTyped ==
  ASSUME SaleConstants, NEW s \in Sessions
  PROVE  Start(s) \in SaleRow /\ TotalsAddUp(Start(s))
  BY EmptyCartIsCart, CartTotalsAreTyped
     DEF Start, SaleRow, Status, TotalsAddUp

\* recalculateTotals leaves a sale whose totals are those of its new cart.
LEMMA RecalculatedIsTyped ==
  ASSUME NEW sale \in SaleRow, NEW cart \in Carts
  PROVE  LET new == RecalculateTotals(sale, cart)
         IN  /\ new \in SaleRow /\ TotalsAddUp(new)
             /\ new.status = sale.status /\ new.session = sale.session
             /\ new.completedAt = sale.completedAt
             /\ new.canceledAt = sale.canceledAt
  BY CartTotalsAreTyped DEF RecalculateTotals, SaleRow, TotalsAddUp

\* addItem leaves a cart whose lines are within bounds.
LEMMA AddedCartIsCart ==
  ASSUME SaleConstants, NEW sale \in SaleRow, NEW p \in Products,
         NEW n \in 1..MaxQty, NEW price \in Prices, CanAddItem(sale, p, n)
  PROVE  \E cart \in Carts : AddItem(sale, p, n, price) = RecalculateTotals(sale, cart)
  <1> DEFINE line == sale.items[p]
             new == [qty |-> line.qty + n,
                     price |-> IF line.qty = 0 THEN price ELSE line.price]
  <1>1. sale.items \in [Products -> Line] /\ line \in Line
    BY DEF SaleRow, Carts
  <1>2. MaxQty \in Nat /\ n \in Nat /\ n >= 1 /\ n <= MaxQty
    BY DEF SaleConstants
  <1>3. line.qty + n <= MaxQty
    BY DEF CanAddItem
  <1>4. CASE line = NoLine
    <2>1. line.qty = 0 /\ new = [qty |-> 0 + n, price |-> price]
      BY <1>4 DEF NoLine
    <2>2. 0 + n = n
      BY <1>2
    <2>3. new \in [qty: 1..MaxQty, price: Prices]
      BY <2>1, <2>2
    <2> QED
      BY <1>1, <2>3 DEF AddItem, Carts, Line
  <1>5. CASE line # NoLine
    <2>1. line.qty \in 1..MaxQty /\ line.price \in Prices
      BY <1>1, <1>5 DEF Line
    <2>2. line.qty # 0 /\ line.qty + n \in 1..MaxQty
      BY <1>2, <1>3, <2>1
    <2>3. new \in [qty: 1..MaxQty, price: Prices]
      BY <2>1, <2>2
    <2> QED
      BY <1>1, <2>3 DEF AddItem, Carts, Line
  <1> QED
    BY <1>4, <1>5

\* removeItem leaves a cart whose lines are within bounds.
LEMMA RemovedCartIsCart ==
  ASSUME SaleConstants, NEW sale \in SaleRow, NEW p \in Products,
         NEW n \in 1..MaxQty, CanRemoveItem(sale, p, n)
  PROVE  \E cart \in Carts : RemoveItem(sale, p, n) = RecalculateTotals(sale, cart)
  <1> DEFINE line == sale.items[p]
             new == IF line.qty = n THEN NoLine ELSE [line EXCEPT !.qty = @ - n]
  <1>1. sale.items \in [Products -> Line] /\ line \in Line
    BY DEF SaleRow, Carts
  <1>2. MaxQty \in Nat /\ n \in Nat /\ n >= 1 /\ n <= MaxQty
    BY DEF SaleConstants
  <1>3. n <= line.qty
    BY DEF CanRemoveItem
  <1>4. line # NoLine
    BY <1>2, <1>3 DEF NoLine
  <1>5. line.qty \in 1..MaxQty /\ line.price \in Prices
    BY <1>1, <1>4 DEF Line
  <1>6. line = [qty |-> line.qty, price |-> line.price]
    BY <1>1, <1>4 DEF Line
  <1>7. CASE line.qty = n
    BY <1>1, <1>7 DEF RemoveItem, Carts, Line
  <1>8. CASE line.qty # n
    <2>1. line.qty - n \in 1..MaxQty
      BY <1>2, <1>3, <1>5, <1>8
    <2>2. [line EXCEPT !.qty = line.qty - n] =
            [qty |-> line.qty - n, price |-> line.price]
      BY <1>6
    <2>3. new \in [qty: 1..MaxQty, price: Prices]
      BY <1>5, <1>8, <2>1, <2>2
    <2> QED
      BY <1>1, <2>3 DEF RemoveItem, Carts, Line
  <1> QED
    BY <1>7, <1>8

\* A payment that registerPayment accepts fits the columns.
LEMMA PaymentIsTyped ==
  ASSUME SaleConstants, NEW pay \in Payment
  PROVE  pay \in PayColumn
  <1>1. pay.method \in Methods /\ pay.paid \in 1..MaxPaid
    BY DEF Payment
  <1>2. pay.paid \in 0..MaxPaid
    BY <1>1 DEF SaleConstants
  <1> QED
    BY <1>1, <1>2 DEF Payment, PayColumn

-----------------------------------------------------------------------------
(* What a domain method may do to the sale in memory.                      *)

\* A sale in memory is typed and its totals add up.
Sound(sale) == sale \in SaleRow /\ TotalsAddUp(sale)

\* What Applied returns for an operation: the sale of the same session, with
\* only the marks of the operation added.
LEMMA AppliedIsSound ==
  ASSUME SaleConstants, NEW op \in SaleOps \ {"add"}, NEW sale, Sound(sale),
         NEW new \in Applied(op, sale)
  PROVE  /\ Sound(new)
         /\ new.completedAt => sale.completedAt \/ op = "complete"
         /\ new.canceledAt \/ new.status = "CANCELED" =>
              sale.canceledAt \/ sale.status = "CANCELED" \/ op = "cancel"
  <1>1. CASE op = "remove"
    <2>1. PICK pn \in Products \X (1..MaxQty) :
            CanRemoveItem(sale, pn[1], pn[2]) /\ new = RemoveItem(sale, pn[1], pn[2])
      BY <1>1 DEF Applied
    <2>2. PICK cart \in Carts : new = RecalculateTotals(sale, cart)
      BY <2>1, RemovedCartIsCart DEF Sound
    <2> QED
      BY <2>2, RecalculatedIsTyped DEF Sound
  <1>2. CASE op = "pay"
    <2>1. PICK pay \in Payment : new = RegisterPayment(sale, pay)
      BY <1>2 DEF Applied
    <2>2. pay \in PayColumn
      BY <2>1, PaymentIsTyped
    <2> QED
      BY <2>1, <2>2 DEF Sound, RegisterPayment, SaleRow, Status, TotalsAddUp
  <1>3. CASE op = "complete"
    <2>1. new = Complete(sale) /\ sale.status = "PAID"
      BY <1>3 DEF Applied, CanComplete
    <2> QED
      BY <1>3, <2>1 DEF Sound, Complete, SaleRow, Status, TotalsAddUp
  <1>4. CASE op = "cancel"
    <2>1. new = Cancel(sale)
      BY <1>4 DEF Applied
    <2> QED
      BY <1>4, <2>1 DEF Sound, Cancel, SaleRow, Status, TotalsAddUp
  <1> QED
    BY <1>1, <1>2, <1>3, <1>4 DEF SaleOps

\* A merge of two sales over a third has the type of a sale; each of its marks
\* comes from the row or from the copy.
LEMMA MergeIsTyped ==
  ASSUME NEW row \in SaleRow, NEW base \in SaleRow, NEW copy \in SaleRow
  PROVE  LET new == Merge(row, base, copy)
         IN  /\ new \in SaleRow
             /\ new.completedAt \in {row.completedAt, copy.completedAt}
             /\ new.canceledAt \in {row.canceledAt, copy.canceledAt}
             /\ new.status \in {row.status, copy.status}
  <1> DEFINE part(c) == IF copy.pay[c] = base.pay[c] THEN row.pay[c] ELSE copy.pay[c]
             pay == [method |-> part("method"), paid |-> part("paid")]
  <1>1. pay \in PayColumn
    BY DEF SaleRow, PayColumn
  <1> QED
    BY <1>1 DEF Merge, SaleRow

-----------------------------------------------------------------------------
(* The inductive invariant.                                                *)

\* What the memory of a request holds at each of its statements.
Fits(r) ==
  /\ r.pc = "idle" => r = Idle
  /\ r.pc = "findOpen" => r.op = "open"
  /\ r.pc = "countSales" => r.op = "close"
  /\ r.pc \in {"findSale", "findCatalog", "select"} => r.op \in SaleOps
  /\ r.op = "open" =>
       r.session \in Sessions /\ r.pos \in PosSession /\ r.pos.status = "OPEN"
  /\ r.op \in {"start", "close"} => r.session \in Sessions
  /\ r.op = "close" /\ r.pc = "write" =>
       r.pos \in PosSession /\ r.pos.status = "CLOSED"
  /\ r.op = "start" /\ r.pc = "write" =>
       r.sale \in Sales /\ r.copy = Start(r.session)
  /\ r.op \in SaleOps => r.sale \in Sales /\ Exists(r.sale)
  /\ HasCopy(r) => r.session \in Sessions /\ r.previous \in Status /\ Sound(r.copy)
  /\ HasCopy(r) /\ r.pc = "write" => r.base \in SaleRow

\* What a request has read as completed or canceled is in the outbox; what it
\* is about to write itself is not, before the commit.
CopyIsInOutbox(r) ==
  HasCopy(r) =>
    /\ r.copy.completedAt => Emitted("SaleCompleted", r.sale) \/ r.op = "complete"
    /\ r.copy.canceledAt \/ r.copy.status = "CANCELED" =>
         Emitted("SaleCanceled", r.sale) \/ r.op = "cancel"
    /\ r.previous = "COMPLETED" => Emitted("SaleCompleted", r.sale)

RequestsFit == \A o \in Operators : Fits(request[o]) /\ CopyIsInOutbox(request[o])

Inv ==
  /\ TypeOK /\ RequestsFit
  /\ OneOpenSessionPerRegister /\ StateChangesAreInOutbox
  /\ ReversalFollowsCompletion /\ PayloadsAddUp

\* A step that changes nothing but the memory of one request.
LEMMA RequestStep ==
  ASSUME Inv, NEW o \in Operators, NEW v \in SaleRequest \cup {Idle}, Goto(o, v),
         UNCHANGED <<sessionTable, saleTable, outbox>>,
         Fits(v), CopyIsInOutbox(v)
  PROVE  Inv'
  <1>1. request' = [request EXCEPT ![o] = v]
    BY DEF Goto
  <1>2. TypeOK'
    BY <1>1 DEF Inv, TypeOK
  <1>3. RequestsFit'
    <2> SUFFICES ASSUME NEW c \in Operators
                 PROVE  Fits(request[c])' /\ CopyIsInOutbox(request[c])'
      BY DEF RequestsFit
    <2>1. PICK w : w = request'[c] /\ Fits(w) /\ CopyIsInOutbox(w)
      BY <1>1 DEF Inv, TypeOK, RequestsFit
    <2> QED
      BY <2>1 DEF Fits, CopyIsInOutbox, HasCopy, Exists, Emitted
  <1>4. /\ OneOpenSessionPerRegister' /\ StateChangesAreInOutbox'
        /\ ReversalFollowsCompletion' /\ PayloadsAddUp'
    BY DEF Inv, OneOpenSessionPerRegister, StateChangesAreInOutbox, Exists,
           Emitted, ReversalFollowsCompletion, PayloadsAddUp
  <1> QED
    BY <1>2, <1>3, <1>4 DEF Inv

\* An idle request fits.
LEMMA IdleFits == Idle \in SaleRequest \cup {Idle} /\ Fits(Idle) /\ CopyIsInOutbox(Idle)
  BY DEF Idle, Fits, CopyIsInOutbox, HasCopy, SaleOps

\* A request that ends, having changed nothing else.
LEMMA FinishStep ==
  ASSUME Inv, NEW o \in Operators, Finish(o),
         UNCHANGED <<sessionTable, saleTable, outbox>>
  PROVE  Inv'
  BY IdleFits, RequestStep DEF Finish

\* The invariant holds at the start.
LEMMA InvHoldsInitially ==
  ASSUME Init
  PROVE  Inv
  <1>1. TypeOK
    BY DEF Init, TypeOK
  <1>2. RequestsFit
    BY IdleFits DEF Init, RequestsFit
  <1>3. OneOpenSessionPerRegister
    BY DEF Init, OneOpenSessionPerRegister, NoSession
  <1>4. StateChangesAreInOutbox
    BY DEF Init, StateChangesAreInOutbox, NoSession, Exists
  <1>5. ReversalFollowsCompletion /\ PayloadsAddUp
    BY DEF Init, ReversalFollowsCompletion, PayloadsAddUp
  <1> QED
    BY <1>1, <1>2, <1>3, <1>4, <1>5 DEF Inv

-----------------------------------------------------------------------------
(* The steps that begin a request and the statements that read.            *)

LEMMA BeginPreservesInv ==
  ASSUME Inv, NEW o \in Operators,
         BeginOpenSession(o) \/ BeginStartSale(o) \/ BeginCloseSession(o)
           \/ BeginOnSale(o)
  PROVE  Inv'
  <1> USE DEF Begin
  <1>1. CASE BeginOpenSession(o)
    <2>1. PICK s \in Sessions, r \in Registers :
            Begin(o, "open", s, None,
                  [status |-> "OPEN", register |-> r, operator |-> o], "findOpen")
      BY <1>1 DEF BeginOpenSession
    <2> DEFINE pos == [status |-> "OPEN", register |-> r, operator |-> o]
               v == [Idle EXCEPT !.pc = "findOpen", !.op = "open", !.session = s,
                                 !.sale = None, !.pos = pos]
    <2>2. pos \in PosSession
      BY DEF PosSession
    <2>3. v \in SaleRequest /\ Fits(v) /\ CopyIsInOutbox(v)
      BY <2>2 DEF Idle, SaleRequest, Pc, Ops, SaleOps, Fits, CopyIsInOutbox, HasCopy
    <2> QED
      BY <2>1, <2>3, RequestStep
  <1>2. CASE BeginStartSale(o)
    <2>1. PICK s \in Sessions : Begin(o, "start", s, None, NoSession, "findSession")
      BY <1>2 DEF BeginStartSale
    <2> DEFINE v == [Idle EXCEPT !.pc = "findSession", !.op = "start", !.session = s,
                                 !.sale = None, !.pos = NoSession]
    <2>2. v \in SaleRequest /\ Fits(v) /\ CopyIsInOutbox(v)
      BY DEF Idle, SaleRequest, Pc, Ops, SaleOps, Fits, CopyIsInOutbox, HasCopy
    <2> QED
      BY <2>1, <2>2, RequestStep
  <1>3. CASE BeginCloseSession(o)
    <2>1. PICK s \in Sessions : Begin(o, "close", s, None, NoSession, "findSession")
      BY <1>3 DEF BeginCloseSession
    <2> DEFINE v == [Idle EXCEPT !.pc = "findSession", !.op = "close", !.session = s,
                                 !.sale = None, !.pos = NoSession]
    <2>2. v \in SaleRequest /\ Fits(v) /\ CopyIsInOutbox(v)
      BY DEF Idle, SaleRequest, Pc, Ops, SaleOps, Fits, CopyIsInOutbox, HasCopy
    <2> QED
      BY <2>1, <2>2, RequestStep
  <1>4. CASE BeginOnSale(o)
    <2>1. PICK x \in Sales, op \in SaleOps :
            Exists(x) /\ Begin(o, op, None, x, NoSession, "findSale")
      BY <1>4 DEF BeginOnSale, Exists
    <2> DEFINE v == [Idle EXCEPT !.pc = "findSale", !.op = op, !.session = None,
                                 !.sale = x, !.pos = NoSession]
    <2>2. v \in SaleRequest /\ Fits(v) /\ CopyIsInOutbox(v)
      BY <2>1 DEF Idle, SaleRequest, Pc, Ops, SaleOps, Fits, CopyIsInOutbox, HasCopy
    <2> QED
      BY <2>1, <2>2, RequestStep
  <1> QED
    BY <1>1, <1>2, <1>3, <1>4

\* A request that is not idle is typed, fits and is in the outbox.
LEMMA RequestInProgress ==
  ASSUME Inv, NEW o \in Operators, request[o].pc # "idle"
  PROVE  /\ request[o] \in SaleRequest
         /\ Fits(request[o]) /\ CopyIsInOutbox(request[o])
  BY DEF Inv, TypeOK, RequestsFit, Idle

\* What findById returns can be the copy of a request.
LEMMA LoadedSaleFits ==
  ASSUME Inv, NEW x \in Sales, Exists(x), Consistent(saleTable[x])
  PROVE  LET row == saleTable[x]
         IN  /\ Sound(row) /\ row.session \in Sessions /\ row.status \in Status
             /\ row.completedAt => Emitted("SaleCompleted", x)
             /\ row.canceledAt \/ row.status = "CANCELED" => Emitted("SaleCanceled", x)
             /\ row.status = "COMPLETED" => Emitted("SaleCompleted", x)
  <1>1. saleTable[x] \in SaleRow
    BY DEF Inv, TypeOK, Exists
  <1>2. saleTable[x].status = "COMPLETED" => saleTable[x].completedAt
    BY <1>1 DEF Consistent, DatesFitStatus, SaleRow
  <1> QED
    BY <1>1, <1>2 DEF Inv, Sound, Consistent, SaleRow, StateChangesAreInOutbox

LEMMA ReadPreservesInv ==
  ASSUME SaleConstants, Inv, NEW o \in Operators, Read(o)
  PROVE  Inv'
  <1> DEFINE req == request[o]
  <1>0. req.pc # "idle" =>
          req \in SaleRequest /\ Fits(req) /\ CopyIsInOutbox(req)
    BY RequestInProgress
  <1>1. CASE FindOpen(o)
    <2>1. req \in SaleRequest /\ Fits(req) /\ req.op = "open"
      BY <1>0, <1>1 DEF FindOpen, At, Fits
    <2> DEFINE v == [req EXCEPT !.pc = "write"]
    <2>2. v \in SaleRequest /\ Fits(v) /\ CopyIsInOutbox(v)
      BY <2>1 DEF SaleRequest, Pc, SaleOps, Fits, CopyIsInOutbox, HasCopy
    <2>3. Finish(o) \/ Goto(o, v)
      BY <1>1 DEF FindOpen
    <2> QED
      BY <1>1, <2>2, <2>3, FinishStep, RequestStep DEF FindOpen
  <1>2. CASE FindSale(o)
    <2>1. /\ req \in SaleRequest /\ req.op \in SaleOps
          /\ req.sale \in Sales /\ Exists(req.sale)
      BY <1>0, <1>2 DEF FindSale, At, Fits
    <2> DEFINE row == saleTable[req.sale]
               v == [req EXCEPT !.pc = "findSession", !.session = row.session,
                                !.previous = row.status, !.copy = row]
    <2>2. CASE ~Consistent(row)
      BY <1>2, <2>2, FinishStep DEF FindSale
    <2>3. CASE Consistent(row)
      <3>1. /\ Sound(row) /\ row.session \in Sessions /\ row.status \in Status
            /\ row.completedAt => Emitted("SaleCompleted", req.sale)
            /\ row.canceledAt \/ row.status = "CANCELED"
                 => Emitted("SaleCanceled", req.sale)
            /\ row.status = "COMPLETED" => Emitted("SaleCompleted", req.sale)
        BY <2>1, <2>3, LoadedSaleFits
      <3>2. v \in SaleRequest
        BY <2>1, <3>1 DEF SaleRequest, Pc, Sound
      <3>3. Fits(v) /\ CopyIsInOutbox(v)
        BY <2>1, <3>1 DEF SaleRequest, SaleOps, Fits, CopyIsInOutbox, HasCopy
      <3>4. Goto(o, v)
        BY <1>2, <2>3 DEF FindSale
      <3> QED
        BY <1>2, <3>2, <3>3, <3>4, RequestStep DEF FindSale
    <2> QED
      BY <2>2, <2>3
  <1>3. CASE FindSessionToStart(o)
    <2>1. req \in SaleRequest /\ Fits(req) /\ req.op = "start"
      BY <1>0, <1>3 DEF FindSessionToStart, At
    <2>2. CASE Finish(o)
      BY <1>3, <2>2, FinishStep DEF FindSessionToStart
    <2>3. CASE \E x \in Sales : Goto(o, [req EXCEPT !.pc = "write", !.sale = x,
                                                  !.copy = Start(req.session)])
      <3>1. PICK x \in Sales : Goto(o, [req EXCEPT !.pc = "write", !.sale = x,
                                                 !.copy = Start(req.session)])
        BY <2>3
      <3> DEFINE v == [req EXCEPT !.pc = "write", !.sale = x, !.copy = Start(req.session)]
      <3>2. req.session \in Sessions
        BY <2>1 DEF Fits
      <3>3. v \in SaleRequest /\ Fits(v) /\ CopyIsInOutbox(v)
        BY <2>1, <3>2, StartIsTyped
           DEF SaleRequest, Pc, SaleOps, Fits, CopyIsInOutbox, HasCopy
      <3> QED
        BY <1>3, <3>1, <3>3, RequestStep DEF FindSessionToStart
    <2> QED
      BY <1>3, <2>2, <2>3 DEF FindSessionToStart
  <1>4. CASE FindSessionToClose(o)
    <2>1. req \in SaleRequest /\ Fits(req) /\ req.op = "close"
      BY <1>0, <1>4 DEF FindSessionToClose, At
    <2> DEFINE v == [req EXCEPT !.pc = "countSales", !.pos = Loaded(o)]
    <2>2. Loaded(o) \in PosSession \cup {NoSession}
      BY <2>1 DEF Fits, Loaded, Inv, TypeOK
    <2>3. v \in SaleRequest /\ Fits(v) /\ CopyIsInOutbox(v)
      BY <2>1, <2>2 DEF SaleRequest, Pc, SaleOps, Fits, CopyIsInOutbox, HasCopy
    <2> QED
      BY <1>4, <2>3, RequestStep DEF FindSessionToClose
  <1>5. CASE CountSales(o)
    <2>1. req \in SaleRequest /\ Fits(req) /\ req.op = "close"
      BY <1>0, <1>5 DEF CountSales, At, Fits
    <2>2. CASE Finish(o)
      BY <1>5, <2>2, FinishStep DEF CountSales
    <2>3. CASE req.pos.status = "OPEN" /\ Goto(o, [req EXCEPT !.pc = "write", !.pos.status = "CLOSED"])
      <3> DEFINE v == [req EXCEPT !.pc = "write", !.pos.status = "CLOSED"]
      <3>1. req.pos \in PosSession
        BY <2>1, <2>3 DEF SaleRequest, NoSession
      <3>2. [req.pos EXCEPT !.status = "CLOSED"] \in PosSession
        BY <3>1 DEF PosSession
      <3>3. v = [req EXCEPT !.pc = "write", !.pos = [req.pos EXCEPT !.status = "CLOSED"]]
        BY <2>1 DEF SaleRequest
      <3>4. v \in SaleRequest /\ Fits(v) /\ CopyIsInOutbox(v)
        BY <2>1, <3>1, <3>2, <3>3
           DEF SaleRequest, PosSession, Pc, SaleOps, Fits, CopyIsInOutbox, HasCopy
      <3> QED
        BY <1>5, <2>3, <3>4, RequestStep DEF CountSales
    <2> QED
      BY <1>5, <2>2, <2>3 DEF CountSales
  <1>6. CASE FindSessionOfSale(o)
    <2>1. req \in SaleRequest /\ Fits(req) /\ CopyIsInOutbox(req)
          /\ req.op \in SaleOps /\ req.pc = "findSession"
      BY <1>0, <1>6 DEF FindSessionOfSale, At
    <2>2. CASE Finish(o)
      BY <1>6, <2>2, FinishStep DEF FindSessionOfSale
    <2>3. CASE req.op = "add" /\ Goto(o, [req EXCEPT !.pc = "findCatalog"])
      <3> DEFINE v == [req EXCEPT !.pc = "findCatalog"]
      <3>1. v \in SaleRequest /\ Fits(v) /\ CopyIsInOutbox(v)
        BY <2>1 DEF SaleRequest, Pc, SaleOps, Fits, CopyIsInOutbox, HasCopy
      <3> QED
        BY <1>6, <2>3, <3>1, RequestStep DEF FindSessionOfSale
    <2>4. CASE /\ req.op # "add"
               /\ \E sale \in Applied(req.op, req.copy) :
                    Goto(o, [req EXCEPT !.pc = "select", !.copy = sale])
      <3>1. PICK sale \in Applied(req.op, req.copy) :
              Goto(o, [req EXCEPT !.pc = "select", !.copy = sale])
        BY <2>4
      <3>2. Sound(req.copy)
        BY <2>1 DEF Fits, HasCopy
      <3>3. /\ Sound(sale)
            /\ sale.completedAt => req.copy.completedAt \/ req.op = "complete"
            /\ sale.canceledAt \/ sale.status = "CANCELED" =>
                 req.copy.canceledAt \/ req.copy.status = "CANCELED" \/ req.op = "cancel"
        BY <2>1, <2>4, <3>1, <3>2, AppliedIsSound
      <3> DEFINE v == [req EXCEPT !.pc = "select", !.copy = sale]
      <3>4. v \in SaleRequest
        BY <2>1, <3>3 DEF SaleRequest, Pc, Sound
      <3>5. Fits(v) /\ CopyIsInOutbox(v)
        BY <2>1, <3>3 DEF SaleRequest, SaleOps, Fits, CopyIsInOutbox, HasCopy
      <3> QED
        BY <1>6, <3>1, <3>4, <3>5, RequestStep DEF FindSessionOfSale
    <2> QED
      BY <1>6, <2>2, <2>3, <2>4 DEF FindSessionOfSale
  <1>7. CASE FindCatalog(o)
    <2>1. req \in SaleRequest /\ Fits(req) /\ CopyIsInOutbox(req)
          /\ req.op \in SaleOps /\ req.pc = "findCatalog"
      BY <1>0, <1>7 DEF FindCatalog, At, Fits
    <2>2. CASE Finish(o)
      BY <1>7, <2>2, FinishStep DEF FindCatalog
    <2>3. ASSUME NEW p \in Products, NEW n \in 1..MaxQty, NEW price \in Prices,
                 CanAddItem(req.copy, p, n),
                 Goto(o, [req EXCEPT !.pc = "select",
                                     !.copy = AddItem(req.copy, p, n, price)])
          PROVE  Inv'
      <3> DEFINE new == AddItem(req.copy, p, n, price)
                 v == [req EXCEPT !.pc = "select", !.copy = new]
      <3>1. Sound(req.copy)
        BY <2>1 DEF Fits, HasCopy
      <3>2. PICK cart \in Carts : new = RecalculateTotals(req.copy, cart)
        BY <2>3, <3>1, AddedCartIsCart DEF Sound
      <3>3. /\ Sound(new) /\ new.status = req.copy.status
            /\ new.completedAt = req.copy.completedAt
            /\ new.canceledAt = req.copy.canceledAt
        BY <3>1, <3>2, RecalculatedIsTyped DEF Sound
      <3> HIDE DEF new
      <3>4. v \in SaleRequest
        BY <2>1, <3>3 DEF SaleRequest, Pc, Sound
      <3>5. Fits(v) /\ CopyIsInOutbox(v)
        BY <2>1, <3>3 DEF SaleRequest, SaleOps, Fits, CopyIsInOutbox, HasCopy
      <3>6. Goto(o, v)
        BY <2>3 DEF new
      <3> QED
        BY <1>7, <3>4, <3>5, <3>6, RequestStep DEF FindCatalog
    <2> QED
      BY <1>7, <2>2, <2>3 DEF FindCatalog
  <1>8. CASE SelectSale(o)
    <2>1. req \in SaleRequest /\ Fits(req) /\ CopyIsInOutbox(req)
          /\ req.op \in SaleOps /\ req.pc = "select"
      BY <1>0, <1>8 DEF SelectSale, At, Fits
    <2> DEFINE v == [req EXCEPT !.pc = "write", !.base = saleTable[req.sale]]
    <2>2. saleTable[req.sale] \in SaleRow
      BY <2>1 DEF Fits, Inv, TypeOK, Exists
    <2>3. v \in SaleRequest /\ Fits(v) /\ CopyIsInOutbox(v)
      BY <2>1, <2>2 DEF SaleRequest, Pc, SaleOps, Fits, CopyIsInOutbox, HasCopy
    <2> QED
      BY <1>8, <2>3, RequestStep DEF SelectSale
  <1> QED
    BY <1>1, <1>2, <1>3, <1>4, <1>5, <1>6, <1>7, <1>8 DEF Read

-----------------------------------------------------------------------------
(* The statements that write.                                              *)

\* What was in the outbox stays there, what is added is there.
LEMMA AppendedOutbox ==
  ASSUME TypeOK, NEW e \in SaleEvent \cup SessionEvent, outbox' = Append(outbox, e)
  PROVE  /\ outbox' \in Seq(SaleEvent \cup SessionEvent)
         /\ \A name, a : Emitted(name, a) => Emitted(name, a)'
         /\ \A i \in DOMAIN outbox : i \in DOMAIN outbox' /\ outbox'[i] = outbox[i]
         /\ \A i \in DOMAIN outbox' \ DOMAIN outbox :
              outbox'[i] = e /\ DOMAIN outbox = 1..(i - 1)
         /\ \A name, a : e.name = name /\ e.aggregate = a => Emitted(name, a)'
  <1>1. outbox \in Seq(SaleEvent \cup SessionEvent)
    BY DEF TypeOK
  <1>2. /\ outbox' \in Seq(SaleEvent \cup SessionEvent)
        /\ \A i \in DOMAIN outbox : i \in DOMAIN outbox' /\ outbox'[i] = outbox[i]
        /\ \A i \in DOMAIN outbox' \ DOMAIN outbox :
             outbox'[i] = e /\ DOMAIN outbox = 1..(i - 1)
        /\ Len(outbox) + 1 \in DOMAIN outbox' /\ outbox'[Len(outbox) + 1] = e
    BY <1>1
  <1> QED
    BY <1>2 DEF Emitted

\* The outbox stays as it is or has one more event.
OutboxGrows ==
  \/ outbox' = outbox
  \/ \E e \in SaleEvent \cup SessionEvent : outbox' = Append(outbox, e)

\* When a request commits, the others still fit: rows and events only appear.
LEMMA OthersStillFit ==
  ASSUME Inv, NEW o \in Operators, Finish(o), OutboxGrows,
         \A x \in Sales : Exists(x) => Exists(x)'
  PROVE  RequestsFit' /\ request' \in [Operators -> SaleRequest \cup {Idle}]
  <1>1. request' = [request EXCEPT ![o] = Idle]
    BY DEF Finish, Goto
  <1>2. \A name, a : Emitted(name, a) => Emitted(name, a)'
    BY AppendedOutbox DEF Inv, OutboxGrows, Emitted
  <1>3. ASSUME NEW c \in Operators
        PROVE  Fits(request[c])' /\ CopyIsInOutbox(request[c])'
    <2>1. PICK w : w = request'[c] /\ Fits(w) /\ CopyIsInOutbox(w)
      BY <1>1, IdleFits DEF Inv, TypeOK, RequestsFit
    <2>2. w.op \in SaleOps => w.sale \in Sales /\ Exists(w.sale)'
      BY <2>1 DEF Fits
    <2>3. Fits(request[c])'
      BY <2>1, <2>2 DEF Fits, HasCopy
    <2>4. CopyIsInOutbox(request[c])'
      BY <1>2, <2>1 DEF CopyIsInOutbox, HasCopy
    <2> QED
      BY <2>3, <2>4
  <1> QED
    BY <1>1, <1>3 DEF RequestsFit, Inv, TypeOK

LEMMA InsertSessionPreservesInv ==
  ASSUME Inv, NEW o \in Operators, InsertSession(o)
  PROVE  Inv'
  <1> DEFINE req == request[o]
  <1>1. /\ Finish(o) /\ UNCHANGED <<saleTable, outbox>> /\ OutboxGrows
    BY DEF InsertSession, OutboxGrows
  <1>2. CASE OpenOn(req.pos.register)
    BY <1>1, <1>2, FinishStep DEF InsertSession
  <1>3. CASE ~OpenOn(req.pos.register)
    <2>1. /\ req.session \in Sessions /\ req.pos \in PosSession
          /\ req.pos.status = "OPEN"
      BY RequestInProgress DEF InsertSession, At, Fits
    <2>2. sessionTable' = [sessionTable EXCEPT ![req.session] = req.pos]
      BY <1>3 DEF InsertSession
    <2>3. RequestsFit' /\ request' \in [Operators -> SaleRequest \cup {Idle}]
      BY <1>1, OthersStillFit DEF Exists
    <2>4. TypeOK'
      BY <1>1, <2>1, <2>2, <2>3 DEF Inv, TypeOK
    <2>5. OneOpenSessionPerRegister'
      BY <1>3, <2>1, <2>2 DEF Inv, TypeOK, OneOpenSessionPerRegister, OpenOn
    <2>6. StateChangesAreInOutbox'
      BY <1>1, <2>1, <2>2 DEF Inv, TypeOK, StateChangesAreInOutbox, Exists, Emitted
    <2>7. ReversalFollowsCompletion' /\ PayloadsAddUp'
      BY <1>1 DEF Inv, ReversalFollowsCompletion, PayloadsAddUp
    <2> QED
      BY <2>3, <2>4, <2>5, <2>6, <2>7 DEF Inv
  <1> QED
    BY <1>2, <1>3

LEMMA UpdateSessionPreservesInv ==
  ASSUME Inv, NEW o \in Operators, UpdateSession(o)
  PROVE  Inv'
  <1>1. PICK s, pos : s = request[o].session /\ pos = request[o].pos
    OBVIOUS
  <1>2. s \in Sessions /\ pos \in PosSession /\ pos.status = "CLOSED"
    BY <1>1, RequestInProgress DEF UpdateSession, At, Fits
  <1> DEFINE event == [name |-> "RegisterClosed", aggregate |-> s, state |-> pos]
  <1>3. /\ Finish(o) /\ UNCHANGED saleTable
        /\ sessionTable' = [sessionTable EXCEPT ![s] = pos]
        /\ outbox' = Append(outbox, event)
    BY <1>1 DEF UpdateSession
  <1>4. /\ event \in SaleEvent \cup SessionEvent
        /\ event.name = "RegisterClosed" /\ event.aggregate = s
    BY <1>2 DEF SessionEvent
  <1> HIDE DEF event
  <1>5. /\ outbox' \in Seq(SaleEvent \cup SessionEvent)
        /\ \A name, a : Emitted(name, a) => Emitted(name, a)'
        /\ \A i \in DOMAIN outbox : i \in DOMAIN outbox' /\ outbox'[i] = outbox[i]
        /\ \A i \in DOMAIN outbox' \ DOMAIN outbox : outbox'[i] = event
        /\ Emitted("RegisterClosed", s)'
    BY <1>3, <1>4, AppendedOutbox DEF Inv
  <1>6. RequestsFit' /\ request' \in [Operators -> SaleRequest \cup {Idle}]
    BY <1>3, <1>4, OthersStillFit DEF Exists, OutboxGrows
  <1>7. TypeOK'
    BY <1>2, <1>3, <1>5, <1>6 DEF Inv, TypeOK
  <1>8. OneOpenSessionPerRegister'
    BY <1>2, <1>3 DEF Inv, TypeOK, OneOpenSessionPerRegister
  <1>9. StateChangesAreInOutbox'
    <2>1. ASSUME NEW t \in Sessions, sessionTable'[t].status = "CLOSED"
          PROVE  Emitted("RegisterClosed", t)'
      BY <1>2, <1>3, <1>5, <2>1 DEF Inv, TypeOK, StateChangesAreInOutbox
    <2>2. ASSUME NEW x \in Sales, Exists(x)'
          PROVE  /\ saleTable'[x].completedAt => Emitted("SaleCompleted", x)'
                 /\ saleTable'[x].canceledAt \/ saleTable'[x].status = "CANCELED"
                      => Emitted("SaleCanceled", x)'
      BY <1>3, <1>5, <2>2 DEF Inv, StateChangesAreInOutbox, Exists
    <2> QED
      BY <2>1, <2>2 DEF StateChangesAreInOutbox
  <1>10. ReversalFollowsCompletion'
    <2> SUFFICES ASSUME NEW i \in DOMAIN outbox', outbox'[i].name = "SaleCanceled",
                        outbox'[i].previousStatus = "COMPLETED"
                 PROVE  \E j \in 1..(i - 1) :
                          /\ outbox'[j].name = "SaleCompleted"
                          /\ outbox'[j].aggregate = outbox'[i].aggregate
      BY DEF ReversalFollowsCompletion
    <2>1. i \in DOMAIN outbox
      BY <1>4, <1>5
    <2>2. \A j \in 1..(i - 1) : j \in DOMAIN outbox
      BY <2>1 DEF Inv, TypeOK
    <2> QED
      BY <1>5, <2>1, <2>2 DEF Inv, ReversalFollowsCompletion
  <1>11. PayloadsAddUp'
    BY <1>4, <1>5 DEF Inv, PayloadsAddUp
  <1> QED
    BY <1>6, <1>7, <1>8, <1>9, <1>10, <1>11 DEF Inv

LEMMA InsertSalePreservesInv ==
  ASSUME SaleConstants, Inv, NEW o \in Operators, InsertSale(o)
  PROVE  Inv'
  <1> DEFINE req == request[o]
  <1>1. /\ Finish(o) /\ UNCHANGED <<sessionTable, outbox>> /\ OutboxGrows
        /\ saleTable' = [saleTable EXCEPT ![req.sale] = req.copy]
    BY DEF InsertSale, OutboxGrows
  <1>2. /\ req.sale \in Sales /\ req.copy \in SaleRow
        /\ req.copy.status = "OPEN" /\ ~req.copy.completedAt /\ ~req.copy.canceledAt
    <2>1. /\ req.sale \in Sales /\ req.session \in Sessions
          /\ req.copy = Start(req.session)
      BY RequestInProgress DEF InsertSale, At, Fits
    <2> QED
      BY <2>1, StartIsTyped DEF Start
  <1>3. req.copy # NoSale
    BY <1>2 DEF NoSale
  <1>4. RequestsFit' /\ request' \in [Operators -> SaleRequest \cup {Idle}]
    BY <1>1, <1>2, <1>3, OthersStillFit DEF Exists, Inv, TypeOK
  <1>5. TypeOK'
    BY <1>1, <1>2, <1>4 DEF Inv, TypeOK
  <1>6. OneOpenSessionPerRegister'
    BY <1>1 DEF Inv, OneOpenSessionPerRegister
  <1>7. StateChangesAreInOutbox'
    BY <1>1, <1>2 DEF Inv, TypeOK, StateChangesAreInOutbox, Exists, Emitted
  <1>8. ReversalFollowsCompletion' /\ PayloadsAddUp'
    BY <1>1 DEF Inv, ReversalFollowsCompletion, PayloadsAddUp
  <1> QED
    BY <1>4, <1>5, <1>6, <1>7, <1>8 DEF Inv

\* What a save appends: nothing, or the one event of its operation.
LEMMA SaleEventIsAppended ==
  ASSUME Inv, NEW o \in Operators, UpdateSale(o)
  PROVE  \E event \in SaleEvent :
           /\ event.aggregate = request[o].sale /\ event.state = request[o].copy
           /\ event.previousStatus = request[o].previous
           /\ event.name = IF request[o].op = "complete" THEN "SaleCompleted"
                                                         ELSE "SaleCanceled"
           /\ request[o].op \in {"complete", "cancel"} => outbox' = Append(outbox, event)
           /\ request[o].op \notin {"complete", "cancel"} => outbox' = outbox
  <1>1. PICK req : req = request[o]
    OBVIOUS
  <1> DEFINE event == [name |-> IF req.op = "complete" THEN "SaleCompleted"
                                                       ELSE "SaleCanceled",
                       aggregate |-> req.sale, previousStatus |-> req.previous,
                       state |-> req.copy]
             emits == req.op \in {"complete", "cancel"}
  <1>2. req.sale \in Sales /\ req.previous \in Status /\ req.copy \in SaleRow
    BY <1>1, RequestInProgress DEF UpdateSale, At, Fits, HasCopy, Sound
  <1>3. /\ event \in SaleEvent
        /\ event.aggregate = req.sale /\ event.state = req.copy
        /\ event.previousStatus = req.previous
        /\ event.name = IF req.op = "complete" THEN "SaleCompleted" ELSE "SaleCanceled"
    BY <1>2 DEF SaleEvent
  <1>4. outbox' = outbox \o EventsOf(req) /\ outbox \in Seq(SaleEvent \cup SessionEvent)
    BY <1>1 DEF UpdateSale, Inv, TypeOK
  <1>5. emits => EventsOf(req) = <<event>>
    BY <1>1 DEF EventsOf
  <1>6. ~emits => EventsOf(req) = <<>>
    BY DEF EventsOf
  <1> HIDE DEF event
  <1>7. outbox \o <<event>> = Append(outbox, event) /\ outbox \o <<>> = outbox
    BY <1>3, <1>4
  <1> QED
    BY <1>1, <1>3, <1>4, <1>5, <1>6, <1>7

LEMMA UpdateSalePreservesInv ==
  ASSUME Inv, NEW o \in Operators, UpdateSale(o)
  PROVE  Inv'
  <1>1. PICK req, x, copy : req = request[o] /\ x = req.sale /\ copy = req.copy
    OBVIOUS
  <1>2. /\ req \in SaleRequest /\ req.op \in SaleOps /\ x \in Sales /\ Exists(x)
        /\ req.previous \in Status /\ Sound(copy) /\ req.base \in SaleRow
        /\ CopyIsInOutbox(req) /\ HasCopy(req)
    BY <1>1, RequestInProgress DEF UpdateSale, At, Fits, HasCopy
  <1>3. saleTable[x] \in SaleRow /\ copy \in SaleRow
    BY <1>2 DEF Inv, TypeOK, Exists, Sound
  <1>4. PICK new : new = Merge(saleTable[x], req.base, copy)
    OBVIOUS
  <1>5. /\ new \in SaleRow /\ new # NoSale
        /\ new.completedAt \in {saleTable[x].completedAt, copy.completedAt}
        /\ new.canceledAt \in {saleTable[x].canceledAt, copy.canceledAt}
        /\ new.status \in {saleTable[x].status, copy.status}
    BY <1>2, <1>3, <1>4, MergeIsTyped DEF SaleRow, NoSale, Status
  <1> DEFINE emits == req.op \in {"complete", "cancel"}
  <1>6. PICK event \in SaleEvent :
          /\ event.aggregate = x /\ event.state = copy
          /\ event.previousStatus = req.previous
          /\ event.name = IF req.op = "complete" THEN "SaleCompleted" ELSE "SaleCanceled"
          /\ emits => outbox' = Append(outbox, event)
          /\ ~emits => outbox' = outbox
    BY <1>1, SaleEventIsAppended
  <1>7. /\ Finish(o) /\ UNCHANGED sessionTable
        /\ saleTable' = [saleTable EXCEPT ![x] = new]
    BY <1>1, <1>4 DEF UpdateSale
  <1>9. /\ OutboxGrows /\ outbox' \in Seq(SaleEvent \cup SessionEvent)
        /\ \A name, a : Emitted(name, a) => Emitted(name, a)'
        /\ \A i \in DOMAIN outbox : i \in DOMAIN outbox' /\ outbox'[i] = outbox[i]
        /\ \A i \in DOMAIN outbox' \ DOMAIN outbox :
             outbox'[i] = event /\ DOMAIN outbox = 1..(i - 1)
        /\ req.op = "complete" => Emitted("SaleCompleted", x)'
        /\ req.op = "cancel" => Emitted("SaleCanceled", x)'
    <2>1. CASE emits
      BY <1>6, <2>1, AppendedOutbox DEF Inv, OutboxGrows
    <2>2. CASE ~emits
      BY <1>6, <2>2 DEF Inv, TypeOK, OutboxGrows, Emitted
    <2> QED
      BY <2>1, <2>2
  <1>10. RequestsFit' /\ request' \in [Operators -> SaleRequest \cup {Idle}]
    BY <1>2, <1>5, <1>7, <1>9, OthersStillFit DEF Exists, Inv, TypeOK
  <1>11. TypeOK'
    BY <1>2, <1>5, <1>7, <1>9, <1>10 DEF Inv, TypeOK
  <1>12. OneOpenSessionPerRegister'
    BY <1>7 DEF Inv, OneOpenSessionPerRegister
  <1>13. StateChangesAreInOutbox'
    <2>1. ASSUME NEW s \in Sessions, sessionTable'[s].status = "CLOSED"
          PROVE  Emitted("RegisterClosed", s)'
      BY <1>7, <1>9, <2>1 DEF Inv, StateChangesAreInOutbox
    <2>2. ASSUME NEW y \in Sales, Exists(y)', y # x
          PROVE  /\ saleTable'[y].completedAt => Emitted("SaleCompleted", y)'
                 /\ saleTable'[y].canceledAt \/ saleTable'[y].status = "CANCELED"
                      => Emitted("SaleCanceled", y)'
      <3>1. saleTable'[y] = saleTable[y]
        BY <1>7, <2>2 DEF Inv, TypeOK
      <3> QED
        BY <1>9, <2>2, <3>1 DEF Inv, StateChangesAreInOutbox, Exists
    <2>3. saleTable'[x] = new
      BY <1>2, <1>7 DEF Inv, TypeOK
    <2>4. saleTable[x].completedAt \/ copy.completedAt =>
            Emitted("SaleCompleted", x)'
      BY <1>1, <1>2, <1>9 DEF Inv, StateChangesAreInOutbox, CopyIsInOutbox
    <2>5. \/ saleTable[x].canceledAt \/ saleTable[x].status = "CANCELED"
          \/ copy.canceledAt \/ copy.status = "CANCELED"
          => Emitted("SaleCanceled", x)'
      BY <1>1, <1>2, <1>9 DEF Inv, StateChangesAreInOutbox, CopyIsInOutbox
    <2>6. /\ saleTable'[x].completedAt => Emitted("SaleCompleted", x)'
          /\ saleTable'[x].canceledAt \/ saleTable'[x].status = "CANCELED"
               => Emitted("SaleCanceled", x)'
      BY <1>5, <2>3, <2>4, <2>5
    <2> QED
      BY <2>1, <2>2, <2>6 DEF StateChangesAreInOutbox
  <1>14. ReversalFollowsCompletion'
    <2> SUFFICES ASSUME NEW i \in DOMAIN outbox', outbox'[i].name = "SaleCanceled",
                        outbox'[i].previousStatus = "COMPLETED"
                 PROVE  \E j \in 1..(i - 1) :
                          /\ outbox'[j].name = "SaleCompleted"
                          /\ outbox'[j].aggregate = outbox'[i].aggregate
      BY DEF ReversalFollowsCompletion
    <2>1. CASE i \in DOMAIN outbox
      <3>1. \A j \in 1..(i - 1) : j \in DOMAIN outbox
        BY <2>1 DEF Inv, TypeOK
      <3> QED
        BY <1>9, <2>1, <3>1 DEF Inv, ReversalFollowsCompletion
    <2>2. CASE i \notin DOMAIN outbox
      <3>1. outbox'[i] = event /\ DOMAIN outbox = 1..(i - 1)
        BY <1>9, <2>2
      <3>2. Emitted("SaleCompleted", x)
        BY <1>1, <1>2, <1>6, <3>1 DEF CopyIsInOutbox
      <3> QED
        BY <1>6, <1>9, <3>1, <3>2 DEF Emitted
    <2> QED
      BY <2>1, <2>2
  <1>15. PayloadsAddUp'
    BY <1>2, <1>6, <1>9 DEF Inv, PayloadsAddUp, Sound
  <1> QED
    BY <1>10, <1>11, <1>12, <1>13, <1>14, <1>15 DEF Inv

\* Every step preserves the invariant.
LEMMA InvIsInductive ==
  ASSUME SaleConstants, Inv, [Next]_vars
  PROVE  Inv'
  <1>1. ASSUME NEW o \in Operators, Rollback(o) PROVE Inv'
    BY <1>1, FinishStep DEF Rollback
  <1>2. CASE UNCHANGED vars
    BY <1>2 DEF vars, Inv, TypeOK, RequestsFit, Fits, CopyIsInOutbox, HasCopy,
                Exists, Emitted, OneOpenSessionPerRegister, StateChangesAreInOutbox,
                ReversalFollowsCompletion, PayloadsAddUp
  <1> QED
    BY <1>1, <1>2, BeginPreservesInv, ReadPreservesInv, InsertSessionPreservesInv,
       UpdateSessionPreservesInv, InsertSalePreservesInv, UpdateSalePreservesInv
       DEF Next, Write

-----------------------------------------------------------------------------
\* The tables, the outbox and the memory of the requests keep their types.
THEOREM CheckoutTypesHold ==
  ASSUME SaleConstants
  PROVE  Spec => []TypeOK
  <1>1. Init => Inv
    BY InvHoldsInitially
  <1>2. Inv /\ [Next]_vars => Inv'
    BY InvIsInductive
  <1>3. Inv => TypeOK
    BY DEF Inv
  <1> QED
    BY <1>1, <1>2, <1>3, PTL DEF Spec

\* For any number of concurrent requests to open and close sessions, a register
\* has at most one open session (uq_pos_sessions_open_register).
THEOREM RegistersHaveOneOpenSession ==
  ASSUME SaleConstants
  PROVE  Spec => []OneOpenSessionPerRegister
  <1>1. Init => Inv
    BY InvHoldsInitially
  <1>2. Inv /\ [Next]_vars => Inv'
    BY InvIsInductive
  <1>3. Inv => OneOpenSessionPerRegister
    BY DEF Inv
  <1> QED
    BY <1>1, <1>2, <1>3, PTL DEF Spec

\* The transactional outbox: whichever requests interleave on a sale, fail or
\* overwrite each other, what the tables say was completed, canceled or closed
\* has its event.
THEOREM OutboxRecordsEveryChange ==
  ASSUME SaleConstants
  PROVE  Spec => []StateChangesAreInOutbox
  <1>1. Init => Inv
    BY InvHoldsInitially
  <1>2. Inv /\ [Next]_vars => Inv'
    BY InvIsInductive
  <1>3. Inv => StateChangesAreInOutbox
    BY DEF Inv
  <1> QED
    BY <1>1, <1>2, <1>3, PTL DEF Spec

\* A cancellation that asks the consumers to undo a completed sale (previous
\* status COMPLETED) comes after that sale's completion in the outbox.
THEOREM ReversalsFollowCompletions ==
  ASSUME SaleConstants
  PROVE  Spec => []ReversalFollowsCompletion
  <1>1. Init => Inv
    BY InvHoldsInitially
  <1>2. Inv /\ [Next]_vars => Inv'
    BY InvIsInductive
  <1>3. Inv => ReversalFollowsCompletion
    BY DEF Inv
  <1> QED
    BY <1>1, <1>2, <1>3, PTL DEF Spec

\* The totals in every event are the sums over the event's own items, although
\* concurrent requests may leave a row whose totals and items disagree.
THEOREM EventTotalsAddUp ==
  ASSUME SaleConstants
  PROVE  Spec => []PayloadsAddUp
  <1>1. Init => Inv
    BY InvHoldsInitially
  <1>2. Inv /\ [Next]_vars => Inv'
    BY InvIsInductive
  <1>3. Inv => PayloadsAddUp
    BY DEF Inv
  <1> QED
    BY <1>1, <1>2, <1>3, PTL DEF Spec

-----------------------------------------------------------------------------
(* What a request relies on, however the requests overlap: the ids it will *)
(* insert are still free, the rows it refers to are there, and the copy of *)
(* a sale has the status its operation decided on.                         *)

\* The request q does not use the id of the session or sale r will insert.
Apart(r, q) ==
  /\ r.op = "open" => q.session # r.session
  /\ r.op = "start" /\ r.pc = "write" => q.sale # r.sale

\* No other request uses the id of the session or sale that r will insert.
Reserved(o, r) == \A c \in Operators \ {o} : Apart(r, request[c])

Existing(s) == sessionTable[s] # NoSession

\* The status an operation finds in a sale and the one it leaves.
Decides(op, old, new) ==
  /\ op \in {"add", "remove"} => old = "OPEN" /\ new = "OPEN"
  /\ op = "pay"      => old = "OPEN" /\ new = "PAID"
  /\ op = "complete" => old = "PAID" /\ new = "COMPLETED"
  /\ op = "cancel"   => old # "CANCELED" /\ new = "CANCELED"

\* What a request relies on besides Fits, however the requests overlap.
Pending(r) ==
  /\ r.op = "open" => ~Existing(r.session)
  /\ r.op \in {"start", "close"} => Existing(r.session)
  /\ r.op = "start" /\ r.pc = "write" => ~Exists(r.sale)
  /\ r.pc = "findCatalog" => r.op = "add"
  /\ HasCopy(r) =>
       /\ r.session = saleTable[r.sale].session /\ r.copy.session = r.session
       /\ r.pc \in {"findSession", "findCatalog"} => r.copy.status = r.previous
       /\ r.pc \in {"select", "write"} => Decides(r.op, r.previous, r.copy.status)

RequestsPending ==
  \A o \in Operators : Pending(request[o]) /\ Reserved(o, request[o])

SalesInSessions == \A x \in Sales : Exists(x) => Existing(saleTable[x].session)

PendingInv == Inv /\ RequestsPending /\ SalesInSessions

\* The ids v uses are not ones that another request is about to insert.
Uses(o, v) ==
  /\ \/ v.session \in {request[o].session, None}
     \/ v.session \in Sessions /\ (Existing(v.session) \/ SessionIsNew(v.session))
  /\ \/ v.sale \in {request[o].sale, None}
     \/ v.sale \in Sales /\ (Exists(v.sale) \/ SaleIsNew(v.sale))

LEMMA UsedIsApart ==
  ASSUME CheckoutConstants, PendingInv, NEW o \in Operators,
         NEW c \in Operators \ {o}, NEW v, Uses(o, v)
  PROVE  Apart(request[c], v)
  <1>1. PICK w : w = request[c] /\ Fits(w) /\ Pending(w) /\ Apart(w, request[o])
    BY DEF PendingInv, Inv, RequestsFit, RequestsPending, Reserved
  <1>2. ASSUME w.op = "open"
        PROVE  v.session # w.session
    <2>1. w.session \in Sessions /\ ~Existing(w.session) /\ request[o].session # w.session
      BY <1>1, <1>2 DEF Fits, Pending, Apart
    <2>2. w.session # None
      BY <2>1 DEF CheckoutConstants
    <2> QED
      BY <1>1, <2>1, <2>2 DEF Uses, SessionIsNew
  <1>3. ASSUME w.op = "start", w.pc = "write"
        PROVE  v.sale # w.sale
    <2>1. w.sale \in Sales /\ ~Exists(w.sale) /\ request[o].sale # w.sale
      BY <1>1, <1>3 DEF Fits, Pending, Apart
    <2>2. w.sale # None
      BY <2>1 DEF CheckoutConstants
    <2> QED
      BY <1>1, <2>1, <2>2 DEF Uses, SaleIsNew
  <1> QED
    BY <1>1, <1>2, <1>3 DEF Apart

\* A step that changes nothing but the memory of one request.
LEMMA PendingStep ==
  ASSUME CheckoutConstants, PendingInv, Inv',
         NEW o \in Operators, NEW v, Goto(o, v),
         UNCHANGED <<sessionTable, saleTable, outbox>>,
         Pending(v), Reserved(o, v), Uses(o, v)
  PROVE  PendingInv'
  <1>1. /\ request' = [request EXCEPT ![o] = v]
        /\ request'[o] = v /\ \A c \in Operators \ {o} : request'[c] = request[c]
    BY DEF Goto, PendingInv, Inv, TypeOK
  <1>2. SalesInSessions'
    BY DEF PendingInv, SalesInSessions, Exists, Existing
  <1>3. ASSUME NEW c \in Operators
        PROVE  Pending(request[c])' /\ Reserved(c, request[c])'
    <2>1. PICK w : w = request'[c] /\ Pending(w) /\ Reserved(c, w)
      BY <1>1 DEF PendingInv, RequestsPending
    <2>2. Pending(w)'
      BY <2>1 DEF Pending, HasCopy, Exists, Existing
    <2>3. ASSUME NEW d \in Operators \ {c}
          PROVE  Apart(w, request'[d])
      <3>1. CASE d # o
        BY <1>1, <2>1, <3>1 DEF Reserved
      <3>2. CASE d = o
        BY <1>1, <2>1, <3>2, UsedIsApart
      <3> QED
        BY <3>1, <3>2
    <2> QED
      BY <2>1, <2>2, <2>3 DEF Reserved, Apart
  <1> QED
    BY <1>2, <1>3 DEF PendingInv, RequestsPending

\* An idle request relies on nothing.
LEMMA IdleIsPending ==
  ASSUME NEW o \in Operators
  PROVE  Pending(Idle) /\ Reserved(o, Idle) /\ Uses(o, Idle)
  BY DEF Pending, Idle, HasCopy, SaleOps, Reserved, Apart, Uses

\* A request that ends, having changed nothing else.
LEMMA PendingFinish ==
  ASSUME CheckoutConstants, PendingInv, Inv',
         NEW o \in Operators, Finish(o),
         UNCHANGED <<sessionTable, saleTable, outbox>>
  PROVE  PendingInv'
  BY IdleIsPending, PendingStep DEF Finish

\* What a commit of o may change: rows are added under the ids o had reserved,
\* and a sale stays in its session.
Commits(o) ==
  /\ \A s \in Sessions : Existing(s) => Existing(s)'
  /\ \A s \in Sessions : Existing(s)' =>
       \/ Existing(s)
       \/ request[o].op = "open" /\ request[o].session = s
  /\ \A x \in Sales : Exists(x) =>
       Exists(x)' /\ saleTable'[x].session = saleTable[x].session
  /\ \A x \in Sales : Exists(x)' =>
       \/ Exists(x)
       \/ /\ request[o].op = "start" /\ request[o].pc = "write"
          /\ request[o].sale = x /\ Existing(saleTable[x].session)'

\* A request that commits leaves the others what they rely on.
LEMMA PendingCommit ==
  ASSUME CheckoutConstants, PendingInv, Inv',
         NEW o \in Operators, Finish(o), Commits(o)
  PROVE  PendingInv'
  <1>1. /\ request' = [request EXCEPT ![o] = Idle]
        /\ request'[o] = Idle /\ \A c \in Operators \ {o} : request'[c] = request[c]
    BY DEF Finish, Goto, PendingInv, Inv, TypeOK
  <1>2. SalesInSessions'
    <2> SUFFICES ASSUME NEW x \in Sales, Exists(x)'
                 PROVE  Existing(saleTable[x].session)'
      BY DEF SalesInSessions
    <2>1. CASE Exists(x)
      <3>1. PICK s : s = saleTable[x].session /\ s = saleTable'[x].session
        BY <2>1 DEF Commits
      <3>2. s \in Sessions /\ Existing(s)
        BY <2>1, <3>1 DEF PendingInv, Inv, TypeOK, SalesInSessions, SaleRow, Exists
      <3> QED
        BY <3>1, <3>2 DEF Commits, Existing
    <2>2. CASE ~Exists(x)
      BY <2>2 DEF Commits
    <2> QED
      BY <2>1, <2>2
  <1>3. ASSUME NEW c \in Operators
        PROVE  Pending(request[c])' /\ Reserved(c, request[c])'
    <2>1. CASE c = o
      BY <1>1, <2>1 DEF Pending, Idle, HasCopy, SaleOps, Reserved, Apart
    <2>2. CASE c # o
      <3>1. PICK w : /\ w = request[c] /\ w = request'[c] /\ Fits(w) /\ Pending(w)
                     /\ Reserved(c, w) /\ Apart(request[o], w)
        BY <1>1, <2>2 DEF PendingInv, Inv, RequestsFit, RequestsPending, Reserved
      <3>2. w.op = "open" => ~Existing(w.session)'
        BY <3>1 DEF Commits, Fits, Pending, Apart
      <3>3. w.op \in {"start", "close"} => Existing(w.session)'
        BY <3>1 DEF Commits, Fits, Pending
      <3>4. w.op = "start" /\ w.pc = "write" => ~Exists(w.sale)'
        BY <3>1 DEF Commits, Fits, Pending, Apart
      <3>5. HasCopy(w) => saleTable'[w.sale].session = saleTable[w.sale].session
        BY <3>1 DEF Commits, Fits, HasCopy
      <3>6. Pending(w)'
        BY <3>1, <3>2, <3>3, <3>4, <3>5 DEF Pending, HasCopy, Exists, Existing
      <3>7. ASSUME NEW d \in Operators \ {c}
            PROVE  Apart(w, request'[d])
        <4>1. CASE d # o
          BY <1>1, <3>1, <4>1 DEF Reserved
        <4>2. CASE d = o
          BY <1>1, <3>1, <4>2, IdleIsPending, UsedIsApart, <2>2
        <4> QED
          BY <4>1, <4>2
      <3> QED
        BY <3>1, <3>6, <3>7 DEF Reserved, Apart
    <2> QED
      BY <2>1, <2>2
  <1> QED
    BY <1>2, <1>3 DEF PendingInv, RequestsPending

\* What a domain method decides, and that it leaves the sale in its session.
LEMMA MethodsDecide ==
  ASSUME SaleConstants, NEW op \in SaleOps \ {"add"}, NEW sale \in SaleRow,
         NEW new \in Applied(op, sale)
  PROVE  Decides(op, sale.status, new.status) /\ new.session = sale.session
  <1>1. CASE op = "remove"
    <2>1. PICK pn \in Products \X (1..MaxQty) :
            CanRemoveItem(sale, pn[1], pn[2]) /\ new = RemoveItem(sale, pn[1], pn[2])
      BY <1>1 DEF Applied
    <2>2. PICK cart \in Carts : new = RecalculateTotals(sale, cart)
      BY <2>1, RemovedCartIsCart
    <2>3. sale.status = "OPEN"
      BY <2>1 DEF CanRemoveItem, IsOpen
    <2> QED
      BY <1>1, <2>2, <2>3, RecalculatedIsTyped DEF Decides
  <1>2. CASE op = "pay"
    <2>1. PICK pay \in Payment :
            CanRegisterPayment(sale, pay) /\ new = RegisterPayment(sale, pay)
      BY <1>2 DEF Applied
    <2> QED
      BY <1>2, <2>1 DEF CanRegisterPayment, IsOpen, RegisterPayment, Decides, SaleRow
  <1>3. CASE op = "complete"
    <2>1. CanComplete(sale) /\ new = Complete(sale)
      BY <1>3 DEF Applied
    <2> QED
      BY <1>3, <2>1 DEF CanComplete, Complete, Decides, SaleRow
  <1>4. CASE op = "cancel"
    <2>1. sale.status # "CANCELED" /\ new = Cancel(sale)
      BY <1>4 DEF Applied, CanCancel
    <2> QED
      BY <1>4, <2>1 DEF Cancel, Decides, SaleRow
  <1> QED
    BY <1>1, <1>2, <1>3, <1>4 DEF SaleOps

LEMMA PendingInvInitially ==
  ASSUME CheckoutConstants, Init
  PROVE  PendingInv
  <1>1. Inv
    BY InvHoldsInitially
  <1>2. RequestsPending /\ SalesInSessions
    BY IdleIsPending
       DEF Init, RequestsPending, SalesInSessions, Exists, Reserved, Apart, Idle
  <1> QED
    BY <1>1, <1>2 DEF PendingInv

\* A new request reserves a free id or uses rows that are there.
LEMMA BeginKeepsPending ==
  ASSUME CheckoutConstants, PendingInv, Inv',
         NEW o \in Operators,
         BeginOpenSession(o) \/ BeginStartSale(o) \/ BeginCloseSession(o)
           \/ BeginOnSale(o)
  PROVE  PendingInv'
  <1> USE DEF Begin
  <1>1. CASE BeginOpenSession(o)
    <2>1. PICK s \in Sessions, r \in Registers :
            /\ SessionIsNew(s)
            /\ Begin(o, "open", s, None,
                     [status |-> "OPEN", register |-> r, operator |-> o], "findOpen")
      BY <1>1 DEF BeginOpenSession
    <2> DEFINE v == [Idle EXCEPT !.pc = "findOpen", !.op = "open", !.session = s,
                                 !.sale = None,
                                 !.pos = [status |-> "OPEN", register |-> r, operator |-> o]]
    <2>2. /\ v.op = "open" /\ v.pc = "findOpen" /\ v.session = s /\ v.sale = None
      BY DEF Idle
    <2>3. Goto(o, v)
      BY <2>1
    <2> HIDE DEF v
    <2>4. Pending(v) /\ Reserved(o, v) /\ Uses(o, v)
      BY <2>1, <2>2 DEF Pending, HasCopy, SaleOps, Reserved, Apart, Uses,
                        SessionIsNew, Existing
    <2> QED
      BY <2>1, <2>3, <2>4, PendingStep
  <1>2. CASE BeginStartSale(o)
    <2>1. PICK s \in Sessions :
            Existing(s) /\ Begin(o, "start", s, None, NoSession, "findSession")
      BY <1>2 DEF BeginStartSale, MayUse, Existing
    <2> DEFINE v == [Idle EXCEPT !.pc = "findSession", !.op = "start", !.session = s,
                                 !.sale = None, !.pos = NoSession]
    <2>2. v.op = "start" /\ v.pc = "findSession" /\ v.session = s /\ v.sale = None
      BY DEF Idle
    <2>3. Goto(o, v)
      BY <2>1
    <2> HIDE DEF v
    <2>4. Pending(v) /\ Reserved(o, v) /\ Uses(o, v)
      BY <2>1, <2>2 DEF Pending, HasCopy, SaleOps, Reserved, Apart, Uses
    <2> QED
      BY <2>1, <2>3, <2>4, PendingStep
  <1>3. CASE BeginCloseSession(o)
    <2>1. PICK s \in Sessions :
            /\ Existing(s)
            /\ Begin(o, "close", s, None, NoSession, "findSession")
      BY <1>3 DEF BeginCloseSession, MayUse, Existing
    <2> DEFINE v == [Idle EXCEPT !.pc = "findSession", !.op = "close", !.session = s,
                                 !.sale = None, !.pos = NoSession]
    <2>2. v.op = "close" /\ v.pc = "findSession" /\ v.session = s /\ v.sale = None
      BY DEF Idle
    <2>3. Goto(o, v)
      BY <2>1
    <2> HIDE DEF v
    <2>4. Pending(v) /\ Reserved(o, v) /\ Uses(o, v)
      BY <2>1, <2>2 DEF Pending, HasCopy, SaleOps, Reserved, Apart, Uses
    <2> QED
      BY <2>1, <2>3, <2>4, PendingStep
  <1>4. CASE BeginOnSale(o)
    <2>1. PICK x \in Sales, op \in SaleOps :
            /\ Exists(x)
            /\ Begin(o, op, None, x, NoSession, "findSale")
      BY <1>4 DEF BeginOnSale, Exists
    <2> DEFINE v == [Idle EXCEPT !.pc = "findSale", !.op = op, !.session = None,
                                 !.sale = x, !.pos = NoSession]
    <2>2. v.op = op /\ v.pc = "findSale" /\ v.session = None /\ v.sale = x
      BY DEF Idle
    <2>3. Goto(o, v)
      BY <2>1
    <2> HIDE DEF v
    <2>4. Pending(v) /\ Reserved(o, v) /\ Uses(o, v)
      BY <2>1, <2>2 DEF Pending, HasCopy, SaleOps, Reserved, Apart, Uses
    <2> QED
      BY <2>1, <2>2, <2>3, <2>4, PendingStep
  <1> QED
    BY <1>1, <1>2, <1>3, <1>4

\* A statement that reads, by the request it leaves: the ids stay, or they are
\* those of rows that are there, or a new one.
LEMMA ReadKeepsPending ==
  ASSUME SaleConstants, CheckoutConstants, PendingInv,
         Inv', NEW o \in Operators, Read(o)
  PROVE  PendingInv'
  <1>1. PICK req : req = request[o]
    OBVIOUS
  <1>2. req.pc # "idle" =>
          req \in SaleRequest /\ Fits(req) /\ Pending(req) /\ Reserved(o, req)
    BY <1>1, RequestInProgress DEF PendingInv, RequestsPending
  <1>3. UNCHANGED <<sessionTable, saleTable, outbox>> /\ req.pc # "idle"
    BY <1>1 DEF Read, FindOpen, FindSale, FindSessionToStart, FindSessionToClose,
       CountSales, FindSessionOfSale, FindCatalog, SelectSale, At
  <1>4. CASE Finish(o)
    BY <1>3, <1>4, PendingFinish
  <1>5. ASSUME NEW v, Goto(o, v), v.op = req.op, v.session = req.session,
               v.sale = req.sale, Pending(v),
               v.op = "start" => v.pc # "write"
        PROVE  PendingInv'
    <2>1. Reserved(o, v) /\ Uses(o, v)
      BY <1>1, <1>2, <1>3, <1>5 DEF Reserved, Apart, Uses
    <2> QED
      BY <1>1, <1>3, <1>5, <2>1, PendingStep
  <1>6. CASE FindOpen(o)
    <2>1. req.op = "open"
      BY <1>1, <1>2, <1>3, <1>6 DEF FindOpen, At, Fits
    <2> DEFINE v == [req EXCEPT !.pc = "write"]
    <2>2. CASE Goto(o, v)
      <3>1. v.op = "open" /\ v.session = req.session /\ v.sale = req.sale
        BY <1>2, <1>3, <2>1 DEF SaleRequest
      <3>2. Pending(v)
        BY <1>2, <1>3, <2>1, <3>1 DEF Pending, HasCopy, SaleOps, SaleRequest
      <3> QED
        BY <1>5, <2>1, <2>2, <3>1, <3>2
    <2> QED
      BY <1>1, <1>4, <1>6, <2>2 DEF FindOpen
  <1>7. CASE FindSale(o)
    <2>1. req.op \in SaleOps /\ req.sale \in Sales /\ Exists(req.sale)
      BY <1>1, <1>2, <1>3, <1>7 DEF FindSale, At, Fits
    <2>2. PICK row : row = saleTable[req.sale]
      OBVIOUS
    <2>3. row \in SaleRow /\ row.session \in Sessions /\ Existing(row.session)
      BY <2>1, <2>2 DEF PendingInv, Inv, TypeOK, Exists, SalesInSessions, SaleRow
    <2> DEFINE v == [req EXCEPT !.pc = "findSession", !.session = row.session,
                                !.previous = row.status, !.copy = row]
    <2>4. CASE Goto(o, v)
      <3>1. /\ v.op = req.op /\ v.session = row.session /\ v.sale = req.sale
            /\ v.pc = "findSession" /\ v.copy = row /\ v.previous = row.status
        BY <1>2, <1>3 DEF SaleRequest
      <3> HIDE DEF v
      <3>2. Pending(v)
        BY <2>1, <2>2, <3>1 DEF Pending, HasCopy, SaleOps
      <3>3. Reserved(o, v)
        BY <2>1, <3>1 DEF Reserved, Apart, SaleOps
      <3>4. Uses(o, v)
        BY <1>1, <2>3, <3>1 DEF Uses
      <3> QED
        BY <1>1, <1>3, <2>4, <3>1, <3>2, <3>3, <3>4, PendingStep DEF v
    <2> QED
      BY <1>1, <1>4, <1>7, <2>2, <2>4 DEF FindSale
  <1>8. CASE FindSessionToStart(o)
    <2>1. req.op = "start" /\ req.pc = "findSession"
      BY <1>1, <1>8 DEF FindSessionToStart, At
    <2>2. ASSUME NEW x \in Sales, SaleIsNew(x),
                 Goto(o, [req EXCEPT !.pc = "write", !.sale = x,
                                     !.copy = Start(req.session)])
          PROVE  PendingInv'
      <3> DEFINE v == [req EXCEPT !.pc = "write", !.sale = x,
                                  !.copy = Start(req.session)]
      <3>1. v.op = "start" /\ v.session = req.session /\ v.sale = x /\ v.pc = "write"
        BY <1>2, <1>3, <2>1 DEF SaleRequest
      <3>2. Goto(o, v)
        BY <2>2
      <3> HIDE DEF v
      <3>3. Pending(v)
        BY <1>2, <1>3, <2>1, <2>2, <3>1
           DEF Pending, HasCopy, SaleOps, SaleIsNew, Exists
      <3>4. Reserved(o, v) /\ Uses(o, v)
        BY <1>1, <2>2, <3>1 DEF Reserved, Apart, Uses, SaleIsNew
      <3> QED
        BY <1>3, <3>2, <3>3, <3>4, PendingStep
    <2> QED
      BY <1>1, <1>4, <1>8, <2>2 DEF FindSessionToStart
  <1>9. CASE FindSessionToClose(o)
    <2>1. req.op = "close" /\ req.pc = "findSession"
      BY <1>1, <1>9 DEF FindSessionToClose, At
    <2> DEFINE v == [req EXCEPT !.pc = "countSales", !.pos = Loaded(o)]
    <2>2. v.op = "close" /\ v.session = req.session /\ v.sale = req.sale
          /\ v.pc = "countSales"
      BY <1>2, <1>3, <2>1 DEF SaleRequest
    <2>3. Goto(o, v)
      BY <1>1, <1>9 DEF FindSessionToClose
    <2> HIDE DEF v
    <2>4. Pending(v)
      BY <1>2, <1>3, <2>1, <2>2 DEF Pending, HasCopy, SaleOps
    <2> QED
      BY <1>5, <2>1, <2>2, <2>3, <2>4
  <1>10. CASE CountSales(o)
    <2>1. req.op = "close"
      BY <1>1, <1>2, <1>3, <1>10 DEF CountSales, At, Fits
    <2> DEFINE v == [req EXCEPT !.pc = "write", !.pos.status = "CLOSED"]
    <2>2. CASE Goto(o, v)
      <3>1. /\ v.op = "close" /\ v.session = req.session /\ v.sale = req.sale
            /\ v.pc = "write"
        BY <1>2, <1>3, <2>1 DEF SaleRequest
      <3> HIDE DEF v
      <3>2. Pending(v)
        BY <1>2, <1>3, <2>1, <3>1 DEF Pending, HasCopy, SaleOps
      <3> QED
        BY <1>5, <2>1, <2>2, <3>1, <3>2
    <2> QED
      BY <1>1, <1>4, <1>10, <2>2 DEF CountSales
  <1>11. CASE FindSessionOfSale(o)
    <2>1. req.op \in SaleOps /\ req.pc = "findSession" /\ HasCopy(req)
      BY <1>1, <1>11 DEF FindSessionOfSale, At, HasCopy
    <2>2. /\ req.session = saleTable[req.sale].session
          /\ req.copy.session = req.session /\ req.copy.status = req.previous
          /\ req.copy \in SaleRow
      BY <1>2, <1>3, <2>1 DEF Pending, Fits, Sound
    <2>3. CASE req.op = "add" /\ Goto(o, [req EXCEPT !.pc = "findCatalog"])
      <3> DEFINE v == [req EXCEPT !.pc = "findCatalog"]
      <3>1. /\ v.op = "add" /\ v.session = req.session /\ v.sale = req.sale
            /\ v.pc = "findCatalog" /\ v.copy = req.copy /\ v.previous = req.previous
        BY <1>2, <1>3, <2>3 DEF SaleRequest
      <3>2. Goto(o, v)
        BY <2>3
      <3> HIDE DEF v
      <3>3. Pending(v)
        BY <2>2, <3>1 DEF Pending, HasCopy
      <3> QED
        BY <1>5, <2>3, <3>1, <3>2, <3>3
    <2>4. ASSUME req.op # "add", NEW sale \in Applied(req.op, req.copy),
                 Goto(o, [req EXCEPT !.pc = "select", !.copy = sale])
          PROVE  PendingInv'
      <3> DEFINE v == [req EXCEPT !.pc = "select", !.copy = sale]
      <3>1. /\ v.op = req.op /\ v.session = req.session /\ v.sale = req.sale
            /\ v.pc = "select" /\ v.copy = sale /\ v.previous = req.previous
        BY <1>2, <1>3 DEF SaleRequest
      <3>2. Goto(o, v)
        BY <2>4
      <3>3. Decides(req.op, req.previous, sale.status) /\ sale.session = req.session
        BY <2>1, <2>2, <2>4, MethodsDecide
      <3> HIDE DEF v
      <3>4. Pending(v)
        BY <2>1, <2>2, <3>1, <3>3 DEF Pending, HasCopy, SaleOps
      <3> QED
        BY <1>5, <3>1, <3>2, <3>4
    <2> QED
      BY <1>1, <1>4, <1>11, <2>3, <2>4 DEF FindSessionOfSale
  <1>12. CASE FindCatalog(o)
    <2>1. req.op = "add" /\ req.pc = "findCatalog" /\ HasCopy(req)
      BY <1>1, <1>2, <1>3, <1>12 DEF FindCatalog, At, Pending, HasCopy, SaleOps
    <2>2. /\ req.session = saleTable[req.sale].session
          /\ req.copy.session = req.session /\ req.copy.status = req.previous
          /\ req.copy \in SaleRow
      BY <1>2, <1>3, <2>1 DEF Pending, Fits, Sound
    <2>3. ASSUME NEW p \in Products, NEW n \in 1..MaxQty, NEW price \in Prices,
                 CanAddItem(req.copy, p, n),
                 Goto(o, [req EXCEPT !.pc = "select",
                                     !.copy = AddItem(req.copy, p, n, price)])
          PROVE  PendingInv'
      <3>1. PICK new : new = AddItem(req.copy, p, n, price)
        OBVIOUS
      <3>2. new.status = req.copy.status /\ new.session = req.session
        BY <2>2, <2>3, <3>1, AddedCartIsCart, RecalculatedIsTyped
      <3>3. req.previous = "OPEN"
        BY <2>2, <2>3 DEF CanAddItem, IsOpen
      <3> DEFINE v == [req EXCEPT !.pc = "select", !.copy = new]
      <3>4. /\ v.op = "add" /\ v.session = req.session /\ v.sale = req.sale
            /\ v.pc = "select" /\ v.copy = new /\ v.previous = req.previous
        BY <1>2, <1>3, <2>1 DEF SaleRequest
      <3>5. Goto(o, v)
        BY <2>3, <3>1
      <3> HIDE DEF v
      <3>6. Pending(v)
        BY <2>2, <3>2, <3>3, <3>4 DEF Pending, HasCopy, Decides
      <3> QED
        BY <1>5, <2>1, <3>4, <3>5, <3>6
    <2> QED
      BY <1>1, <1>4, <1>12, <2>3 DEF FindCatalog
  <1>13. CASE SelectSale(o)
    <2>1. req.op \in SaleOps /\ req.pc = "select" /\ HasCopy(req)
      BY <1>1, <1>2, <1>3, <1>13 DEF SelectSale, At, Fits, HasCopy
    <2> DEFINE v == [req EXCEPT !.pc = "write", !.base = saleTable[req.sale]]
    <2>2. /\ v.op = req.op /\ v.session = req.session /\ v.sale = req.sale
          /\ v.pc = "write" /\ v.copy = req.copy /\ v.previous = req.previous
      BY <1>2, <1>3 DEF SaleRequest
    <2>3. Goto(o, v)
      BY <1>1, <1>13 DEF SelectSale
    <2> HIDE DEF v
    <2>4. Pending(v)
      BY <1>2, <1>3, <2>1, <2>2 DEF Pending, HasCopy, SaleOps
    <2>5. v.op # "start"
      BY <2>1, <2>2 DEF SaleOps
    <2> QED
      BY <1>5, <2>2, <2>3, <2>4, <2>5
  <1> QED
    BY <1>6, <1>7, <1>8, <1>9, <1>10, <1>11, <1>12, <1>13 DEF Read

\* What a commit adds is what the request had reserved.
LEMMA WriteCommits ==
  ASSUME SaleConstants, PendingInv, NEW o \in Operators, Write(o)
  PROVE  Finish(o) /\ Commits(o)
  <1>1. PICK req : req = request[o]
    OBVIOUS
  <1>2. /\ req \in SaleRequest /\ Fits(req) /\ Pending(req) /\ req.pc = "write"
        /\ Finish(o) /\ TypeOK
    BY <1>1, RequestInProgress
       DEF PendingInv, Inv, RequestsPending, Write, InsertSession, UpdateSession,
           InsertSale, UpdateSale, At
  <1>3. CASE InsertSession(o)
    <2>1. req.op = "open" /\ req.session \in Sessions /\ req.pos # NoSession
      BY <1>1, <1>2, <1>3 DEF InsertSession, Fits, PosSession, NoSession
    <2>2. CASE UNCHANGED sessionTable
      BY <1>2, <1>3, <2>2 DEF InsertSession, Commits, Existing, Exists
    <2>3. CASE sessionTable' = [sessionTable EXCEPT ![req.session] = req.pos]
      <3>1. UNCHANGED <<saleTable, outbox>>
        BY <1>3 DEF InsertSession
      <3>2. \A s \in Sessions :
              sessionTable'[s] = IF s = req.session THEN req.pos ELSE sessionTable[s]
        BY <1>2, <2>3 DEF TypeOK
      <3>3. \A s \in Sessions : Existing(s) => Existing(s)'
        BY <2>1, <3>2 DEF Existing
      <3>4. \A s \in Sessions : Existing(s)' => Existing(s) \/ req.session = s
        BY <3>2 DEF Existing
      <3>5. \A x \in Sales : /\ Exists(x) <=> Exists(x)'
                             /\ saleTable'[x].session = saleTable[x].session
        BY <3>1 DEF Exists
      <3>6. Commits(o)
        BY <1>1, <2>1, <3>1, <3>3, <3>4, <3>5 DEF Commits, Existing, Exists
      <3> QED
        BY <1>2, <3>6
    <2> QED
      BY <1>1, <1>3, <2>2, <2>3 DEF InsertSession
  <1>4. CASE UpdateSession(o)
    <2>1. req.op = "close" /\ req.session \in Sessions /\ req.pos # NoSession
      BY <1>1, <1>2, <1>4 DEF UpdateSession, Fits, PosSession, NoSession
    <2>2. /\ sessionTable' = [sessionTable EXCEPT ![req.session] = req.pos]
          /\ UNCHANGED saleTable
          /\ outbox' = Append(outbox, [name |-> "RegisterClosed",
                                       aggregate |-> req.session, state |-> req.pos])
      BY <1>1, <1>4 DEF UpdateSession
    <2>3. \A s \in Sessions :
            sessionTable'[s] = IF s = req.session THEN req.pos ELSE sessionTable[s]
      BY <1>2, <2>2 DEF TypeOK
    <2>4. \A s \in Sessions : Existing(s)' <=> Existing(s)
      BY <1>2, <2>1, <2>3 DEF Existing, Pending
    <2>5. \A x \in Sales : /\ Exists(x) <=> Exists(x)'
                           /\ saleTable'[x].session = saleTable[x].session
      BY <2>2 DEF Exists
    <2>8. Commits(o)
      BY <1>1, <2>4, <2>5 DEF Commits, Existing, Exists
    <2> QED
      BY <1>2, <2>8
  <1>5. CASE InsertSale(o)
    <2>1. /\ req.op = "start" /\ req.sale \in Sales /\ req.session \in Sessions
          /\ Existing(req.session) /\ ~Exists(req.sale) /\ req.copy = Start(req.session)
      BY <1>1, <1>2, <1>5 DEF InsertSale, Fits, Pending
    <2>2. /\ saleTable' = [saleTable EXCEPT ![req.sale] = req.copy]
          /\ UNCHANGED <<sessionTable, outbox>>
      BY <1>1, <1>5 DEF InsertSale
    <2>3. req.copy.session = req.session
      BY <2>1 DEF Start
    <2>4. \A x \in Sales :
            saleTable'[x] = IF x = req.sale THEN req.copy ELSE saleTable[x]
      BY <1>2, <2>2 DEF TypeOK
    <2>5. \A x \in Sales : Exists(x) =>
            Exists(x)' /\ saleTable'[x].session = saleTable[x].session
      BY <2>1, <2>4 DEF Exists
    <2>6. \A s \in Sessions : Existing(s)' <=> Existing(s)
      BY <2>2 DEF Existing
    <2>7. \A x \in Sales : Exists(x)' =>
            \/ Exists(x)
            \/ req.sale = x /\ Existing(saleTable[x].session)'
      BY <2>1, <2>2, <2>3, <2>4 DEF Exists, Existing
    <2>8. Commits(o)
      BY <1>1, <1>2, <2>1, <2>2, <2>5, <2>6, <2>7 DEF Commits, Existing, Exists
    <2> QED
      BY <1>2, <2>8
  <1>6. CASE UpdateSale(o)
    <2>1. req.op \in SaleOps /\ req.sale \in Sales /\ Exists(req.sale)
      BY <1>1, <1>2, <1>6 DEF UpdateSale, Fits
    <2>2. /\ saleTable' = [saleTable EXCEPT ![req.sale] =
                             Merge(saleTable[req.sale], req.base, req.copy)]
          /\ UNCHANGED sessionTable
      BY <1>1, <1>6 DEF UpdateSale
    <2>3. PICK new : new = Merge(saleTable[req.sale], req.base, req.copy)
      OBVIOUS
    <2>4. new.session = saleTable[req.sale].session /\ new # NoSale
      <3>1. req.base \in SaleRow /\ req.copy \in SaleRow /\ saleTable[req.sale] \in SaleRow
        BY <1>2, <2>1 DEF Fits, HasCopy, Sound, TypeOK, Exists
      <3>2. new \in SaleRow
        BY <2>3, <3>1, MergeIsTyped
      <3> QED
        BY <2>3, <3>2 DEF Merge, SaleRow, NoSale, Status
    <2>5. \A x \in Sales :
            saleTable'[x] = IF x = req.sale THEN new ELSE saleTable[x]
      BY <1>2, <2>2, <2>3 DEF TypeOK
    <2>6. \A x \in Sales : /\ Exists(x) <=> Exists(x)'
                           /\ saleTable'[x].session = saleTable[x].session
      BY <2>1, <2>4, <2>5 DEF Exists
    <2>7. \A s \in Sessions : Existing(s)' <=> Existing(s)
      BY <2>2 DEF Existing
    <2>9. Commits(o)
      BY <1>1, <2>6, <2>7 DEF Commits, Existing, Exists
    <2> QED
      BY <1>2, <2>9
  <1> QED
    BY <1>3, <1>4, <1>5, <1>6 DEF Write

LEMMA PendingInvIsInductive ==
  ASSUME SaleConstants, CheckoutConstants, PendingInv,
         [Next]_vars
  PROVE  PendingInv'
  <1>1. Inv'
    BY InvIsInductive DEF PendingInv
  <1>2. ASSUME NEW o \in Operators, Rollback(o)
        PROVE  PendingInv'
    BY <1>1, <1>2, PendingFinish DEF Rollback
  <1>3. CASE UNCHANGED vars
    BY <1>1, <1>3 DEF vars, PendingInv, RequestsPending, Pending, Reserved, Apart,
       HasCopy, SalesInSessions, Exists, Existing
  <1>4. ASSUME NEW o \in Operators, Write(o)
        PROVE  PendingInv'
    BY <1>1, <1>4, WriteCommits, PendingCommit
  <1> QED
    BY <1>1, <1>2, <1>3, <1>4, BeginKeepsPending, ReadKeepsPending DEF Next
-----------------------------------------------------------------------------
(* Third part: races.  A request that has not been overtaken finds in the  *)
(* tables what it read, and then everything the aggregates checked in      *)
(* memory holds of the row it writes.                                      *)

\* The domain method of operation op may turn the sale old into new.
Results(op, old, new) ==
  IF op = "add"
  THEN \E p \in Products, n \in 1..MaxQty, price \in Prices :
         CanAddItem(old, p, n) /\ new = AddItem(old, p, n, price)
  ELSE new \in Applied(op, old)

\* What a request remembers of its sale is what the table holds.
SaleIsCurrent(r) ==
  LET row == saleTable[r.sale]
  IN  /\ r.previous = row.status
      /\ r.pc \in {"findSession", "findCatalog"} => r.copy = row
      /\ r.pc \in {"select", "write"} => Results(r.op, row, r.copy)
      /\ r.pc = "write" => r.base = row

\* What a request has read is what the tables hold.
Current(r) ==
  /\ r.op = "start" /\ r.pc = "write" => sessionTable[r.session].status = "OPEN"
  /\ r.op = "close" /\ r.pc = "countSales" => r.pos = sessionTable[r.session]
  /\ r.op = "close" /\ r.pc = "write" =>
       /\ sessionTable[r.session].status = "OPEN" /\ NonTerminal(r.session) = {}
       /\ r.pos = [sessionTable[r.session] EXCEPT !.status = "CLOSED"]
  /\ HasCopy(r) => SaleIsCurrent(r)

\* An event says what the table has said ever since.
EventMatches(e) ==
  LET row == saleTable[e.aggregate]
  IN  /\ e.name = "SaleCompleted" =>
           /\ row \in SaleRow /\ row.status \in {"COMPLETED", "CANCELED"}
           /\ row.completedAt
           /\ row.items = e.state.items /\ row.total = e.state.total
           /\ row.pay = e.state.pay
      /\ e.name = "SaleCanceled" =>
           row \in SaleRow /\ row.status = "CANCELED" /\ row = e.state
      /\ e.name = "RegisterClosed" => sessionTable[e.aggregate].status = "CLOSED"

InOrder(sale) == sale \in SaleRow /\ Consistent(sale) /\ PaymentCoversTotal(sale)

\* What holds of the sales and sessions that are not in T, the overtaken ones.
SalesInOrder(T) == \A x \in Sales \ T : Exists(x) => InOrder(saleTable[x])

Settled(T) == \A s \in Sessions \ T :
  sessionTable[s].status = "CLOSED" => NonTerminal(s) \subseteq T

EventsMatch(T) == \A i \in DOMAIN outbox :
  outbox[i].aggregate \notin T => EventMatches(outbox[i])

EventsOnce(T) == \A i, j \in DOMAIN outbox :
  /\ outbox[i].name = outbox[j].name /\ outbox[i].aggregate = outbox[j].aggregate
  /\ outbox[i].aggregate \notin T
  => i = j

TablesInOrder(T) == SalesInOrder(T) /\ Settled(T) /\ EventsMatch(T) /\ EventsOnce(T)

\* S are the operators whose request is stale.
RacesInv(S, T) == (\A c \in Operators \ S : Current(request[c])) /\ TablesInOrder(T)

-----------------------------------------------------------------------------
(* What the domain methods do to a sale that is in order.                  *)

\* One step of a sale forward, as SalesMoveForward has it.
Moves(old, new) ==
  \/ old.status = "OPEN" /\ new.status = "OPEN"
  \/ /\ <<old.status, new.status>> \in Forward
     /\ new.items = old.items /\ new.total = old.total
     /\ old.status # "OPEN" => new.pay = old.pay

\* A new cart leaves an open sale in order.
LEMMA NewCartIsInOrder ==
  ASSUME NEW old, InOrder(old), IsOpen(old), NEW cart \in Carts
  PROVE  LET new == RecalculateTotals(old, cart)
         IN  /\ InOrder(new) /\ Moves(old, new) /\ new.session = old.session
             /\ ~old.completedAt
  <1> DEFINE new == RecalculateTotals(old, cart)
  <1>1. /\ new \in SaleRow /\ TotalsAddUp(new) /\ new.status = "OPEN"
        /\ new.session = old.session /\ new.completedAt = old.completedAt
        /\ new.canceledAt = old.canceledAt
    BY RecalculatedIsTyped DEF InOrder, IsOpen
  <1>2. new.pay = old.pay
    BY DEF RecalculateTotals, InOrder, SaleRow
  <1>3. old.pay = NoPay /\ ~old.completedAt /\ ~old.canceledAt
    BY DEF InOrder, Consistent, DatesFitStatus, IsOpen
  <1>4. DatesFitStatus(new)
    BY <1>1, <1>2, <1>3 DEF DatesFitStatus
  <1>5. PaymentCoversTotal(new)
    BY <1>2, <1>3 DEF PaymentCoversTotal, IsPaid, NoPay
  <1> QED
    BY <1>1, <1>3, <1>4, <1>5 DEF InOrder, Consistent, Moves, IsOpen

\* registerPayment leaves a sale in order: the payment covers its total.
LEMMA PaidSaleIsInOrder ==
  ASSUME SaleConstants, NEW old, InOrder(old), NEW pay \in Payment,
         CanRegisterPayment(old, pay)
  PROVE  LET new == RegisterPayment(old, pay)
         IN  /\ InOrder(new) /\ Moves(old, new) /\ new.session = old.session
             /\ ~old.completedAt /\ old.status = "OPEN"
  <1> DEFINE new == RegisterPayment(old, pay)
  <1>1. old.status = "OPEN" /\ Covers(pay, old.total)
    BY DEF CanRegisterPayment, IsOpen
  <1>2. pay \in PayColumn
    BY PaymentIsTyped
  <1>3. /\ new \in SaleRow /\ new.status = "PAID" /\ new.pay = pay
        /\ new.session = old.session /\ new.items = old.items
        /\ new.total = old.total /\ new.qty = old.qty
        /\ new.completedAt = old.completedAt /\ new.canceledAt = old.canceledAt
    BY <1>2 DEF RegisterPayment, InOrder, SaleRow, Status
  <1>4. ~old.completedAt /\ ~old.canceledAt
    BY <1>1 DEF InOrder, Consistent, DatesFitStatus
  <1>5. IsPaid(pay)
    BY DEF IsPaid, Payment, Methods
  <1>6. DatesFitStatus(new)
    BY <1>3, <1>4, <1>5 DEF DatesFitStatus
  <1>7. TotalsAddUp(new) /\ PaymentCoversTotal(new)
    BY <1>1, <1>3 DEF InOrder, Consistent, TotalsAddUp, PaymentCoversTotal
  <1> QED
    BY <1>1, <1>3, <1>4, <1>6, <1>7 DEF InOrder, Consistent, Moves, Forward

\* complete leaves a sale in order.
LEMMA CompletedSaleIsInOrder ==
  ASSUME NEW old, InOrder(old), CanComplete(old)
  PROVE  LET new == Complete(old)
         IN  /\ InOrder(new) /\ Moves(old, new) /\ new.session = old.session
             /\ ~old.completedAt /\ old.status = "PAID"
             /\ new.status = "COMPLETED" /\ new.completedAt
  <1> DEFINE new == Complete(old)
  <1>1. old.status = "PAID" /\ IsPaid(old.pay)
    BY DEF CanComplete
  <1>2. /\ new \in SaleRow /\ new.status = "COMPLETED" /\ new.pay = old.pay
        /\ new.session = old.session /\ new.items = old.items
        /\ new.total = old.total /\ new.qty = old.qty
        /\ new.completedAt /\ new.canceledAt = old.canceledAt
    BY DEF Complete, InOrder, SaleRow, Status
  <1>3. ~old.completedAt /\ ~old.canceledAt
    BY <1>1 DEF InOrder, Consistent, DatesFitStatus
  <1>4. DatesFitStatus(new)
    BY <1>1, <1>2, <1>3 DEF DatesFitStatus
  <1>5. TotalsAddUp(new) /\ PaymentCoversTotal(new)
    BY <1>2 DEF InOrder, Consistent, TotalsAddUp, PaymentCoversTotal
  <1> QED
    BY <1>1, <1>2, <1>3, <1>4, <1>5 DEF InOrder, Consistent, Moves, Forward

\* cancel leaves a sale in order and keeps what a completion announced.
LEMMA CanceledSaleIsInOrder ==
  ASSUME NEW old, InOrder(old), old.status # "CANCELED"
  PROVE  LET new == Cancel(old)
         IN  /\ InOrder(new) /\ Moves(old, new) /\ new.session = old.session
             /\ new.status = "CANCELED" /\ new.completedAt = old.completedAt
             /\ new.items = old.items /\ new.total = old.total
             /\ new.pay = old.pay
  <1> DEFINE new == Cancel(old)
  <1>1. /\ new \in SaleRow /\ new.status = "CANCELED" /\ new.pay = old.pay
        /\ new.session = old.session /\ new.items = old.items
        /\ new.total = old.total /\ new.qty = old.qty
        /\ new.completedAt = old.completedAt /\ new.canceledAt
    BY DEF Cancel, InOrder, SaleRow, Status
  <1>2. old.status \in {"OPEN", "PAID", "COMPLETED"}
    BY DEF InOrder, SaleRow, Status
  <1>3. (old.pay = NoPay /\ ~old.completedAt) \/ IsPaid(old.pay)
    BY <1>2 DEF InOrder, Consistent, DatesFitStatus
  <1>4. DatesFitStatus(new)
    BY <1>1, <1>3 DEF DatesFitStatus
  <1>5. TotalsAddUp(new) /\ PaymentCoversTotal(new)
    BY <1>1 DEF InOrder, Consistent, TotalsAddUp, PaymentCoversTotal
  <1> QED
    BY <1>1, <1>2, <1>4, <1>5 DEF InOrder, Consistent, Moves, Forward

\* The four together: every domain method takes a sale in order to one.
LEMMA ResultIsInOrder ==
  ASSUME SaleConstants, NEW old, InOrder(old), NEW op \in SaleOps, NEW new,
         Results(op, old, new)
  PROVE  /\ InOrder(new) /\ Moves(old, new) /\ new.session = old.session
         /\ old.status # "CANCELED"
         /\ op = "complete" =>
              old.status = "PAID" /\ new.status = "COMPLETED" /\ new.completedAt
         /\ op = "cancel" => new.status = "CANCELED"
         /\ old.completedAt =>
              /\ new.status \in {"COMPLETED", "CANCELED"} /\ new.completedAt
              /\ new.items = old.items /\ new.total = old.total
              /\ new.pay = old.pay
  <1>0. old \in SaleRow
    BY DEF InOrder
  <1>1. CASE op = "add"
    <2>1. PICK p \in Products, n \in 1..MaxQty, price \in Prices :
            CanAddItem(old, p, n) /\ new = AddItem(old, p, n, price)
      BY <1>1 DEF Results
    <2>2. PICK cart \in Carts : new = RecalculateTotals(old, cart)
      BY <1>0, <2>1, AddedCartIsCart
    <2>3. IsOpen(old)
      BY <2>1 DEF CanAddItem
    <2> QED
      BY <1>1, <2>2, <2>3, NewCartIsInOrder DEF IsOpen
  <1>2. CASE op = "remove"
    <2>1. PICK pn \in Products \X (1..MaxQty) :
            CanRemoveItem(old, pn[1], pn[2]) /\ new = RemoveItem(old, pn[1], pn[2])
      BY <1>2 DEF Results, Applied
    <2>2. PICK cart \in Carts : new = RecalculateTotals(old, cart)
      BY <1>0, <2>1, RemovedCartIsCart
    <2>3. IsOpen(old)
      BY <2>1 DEF CanRemoveItem
    <2> QED
      BY <1>2, <2>2, <2>3, NewCartIsInOrder DEF IsOpen
  <1>3. CASE op = "pay"
    <2>1. PICK pay \in Payment :
            CanRegisterPayment(old, pay) /\ new = RegisterPayment(old, pay)
      BY <1>3 DEF Results, Applied
    <2> QED
      BY <1>3, <2>1, PaidSaleIsInOrder
  <1>4. CASE op = "complete"
    <2>1. CanComplete(old) /\ new = Complete(old)
      BY <1>4 DEF Results, Applied
    <2> QED
      BY <1>4, <2>1, CompletedSaleIsInOrder
  <1>5. CASE op = "cancel"
    <2>1. old.status # "CANCELED" /\ new = Cancel(old)
      BY <1>5 DEF Results, Applied, CanCancel
    <2> QED
      BY <1>5, <2>1, CanceledSaleIsInOrder
  <1> QED
    BY <1>1, <1>2, <1>3, <1>4, <1>5 DEF SaleOps

\* A save whose SELECT found the row the copy was made from writes the copy.
LEMMA MergeOverCurrentRow ==
  ASSUME NEW row \in SaleRow, NEW copy \in SaleRow, copy.session = row.session
  PROVE  Merge(row, row, copy) = copy
  <1>1. /\ copy = [session |-> copy.session, status |-> copy.status,
                   qty |-> copy.qty, total |-> copy.total, pay |-> copy.pay,
                   completedAt |-> copy.completedAt,
                   canceledAt |-> copy.canceledAt, items |-> copy.items]
        /\ copy.pay = [method |-> copy.pay.method, paid |-> copy.pay.paid]
    BY DEF SaleRow, PayColumn
  <1>2. [method |-> IF copy.pay["method"] = row.pay["method"]
                    THEN row.pay["method"] ELSE copy.pay["method"],
         paid |-> IF copy.pay["paid"] = row.pay["paid"]
                  THEN row.pay["paid"] ELSE copy.pay["paid"]] = copy.pay
    BY <1>1
  <1> QED
    BY <1>1, <1>2 DEF Merge
-----------------------------------------------------------------------------
(* The steps that begin a request and the statements that read keep a      *)
(* request current that was; they change nothing else.                     *)

LEMMA IdleIsCurrent == Current(Idle)
  BY DEF Current, Idle, HasCopy, SaleOps

\* A request begins with nothing read.
LEMMA BeginIsCurrent ==
  ASSUME PendingInv, NEW o \in Operators,
         BeginOpenSession(o) \/ BeginStartSale(o) \/ BeginCloseSession(o)
           \/ BeginOnSale(o)
  PROVE  /\ UNCHANGED <<sessionTable, saleTable, outbox>>
         /\ \E v : Goto(o, v) /\ Current(v)
  <1>1. ASSUME NEW op, NEW s, NEW x, NEW pos,
               NEW pc \in {"findOpen", "findSession", "findSale"},
               Begin(o, op, s, x, pos, pc), op \in SaleOps => pc = "findSale"
        PROVE  /\ UNCHANGED <<sessionTable, saleTable, outbox>>
               /\ \E v : Goto(o, v) /\ Current(v)
    <2> DEFINE v == [Idle EXCEPT !.pc = pc, !.op = op, !.session = s, !.sale = x,
                                 !.pos = pos]
    <2>1. v.pc = pc /\ v.op = op
      BY DEF Idle
    <2>2. Goto(o, v) /\ UNCHANGED <<sessionTable, saleTable, outbox>>
      BY <1>1 DEF Begin
    <2> HIDE DEF v
    <2>3. Current(v)
      BY <1>1, <2>1 DEF Current, HasCopy
    <2> QED
      BY <2>2, <2>3
  <1>2. CASE BeginOpenSession(o)
    BY <1>1, <1>2 DEF BeginOpenSession, SaleOps
  <1>3. CASE BeginStartSale(o)
    BY <1>1, <1>3 DEF BeginStartSale, SaleOps
  <1>4. CASE BeginCloseSession(o)
    BY <1>1, <1>4 DEF BeginCloseSession, SaleOps
  <1>5. CASE BeginOnSale(o)
    BY <1>1, <1>5 DEF BeginOnSale
  <1> QED
    BY <1>2, <1>3, <1>4, <1>5

\* A statement that reads, of a request on a sale that has been loaded.
LEMMA SaleStatementKeepsCurrent ==
  ASSUME PendingInv, NEW o \in Operators,
         FindSessionOfSale(o) \/ FindCatalog(o) \/ SelectSale(o)
  PROVE  \E v : /\ Goto(o, v) /\ (v = Idle \/ v.op = request[o].op)
                /\ Current(request[o]) => Current(v)
  <1>1. PICK req : req = request[o]
    OBVIOUS
  <1>2. /\ req \in SaleRequest /\ Fits(req) /\ req.op \in SaleOps /\ HasCopy(req)
        /\ req.pc \in {"findSession", "findCatalog", "select"}
        /\ req.pc = "findCatalog" => req.op = "add"
    BY <1>1, RequestInProgress
       DEF PendingInv, RequestsPending, Pending, FindSessionOfSale, FindCatalog,
           SelectSale, At, Fits, HasCopy
  <1>3. ASSUME NEW v, Goto(o, v), v.op = req.op,
               SaleIsCurrent(req) => SaleIsCurrent(v)
        PROVE  \E u : /\ Goto(o, u) /\ (u = Idle \/ u.op = req.op)
                      /\ Current(req) => Current(u)
    <2>1. Current(req) => Current(v)
      BY <1>2, <1>3 DEF Current, SaleOps
    <2> QED
      BY <1>3, <2>1
  <1>4. CASE Finish(o)
    BY <1>1, <1>4, IdleIsCurrent DEF Finish
  <1>5. CASE FindSessionOfSale(o) /\ ~Finish(o)
    <2>1. req.pc = "findSession"
      BY <1>1, <1>5 DEF FindSessionOfSale, At
    <2>2. CASE req.op = "add"
      <3> DEFINE v == [req EXCEPT !.pc = "findCatalog"]
      <3>1. /\ v.pc = "findCatalog" /\ v.copy = req.copy /\ v.op = req.op
            /\ v.sale = req.sale /\ v.previous = req.previous
        BY <1>2 DEF SaleRequest
      <3>2. Goto(o, v)
        BY <1>1, <1>5, <2>2 DEF FindSessionOfSale
      <3> HIDE DEF v
      <3>3. SaleIsCurrent(req) => SaleIsCurrent(v)
        BY <2>1, <3>1 DEF SaleIsCurrent
      <3> QED
        BY <1>1, <1>3, <3>1, <3>2, <3>3
    <2>3. CASE req.op # "add"
      <3>1. PICK sale \in Applied(req.op, req.copy) :
              Goto(o, [req EXCEPT !.pc = "select", !.copy = sale])
        BY <1>1, <1>5, <2>3 DEF FindSessionOfSale
      <3> DEFINE v == [req EXCEPT !.pc = "select", !.copy = sale]
      <3>2. /\ v.pc = "select" /\ v.copy = sale /\ v.op = req.op
            /\ v.sale = req.sale /\ v.previous = req.previous
        BY <1>2 DEF SaleRequest
      <3>3. Goto(o, v)
        BY <3>1
      <3> HIDE DEF v
      <3>4. SaleIsCurrent(req) => SaleIsCurrent(v)
        BY <2>1, <2>3, <3>1, <3>2 DEF SaleIsCurrent, Results
      <3> QED
        BY <1>1, <1>3, <3>2, <3>3, <3>4
    <2> QED
      BY <2>2, <2>3
  <1>6. CASE FindCatalog(o) /\ ~Finish(o)
    <2>1. PICK p \in Products, n \in 1..MaxQty, price \in Prices :
            /\ CanAddItem(req.copy, p, n)
            /\ Goto(o, [req EXCEPT !.pc = "select",
                                   !.copy = AddItem(req.copy, p, n, price)])
      BY <1>1, <1>6 DEF FindCatalog
    <2>2. req.pc = "findCatalog" /\ req.op = "add"
      BY <1>1, <1>2, <1>6 DEF FindCatalog, At
    <2> DEFINE new == AddItem(req.copy, p, n, price)
               v == [req EXCEPT !.pc = "select", !.copy = new]
    <2>3. Goto(o, v)
      BY <2>1
    <2>4. Results("add", req.copy, new)
      BY <2>1 DEF Results
    <2> HIDE DEF new
    <2>5. /\ v.pc = "select" /\ v.copy = new /\ v.op = req.op
          /\ v.sale = req.sale /\ v.previous = req.previous
      BY <1>2 DEF SaleRequest
    <2> HIDE DEF v
    <2>6. SaleIsCurrent(req) => SaleIsCurrent(v)
      BY <2>2, <2>4, <2>5 DEF SaleIsCurrent
    <2> QED
      BY <1>1, <1>3, <2>3, <2>5, <2>6
  <1>7. CASE SelectSale(o)
    <2> DEFINE v == [req EXCEPT !.pc = "write", !.base = saleTable[req.sale]]
    <2>1. Goto(o, v) /\ req.pc = "select"
      BY <1>1, <1>7 DEF SelectSale, At
    <2>2. /\ v.pc = "write" /\ v.base = saleTable[req.sale] /\ v.copy = req.copy
          /\ v.op = req.op /\ v.sale = req.sale /\ v.previous = req.previous
      BY <1>2 DEF SaleRequest
    <2> HIDE DEF v
    <2>3. SaleIsCurrent(req) => SaleIsCurrent(v)
      BY <2>1, <2>2 DEF SaleIsCurrent
    <2> QED
      BY <1>1, <1>3, <2>1, <2>2, <2>3
  <1> QED
    BY <1>4, <1>5, <1>6, <1>7

\* A statement that reads.
LEMMA ReadKeepsCurrent ==
  ASSUME PendingInv, NEW o \in Operators, Read(o)
  PROVE  /\ UNCHANGED <<sessionTable, saleTable, outbox>>
         /\ \E v : /\ Goto(o, v) /\ (v = Idle \/ v.op = request[o].op)
                   /\ Current(request[o]) => Current(v)
  <1>1. PICK req : req = request[o]
    OBVIOUS
  <1>2. req.pc # "idle" => req \in SaleRequest /\ Fits(req)
    BY <1>1, RequestInProgress DEF PendingInv
  <1>3. UNCHANGED <<sessionTable, saleTable, outbox>> /\ req.pc # "idle"
    BY <1>1 DEF Read, FindOpen, FindSale, FindSessionToStart, FindSessionToClose,
       CountSales, FindSessionOfSale, FindCatalog, SelectSale, At
  <1>4. CASE Finish(o)
    BY <1>3, <1>4, IdleIsCurrent DEF Finish
  <1>5. ASSUME NEW v, Goto(o, v), v.op = req.op, Current(req) => Current(v)
        PROVE  \E u : /\ Goto(o, u) /\ (u = Idle \/ u.op = request[o].op)
                      /\ Current(request[o]) => Current(u)
    BY <1>1, <1>5
  <1>6. CASE FindOpen(o) /\ ~Finish(o)
    <2> DEFINE v == [req EXCEPT !.pc = "write"]
    <2>1. Goto(o, v) /\ req.op = "open"
      BY <1>1, <1>2, <1>3, <1>6 DEF FindOpen, At, Fits
    <2>2. v.op = "open"
      BY <1>2, <1>3, <2>1 DEF SaleRequest
    <2> HIDE DEF v
    <2>3. Current(v)
      BY <2>2 DEF Current, HasCopy, SaleOps
    <2> QED
      BY <1>3, <1>5, <2>1, <2>2, <2>3
  <1>7. CASE FindSale(o) /\ ~Finish(o)
    <2>1. PICK row : row = saleTable[req.sale]
      OBVIOUS
    <2> DEFINE v == [req EXCEPT !.pc = "findSession", !.session = row.session,
                                !.previous = row.status, !.copy = row]
    <2>2. Goto(o, v) /\ req.op \in SaleOps
      BY <1>1, <1>2, <1>3, <1>7, <2>1 DEF FindSale, At, Fits
    <2>3. v.pc = "findSession" /\ v.op = req.op /\ v.sale = req.sale
          /\ v.previous = row.status /\ v.copy = row
      BY <1>2, <1>3 DEF SaleRequest
    <2> HIDE DEF v
    <2>4. Current(v)
      BY <2>1, <2>2, <2>3 DEF Current, SaleIsCurrent, SaleOps
    <2> QED
      BY <1>3, <1>5, <2>2, <2>3, <2>4
  <1>8. CASE FindSessionToStart(o) /\ ~Finish(o)
    <2>1. req.op = "start" /\ sessionTable[req.session].status = "OPEN"
      BY <1>1, <1>8 DEF FindSessionToStart, Loaded
    <2>2. PICK x \in Sales :
            Goto(o, [req EXCEPT !.pc = "write", !.sale = x, !.copy = Start(req.session)])
      BY <1>1, <1>8 DEF FindSessionToStart
    <2> DEFINE v == [req EXCEPT !.pc = "write", !.sale = x, !.copy = Start(req.session)]
    <2>3. Goto(o, v)
      BY <2>2
    <2>4. v.op = "start" /\ v.session = req.session
      BY <1>2, <1>3, <2>1 DEF SaleRequest
    <2> HIDE DEF v
    <2>5. Current(v)
      BY <2>1, <2>4 DEF Current, HasCopy, SaleOps
    <2> QED
      BY <1>3, <1>5, <2>1, <2>3, <2>4, <2>5
  <1>9. CASE FindSessionToClose(o)
    <2> DEFINE v == [req EXCEPT !.pc = "countSales", !.pos = Loaded(o)]
    <2>1. Goto(o, v) /\ req.op = "close"
      BY <1>1, <1>9 DEF FindSessionToClose
    <2>2. v.pc = "countSales" /\ v.op = "close" /\ v.session = req.session
          /\ v.pos = sessionTable[req.session]
      BY <1>1, <1>2, <1>3, <2>1 DEF SaleRequest, Loaded
    <2> HIDE DEF v
    <2>3. Current(v)
      BY <2>2 DEF Current, HasCopy, SaleOps
    <2> QED
      BY <1>3, <1>5, <2>1, <2>2, <2>3
  <1>10. CASE CountSales(o) /\ ~Finish(o)
    <2>1. req.op = "close" /\ req.pc = "countSales"
      BY <1>1, <1>2, <1>3, <1>10 DEF CountSales, At, Fits
    <2>2. NonTerminal(req.session) = {} /\ req.pos.status = "OPEN"
      BY <1>1, <1>10 DEF CountSales
    <2> DEFINE v == [req EXCEPT !.pc = "write", !.pos.status = "CLOSED"]
    <2>3. Goto(o, v)
      BY <1>1, <1>10 DEF CountSales
    <2>4. /\ v.pc = "write" /\ v.op = "close" /\ v.session = req.session
          /\ v.pos = [req.pos EXCEPT !.status = "CLOSED"]
      BY <1>2, <1>3, <2>1 DEF SaleRequest
    <2> HIDE DEF v
    <2>5. Current(req) => Current(v)
      BY <2>1, <2>2, <2>4 DEF Current, HasCopy, SaleOps
    <2> QED
      BY <1>3, <1>5, <2>1, <2>3, <2>4, <2>5
  <1>11. CASE FindSessionOfSale(o) \/ FindCatalog(o) \/ SelectSale(o)
    BY <1>3, <1>11, SaleStatementKeepsCurrent
  <1> QED
    BY <1>3, <1>4, <1>6, <1>7, <1>8, <1>9, <1>10, <1>11 DEF Read

\* A request that the step does not overtake stays current.
LEMMA StaysCurrent ==
  ASSUME NEW w, Fits(w), Current(w), ~Overtakes(w)
  PROVE  Current(w)'
  <1>1. HasSession(w) => sessionTable'[w.session] = sessionTable[w.session]
    BY DEF Overtakes
  <1>2. HasCopy(w) => saleTable'[w.sale] = saleTable[w.sale]
    BY DEF Overtakes
  <1>3. HasCount(w) => NonTerminal(w.session)' = NonTerminal(w.session)
    BY DEF Overtakes, HasCount, Fits
  <1>4. HasCopy(w) => SaleIsCurrent(w)'
    BY <1>2 DEF Current, SaleIsCurrent
  <1> QED
    BY <1>1, <1>3, <1>4 DEF Current, HasSession, HasCount, HasCopy

-----------------------------------------------------------------------------
(* The statements that write.                                              *)

\* What a step that changes tables must show of what it changes, beyond T1.
LEMMA TablesStep ==
  ASSUME TypeOK, NEW T, NEW T1, TablesInOrder(T), T \subseteq T1,
         \A x \in Sales \ T1 : saleTable'[x] # saleTable[x] =>
           /\ InOrder(saleTable'[x])
           /\ \A s \in Sessions \ T1 :
                sessionTable'[s].status = "CLOSED" => x \notin NonTerminal(s)',
         \A s \in Sessions \ T1 : sessionTable'[s] # sessionTable[s] =>
           (sessionTable'[s].status = "CLOSED" => NonTerminal(s)' \subseteq T1),
         \A i \in DOMAIN outbox :
           /\ outbox[i].aggregate \notin T1
           /\ EventMatches(outbox[i])
           => EventMatches(outbox[i])',
         \/ outbox' = outbox
         \/ \E e \in SaleEvent \cup SessionEvent :
              /\ outbox' = Append(outbox, e)
              /\ e.aggregate \notin T1 =>
                   EventMatches(e)' /\ ~Emitted(e.name, e.aggregate)
  PROVE  TablesInOrder(T1)'
  <1>1. SalesInOrder(T1)'
    BY DEF TablesInOrder, SalesInOrder, Exists
  <1>2. Settled(T1)'
    <2> SUFFICES ASSUME NEW s \in Sessions \ T1, sessionTable'[s].status = "CLOSED",
                        NEW x \in NonTerminal(s)', x \notin T1
                 PROVE  FALSE
      BY DEF Settled
    <2>1. x \in Sales \ T1 /\ saleTable'[x] = saleTable[x]
      BY DEF NonTerminal
    <2>2. sessionTable'[s] = sessionTable[s]
      OBVIOUS
    <2>3. x \in NonTerminal(s)
      BY <2>1 DEF NonTerminal
    <2> QED
      BY <2>1, <2>2, <2>3 DEF TablesInOrder, Settled
  <1>3. ASSUME NEW i \in DOMAIN outbox, outbox[i].aggregate \notin T1
        PROVE  EventMatches(outbox[i])'
    BY <1>3 DEF TablesInOrder, EventsMatch
  <1>4. ASSUME NEW i \in DOMAIN outbox, NEW j \in DOMAIN outbox,
               outbox[i].name = outbox[j].name,
               outbox[i].aggregate = outbox[j].aggregate,
               outbox[i].aggregate \notin T1
        PROVE  i = j
    BY <1>4 DEF TablesInOrder, EventsOnce
  <1>5. CASE outbox' = outbox
    BY <1>1, <1>2, <1>3, <1>4, <1>5
       DEF TablesInOrder, EventsMatch, EventsOnce, EventMatches
  <1>6. CASE outbox' # outbox
    <2>1. PICK e \in SaleEvent \cup SessionEvent :
            /\ outbox' = Append(outbox, e)
            /\ e.aggregate \notin T1 =>
                 EventMatches(e)' /\ ~Emitted(e.name, e.aggregate)
      BY <1>6
    <2>2. /\ \A i \in DOMAIN outbox : i \in DOMAIN outbox' /\ outbox'[i] = outbox[i]
          /\ \A i \in DOMAIN outbox' \ DOMAIN outbox :
               outbox'[i] = e /\ DOMAIN outbox = 1..(i - 1)
      BY <2>1, AppendedOutbox
    <2>3. \A i, j \in DOMAIN outbox' \ DOMAIN outbox : i = j
      <3>1. DOMAIN outbox' = 1..(Len(outbox) + 1) /\ DOMAIN outbox = 1..Len(outbox)
            /\ Len(outbox) \in Nat
        BY <2>1 DEF TypeOK
      <3> QED
        BY <3>1
    <2>4. \A i \in DOMAIN outbox : e.aggregate \notin T1 =>
            ~(outbox[i].name = e.name /\ outbox[i].aggregate = e.aggregate)
      BY <2>1 DEF Emitted
    <2>5. EventsMatch(T1)'
      <3> SUFFICES ASSUME NEW i \in DOMAIN outbox', NEW d, d = outbox'[i],
                          d.aggregate \notin T1
                   PROVE  EventMatches(d)'
        BY DEF EventsMatch
      <3>1. CASE i \in DOMAIN outbox
        <4>1. d = outbox[i] /\ d \in SaleEvent \cup SessionEvent
          BY <2>2, <3>1 DEF TypeOK
        <4>2. EventMatches(outbox[i])'
          BY <1>3, <3>1, <4>1
        <4>3. outbox'[i] = outbox[i]
          BY <2>2, <3>1
        <4> QED
          BY <4>1, <4>2, <4>3 DEF EventMatches
      <3>2. CASE i \notin DOMAIN outbox
        BY <2>1, <2>2, <3>2
      <3> QED
        BY <3>1, <3>2
    <2>6. EventsOnce(T1)'
      <3> SUFFICES ASSUME NEW i \in DOMAIN outbox', NEW j \in DOMAIN outbox',
                          outbox'[i].name = outbox'[j].name,
                          outbox'[i].aggregate = outbox'[j].aggregate,
                          outbox'[i].aggregate \notin T1
                   PROVE  i = j
        BY DEF EventsOnce
      <3>1. CASE i \in DOMAIN outbox /\ j \in DOMAIN outbox
        BY <1>4, <2>2, <3>1
      <3>2. CASE i \notin DOMAIN outbox /\ j \notin DOMAIN outbox
        BY <2>3, <3>2
      <3> QED
        BY <2>2, <2>4, <3>1, <3>2
    <2> QED
      BY <1>1, <1>2, <2>5, <2>6 DEF TablesInOrder
  <1> QED
    BY <1>5, <1>6

\* A new session is open, and nothing was announced of it.
LEMMA InsertSessionIsInOrder ==
  ASSUME PendingInv, NEW T, NEW T1, TablesInOrder(T), T \subseteq T1,
         NEW o \in Operators, InsertSession(o)
  PROVE  TablesInOrder(T1)' /\ UNCHANGED saleTable
  <1>1. PICK s, pos : s = request[o].session /\ pos = request[o].pos
    OBVIOUS
  <1>2. s \in Sessions /\ pos.status = "OPEN" /\ sessionTable[s] = NoSession /\ TypeOK
    BY <1>1, RequestInProgress
       DEF InsertSession, At, Fits, PendingInv, Inv, RequestsPending, Pending, Existing
  <1>3. UNCHANGED <<saleTable, outbox>>
    BY DEF InsertSession
  <1>4. \A t \in Sessions : sessionTable'[t] # sessionTable[t] =>
          t = s /\ sessionTable'[t].status = "OPEN"
    BY <1>1, <1>2 DEF InsertSession, TypeOK
  <1>5. ASSUME NEW i \in DOMAIN outbox, EventMatches(outbox[i])
        PROVE  EventMatches(outbox[i])'
    <2>1. PICK e : e = outbox[i] /\ e \in SaleEvent \cup SessionEvent
      BY <1>2 DEF TypeOK
    <2>2. e.name = "RegisterClosed" => e.aggregate \in Sessions /\ e.aggregate # s
      BY <1>2, <1>5, <2>1 DEF EventMatches, SaleEvent, SessionEvent, NoSession
    <2>3. e.name = "RegisterClosed" =>
            sessionTable'[e.aggregate] = sessionTable[e.aggregate]
      BY <1>4, <2>2
    <2>4. outbox'[i] = e
      BY <1>3, <2>1
    <2> QED
      BY <1>3, <1>5, <2>1, <2>3, <2>4 DEF EventMatches
  <1>6. \A t \in Sessions \ T1 : sessionTable'[t] # sessionTable[t] =>
          (sessionTable'[t].status = "CLOSED" => NonTerminal(t)' \subseteq T1)
    BY <1>4
  <1>7. \A x \in Sales \ T1 : saleTable'[x] = saleTable[x]
    BY <1>3
  <1> QED
    BY <1>2, <1>3, <1>5, <1>6, <1>7, TablesStep

\* A session whose closing was not overtaken is closed once, with no sale left.
LEMMA UpdateSessionIsInOrder ==
  ASSUME PendingInv, NEW T, NEW T1, TablesInOrder(T), T \subseteq T1,
         NEW o \in Operators, UpdateSession(o),
         Target(request[o]) \in T1 \/ Current(request[o])
  PROVE  TablesInOrder(T1)' /\ UNCHANGED saleTable
  <1>1. PICK s, pos : s = request[o].session /\ pos = request[o].pos
    OBVIOUS
  <1>2. /\ s \in Sessions /\ pos \in PosSession /\ pos.status = "CLOSED" /\ TypeOK
        /\ request[o].op = "close" /\ request[o].pc = "write"
    BY <1>1, RequestInProgress DEF UpdateSession, At, Fits, PendingInv, Inv
  <1>3. s \in T1 \/ (sessionTable[s].status = "OPEN" /\ NonTerminal(s) = {})
    BY <1>1, <1>2 DEF Target, Current
  <1> DEFINE event == [name |-> "RegisterClosed", aggregate |-> s, state |-> pos]
  <1>4. /\ UNCHANGED saleTable /\ outbox' = Append(outbox, event)
        /\ sessionTable' = [sessionTable EXCEPT ![s] = pos]
    BY <1>1 DEF UpdateSession
  <1>5. /\ event \in SaleEvent \cup SessionEvent
        /\ event.name = "RegisterClosed" /\ event.aggregate = s
    BY <1>2 DEF SessionEvent
  <1> HIDE DEF event
  <1>6. \A t \in Sessions : sessionTable'[t] = IF t = s THEN pos ELSE sessionTable[t]
    BY <1>4, <1>2 DEF TypeOK
  <1>7. \A t \in Sessions \ T1 : sessionTable'[t] # sessionTable[t] =>
          (sessionTable'[t].status = "CLOSED" => NonTerminal(t)' \subseteq T1)
    <2>1. \A t \in Sessions \ T1 : sessionTable'[t] # sessionTable[t] =>
            NonTerminal(t) = {}
      BY <1>3, <1>6
    <2> QED
      BY <1>4, <2>1 DEF NonTerminal
  <1>8. ASSUME NEW i \in DOMAIN outbox, EventMatches(outbox[i])
        PROVE  EventMatches(outbox[i])'
    <2>1. PICK e : e = outbox[i] /\ e \in SaleEvent \cup SessionEvent
      BY <1>2 DEF TypeOK
    <2>2. e.name = "RegisterClosed" => sessionTable'[e.aggregate].status = "CLOSED"
      BY <1>2, <1>6, <1>8, <2>1 DEF EventMatches, SaleEvent, SessionEvent
    <2>3. outbox'[i] = e
      BY <1>2, <1>4, <1>5, <2>1, AppendedOutbox
    <2> QED
      BY <1>4, <1>8, <2>1, <2>2, <2>3 DEF EventMatches
  <1>9. event.aggregate \notin T1 =>
          EventMatches(event)' /\ ~Emitted(event.name, event.aggregate)
    <2>1. EventMatches(event)'
      BY <1>2, <1>5, <1>6 DEF EventMatches
    <2>2. ASSUME s \notin T1, Emitted("RegisterClosed", s)
          PROVE  FALSE
      BY <1>3, <2>2 DEF Emitted, TablesInOrder, EventsMatch, EventMatches
    <2> QED
      BY <1>5, <2>1, <2>2
  <1>10. \A x \in Sales \ T1 : saleTable'[x] = saleTable[x]
    BY <1>4
  <1> QED
    BY <1>2, <1>4, <1>5, <1>7, <1>8, <1>9, <1>10, TablesStep

\* A sale whose start was not overtaken is in an open session.
LEMMA InsertSaleIsInOrder ==
  ASSUME SaleConstants, PendingInv, NEW T, NEW T1, TablesInOrder(T), T \subseteq T1,
         NEW o \in Operators, InsertSale(o),
         Target(request[o]) \in T1 \/ Current(request[o])
  PROVE  /\ TablesInOrder(T1)'
         /\ \A x \in Sales : Exists(x) => saleTable'[x] = saleTable[x]
  <1>1. PICK x, s, new : x = request[o].sale /\ s = request[o].session /\ new = Start(s)
    OBVIOUS
  <1>2. /\ x \in Sales /\ s \in Sessions /\ request[o].copy = new /\ TypeOK
        /\ ~Exists(x) /\ request[o].op = "start" /\ request[o].pc = "write"
    BY <1>1, RequestInProgress
       DEF InsertSale, At, Fits, PendingInv, Inv, RequestsPending, Pending
  <1>3. x \in T1 \/ sessionTable[s].status = "OPEN"
    BY <1>1, <1>2 DEF Target, Current
  <1>4. /\ UNCHANGED <<sessionTable, outbox>>
        /\ saleTable' = [saleTable EXCEPT ![x] = new]
    BY <1>1, <1>2 DEF InsertSale
  <1>5. \A y \in Sales : saleTable'[y] = IF y = x THEN new ELSE saleTable[y]
    BY <1>2, <1>4 DEF TypeOK
  <1>6. InOrder(new) /\ new.session = s /\ new # NoSale
    <2>1. new \in SaleRow /\ TotalsAddUp(new)
      BY <1>1, <1>2, StartIsTyped
    <2>2. /\ new.session = s /\ new.status = "OPEN" /\ new.pay = NoPay
          /\ ~new.completedAt /\ ~new.canceledAt
      BY <1>1 DEF Start
    <2>3. DatesFitStatus(new) /\ PaymentCoversTotal(new)
      BY <2>2 DEF DatesFitStatus, PaymentCoversTotal, IsPaid, NoPay
    <2> QED
      BY <2>1, <2>2, <2>3 DEF InOrder, Consistent, NoSale
  <1>7. ASSUME NEW y \in Sales \ T1, saleTable'[y] # saleTable[y]
        PROVE  /\ InOrder(saleTable'[y])
               /\ \A t \in Sessions \ T1 :
                    sessionTable'[t].status = "CLOSED" => y \notin NonTerminal(t)'
    <2>1. y = x /\ saleTable'[y] = new /\ sessionTable[s].status = "OPEN"
      BY <1>3, <1>5, <1>7
    <2>2. \A t \in Sessions : y \in NonTerminal(t)' => t = s
      BY <1>6, <2>1 DEF NonTerminal
    <2> QED
      BY <1>4, <1>6, <2>1, <2>2
  <1>8. ASSUME NEW i \in DOMAIN outbox, EventMatches(outbox[i])
        PROVE  EventMatches(outbox[i])'
    <2>1. PICK e : e = outbox[i] /\ e \in SaleEvent \cup SessionEvent
      BY <1>2 DEF TypeOK
    <2>2. e.name \in {"SaleCompleted", "SaleCanceled"} =>
            saleTable'[e.aggregate] = saleTable[e.aggregate]
      BY <1>2, <1>5, <1>8, <2>1
         DEF EventMatches, SaleEvent, SessionEvent, SaleRow, Exists, NoSale
    <2>3. outbox'[i] = e
      BY <1>4, <2>1
    <2> QED
      BY <1>4, <1>8, <2>1, <2>2, <2>3 DEF EventMatches
  <1>9. \A t \in Sessions : sessionTable'[t] = sessionTable[t]
    BY <1>4
  <1>10. TablesInOrder(T1)'
    BY <1>2, <1>4, <1>7, <1>8, <1>9, TablesStep
  <1> QED
    BY <1>2, <1>5, <1>10

\* A sale whose save was not overtaken takes a step forward.
LEMMA UpdateSaleIsInOrder ==
  ASSUME SaleConstants, PendingInv, NEW T, NEW T1, TablesInOrder(T), T \subseteq T1,
         NEW o \in Operators, UpdateSale(o),
         Target(request[o]) \in T1 \/ Current(request[o])
  PROVE  /\ TablesInOrder(T1)'
         /\ \A x \in Sales \ T1 :
              saleTable'[x] = saleTable[x] \/ Moves(saleTable[x], saleTable'[x])
  <1>1. PICK op, x, old, copy, new :
          /\ op = request[o].op /\ x = request[o].sale /\ old = saleTable[x]
          /\ copy = request[o].copy /\ new = Merge(old, request[o].base, copy)
    OBVIOUS
  <1>2. /\ op \in SaleOps /\ x \in Sales /\ Exists(x) /\ TypeOK
        /\ request[o].pc = "write" /\ HasCopy(request[o])
        /\ copy \in SaleRow
    BY <1>1, RequestInProgress DEF UpdateSale, At, Fits, HasCopy, Sound, PendingInv, Inv
  <1>3. /\ UNCHANGED sessionTable
        /\ \A y \in Sales : saleTable'[y] = IF y = x THEN new ELSE saleTable[y]
    BY <1>1, <1>2 DEF UpdateSale, TypeOK
  <1>4. PICK event \in SaleEvent :
          /\ event.aggregate = x /\ event.state = copy
          /\ event.name = IF op = "complete" THEN "SaleCompleted" ELSE "SaleCanceled"
          /\ op \in {"complete", "cancel"} => outbox' = Append(outbox, event)
          /\ op \notin {"complete", "cancel"} => outbox' = outbox
    BY <1>1, SaleEventIsAppended DEF PendingInv
  <1>5. ASSUME x \notin T1
        PROVE  /\ new = copy /\ InOrder(new) /\ Moves(old, new)
               /\ new.session = old.session /\ old.status # "CANCELED"
               /\ op = "complete" =>
                    old.status = "PAID" /\ new.status = "COMPLETED" /\ new.completedAt
               /\ op = "cancel" => new.status = "CANCELED"
               /\ old.completedAt =>
                    /\ new.status \in {"COMPLETED", "CANCELED"} /\ new.completedAt
                    /\ new.items = old.items /\ new.total = old.total
                    /\ new.pay = old.pay
               /\ InOrder(old)
    <2>1. Current(request[o])
      BY <1>1, <1>2, <1>5 DEF Target, SaleOps
    <2>2. request[o].base = old /\ Results(op, old, copy)
      BY <1>1, <1>2, <2>1 DEF Current, SaleIsCurrent
    <2>3. InOrder(old)
      BY <1>1, <1>2, <1>5 DEF TablesInOrder, SalesInOrder
    <2>4. /\ InOrder(copy) /\ Moves(old, copy) /\ copy.session = old.session
          /\ old.status # "CANCELED"
          /\ op = "complete" =>
               old.status = "PAID" /\ copy.status = "COMPLETED" /\ copy.completedAt
          /\ op = "cancel" => copy.status = "CANCELED"
          /\ old.completedAt =>
               /\ copy.status \in {"COMPLETED", "CANCELED"} /\ copy.completedAt
               /\ copy.items = old.items /\ copy.total = old.total
               /\ copy.pay = old.pay
      BY <1>2, <2>2, <2>3, ResultIsInOrder
    <2>5. new = copy
      BY <1>1, <1>2, <2>2, <2>3, <2>4, MergeOverCurrentRow DEF InOrder
    <2> QED
      BY <2>3, <2>4, <2>5
  <1>6. ASSUME NEW y \in Sales \ T1, saleTable'[y] # saleTable[y]
        PROVE  /\ InOrder(saleTable'[y]) /\ Moves(saleTable[y], saleTable'[y])
               /\ \A t \in Sessions \ T1 :
                    sessionTable'[t].status = "CLOSED" => y \notin NonTerminal(t)'
    <2>1. y = x /\ saleTable'[y] = new /\ x \notin T1 /\ saleTable[y] = old
      BY <1>1, <1>3, <1>6
    <2>2. \A t \in Sessions : y \in NonTerminal(t)' => y \in NonTerminal(t)
      <3>1. new.status \in {"OPEN", "PAID"} => old.status \in {"OPEN", "PAID"}
        BY <1>5, <2>1 DEF Moves, Forward
      <3> QED
        BY <1>2, <1>5, <2>1, <3>1 DEF NonTerminal, Exists
    <2>3. \A t \in Sessions \ T1 :
            sessionTable[t].status = "CLOSED" => y \notin NonTerminal(t)
      BY DEF TablesInOrder, Settled
    <2> QED
      BY <1>3, <1>5, <2>1, <2>2, <2>3
  <1>7. ASSUME NEW i \in DOMAIN outbox, outbox[i].aggregate = x, x \notin T1,
               outbox[i].name \in {"SaleCompleted", "SaleCanceled"}
        PROVE  outbox[i].name = "SaleCompleted" /\ old.completedAt
                 /\ old.status = "COMPLETED"
    <2>1. EventMatches(outbox[i]) /\ old.status # "CANCELED"
      BY <1>5, <1>7 DEF TablesInOrder, EventsMatch
    <2> QED
      BY <1>1, <1>7, <2>1 DEF EventMatches
  <1>8. ASSUME NEW i \in DOMAIN outbox, outbox[i].aggregate \notin T1,
               EventMatches(outbox[i])
        PROVE  EventMatches(outbox[i])'
    <2>1. PICK e : e = outbox[i] /\ e \in SaleEvent \cup SessionEvent
      BY <1>2 DEF TypeOK
    <2>2. outbox'[i] = e
      BY <1>2, <1>4, <2>1, AppendedOutbox
    <2>3. CASE e.name \in {"SaleCompleted", "SaleCanceled"} /\ e.aggregate = x
      <3>1. e.name = "SaleCompleted" /\ old.completedAt
        BY <1>7, <1>8, <2>1, <2>3
      <3>2. saleTable'[x] = new /\ new \in SaleRow
        BY <1>2, <1>3, <1>5, <1>8, <2>1, <2>3 DEF InOrder
      <3>3. /\ new.status \in {"COMPLETED", "CANCELED"} /\ new.completedAt
            /\ new.items = old.items /\ new.total = old.total /\ new.pay = old.pay
        BY <1>5, <1>8, <2>1, <2>3, <3>1
      <3> QED
        BY <1>1, <1>8, <2>1, <2>2, <2>3, <3>1, <3>2, <3>3 DEF EventMatches
    <2>4. CASE e.name \in {"SaleCompleted", "SaleCanceled"} /\ e.aggregate # x
      <3>1. e.aggregate \in Sales
        BY <2>1, <2>4 DEF SaleEvent, SessionEvent
      <3>2. saleTable'[e.aggregate] = saleTable[e.aggregate]
        BY <1>3, <2>4, <3>1
      <3> QED
        BY <1>8, <2>1, <2>2, <2>4, <3>2 DEF EventMatches
    <2>5. CASE e.name \notin {"SaleCompleted", "SaleCanceled"}
      BY <1>3, <1>8, <2>1, <2>2, <2>5 DEF EventMatches
    <2> QED
      BY <2>3, <2>4, <2>5
  <1>9. CASE op \in {"complete", "cancel"}
    <2>1. ASSUME x \notin T1
          PROVE  EventMatches(event)' /\ ~Emitted(event.name, event.aggregate)
      <3>1. saleTable'[x] = new /\ new \in SaleRow /\ new = copy
        BY <1>2, <1>3, <1>5, <2>1 DEF InOrder
      <3>2. EventMatches(event)'
        BY <1>4, <1>5, <1>9, <2>1, <3>1 DEF EventMatches
      <3>3. ~Emitted(event.name, event.aggregate)
        BY <1>4, <1>5, <1>7, <1>9, <2>1 DEF Emitted
      <3> QED
        BY <3>2, <3>3
    <2>2. \E e \in SaleEvent \cup SessionEvent :
            /\ outbox' = Append(outbox, e)
            /\ e.aggregate \notin T1 => EventMatches(e)' /\ ~Emitted(e.name, e.aggregate)
      BY <1>4, <1>9, <2>1
    <2>3. TablesInOrder(T1)'
      BY <1>2, <1>3, <1>6, <1>8, <2>2, TablesStep
    <2> QED
      BY <1>6, <2>3
  <1>10. CASE op \notin {"complete", "cancel"}
    <2>1. TablesInOrder(T1)'
      BY <1>2, <1>3, <1>4, <1>6, <1>8, <1>10, TablesStep
    <2> QED
      BY <1>6, <2>1
  <1> QED
    BY <1>9, <1>10

-----------------------------------------------------------------------------
(* Every step.                                                             *)

\* The requests, after a step of o whose own request becomes v.
LEMMA RequestsStayCurrent ==
  ASSUME PendingInv, NEW S, \A c \in Operators \ S : Current(request[c]), NEW S1,
         \A c \in Operators \ S1 : request'[c].pc # "idle" =>
           c \notin S /\ ~Overtakes(request[c]),
         NEW o \in Operators, NEW v, Goto(o, v),
         v = Idle \/ (Current(request[o]) => Current(v)'),
         PendingInv'
  PROVE  (\A c \in Operators \ S1 : Current(request[c]))'
  <1>1. \A c \in Operators : request'[c] = IF c = o THEN v ELSE request[c]
    BY DEF Goto, PendingInv, Inv, TypeOK
  <1> SUFFICES ASSUME NEW c \in Operators \ S1
               PROVE  Current(request[c])'
    OBVIOUS
  <1>2. PICK w : w = request'[c]
    OBVIOUS
  <1>3. CASE w.pc = "idle"
    <2>1. w = Idle
      BY <1>2, <1>3 DEF PendingInv, Inv, RequestsFit, Fits
    <2> QED
      BY <1>2, <2>1 DEF Current, Idle, HasCopy, SaleOps
  <1>4. CASE w.pc # "idle" /\ c = o
    <2>1. Current(request[o]) /\ w = v /\ v # Idle
      BY <1>1, <1>2, <1>4 DEF Idle
    <2>2. Current(v)'
      BY <2>1
    <2> QED
      BY <1>2, <2>1, <2>2 DEF Current, SaleIsCurrent
  <1>5. CASE w.pc # "idle" /\ c # o
    <2>1. w = request[c] /\ Current(w) /\ ~Overtakes(request[c])
      BY <1>1, <1>2, <1>5
    <2>2. ~Overtakes(w)
      BY <2>1 DEF Overtakes
    <2>3. Current(w)'
      <3>1. Fits(w)
        BY <2>1 DEF PendingInv, Inv, RequestsFit
      <3> QED
        BY <2>1, <2>2, <3>1, StaysCurrent
    <2> QED
      BY <1>2, <2>3 DEF Current, SaleIsCurrent
  <1> QED
    BY <1>3, <1>4, <1>5

\* T1 has the target of every stale request that writes, and a request outside
\* S1 is new or was not stale and is not overtaken by the step.
LEMMA RacesStep ==
  ASSUME SaleConstants, CheckoutConstants, PendingInv, PendingInv', Next,
         NEW S, NEW T, RacesInv(S, T), NEW S1, NEW T1, T \subseteq T1,
         \A c \in Operators \ S1 : request'[c].pc # "idle" =>
           c \notin S /\ ~Overtakes(request[c]),
         \A c \in Operators : c \in S /\ Write(c) => Target(request[c]) \in T1
  PROVE  /\ RacesInv(S1, T1)'
         /\ \A x \in Sales \ T1 : Exists(x) =>
              saleTable'[x] = saleTable[x] \/ Moves(saleTable[x], saleTable'[x])
  <1>1. TablesInOrder(T) /\ TypeOK
    BY DEF RacesInv, PendingInv, Inv
  <1>2. ASSUME NEW o \in Operators, NEW v, Goto(o, v),
               v = Idle \/ (Current(request[o]) => Current(v)')
        PROVE  (\A c \in Operators \ S1 : Current(request[c]))'
    BY <1>2, RequestsStayCurrent DEF RacesInv
  <1>3. ASSUME NEW o \in Operators, NEW v, Goto(o, v),
               Current(request[o]) => Current(v),
               UNCHANGED <<sessionTable, saleTable, outbox>>
        PROVE  RacesInv(S1, T1)' /\ UNCHANGED saleTable
    <2>1. Current(request[o]) => Current(v)'
      BY <1>3 DEF Current, SaleIsCurrent, NonTerminal
    <2>2. (\A c \in Operators \ S1 : Current(request[c]))'
      BY <1>2, <1>3, <2>1
    <2>3. \A i \in DOMAIN outbox : EventMatches(outbox[i]) => EventMatches(outbox[i])'
      BY <1>3 DEF EventMatches
    <2>4. TablesInOrder(T1)'
      BY <1>1, <1>3, <2>3, TablesStep
    <2> QED
      BY <1>3, <2>2, <2>4 DEF RacesInv
  <1>4. ASSUME NEW o \in Operators,
               \/ BeginOpenSession(o) \/ BeginStartSale(o)
               \/ BeginCloseSession(o) \/ BeginOnSale(o)
        PROVE  RacesInv(S1, T1)' /\ UNCHANGED saleTable
    BY <1>3, <1>4, BeginIsCurrent
  <1>5. ASSUME NEW o \in Operators, Read(o)
        PROVE  RacesInv(S1, T1)' /\ UNCHANGED saleTable
    BY <1>3, <1>5, ReadKeepsCurrent
  <1>6. ASSUME NEW o \in Operators, Rollback(o)
        PROVE  RacesInv(S1, T1)' /\ UNCHANGED saleTable
    BY <1>3, <1>6, IdleIsCurrent DEF Rollback, Finish
  <1>7. ASSUME NEW o \in Operators, Write(o)
        PROVE  /\ RacesInv(S1, T1)'
               /\ \A x \in Sales \ T1 : Exists(x) =>
                    \/ saleTable'[x] = saleTable[x]
                    \/ Moves(saleTable[x], saleTable'[x])
    <2>1. Goto(o, Idle)
      BY <1>7 DEF Write, InsertSession, UpdateSession, InsertSale, UpdateSale, Finish
    <2>2. (\A c \in Operators \ S1 : Current(request[c]))'
      BY <1>2, <2>1
    <2>3. Target(request[o]) \in T1 \/ Current(request[o])
      BY <1>7 DEF RacesInv
    <2>4. /\ TablesInOrder(T1)'
          /\ \A x \in Sales \ T1 : Exists(x) =>
               \/ saleTable'[x] = saleTable[x]
               \/ Moves(saleTable[x], saleTable'[x])
      BY <1>1, <1>7, <2>3, InsertSessionIsInOrder, UpdateSessionIsInOrder,
         InsertSaleIsInOrder, UpdateSaleIsInOrder DEF Write
    <2> QED
      BY <2>2, <2>4 DEF RacesInv
  <1> QED
    BY <1>4, <1>5, <1>6, <1>7 DEF Next

-----------------------------------------------------------------------------
(* With the history variables: what the races leave in order.              *)

HistoryInv == PendingInv /\ RacesInv(stale, overtaken)

\* Nothing has been read and nothing is in the tables at the start.
LEMMA HistoryInvHoldsInitially ==
  ASSUME CheckoutConstants, Init
  PROVE  PendingInv /\ \A S, T : RacesInv(S, T)
  <1>1. PendingInv
    BY PendingInvInitially
  <1>2. \A c \in Operators : Current(request[c])
    BY IdleIsCurrent DEF Init
  <1>3. ASSUME NEW T
        PROVE  TablesInOrder(T)
    BY DEF Init, TablesInOrder, SalesInOrder, Settled, EventsMatch, EventsOnce,
           Exists, NoSession
  <1> QED
    BY <1>1, <1>2, <1>3 DEF RacesInv

\* Every step preserves the invariant and moves the sales forward that are not
\* overtaken.
LEMMA HistoryInvIsInductive ==
  ASSUME SaleConstants, CheckoutConstants, HistoryInv, [HistoryNext]_historyVars
  PROVE  /\ HistoryInv'
         /\ \A x \in Sales \ overtaken' : Exists(x) =>
              saleTable'[x] = saleTable[x] \/ Moves(saleTable[x], saleTable'[x])
  <1>1. PendingInv'
    BY PendingInvIsInductive DEF HistoryInv, HistoryNext, historyVars, vars
  <1>2. CASE HistoryNext
    <2>1. PICK S, T, S1, T1 :
            S = stale /\ T = overtaken /\ S1 = stale' /\ T1 = overtaken'
      OBVIOUS
    <2>2. RacesInv(S, T)
      BY <2>1 DEF HistoryInv, RacesInv, TablesInOrder, SalesInOrder, Settled,
                  EventsMatch, EventsOnce
    <2>3. \A c \in Operators \ S1 : request'[c].pc # "idle" =>
            c \notin S /\ ~Overtakes(request[c])
      BY <1>2, <2>1 DEF HistoryNext, Track
    <2>4. T \subseteq T1
      BY <1>2, <2>1 DEF HistoryNext, Track
    <2>5. \A c \in Operators : c \in S /\ Write(c) => Target(request[c]) \in T1
      BY <1>2, <2>1 DEF HistoryNext, Track
    <2>6. /\ RacesInv(S1, T1)'
          /\ \A x \in Sales \ T1 : Exists(x) =>
               saleTable'[x] = saleTable[x] \/ Moves(saleTable[x], saleTable'[x])
      BY <1>1, <1>2, <2>2, <2>3, <2>4, <2>5, RacesStep DEF HistoryInv, HistoryNext
    <2>7. RacesInv(stale, overtaken)'
      BY <2>1, <2>6 DEF RacesInv, TablesInOrder, SalesInOrder, Settled,
                  EventsMatch, EventsOnce
    <2> QED
      BY <1>1, <2>1, <2>6, <2>7 DEF HistoryInv
  <1>3. CASE UNCHANGED historyVars
    <2>1. RacesInv(stale, overtaken)'
      BY <1>3 DEF historyVars, HistoryInv, RacesInv, TablesInOrder, SalesInOrder,
         Settled, NonTerminal, EventsMatch, EventsOnce, EventMatches, Exists,
         Current, SaleIsCurrent
    <2> QED
      BY <1>1, <1>3, <2>1 DEF HistoryInv, historyVars
  <1> QED
    BY <1>2, <1>3

\* ClosePosSession leaves no open or paid sale behind, however requests overlap,
\* except where the closing itself was overtaken or the request that started or
\* saved the sale was.
THEOREM ClosedSessionsStaySettled ==
  ASSUME CheckoutConstants, SaleConstants
  PROVE  HistorySpec => []ClosedSessionsAreSettled
  <1>1. HistoryInit => HistoryInv
    BY HistoryInvHoldsInitially DEF HistoryInit, HistoryInv
  <1>2. HistoryInv /\ [HistoryNext]_historyVars => HistoryInv'
    BY HistoryInvIsInductive
  <1>3. HistoryInv => ClosedSessionsAreSettled
    BY DEF HistoryInv, RacesInv, TablesInOrder, Settled, ClosedSessionsAreSettled
  <1> QED
    BY <1>1, <1>2, <1>3, PTL DEF HistorySpec

\* The outbox announces the completion, the cancellation or the closing of what
\* was not overtaken at most once, however often it is asked for.
THEOREM EventsAreStoredOnce ==
  ASSUME CheckoutConstants, SaleConstants
  PROVE  HistorySpec => []EachEventOnce
  <1>1. HistoryInit => HistoryInv
    BY HistoryInvHoldsInitially DEF HistoryInit, HistoryInv
  <1>2. HistoryInv /\ [HistoryNext]_historyVars => HistoryInv'
    BY HistoryInvIsInductive
  <1>3. HistoryInv => EachEventOnce
    BY DEF HistoryInv, RacesInv, TablesInOrder, EventsOnce, EachEventOnce
  <1> QED
    BY <1>1, <1>2, <1>3, PTL DEF HistorySpec

\* What an event said of a sale stays true of its row, unless a request that
\* had read an older row wrote the sale.
THEOREM EventsStayTrue ==
  ASSUME CheckoutConstants, SaleConstants
  PROVE  HistorySpec => []EventsTellTheTruth
  <1>1. HistoryInit => HistoryInv
    BY HistoryInvHoldsInitially DEF HistoryInit, HistoryInv
  <1>2. HistoryInv /\ [HistoryNext]_historyVars => HistoryInv'
    BY HistoryInvIsInductive
  <1>3. HistoryInv => EventsTellTheTruth
    BY DEF HistoryInv, RacesInv, TablesInOrder, EventsMatch, EventMatches,
           EventsTellTheTruth
  <1> QED
    BY <1>1, <1>2, <1>3, PTL DEF HistorySpec

\* A sale passes assertConsistentTotals and its payment covers its total, unless
\* a request that had read an older row wrote it.
THEOREM SalesAreKeptInOrder ==
  ASSUME CheckoutConstants, SaleConstants
  PROVE  HistorySpec => []SalesStayInOrder
  <1>1. HistoryInit => HistoryInv
    BY HistoryInvHoldsInitially DEF HistoryInit, HistoryInv
  <1>2. HistoryInv /\ [HistoryNext]_historyVars => HistoryInv'
    BY HistoryInvIsInductive
  <1>3. HistoryInv => SalesStayInOrder
    BY DEF HistoryInv, RacesInv, TablesInOrder, SalesInOrder, InOrder, SalesStayInOrder
  <1> QED
    BY <1>1, <1>2, <1>3, PTL DEF HistorySpec

\* Every change of a sale that no stale request has written is a step forward
\* that keeps what was paid for.
THEOREM SalesOnlyMoveForward ==
  ASSUME CheckoutConstants, SaleConstants
  PROVE  HistorySpec => SalesMoveForward
  <1>1. HistoryInit => HistoryInv
    BY HistoryInvHoldsInitially DEF HistoryInit, HistoryInv
  <1>2. HistoryInv /\ [HistoryNext]_historyVars => HistoryInv'
    BY HistoryInvIsInductive
  <1>3. HistoryInv /\ [HistoryNext]_historyVars =>
          [\A x \in Sales \ overtaken' : Exists(x) /\ saleTable'[x] # saleTable[x] =>
             LET old == saleTable[x]
                 new == saleTable'[x]
             IN  \/ old.status = "OPEN" /\ new.status = "OPEN"
                 \/ /\ <<old.status, new.status>> \in Forward
                    /\ new.items = old.items /\ new.total = old.total
                    /\ old.status # "OPEN" => new.pay = old.pay]_saleTable
    BY HistoryInvIsInductive DEF Moves
  <1> QED
    BY <1>1, <1>2, <1>3, PTL DEF HistorySpec, SalesMoveForward

-----------------------------------------------------------------------------
(* Fourth part: own sessions.  Where operators work on the sessions they   *)
(* opened, each with one request at a time, no request is overtaken.       *)

OwnedBy(o, s) == sessionTable[s].operator = o

\* The request r of operator o is about rows of o; a session it found open it
\* still finds open.
Own(o, r) ==
  /\ r.op = "open" => r.pos.operator = o
  /\ r.op \in {"start", "close"} => OwnedBy(o, r.session)
  /\ r.op \in SaleOps => OwnedBy(o, saleTable[r.sale].session)
  /\ HasCopy(r) /\ r.pc # "findSession" => sessionTable[r.session].status = "OPEN"

OwnInv ==
  /\ PendingInv /\ RacesInv({}, {})
  /\ \A o \in Operators : Own(o, request[o])

\* The sessions a step of o changes are sessions of o, or the one o inserts.
ChangesOwnSessions(o) ==
  \A s \in Sessions : sessionTable'[s] # sessionTable[s] =>
    \/ OwnedBy(o, s)
    \/ sessionTable[s] = NoSession /\ request[o].op = "open" /\ request[o].session = s

\* The sales a step of o changes are sales of o, or the one o inserts.
ChangesOwnSales(o) ==
  \A x \in Sales : saleTable'[x] # saleTable[x] =>
    /\ Exists(x)' /\ OwnedBy(o, saleTable'[x].session)
    /\ \/ Exists(x) /\ saleTable'[x].session = saleTable[x].session
       \/ ~Exists(x)

\* A step of o leaves what another operator has read, and its sessions.
LEMMA OthersAreNotOvertaken ==
  ASSUME CheckoutConstants, OwnInv, NEW o \in Operators,
         NEW c \in Operators \ {o}, request'[c] = request[c],
         ChangesOwnSessions(o), ChangesOwnSales(o)
  PROVE  ~Overtakes(request[c]) /\ Own(c, request[c])'
  <1>1. NoSession.operator = None /\ None \notin Operators
    BY DEF NoSession, CheckoutConstants
  <1>2. PICK w : w = request[c] /\ Fits(w) /\ Own(c, w) /\ Pending(w)
    BY DEF OwnInv, PendingInv, Inv, RequestsFit, RequestsPending
  <1>3. ASSUME NEW s \in Sessions, OwnedBy(c, s)
        PROVE  sessionTable'[s] = sessionTable[s]
    BY <1>1, <1>3 DEF ChangesOwnSessions, OwnedBy
  <1>4. ASSUME NEW x \in Sales, Exists(x), OwnedBy(c, saleTable[x].session)
        PROVE  saleTable'[x] = saleTable[x]
    BY <1>4 DEF ChangesOwnSales, OwnedBy
  <1>5. ASSUME NEW s \in Sessions, OwnedBy(c, s)
        PROVE  NonTerminal(s)' = NonTerminal(s)
    <2>1. ASSUME NEW x \in NonTerminal(s)'
          PROVE  x \in NonTerminal(s)
      <3>1. x \in Sales /\ saleTable'[x].session = s
        BY DEF NonTerminal
      <3>2. saleTable'[x] = saleTable[x]
        BY <1>5, <3>1 DEF ChangesOwnSales, OwnedBy
      <3> QED
        BY <3>1, <3>2 DEF NonTerminal
    <2>2. ASSUME NEW x \in NonTerminal(s)
          PROVE  x \in NonTerminal(s)'
      <3>1. x \in Sales /\ Exists(x) /\ saleTable[x].session = s
        BY DEF NonTerminal, Exists
      <3>2. saleTable'[x] = saleTable[x]
        BY <1>4, <1>5, <3>1
      <3> QED
        BY <3>1, <3>2 DEF NonTerminal
    <2> QED
      BY <2>1, <2>2
  <1>6. w.op \in {"start", "close"} =>
          /\ sessionTable'[w.session] = sessionTable[w.session]
          /\ \A s \in Sessions : s = w.session => NonTerminal(s)' = NonTerminal(s)
    BY <1>2, <1>3, <1>5 DEF Own, Fits
  <1>7. ASSUME w.op \in SaleOps
        PROVE  /\ saleTable'[w.sale] = saleTable[w.sale]
               /\ sessionTable'[saleTable[w.sale].session]
                    = sessionTable[saleTable[w.sale].session]
    <2>1. w.sale \in Sales /\ Exists(w.sale) /\ OwnedBy(c, saleTable[w.sale].session)
      BY <1>2, <1>7 DEF Own, Fits
    <2>2. saleTable[w.sale].session \in Sessions
      BY <2>1 DEF OwnInv, PendingInv, Inv, TypeOK, Exists, SaleRow
    <2> QED
      BY <1>3, <1>4, <2>1, <2>2
  <1>8. ~Overtakes(w)
    BY <1>6, <1>7 DEF Overtakes, HasCopy, HasSession, HasCount
  <1>9. Own(c, w)'
    BY <1>2, <1>6, <1>7 DEF Own, OwnedBy, Pending, HasCopy
  <1> QED
    BY <1>2, <1>8, <1>9 DEF Overtakes, Own, OwnedBy

\* What an operator may start a request about is an operator's own.
LEMMA BeginIsOwn ==
  ASSUME ~SharedSessions, OwnInv, NEW o \in Operators,
         BeginOpenSession(o) \/ BeginStartSale(o) \/ BeginCloseSession(o)
           \/ BeginOnSale(o)
  PROVE  /\ UNCHANGED <<sessionTable, saleTable>>
         /\ \E v : Goto(o, v) /\ Own(o, v)
  <1>1. ASSUME NEW op, NEW s, NEW x, NEW pos,
               NEW pc \in {"findOpen", "findSession", "findSale"},
               Begin(o, op, s, x, pos, pc),
               op = "open" => pos.operator = o,
               op \in {"start", "close"} => OwnedBy(o, s),
               op \in SaleOps => OwnedBy(o, saleTable[x].session) /\ pc = "findSale"
        PROVE  /\ UNCHANGED <<sessionTable, saleTable>>
               /\ \E v : Goto(o, v) /\ Own(o, v)
    <2> DEFINE v == [Idle EXCEPT !.pc = pc, !.op = op, !.session = s, !.sale = x,
                                 !.pos = pos]
    <2>1. v.pc = pc /\ v.op = op /\ v.session = s /\ v.sale = x /\ v.pos = pos
      BY DEF Idle
    <2>2. Goto(o, v) /\ UNCHANGED <<sessionTable, saleTable>>
      BY <1>1 DEF Begin
    <2> HIDE DEF v
    <2>3. Own(o, v)
      BY <1>1, <2>1 DEF Own, HasCopy
    <2> QED
      BY <2>2, <2>3
  <1>2. CASE BeginOpenSession(o)
    <2>1. PICK s \in Sessions, r \in Registers :
            Begin(o, "open", s, None,
                  [status |-> "OPEN", register |-> r, operator |-> o], "findOpen")
      BY <1>2 DEF BeginOpenSession
    <2> QED
      BY <1>1, <2>1 DEF SaleOps
  <1>3. CASE BeginStartSale(o)
    BY <1>1, <1>3 DEF BeginStartSale, MayUse, OwnedBy, SaleOps
  <1>4. CASE BeginCloseSession(o)
    BY <1>1, <1>4 DEF BeginCloseSession, MayUse, OwnedBy, SaleOps
  <1>5. CASE BeginOnSale(o)
    BY <1>1, <1>5 DEF BeginOnSale, MayUse, OwnedBy, SaleOps
  <1> QED
    BY <1>2, <1>3, <1>4, <1>5

\* A statement that reads goes on about the same rows, and past findSession
\* only if the session is open.
LEMMA ReadIsOwn ==
  ASSUME OwnInv, NEW o \in Operators, Read(o)
  PROVE  /\ UNCHANGED <<sessionTable, saleTable>>
         /\ \E v : Goto(o, v) /\ (v = Idle \/ Own(o, v))
  <1>1. PICK req : req = request[o]
    OBVIOUS
  <1>2. UNCHANGED <<sessionTable, saleTable>> /\ req.pc # "idle"
    BY <1>1 DEF Read, FindOpen, FindSale, FindSessionToStart, FindSessionToClose,
       CountSales, FindSessionOfSale, FindCatalog, SelectSale, At
  <1>3. req \in SaleRequest /\ Fits(req) /\ Own(o, req) /\ req.pc # "idle"
    BY <1>1, <1>2, RequestInProgress DEF OwnInv, PendingInv
  <1>4. ASSUME NEW v, Goto(o, v), v.op = req.op,
               req.op = "open" => v.pos = req.pos,
               req.op \in {"start", "close"} => v.session = req.session,
               req.op \in SaleOps => v.sale = req.sale,
               HasCopy(v) /\ v.pc # "findSession" =>
                 sessionTable[v.session].status = "OPEN"
        PROVE  \E u : Goto(o, u) /\ (u = Idle \/ Own(o, u))
    <2>1. Own(o, v)
      BY <1>3, <1>4 DEF Own
    <2> QED
      BY <1>4, <2>1
  <1>5. CASE Finish(o)
    BY <1>2, <1>5 DEF Finish
  <1>6. CASE FindOpen(o) /\ ~Finish(o)
    <2> DEFINE v == [req EXCEPT !.pc = "write"]
    <2>1. Goto(o, v) /\ req.op = "open"
      BY <1>1, <1>3, <1>6 DEF FindOpen, At, Fits
    <2>2. v.op = req.op /\ v.pos = req.pos
      BY <1>3 DEF SaleRequest
    <2> HIDE DEF v
    <2> QED
      BY <1>2, <1>4, <2>1, <2>2 DEF HasCopy, SaleOps
  <1>7. CASE FindSale(o) /\ ~Finish(o)
    <2>1. PICK row : row = saleTable[req.sale]
      OBVIOUS
    <2> DEFINE v == [req EXCEPT !.pc = "findSession", !.session = row.session,
                                !.previous = row.status, !.copy = row]
    <2>2. Goto(o, v) /\ req.op \in SaleOps
      BY <1>1, <1>3, <1>7, <2>1 DEF FindSale, At, Fits
    <2>3. v.pc = "findSession" /\ v.op = req.op /\ v.sale = req.sale
      BY <1>3 DEF SaleRequest
    <2> HIDE DEF v
    <2> QED
      BY <1>2, <1>4, <2>2, <2>3 DEF SaleOps
  <1>8. CASE FindSessionToStart(o) /\ ~Finish(o)
    <2>1. PICK x \in Sales :
            Goto(o, [req EXCEPT !.pc = "write", !.sale = x, !.copy = Start(req.session)])
      BY <1>1, <1>8 DEF FindSessionToStart
    <2> DEFINE v == [req EXCEPT !.pc = "write", !.sale = x, !.copy = Start(req.session)]
    <2>2. Goto(o, v) /\ req.op = "start"
      BY <1>1, <1>8, <2>1 DEF FindSessionToStart
    <2>3. v.op = req.op /\ v.session = req.session
      BY <1>3 DEF SaleRequest
    <2> HIDE DEF v
    <2> QED
      BY <1>2, <1>4, <2>2, <2>3 DEF HasCopy, SaleOps
  <1>9. CASE FindSessionToClose(o)
    <2> DEFINE v == [req EXCEPT !.pc = "countSales", !.pos = Loaded(o)]
    <2>1. Goto(o, v) /\ req.op = "close"
      BY <1>1, <1>9 DEF FindSessionToClose
    <2>2. v.op = req.op /\ v.session = req.session
      BY <1>3 DEF SaleRequest
    <2> HIDE DEF v
    <2> QED
      BY <1>2, <1>4, <2>1, <2>2 DEF HasCopy, SaleOps
  <1>10. CASE CountSales(o) /\ ~Finish(o)
    <2> DEFINE v == [req EXCEPT !.pc = "write", !.pos.status = "CLOSED"]
    <2>1. Goto(o, v) /\ req.op = "close"
      BY <1>1, <1>3, <1>10 DEF CountSales, At, Fits
    <2>2. v.op = req.op /\ v.session = req.session
      BY <1>3 DEF SaleRequest
    <2> HIDE DEF v
    <2> QED
      BY <1>2, <1>4, <2>1, <2>2 DEF HasCopy, SaleOps
  <1>11. ASSUME NEW pc, NEW copy, NEW base, req.op \in SaleOps,
                sessionTable[req.session].status = "OPEN",
                Goto(o, [req EXCEPT !.pc = pc, !.copy = copy, !.base = base])
         PROVE  \E u : Goto(o, u) /\ (u = Idle \/ Own(o, u))
    <2> DEFINE v == [req EXCEPT !.pc = pc, !.copy = copy, !.base = base]
    <2>1. /\ Goto(o, v) /\ v.op = req.op /\ v.sale = req.sale
          /\ v.session = req.session
      BY <1>3, <1>11 DEF SaleRequest
    <2> HIDE DEF v
    <2> QED
      BY <1>4, <1>11, <2>1 DEF SaleOps
  <1>12. /\ [req EXCEPT !.copy = req.copy, !.base = req.base] = req
         /\ \A pc, copy : [req EXCEPT !.pc = pc, !.copy = copy]
                        = [req EXCEPT !.pc = pc, !.copy = copy, !.base = req.base]
         /\ \A pc, base : [req EXCEPT !.pc = pc, !.base = base]
                        = [req EXCEPT !.pc = pc, !.copy = req.copy, !.base = base]
         /\ \A pc : [req EXCEPT !.pc = pc]
                  = [req EXCEPT !.pc = pc, !.copy = req.copy, !.base = req.base]
    BY <1>3 DEF SaleRequest
  <1>13. CASE FindSessionOfSale(o) /\ ~Finish(o)
    <2>1. req.op \in SaleOps /\ sessionTable[req.session].status = "OPEN"
      BY <1>1, <1>13 DEF FindSessionOfSale, Loaded
    <2>2. CASE req.op = "add"
      <3>1. Goto(o, [req EXCEPT !.pc = "findCatalog"])
        BY <1>1, <1>13, <2>2 DEF FindSessionOfSale
      <3>2. Goto(o, [req EXCEPT !.pc = "findCatalog", !.copy = req.copy,
                                !.base = req.base])
        BY <1>12, <3>1
      <3> QED
        BY <1>2, <1>11, <2>1, <3>2
    <2>3. CASE req.op # "add"
      <3>1. PICK sale : Goto(o, [req EXCEPT !.pc = "select", !.copy = sale])
        BY <1>1, <1>13, <2>3 DEF FindSessionOfSale
      <3>2. Goto(o, [req EXCEPT !.pc = "select", !.copy = sale, !.base = req.base])
        BY <1>12, <3>1
      <3> QED
        BY <1>2, <1>11, <2>1, <3>2
    <2> QED
      BY <2>2, <2>3
  <1>14. CASE FindCatalog(o) /\ ~Finish(o)
    <2>1. req.op \in SaleOps /\ sessionTable[req.session].status = "OPEN"
      BY <1>1, <1>3, <1>14 DEF FindCatalog, At, Own, Fits, HasCopy
    <2>2. PICK sale : Goto(o, [req EXCEPT !.pc = "select", !.copy = sale])
      BY <1>1, <1>14 DEF FindCatalog
    <2>3. Goto(o, [req EXCEPT !.pc = "select", !.copy = sale, !.base = req.base])
      BY <1>12, <2>2
    <2> QED
      BY <1>2, <1>11, <2>1, <2>3
  <1>15. CASE SelectSale(o)
    <2>1. req.op \in SaleOps /\ sessionTable[req.session].status = "OPEN"
      BY <1>1, <1>3, <1>15 DEF SelectSale, At, Own, Fits, HasCopy
    <2>2. PICK base : Goto(o, [req EXCEPT !.pc = "write", !.base = base])
      BY <1>1, <1>15 DEF SelectSale
    <2>3. Goto(o, [req EXCEPT !.pc = "write", !.copy = req.copy, !.base = base])
      BY <1>12, <2>2
    <2> QED
      BY <1>2, <1>11, <2>1, <2>3
  <1> QED
    BY <1>2, <1>5, <1>6, <1>7, <1>8, <1>9, <1>10, <1>13, <1>14, <1>15 DEF Read

\* A commit of o changes what is o's own.
LEMMA WriteIsOwn ==
  ASSUME SaleConstants, OwnInv, NEW o \in Operators, Write(o)
  PROVE  Goto(o, Idle) /\ ChangesOwnSessions(o) /\ ChangesOwnSales(o)
  <1>1. PICK req : req = request[o]
    OBVIOUS
  <1>2. /\ Fits(req) /\ Pending(req) /\ Own(o, req) /\ req.pc = "write" /\ TypeOK
        /\ Finish(o) /\ Commits(o)
    BY <1>1, WriteCommits, RequestInProgress
       DEF OwnInv, PendingInv, Inv, RequestsPending, Write, InsertSession,
           UpdateSession, InsertSale, UpdateSale, At
  <1>3. CASE InsertSession(o) \/ UpdateSession(o)
    <2>1. /\ UNCHANGED saleTable
          /\ \/ req.op = "open" /\ sessionTable[req.session] = NoSession
             \/ req.op = "close" /\ OwnedBy(o, req.session)
          /\ \/ UNCHANGED sessionTable
             \/ sessionTable' = [sessionTable EXCEPT ![req.session] = req.pos]
      BY <1>1, <1>2, <1>3
         DEF InsertSession, UpdateSession, Own, Pending, Existing
    <2>2. \A s \in Sessions : sessionTable'[s] # sessionTable[s] => s = req.session
      BY <1>2, <2>1 DEF TypeOK
    <2> QED
      BY <1>1, <1>2, <2>1, <2>2 DEF ChangesOwnSessions, ChangesOwnSales, Finish
  <1>4. CASE InsertSale(o) \/ UpdateSale(o)
    <2>1. /\ UNCHANGED sessionTable
          /\ \A x \in Sales : saleTable'[x] # saleTable[x] => x = req.sale
      BY <1>1, <1>2, <1>4 DEF InsertSale, UpdateSale, TypeOK
    <2> SUFFICES ASSUME NEW x \in Sales, saleTable'[x] # saleTable[x]
                 PROVE  /\ Exists(x)' /\ OwnedBy(o, saleTable'[x].session)
                        /\ Exists(x) => saleTable'[x].session = saleTable[x].session
      BY <1>2, <2>1 DEF ChangesOwnSessions, ChangesOwnSales, Finish
    <2>2. x = req.sale /\ Exists(x)'
      BY <1>2, <2>1 DEF Commits, Exists
    <2>3. CASE Exists(x)
      <3>1. UpdateSale(o) /\ OwnedBy(o, saleTable[x].session)
        BY <1>1, <1>2, <1>4, <2>2, <2>3 DEF InsertSale, UpdateSale, Pending, Own
      <3> QED
        BY <1>2, <2>2, <2>3, <3>1 DEF Commits
    <2>4. CASE ~Exists(x)
      <3>1. InsertSale(o) /\ OwnedBy(o, req.session) /\ req.copy.session = req.session
        BY <1>1, <1>2, <1>4, <2>2, <2>4
           DEF InsertSale, UpdateSale, Fits, Own, Start
      <3>2. saleTable'[x] = req.copy
        BY <1>1, <1>2, <2>2, <3>1 DEF InsertSale, TypeOK
      <3> QED
        BY <2>2, <2>4, <3>1, <3>2
    <2> QED
      BY <2>3, <2>4
  <1> QED
    BY <1>3, <1>4 DEF Write

-----------------------------------------------------------------------------
\* Nothing is in flight at the start.
LEMMA OwnInvHoldsInitially ==
  ASSUME CheckoutConstants, Init
  PROVE  OwnInv
  <1>1. \A o \in Operators : Own(o, request[o])
    BY DEF Init, Own, Idle, HasCopy, SaleOps
  <1> QED
    BY <1>1, HistoryInvHoldsInitially DEF OwnInv

\* The step overtakes no request.
NoneOvertaken ==
  \A c \in Operators : request'[c].pc # "idle" => ~Overtakes(request[c])

\* No step overtakes a request, so every step preserves the invariant.
LEMMA OwnInvIsInductive ==
  ASSUME SaleConstants, CheckoutConstants, ~SharedSessions, OwnInv, [Next]_vars
  PROVE  OwnInv' /\ (Next => NoneOvertaken)
  <1>1. PendingInv'
    BY PendingInvIsInductive DEF OwnInv
  <1>2. ASSUME Next, NEW o \in Operators, NEW v, Goto(o, v),
               ChangesOwnSessions(o), ChangesOwnSales(o),
               v = Idle \/ (UNCHANGED <<sessionTable, saleTable>> /\ Own(o, v))
        PROVE  OwnInv' /\ NoneOvertaken
    <2>1. \A c \in Operators : request'[c] = IF c = o THEN v ELSE request[c]
      BY <1>2 DEF Goto, OwnInv, PendingInv, Inv, TypeOK
    <2>2. ASSUME NEW c \in Operators
          PROVE  /\ request'[c].pc # "idle" => ~Overtakes(request[c])
                 /\ Own(c, request[c])'
      <3>1. CASE c # o
        BY <1>2, <2>1, <3>1, OthersAreNotOvertaken
      <3>2. CASE c = o /\ v = Idle
        BY <2>1, <3>2 DEF Own, Idle, HasCopy, SaleOps
      <3>3. CASE c = o /\ v # Idle
        <4>1. UNCHANGED <<sessionTable, saleTable>> /\ Own(c, v) /\ request'[c] = v
          BY <1>2, <2>1, <3>3
        <4>2. ~Overtakes(request[c])
          BY <4>1 DEF Overtakes, NonTerminal
        <4> QED
          BY <4>1, <4>2 DEF Own, OwnedBy
      <3> QED
        BY <3>1, <3>2, <3>3
    <2>3. RacesInv({}, {})'
      BY <1>1, <1>2, <2>2, RacesStep DEF OwnInv
    <2> QED
      BY <1>1, <2>2, <2>3 DEF OwnInv, NoneOvertaken
  <1>3. ASSUME Next, NEW o \in Operators, NEW v, Goto(o, v), v = Idle \/ Own(o, v),
               UNCHANGED <<sessionTable, saleTable>>
        PROVE  OwnInv' /\ NoneOvertaken
    <2>1. ChangesOwnSessions(o) /\ ChangesOwnSales(o)
      BY <1>3 DEF ChangesOwnSessions, ChangesOwnSales
    <2> QED
      BY <1>2, <1>3, <2>1
  <1>4. ASSUME NEW o \in Operators, Rollback(o)
        PROVE  Goto(o, Idle) /\ UNCHANGED <<sessionTable, saleTable>>
    BY <1>4 DEF Rollback, Finish
  <1>5. CASE UNCHANGED vars /\ ~Next
    <2>1. RacesInv({}, {})'
      BY <1>5 DEF vars, OwnInv, RacesInv, TablesInOrder, SalesInOrder, Settled,
         NonTerminal, EventsMatch, EventsOnce, EventMatches, Exists, Current,
         SaleIsCurrent
    <2> QED
      BY <1>1, <1>5, <2>1 DEF OwnInv, Own, OwnedBy, vars
  <1>6. CASE Next
    <2>1. PICK o \in Operators :
            \/ BeginOpenSession(o) \/ BeginStartSale(o)
            \/ BeginCloseSession(o) \/ BeginOnSale(o)
            \/ Read(o) \/ Write(o) \/ Rollback(o)
      BY <1>6 DEF Next
    <2>2. \/ Goto(o, Idle) /\ ChangesOwnSessions(o) /\ ChangesOwnSales(o)
          \/ \E v : /\ Goto(o, v) /\ (v = Idle \/ Own(o, v))
                   /\ UNCHANGED <<sessionTable, saleTable>>
      <3>1. CASE \/ BeginOpenSession(o) \/ BeginStartSale(o)
                 \/ BeginCloseSession(o) \/ BeginOnSale(o)
        BY <3>1, BeginIsOwn
      <3>2. CASE Read(o)
        BY <3>2, ReadIsOwn
      <3>3. CASE Write(o)
        BY <3>3, WriteIsOwn
      <3>4. CASE Rollback(o)
        BY <1>4, <3>4
      <3> QED
        BY <2>1, <3>1, <3>2, <3>3, <3>4
    <2>3. CASE Goto(o, Idle) /\ ChangesOwnSessions(o) /\ ChangesOwnSales(o)
      <3>1. PICK v : v = Idle /\ Goto(o, v)
        BY <2>3
      <3> QED
        BY <1>2, <1>6, <2>3, <3>1
    <2>4. CASE \E v : /\ Goto(o, v) /\ (v = Idle \/ Own(o, v))
                      /\ UNCHANGED <<sessionTable, saleTable>>
      <3>1. PICK v : /\ Goto(o, v) /\ (v = Idle \/ Own(o, v))
                     /\ UNCHANGED <<sessionTable, saleTable>>
        BY <2>4
      <3> QED
        BY <1>3, <1>6, <3>1
    <2> QED
      BY <2>2, <2>3, <2>4
  <1> QED
    BY <1>5, <1>6

\* When each operator works on the sessions they opened, no sale and no session
\* is ever overtaken, and the theorems about the others are about them all.
THEOREM OwnSessionsAreNotOvertaken ==
  ASSUME CheckoutConstants, SaleConstants, ~SharedSessions
  PROVE  HistorySpec => [](overtaken = {})
  <1>1. HistoryInit => OwnInv /\ stale = {} /\ overtaken = {}
    BY OwnInvHoldsInitially DEF HistoryInit
  <1>2. OwnInv /\ stale = {} /\ overtaken = {} /\ [HistoryNext]_historyVars
          => (OwnInv /\ stale = {} /\ overtaken = {})'
    <2> SUFFICES ASSUME OwnInv, stale = {}, overtaken = {}, [HistoryNext]_historyVars
                 PROVE  (OwnInv /\ stale = {} /\ overtaken = {})'
      OBVIOUS
    <2>1. OwnInv' /\ (Next => NoneOvertaken)
      BY OwnInvIsInductive DEF HistoryNext, historyVars, vars
    <2>2. CASE HistoryNext
      BY <2>1, <2>2 DEF HistoryNext, Track, NoneOvertaken
    <2>3. CASE UNCHANGED historyVars
      BY <2>1, <2>3 DEF historyVars
    <2> QED
      BY <2>1, <2>2, <2>3
  <1>3. OwnInv /\ stale = {} /\ overtaken = {} => overtaken = {}
    OBVIOUS
  <1> QED
    BY <1>1, <1>2, <1>3, PTL DEF HistorySpec

\* When each operator works on the sessions they opened, every committed sale
\* passes assertConsistentTotals, so none is ever stuck, and its payment covers
\* the total its row shows, as registerPayment made sure.
THEOREM OwnSalesAreInOrder ==
  ASSUME CheckoutConstants, SaleConstants, ~SharedSessions
  PROVE  Spec => []SalesAreInOrder
  <1>1. Init => OwnInv
    BY OwnInvHoldsInitially
  <1>2. OwnInv /\ [Next]_vars => OwnInv'
    BY OwnInvIsInductive
  <1>3. OwnInv => SalesAreInOrder
    BY DEF OwnInv, RacesInv, TablesInOrder, SalesInOrder, InOrder, SalesAreInOrder,
           SalesCanBeLoaded
  <1> QED
    BY <1>1, <1>2, <1>3, PTL DEF Spec
=============================================================================
