------------------------------ MODULE Checkout ------------------------------
(***************************************************************************)
(* The checkout service: the use cases that open and close POS sessions    *)
(* and drive a sale from its first item to completion or cancellation,     *)
(* each one transaction on the service's PostgreSQL database.              *)
(*                                                                         *)
(* A request is a process that runs its use case one database statement at *)
(* a time.  TypeormCheckoutTransactionRunner opens a transaction at the    *)
(* default isolation level, READ COMMITTED, and no repository takes a row  *)
(* lock when it reads: between two statements of a request any other       *)
(* request may commit.  A save reads the row again, compares it with the   *)
(* aggregate and updates the columns that differ; its UPDATE waits for the *)
(* row lock of a concurrent writer, and everything it does from there to   *)
(* the commit is invisible until the commit, so it is one step.            *)
(*                                                                         *)
(* Inputs (products, quantities, amounts, approvals) are chosen at the     *)
(* statement whose result they are used with.  There is one tenant: every  *)
(* query is restricted to the tenant of the request.                       *)
(***************************************************************************)
EXTENDS Sale, Sequences

CONSTANTS
  Sales,           \* ids randomUUID may give to a sale
  Registers,       \* the tills of the store
  Operators,       \* cashiers; each has one request in flight at a time
  SharedSessions,  \* may an operator act on a session another one opened?
  MaxEvents,       \* bound: events the outbox can hold
  None             \* no id

ASSUME CheckoutConstants ==
  /\ SharedSessions \in BOOLEAN
  /\ MaxEvents \in Nat
  /\ None \notin Sales \cup Sessions \cup Registers \cup Operators

VARIABLES
  sessionTable,  \* table pos_sessions
  saleTable,     \* tables sales and sale_items
  outbox,        \* table outbox_events, in commit order; the index is the eventId
  request        \* the request each operator has in flight

vars == <<sessionTable, saleTable, outbox, request>>

-----------------------------------------------------------------------------
NoSession == [status |-> "NONE", register |-> None, operator |-> None]
PosSession ==
  [status: {"OPEN", "CLOSED"}, register: Registers, operator: Operators]

NoSale == [status |-> "NONE"]

SaleEvent ==
  [name: {"SaleCompleted", "SaleCanceled"}, aggregate: Sales,
   previousStatus: Status, state: SaleRow]
SessionEvent ==
  [name: {"RegisterClosed"}, aggregate: Sessions, state: PosSession]

SaleOps  == {"add", "remove", "pay", "complete", "cancel"}
Ops      == SaleOps \cup {"open", "start", "close"}
Emitters == {"complete", "cancel", "close"}

(***************************************************************************)
(* pc names the next statement of the transaction.  pos and copy are the   *)
(* aggregates in the memory of the use case, previous the status the sale  *)
(* was loaded with, base the row a save found when it looked again.        *)
(***************************************************************************)
Pc == {"findOpen", "findSale", "findSession", "findCatalog", "countSales",
       "select", "write"}

Idle ==
  [pc |-> "idle", op |-> "none", session |-> None, sale |-> None,
   pos |-> NoSession, previous |-> "NONE", copy |-> NoSale, base |-> NoSale]

Init ==
  /\ sessionTable = [s \in Sessions |-> NoSession]
  /\ saleTable = [x \in Sales |-> NoSale]
  /\ outbox = <<>>
  /\ request = [o \in Operators |-> Idle]

-----------------------------------------------------------------------------
Goto(o, req) == request' = [request EXCEPT ![o] = req]
Finish(o)    == Goto(o, Idle)
At(o, pc)    == request[o].pc = pc

Begin(o, op, s, x, pos, pc) ==
  /\ At(o, "idle")
  /\ Goto(o, [Idle EXCEPT !.pc = pc, !.op = op, !.session = s, !.sale = x,
                          !.pos = pos])
  /\ UNCHANGED <<sessionTable, saleTable, outbox>>

SessionIsNew(s) ==
  sessionTable[s] = NoSession /\ \A o \in Operators : request[o].session # s
SaleIsNew(x) ==
  saleTable[x] = NoSale /\ \A o \in Operators : request[o].sale # x

MayUse(o, s) ==
  sessionTable[s] # NoSession /\ (SharedSessions \/ sessionTable[s].operator = o)

\* MaxEvents bounds the requests that add an event.
RoomForEvent ==
  Len(outbox) + Cardinality({o \in Operators : request[o].op \in Emitters})
    < MaxEvents

BeginOpenSession(o) ==
  \E s \in Sessions, r \in Registers :
    /\ SessionIsNew(s)
    /\ Begin(o, "open", s, None,
             [status |-> "OPEN", register |-> r, operator |-> o], "findOpen")

BeginStartSale(o) ==
  \E s \in Sessions :
    MayUse(o, s) /\ Begin(o, "start", s, None, NoSession, "findSession")

BeginCloseSession(o) ==
  \E s \in Sessions :
    /\ MayUse(o, s) /\ RoomForEvent
    /\ Begin(o, "close", s, None, NoSession, "findSession")

BeginOnSale(o) ==
  \E x \in Sales, op \in SaleOps :
    /\ saleTable[x] # NoSale
    /\ MayUse(o, saleTable[x].session)
    /\ op \in Emitters => RoomForEvent
    /\ Begin(o, op, None, x, NoSession, "findSale")

-----------------------------------------------------------------------------
(* The statements that read.                                               *)

OpenOn(r) == \E s \in Sessions :
  sessionTable[s].status = "OPEN" /\ sessionTable[s].register = r

FindOpen(o) ==
  LET req == request[o]
  IN  /\ At(o, "findOpen")
      /\ IF OpenOn(req.pos.register)
         THEN Finish(o)
         ELSE Goto(o, [req EXCEPT !.pc = "write"])
      /\ UNCHANGED <<sessionTable, saleTable, outbox>>

FindSale(o) ==
  LET req == request[o]
      row == saleTable[req.sale]
  IN  /\ At(o, "findSale")
      /\ IF Consistent(row)
         THEN Goto(o, [req EXCEPT !.pc = "findSession", !.session = row.session,
                                  !.previous = row.status, !.copy = row])
         ELSE Finish(o)
      /\ UNCHANGED <<sessionTable, saleTable, outbox>>

Loaded(o) == sessionTable[request[o].session]

\* StartSale: the session must be open; the new sale exists only in memory.
FindSessionToStart(o) ==
  LET req == request[o]
  IN  /\ At(o, "findSession") /\ req.op = "start"
      /\ IF Loaded(o).status = "OPEN"
         THEN \E x \in Sales :
                /\ SaleIsNew(x)
                /\ Goto(o, [req EXCEPT !.pc = "write", !.sale = x,
                                       !.copy = Start(req.session)])
         ELSE Finish(o)
      /\ UNCHANGED <<sessionTable, saleTable, outbox>>

\* ClosePosSession loads the session and tests its status after the count.
FindSessionToClose(o) ==
  /\ At(o, "findSession") /\ request[o].op = "close"
  /\ Goto(o, [request[o] EXCEPT !.pc = "countSales", !.pos = Loaded(o)])
  /\ UNCHANGED <<sessionTable, saleTable, outbox>>

NonTerminal(s) == {x \in Sales : /\ saleTable[x] # NoSale
                                 /\ saleTable[x].session = s
                                 /\ saleTable[x].status \in {"OPEN", "PAID"}}

\* Mutant: a session is closed without counting its sales.
CloseUncounted(o) ==
  LET req == request[o]
  IN  /\ At(o, "countSales")
      /\ IF req.pos.status = "OPEN"
         THEN Goto(o, [req EXCEPT !.pc = "write", !.pos.status = "CLOSED"])
         ELSE Finish(o)
      /\ UNCHANGED <<sessionTable, saleTable, outbox>>

CountSales(o) ==
  LET req == request[o]
  IN  /\ At(o, "countSales")
      /\ IF NonTerminal(req.session) = {} /\ req.pos.status = "OPEN"
         THEN Goto(o, [req EXCEPT !.pc = "write", !.pos.status = "CLOSED"])
         ELSE Finish(o)
      /\ UNCHANGED <<sessionTable, saleTable, outbox>>

\* The domain method of a use case on a sale: what it leaves in memory.
Applied(op, sale) ==
  CASE op = "remove" ->
         {RemoveItem(sale, line[1], line[2]) :
            line \in {pn \in Products \X (1..MaxQty) :
                        CanRemoveItem(sale, pn[1], pn[2])}}
    [] op = "pay" ->
         {RegisterPayment(sale, pay) :
            pay \in {m \in Payment : CanRegisterPayment(sale, m)}}
    [] op = "complete" -> IF CanComplete(sale) THEN {Complete(sale)} ELSE {}
    [] op = "cancel" ->
         IF \E approved \in BOOLEAN : CanCancel(sale, approved)
         THEN {Cancel(sale)} ELSE {}

\* Some barcode, amount or reason is always refused; complete has no input.
MayThrow(op, sale) ==
  op \in {"remove", "pay", "cancel"} \/ (op = "complete" /\ ~CanComplete(sale))

FindSessionOfSale(o) ==
  LET req == request[o]
  IN  /\ At(o, "findSession") /\ req.op \in SaleOps
      /\ \/ /\ Loaded(o).status # "OPEN" \/ MayThrow(req.op, req.copy)
            /\ Finish(o)
         \/ /\ Loaded(o).status = "OPEN"
            /\ IF req.op = "add"
               THEN Goto(o, [req EXCEPT !.pc = "findCatalog"])
               ELSE \E sale \in Applied(req.op, req.copy) :
                      Goto(o, [req EXCEPT !.pc = "select", !.copy = sale])
      /\ UNCHANGED <<sessionTable, saleTable, outbox>>

\* The local catalog answers with any price, or the scan is refused.
FindCatalog(o) ==
  LET req == request[o]
  IN  /\ At(o, "findCatalog")
      /\ \/ Finish(o)
         \/ \E p \in Products, n \in 1..MaxQty, price \in Prices :
              /\ CanAddItem(req.copy, p, n)
              /\ Goto(o, [req EXCEPT !.pc = "select",
                                     !.copy = AddItem(req.copy, p, n, price)])
      /\ UNCHANGED <<sessionTable, saleTable, outbox>>

-----------------------------------------------------------------------------
(* The statements that write, up to the commit.                            *)

\* Mutant: the unique index on the open sessions of a register is missing.
InsertWithoutIndex(o) ==
  /\ At(o, "write") /\ request[o].op = "open"
  /\ sessionTable' = [sessionTable EXCEPT ![request[o].session] = request[o].pos]
  /\ Finish(o)
  /\ UNCHANGED <<saleTable, outbox>>

\* uq_pos_sessions_open_register: a second open session of a register fails.
InsertSession(o) ==
  LET req == request[o]
  IN  /\ At(o, "write") /\ req.op = "open"
      /\ IF OpenOn(req.pos.register)
         THEN UNCHANGED sessionTable
         ELSE sessionTable' = [sessionTable EXCEPT ![req.session] = req.pos]
      /\ Finish(o)
      /\ UNCHANGED <<saleTable, outbox>>

UpdateSession(o) ==
  LET req == request[o]
  IN  /\ At(o, "write") /\ req.op = "close"
      /\ sessionTable' = [sessionTable EXCEPT ![req.session] = req.pos]
      /\ outbox' = Append(outbox, [name |-> "RegisterClosed",
                                   aggregate |-> req.session,
                                   state |-> req.pos])
      /\ Finish(o)
      /\ UNCHANGED saleTable

InsertSale(o) ==
  LET req == request[o]
  IN  /\ At(o, "write") /\ req.op = "start"
      /\ saleTable' = [saleTable EXCEPT ![req.sale] = req.copy]
      /\ Finish(o)
      /\ UNCHANGED <<sessionTable, outbox>>

\* Repository.save: the SELECT that the columns to update are computed from.
SelectSale(o) ==
  /\ At(o, "select")
  /\ Goto(o, [request[o] EXCEPT !.pc = "write",
                             !.base = saleTable[request[o].sale]])
  /\ UNCHANGED <<sessionTable, saleTable, outbox>>

\* Only the columns in which copy differs from base are written to the row
\* as it is by now; the item rows are deleted and inserted anew.
Merge(row, base, copy) ==
  LET Column(c) == IF copy[c] = base[c] THEN row[c] ELSE copy[c]
      PayPart(c) ==
        IF copy.pay[c] = base.pay[c] THEN row.pay[c] ELSE copy.pay[c]
  IN  [session     |-> row.session,
       status      |-> Column("status"),
       qty         |-> Column("qty"),
       total       |-> Column("total"),
       pay         |-> [method |-> PayPart("method"), paid |-> PayPart("paid")],
       completedAt |-> Column("completedAt"),
       canceledAt  |-> Column("canceledAt"),
       items       |-> copy.items]

\* Mutant: completing a sale stores no event.
CompletionUnannounced(req) ==
  IF req.op = "cancel"
  THEN <<[name |-> "SaleCanceled", aggregate |-> req.sale,
          previousStatus |-> req.previous, state |-> req.copy]>>
  ELSE <<>>

EventsOf(req) ==
  IF req.op \in {"complete", "cancel"}
  THEN <<[name |-> IF req.op = "complete" THEN "SaleCompleted" ELSE "SaleCanceled",
          aggregate |-> req.sale, previousStatus |-> req.previous,
          state |-> req.copy]>>
  ELSE <<>>

\* Mutant: the event is stored outside the transaction and may be lost.
EventMayBeLost(o) ==
  LET req == request[o]
  IN  /\ At(o, "write") /\ req.op \in SaleOps
      /\ saleTable' = [saleTable EXCEPT ![req.sale] = Merge(@, req.base, req.copy)]
      /\ outbox' \in {outbox, outbox \o EventsOf(req)}
      /\ Finish(o)
      /\ UNCHANGED sessionTable

UpdateSale(o) ==
  LET req == request[o]
  IN  /\ At(o, "write") /\ req.op \in SaleOps
      /\ saleTable' = [saleTable EXCEPT ![req.sale] = Merge(@, req.base, req.copy)]
      /\ outbox' = outbox \o EventsOf(req)
      /\ Finish(o)
      /\ UNCHANGED sessionTable

\* A statement fails, the connection is lost or the service stops before the
\* commit: the transaction is rolled back.
Rollback(o) ==
  /\ ~At(o, "idle")
  /\ Finish(o)
  /\ UNCHANGED <<sessionTable, saleTable, outbox>>

-----------------------------------------------------------------------------
Read(o) ==
  \/ FindOpen(o) \/ FindSale(o) \/ FindSessionToStart(o) \/ FindSessionToClose(o)
  \/ CountSales(o) \/ FindSessionOfSale(o) \/ FindCatalog(o) \/ SelectSale(o)

Write(o) ==
  InsertSession(o) \/ UpdateSession(o) \/ InsertSale(o) \/ UpdateSale(o)

Next == \E o \in Operators :
  \/ BeginOpenSession(o) \/ BeginStartSale(o)
  \/ BeginCloseSession(o) \/ BeginOnSale(o)
  \/ Read(o) \/ Write(o) \/ Rollback(o)

Spec == Init /\ [][Next]_vars

-----------------------------------------------------------------------------
(* Properties.                                                             *)

SaleRequest ==
  [pc: Pc, op: Ops, session: Sessions \cup {None}, sale: Sales \cup {None},
   pos: PosSession \cup {NoSession}, previous: Status \cup {"NONE"},
   copy: SaleRow \cup {NoSale}, base: SaleRow \cup {NoSale}]

\* Type invariant of the tables, the outbox and the requests.
TypeOK ==
  /\ sessionTable \in [Sessions -> PosSession \cup {NoSession}]
  /\ saleTable \in [Sales -> SaleRow \cup {NoSale}]
  /\ outbox \in Seq(SaleEvent \cup SessionEvent)
  /\ request \in [Operators -> SaleRequest \cup {Idle}]

Exists(x) == saleTable[x] # NoSale

Emitted(name, a) == \E i \in DOMAIN outbox :
  outbox[i].name = name /\ outbox[i].aggregate = a

\* However the requests to open a session interleave (each checks first and
\* inserts later), a register never has two open sessions.
OneOpenSessionPerRegister ==
  \A s, t \in Sessions :
    /\ sessionTable[s].status = "OPEN" /\ sessionTable[t].status = "OPEN"
    /\ sessionTable[s].register = sessionTable[t].register
    => s = t

\* The outbox row commits with the state change or not at all: a sale that
\* was completed, a sale that is canceled and a session that is closed have
\* their event, whatever crashed, was rolled back or was overwritten.
StateChangesAreInOutbox ==
  /\ \A x \in Sales : Exists(x) =>
       /\ saleTable[x].completedAt => Emitted("SaleCompleted", x)
       /\ saleTable[x].canceledAt \/ saleTable[x].status = "CANCELED"
            => Emitted("SaleCanceled", x)
  /\ \A s \in Sessions :
       sessionTable[s].status = "CLOSED" => Emitted("RegisterClosed", s)

\* Consumers undo a sale when the cancellation says it was COMPLETED: the
\* outbox then holds the completion before the cancellation.
ReversalFollowsCompletion ==
  \A i \in DOMAIN outbox :
    /\ outbox[i].name = "SaleCanceled"
    /\ outbox[i].previousStatus = "COMPLETED"
    => \E j \in 1..(i - 1) : /\ outbox[j].name = "SaleCompleted"
                             /\ outbox[j].aggregate = outbox[i].aggregate

\* The totals of an event are the sums over its items, although a concurrent
\* request may have written other totals to the row meanwhile.
PayloadsAddUp ==
  \A i \in DOMAIN outbox :
    outbox[i].name # "RegisterClosed" => TotalsAddUp(outbox[i].state)

\* Every committed sale can be loaded again (assertConsistentTotals).
SalesCanBeLoaded == \A x \in Sales : Exists(x) => Consistent(saleTable[x])

\* Every committed sale can be loaded, and one that was paid was paid for what
\* its row says it costs.
SalesAreInOrder ==
  SalesCanBeLoaded /\ \A x \in Sales : Exists(x) => PaymentCoversTotal(saleTable[x])
=============================================================================
