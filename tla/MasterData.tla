----------------------------- MODULE MasterData -----------------------------
(***************************************************************************)
(* The master data of the management service: products with their barcodes *)
(* and prices, and employees with their codes.                             *)
(*                                                                         *)
(* A request is one transaction at READ COMMITTED, a statement at a time.  *)
(* A registration looks for the barcode or the code and inserts.  A price  *)
(* update finds the product, stamps its event with the clock, looks at the *)
(* row again (the save does) and updates the price; events of one product  *)
(* may so commit in another order than they are stamped.  Insert, event    *)
(* and commit are one step, as are update, event and commit.               *)
(*                                                                         *)
(* NewProductRegistered and EmployeeRegistered, which no service consumes, *)
(* are left out, as are names, units, roles, pins and the flag active,     *)
(* which nothing clears.                                                   *)
(***************************************************************************)
EXTENDS Naturals, FiniteSets

CONSTANTS
  Products,   \* ids of products
  Barcodes,
  Prices,
  Employees,  \* ids of employees
  Codes,      \* employee codes, trimmed and in upper case
  Managers,   \* REST requests in flight
  MaxTime,    \* bound: milliseconds
  MaxUpdates  \* bound: price events

ASSUME MasterDataConstants ==
  /\ Prices \subseteq Nat \ {0}
  /\ MaxTime \in Nat
  /\ MaxUpdates \in Nat

VARIABLES
  products,    \* table products
  employees,   \* table employees: the code of each row
  priceEvents, \* ProductPriceUpdated events of table outbox_events
  request,     \* what each request is doing
  clock,       \* new Date(), the same for all instances
  crossed      \* history: products of which two updates overlapped and mattered

masterVars == <<products, employees, priceEvents, request, clock, crossed>>

-----------------------------------------------------------------------------
NoProduct  == [price |-> 0]
NoEmployee == "none"
Idle       == [pc |-> "idle"]

ProductRow == [barcode: Barcodes, price: Prices]
PriceEvent == [product: Products, barcode: Barcodes, price: Prices, at: 0..MaxTime]

MasterInit ==
  /\ products = [p \in Products |-> NoProduct]
  /\ employees = [x \in Employees |-> NoEmployee]
  /\ priceEvents = {}
  /\ request = [m \in Managers |-> Idle]
  /\ clock = 0
  /\ crossed = {}

At(m, pc)  == request[m].pc = pc
Goto(m, r) == request' = [request EXCEPT ![m] = r]

-----------------------------------------------------------------------------
(* Registrations.                                                          *)

\* The id is a new UUID: no other request has it.
NewId(id, pc) ==
  \A m \in Managers : At(m, pc) => request[m].id # id

RegisterProduct(m) ==
  \E p \in Products, b \in Barcodes, price \in Prices :
    /\ At(m, "idle")
    /\ products[p] = NoProduct /\ NewId(p, "insertProduct")
    /\ \A q \in Products : products[q] # NoProduct => products[q].barcode # b
    /\ Goto(m, [pc |-> "insertProduct", id |-> p,
                row |-> [barcode |-> b, price |-> price]])
    /\ UNCHANGED <<products, employees, priceEvents, clock, crossed>>

\* Mutant: the lookup is all there is.
InsertAnyProduct(m) ==
  /\ At(m, "insertProduct")
  /\ products' = [products EXCEPT ![request[m].id] = request[m].row]
  /\ Goto(m, Idle)
  /\ UNCHANGED <<employees, priceEvents, clock, crossed>>

\* uq_products_tenant_barcode.
InsertProduct(m) ==
  /\ At(m, "insertProduct")
  /\ \A q \in Products : products[q] # NoProduct =>
       products[q].barcode # request[m].row.barcode
  /\ products' = [products EXCEPT ![request[m].id] = request[m].row]
  /\ Goto(m, Idle)
  /\ UNCHANGED <<employees, priceEvents, clock, crossed>>

RegisterEmployee(m) ==
  \E x \in Employees, code \in Codes :
    /\ At(m, "idle")
    /\ employees[x] = NoEmployee /\ NewId(x, "insertEmployee")
    /\ \A y \in Employees : employees[y] # code
    /\ Goto(m, [pc |-> "insertEmployee", id |-> x, code |-> code])
    /\ UNCHANGED <<products, employees, priceEvents, clock, crossed>>

\* uq_employees_tenant_code.
InsertEmployee(m) ==
  /\ At(m, "insertEmployee")
  /\ \A y \in Employees : employees[y] # request[m].code
  /\ employees' = [employees EXCEPT ![request[m].id] = request[m].code]
  /\ Goto(m, Idle)
  /\ UNCHANGED <<products, priceEvents, clock, crossed>>

-----------------------------------------------------------------------------
(* Price updates.                                                          *)

\* updatePrice rejects the price the product has.
FindProduct(m) ==
  \E p \in Products :
    /\ At(m, "idle")
    /\ products[p] # NoProduct
    /\ \E price \in Prices \ {products[p].price} :
         Goto(m, [pc |-> "stamp", id |-> p, price |-> price])
    /\ UNCHANGED <<products, employees, priceEvents, clock, crossed>>

\* Mutant: the event is stamped with a clock that is ahead.
StampAhead(m) ==
  /\ At(m, "stamp")
  /\ Goto(m, [pc |-> "select", id |-> request[m].id, price |-> request[m].price,
              at |-> clock + 1])
  /\ UNCHANGED <<products, employees, priceEvents, clock, crossed>>

StampEvent(m) ==
  /\ At(m, "stamp")
  /\ Goto(m, [pc |-> "select", id |-> request[m].id, price |-> request[m].price,
              at |-> clock])
  /\ UNCHANGED <<products, employees, priceEvents, clock, crossed>>

SelectProduct(m) ==
  /\ At(m, "select")
  /\ Goto(m, [pc |-> "update", id |-> request[m].id, price |-> request[m].price,
              at |-> request[m].at, seen |-> products[request[m].id].price])
  /\ UNCHANGED <<products, employees, priceEvents, clock, crossed>>

EventOf(m) ==
  [product |-> request[m].id, barcode |-> products[request[m].id].barcode,
   price |-> request[m].price, at |-> request[m].at]

EventsOf(p) == {e \in priceEvents : e.product = p}

\* History only: an event that is not older was committed meanwhile, or the row
\* is no longer the one the save looked at.
Overtaken(r) ==
  (\E e \in EventsOf(r.id) : e.at >= r.at) \/ products[r.id].price # r.seen

\* Only the price can differ from the row the save looked at.
UpdateProductPrice(m) ==
  LET r == request[m]
  IN  /\ At(m, "update")
      /\ Cardinality(priceEvents) < MaxUpdates
      /\ products' = [products EXCEPT ![r.id].price =
                        IF r.price = r.seen THEN @ ELSE r.price]
      /\ priceEvents' = priceEvents \cup {EventOf(m)}
      /\ crossed' = IF Overtaken(r) THEN crossed \cup {r.id} ELSE crossed
      /\ Goto(m, Idle)
      /\ UNCHANGED <<employees, clock>>

\* The conflict of an insert, a statement that fails, or the instance stops.
FailRequest(m) ==
  /\ ~At(m, "idle")
  /\ Goto(m, Idle)
  /\ UNCHANGED <<products, employees, priceEvents, clock, crossed>>

Tick ==
  /\ clock < MaxTime
  /\ clock' = clock + 1
  /\ UNCHANGED <<products, employees, priceEvents, request, crossed>>

Request(m) ==
  \/ RegisterProduct(m) \/ InsertProduct(m)
  \/ RegisterEmployee(m) \/ InsertEmployee(m)
  \/ FindProduct(m) \/ StampEvent(m) \/ SelectProduct(m) \/ UpdateProductPrice(m)
  \/ FailRequest(m)

MasterNext == Tick \/ \E m \in Managers : Request(m)

-----------------------------------------------------------------------------
(* Properties.                                                             *)

\* Type invariant of the master data.
MasterTypeOK ==
  /\ products \in [Products -> ProductRow \cup {NoProduct}]
  /\ employees \in [Employees -> Codes \cup {NoEmployee}]
  /\ priceEvents \subseteq PriceEvent
  /\ clock \in 0..MaxTime
  /\ crossed \subseteq Products

\* However registrations overlap, a barcode names one product and a code one
\* employee: the lookup alone would let both of two requests pass.
KeysAreUnique ==
  /\ \A p, q \in Products :
       /\ products[p] # NoProduct /\ products[q] # NoProduct
       /\ products[p].barcode = products[q].barcode
       => p = q
  /\ \A x, y \in Employees :
       employees[x] # NoEmployee /\ employees[x] = employees[y] => x = y
=============================================================================
