----------------------------- MODULE SaleEvents -----------------------------
(***************************************************************************)
(* What the checkout service tells the other services: which sale and      *)
(* session events its outbox may come to hold, and in which state of the   *)
(* sale.  Requests, statements and carts are left out; module Checkout has *)
(* them and is shown to implement this one.  The consumers of the events   *)
(* are modelled on top of it.                                              *)
(*                                                                         *)
(* Once stored, an event reaches every consumer at any later time, in any  *)
(* order and any number of times: the relay may publish it late or again,  *)
(* every event name has a topic of its own, and an offset that was not     *)
(* committed is read again after a restart.                                *)
(***************************************************************************)
EXTENDS Naturals, FiniteSets

CONSTANTS
  Sales,     \* ids of sales
  Sessions,  \* ids of POS sessions
  None,      \* no id
  Overlaps,  \* may two requests on one sale overlap?
  MaxCopies  \* bound: events of one name an overlap can leave for one sale

ASSUME SaleEventsConstants ==
  /\ Overlaps \in BOOLEAN
  /\ MaxCopies \in Nat \ {0}
  /\ None \notin Sales \cup Sessions

VARIABLES
  sessions,  \* status of each row of pos_sessions
  sales,     \* status and session of each row of sales
  stored     \* the events committed to outbox_events

checkoutVars == <<sessions, sales, stored>>

SaleStatus == {"NONE", "OPEN", "PAID", "COMPLETED", "CANCELED"}

SaleEvent ==
  [name: {"SaleCompleted", "SaleCanceled"}, aggregate: Sales, session: Sessions,
   previous: SaleStatus, id: 1..MaxCopies]
ClosedEvent ==
  [name: {"RegisterClosed"}, aggregate: Sessions, session: Sessions,
   previous: {"OPEN"}, id: 1..MaxCopies]

EventsOn(name, a) == {e \in stored : e.name = name /\ e.aggregate = a}

\* An event gets an id of its own; it commits with the row it tells of.
Store(name, a, s, previous) ==
  LET id == Cardinality(EventsOn(name, a)) + 1
  IN  /\ id <= MaxCopies
      /\ stored' = stored \cup
           {[name |-> name, aggregate |-> a, session |-> s,
             previous |-> previous, id |-> id]}

\* A save that overlaps another one may leave the status the other one wrote.
SaveStatus(x, status) ==
  \E saved \in IF Overlaps THEN {status, sales[x].status} ELSE {status} :
    sales' = [sales EXCEPT ![x].status = saved]

-----------------------------------------------------------------------------
CheckoutInit ==
  /\ sessions = [s \in Sessions |-> "NONE"]
  /\ sales = [x \in Sales |-> [status |-> "NONE", session |-> None]]
  /\ stored = {}

OpenSession(s) ==
  /\ sessions[s] = "NONE"
  /\ sessions' = [sessions EXCEPT ![s] = "OPEN"]
  /\ UNCHANGED <<sales, stored>>

\* Requests that overlap may have loaded the session before it was closed,
\* and the sale in an earlier status.
Usable(s) == sessions[s] = "OPEN" \/ (Overlaps /\ sessions[s] # "NONE")

StartSale(x, s) ==
  /\ sales[x].status = "NONE"
  /\ Usable(s)
  /\ sales' = [sales EXCEPT ![x] = [status |-> "OPEN", session |-> s]]
  /\ UNCHANGED <<sessions, stored>>

LoadedIn(x, status) ==
  /\ sales[x].status # "NONE"
  /\ Usable(sales[x].session)
  /\ sales[x].status = status \/ Overlaps

\* A scan or the removal of a line: it shows only when it undoes a payment,
\* a completion or a cancellation that it overlapped.
ChangeCart(x) ==
  /\ LoadedIn(x, "OPEN")
  /\ SaveStatus(x, "OPEN")
  /\ UNCHANGED <<sessions, stored>>

PaySale(x) ==
  /\ LoadedIn(x, "OPEN")
  /\ SaveStatus(x, "PAID")
  /\ UNCHANGED <<sessions, stored>>

CompleteSale(x) ==
  /\ LoadedIn(x, "PAID")
  /\ SaveStatus(x, "COMPLETED")
  /\ Store("SaleCompleted", x, sales[x].session, "PAID")
  /\ UNCHANGED sessions

\* previousStatus is the status the request loaded.
CancelSale(x) ==
  /\ \E previous \in {"OPEN", "PAID", "COMPLETED"} :
       /\ LoadedIn(x, previous)
       /\ previous = "COMPLETED" => EventsOn("SaleCompleted", x) # {}
       /\ Store("SaleCanceled", x, sales[x].session, previous)
  /\ SaveStatus(x, "CANCELED")
  /\ UNCHANGED sessions

\* Mutant: a session can be closed while a sale is open or paid.
CloseAnySession(s) ==
  /\ Usable(s)
  /\ sessions' = [sessions EXCEPT ![s] = "CLOSED"]
  /\ Store("RegisterClosed", s, s, "OPEN")
  /\ UNCHANGED sales

CloseSession(s) ==
  /\ Usable(s)
  /\ \A x \in Sales : sales[x].session = s =>
       sales[x].status \in {"COMPLETED", "CANCELED"} \/ Overlaps
  /\ sessions' = [sessions EXCEPT ![s] = "CLOSED"]
  /\ Store("RegisterClosed", s, s, "OPEN")
  /\ UNCHANGED sales

CheckoutNext ==
  \/ \E s \in Sessions : OpenSession(s) \/ CloseSession(s)
  \/ \E x \in Sales, s \in Sessions : StartSale(x, s)
  \/ \E x \in Sales :
       ChangeCart(x) \/ PaySale(x) \/ CompleteSale(x) \/ CancelSale(x)

CheckoutSpec == CheckoutInit /\ [][CheckoutNext]_checkoutVars

\* Type invariant of the checkout side.
CheckoutTypeOK ==
  /\ sessions \in [Sessions -> {"NONE", "OPEN", "CLOSED"}]
  /\ sales \in [Sales -> [status: SaleStatus, session: Sessions \cup {None}]]
  /\ stored \subseteq SaleEvent \cup ClosedEvent
=============================================================================
