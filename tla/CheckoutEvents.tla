--------------------------- MODULE CheckoutEvents ---------------------------
(***************************************************************************)
(* The checkout service implements SaleEvents: what its outbox holds, and  *)
(* the state of the sale each event was stored in, is what the models of   *)
(* the consumers start from.  Requests overlap when operators share        *)
(* sessions.                                                               *)
(***************************************************************************)
EXTENDS Checkout

CONSTANT MaxCopies  \* bound: events of one name for one sale or session

\* Where requests overlap, every event may be one of the same sale.
ASSUME CheckoutEventsConstants ==
  /\ MaxCopies \in Nat \ {0}
  /\ SharedSessions => MaxEvents <= MaxCopies
  /\ IsFiniteSet(Operators)

\* The id of an event tells it from the earlier ones of its name and aggregate.
Ordinal(i) ==
  Cardinality({j \in 1..i : /\ outbox[j].name = outbox[i].name
                            /\ outbox[j].aggregate = outbox[i].aggregate})

Announced(i) ==
  LET e == outbox[i]
  IN  [name |-> e.name, aggregate |-> e.aggregate, id |-> Ordinal(i),
       session |-> IF e.name = "RegisterClosed" THEN e.aggregate
                   ELSE e.state.session,
       previous |-> IF e.name = "RegisterClosed" THEN "OPEN"
                    ELSE e.previousStatus]

Events == INSTANCE SaleEvents WITH
  Overlaps <- SharedSessions,
  sessions <- [s \in Sessions |-> sessionTable[s].status],
  sales    <- [x \in Sales |->
                 [status  |-> saleTable[x].status,
                  session |-> IF saleTable[x] = NoSale THEN None
                              ELSE saleTable[x].session]],
  stored   <- {Announced(i) : i \in DOMAIN outbox}

\* Every step of every request is a step of SaleEvents or changes nothing a
\* consumer can see: no event without its sale in the state it tells of.
ImplementsSaleEvents == Events!CheckoutSpec
=============================================================================
