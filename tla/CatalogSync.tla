---------------------------- MODULE CatalogSync ----------------------------
(***************************************************************************)
(* The local product catalog of the checkout service, kept up to date from *)
(* the ProductPriceUpdated events of the management service.               *)
(*                                                                         *)
(* A message is handled without a transaction and without a record of what *)
(* was processed: the consumer finds the item, applies the event, and the  *)
(* save looks at the row again and writes.  A message may come late, after *)
(* younger ones, and again at any time.                                    *)
(***************************************************************************)
EXTENDS MasterData

CONSTANT Receivers  \* instances of the consumer, one message at a time

VARIABLES
  catalog,  \* table product_catalog_items
  handled,  \* history: events whose handler has returned
  sync      \* the message each consumer works on

vars == <<masterVars, catalog, handled, sync>>

-----------------------------------------------------------------------------
NoItem  == [at |-> "never"]
Waiting == [pc |-> "waiting"]

Init ==
  /\ MasterInit
  /\ catalog = [p \in Products |-> NoItem]
  /\ handled = {}
  /\ sync = [c \in Receivers |-> Waiting]

Synchronized(e) == [barcode |-> e.barcode, price |-> e.price, at |-> e.at]

\* Mutant: only a repetition is ignored.
IgnoreRepetition(item, e) == item = Synchronized(e)

\* Mutant: an item that is there is left as it is.
IgnoreKnown(item, e) == item # NoItem

\* applyPriceUpdate: an older event, or one that says what the item says.
Ignored(item, e) == item # NoItem /\ (e.at < item.at \/ item = Synchronized(e))

FindItem(c, e) ==
  /\ sync[c] = Waiting
  /\ e \in priceEvents
  /\ IF Ignored(catalog[e.product], e)
     THEN handled' = handled \cup {e} /\ UNCHANGED sync
     ELSE /\ sync' = [sync EXCEPT ![c] = [pc |-> "select", event |-> e]]
          /\ UNCHANGED handled
  /\ UNCHANGED <<masterVars, catalog>>

SelectItem(c) ==
  /\ sync[c].pc = "select"
  /\ LET e == sync[c].event
     IN  sync' = [sync EXCEPT ![c] =
           [pc |-> "save", event |-> e, seen |-> catalog[e.product]]]
  /\ UNCHANGED <<masterVars, catalog, handled>>

\* The row with the columns in which the item differs from the row seen.
Written(row, seen, item) ==
  IF seen = NoItem THEN item
  ELSE [f \in DOMAIN row |-> IF item[f] = seen[f] THEN row[f] ELSE item[f]]

\* An insert fails when the row has appeared, or another product has its
\* barcode.
SaveItem(c) ==
  LET e    == sync[c].event
      seen == sync[c].seen
  IN  /\ sync[c].pc = "save"
      /\ seen = NoItem => catalog[e.product] = NoItem
      /\ \A q \in Products \ {e.product} :
           catalog[q] # NoItem => catalog[q].barcode # e.barcode
      /\ catalog' = [catalog EXCEPT ![e.product] =
                       Written(@, seen, Synchronized(e))]
      /\ handled' = handled \cup {e}
      /\ sync' = [sync EXCEPT ![c] = Waiting]
      /\ UNCHANGED masterVars

\* The handler throws, or the instance stops: the message is read again.
DropMessage(c) ==
  /\ sync[c] # Waiting
  /\ sync' = [sync EXCEPT ![c] = Waiting]
  /\ UNCHANGED <<masterVars, catalog, handled>>

SyncNext ==
  \/ \E c \in Receivers, e \in priceEvents : FindItem(c, e)
  \/ \E c \in Receivers : SelectItem(c) \/ SaveItem(c) \/ DropMessage(c)

Next == SyncNext \/ (MasterNext /\ UNCHANGED <<catalog, handled, sync>>)

Spec == Init /\ [][Next]_vars

(***************************************************************************)
(* A message is read until its handler has returned, however many others   *)
(* are read again meanwhile; a handler that was entered ends; and at some  *)
(* time the statements stop failing.                                       *)
(***************************************************************************)
Fairness ==
  /\ \A c \in Receivers :
       /\ WF_vars(SelectItem(c) \/ SaveItem(c))
       /\ SF_vars(\E e \in priceEvents \ handled : FindItem(c, e))
  /\ <>[][\A c \in Receivers : ~DropMessage(c)]_vars

FairSpec == Spec /\ Fairness

-----------------------------------------------------------------------------
(* Properties.                                                             *)

\* Type invariant of master data, catalog and consumers.
TypeOK ==
  /\ MasterTypeOK
  /\ catalog \in [Products -> [barcode: Barcodes, price: Prices, at: 0..MaxTime]
                                \cup {NoItem}]
  /\ handled \subseteq priceEvents
  /\ \A c \in Receivers : sync[c].pc \in {"waiting", "select", "save"}

Shown(p) ==
  IF catalog[p] = NoItem THEN NoItem
  ELSE [product |-> p, barcode |-> catalog[p].barcode,
        price |-> catalog[p].price, at |-> catalog[p].at]

Latest == INSTANCE LatestPrice WITH
  told <- priceEvents, shown <- [p \in Products |-> Shown(p)],
  Facts <- PriceEvent, Blank <- NoItem

\* test: 'ignores stale product price events'.  With one consumer instance no
\* late, repeated or interrupted message takes a price back.
ImplementsLatestPrice == Latest!Spec

\* scan-product-by-barcode: 0 when the local catalog does not have it.
ScanProductByBarcode(b) ==
  IF \E p \in Products : catalog[p] # NoItem /\ catalog[p].barcode = b
  THEN LET item == CHOOSE i \in {catalog[p] : p \in Products} :
                     i # NoItem /\ i.barcode = b
       IN  item.price
  ELSE 0

\* Once the price of a product was changed, scans at every till come to show
\* the price management has, unless an update was overtaken by another one
\* between its find and its commit.
ScansShowTheCurrentPrice ==
  \A p \in Products :
    <>[](\/ p \in crossed \/ EventsOf(p) = {}
         \/ ScanProductByBarcode(products[p].barcode) = products[p].price)
=============================================================================
