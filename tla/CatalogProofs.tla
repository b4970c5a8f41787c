--------------------------- MODULE CatalogProofs ----------------------------
(***************************************************************************)
(* Proofs about CatalogSync, for every number of products, requests and    *)
(* prices: barcodes and employee codes stay unique, and the catalog that   *)
(* one consumer instance keeps implements LatestPrice.                     *)
(***************************************************************************)
EXTENDS CatalogSync, TLAPS

\* What a request holds between its statements.  A product it found is still
\* there when it saves: products are never deleted.
RequestIsSound(m) ==
  /\ request[m].pc \in
       {"idle", "insertProduct", "insertEmployee", "stamp", "select", "update"}
  /\ request[m].pc = "insertProduct" =>
       request[m].id \in Products /\ request[m].row \in ProductRow
  /\ request[m].pc = "insertEmployee" =>
       request[m].id \in Employees /\ request[m].code \in Codes
  /\ request[m].pc \in {"stamp", "select", "update"} =>
       /\ request[m].id \in Products
       /\ products[request[m].id] # NoProduct
       /\ request[m].price \in Prices
  /\ request[m].pc \in {"select", "update"} => request[m].at \in 0..MaxTime

MasterInv ==
  /\ MasterTypeOK
  /\ KeysAreUnique
  /\ request = [m \in Managers |-> request[m]]
  /\ \A m \in Managers : RequestIsSound(m)

Item == [barcode: Barcodes, price: Prices, at: 0..MaxTime]

SyncIsSound(c) ==
  /\ sync[c].pc \in {"waiting", "select", "save"}
  /\ sync[c].pc # "waiting" => sync[c].event \in priceEvents
  /\ sync[c].pc = "save" /\ sync[c].seen # NoItem =>
       catalog[sync[c].event.product] # NoItem

CatalogInv ==
  /\ MasterInv
  /\ catalog \in [Products -> Item \cup {NoItem}]
  /\ handled \subseteq priceEvents
  /\ sync = [c \in Receivers |-> sync[c]]
  /\ \A c \in Receivers : SyncIsSound(c)

\* With one instance what the consumer saw of the row still holds: the row is
\* the one it saw, and the event is not older than it.
SyncIsFresh(c) ==
  /\ sync[c].pc # "waiting" =>
       ~Ignored(catalog[sync[c].event.product], sync[c].event)
  /\ sync[c].pc = "save" => sync[c].seen = catalog[sync[c].event.product]

-----------------------------------------------------------------------------
(* Master data.                                                            *)

LEMMA MasterInitially == MasterInit => MasterInv
<1> SUFFICES ASSUME MasterInit PROVE MasterInv
  OBVIOUS
<1>1. MasterTypeOK /\ KeysAreUnique
  BY MasterDataConstants DEF MasterInit, MasterTypeOK, KeysAreUnique
<1>2. request = [m \in Managers |-> request[m]]
  BY DEF MasterInit
<1>3. \A m \in Managers : RequestIsSound(m)
  BY DEF MasterInit, RequestIsSound, Idle
<1> QED
  BY <1>1, <1>2, <1>3 DEF MasterInv

\* A request changes only its own place, and no row it does not write.
LEMMA OtherRequests ==
  ASSUME MasterInv, NEW m \in Managers, NEW r, Goto(m, r),
         \A p \in Products : products[p] # NoProduct => products'[p] # NoProduct
  PROVE  /\ request' = [n \in Managers |-> request'[n]]
         /\ request'[m] = r
         /\ \A n \in Managers \ {m} : RequestIsSound(n)'
<1>1. request' = [request EXCEPT ![m] = r]
  BY DEF Goto
<1>2. request' = [n \in Managers |-> request'[n]] /\ request'[m] = r
  BY <1>1 DEF MasterInv
<1>3. \A n \in Managers \ {m} : request'[n] = request[n]
  BY <1>1 DEF MasterInv
<1> QED
  BY <1>2, <1>3 DEF MasterInv, RequestIsSound

\* A request that ends, or that only moves on, keeps the tables.
LEMMA MovingOnKeepsMaster ==
  ASSUME MasterInv, NEW m \in Managers, NEW r, Goto(m, r),
         UNCHANGED <<products, employees, priceEvents, clock, crossed>>,
         RequestIsSound(m)'
  PROVE  MasterInv'
<1>1. MasterTypeOK' /\ KeysAreUnique'
  BY DEF MasterInv, MasterTypeOK, KeysAreUnique
<1>2. /\ request' = [n \in Managers |-> request'[n]]
      /\ \A n \in Managers \ {m} : RequestIsSound(n)'
  BY OtherRequests
<1> QED
  BY <1>1, <1>2 DEF MasterInv

LEMMA NothingIsNoRow == NoProduct \notin ProductRow
BY MasterDataConstants DEF NoProduct, ProductRow

LEMMA InsertProductKeepsMaster ==
  ASSUME MasterInv, NEW m \in Managers, InsertProduct(m)
  PROVE  MasterInv'
<1>a. PICK p, row : p = request[m].id /\ row = request[m].row
  OBVIOUS
<1>1. /\ p \in Products /\ row \in ProductRow
      /\ \A q \in Products : products[q] # NoProduct => products[q].barcode # row.barcode
      /\ products' = [products EXCEPT ![p] = row]
      /\ Goto(m, Idle)
      /\ UNCHANGED <<employees, priceEvents, clock, crossed>>
  BY <1>a DEF InsertProduct, MasterInv, RequestIsSound, At
<1>2. MasterTypeOK'
  BY <1>1 DEF MasterInv, MasterTypeOK
<1>3. /\ products'[p] = row
      /\ \A q \in Products \ {p} : products'[q] = products[q]
  BY <1>1 DEF MasterInv, MasterTypeOK
<1>4. KeysAreUnique'
  BY <1>1, <1>3 DEF MasterInv, KeysAreUnique
<1>5. \A q \in Products : products[q] # NoProduct => products'[q] # NoProduct
  BY <1>1, <1>3, NothingIsNoRow
<1>6. /\ request' = [n \in Managers |-> request'[n]]
      /\ request'[m] = Idle
      /\ \A n \in Managers \ {m} : RequestIsSound(n)'
  BY <1>1, <1>5, OtherRequests
<1>7. RequestIsSound(m)'
  BY <1>6 DEF RequestIsSound, Idle
<1> QED
  BY <1>2, <1>4, <1>6, <1>7 DEF MasterInv

LEMMA InsertEmployeeKeepsMaster ==
  ASSUME MasterInv, NEW m \in Managers, InsertEmployee(m)
  PROVE  MasterInv'
<1>a. PICK x, code : x = request[m].id /\ code = request[m].code
  OBVIOUS
<1>1. /\ x \in Employees /\ code \in Codes
      /\ \A y \in Employees : employees[y] # code
      /\ employees' = [employees EXCEPT ![x] = code]
      /\ Goto(m, Idle)
      /\ UNCHANGED <<products, priceEvents, clock, crossed>>
  BY <1>a DEF InsertEmployee, MasterInv, RequestIsSound, At
<1>2. MasterTypeOK'
  BY <1>1 DEF MasterInv, MasterTypeOK
<1>3. KeysAreUnique'
  BY <1>1 DEF MasterInv, MasterTypeOK, KeysAreUnique
<1>4. /\ request' = [n \in Managers |-> request'[n]]
      /\ request'[m] = Idle
      /\ \A n \in Managers \ {m} : RequestIsSound(n)'
  BY <1>1, OtherRequests
<1>5. RequestIsSound(m)'
  BY <1>4 DEF RequestIsSound, Idle
<1> QED
  BY <1>2, <1>3, <1>4, <1>5 DEF MasterInv

LEMMA EventIsTyped ==
  ASSUME MasterInv, NEW m \in Managers, At(m, "update")
  PROVE  EventOf(m) \in PriceEvent
<1>1. /\ request[m].id \in Products /\ request[m].price \in Prices
      /\ request[m].at \in 0..MaxTime
      /\ products[request[m].id] # NoProduct
  BY DEF MasterInv, RequestIsSound, At
<1>2. products[request[m].id] \in ProductRow
  BY <1>1 DEF MasterInv, MasterTypeOK
<1> QED
  BY <1>1, <1>2 DEF EventOf, PriceEvent, ProductRow

LEMMA UpdateKeepsMaster ==
  ASSUME MasterInv, NEW m \in Managers, UpdateProductPrice(m)
  PROVE  MasterInv'
<1>a. PICK p, price : p = request[m].id /\ price = request[m].price
  OBVIOUS
<1>b. PICK e : e = EventOf(m)
  OBVIOUS
<1>1. /\ p \in Products /\ products[p] # NoProduct /\ price \in Prices
      /\ Goto(m, Idle)
      /\ priceEvents' = priceEvents \cup {e}
      /\ crossed' \subseteq crossed \cup {p}
      /\ UNCHANGED <<employees, clock>>
  BY <1>a, <1>b DEF UpdateProductPrice, MasterInv, RequestIsSound, At
<1>2. products' = products \/ products' = [products EXCEPT ![p].price = price]
  <2>1. products[p] \in ProductRow
    BY <1>1 DEF MasterInv, MasterTypeOK
  <2>2. CASE price = request[m].seen
    <3>1. products' = [products EXCEPT ![p] = [products[p] EXCEPT !.price = products[p].price]]
      BY <1>a, <2>2 DEF UpdateProductPrice
    <3>2. [products[p] EXCEPT !.price = products[p].price] = products[p]
      BY <2>1 DEF ProductRow
    <3> QED
      BY <3>1, <3>2, <1>1 DEF MasterInv, MasterTypeOK
  <2>3. CASE price # request[m].seen
    BY <1>a, <2>3 DEF UpdateProductPrice
  <2> QED
    BY <2>2, <2>3
<1>3. /\ products'[p] \in ProductRow
      /\ products'[p].barcode = products[p].barcode
      /\ \A q \in Products \ {p} : products'[q] = products[q]
      /\ products' \in [Products -> ProductRow \cup {NoProduct}]
  <2>1. products[p] \in ProductRow
    BY <1>1 DEF MasterInv, MasterTypeOK
  <2>2. CASE products' = products
    BY <2>1, <2>2 DEF MasterInv, MasterTypeOK
  <2>3. CASE products' = [products EXCEPT ![p].price = price]
    <3>1. products'[p] = [products[p] EXCEPT !.price = price]
      BY <2>3, <1>1 DEF MasterInv, MasterTypeOK
    <3>2. products'[p] \in ProductRow /\ products'[p].barcode = products[p].barcode
      BY <3>1, <2>1, <1>1 DEF ProductRow
    <3> QED
      BY <3>2, <2>3, <1>1 DEF MasterInv, MasterTypeOK
  <2> QED
    BY <1>2, <2>2, <2>3
<1>4. MasterTypeOK'
  <2>1. e \in PriceEvent
    BY <1>b, EventIsTyped DEF UpdateProductPrice
  <2> QED
    BY <2>1, <1>1, <1>3 DEF MasterInv, MasterTypeOK
<1>5. KeysAreUnique'
  BY <1>1, <1>3 DEF MasterInv, KeysAreUnique
<1>6. \A q \in Products : products[q] # NoProduct => products'[q] # NoProduct
  BY <1>3, NothingIsNoRow
<1>7. /\ request' = [n \in Managers |-> request'[n]]
      /\ request'[m] = Idle
      /\ \A n \in Managers \ {m} : RequestIsSound(n)'
  BY <1>1, <1>6, OtherRequests
<1>8. RequestIsSound(m)'
  BY <1>7 DEF RequestIsSound, Idle
<1> QED
  BY <1>4, <1>5, <1>7, <1>8 DEF MasterInv

LEMMA RequestKeepsMaster ==
  ASSUME MasterInv, NEW m \in Managers, Request(m)
  PROVE  MasterInv'
<1>0. \A r : Goto(m, r) => request'[m] = r
  BY DEF Goto, MasterInv
<1>1. CASE RegisterProduct(m)
  <2>1. PICK r : /\ Goto(m, r) /\ r.pc = "insertProduct"
                 /\ r.id \in Products /\ r.row \in ProductRow
    BY <1>1 DEF RegisterProduct, ProductRow
  <2>2. RequestIsSound(m)'
    BY <2>1, <1>0 DEF RequestIsSound
  <2> QED
    BY <2>1, <2>2, <1>1, MovingOnKeepsMaster DEF RegisterProduct
<1>2. CASE RegisterEmployee(m)
  <2>1. PICK r : /\ Goto(m, r) /\ r.pc = "insertEmployee"
                 /\ r.id \in Employees /\ r.code \in Codes
    BY <1>2 DEF RegisterEmployee
  <2>2. RequestIsSound(m)'
    BY <2>1, <1>0 DEF RequestIsSound
  <2> QED
    BY <2>1, <2>2, <1>2, MovingOnKeepsMaster DEF RegisterEmployee
<1>3. CASE FindProduct(m)
  <2>1. PICK r : /\ Goto(m, r) /\ r.pc = "stamp" /\ r.id \in Products
                 /\ products[r.id] # NoProduct /\ r.price \in Prices
    BY <1>3 DEF FindProduct
  <2>2. RequestIsSound(m)'
    BY <2>1, <1>0, <1>3 DEF RequestIsSound, FindProduct
  <2> QED
    BY <2>1, <2>2, <1>3, MovingOnKeepsMaster DEF FindProduct
<1>4. CASE StampEvent(m) \/ SelectProduct(m)
  <2>1. PICK r : /\ Goto(m, r) /\ r.pc \in {"select", "update"}
                 /\ r.id = request[m].id /\ r.price = request[m].price
                 /\ \/ r.at = clock
                    \/ r.at = request[m].at /\ request[m].pc = "select"
    BY <1>4 DEF StampEvent, SelectProduct, At
  <2>3. request[m].pc \in {"stamp", "select"}
    BY <1>4 DEF StampEvent, SelectProduct, At
  <2>4. r.at \in 0..MaxTime
    BY <2>1 DEF MasterInv, MasterTypeOK, RequestIsSound
  <2>5. UNCHANGED <<products, employees, priceEvents, clock, crossed>>
    BY <1>4 DEF StampEvent, SelectProduct
  <2>6. r.id \in Products /\ products[r.id] # NoProduct /\ r.price \in Prices
    BY <2>1, <2>3 DEF RequestIsSound, MasterInv
  <2>7. request'[m] = r
    BY <2>1, <1>0
  <2>8. RequestIsSound(m)'
    BY <2>1, <2>4, <2>5, <2>6, <2>7 DEF RequestIsSound
  <2> QED
    BY <2>1, <2>5, <2>8, MovingOnKeepsMaster
<1>5. CASE FailRequest(m)
  <2>1. Goto(m, Idle)
    BY <1>5 DEF FailRequest
  <2>2. RequestIsSound(m)'
    BY <2>1, <1>0 DEF RequestIsSound, Idle
  <2> QED
    BY <2>1, <2>2, <1>5, MovingOnKeepsMaster DEF FailRequest
<1> QED
  BY <1>1, <1>2, <1>3, <1>4, <1>5, InsertProductKeepsMaster,
     InsertEmployeeKeepsMaster, UpdateKeepsMaster DEF Request

LEMMA MasterStep ==
  ASSUME MasterInv, [MasterNext]_masterVars
  PROVE  MasterInv'
<1>1. CASE Tick
  <2>1. MasterTypeOK'
    BY <1>1, MasterDataConstants DEF Tick, MasterInv, MasterTypeOK
  <2> QED
    BY <2>1, <1>1 DEF Tick, MasterInv, KeysAreUnique, RequestIsSound
<1>2. CASE UNCHANGED masterVars
  BY <1>2 DEF masterVars, MasterInv, MasterTypeOK, KeysAreUnique, RequestIsSound
<1> QED
  BY <1>1, <1>2, RequestKeepsMaster DEF MasterNext

\* The only way a step of management adds an event.
LEMMA MasterTells ==
  ASSUME MasterInv, [MasterNext]_masterVars
  PROVE  \/ priceEvents' = priceEvents
         \/ \E e \in PriceEvent : priceEvents' = priceEvents \cup {e}
<1>1. CASE Tick
  BY <1>1 DEF Tick
<1>2. CASE UNCHANGED masterVars
  BY <1>2 DEF masterVars
<1>3. ASSUME NEW m \in Managers, Request(m)
      PROVE  \/ priceEvents' = priceEvents
             \/ \E e \in PriceEvent : priceEvents' = priceEvents \cup {e}
  <2>1. CASE UpdateProductPrice(m)
    <3>1. EventOf(m) \in PriceEvent /\ priceEvents' = priceEvents \cup {EventOf(m)}
      BY <2>1, EventIsTyped DEF UpdateProductPrice
    <3> QED
      BY <3>1
  <2>2. CASE ~UpdateProductPrice(m)
    BY <2>2, <1>3 DEF Request, RegisterProduct, InsertProduct, RegisterEmployee,
       InsertEmployee, FindProduct, StampEvent, SelectProduct, FailRequest
  <2> QED
    BY <2>1, <2>2
<1> QED
  BY <1>1, <1>2, <1>3 DEF MasterNext

-----------------------------------------------------------------------------
(* The catalog.                                                            *)

LEMMA NothingIsNoItem == NoItem \notin Item
BY DEF NoItem, Item

LEMMA CatalogInitially ==
  Init => CatalogInv /\ \A c \in Receivers : SyncIsFresh(c)
<1> SUFFICES ASSUME Init
             PROVE  CatalogInv /\ \A c \in Receivers : SyncIsFresh(c)
  OBVIOUS
<1>1. MasterInv
  BY MasterInitially DEF Init
<1>2. \A c \in Receivers : sync[c].pc = "waiting"
  BY DEF Init, Waiting
<1> QED
  BY <1>1, <1>2 DEF Init, CatalogInv, SyncIsSound, SyncIsFresh

\* The save writes an item, and the whole event when it saw the row as it is.
LEMMA WrittenIs ==
  ASSUME NEW row \in Item \cup {NoItem}, NEW seen \in Item \cup {NoItem},
         NEW item \in Item, seen # NoItem => row # NoItem
  PROVE  /\ Written(row, seen, item) \in Item
         /\ seen = row => Written(row, seen, item) = item
<1>1. CASE seen = NoItem
  BY <1>1 DEF Written
<1>2. CASE seen # NoItem
  <2>1. row \in Item /\ seen \in Item
    BY <1>2
  <2>2. DOMAIN row = {"barcode", "price", "at"} /\ DOMAIN item = {"barcode", "price", "at"}
    BY <2>1 DEF Item
  <2>3. Written(row, seen, item) =
          [f \in {"barcode", "price", "at"} |-> IF item[f] = seen[f] THEN row[f] ELSE item[f]]
    BY <1>2, <2>2 DEF Written
  <2>4. Written(row, seen, item) \in Item
    BY <2>1, <2>3 DEF Item
  <2>5. ASSUME seen = row PROVE Written(row, seen, item) = item
    <3>1. Written(row, seen, item) = [f \in {"barcode", "price", "at"} |-> item[f]]
      BY <2>3, <2>5
    <3>2. item = [f \in {"barcode", "price", "at"} |-> item[f]]
      BY <2>2 DEF Item
    <3> QED
      BY <3>1, <3>2
  <2> QED
    BY <2>4, <2>5
<1> QED
  BY <1>1, <1>2

LEMMA FindKeepsCatalog ==
  ASSUME CatalogInv, NEW c \in Receivers, NEW e \in priceEvents, FindItem(c, e)
  PROVE  CatalogInv'
<1>1. UNCHANGED <<masterVars, catalog>>
  BY DEF FindItem
<1>2. MasterInv'
  BY <1>1, MasterStep DEF CatalogInv
<1>3. handled' \subseteq priceEvents'
  BY <1>1 DEF FindItem, CatalogInv, masterVars
<1>4. sync' = sync \/ sync' = [sync EXCEPT ![c] = [pc |-> "select", event |-> e]]
  BY DEF FindItem
<1>5. sync' = [d \in Receivers |-> sync'[d]]
  BY <1>4 DEF CatalogInv
<1>6. ASSUME NEW d \in Receivers PROVE SyncIsSound(d)'
  <2>1. sync'[d] = sync[d] \/ sync'[d] = [pc |-> "select", event |-> e]
    BY <1>4 DEF CatalogInv
  <2> QED
    BY <2>1, <1>1 DEF CatalogInv, SyncIsSound, masterVars
<1> QED
  BY <1>1, <1>2, <1>3, <1>5, <1>6 DEF CatalogInv

LEMMA SelectKeepsCatalog ==
  ASSUME CatalogInv, NEW c \in Receivers, SelectItem(c) \/ DropMessage(c)
  PROVE  CatalogInv'
<1>1. UNCHANGED <<masterVars, catalog, handled>>
  BY DEF SelectItem, DropMessage
<1>2. MasterInv'
  BY <1>1, MasterStep DEF CatalogInv
<1>a. PICK e, seen : e = sync[c].event /\ seen = catalog[e.product]
  OBVIOUS
<1>4. \/ sync' = [sync EXCEPT ![c] = Waiting]
      \/ /\ sync[c].pc = "select"
         /\ sync' = [sync EXCEPT ![c] = [pc |-> "save", event |-> e, seen |-> seen]]
  BY <1>a DEF SelectItem, DropMessage
<1>5. sync' = [d \in Receivers |-> sync'[d]]
  BY <1>4 DEF CatalogInv
<1>6. ASSUME NEW d \in Receivers PROVE SyncIsSound(d)'
  <2>1. \/ sync'[d] = sync[d]
        \/ sync'[d] = Waiting
        \/ sync[c].pc = "select" /\ sync'[d] = [pc |-> "save", event |-> e, seen |-> seen]
    BY <1>4 DEF CatalogInv
  <2> QED
    BY <2>1, <1>1, <1>a DEF CatalogInv, SyncIsSound, masterVars, Waiting
<1> QED
  BY <1>1, <1>2, <1>5, <1>6 DEF CatalogInv, masterVars

LEMMA EventIsAnItem ==
  ASSUME CatalogInv, NEW e \in priceEvents
  PROVE  e \in PriceEvent /\ e.product \in Products /\ Synchronized(e) \in Item
BY DEF CatalogInv, MasterInv, MasterTypeOK, PriceEvent, Synchronized, Item

LEMMA SaveKeepsCatalog ==
  ASSUME CatalogInv, NEW c \in Receivers, SaveItem(c)
  PROVE  CatalogInv'
<1>a. PICK e, seen, p : e = sync[c].event /\ seen = sync[c].seen /\ p = e.product
  OBVIOUS
<1>1. /\ e \in priceEvents
      /\ seen # NoItem => catalog[p] # NoItem
      /\ catalog' = [catalog EXCEPT ![p] = Written(catalog[p], seen, Synchronized(e))]
      /\ handled' = handled \cup {e}
      /\ sync' = [sync EXCEPT ![c] = Waiting]
      /\ UNCHANGED masterVars
  BY <1>a DEF SaveItem, CatalogInv, SyncIsSound
<1>2. MasterInv'
  BY <1>1, MasterStep DEF CatalogInv
<1>3. p \in Products /\ Synchronized(e) \in Item
  BY <1>1, <1>a, EventIsAnItem
<1>4. Written(catalog[p], seen, Synchronized(e)) \in Item
  <2>1. CASE seen = NoItem
    BY <2>1, <1>3 DEF Written
  <2>2. CASE seen # NoItem
    <3>1. catalog[p] \in Item
      BY <1>1, <1>3, <2>2 DEF CatalogInv
    <3>2. DOMAIN catalog[p] = {"barcode", "price", "at"}
      BY <3>1 DEF Item
    <3>3. Written(catalog[p], seen, Synchronized(e)) =
            [f \in {"barcode", "price", "at"} |->
               IF Synchronized(e)[f] = seen[f] THEN catalog[p][f] ELSE Synchronized(e)[f]]
      BY <2>2, <3>2 DEF Written
    <3> QED
      BY <1>3, <3>1, <3>3 DEF Item
  <2> QED
    BY <2>1, <2>2
<1>5. /\ catalog' \in [Products -> Item \cup {NoItem}]
      /\ \A q \in Products : catalog[q] # NoItem => catalog'[q] # NoItem
  BY <1>1, <1>3, <1>4, NothingIsNoItem DEF CatalogInv
<1>6. handled' \subseteq priceEvents' /\ priceEvents' = priceEvents
  BY <1>1 DEF CatalogInv, masterVars
<1>7. sync' = [d \in Receivers |-> sync'[d]]
  BY <1>1 DEF CatalogInv
<1>8. ASSUME NEW d \in Receivers PROVE SyncIsSound(d)'
  <2>1. CASE d = c
    BY <2>1, <1>1 DEF CatalogInv, SyncIsSound, Waiting
  <2>2. CASE d # c
    <3>1. sync'[d] = sync[d] /\ SyncIsSound(d)
      BY <2>2, <1>1 DEF CatalogInv
    <3>2. sync[d].pc # "waiting" => sync[d].event.product \in Products
      BY <3>1, EventIsAnItem DEF SyncIsSound
    <3> QED
      BY <3>1, <3>2, <1>5, <1>6 DEF SyncIsSound
  <2> QED
    BY <2>1, <2>2
<1> QED
  BY <1>2, <1>5, <1>6, <1>7, <1>8 DEF CatalogInv

LEMMA MasterKeepsCatalog ==
  ASSUME CatalogInv, [MasterNext]_masterVars, UNCHANGED <<catalog, handled, sync>>
  PROVE  CatalogInv'
<1>1. MasterInv' /\ priceEvents \subseteq priceEvents'
  BY MasterStep, MasterTells DEF CatalogInv
<1> QED
  BY <1>1 DEF CatalogInv, SyncIsSound

LEMMA CatalogStep ==
  ASSUME CatalogInv, [Next]_vars
  PROVE  CatalogInv'
<1>1. CASE SyncNext
  BY <1>1, FindKeepsCatalog, SelectKeepsCatalog, SaveKeepsCatalog DEF SyncNext
<1>2. CASE MasterNext /\ UNCHANGED <<catalog, handled, sync>>
  BY <1>2, MasterKeepsCatalog
<1>3. CASE UNCHANGED vars
  BY <1>3, MasterKeepsCatalog DEF vars
<1> QED
  BY <1>1, <1>2, <1>3 DEF Next

\* Type correctness, with any number of requests and consumer instances.
THEOREM CatalogTypeCorrect == Spec => []TypeOK
<1>1. CatalogInv /\ [Next]_vars => CatalogInv'
  BY CatalogStep
<1>2. CatalogInv => TypeOK
  BY DEF CatalogInv, MasterInv, TypeOK, SyncIsSound, Item
<1> QED
  BY <1>1, <1>2, CatalogInitially, PTL DEF Spec

\* However many registrations run at the same time, one product has a barcode
\* and one employee a code.
THEOREM KeysStayUnique == Spec => []KeysAreUnique
<1>1. CatalogInv /\ [Next]_vars => CatalogInv'
  BY CatalogStep
<1>2. CatalogInv => KeysAreUnique
  BY DEF CatalogInv, MasterInv
<1> QED
  BY <1>1, <1>2, CatalogInitially, PTL DEF Spec

-----------------------------------------------------------------------------
(* One consumer instance.                                                  *)

LEMMA FreshStep ==
  ASSUME CatalogInv, \A c \in Receivers : SyncIsFresh(c), [Next]_vars,
         \A c, d \in Receivers : c = d
  PROVE  \A c \in Receivers : SyncIsFresh(c)'
<1> SUFFICES ASSUME NEW c \in Receivers PROVE SyncIsFresh(c)'
  OBVIOUS
<1>1. ASSUME NEW e \in priceEvents, FindItem(c, e)
      PROVE  SyncIsFresh(c)'
  <2>1. catalog' = catalog
    BY <1>1 DEF FindItem
  <2>2. \/ sync' = sync
        \/ /\ sync'[c] = [pc |-> "select", event |-> e]
           /\ ~Ignored(catalog[e.product], e)
    BY <1>1 DEF FindItem, CatalogInv
  <2> QED
    BY <2>1, <2>2 DEF SyncIsFresh, Ignored
<1>2. CASE SelectItem(c)
  <2>a. PICK e, seen : e = sync[c].event /\ seen = catalog[e.product]
    OBVIOUS
  <2>1. /\ catalog' = catalog
        /\ sync'[c] = [pc |-> "save", event |-> e, seen |-> seen]
        /\ sync[c].pc = "select"
    BY <1>2, <2>a DEF SelectItem, CatalogInv
  <2> QED
    BY <2>a, <2>1 DEF SyncIsFresh, Ignored
<1>3. CASE SaveItem(c) \/ DropMessage(c)
  <2>1. sync'[c] = Waiting
    BY <1>3 DEF SaveItem, DropMessage, CatalogInv
  <2> QED
    BY <2>1 DEF SyncIsFresh, Waiting
<1>4. CASE UNCHANGED <<catalog, handled, sync>>
  BY <1>4 DEF SyncIsFresh, Ignored
<1> QED
  BY <1>1, <1>2, <1>3, <1>4 DEF Next, SyncNext, vars

LEMMA SaveShows ==
  ASSUME CatalogInv, NEW c \in Receivers, SyncIsFresh(c), SaveItem(c)
  PROVE  \E p \in Products : Latest!Show(p)
<1>a. PICK e, p : e = sync[c].event /\ p = e.product
  OBVIOUS
<1>1. /\ e \in priceEvents
      /\ sync[c].seen = catalog[p]
      /\ ~Ignored(catalog[p], e)
      /\ catalog' = [catalog EXCEPT ![p] =
                       Written(catalog[p], catalog[p], Synchronized(e))]
      /\ priceEvents' = priceEvents
  BY <1>a DEF SaveItem, CatalogInv, SyncIsSound, SyncIsFresh, masterVars
<1>2. e \in PriceEvent /\ p \in Products /\ Synchronized(e) \in Item
  BY <1>1, <1>a, EventIsAnItem
<1>3. catalog[p] \in Item \cup {NoItem}
  BY <1>2 DEF CatalogInv
<1>4. Written(catalog[p], catalog[p], Synchronized(e)) = Synchronized(e)
  <2>1. PICK row, item : row = catalog[p] /\ item = Synchronized(e)
    OBVIOUS
  <2>2. Written(row, row, item) = item
    BY <1>2, <1>3, <2>1, WrittenIs
  <2> QED
    BY <2>1, <2>2
<1>5. catalog' = [catalog EXCEPT ![p] = Synchronized(e)]
  BY <1>1, <1>4
<1>6. catalog'[p] = Synchronized(e) /\ \A q \in Products \ {p} : catalog'[q] = catalog[q]
  BY <1>5, <1>2 DEF CatalogInv
<1>7. Shown(p)' = e
  <2>1. catalog'[p] # NoItem
    BY <1>2, <1>6, NothingIsNoItem
  <2>2. Shown(p)' = [product |-> p, barcode |-> e.barcode, price |-> e.price, at |-> e.at]
    BY <2>1, <1>6 DEF Shown, Synchronized
  <2>3. e = [product |-> p, barcode |-> e.barcode, price |-> e.price, at |-> e.at]
    BY <1>2, <1>a DEF PriceEvent
  <2> QED
    BY <2>2, <2>3
<1>8. \A q \in Products \ {p} : Shown(q)' = Shown(q)
  BY <1>6 DEF Shown
<1>9. Shown(p) # NoItem => Shown(p).at <= e.at
  <2>1. Shown(p) # NoItem => catalog[p] # NoItem /\ Shown(p).at = catalog[p].at
    BY DEF Shown
  <2>2. catalog[p] # NoItem => catalog[p].at \in 0..MaxTime /\ e.at \in 0..MaxTime
    BY <1>2, <1>3 DEF Item, PriceEvent
  <2> QED
    BY <2>1, <2>2, <1>1, MasterDataConstants DEF Ignored
<1>10. [q \in Products |-> Shown(q)]' = [[q \in Products |-> Shown(q)] EXCEPT ![p] = e]
  BY <1>2, <1>7, <1>8
<1>11. Latest!Show(p)
  BY <1>1, <1>2, <1>9, <1>10, <1>a DEF Latest!Show
<1> QED
  BY <1>2, <1>11

LEMMA CatalogStepIsAStepOfLatest ==
  ASSUME CatalogInv, \A c \in Receivers : SyncIsFresh(c), [Next]_vars
  PROVE  Latest!Next \/ UNCHANGED Latest!vars
<1>1. ASSUME catalog' = catalog
      PROVE  [q \in Products |-> Shown(q)]' = [q \in Products |-> Shown(q)]
  BY <1>1 DEF Shown
<1>2. ASSUME NEW c \in Receivers, SaveItem(c) PROVE Latest!Next
  BY <1>2, SaveShows DEF Latest!Next
<1>3. CASE UNCHANGED <<masterVars, catalog>>
  BY <1>1, <1>3 DEF Latest!vars, masterVars
<1>4. CASE [MasterNext]_masterVars /\ UNCHANGED <<catalog, handled, sync>>
  <2>1. \/ priceEvents' = priceEvents
        \/ \E e \in PriceEvent : priceEvents' = priceEvents \cup {e}
    BY <1>4, MasterTells DEF CatalogInv
  <2> QED
    BY <2>1, <1>1, <1>4 DEF Latest!Next, Latest!Tell, Latest!vars
<1> QED
  BY <1>2, <1>3, <1>4 DEF Next, SyncNext, FindItem, SelectItem, DropMessage, vars

LEMMA CatalogStartsAsLatest == Init => Latest!Init
BY DEF Init, MasterInit, Latest!Init, Shown

\* One consumer instance never takes a price back, whatever is late, repeated
\* or interrupted: a handler that was interrupted left nothing behind.
THEOREM CatalogRefinesLatestPrice ==
  ASSUME \A c, d \in Receivers : c = d
  PROVE  Spec => ImplementsLatestPrice
<1>1. CatalogInv /\ [Next]_vars => CatalogInv'
  BY CatalogStep
<1>2. CatalogInv /\ (\A c \in Receivers : SyncIsFresh(c)) /\ [Next]_vars
        => (\A c \in Receivers : SyncIsFresh(c))'
  BY FreshStep
<1>3. CatalogInv /\ (\A c \in Receivers : SyncIsFresh(c)) /\ [Next]_vars
        => [Latest!Next]_(Latest!vars)
  BY CatalogStepIsAStepOfLatest
<1> QED
  BY <1>1, <1>2, <1>3, CatalogInitially, CatalogStartsAsLatest, PTL
     DEF Spec, ImplementsLatestPrice, Latest!Spec
=============================================================================
