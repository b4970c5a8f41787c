-------------------------- MODULE SaleEventsProofs --------------------------
(***************************************************************************)
(* What the proofs about the consumers of the sale events rest on: the     *)
(* invariants of the checkout side, SaleEvents, and the laws of sums over  *)
(* finite sets, as the consumers book quantities and amounts and the       *)
(* properties about them add those up.                                     *)
(***************************************************************************)
EXTENDS SaleEvents, Integers, FiniteSetsExt, FiniteSetTheorems,
        WellFoundedInduction, TLAPS

\* Each name has at most one event per sale or session.
EventsAreUnique ==
  \A e, f \in stored : e.name = f.name /\ e.aggregate = f.aggregate => e = f

\* What the events of a sale say about its row when requests do not overlap.
RowMatchesEvents(x) ==
  /\ EventsOn("SaleCompleted", x) # {} => sales[x].status \in {"COMPLETED", "CANCELED"}
  /\ sales[x].status = "COMPLETED" => EventsOn("SaleCompleted", x) # {}
  /\ EventsOn("SaleCanceled", x) # {} => sales[x].status = "CANCELED"
  /\ \A e \in EventsOn("SaleCanceled", x) :
       e.previous = "COMPLETED" => EventsOn("SaleCompleted", x) # {}
  /\ EventsOn("SaleCanceled", x) = {} => sales[x].status # "CANCELED"
  /\ \A e \in EventsOn("SaleCanceled", x) :
       EventsOn("SaleCompleted", x) # {} => e.previous = "COMPLETED"

StoredInv ==
  /\ CheckoutTypeOK
  /\ IsFiniteSet(stored)
  /\ \A x \in Sales : sales[x].status # "NONE" => sales[x].session \in Sessions

\* The events of a sale name the session its row has for good.
EventsNameTheSession ==
  \A e \in stored : e.name \in {"SaleCompleted", "SaleCanceled"} =>
    sales[e.aggregate].status # "NONE" /\ sales[e.aggregate].session = e.session

-----------------------------------------------------------------------------
\* The record Store adds.
EventOf(name, a, s, previous, id) ==
  [name |-> name, aggregate |-> a, session |-> s, previous |-> previous, id |-> id]

\* Store adds one event of its name and aggregate, and with one copy allowed
\* there was none.
LEMMA StoreAdds ==
  ASSUME StoredInv, NEW name, NEW a, NEW s, NEW previous,
         Store(name, a, s, previous)
  PROVE  \E id \in 1..MaxCopies :
           /\ stored' = stored \cup {EventOf(name, a, s, previous, id)}
           /\ MaxCopies = 1 => EventsOn(name, a) = {}
<1>1. IsFiniteSet(EventsOn(name, a))
  BY FS_Subset DEF StoredInv, EventsOn
<1>2. Cardinality(EventsOn(name, a)) \in Nat
  BY <1>1, FS_CardinalityType
<1>3. DEFINE id == Cardinality(EventsOn(name, a)) + 1
<1>4. id \in 1..MaxCopies
  BY <1>2, SaleEventsConstants DEF Store
<1>5. stored' = stored \cup {EventOf(name, a, s, previous, id)}
  BY DEF Store, EventOf
<1>6. ASSUME MaxCopies = 1
      PROVE  EventsOn(name, a) = {}
  <2>1. Cardinality(EventsOn(name, a)) = 0
    BY <1>2, <1>4, <1>6
  <2> QED
    BY <2>1, <1>1, FS_EmptySet
<1> QED
  BY <1>4, <1>5, <1>6

\* A save leaves every other row alone, and this one with its session.
LEMMA SaveStatusKeeps ==
  ASSUME CheckoutTypeOK, NEW x \in Sales, NEW status \in SaleStatus,
         SaveStatus(x, status)
  PROVE  /\ sales' \in [Sales -> [status: SaleStatus, session: Sessions \cup {None}]]
         /\ \A y \in Sales : sales'[y].session = sales[y].session
         /\ \A y \in Sales \ {x} : sales'[y] = sales[y]
         /\ ~Overlaps => sales'[x].status = status
         /\ sales'[x].status \in {status, sales[x].status}
<1>1. PICK saved \in (IF Overlaps THEN {status, sales[x].status} ELSE {status}) :
        sales' = [sales EXCEPT ![x].status = saved]
  BY DEF SaveStatus
<1>2. saved \in SaleStatus
  BY DEF CheckoutTypeOK
<1> QED
  BY <1>1, <1>2, SaleEventsConstants DEF CheckoutTypeOK


-----------------------------------------------------------------------------
LEMMA StoredInitially == CheckoutInit => StoredInv /\ EventsAreUnique
BY FS_EmptySet DEF CheckoutInit, StoredInv, CheckoutTypeOK, SaleStatus, EventsAreUnique

\* A request on a sale in any status but NONE.
LEMMA LoadedInSession ==
  ASSUME StoredInv, NEW x \in Sales, NEW status, LoadedIn(x, status)
  PROVE  sales[x].session \in Sessions
BY DEF StoredInv, LoadedIn

\* Events a sale stores have the type of an event.
LEMMA StoreKeeps ==
  ASSUME StoredInv, NEW name, NEW a, NEW s, NEW previous,
         Store(name, a, s, previous),
         \A id \in 1..MaxCopies :
           EventOf(name, a, s, previous, id) \in SaleEvent \cup ClosedEvent
  PROVE  /\ stored' \subseteq SaleEvent \cup ClosedEvent
         /\ IsFiniteSet(stored')
         /\ stored \subseteq stored'
         /\ MaxCopies = 1 /\ EventsAreUnique => EventsAreUnique'
<1>1. PICK id \in 1..MaxCopies :
        /\ stored' = stored \cup {EventOf(name, a, s, previous, id)}
        /\ MaxCopies = 1 => EventsOn(name, a) = {}
  BY StoreAdds
<1>2. IsFiniteSet(stored')
  BY <1>1, FS_AddElement DEF StoredInv
<1>3. ASSUME MaxCopies = 1, EventsAreUnique,
             NEW e \in stored', NEW f \in stored',
             e.name = f.name, e.aggregate = f.aggregate
      PROVE  e = f
  BY <1>1, <1>3 DEF EventsOn, EventOf, EventsAreUnique
<1> QED
  BY <1>1, <1>2, <1>3 DEF StoredInv, CheckoutTypeOK, EventsAreUnique

\* The events of a step's new name and aggregate are the old ones and the new.
LEMMA StoreOn ==
  ASSUME StoredInv, NEW name, NEW a, NEW s, NEW previous,
         Store(name, a, s, previous), NEW n, NEW b
  PROVE  /\ (n # name \/ b # a) => EventsOn(n, b)' = EventsOn(n, b)
         /\ EventsOn(name, a)' # {}
         /\ \A e \in EventsOn(name, a)' : e \in EventsOn(name, a) \/ e.previous = previous
<1>1. PICK id \in 1..MaxCopies :
        stored' = stored \cup {EventOf(name, a, s, previous, id)}
  BY StoreAdds
<1> DEFINE new == EventOf(name, a, s, previous, id)
<1>2. new.name = name /\ new.aggregate = a /\ new.previous = previous
  BY DEF EventOf
<1>3. stored' = stored \cup {new}
  BY <1>1
<1> HIDE DEF new
<1>4. (n # name \/ b # a) => EventsOn(n, b)' = EventsOn(n, b)
  BY <1>2, <1>3 DEF EventsOn
<1>5. new \in EventsOn(name, a)'
  BY <1>2, <1>3 DEF EventsOn
<1>6. \A e \in EventsOn(name, a)' : e \in EventsOn(name, a) \/ e = new
  BY <1>3 DEF EventsOn
<1> QED
  BY <1>2, <1>4, <1>5, <1>6

LEMMA StoredStep ==
  ASSUME StoredInv, [CheckoutNext]_checkoutVars
  PROVE  /\ StoredInv'
         /\ stored \subseteq stored'
         /\ MaxCopies = 1 /\ EventsAreUnique => EventsAreUnique'
<1> USE DEF StoredInv
<1>1. ASSUME NEW s \in Sessions, OpenSession(s)
      PROVE  /\ StoredInv' /\ stored \subseteq stored'
             /\ EventsAreUnique => EventsAreUnique'
  BY <1>1 DEF OpenSession, CheckoutTypeOK, EventsAreUnique
<1>2. ASSUME NEW s \in Sessions, CloseSession(s)
      PROVE  /\ StoredInv' /\ stored \subseteq stored'
             /\ MaxCopies = 1 /\ EventsAreUnique => EventsAreUnique'
  <2>1. Store("RegisterClosed", s, s, "OPEN")
    BY <1>2 DEF CloseSession
  <2>2. \A id \in 1..MaxCopies :
          EventOf("RegisterClosed", s, s, "OPEN", id) \in SaleEvent \cup ClosedEvent
    BY DEF EventOf, ClosedEvent
  <2>3. sessions' \in [Sessions -> {"NONE", "OPEN", "CLOSED"}] /\ sales' = sales
    BY <1>2 DEF CloseSession, CheckoutTypeOK
  <2> QED
    BY <2>1, <2>2, <2>3, StoreKeeps DEF CheckoutTypeOK
<1>3. ASSUME NEW x \in Sales, NEW s \in Sessions, StartSale(x, s)
      PROVE  /\ StoredInv' /\ stored \subseteq stored'
             /\ EventsAreUnique => EventsAreUnique'
  BY <1>3 DEF StartSale, CheckoutTypeOK, EventsAreUnique, SaleStatus
<1>4. ASSUME NEW x \in Sales, ChangeCart(x) \/ PaySale(x)
      PROVE  /\ StoredInv' /\ stored \subseteq stored'
             /\ EventsAreUnique => EventsAreUnique'
  <2>1. PICK to \in {"OPEN", "PAID"} : LoadedIn(x, "OPEN") /\ SaveStatus(x, to)
    BY <1>4 DEF ChangeCart, PaySale
  <2>2. to \in SaleStatus
    BY DEF SaleStatus
  <2>3. sessions' = sessions /\ stored' = stored
    BY <1>4 DEF ChangeCart, PaySale
  <2>4. sales[x].session \in Sessions
    BY <2>1, LoadedInSession
  <2>5. /\ sales' \in [Sales -> [status: SaleStatus, session: Sessions \cup {None}]]
        /\ \A y \in Sales : sales'[y].session = sales[y].session
        /\ \A y \in Sales \ {x} : sales'[y] = sales[y]
    BY <2>1, <2>2, SaveStatusKeeps
  <2> QED
    BY <2>3, <2>4, <2>5 DEF CheckoutTypeOK, EventsAreUnique
<1>5. ASSUME NEW x \in Sales, CompleteSale(x) \/ CancelSale(x)
      PROVE  /\ StoredInv' /\ stored \subseteq stored'
             /\ MaxCopies = 1 /\ EventsAreUnique => EventsAreUnique'
  <2>1. PICK from \in {"OPEN", "PAID", "COMPLETED"},
             to \in {"COMPLETED", "CANCELED"},
             name \in {"SaleCompleted", "SaleCanceled"} :
          /\ LoadedIn(x, from)
          /\ SaveStatus(x, to)
          /\ Store(name, x, sales[x].session, from)
    BY <1>5 DEF CompleteSale, CancelSale
  <2>2. to \in SaleStatus /\ from \in SaleStatus
    BY DEF SaleStatus
  <2>3. sessions' = sessions
    BY <1>5 DEF CompleteSale, CancelSale
  <2>4. sales[x].session \in Sessions
    BY <2>1, LoadedInSession
  <2>5. /\ sales' \in [Sales -> [status: SaleStatus, session: Sessions \cup {None}]]
        /\ \A y \in Sales : sales'[y].session = sales[y].session
        /\ \A y \in Sales \ {x} : sales'[y] = sales[y]
    BY <2>1, <2>2, SaveStatusKeeps
  <2>6. \A id \in 1..MaxCopies :
          EventOf(name, x, sales[x].session, from, id) \in SaleEvent \cup ClosedEvent
    BY <2>2, <2>4 DEF EventOf, SaleEvent
  <2>7. /\ stored' \subseteq SaleEvent \cup ClosedEvent
        /\ IsFiniteSet(stored')
        /\ stored \subseteq stored'
        /\ MaxCopies = 1 /\ EventsAreUnique => EventsAreUnique'
    BY <2>1, <2>6, StoreKeeps
  <2> QED
    BY <2>3, <2>4, <2>5, <2>7 DEF CheckoutTypeOK
<1>6. CASE UNCHANGED checkoutVars
  BY <1>6 DEF checkoutVars, CheckoutTypeOK, EventsAreUnique
<1> QED
  BY <1>1, <1>2, <1>3, <1>4, <1>5, <1>6 DEF CheckoutNext

-----------------------------------------------------------------------------
\* Without overlaps the row of a sale and its events go together.
LEMMA RowInitially ==
  CheckoutInit => \A x \in Sales : RowMatchesEvents(x)
BY DEF CheckoutInit, RowMatchesEvents, EventsOn

LEMMA RowStep ==
  ASSUME StoredInv, ~Overlaps, [CheckoutNext]_checkoutVars,
         NEW y \in Sales, RowMatchesEvents(y)
  PROVE  RowMatchesEvents(y)'
<1>1. ASSUME sales'[y] = sales[y],
             \A n \in {"SaleCompleted", "SaleCanceled"} :
               EventsOn(n, y)' = EventsOn(n, y)
      PROVE  RowMatchesEvents(y)'
  BY <1>1 DEF RowMatchesEvents
<1>2. ASSUME NEW s \in Sessions, OpenSession(s)
      PROVE  RowMatchesEvents(y)'
  BY <1>2 DEF OpenSession, RowMatchesEvents, EventsOn
<1>3. ASSUME NEW s \in Sessions, CloseSession(s)
      PROVE  RowMatchesEvents(y)'
  <2>1. Store("RegisterClosed", s, s, "OPEN") /\ sales' = sales
    BY <1>3 DEF CloseSession
  <2>2. \A n \in {"SaleCompleted", "SaleCanceled"} :
          EventsOn(n, y)' = EventsOn(n, y)
    BY <2>1, StoreOn
  <2> QED
    BY <1>1, <2>1, <2>2
<1>4. ASSUME NEW x \in Sales, NEW s \in Sessions, StartSale(x, s)
      PROVE  RowMatchesEvents(y)'
  <2>1. sales' = [sales EXCEPT ![x] = [status |-> "OPEN", session |-> s]]
        /\ stored' = stored /\ sales[x].status = "NONE"
    BY <1>4 DEF StartSale
  <2>2. \A n : EventsOn(n, y)' = EventsOn(n, y)
    BY <2>1 DEF EventsOn
  <2>3. CASE x = y
    BY <2>1, <2>2, <2>3 DEF StoredInv, CheckoutTypeOK, RowMatchesEvents
  <2>4. CASE x # y
    BY <2>1, <2>2, <2>4, <1>1 DEF StoredInv, CheckoutTypeOK
  <2> QED
    BY <2>3, <2>4
<1>5. ASSUME NEW x \in Sales, ChangeCart(x) \/ PaySale(x)
      PROVE  RowMatchesEvents(y)'
  <2>1. PICK to \in {"OPEN", "PAID"} : LoadedIn(x, "OPEN") /\ SaveStatus(x, to)
    BY <1>5 DEF ChangeCart, PaySale
  <2>2. to \in SaleStatus
    BY DEF SaleStatus
  <2>3. \A n : EventsOn(n, y)' = EventsOn(n, y)
    BY <1>5 DEF ChangeCart, PaySale, EventsOn
  <2>4. /\ \A z \in Sales \ {x} : sales'[z] = sales[z]
        /\ sales'[x].status = to
    BY <2>1, <2>2, SaveStatusKeeps DEF StoredInv
  <2>5. sales[x].status = "OPEN"
    BY <2>1 DEF LoadedIn
  <2> QED
    BY <2>3, <2>4, <2>5 DEF RowMatchesEvents
<1>6. ASSUME NEW x \in Sales, CompleteSale(x)
      PROVE  RowMatchesEvents(y)'
  <2>1. /\ LoadedIn(x, "PAID") /\ SaveStatus(x, "COMPLETED")
        /\ Store("SaleCompleted", x, sales[x].session, "PAID")
    BY <1>6 DEF CompleteSale
  <2>2. /\ \A z \in Sales \ {x} : sales'[z] = sales[z]
        /\ sales'[x].status = "COMPLETED"
    BY <2>1, SaveStatusKeeps DEF StoredInv, SaleStatus
  <2>3. sales[x].status = "PAID"
    BY <2>1 DEF LoadedIn
  <2>4. EventsOn("SaleCanceled", y)' = EventsOn("SaleCanceled", y)
    BY <2>1, StoreOn
  <2>5. y # x => EventsOn("SaleCompleted", y)' = EventsOn("SaleCompleted", y)
    BY <2>1, StoreOn
  <2>6. EventsOn("SaleCompleted", x)' # {}
    BY <2>1, StoreOn
  <2> QED
    BY <2>2, <2>3, <2>4, <2>5, <2>6 DEF RowMatchesEvents
<1>7. ASSUME NEW x \in Sales, CancelSale(x)
      PROVE  RowMatchesEvents(y)'
  <2>1. PICK previous \in {"OPEN", "PAID", "COMPLETED"} :
          /\ LoadedIn(x, previous)
          /\ Store("SaleCanceled", x, sales[x].session, previous)
    BY <1>7 DEF CancelSale
  <2>2. SaveStatus(x, "CANCELED")
    BY <1>7 DEF CancelSale
  <2>3. /\ \A z \in Sales \ {x} : sales'[z] = sales[z]
        /\ sales'[x].status = "CANCELED"
    BY <2>2, SaveStatusKeeps DEF StoredInv, SaleStatus
  <2>4. sales[x].status = previous
    BY <2>1 DEF LoadedIn
  <2>5. EventsOn("SaleCompleted", y)' = EventsOn("SaleCompleted", y)
    BY <2>1, StoreOn
  <2>6. y # x => EventsOn("SaleCanceled", y)' = EventsOn("SaleCanceled", y)
    BY <2>1, StoreOn
  <2>7. /\ EventsOn("SaleCanceled", x)' # {}
        /\ \A e \in EventsOn("SaleCanceled", x)' :
             e \in EventsOn("SaleCanceled", x) \/ e.previous = previous
    BY <2>1, StoreOn
  <2>8. CASE x = y
    <3>1. EventsOn("SaleCanceled", x) = {}
      BY <2>4, <2>8 DEF RowMatchesEvents
    <3> QED
      BY <3>1, <2>3, <2>4, <2>5, <2>7, <2>8 DEF RowMatchesEvents
  <2>9. CASE x # y
    BY <2>3, <2>5, <2>6, <2>9 DEF RowMatchesEvents
  <2> QED
    BY <2>8, <2>9
<1>8. CASE UNCHANGED checkoutVars
  BY <1>8 DEF checkoutVars, RowMatchesEvents, EventsOn
<1> QED
  BY <1>2, <1>3, <1>4, <1>5, <1>6, <1>7, <1>8 DEF CheckoutNext
-----------------------------------------------------------------------------
\* A row that is there stays, with its session.
LEMMA RowsStay ==
  ASSUME StoredInv, [CheckoutNext]_checkoutVars, NEW y \in Sales,
         sales[y].status # "NONE"
  PROVE  sales'[y].status # "NONE" /\ sales'[y].session = sales[y].session
<1> USE DEF StoredInv
<1>1. ASSUME NEW x \in Sales, NEW status \in SaleStatus \ {"NONE"},
             SaveStatus(x, status)
      PROVE  sales'[y].status # "NONE" /\ sales'[y].session = sales[y].session
  <2>1. /\ \A z \in Sales : sales'[z].session = sales[z].session
        /\ \A z \in Sales \ {x} : sales'[z] = sales[z]
        /\ sales'[x].status \in {status, sales[x].status}
    BY <1>1, SaveStatusKeeps
  <2> QED
    BY <2>1, <1>1
<1>2. ASSUME NEW x \in Sales, NEW s \in Sessions, StartSale(x, s)
      PROVE  sales'[y] = sales[y]
  BY <1>2 DEF StartSale, CheckoutTypeOK
<1>3. ASSUME NEW x \in Sales,
             ChangeCart(x) \/ PaySale(x) \/ CompleteSale(x) \/ CancelSale(x)
      PROVE  \E status \in SaleStatus \ {"NONE"} : SaveStatus(x, status)
  <2>1. {"OPEN", "PAID", "COMPLETED", "CANCELED"} = SaleStatus \ {"NONE"}
    BY DEF SaleStatus
  <2>2. \E status \in {"OPEN", "PAID", "COMPLETED", "CANCELED"} : SaveStatus(x, status)
    BY <1>3 DEF ChangeCart, PaySale, CompleteSale, CancelSale
  <2> QED
    BY <2>1, <2>2
<1>4. ASSUME NEW s \in Sessions, OpenSession(s) \/ CloseSession(s)
      PROVE  sales' = sales
  BY <1>4 DEF OpenSession, CloseSession
<1>5. CASE UNCHANGED checkoutVars
  BY <1>5 DEF checkoutVars
<1> QED
  BY <1>1, <1>2, <1>3, <1>4, <1>5 DEF CheckoutNext

\* The session of an event is the one the row had when it was stored.
LEMMA SessionStep ==
  ASSUME StoredInv, EventsNameTheSession, [CheckoutNext]_checkoutVars
  PROVE  EventsNameTheSession'
<1>1. ASSUME NEW e \in stored, e.name \in {"SaleCompleted", "SaleCanceled"}
      PROVE  sales'[e.aggregate].status # "NONE" /\ sales'[e.aggregate].session = e.session
  <2>1. e.aggregate \in Sales
    BY <1>1 DEF StoredInv, CheckoutTypeOK, SaleEvent, ClosedEvent
  <2> QED
    BY <1>1, <2>1, RowsStay DEF EventsNameTheSession
<1>2. ASSUME NEW x \in Sales, CompleteSale(x) \/ CancelSale(x)
      PROVE  EventsNameTheSession'
  <2>1. PICK name \in {"SaleCompleted", "SaleCanceled"},
             previous \in {"OPEN", "PAID", "COMPLETED"} :
          LoadedIn(x, previous) /\ Store(name, x, sales[x].session, previous)
    BY <1>2 DEF CompleteSale, CancelSale
  <2>2. PICK id \in 1..MaxCopies :
          stored' = stored \cup {EventOf(name, x, sales[x].session, previous, id)}
    BY <2>1, StoreAdds
  <2>3. sales[x].status # "NONE"
    BY <2>1 DEF LoadedIn
  <2>4. [CheckoutNext]_checkoutVars
    BY <1>2 DEF CheckoutNext
  <2>5. sales'[x].status # "NONE" /\ sales'[x].session = sales[x].session
    BY <2>3, <2>4, RowsStay
  <2> QED
    BY <1>1, <2>2, <2>5 DEF EventsNameTheSession, EventOf
<1>3. ASSUME NEW s \in Sessions, CloseSession(s)
      PROVE  EventsNameTheSession'
  <2>1. PICK id \in 1..MaxCopies :
          stored' = stored \cup {EventOf("RegisterClosed", s, s, "OPEN", id)}
    BY <1>3, StoreAdds DEF CloseSession
  <2> QED
    BY <1>1, <2>1 DEF EventsNameTheSession, EventOf
<1>4. ASSUME stored' = stored PROVE EventsNameTheSession'
  BY <1>1, <1>4 DEF EventsNameTheSession
<1>5. ASSUME NEW x \in Sales, ChangeCart(x) \/ PaySale(x)
      PROVE  stored' = stored
  BY <1>5 DEF ChangeCart, PaySale
<1>6. ASSUME NEW s \in Sessions,
             OpenSession(s) \/ \E x \in Sales : StartSale(x, s)
      PROVE  stored' = stored
  BY <1>6 DEF OpenSession, StartSale
<1>7. CASE UNCHANGED checkoutVars
  BY <1>4, <1>7 DEF checkoutVars
<1> QED
  BY <1>2, <1>3, <1>4, <1>5, <1>6, <1>7 DEF CheckoutNext

-----------------------------------------------------------------------------
(***************************************************************************)
(* Sums over finite sets.  MapThenSumSet of the community modules takes    *)
(* the elements in an order that CHOOSE picks; the laws below are what the *)
(* proofs about the consumers need of it.  They are proved by induction on *)
(* the subsets of a finite set, on which strict inclusion is well-founded. *)
(***************************************************************************)

\* The sum of g over s.
Total(g, s) == MapThenSumSet(LAMBDA x : g[x], s)

One(s) == CHOOSE x \in s : TRUE

\* f is the function by whose recursion MapThenSumSet is defined.
SumsUp(f, g, S) ==
  f = [s \in SUBSET S |->
         IF s = {} THEN 0 ELSE g[One(s)] + f[s \ {One(s)}]]

\* Among subsets of a finite set there is one that contains no other.
LEMMA SmallestSubset ==
  ASSUME NEW S, IsFiniteSet(S), NEW Bad \in SUBSET SUBSET S, Bad # {}
  PROVE  \E s \in Bad : \A t \in Bad : t \subseteq s => t = s
<1>1. FiniteSubsetsOf(S) = SUBSET S
  BY FS_FiniteSubsetsOfFinite
<1>2. IsWellFoundedOn(StrictSubsetOrdering(S), SUBSET S)
  BY <1>1, FS_StrictSubsetOrderingWellFounded
<1>3. PICK s \in Bad : \A t \in Bad : ~ (<<t, s>> \in StrictSubsetOrdering(S))
  BY <1>2, WFMin
<1>4. \A t \in Bad : t \subseteq s => t = s
  BY <1>3 DEF StrictSubsetOrdering
<1> QED
  BY <1>4

\* Induction: what holds of the empty set, and of a set if it holds of the set
\* without any one of its elements, holds of all subsets of a finite set.
LEMMA SubsetInduction ==
  ASSUME NEW S, IsFiniteSet(S), NEW Good, {} \in Good,
         ASSUME NEW s \in SUBSET S, s # {}, \A x \in s : s \ {x} \in Good
         PROVE  s \in Good
  PROVE  SUBSET S \subseteq Good
<1> DEFINE Bad == {s \in SUBSET S : s \notin Good}
<1>1. SUFFICES ASSUME Bad # {} PROVE FALSE
  OBVIOUS
<1>2. Bad \in SUBSET SUBSET S
  OBVIOUS
<1>3. PICK s \in Bad : \A t \in Bad : t \subseteq s => t = s
  <2> HIDE DEF Bad
  <2> QED
    BY <1>1, <1>2, SmallestSubset
<1>4. \A x \in s : s \ {x} \in Good
  BY <1>3
<1> QED
  BY <1>4

\* There is at most one function that sums up.
LEMMA SumIsUnique ==
  ASSUME NEW S, IsFiniteSet(S), NEW g, NEW f, NEW h,
         SumsUp(f, g, S), SumsUp(h, g, S)
  PROVE  f[S] = h[S]
<1> DEFINE Good == {s \in SUBSET S : f[s] = h[s]}
<1>1. {} \in Good
  BY DEF SumsUp
<1>2. ASSUME NEW s \in SUBSET S, s # {}, \A x \in s : s \ {x} \in Good
      PROVE  s \in Good
  <2>1. One(s) \in s
    BY <1>2 DEF One
  <2>2. f[s \ {One(s)}] = h[s \ {One(s)}]
    BY <1>2, <2>1
  <2>3. /\ f[s] = g[One(s)] + f[s \ {One(s)}]
        /\ h[s] = g[One(s)] + h[s \ {One(s)}]
    BY <1>2 DEF SumsUp
  <2> QED
    BY <2>2, <2>3
<1>3. SUBSET S \subseteq Good
  <2> HIDE DEF Good
  <2> QED
    BY <1>1, <1>2, SubsetInduction
<1> QED
  BY <1>3

\* A function that sums up does so on every subset.
LEMMA SumOfSubset ==
  ASSUME NEW S, NEW g, NEW f, SumsUp(f, g, S), NEW T \in SUBSET S
  PROVE  SumsUp([s \in SUBSET T |-> f[s]], g, T)
<1> DEFINE h == [s \in SUBSET T |-> f[s]]
<1>1. ASSUME NEW s \in SUBSET T
      PROVE  h[s] = IF s = {} THEN 0 ELSE g[One(s)] + h[s \ {One(s)}]
  <2>1. s \in SUBSET S /\ s \ {One(s)} \in SUBSET T
    OBVIOUS
  <2>2. f[s] = IF s = {} THEN 0 ELSE g[One(s)] + f[s \ {One(s)}]
    BY <2>1 DEF SumsUp
  <2>3. h[s] = f[s] /\ h[s \ {One(s)}] = f[s \ {One(s)}]
    BY <2>1
  <2> QED
    BY <2>2, <2>3
<1> QED
  BY <1>1 DEF SumsUp

\* The functions that sum up over the smaller sets make one for the set.
LEMMA SumExists ==
  ASSUME NEW S, IsFiniteSet(S), NEW g
  PROVE  \E f : SumsUp(f, g, S)
<1> DEFINE Bad == {s \in SUBSET S : ~ \E f : SumsUp(f, g, s)}
<1>1. SUFFICES ASSUME Bad # {} PROVE FALSE
  OBVIOUS
<1>2. PICK s \in Bad : \A t \in Bad : t \subseteq s => t = s
  <2>1. Bad \in SUBSET SUBSET S
    OBVIOUS
  <2> HIDE DEF Bad
  <2> QED
    BY <2>1, <1>1, SmallestSubset
<1>3. \A t \in SUBSET S : IsFiniteSet(t)
  BY FS_Subset
<1> DEFINE F(t) == CHOOSE f : SumsUp(f, g, t)
           V(t) == IF t = {} THEN 0 ELSE F(t)[t]
           h == [t \in SUBSET s |->
                   IF t = {} THEN 0 ELSE g[One(t)] + V(t \ {One(t)})]
<1>4. \A t \in SUBSET s : t # s => SumsUp(F(t), g, t)
  <2> TAKE t \in SUBSET s
  <2> HAVE t # s
  <2>1. t \notin Bad /\ t \in SUBSET S
    BY <1>2
  <2>2. \E f : SumsUp(f, g, t)
    BY <2>1
  <2> QED
    BY <2>2
<1>5. ASSUME NEW t \in SUBSET s, t # s
      PROVE  h[t] = V(t)
  <2>1. CASE t = {}
    BY <2>1
  <2>2. CASE t # {}
    <3> DEFINE u == t \ {One(t)}
    <3>1. u \in SUBSET t /\ u \in SUBSET s /\ u # s
      BY <2>2, <1>5 DEF One
    <3>2. SumsUp(F(t), g, t) /\ SumsUp(F(u), g, u) /\ IsFiniteSet(u)
      BY <1>2, <1>3, <1>4, <1>5, <3>1
    <3>3. F(t)[t] = g[One(t)] + F(t)[u]
      <4> HIDE DEF F
      <4> QED
        BY <3>2, <2>2 DEF SumsUp
    <3>4. F(t)[u] = V(u)
      <4> DEFINE r == [v \in SUBSET u |-> F(t)[v]]
      <4> HIDE DEF F, u
      <4>1. u = {} => F(t)[u] = 0
        BY <3>2 DEF SumsUp
      <4>2. SumsUp(r, g, u)
        BY <3>1, <3>2, SumOfSubset
      <4>3. r[u] = F(u)[u]
        <5> HIDE DEF r
        <5> QED
          BY <4>2, <3>2, SumIsUnique
      <4> QED
        BY <4>1, <4>3
    <3>5. h[t] = g[One(t)] + V(u)
      <4> HIDE DEF V
      <4> QED
        BY <2>2
    <3> HIDE DEF F, u, h
    <3> QED
      BY <2>2, <3>3, <3>4, <3>5
  <2> QED
    BY <2>1, <2>2
<1>6. SumsUp(h, g, s)
  <2>1. ASSUME NEW t \in SUBSET s, t # {}
        PROVE  h[t] = g[One(t)] + h[t \ {One(t)}]
    <3>1. t \ {One(t)} \in SUBSET s /\ t \ {One(t)} # s
      BY <2>1 DEF One
    <3>2. h[t \ {One(t)}] = V(t \ {One(t)})
      <4> HIDE DEF h, V
      <4> QED
        BY <3>1, <1>5
    <3>3. h[t] = g[One(t)] + V(t \ {One(t)})
      <4> HIDE DEF V
      <4> QED
        BY <2>1
    <3> HIDE DEF h, V
    <3> QED
      BY <3>2, <3>3
  <2>2. h = [t \in SUBSET s |-> h[t]] /\ h[{}] = 0
    OBVIOUS
  <2> HIDE DEF h
  <2> QED
    BY <2>1, <2>2 DEF SumsUp
<1> QED
  BY <1>6, <1>2

\* The sum is the value of that function.
LEMMA TotalSumsUp ==
  ASSUME NEW S, IsFiniteSet(S), NEW g
  PROVE  \E f : SumsUp(f, g, S) /\ f[S] = Total(g, S)
<1> DEFINE iter == CHOOSE f : f =
             [s \in SUBSET S |->
                IF s = {} THEN 0
                ELSE g[CHOOSE x \in s : TRUE] + f[s \ {CHOOSE x \in s : TRUE}]]
<1>1. \E f : SumsUp(f, g, S)
  BY SumExists
<1>2. SumsUp(iter, g, S)
  BY <1>1 DEF SumsUp, One
<1>3. Total(g, S) = iter[S]
  BY DEF Total, MapThenSumSet, MapThenFoldSet
<1> QED
  BY <1>2, <1>3

\* The empty sum is 0.
LEMMA TotalOfNone ==
  ASSUME NEW g
  PROVE  Total(g, {}) = 0
<1>1. PICK f : SumsUp(f, g, {}) /\ f[{}] = Total(g, {})
  BY TotalSumsUp, FS_EmptySet
<1> QED
  BY <1>1 DEF SumsUp

\* The element CHOOSE picks is added to the sum of the others.
LEMMA TotalStep ==
  ASSUME NEW S, IsFiniteSet(S), S # {}, NEW g
  PROVE  Total(g, S) = g[One(S)] + Total(g, S \ {One(S)})
<1> DEFINE T == S \ {One(S)}
<1>1. PICK f : SumsUp(f, g, S) /\ f[S] = Total(g, S)
  BY TotalSumsUp
<1>2. IsFiniteSet(T) /\ T \in SUBSET S
  BY FS_Subset
<1>3. PICK h : SumsUp(h, g, T) /\ h[T] = Total(g, T)
  BY <1>2, TotalSumsUp
<1>4. f[T] = h[T]
  <2> DEFINE r == [v \in SUBSET T |-> f[v]]
  <2>1. r[T] = f[T]
    OBVIOUS
  <2> HIDE DEF T
  <2>2. SumsUp(r, g, T)
    BY <1>1, <1>2, SumOfSubset
  <2> HIDE DEF r
  <2> QED
    BY <1>2, <1>3, <2>1, <2>2, SumIsUnique
<1>5. f[S] = g[One(S)] + f[S \ {One(S)}]
  BY <1>1 DEF SumsUp
<1> QED
  BY <1>1, <1>3, <1>4, <1>5

\* A sum of integers is one.
LEMMA TotalIsInt ==
  ASSUME NEW S, IsFiniteSet(S), NEW g, \A x \in S : g[x] \in Int
  PROVE  Total(g, S) \in Int
<1> DEFINE Good == {s \in SUBSET S : Total(g, s) \in Int}
<1>1. {} \in Good
  BY TotalOfNone
<1>2. ASSUME NEW s \in SUBSET S, s # {}, \A x \in s : s \ {x} \in Good
      PROVE  s \in Good
  <2>1. One(s) \in s /\ IsFiniteSet(s)
    BY <1>2, FS_Subset DEF One
  <2>2. Total(g, s) = g[One(s)] + Total(g, s \ {One(s)})
    BY <1>2, <2>1, TotalStep
  <2> QED
    BY <1>2, <2>1, <2>2
<1>3. SUBSET S \subseteq Good
  <2> HIDE DEF Good
  <2> QED
    BY <1>1, <1>2, SubsetInduction
<1> QED
  BY <1>3

\* Any element may be taken out first.
LEMMA TotalTakeOut ==
  ASSUME NEW S, IsFiniteSet(S), NEW g, \A x \in S : g[x] \in Int, NEW y \in S
  PROVE  Total(g, S) = g[y] + Total(g, S \ {y})
<1> DEFINE Good == {s \in SUBSET S :
                      \A x \in s : Total(g, s) = g[x] + Total(g, s \ {x})}
<1>1. {} \in Good
  OBVIOUS
<1>2. ASSUME NEW s \in SUBSET S, s # {}, \A x \in s : s \ {x} \in Good,
             NEW x \in s
      PROVE  Total(g, s) = g[x] + Total(g, s \ {x})
  <2>0. \A t \in SUBSET s : IsFiniteSet(t)
    BY FS_Subset
  <2>1. PICK z \in s : Total(g, s) = g[z] + Total(g, s \ {z})
    BY <1>2, <2>0, TotalStep DEF One
  <2>2. CASE x = z
    BY <2>1, <2>2
  <2>3. CASE x # z
    <3>1. /\ Total(g, s \ {z}) = g[x] + Total(g, (s \ {z}) \ {x})
          /\ Total(g, s \ {x}) = g[z] + Total(g, (s \ {x}) \ {z})
      <4>1. s \ {z} \in Good /\ s \ {x} \in Good
        BY <1>2
      <4>2. x \in s \ {z} /\ z \in s \ {x}
        BY <2>3
      <4> QED
        BY <4>1, <4>2
    <3>2. (s \ {x}) \ {z} = (s \ {z}) \ {x}
      OBVIOUS
    <3>3. PICK u : u = (s \ {z}) \ {x}
      OBVIOUS
    <3>4. IsFiniteSet(u) /\ \A v \in u : g[v] \in Int
      BY <2>0, <3>3
    <3>5. Total(g, u) \in Int
      BY <3>4, TotalIsInt
    <3>6. g[x] \in Int /\ g[z] \in Int
      OBVIOUS
    <3>7. /\ Total(g, s \ {z}) = g[x] + Total(g, u)
          /\ Total(g, s \ {x}) = g[z] + Total(g, u)
      BY <3>1, <3>2, <3>3
    <3> QED
      BY <2>1, <3>5, <3>6, <3>7
  <2> QED
    BY <2>2, <2>3
<1>3. SUBSET S \subseteq Good
  <2>1. ASSUME NEW s \in SUBSET S, s # {}, \A x \in s : s \ {x} \in Good
        PROVE  s \in Good
    BY <1>2, <2>1
  <2> HIDE DEF Good
  <2> QED
    BY <1>1, <2>1, SubsetInduction
<1>4. S \in SUBSET S
  OBVIOUS
<1> QED
  BY <1>3, <1>4

\* An element that is added adds to the sum.
LEMMA TotalPutIn ==
  ASSUME NEW S, IsFiniteSet(S), NEW y, y \notin S,
         NEW g, \A x \in S \cup {y} : g[x] \in Int
  PROVE  Total(g, S \cup {y}) = Total(g, S) + g[y]
<1>1. IsFiniteSet(S \cup {y}) /\ y \in S \cup {y} /\ (S \cup {y}) \ {y} = S
  BY FS_AddElement
<1>2. PICK T : T = S \cup {y}
  OBVIOUS
<1>3. Total(g, T) = g[y] + Total(g, T \ {y})
  BY <1>1, <1>2, TotalTakeOut
<1>4. Total(g, T \ {y}) = Total(g, S)
  BY <1>1, <1>2
<1>5. Total(g, S) \in Int /\ g[y] \in Int
  BY TotalIsInt
<1> QED
  BY <1>2, <1>3, <1>4, <1>5

\* The sum of one number is the number.
LEMMA TotalOfOne ==
  ASSUME NEW y, NEW g, g[y] \in Int
  PROVE  Total(g, {y}) = g[y]
<1>1. IsFiniteSet({}) /\ y \notin {} /\ {} \cup {y} = {y}
  BY FS_EmptySet
<1>2. \A x \in {} \cup {y} : g[x] \in Int
  OBVIOUS
<1>3. Total(g, {} \cup {y}) = Total(g, {}) + g[y]
  BY <1>1, <1>2, TotalPutIn
<1> QED
  BY <1>1, <1>3, TotalOfNone

\* Two sums of integers whose sets have nothing in common.
LEMMA TotalOfUnion ==
  ASSUME NEW S, IsFiniteSet(S), NEW T, IsFiniteSet(T), S \cap T = {},
         NEW g, \A x \in S \cup T : g[x] \in Int
  PROVE  Total(g, S \cup T) = Total(g, S) + Total(g, T)
<1> DEFINE Good == {t \in SUBSET T : Total(g, S \cup t) = Total(g, S) + Total(g, t)}
<1>0. Total(g, S) \in Int
  BY TotalIsInt
<1>1. {} \in Good
  <2>1. S \cup {} = S
    OBVIOUS
  <2> QED
    BY <1>0, <2>1, TotalOfNone
<1>2. ASSUME NEW t \in SUBSET T, t # {}, \A x \in t : t \ {x} \in Good
      PROVE  t \in Good
  <2>1. PICK x \in t : TRUE
    BY <1>2
  <2>2. PICK u : u = t \ {x}
    OBVIOUS
  <2>3. PICK v : v = S \cup u
    OBVIOUS
  <2>4. x \notin u /\ x \notin v /\ t = u \cup {x} /\ S \cup t = v \cup {x}
    BY <2>1, <2>2, <2>3
  <2>5. IsFiniteSet(u) /\ IsFiniteSet(v)
    BY <2>2, <2>3, FS_Subset, FS_Union
  <2>6. Total(g, v) = Total(g, S) + Total(g, u)
    BY <1>2, <2>1, <2>2, <2>3
  <2>7. (\A y \in v \cup {x} : g[y] \in Int) /\ (\A y \in u \cup {x} : g[y] \in Int)
    BY <2>1, <2>2, <2>3
  <2>8. Total(g, v \cup {x}) = Total(g, v) + g[x]
    BY <2>4, <2>5, <2>7, TotalPutIn
  <2>9. Total(g, u \cup {x}) = Total(g, u) + g[x]
    BY <2>4, <2>5, <2>7, TotalPutIn
  <2>10. Total(g, u) \in Int /\ g[x] \in Int
    BY <2>5, <2>7, TotalIsInt
  <2>11. Total(g, S \cup t) = Total(g, v) + g[x] /\ Total(g, t) = Total(g, u) + g[x]
    BY <2>4, <2>8, <2>9
  <2> QED
    BY <1>0, <2>6, <2>10, <2>11
<1>3. SUBSET T \subseteq Good
  <2> HIDE DEF Good
  <2> QED
    BY <1>1, <1>2, SubsetInduction
<1>4. T \in SUBSET T
  OBVIOUS
<1> QED
  BY <1>3, <1>4

\* A sum of natural numbers is one.
LEMMA TotalIsNat ==
  ASSUME NEW S, IsFiniteSet(S), NEW g, \A x \in S : g[x] \in Nat
  PROVE  Total(g, S) \in Nat
<1> DEFINE Good == {s \in SUBSET S : Total(g, s) \in Nat}
<1>1. {} \in Good
  BY TotalOfNone
<1>2. ASSUME NEW s \in SUBSET S, s # {}, \A x \in s : s \ {x} \in Good
      PROVE  s \in Good
  <2>1. One(s) \in s /\ IsFiniteSet(s)
    BY <1>2, FS_Subset DEF One
  <2>2. Total(g, s) = g[One(s)] + Total(g, s \ {One(s)})
    BY <1>2, <2>1, TotalStep
  <2> QED
    BY <1>2, <2>1, <2>2
<1>3. SUBSET S \subseteq Good
  <2> HIDE DEF Good
  <2> QED
    BY <1>1, <1>2, SubsetInduction
<1> QED
  BY <1>3

\* If every element has a key, the sums of the parts, one of each key, add up
\* to the sum of the whole.
LEMMA TotalOfParts ==
  ASSUME NEW S, IsFiniteSet(S), NEW g, \A x \in S : g[x] \in Int, NEW key,
         NEW K, IsFiniteSet(K), \A x \in S : key[x] \in K, NEW part,
         \A k \in K : \A x : x \in part[k] <=> x \in S /\ key[x] = k,
         NEW h, \A k \in K : h[k] = Total(g, part[k])
  PROVE  Total(h, K) = Total(g, S)
<1> DEFINE Part(k) == {x \in S : key[x] \in k}
           Good == {k \in SUBSET K : Total(h, k) = Total(g, Part(k))}
<1>0. /\ \A k : IsFiniteSet(Part(k))
      /\ \A k \in K : IsFiniteSet(part[k])
  <2>1. \A k \in K : part[k] \subseteq S
    OBVIOUS
  <2> QED
    BY <2>1, FS_Subset
<1>1. {} \in Good
  <2>1. Part({}) = {}
    OBVIOUS
  <2> QED
    BY <2>1, TotalOfNone
<1>t. \A k \in K : h[k] \in Int
  <2> TAKE k \in K
  <2>1. PICK T : T = part[k]
    OBVIOUS
  <2>2. Total(g, T) \in Int
    BY <1>0, <2>1, TotalIsInt
  <2> QED
    BY <2>1, <2>2
<1>2. ASSUME NEW k \in SUBSET K, k # {}, \A y \in k : k \ {y} \in Good
      PROVE  k \in Good
  <2>1. PICK y \in k : TRUE
    BY <1>2
  <2>2. PICK T : T = part[y]
    OBVIOUS
  <2>3. PICK U : U = Part(k \ {y})
    OBVIOUS
  <2>4. Part(k) = U \cup T /\ U \cap T = {} /\ IsFiniteSet(T) /\ IsFiniteSet(U)
    BY <1>0, <2>1, <2>2, <2>3
  <2>5. \A x \in U \cup T : g[x] \in Int
    BY <2>2, <2>3
  <2>6. Total(g, U \cup T) = Total(g, U) + Total(g, T)
    BY <2>4, <2>5, TotalOfUnion
  <2>7. IsFiniteSet(k)
    BY FS_Subset
  <2>8. Total(h, k) = h[y] + Total(h, k \ {y})
    BY <1>t, <2>1, <2>7, TotalTakeOut
  <2>9. h[y] = Total(g, T) /\ Total(h, k \ {y}) = Total(g, U)
    BY <1>2, <2>1, <2>2, <2>3
  <2>10. Total(g, T) \in Int /\ Total(g, U) \in Int
    BY <2>4, <2>5, TotalIsInt
  <2>11. Total(h, k) = Total(g, U \cup T)
    BY <2>6, <2>8, <2>9, <2>10
  <2> QED
    BY <2>4, <2>11
<1>3. SUBSET K \subseteq Good
  <2> HIDE DEF Good
  <2> QED
    BY <1>1, <1>2, SubsetInduction
<1>4. K \in Good
  <2> HIDE DEF Good
  <2> QED
    BY <1>3
<1>5. Part(K) = S
  OBVIOUS
<1> QED
  BY <1>4, <1>5

\* The sum of differences is the difference of the sums.
LEMMA TotalOfDifferences ==
  ASSUME NEW S, IsFiniteSet(S), NEW g, NEW h, NEW d,
         \A x \in S : g[x] \in Int /\ h[x] \in Int /\ d[x] = g[x] - h[x]
  PROVE  Total(d, S) = Total(g, S) - Total(h, S)
<1> DEFINE Good == {s \in SUBSET S : Total(d, s) = Total(g, s) - Total(h, s)}
<1>1. {} \in Good
  BY TotalOfNone
<1>2. ASSUME NEW s \in SUBSET S, s # {}, \A x \in s : s \ {x} \in Good
      PROVE  s \in Good
  <2>1. PICK x \in s : x = One(s) /\ IsFiniteSet(s)
    BY <1>2, FS_Subset DEF One
  <2>2. PICK u : u = s \ {x} /\ IsFiniteSet(u)
    BY <2>1, FS_Subset
  <2>3. /\ Total(d, s) = d[x] + Total(d, u)
        /\ Total(g, s) = g[x] + Total(g, u)
        /\ Total(h, s) = h[x] + Total(h, u)
    BY <1>2, <2>1, <2>2, TotalStep
  <2>4. Total(d, u) = Total(g, u) - Total(h, u)
    BY <1>2, <2>1, <2>2
  <2>5. Total(g, u) \in Int /\ Total(h, u) \in Int
    BY <2>2, TotalIsInt
  <2>6. g[x] \in Int /\ h[x] \in Int /\ d[x] = g[x] - h[x]
    OBVIOUS
  <2> QED
    BY <2>3, <2>4, <2>5, <2>6
<1>3. SUBSET S \subseteq Good
  <2> HIDE DEF Good
  <2> QED
    BY <1>1, <1>2, SubsetInduction
<1>4. S \in SUBSET S
  OBVIOUS
<1> QED
  BY <1>3, <1>4

\* Elements that count 0 may be left out, and the others count what they count.
LEMMA TotalOfSome ==
  ASSUME NEW S, IsFiniteSet(S), NEW g, NEW T \in SUBSET S, NEW h,
         \A x \in T : g[x] \in Int /\ h[x] = g[x],
         \A x \in S \ T : h[x] = 0
  PROVE  Total(h, S) = Total(g, T)
<1> DEFINE Good == {s \in SUBSET S : Total(h, s) = Total(g, s \cap T)}
<1>1. {} \in Good
  <2>1. {} \cap T = {}
    OBVIOUS
  <2> QED
    BY <2>1, TotalOfNone
<1>2. ASSUME NEW s \in SUBSET S, s # {}, \A x \in s : s \ {x} \in Good
      PROVE  s \in Good
  <2>1. PICK x \in s : x = One(s) /\ IsFiniteSet(s)
    BY <1>2, FS_Subset DEF One
  <2>2. PICK u : u = s \ {x}
    OBVIOUS
  <2>3. Total(h, s) = h[x] + Total(h, u)
    BY <1>2, <2>1, <2>2, TotalStep
  <2>4. PICK v : v = u \cap T /\ IsFiniteSet(v)
    BY <2>1, <2>2, FS_Subset
  <2>5. Total(h, u) = Total(g, v)
    BY <1>2, <2>1, <2>2, <2>4
  <2>6. Total(g, v) \in Int
    BY <2>4, TotalIsInt
  <2>7. CASE x \in T
    <3>1. x \notin v /\ s \cap T = v \cup {x} /\ \A y \in v \cup {x} : g[y] \in Int
      BY <2>2, <2>4, <2>7
    <3>2. Total(g, v \cup {x}) = Total(g, v) + g[x]
      BY <2>4, <3>1, TotalPutIn
    <3>3. h[x] = g[x] /\ g[x] \in Int
      BY <2>7
    <3>4. Total(h, s) = Total(g, v \cup {x})
      BY <2>3, <2>5, <2>6, <3>2, <3>3
    <3> QED
      BY <3>1, <3>4
  <2>8. CASE x \notin T
    <3>1. s \cap T = v
      BY <2>2, <2>4, <2>8
    <3>2. Total(h, s) = Total(g, v)
      BY <2>3, <2>5, <2>6, <2>8
    <3> QED
      BY <3>1, <3>2
  <2> QED
    BY <2>7, <2>8
<1>3. SUBSET S \subseteq Good
  <2> HIDE DEF Good
  <2> QED
    BY <1>1, <1>2, SubsetInduction
<1>4. S \cap T = T /\ S \in SUBSET S
  OBVIOUS
<1> QED
  BY <1>3, <1>4
\* The values a function takes on a finite set are finitely many.
LEMMA ImageIsFinite ==
  ASSUME NEW S, IsFiniteSet(S), NEW f
  PROVE  IsFiniteSet({f[x] : x \in S})
<1> DEFINE Good == {s \in SUBSET S : IsFiniteSet({f[x] : x \in s})}
<1>1. {} \in Good
  <2>1. {f[x] : x \in {}} = {}
    OBVIOUS
  <2> QED
    BY <2>1, FS_EmptySet
<1>2. ASSUME NEW s \in SUBSET S, s # {}, \A x \in s : s \ {x} \in Good
      PROVE  s \in Good
  <2>1. PICK x \in s : TRUE
    BY <1>2
  <2>2. PICK T : T = {f[y] : y \in s \ {x}}
    OBVIOUS
  <2>3. {f[y] : y \in s} = T \cup {f[x]}
    BY <2>2
  <2>4. s \ {x} \in Good
    BY <1>2
  <2>5. IsFiniteSet(T)
    BY <2>2, <2>4
  <2>6. IsFiniteSet(T \cup {f[x]})
    BY <2>5, FS_AddElement
  <2>7. IsFiniteSet({f[y] : y \in s})
    BY <2>3, <2>6
  <2> QED
    BY <2>7
<1>3. SUBSET S \subseteq Good
  <2> HIDE DEF Good
  <2> QED
    BY <1>1, <1>2, SubsetInduction
<1>4. S \in SUBSET S
  OBVIOUS
<1> QED
  BY <1>3, <1>4

\* A finite set of natural numbers has a greatest, which Max is.
LEMMA MaxOfNats ==
  ASSUME NEW S \in SUBSET Nat, IsFiniteSet(S), S # {}
  PROVE  Max(S) \in S /\ \A x \in S : x <= Max(S)
<1> DEFINE Good == {s \in SUBSET S : s # {} => \E m \in s : \A x \in s : x <= m}
<1>1. {} \in Good
  OBVIOUS
<1>2. ASSUME NEW s \in SUBSET S, s # {}, \A x \in s : s \ {x} \in Good
      PROVE  s \in Good
  <2>1. PICK y \in s : TRUE
    BY <1>2
  <2>2. CASE s \ {y} = {}
    <3>1. \A x \in s : x <= y
      BY <2>2
    <3> QED
      BY <3>1
  <2>3. CASE s \ {y} # {}
    <3>1. PICK m \in s \ {y} : \A x \in s \ {y} : x <= m
      BY <1>2, <2>3
    <3>2. CASE m <= y
      <4>1. \A x \in s : x <= y
        BY <3>1, <3>2
      <4> QED
        BY <4>1
    <3>3. CASE y <= m
      <4>1. \A x \in s : x <= m
        BY <3>1, <3>3
      <4> QED
        BY <4>1
    <3> QED
      BY <3>1, <3>2, <3>3
  <2> QED
    BY <2>2, <2>3
<1>3. SUBSET S \subseteq Good
  <2> HIDE DEF Good
  <2> QED
    BY <1>1, <1>2, SubsetInduction
<1>4. S \in Good
  <2> HIDE DEF Good
  <2> QED
    BY <1>3
<1>5. \E m \in S : \A x \in S : x <= m
  BY <1>4
<1>6. \E m \in S : \A x \in S : m >= x
  BY <1>5
<1> QED
  BY <1>6 DEF Max
=============================================================================
