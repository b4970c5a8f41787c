------------------------ MODULE CheckoutEventsProofs ------------------------
(***************************************************************************)
(* The checkout service implements SaleEvents: whatever requests           *)
(* interleave, what its outbox holds and when it came to hold it is a      *)
(* behaviour of the specification the consumers are modelled on.           *)
(*                                                                         *)
(* A statement that commits nothing is a stutter.  A statement that        *)
(* commits is the action of SaleEvents with the same name.  This takes     *)
(* PendingInv and, where operators keep to their sessions, OwnInv of       *)
(* CheckoutProofs; and that there is room in the outbox for the events of  *)
(* the requests in flight.                                                 *)
(***************************************************************************)
EXTENDS CheckoutEvents, CheckoutProofs, FiniteSetTheorems

-----------------------------------------------------------------------------
(* Ordinals, of any sequence of events.                                    *)

\* The events of one name on one aggregate among the first n.
Occurrences(q, n, name, a) ==
  {j \in 1..n : q[j].name = name /\ q[j].aggregate = a}

Earlier(q, name, a) == Cardinality(Occurrences(q, Len(q), name, a))

OrdinalIn(q, i) == Cardinality(Occurrences(q, i, q[i].name, q[i].aggregate))

\* What SaleEvents knows of event e.
SessionIn(e)  == IF e.name = "RegisterClosed" THEN e.aggregate ELSE e.state.session
PreviousIn(e) == IF e.name = "RegisterClosed" THEN "OPEN" ELSE e.previousStatus
Note(e, n) == [name |-> e.name, aggregate |-> e.aggregate, id |-> n,
               session |-> SessionIn(e), previous |-> PreviousIn(e)]

StoredIn(q) == {Note(q[i], OrdinalIn(q, i)) : i \in DOMAIN q}

\* What SaleEvents calls stored.
LEMMA StoredIsOfOutbox ==
  {Announced(i) : i \in DOMAIN outbox} = StoredIn(outbox)
  BY DEF Announced, Ordinal, StoredIn, Note, SessionIn, PreviousIn, OrdinalIn,
         Occurrences

\* The instance counts as this module does.
LEMMA CountsAgree ==
  ASSUME NEW S
  PROVE  Events!Cardinality(S) = Cardinality(S)
  BY Zenon DEF Cardinality, Events!Cardinality

LEMMA OccurrencesAreFinite ==
  ASSUME NEW q, NEW n \in Nat, NEW name, NEW a
  PROVE  /\ IsFiniteSet(Occurrences(q, n, name, a))
         /\ Cardinality(Occurrences(q, n, name, a)) \in Nat
         /\ Cardinality(Occurrences(q, n, name, a)) <= n
  <1>1. IsFiniteSet(1..n) /\ Cardinality(1..n) = n
    BY FS_Interval
  <1>2. Occurrences(q, n, name, a) \in SUBSET (1..n)
    BY DEF Occurrences
  <1> QED
    BY <1>1, <1>2, FS_Subset, FS_CardinalityType

\* Of two events of one name on one aggregate the later has the larger ordinal.
LEMMA OrdinalsGrow ==
  ASSUME NEW q, NEW j \in Nat, NEW i \in 1..j, i # j,
         q[i].name = q[j].name, q[i].aggregate = q[j].aggregate
  PROVE  OrdinalIn(q, i) < OrdinalIn(q, j)
  <1> DEFINE A == Occurrences(q, i, q[j].name, q[j].aggregate)
             B == Occurrences(q, j, q[j].name, q[j].aggregate)
  <1>1. A \in SUBSET B /\ j \in B /\ j \notin A
    BY DEF Occurrences
  <1>2. /\ IsFiniteSet(B) /\ Cardinality(B) \in Nat
        /\ Cardinality(A) \in Nat
    BY OccurrencesAreFinite
  <1>3. Cardinality(A) <= Cardinality(B) /\ Cardinality(A) # Cardinality(B)
    BY <1>1, <1>2, FS_Subset
  <1>4. OrdinalIn(q, i) = Cardinality(A) /\ OrdinalIn(q, j) = Cardinality(B)
    BY DEF OrdinalIn
  <1> QED
    BY <1>2, <1>3, <1>4

\* No two events are noted alike, so the notes are as many as the events.
LEMMA NotesAreAsMany ==
  ASSUME NEW E, NEW q \in Seq(E), NEW name, NEW a
  PROVE  Cardinality({f \in StoredIn(q) : f.name = name /\ f.aggregate = a})
           = Earlier(q, name, a)
  <1> DEFINE On  == {f \in StoredIn(q) : f.name = name /\ f.aggregate = a}
             Occ == Occurrences(q, Len(q), name, a)
             g   == [i \in Occ |-> Note(q[i], OrdinalIn(q, i))]
  <1>1. Len(q) \in Nat /\ DOMAIN q = 1..Len(q)
    OBVIOUS
  <1>2. ASSUME NEW i \in Occ
        PROVE  g[i] \in On
    BY <1>1 DEF Occurrences, StoredIn, Note
  <1>3. ASSUME NEW f \in On
        PROVE  \E i \in Occ : g[i] = f
    <2>1. PICK i \in DOMAIN q : f = Note(q[i], OrdinalIn(q, i))
      BY DEF StoredIn
    <2>2. i \in Occ
      BY <1>1, <2>1 DEF Occurrences, Note
    <2> QED
      BY <2>1, <2>2
  <1>4. ASSUME NEW i \in Occ, NEW j \in Occ, g[i] = g[j]
        PROVE  i = j
    <2>1. OrdinalIn(q, i) = OrdinalIn(q, j)
      BY <1>4 DEF Note
    <2>2. /\ i \in Nat /\ j \in Nat /\ i >= 1 /\ j >= 1
          /\ q[i].name = q[j].name /\ q[i].aggregate = q[j].aggregate
      BY <1>1 DEF Occurrences
    <2>3. OrdinalIn(q, i) \in Nat
      BY <2>2, OccurrencesAreFinite DEF OrdinalIn
    <2>4. CASE i < j
      BY <2>1, <2>2, <2>3, <2>4, OrdinalsGrow
    <2>5. CASE j < i
      BY <2>1, <2>2, <2>3, <2>5, OrdinalsGrow
    <2> QED
      BY <2>2, <2>4, <2>5
  <1>5. g \in [Occ -> On]
    BY <1>2
  <1> HIDE DEF g, Occ, On
  <1>6. g \in Bijection(Occ, On)
    BY <1>3, <1>4, <1>5 DEF Bijection, Injection, IsInjective, Surjection
  <1>7. ExistsBijection(Occ, On) /\ IsFiniteSet(Occ)
    BY <1>1, <1>6, OccurrencesAreFinite DEF ExistsBijection, Occ
  <1>8. Cardinality(On) = Cardinality(Occ)
    BY <1>7, FS_Bijection
  <1> QED
    BY <1>8 DEF On, Occ, Earlier

\* An event that is appended leaves the notes of the others as they are.
LEMMA AppendNotes ==
  ASSUME NEW E, NEW q \in Seq(E), NEW e \in E
  PROVE  StoredIn(Append(q, e))
           = StoredIn(q) \cup {Note(e, Earlier(q, e.name, e.aggregate) + 1)}
  <1>1. PICK p, n : p = Append(q, e) /\ n = Len(q)
    OBVIOUS
  <1>2. /\ n \in Nat /\ DOMAIN q = 1..n /\ DOMAIN p = 1..(n + 1)
        /\ p[n + 1] = e /\ \A i \in 1..n : p[i] = q[i]
    BY <1>1
  <1>3. ASSUME NEW i \in 1..n
        PROVE  Note(p[i], OrdinalIn(p, i)) = Note(q[i], OrdinalIn(q, i))
    <2>1. \A j \in 1..i : p[j] = q[j]
      BY <1>2
    <2>2. Occurrences(p, i, q[i].name, q[i].aggregate)
            = Occurrences(q, i, q[i].name, q[i].aggregate)
      BY <2>1 DEF Occurrences
    <2> QED
      BY <1>2, <2>2 DEF OrdinalIn
  <1>4. OrdinalIn(p, n + 1) = Earlier(q, e.name, e.aggregate) + 1
    <2>1. Occurrences(p, n + 1, e.name, e.aggregate)
            = Occurrences(q, n, e.name, e.aggregate) \cup {n + 1}
      BY <1>2 DEF Occurrences
    <2>2. n + 1 \notin Occurrences(q, n, e.name, e.aggregate)
      BY <1>2 DEF Occurrences
    <2>3. IsFiniteSet(Occurrences(q, n, e.name, e.aggregate))
      BY <1>2, OccurrencesAreFinite
    <2> QED
      BY <1>1, <1>2, <2>1, <2>2, <2>3, FS_AddElement DEF OrdinalIn, Earlier
  <1>5. 1..(n + 1) = (1..n) \cup {n + 1}
    BY <1>2
  <1> QED
    BY <1>1, <1>2, <1>3, <1>4, <1>5 DEF StoredIn

-----------------------------------------------------------------------------
(* The bound on the outbox: there is room for the events of the requests   *)
(* in flight.                                                              *)

\* The requests that may add an event find room for it.
InFlight == {o \in Operators : request[o].op \in Emitters}
Room     == Len(outbox) + Cardinality(InFlight) <= MaxEvents


\* The requests in flight that add an event are finitely many.
LEMMA InFlightIsFinite ==
  ASSUME CheckoutEventsConstants
  PROVE  /\ IsFiniteSet(InFlight) /\ Cardinality(InFlight) \in Nat
         /\ \A o : /\ IsFiniteSet(InFlight \cup {o}) /\ IsFiniteSet(InFlight \ {o})
                   /\ Cardinality(InFlight \cup {o}) \in Nat
                   /\ Cardinality(InFlight \ {o}) \in Nat
                   /\ Cardinality(InFlight \cup {o}) <= Cardinality(InFlight) + 1
                   /\ Cardinality(InFlight \ {o}) <= Cardinality(InFlight)
                   /\ o \in InFlight =>
                        Cardinality(InFlight \ {o}) = Cardinality(InFlight) - 1
  <1>1. IsFiniteSet(InFlight) /\ Cardinality(InFlight) \in Nat
    <2>1. InFlight \in SUBSET Operators
      BY DEF InFlight
    <2> QED
      BY <2>1, FS_Subset, FS_CardinalityType DEF CheckoutEventsConstants
  <1>2. ASSUME NEW o
        PROVE  /\ IsFiniteSet(InFlight \cup {o})
               /\ Cardinality(InFlight \cup {o}) \in Nat
               /\ Cardinality(InFlight \cup {o}) <= Cardinality(InFlight) + 1
    <2>1. PICK S : S = InFlight /\ IsFiniteSet(S) /\ Cardinality(S) \in Nat
      BY <1>1
    <2>2. /\ IsFiniteSet(S \cup {o})
          /\ Cardinality(S \cup {o}) = IF o \in S THEN Cardinality(S) ELSE Cardinality(S) + 1
      BY <2>1, FS_AddElement
    <2> QED
      BY <2>1, <2>2
  <1>3. ASSUME NEW o
        PROVE  /\ IsFiniteSet(InFlight \ {o})
               /\ Cardinality(InFlight \ {o}) \in Nat
               /\ Cardinality(InFlight \ {o}) <= Cardinality(InFlight)
               /\ o \in InFlight =>
                    Cardinality(InFlight \ {o}) = Cardinality(InFlight) - 1
    <2>1. PICK S : S = InFlight /\ IsFiniteSet(S) /\ Cardinality(S) \in Nat
      BY <1>1
    <2>2. /\ IsFiniteSet(S \ {o})
          /\ Cardinality(S \ {o}) = IF o \in S THEN Cardinality(S) - 1 ELSE Cardinality(S)
      BY <2>1, FS_RemoveElement
    <2>3. Cardinality(S \ {o}) \in Nat
      BY <2>2, FS_CardinalityType
    <2> QED
      BY <2>1, <2>2, <2>3
  <1> QED
    BY <1>1, <1>2, <1>3


\* A step that leaves the outbox as it is.
LEMMA RoomStep ==
  ASSUME CheckoutConstants, CheckoutEventsConstants, PendingInv, Room,
         NEW o \in Operators, NEW v, Goto(o, v), UNCHANGED outbox,
         v.op \in Emitters => request[o].op \in Emitters \/ RoomForEvent
  PROVE  Room'
  <1>1. request'[o] = v /\ \A c \in Operators \ {o} : request'[c] = request[c]
    BY DEF Goto, PendingInv, Inv, TypeOK
  <1>2. Len(outbox) \in Nat /\ MaxEvents \in Nat
    BY DEF PendingInv, Inv, TypeOK, CheckoutConstants
  <1>3. CASE v.op \in Emitters /\ request[o].op \notin Emitters
    <2>1. InFlight' = InFlight \cup {o}
      BY <1>1, <1>3 DEF InFlight
    <2>2. Len(outbox) + Cardinality(InFlight) < MaxEvents
      BY <1>3 DEF RoomForEvent, InFlight
    <2>3. /\ Cardinality(InFlight \cup {o}) <= Cardinality(InFlight) + 1
          /\ Cardinality(InFlight \cup {o}) \in Nat /\ Cardinality(InFlight) \in Nat
      BY InFlightIsFinite
    <2> QED
      BY <1>2, <2>1, <2>2, <2>3 DEF Room
  <1>4. CASE ~(v.op \in Emitters /\ request[o].op \notin Emitters)
    <2>1. InFlight' \in {InFlight, InFlight \ {o}}
      BY <1>1, <1>4 DEF InFlight
    <2>2. /\ Cardinality(InFlight \ {o}) <= Cardinality(InFlight)
          /\ Cardinality(InFlight \ {o}) \in Nat /\ Cardinality(InFlight) \in Nat
      BY InFlightIsFinite
    <2>3. Cardinality(InFlight') \in Nat /\ Cardinality(InFlight') <= Cardinality(InFlight)
      BY <2>1, <2>2
    <2> QED
      BY <1>2, <2>2, <2>3 DEF Room
  <1> QED
    BY <1>3, <1>4

\* A request finds room before it begins and gives it up when it ends.
LEMMA RoomIsKept ==
  ASSUME CheckoutConstants, CheckoutEventsConstants, PendingInv, Room, [Next]_vars
  PROVE  Room'
  <1>1. ASSUME NEW o \in Operators,
               \/ BeginOpenSession(o) \/ BeginStartSale(o)
               \/ BeginCloseSession(o) \/ BeginOnSale(o)
        PROVE  Room'
    <2>1. ASSUME NEW op, NEW s, NEW x, NEW pos, NEW pc,
                 Begin(o, op, s, x, pos, pc), op \in Emitters => RoomForEvent
          PROVE  Room'
      <3> DEFINE v == [Idle EXCEPT !.pc = pc, !.op = op, !.session = s, !.sale = x,
                                   !.pos = pos]
      <3>1. Goto(o, v) /\ UNCHANGED outbox /\ v.op = op
        BY <2>1 DEF Begin, Idle
      <3> HIDE DEF v
      <3> QED
        BY <2>1, <3>1, RoomStep
    <2>2. CASE BeginOpenSession(o)
      BY <2>1, <2>2 DEF BeginOpenSession, Emitters
    <2>3. CASE BeginStartSale(o)
      BY <2>1, <2>3 DEF BeginStartSale, Emitters
    <2>4. CASE BeginCloseSession(o)
      BY <2>1, <2>4 DEF BeginCloseSession
    <2>5. CASE BeginOnSale(o)
      BY <2>1, <2>5 DEF BeginOnSale
    <2> QED
      BY <1>1, <2>2, <2>3, <2>4, <2>5
  <1>2. ASSUME NEW o \in Operators, Read(o)
        PROVE  Room'
    <2>1. PICK v : Goto(o, v) /\ (v = Idle \/ v.op = request[o].op)
      BY <1>2, ReadKeepsCurrent
    <2>2. UNCHANGED outbox
      BY <1>2, ReadKeepsCurrent
    <2>3. v.op \in Emitters => request[o].op \in Emitters
      BY <2>1 DEF Idle, Emitters
    <2> QED
      BY <2>1, <2>2, <2>3, RoomStep
  <1>3. ASSUME NEW o \in Operators, Rollback(o)
        PROVE  Room'
    <2>1. Goto(o, Idle) /\ UNCHANGED outbox /\ Idle.op \notin Emitters
      BY <1>3 DEF Rollback, Finish, Idle, Emitters
    <2> QED
      BY <2>1, RoomStep
  <1>4. ASSUME NEW o \in Operators, Write(o)
        PROVE  Room'
    <2>1. /\ Len(outbox) \in Nat /\ MaxEvents \in Nat
          /\ outbox \in Seq(SaleEvent \cup SessionEvent)
          /\ Len(outbox) + Cardinality(InFlight) <= MaxEvents
      BY DEF PendingInv, Inv, TypeOK, CheckoutConstants, Room
    <2>2. Finish(o)
      BY <1>4 DEF Write, InsertSession, UpdateSession, InsertSale, UpdateSale
    <2>3. InFlight' = InFlight \ {o}
      BY <2>2 DEF InFlight, Idle, Emitters, Finish, Goto, PendingInv, Inv, TypeOK
    <2>4. /\ Cardinality(InFlight) \in Nat /\ Cardinality(InFlight \ {o}) \in Nat
          /\ Cardinality(InFlight \ {o}) <= Cardinality(InFlight)
          /\ request[o].op \in Emitters =>
               Cardinality(InFlight \ {o}) = Cardinality(InFlight) - 1
      BY InFlightIsFinite DEF InFlight
    <2>5. \/ outbox' = outbox
          \/ request[o].op \in Emitters /\ \E e : outbox' = Append(outbox, e)
      <3>1. CASE InsertSession(o) \/ InsertSale(o)
        BY <3>1 DEF InsertSession, InsertSale
      <3>2. CASE UpdateSession(o)
        BY <3>2 DEF UpdateSession, Emitters
      <3>3. CASE UpdateSale(o)
        BY <3>3, SaleEventIsAppended DEF PendingInv, Emitters
      <3> QED
        BY <1>4, <3>1, <3>2, <3>3 DEF Write
    <2>6. CASE outbox' = outbox
      BY <2>1, <2>3, <2>4, <2>6 DEF Room
    <2>7. CASE request[o].op \in Emitters /\ \E e : outbox' = Append(outbox, e)
      <3>1. Len(outbox') = Len(outbox) + 1
        BY <2>1, <2>7
      <3> QED
        BY <2>1, <2>3, <2>4, <2>7, <3>1 DEF Room
    <2> QED
      BY <2>5, <2>6, <2>7
  <1>5. CASE UNCHANGED vars
    BY <1>5 DEF vars, Room, InFlight
  <1> QED
    BY <1>1, <1>2, <1>3, <1>4, <1>5 DEF Next

EventsInv == PendingInv /\ Room

\* Nothing is stored and nothing is in flight at the start.
LEMMA EventsInvHoldsInitially ==
  ASSUME CheckoutConstants, Init
  PROVE  EventsInv
  <1>1. InFlight = {} /\ Len(outbox) = 0
    BY DEF Init, InFlight, Idle, Emitters
  <1>2. Cardinality(InFlight) = 0
    BY <1>1, FS_EmptySet
  <1>3. Room
    BY <1>1, <1>2 DEF Room, CheckoutConstants
  <1> QED
    BY <1>3, PendingInvInitially DEF EventsInv

LEMMA EventsInvIsInductive ==
  ASSUME SaleConstants, CheckoutConstants, CheckoutEventsConstants, EventsInv,
         [Next]_vars
  PROVE  EventsInv'
  BY PendingInvIsInductive, RoomIsKept DEF EventsInv

-----------------------------------------------------------------------------
(* Every step is a step of SaleEvents or a stutter.                        *)

\* An event that is appended is stored, as long as there is an id for it.
LEMMA AppendStores ==
  ASSUME TypeOK, NEW e \in SaleEvent \cup SessionEvent, outbox' = Append(outbox, e),
         Earlier(outbox, e.name, e.aggregate) + 1 <= MaxCopies
  PROVE  Events!Store(e.name, e.aggregate, SessionIn(e), PreviousIn(e))
  <1>1. outbox \in Seq(SaleEvent \cup SessionEvent)
    BY DEF TypeOK
  <1>2. PICK n : n = Earlier(outbox, e.name, e.aggregate)
    OBVIOUS
  <1>3. Events!Cardinality(Events!EventsOn(e.name, e.aggregate)) = n
    <2>1. Events!EventsOn(e.name, e.aggregate)
            = {f \in StoredIn(outbox) : f.name = e.name /\ f.aggregate = e.aggregate}
      BY StoredIsOfOutbox DEF Events!EventsOn
    <2> QED
      BY <1>1, <1>2, <2>1, NotesAreAsMany, CountsAgree
  <1>4. {Announced(i) : i \in DOMAIN outbox}'
          = {Announced(i) : i \in DOMAIN outbox} \cup {Note(e, n + 1)}
    <2>1. {Announced(i) : i \in DOMAIN outbox}' = StoredIn(outbox')
      BY DEF Announced, Ordinal, StoredIn, Note, SessionIn, PreviousIn,
             OrdinalIn, Occurrences
    <2>2. StoredIn(outbox') = StoredIn(outbox) \cup {Note(e, n + 1)}
      BY <1>1, <1>2, AppendNotes
    <2> QED
      BY <2>1, <2>2, StoredIsOfOutbox
  <1> QED
    BY <1>2, <1>3, <1>4 DEF Events!Store, Note

\* Without overlaps an event is the only one of its name and aggregate; with
\* them the bound on the outbox leaves an id.
LEMMA EventsHaveIds ==
  ASSUME CheckoutConstants, CheckoutEventsConstants, EventsInv,
         NEW o \in Operators, request[o].op \in Emitters,
         NEW e \in SaleEvent \cup SessionEvent, outbox' = Append(outbox, e),
         ~SharedSessions => EventsOnce({})'
  PROVE  Earlier(outbox, e.name, e.aggregate) + 1 <= MaxCopies
  <1>1. /\ outbox \in Seq(SaleEvent \cup SessionEvent)
        /\ Len(outbox) \in Nat /\ MaxEvents \in Nat /\ MaxCopies \in Nat /\ MaxCopies >= 1
    BY DEF EventsInv, PendingInv, Inv, TypeOK, CheckoutConstants, CheckoutEventsConstants
  <1>2. CASE SharedSessions
    <2>1. /\ Cardinality(InFlight) \in Nat /\ Cardinality(InFlight \ {o}) \in Nat
          /\ Cardinality(InFlight \ {o}) = Cardinality(InFlight) - 1
      BY InFlightIsFinite DEF InFlight
    <2>2. Len(outbox) + 1 <= MaxEvents
      BY <1>1, <2>1 DEF EventsInv, Room
    <2>3. /\ Earlier(outbox, e.name, e.aggregate) \in Nat
          /\ Earlier(outbox, e.name, e.aggregate) <= Len(outbox)
      BY <1>1, OccurrencesAreFinite DEF Earlier
    <2> QED
      BY <1>1, <1>2, <2>2, <2>3 DEF CheckoutEventsConstants
  <1>3. CASE ~SharedSessions
    <2>1. PICK n : n = Len(outbox)
      OBVIOUS
    <2>2. /\ n \in Nat /\ DOMAIN outbox' = 1..(n + 1) /\ outbox'[n + 1] = e
          /\ \A i \in 1..n : outbox'[i] = outbox[i]
      BY <1>1, <2>1
    <2>3. \A i, j \in DOMAIN outbox' :
            /\ outbox'[i].name = outbox'[j].name
            /\ outbox'[i].aggregate = outbox'[j].aggregate
            => i = j
      BY <1>3 DEF EventsOnce
    <2>4. Occurrences(outbox, n, e.name, e.aggregate) = {}
      <3> SUFFICES ASSUME NEW i \in Occurrences(outbox, n, e.name, e.aggregate)
                   PROVE  FALSE
        OBVIOUS
      <3>1. i \in 1..n /\ outbox'[i].name = e.name /\ outbox'[i].aggregate = e.aggregate
        BY <2>2 DEF Occurrences
      <3>2. i = n + 1
        BY <2>2, <2>3, <3>1
      <3> QED
        BY <2>2, <3>1, <3>2
    <2>5. Earlier(outbox, e.name, e.aggregate) = 0
      BY <2>1, <2>4, FS_EmptySet DEF Earlier
    <2> QED
      BY <1>1, <2>5
  <1> QED
    BY <1>2, <1>3

\* The state of SaleEvents, read from the tables.
LEMMA RowsAreSeen ==
  ASSUME TypeOK, SalesInSessions
  PROVE  /\ \A s \in Sessions : sessionTable[s].status = "NONE" <=> ~Existing(s)
         /\ \A x \in Sales : saleTable[x].status = "NONE" <=> ~Exists(x)
         /\ \A x \in Sales : Exists(x) => /\ saleTable[x].session \in Sessions
                                          /\ Existing(saleTable[x].session)
  <1>1. ASSUME NEW s \in Sessions
        PROVE  sessionTable[s].status = "NONE" <=> ~Existing(s)
    BY DEF TypeOK, PosSession, NoSession, Existing
  <1>2. ASSUME NEW x \in Sales
        PROVE  saleTable[x].status = "NONE" <=> ~Exists(x)
    BY DEF TypeOK, SaleRow, Status, NoSale, Exists
  <1>3. ASSUME NEW x \in Sales, Exists(x)
        PROVE  saleTable[x].session \in Sessions /\ Existing(saleTable[x].session)
    BY <1>3 DEF TypeOK, SaleRow, Exists, SalesInSessions
  <1> QED
    BY <1>1, <1>2, <1>3

\* SELECT and rolled back requests change nothing a consumer can see.
LEMMA NothingSeen ==
  ASSUME UNCHANGED <<sessionTable, saleTable, outbox>>
  PROVE  UNCHANGED Events!checkoutVars
  BY DEF Events!checkoutVars, Announced, Ordinal

LEMMA OpeningIsSeen ==
  ASSUME EventsInv, NEW o \in Operators, InsertSession(o)
  PROVE  [Events!CheckoutNext]_(Events!checkoutVars)
  <1>1. PICK req : req = request[o]
    OBVIOUS
  <1>2. /\ req.session \in Sessions /\ req.pos.status = "OPEN"
        /\ ~Existing(req.session) /\ TypeOK /\ SalesInSessions
    BY <1>1, RequestInProgress
       DEF EventsInv, PendingInv, Inv, RequestsPending, Pending, InsertSession, At, Fits
  <1>3. UNCHANGED <<saleTable, outbox>>
    BY DEF InsertSession
  <1>4. CASE UNCHANGED sessionTable
    BY <1>3, <1>4, NothingSeen
  <1>5. CASE sessionTable' = [sessionTable EXCEPT ![req.session] = req.pos]
    <2>1. sessionTable[req.session].status = "NONE"
      BY <1>2, RowsAreSeen
    <2>2. [s \in Sessions |-> sessionTable[s].status]'
            = [[s \in Sessions |-> sessionTable[s].status]
                 EXCEPT ![req.session] = "OPEN"]
      BY <1>2, <1>5 DEF TypeOK
    <2>3. Events!OpenSession(req.session)
      BY <1>2, <1>3, <2>1, <2>2 DEF Events!OpenSession, Announced, Ordinal
    <2> QED
      BY <1>2, <2>3 DEF Events!CheckoutNext
  <1> QED
    BY <1>1, <1>4, <1>5 DEF InsertSession

LEMMA ClosingIsSeen ==
  ASSUME CheckoutConstants, CheckoutEventsConstants, EventsInv,
         ~SharedSessions => OwnInv /\ OwnInv',
         NEW o \in Operators, UpdateSession(o)
  PROVE  Events!CheckoutNext
  <1>1. PICK s, pos : s = request[o].session /\ pos = request[o].pos
    OBVIOUS
  <1>2. /\ s \in Sessions /\ pos \in PosSession /\ pos.status = "CLOSED"
        /\ Existing(s) /\ TypeOK /\ SalesInSessions
        /\ request[o].op = "close" /\ request[o].pc = "write"
    BY <1>1, RequestInProgress
       DEF EventsInv, PendingInv, Inv, RequestsPending, Pending, UpdateSession, At, Fits
  <1>3. PICK e : e = [name |-> "RegisterClosed", aggregate |-> s, state |-> pos]
    OBVIOUS
  <1>4. /\ e \in SaleEvent \cup SessionEvent
        /\ e.name = "RegisterClosed" /\ e.aggregate = s
    BY <1>2, <1>3 DEF SessionEvent
  <1>5. /\ sessionTable' = [sessionTable EXCEPT ![s] = pos]
        /\ outbox' = Append(outbox, e) /\ UNCHANGED saleTable
    BY <1>1, <1>3 DEF UpdateSession
  <1>6. Events!Store("RegisterClosed", s, s, "OPEN")
    <2>1. ~SharedSessions => EventsOnce({})'
      BY DEF OwnInv, RacesInv, TablesInOrder
    <2>2. Earlier(outbox, e.name, e.aggregate) + 1 <= MaxCopies
      BY <1>2, <1>4, <1>5, <2>1, EventsHaveIds DEF Emitters
    <2>3. SessionIn(e) = s /\ PreviousIn(e) = "OPEN"
      BY <1>4 DEF SessionIn, PreviousIn
    <2>4. Events!Store(e.name, e.aggregate, SessionIn(e), PreviousIn(e))
      BY <1>2, <1>4, <1>5, <2>2, AppendStores
    <2> QED
      BY <1>4, <2>3, <2>4
  <1>7. Events!Usable(s)
    <2>1. CASE SharedSessions
      BY <1>2, <2>1, RowsAreSeen DEF Events!Usable
    <2>2. CASE ~SharedSessions
      <3>1. sessionTable[s].status = "OPEN"
        BY <1>1, <1>2, <2>2 DEF OwnInv, RacesInv, Current
      <3> QED
        BY <1>2, <3>1 DEF Events!Usable
    <2> QED
      BY <2>1, <2>2
  <1>8. ASSUME NEW x \in Sales, saleTable[x] # NoSale => saleTable[x].session = s,
               saleTable[x] # NoSale, ~SharedSessions
        PROVE  saleTable[x].status \in {"COMPLETED", "CANCELED"}
    <2>1. NonTerminal(s) = {}
      BY <1>1, <1>2, <1>8 DEF OwnInv, RacesInv, Current
    <2>2. saleTable[x].status \in Status
      BY <1>2, <1>8 DEF TypeOK, SaleRow
    <2> QED
      BY <1>8, <2>1, <2>2 DEF NonTerminal, Status
  <1>9. [c \in Sessions |-> sessionTable[c].status]'
          = [[c \in Sessions |-> sessionTable[c].status] EXCEPT ![s] = "CLOSED"]
    BY <1>2, <1>5 DEF TypeOK
  <1>10. s # None
    BY <1>2 DEF CheckoutConstants
  <1>11. Events!CloseSession(s)
    BY <1>5, <1>6, <1>7, <1>8, <1>9, <1>10 DEF Events!CloseSession
  <1> QED
    BY <1>2, <1>11 DEF Events!CheckoutNext

LEMMA StartIsSeen ==
  ASSUME CheckoutConstants, EventsInv, ~SharedSessions => OwnInv,
         NEW o \in Operators, InsertSale(o)
  PROVE  Events!CheckoutNext
  <1>1. PICK req : req = request[o]
    OBVIOUS
  <1>2. PICK s, x : s = req.session /\ x = req.sale
    OBVIOUS
  <1>3. /\ s \in Sessions /\ x \in Sales /\ req.copy = Start(s)
        /\ Existing(s) /\ ~Exists(x) /\ TypeOK /\ SalesInSessions
        /\ req.op = "start" /\ req.pc = "write"
    BY <1>1, <1>2, RequestInProgress
       DEF EventsInv, PendingInv, Inv, RequestsPending, Pending, InsertSale, At, Fits
  <1>4. /\ saleTable' = [saleTable EXCEPT ![x] = Start(s)]
        /\ UNCHANGED <<sessionTable, outbox>>
    BY <1>1, <1>2, <1>3 DEF InsertSale
  <1>5. Events!Usable(s)
    <2>1. CASE SharedSessions
      BY <1>3, <2>1, RowsAreSeen DEF Events!Usable
    <2>2. CASE ~SharedSessions
      <3>1. sessionTable[s].status = "OPEN"
        BY <1>1, <1>2, <1>3, <2>2 DEF OwnInv, RacesInv, Current
      <3> QED
        BY <1>3, <3>1 DEF Events!Usable
    <2> QED
      BY <2>1, <2>2
  <1>6. saleTable[x].status = "NONE"
    BY <1>3, RowsAreSeen
  <1>7. Start(s).status = "OPEN" /\ Start(s).session = s /\ Start(s) # NoSale
    BY DEF Start, NoSale
  <1>8. [y \in Sales |-> [status  |-> saleTable[y].status,
                          session |-> IF saleTable[y] = NoSale THEN None
                                      ELSE saleTable[y].session]]'
          = [[y \in Sales |-> [status  |-> saleTable[y].status,
                               session |-> IF saleTable[y] = NoSale THEN None
                                           ELSE saleTable[y].session]]
               EXCEPT ![x] = [status |-> "OPEN", session |-> s]]
    BY <1>3, <1>4, <1>7 DEF TypeOK
  <1>9. Events!StartSale(x, s)
    BY <1>3, <1>4, <1>5, <1>6, <1>8 DEF Events!StartSale, Announced, Ordinal
  <1> QED
    BY <1>3, <1>9 DEF Events!CheckoutNext

\* A save is seen as a change of the status of its sale: to the one its request
\* decided on, or, where another save came between, to none.
LEMMA SaveIsSeen ==
  ASSUME SaleConstants, CheckoutConstants, EventsInv, ~SharedSessions => OwnInv,
         NEW o \in Operators, UpdateSale(o),
         NEW req, req = request[o], NEW x, x = req.sale
  PROVE  /\ Decides(req.op, req.previous, req.copy.status)
         /\ req.op \in SaleOps /\ x \in Sales /\ req.previous \in Status
         /\ Events!LoadedIn(x, req.previous)
         /\ Events!SaveStatus(x, req.copy.status)
  <1>1. PICK row : req = request[o] /\ x = req.sale /\ row = saleTable[x]
    OBVIOUS
  <1>2. /\ req.op \in SaleOps /\ req.pc = "write" /\ HasCopy(req)
        /\ x \in Sales /\ Exists(x) /\ TypeOK /\ SalesInSessions
        /\ req.previous \in Status /\ req.copy \in SaleRow /\ req.base \in SaleRow
        /\ row \in SaleRow /\ req.session = row.session
        /\ req.copy.session = row.session
        /\ Decides(req.op, req.previous, req.copy.status)
    <2>1. /\ req.op \in SaleOps /\ req.pc = "write" /\ Fits(req) /\ Pending(req)
          /\ TypeOK /\ SalesInSessions
      BY <1>1, RequestInProgress
         DEF EventsInv, PendingInv, Inv, RequestsPending, UpdateSale, At
    <2>2. HasCopy(req)
      BY <2>1 DEF HasCopy
    <2>3. /\ x \in Sales /\ Exists(x) /\ req.previous \in Status
          /\ req.copy \in SaleRow /\ req.base \in SaleRow
      BY <1>1, <2>1, <2>2 DEF Fits, Sound
    <2> QED
      BY <1>1, <2>1, <2>2, <2>3 DEF Pending, TypeOK, Exists
  <1>3. PICK new : new = Merge(row, req.base, req.copy)
    OBVIOUS
  <1>4. saleTable' = [saleTable EXCEPT ![x] = new]
    BY <1>1, <1>3 DEF UpdateSale
  <1>5. ASSUME ~SharedSessions
        PROVE  /\ sessionTable[row.session].status = "OPEN"
               /\ row.status = req.previous /\ req.base = row
    <2>1. row.status = req.previous /\ req.base = row
      <3>1. Current(request[o])
        BY <1>5 DEF OwnInv, RacesInv
      <3>2. SaleIsCurrent(request[o])
        BY <1>1, <1>2, <3>1 DEF Current, HasCopy
      <3> QED
        BY <1>1, <1>2, <3>2 DEF SaleIsCurrent
    <2>2. sessionTable[req.session].status = "OPEN"
      BY <1>1, <1>2, <1>5 DEF OwnInv, Own
    <2> QED
      BY <1>2, <2>1, <2>2
  <1>6. new \in SaleRow /\ new # NoSale /\ new.session = row.session
    BY <1>2, <1>3, MergeIsTyped DEF Merge, SaleRow, NoSale, Status
  <1>7. new.status \in IF SharedSessions THEN {req.copy.status, row.status}
                                         ELSE {req.copy.status}
    <2>1. new.status \in {row.status, req.copy.status}
      BY <1>2, <1>3, MergeIsTyped
    <2>2. ~SharedSessions => new = req.copy
      BY <1>2, <1>3, <1>5, MergeOverCurrentRow
    <2> QED
      BY <2>1, <2>2
  <1>8. Events!LoadedIn(x, req.previous)
    <2>1. row.status # "NONE" /\ row # NoSale
      BY <1>2, RowsAreSeen, <1>1 DEF Exists
    <2>2. row.session \in Sessions /\ sessionTable[row.session].status # "NONE"
      BY <1>1, <1>2, RowsAreSeen
    <2>3. Events!Usable(row.session)
      BY <1>5, <2>2 DEF Events!Usable
    <2> QED
      BY <1>1, <1>2, <1>5, <2>1, <2>3 DEF Events!LoadedIn
  <1>9. [y \in Sales |-> [status  |-> saleTable[y].status,
                          session |-> IF saleTable[y] = NoSale THEN None
                                      ELSE saleTable[y].session]]'
          = [[y \in Sales |-> [status  |-> saleTable[y].status,
                               session |-> IF saleTable[y] = NoSale THEN None
                                           ELSE saleTable[y].session]]
               EXCEPT ![x].status = new.status]
    BY <1>1, <1>2, <1>4, <1>6 DEF TypeOK, Exists
  <1>10. Events!SaveStatus(x, req.copy.status)
    BY <1>1, <1>2, <1>7, <1>9 DEF Events!SaveStatus
  <1> QED
    BY <1>1, <1>2, <1>8, <1>10

\* Completing and canceling store their event with the row, and other saves none.
LEMMA SaleEventIsSeen ==
  ASSUME CheckoutConstants, CheckoutEventsConstants, EventsInv,
         ~SharedSessions => OwnInv', NEW o \in Operators, UpdateSale(o),
         NEW req, req = request[o], NEW x, x = req.sale,
         NEW s, s = saleTable[x].session
  PROVE  /\ s = [y \in Sales |->
                    [status  |-> saleTable[y].status,
                     session |-> IF saleTable[y] = NoSale THEN None
                                 ELSE saleTable[y].session]][x].session
         /\ req.op = "complete" => Events!Store("SaleCompleted", x, s, req.previous)
         /\ req.op = "cancel" => Events!Store("SaleCanceled", x, s, req.previous)
         /\ req.op \notin {"complete", "cancel"} => UNCHANGED outbox
  <1>1. req = request[o] /\ x = req.sale
    OBVIOUS
  <1>2. /\ req.op \in SaleOps /\ x \in Sales /\ Exists(x) /\ TypeOK
        /\ req.copy.session = saleTable[x].session
    BY <1>1, RequestInProgress
       DEF EventsInv, PendingInv, Inv, RequestsPending, Pending, HasCopy, UpdateSale, At, Fits
  <1>3. PICK e \in SaleEvent :
          /\ e.aggregate = x /\ e.state = req.copy /\ e.previousStatus = req.previous
          /\ e.name = IF req.op = "complete" THEN "SaleCompleted" ELSE "SaleCanceled"
          /\ req.op \in {"complete", "cancel"} => outbox' = Append(outbox, e)
          /\ req.op \notin {"complete", "cancel"} => outbox' = outbox
    BY <1>1, SaleEventIsAppended DEF EventsInv, PendingInv
  <1>4. SessionIn(e) = s /\ PreviousIn(e) = req.previous
    BY <1>2, <1>3 DEF SessionIn, PreviousIn
  <1>5. ASSUME req.op \in {"complete", "cancel"}
        PROVE  Events!Store(e.name, x, s, req.previous)
    <2>1. outbox' = Append(outbox, e)
      BY <1>3, <1>5
    <2>2. ~SharedSessions => EventsOnce({})'
      BY DEF OwnInv, RacesInv, TablesInOrder
    <2>3. Earlier(outbox, e.name, e.aggregate) + 1 <= MaxCopies
      BY <1>1, <1>5, <2>1, <2>2, EventsHaveIds DEF Emitters
    <2>4. Events!Store(e.name, e.aggregate, SessionIn(e), PreviousIn(e))
      BY <1>2, <2>1, <2>3, AppendStores
    <2> QED
      BY <1>3, <1>4, <2>4
  <1>6. [y \in Sales |-> [status  |-> saleTable[y].status,
                          session |-> IF saleTable[y] = NoSale THEN None
                                      ELSE saleTable[y].session]][x].session
          = saleTable[x].session
    BY <1>2 DEF Exists
  <1> QED
    BY <1>1, <1>3, <1>5, <1>6

LEMMA SavingIsSeen ==
  ASSUME SaleConstants, CheckoutConstants, CheckoutEventsConstants, EventsInv,
         ~SharedSessions => OwnInv /\ OwnInv',
         NEW o \in Operators, UpdateSale(o)
  PROVE  Events!CheckoutNext
  <1>1. PICK req, x, s : req = request[o] /\ x = req.sale /\ s = saleTable[x].session
    OBVIOUS
  <1>2. /\ req.op \in SaleOps /\ x \in Sales /\ req.previous \in Status
        /\ Decides(req.op, req.previous, req.copy.status)
        /\ Events!LoadedIn(x, req.previous) /\ Events!SaveStatus(x, req.copy.status)
    BY <1>1, SaveIsSeen
  <1>3. UNCHANGED sessionTable
    BY DEF UpdateSale
  <1>4. UNCHANGED [c \in Sessions |-> sessionTable[c].status]
    BY <1>3
  <1> DEFINE op  == req.op
             old == req.previous
             new == req.copy.status
  <1>9. /\ s = [y \in Sales |->
                   [status  |-> saleTable[y].status,
                    session |-> IF saleTable[y] = NoSale THEN None
                                ELSE saleTable[y].session]][x].session
        /\ op = "complete" => Events!Store("SaleCompleted", x, s, old)
        /\ op = "cancel" => Events!Store("SaleCanceled", x, s, old)
        /\ op \notin {"complete", "cancel"} => UNCHANGED outbox
    BY <1>1, SaleEventIsSeen
  <1>5. CASE op \in {"add", "remove"}
    <2>1. old = "OPEN" /\ new = "OPEN"
      BY <1>2, <1>5 DEF Decides
    <2>2. Events!LoadedIn(x, "OPEN") /\ Events!SaveStatus(x, "OPEN")
      BY <1>2, <2>1
    <2>3. UNCHANGED outbox
      BY <1>5, <1>9
    <2>4. UNCHANGED {Announced(i) : i \in DOMAIN outbox}
      BY <2>3 DEF Announced, Ordinal
    <2>5. Events!ChangeCart(x)
      BY <1>4, <2>2, <2>4 DEF Events!ChangeCart
    <2> QED
      BY <1>2, <2>5 DEF Events!CheckoutNext
  <1>6. CASE op = "pay"
    <2>1. Events!PaySale(x)
      BY <1>2, <1>4, <1>6, <1>9
         DEF Events!PaySale, Decides, Announced, Ordinal
    <2> QED
      BY <1>2, <2>1 DEF Events!CheckoutNext
  <1>7. CASE op = "complete"
    <2>1. Events!CompleteSale(x)
      BY <1>2, <1>4, <1>7, <1>9 DEF Events!CompleteSale, Decides
    <2> QED
      BY <1>2, <2>1 DEF Events!CheckoutNext
  <1>8. CASE op = "cancel"
    <2>1. old \in {"OPEN", "PAID", "COMPLETED"} /\ new = "CANCELED"
      BY <1>2, <1>8 DEF Decides, Status
    <2>2. old = "COMPLETED" => Events!EventsOn("SaleCompleted", x) # {}
      <3>1. old = "COMPLETED" => Emitted("SaleCompleted", x)
        BY <1>1, <1>8, RequestInProgress
           DEF EventsInv, PendingInv, CopyIsInOutbox, HasCopy, SaleOps, UpdateSale, At
      <3>2. ASSUME NEW i \in DOMAIN outbox, outbox[i].name = "SaleCompleted",
                   outbox[i].aggregate = x
            PROVE  Events!EventsOn("SaleCompleted", x) # {}
        <4>1. PICK f : f = Announced(i)
          OBVIOUS
        <4>2. f.name = "SaleCompleted" /\ f.aggregate = x
          BY <3>2, <4>1 DEF Announced
        <4>3. f \in Events!EventsOn("SaleCompleted", x)
          BY <4>1, <4>2 DEF Events!EventsOn
        <4> QED
          BY <4>3
      <3> QED
        BY <3>1, <3>2 DEF Emitted
    <2>3. Events!CancelSale(x)
      BY <1>2, <1>4, <1>8, <1>9, <2>1, <2>2 DEF Events!CancelSale
    <2> QED
      BY <1>2, <2>3 DEF Events!CheckoutNext
  <1> QED
    BY <1>2, <1>5, <1>6, <1>7, <1>8 DEF SaleOps

\* The two invariants together; the second one where operators keep to the
\* sessions they opened.
StepInv == EventsInv /\ (~SharedSessions => OwnInv)

LEMMA StepInvIsInductive ==
  ASSUME SaleConstants, CheckoutConstants, CheckoutEventsConstants
  PROVE  /\ Init => StepInv
         /\ StepInv /\ [Next]_vars => StepInv'
  BY EventsInvHoldsInitially, OwnInvHoldsInitially, EventsInvIsInductive,
     OwnInvIsInductive DEF StepInv

\* The initial tables are the initial state of SaleEvents.
LEMMA InitIsSeen ==
  ASSUME Init
  PROVE  Events!CheckoutInit
  <1>1. /\ [s \in Sessions |-> sessionTable[s].status] = [s \in Sessions |-> "NONE"]
        /\ outbox = <<>>
    BY DEF Init, NoSession
  <1>2. [x \in Sales |-> [status  |-> saleTable[x].status,
                          session |-> IF saleTable[x] = NoSale THEN None
                                      ELSE saleTable[x].session]]
          = [x \in Sales |-> [status |-> "NONE", session |-> None]]
    BY DEF Init, NoSale
  <1>3. {Announced(i) : i \in DOMAIN outbox} = {}
    BY <1>1
  <1> QED
    BY <1>1, <1>2, <1>3 DEF Events!CheckoutInit

LEMMA StepIsSeen ==
  ASSUME SaleConstants, CheckoutConstants, CheckoutEventsConstants,
         StepInv, StepInv', [Next]_vars
  PROVE  [Events!CheckoutNext]_(Events!checkoutVars)
  <1>1. ASSUME NEW o \in Operators,
               \/ BeginOpenSession(o) \/ BeginStartSale(o) \/ BeginCloseSession(o)
               \/ BeginOnSale(o) \/ Read(o) \/ Rollback(o)
        PROVE  UNCHANGED Events!checkoutVars
    <2>1. UNCHANGED <<sessionTable, saleTable, outbox>>
      BY <1>1 DEF BeginOpenSession, BeginStartSale, BeginCloseSession, BeginOnSale,
         Begin, Read, FindOpen, FindSale, FindSessionToStart, FindSessionToClose,
         CountSales, FindSessionOfSale, FindCatalog, SelectSale, Rollback
    <2> QED
      BY <2>1, NothingSeen
  <1>2. ASSUME NEW o \in Operators, Write(o)
        PROVE  [Events!CheckoutNext]_(Events!checkoutVars)
    BY <1>2, OpeningIsSeen, ClosingIsSeen, StartIsSeen, SavingIsSeen DEF StepInv, Write
  <1>3. CASE UNCHANGED vars
    BY <1>3, NothingSeen DEF vars
  <1> QED
    BY <1>1, <1>2, <1>3 DEF Next

\* What SaleEvents assumes of its constants holds of those it is given here.
LEMMA EventsConstantsHold ==
  ASSUME CheckoutConstants, CheckoutEventsConstants
  PROVE  Events!SaleEventsConstants
  BY DEF CheckoutConstants, CheckoutEventsConstants, Events!SaleEventsConstants

\* The checkout service implements SaleEvents: for any number of operators,
\* sessions, sales and products, whether or not requests overlap, a row and the
\* event that tells of it appear together, a sale takes only the steps SaleEvents
\* allows, and nothing else a consumer can see ever changes.
THEOREM CheckoutImplementsSaleEvents ==
  ASSUME SaleConstants, CheckoutConstants, CheckoutEventsConstants
  PROVE  Spec => ImplementsSaleEvents
  <1>1. Init => StepInv
    BY StepInvIsInductive
  <1>2. StepInv /\ [Next]_vars => StepInv'
    BY StepInvIsInductive
  <1>3. Init => Events!CheckoutInit
    BY InitIsSeen
  <1>4. StepInv /\ StepInv' /\ [Next]_vars => [Events!CheckoutNext]_(Events!checkoutVars)
    BY StepIsSeen
  <1> QED
    BY <1>1, <1>2, <1>3, <1>4, PTL DEF Spec, ImplementsSaleEvents, Events!CheckoutSpec
=============================================================================
