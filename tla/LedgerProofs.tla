---------------------------- MODULE LedgerProofs ----------------------------
(***************************************************************************)
(* The ledger implements SaleBooks, for any number of consumer instances,  *)
(* sales and sessions, as long as checkout stores at most one event of a   *)
(* name for each sale.                                                     *)
(*                                                                         *)
(* What carries the proof is that an entry names the event it comes from:  *)
(* with one event of each name, the unique index on the source event       *)
(* leaves a sale one revenue entry and one reversal, whatever two          *)
(* instances that handle the same event looked up before they wrote.       *)
(***************************************************************************)
EXTENDS ManagementLedger, SaleEventsProofs

\* The steps of the ledger when the inventory service reports losses meanwhile.
LossEvent ==
  [name: {"InventoryLossRegistered"}, aggregate: Products,
   quantity: Nat \ {0}, day: Nat, id: Nat]

LossReported ==
  /\ lossEvents \subseteq lossEvents'
  /\ lossEvents' \subseteq LossEvent
  /\ UNCHANGED <<checkoutVars, ledgerVars>>

OpenNext == Next \/ LossReported

\* An entry comes from an event of its sale and says what the events of the
\* sale say; a reversal has a revenue entry.
EntryIsSound(n) ==
  /\ n \in EntryRow
  /\ n.source \in stored
  /\ n.source.aggregate = n.sale
  /\ n.session = n.source.session
  /\ n.cash = InCash[n.sale] /\ n.day = Day[n.sale] /\ n.amount = Amount[n.sale]
  /\ n.type = "SALE_REVENUE" => n.source.name = "SaleCompleted"
  /\ n.type = "SALE_CANCELLATION_REVERSAL" =>
       /\ n.source.name = "SaleCanceled"
       /\ n.source.previous = "COMPLETED"
       /\ RevenueOf(n.sale) # {}

EntriesAreSound ==
  /\ IsFiniteSet(entries)
  /\ \A n \in entries : EntryIsSound(n)
  /\ \A n, o \in entries : n.source = o.source => n = o

LossRow == [source: LossEvent, day: Nat, amount: Nat \ {0}]

\* The other tables, with what they refer to.
TablesAreSound ==
  /\ IsFiniteSet(losses)
  /\ losses \subseteq LossRow
  /\ reconciliations \subseteq ReconciliationRow
  /\ booked \subseteq stored \cup lossEvents
  /\ prices \in [Products -> Prices \cup {0}]
  /\ daily \in [Days -> [total: Nat, count: Nat]]

\* What a transaction is about to write is at most one row of each table.
WritesAreSound(w) ==
  /\ \A n \in w.entries : EntryIsSound(n)
  /\ \A n, o \in w.entries : n = o
  /\ w.losses \subseteq LossRow
  /\ \A n, o \in w.losses : n = o
  /\ w.reconciliations \subseteq ReconciliationRow

\* The event has passed the test of its payload.
MayBeBooked(e) == e.name = "SaleCanceled" => e.previous = "COMPLETED"

JobIsSound(l) ==
  /\ job[l].pc \in {"free", "lookup", "write"}
  /\ job[l].pc # "free" =>
       /\ job[l].event \in stored \cup lossEvents
       /\ WritesAreSound(job[l].writes)
       /\ job[l].pc = "lookup" => MayBeBooked(job[l].event)

LedgerInv ==
  /\ StoredInv
  /\ EventsNameTheSession
  /\ lossEvents \subseteq LossEvent
  /\ EntriesAreSound
  /\ TablesAreSound
  /\ job = [l \in Accountants |-> job[l]]
  /\ \A l \in Accountants : JobIsSound(l)

-----------------------------------------------------------------------------
\* An entry stays sound while events and entries are only added.
LEMMA SoundnessGrows ==
  ASSUME stored \subseteq stored', entries \subseteq entries',
         NEW n, EntryIsSound(n)
  PROVE  EntryIsSound(n)'
BY DEF EntryIsSound, RevenueOf

LEMMA WritesStaySound ==
  ASSUME stored \subseteq stored', entries \subseteq entries',
         NEW w, WritesAreSound(w)
  PROVE  WritesAreSound(w)'
BY SoundnessGrows DEF WritesAreSound

LEMMA JobsStaySound ==
  ASSUME stored \subseteq stored', entries \subseteq entries',
         lossEvents \subseteq lossEvents',
         NEW l \in Accountants, JobIsSound(l), job'[l] = job[l] \/ job'[l] = Free
  PROVE  JobIsSound(l)'
<1>1. CASE job'[l] = job[l]
  BY <1>1, WritesStaySound DEF JobIsSound
<1>2. CASE job'[l] = Free
  BY <1>2 DEF JobIsSound, Free
<1> QED
  BY <1>1, <1>2

LEMMA EventTyped ==
  ASSUME LedgerInv, NEW e \in stored \cup lossEvents
  PROVE  /\ e.name \in {"SaleCompleted", "SaleCanceled", "RegisterClosed",
                        "InventoryLossRegistered"}
         /\ e.name \in {"SaleCompleted", "SaleCanceled"} =>
              /\ e \in SaleEvent /\ e \in stored
              /\ sales[e.aggregate].session = e.session
         /\ e.name = "RegisterClosed" => e \in ClosedEvent
         /\ e.name = "InventoryLossRegistered" => e \in LossEvent
<1>1. CASE e \in lossEvents
  BY <1>1 DEF LedgerInv, LossEvent
<1>2. CASE e \in stored
  BY <1>2 DEF LedgerInv, EventsNameTheSession, StoredInv, CheckoutTypeOK, SaleEvent, ClosedEvent
<1> QED
  BY <1>1, <1>2

-----------------------------------------------------------------------------
(* Sums of entries and of losses.                                          *)

SignedOf == [n \in EntryRow |-> Signed(n)]
LossOf   == [n \in LossRow |-> AmountOf(n)]

LEMMA SignedTyped ==
  \A n \in EntryRow :
    /\ SignedOf[n] \in Int
    /\ n.type = "SALE_REVENUE" => SignedOf[n] = n.amount /\ n.amount \in Nat
    /\ n.type = "SALE_CANCELLATION_REVERSAL" => SignedOf[n] = -n.amount
BY DEF SignedOf, Signed, EntryRow

\* The sums of the model are totals, of which SaleEventsProofs has the laws.
LEMMA SignedTotal ==
  ASSUME NEW S, IsFiniteSet(S), S \subseteq EntryRow
  PROVE  MapThenSumSet(Signed, S) = Total(SignedOf, S)
<1> DEFINE IsIter(h) ==
             h = [s \in SUBSET S |->
                    IF s = {} THEN 0
                    ELSE Signed(CHOOSE x \in s : TRUE) + h[s \ {CHOOSE x \in s : TRUE}]]
           iter == CHOOSE h : IsIter(h)
<1>1. ASSUME NEW h PROVE SumsUp(h, SignedOf, S) <=> IsIter(h)
  <2> DEFINE a == [s \in SUBSET S |->
                     IF s = {} THEN 0 ELSE SignedOf[One(s)] + h[s \ {One(s)}]]
             b == [s \in SUBSET S |->
                     IF s = {} THEN 0 ELSE Signed(One(s)) + h[s \ {One(s)}]]
  <2>1. \A s \in SUBSET S : s # {} => SignedOf[One(s)] = Signed(One(s))
    BY DEF One, SignedOf
  <2>2. \A s \in SUBSET S : a[s] = b[s]
    BY <2>1
  <2>3. a = [s \in SUBSET S |-> a[s]] /\ b = [s \in SUBSET S |-> b[s]]
    OBVIOUS
  <2>4. a = b
    <3> HIDE DEF a, b
    <3> QED
      BY <2>2, <2>3
  <2> QED
    BY <2>4 DEF SumsUp, One
<1>2. PICK f : SumsUp(f, SignedOf, S) /\ f[S] = Total(SignedOf, S)
  BY TotalSumsUp
<1>3. SumsUp(iter, SignedOf, S)
  <2> HIDE DEF IsIter
  <2> QED
    BY <1>1, <1>2
<1>4. MapThenSumSet(Signed, S) = iter[S]
  BY DEF MapThenSumSet, MapThenFoldSet
<1> HIDE DEF iter
<1> QED
  BY <1>2, <1>3, <1>4, SumIsUnique

LEMMA LossTotal ==
  ASSUME NEW S, IsFiniteSet(S), S \subseteq LossRow
  PROVE  MapThenSumSet(AmountOf, S) = Total(LossOf, S)
<1> DEFINE IsIter(h) ==
             h = [s \in SUBSET S |->
                    IF s = {} THEN 0
                    ELSE AmountOf(CHOOSE x \in s : TRUE) + h[s \ {CHOOSE x \in s : TRUE}]]
           iter == CHOOSE h : IsIter(h)
<1>1. ASSUME NEW h PROVE SumsUp(h, LossOf, S) <=> IsIter(h)
  <2> DEFINE a == [s \in SUBSET S |->
                     IF s = {} THEN 0 ELSE LossOf[One(s)] + h[s \ {One(s)}]]
             b == [s \in SUBSET S |->
                     IF s = {} THEN 0 ELSE AmountOf(One(s)) + h[s \ {One(s)}]]
  <2>1. \A s \in SUBSET S : s # {} => LossOf[One(s)] = AmountOf(One(s))
    BY DEF One, LossOf
  <2>2. \A s \in SUBSET S : a[s] = b[s]
    BY <2>1
  <2>3. a = [s \in SUBSET S |-> a[s]] /\ b = [s \in SUBSET S |-> b[s]]
    OBVIOUS
  <2>4. a = b
    <3> HIDE DEF a, b
    <3> QED
      BY <2>2, <2>3
  <2> QED
    BY <2>4 DEF SumsUp, One
<1>2. PICK f : SumsUp(f, LossOf, S) /\ f[S] = Total(LossOf, S)
  BY TotalSumsUp
<1>3. SumsUp(iter, LossOf, S)
  <2> HIDE DEF IsIter
  <2> QED
    BY <1>1, <1>2
<1>4. MapThenSumSet(AmountOf, S) = iter[S]
  BY DEF MapThenSumSet, MapThenFoldSet
<1> HIDE DEF iter
<1> QED
  BY <1>2, <1>3, <1>4, SumIsUnique

\* The cash of a session is an integer.
LEMMA CashIsInt ==
  ASSUME LedgerInv, NEW s
  PROVE  SumNetCashMovementBySession(s) \in Int
<1>1. PICK S : S = {n \in entries : n.session = s /\ n.cash}
  OBVIOUS
<1>2. IsFiniteSet(S) /\ S \subseteq EntryRow
  BY <1>1, FS_Subset DEF LedgerInv, EntriesAreSound, EntryIsSound
<1>3. Total(SignedOf, S) \in Int
  BY <1>2, SignedTyped, TotalIsInt
<1> QED
  BY <1>1, <1>2, <1>3, SignedTotal DEF SumNetCashMovementBySession

-----------------------------------------------------------------------------
(* Every step keeps the invariant.                                         *)

\* What a handler looked up justifies what it is about to write.
LEMMA DecidedWritesAreSound ==
  ASSUME LedgerInv, NEW e \in stored \cup lossEvents, MayBeBooked(e),
         NEW w \in WritesOf(e)
  PROVE  WritesAreSound(w)
<1>0. /\ e.name \in {"SaleCompleted", "SaleCanceled", "RegisterClosed",
                     "InventoryLossRegistered"}
      /\ e.name \in {"SaleCompleted", "SaleCanceled"} =>
           /\ e \in SaleEvent /\ e \in stored
           /\ sales[e.aggregate].session = e.session
      /\ e.name = "RegisterClosed" => e \in ClosedEvent
      /\ e.name = "InventoryLossRegistered" => e \in LossEvent
  BY EventTyped
<1>1. CASE w = Nothing
  BY <1>1 DEF Nothing, WritesAreSound
<1>2. CASE e.name = "SaleCompleted" /\ w # Nothing
  <2>1. w = [Nothing EXCEPT !.entries = {Revenue(e)}]
    BY <1>2 DEF WritesOf, ConsolidateCompletedSale
  <2>2. e \in SaleEvent
    BY <1>0, <1>2
  <2>3. Revenue(e) \in EntryRow
    BY <2>2, LedgerConstants DEF Revenue, EntryRow, SaleEvent
  <2>4. EntryIsSound(Revenue(e))
    BY <2>3, <1>0, <1>2 DEF EntryIsSound, Revenue
  <2> QED
    BY <2>1, <2>4 DEF Nothing, WritesAreSound
<1>3. CASE e.name = "SaleCanceled" /\ w # Nothing
  <2>1. PICK n \in RevenueOf(e.aggregate) :
          w = [Nothing EXCEPT !.entries = {Reversal(e, n)}] /\ e.previous = "COMPLETED"
    BY <1>3 DEF WritesOf, CompensateCanceledSale, MayBeBooked
  <2>2. e \in SaleEvent
    BY <1>0, <1>3
  <2>3. n \in EntryRow /\ n.sale = e.aggregate /\ EntryIsSound(n) /\ n.type = "SALE_REVENUE"
    BY DEF LedgerInv, EntriesAreSound, EntryIsSound, RevenueOf
  <2>4. n.session = e.session
    BY <1>0, <1>3, <2>3 DEF EntryIsSound, LedgerInv, EventsNameTheSession
  <2>5. /\ Reversal(e, n) \in EntryRow
        /\ Reversal(e, n).source = e
        /\ Reversal(e, n).sale = e.aggregate
        /\ Reversal(e, n).session = n.session
        /\ Reversal(e, n).cash = n.cash /\ Reversal(e, n).day = n.day
        /\ Reversal(e, n).amount = n.amount
        /\ Reversal(e, n).type = "SALE_CANCELLATION_REVERSAL"
    BY <2>2, <2>3 DEF Reversal, EntryRow
  <2>6. EntryIsSound(Reversal(e, n))
    BY <2>1, <2>3, <2>4, <2>5, <1>0, <1>3 DEF EntryIsSound
  <2> QED
    BY <2>1, <2>6 DEF Nothing, WritesAreSound
<1>4. CASE e.name = "RegisterClosed" /\ w # Nothing
  <2> DEFINE cash == SumNetCashMovementBySession(e.session)
             r == [source |-> e, session |-> e.session,
                   expected |-> OpeningFloat[e.session] + cash]
  <2>1. /\ w = [Nothing EXCEPT !.reconciliations = {r}]
        /\ ~ (OpeningFloat[e.session] + cash < 0)
    BY <1>4 DEF WritesOf, ReconcileRegisterClosure
  <2>2. e \in ClosedEvent /\ e.session \in Sessions
    BY <1>0, <1>4 DEF ClosedEvent
  <2>3. cash \in Int /\ OpeningFloat[e.session] \in Nat
    BY <2>2, CashIsInt, LedgerConstants
  <2>4. r \in ReconciliationRow
    <3> HIDE DEF cash
    <3> QED
      BY <2>1, <2>2, <2>3 DEF ReconciliationRow
  <2> QED
    BY <2>1, <2>4 DEF Nothing, WritesAreSound
<1>5. CASE e.name = "InventoryLossRegistered" /\ w # Nothing
  <2> DEFINE n == [source |-> e, day |-> e.day,
                   amount |-> e.quantity * prices[e.aggregate]]
  <2>1. w = [Nothing EXCEPT !.losses = {n}] /\ prices[e.aggregate] # 0
    BY <1>5 DEF WritesOf, CaptureInventoryLoss
  <2>2. e \in LossEvent /\ e.aggregate \in Products /\ e.quantity \in Nat \ {0} /\ e.day \in Nat
    BY <1>0, <1>5 DEF LossEvent
  <2>3. prices[e.aggregate] \in Nat \ {0}
    BY <2>1, <2>2, LedgerConstants DEF LedgerInv, TablesAreSound
  <2>4. e.quantity * prices[e.aggregate] \in Nat \ {0}
    <3>1. \A a, b \in Nat \ {0} : a * b \in Nat \ {0}
      OBVIOUS
    <3> QED
      BY <2>2, <2>3, <3>1
  <2>5. n \in LossRow
    BY <2>2, <2>4 DEF LossRow
  <2> QED
    BY <2>1, <2>5 DEF Nothing, WritesAreSound
<1> QED
  BY <1>0, <1>1, <1>2, <1>3, <1>4, <1>5

LEMMA LedgerInitially == Init => LedgerInv
<1> SUFFICES ASSUME Init PROVE LedgerInv
  OBVIOUS
<1>1. StoredInv /\ EventsNameTheSession
  BY StoredInitially DEF Init, CheckoutInit, EventsNameTheSession
<1>2. \A l \in Accountants : JobIsSound(l)
  BY DEF Init, LedgerInit, Free, JobIsSound
<1>3. job = [l \in Accountants |-> job[l]]
  BY DEF Init, LedgerInit
<1>4. EntriesAreSound /\ TablesAreSound
  BY FS_EmptySet DEF Init, LedgerInit, EntriesAreSound, TablesAreSound, NoDay
<1> QED
  BY <1>1, <1>2, <1>3, <1>4 DEF Init, LedgerInv

\* A step that only goes on with a transaction, or ends it.
LEMMA JobStepKeepsLedger ==
  ASSUME LedgerInv, NEW l \in Accountants, NEW j,
         job' = [job EXCEPT ![l] = j],
         \/ j = Free
         \/ /\ j.pc \in {"lookup", "write"}
            /\ j.event \in stored \cup lossEvents
            /\ WritesAreSound(j.writes)
            /\ j.pc = "lookup" => MayBeBooked(j.event),
         UNCHANGED <<prices, entries, daily, reconciliations, losses, booked,
                     lossEvents, checkoutVars>>
  PROVE  LedgerInv'
<1>1. UNCHANGED <<prices, entries, daily, reconciliations, losses, booked,
                  lossEvents, sessions, sales, stored>>
  BY DEF checkoutVars
<1>2. StoredInv' /\ EventsNameTheSession'
  BY <1>1 DEF LedgerInv, StoredInv, CheckoutTypeOK, EventsNameTheSession
<1>3. EntriesAreSound'
  BY <1>1 DEF LedgerInv, EntriesAreSound, EntryIsSound, RevenueOf
<1>4. TablesAreSound'
  BY <1>1 DEF LedgerInv, TablesAreSound
<1>5. job' = [m \in Accountants |-> job'[m]]
  BY DEF LedgerInv
<1>6. ASSUME NEW m \in Accountants
      PROVE  JobIsSound(m)'
  <2>1. CASE m = l /\ j # Free
    <3>1. job'[m] = j
      BY <2>1 DEF LedgerInv
    <3>2. WritesAreSound(j.writes)'
      BY <2>1, <1>1, WritesStaySound
    <3> QED
      BY <3>1, <3>2, <2>1, <1>1 DEF JobIsSound
  <2>2. CASE m # l \/ j = Free
    <3>1. (job'[m] = job[m] \/ job'[m] = Free) /\ JobIsSound(m)
      BY <2>2 DEF LedgerInv
    <3> QED
      BY <3>1, <1>1, JobsStaySound
  <2> QED
    BY <2>1, <2>2
<1> QED
  BY <1>1, <1>2, <1>3, <1>4, <1>5, <1>6 DEF LedgerInv

LEMMA TakeKeepsLedger ==
  ASSUME LedgerInv, NEW l \in Accountants, Take(l)
  PROVE  LedgerInv'
<1>1. PICK e \in stored \cup lossEvents :
        job' = [job EXCEPT ![l] =
                  Job(IF IsSkipped(e) THEN "write" ELSE "lookup", e, Nothing)]
  BY DEF Take
<1>2. PICK j : j = Job(IF IsSkipped(e) THEN "write" ELSE "lookup", e, Nothing)
  OBVIOUS
<1>3. j.pc \in {"lookup", "write"} /\ j.event = e /\ j.writes = Nothing
  BY <1>2 DEF Job
<1>4. WritesAreSound(Nothing)
  BY DEF Nothing, WritesAreSound
<1>5. j.pc = "lookup" => MayBeBooked(j.event)
  BY <1>2 DEF Job, IsSkipped, MayBeBooked
<1>6. job' = [job EXCEPT ![l] = j]
  BY <1>1, <1>2
<1>7. UNCHANGED <<prices, entries, daily, reconciliations, losses, booked,
                  lossEvents, checkoutVars>>
  BY DEF Take
<1> QED
  BY <1>3, <1>4, <1>5, <1>6, <1>7, JobStepKeepsLedger

LEMMA LookUpKeepsLedger ==
  ASSUME LedgerInv, NEW l \in Accountants, LookUp(l)
  PROVE  LedgerInv'
<1>1. PICK e : e = job[l].event
  OBVIOUS
<1>2. e \in stored \cup lossEvents /\ MayBeBooked(e)
  BY <1>1 DEF LookUp, LedgerInv, JobIsSound
<1>3. CASE job' = [job EXCEPT ![l] = Free]
  BY <1>3, JobStepKeepsLedger DEF LookUp
<1>4. ASSUME NEW w \in WritesOf(e), job' = [job EXCEPT ![l] = Job("write", e, w)]
      PROVE  LedgerInv'
  <2>1. PICK j : j = Job("write", e, w)
    OBVIOUS
  <2>2. j.pc = "write" /\ j.event = e /\ j.writes = w
    BY <2>1 DEF Job
  <2>3. WritesAreSound(w)
    BY <1>2, DecidedWritesAreSound
  <2> QED
    BY <1>2, <1>4, <2>1, <2>2, <2>3, JobStepKeepsLedger DEF LookUp
<1> QED
  BY <1>1, <1>3, <1>4 DEF LookUp

\* What is at most one row is a finite set of rows.
LEMMA AtMostOneIsFinite ==
  ASSUME NEW S, \A n, o \in S : n = o
  PROVE  IsFiniteSet(S)
<1>1. CASE S = {}
  BY <1>1, FS_EmptySet
<1>2. CASE S # {}
  <2>1. PICK n : S = {n}
    BY <1>2
  <2> QED
    BY <2>1, FS_Singleton
<1> QED
  BY <1>1, <1>2

\* The day of a revenue entry gets its amount.
LEMMA DailyTyped ==
  ASSUME LedgerInv, NEW new, \A n \in new : EntryIsSound(n), \A n, o \in new : n = o
  PROVE  Accumulated(new) \in [Days -> [total: Nat, count: Nat]]
<1> DEFINE Of(d) == {n \in new : n.day = d /\ n.type = "SALE_REVENUE"}
<1>1. ASSUME NEW d \in Days
      PROVE  /\ MapThenSumSet(Signed, Of(d)) \in Nat
             /\ Cardinality(Of(d)) \in Nat
  <2>1. PICK S : S = Of(d)
    OBVIOUS
  <2>2. IsFiniteSet(S) /\ S \subseteq EntryRow /\ \A n \in S : n.type = "SALE_REVENUE"
    BY <2>1, AtMostOneIsFinite DEF EntryIsSound
  <2>3. Total(SignedOf, S) \in Nat
    BY <2>2, SignedTyped, TotalIsNat
  <2>4. MapThenSumSet(Signed, S) \in Nat
    BY <2>2, <2>3, SignedTotal
  <2> QED
    BY <2>1, <2>2, <2>4, FS_CardinalityType
<1>2. \A d \in Days : daily[d].total \in Nat /\ daily[d].count \in Nat
  BY DEF LedgerInv, TablesAreSound
<1>3. Accumulated(new) =
        [d \in Days |-> [total |-> daily[d].total + MapThenSumSet(Signed, Of(d)),
                         count |-> daily[d].count + Cardinality(Of(d))]]
  BY DEF Accumulated
<1> HIDE DEF Of
<1> QED
  BY <1>1, <1>2, <1>3

\* The entries a commit adds differ from the earlier ones in their source.
LEMMA WriteKeepsLedger ==
  ASSUME LedgerInv, NEW l \in Accountants, Write(l)
  PROVE  LedgerInv'
<1> DEFINE w == job[l].writes
<1>1. /\ entries' = entries \cup w.entries
      /\ daily' = Accumulated(w.entries)
      /\ losses' = losses \cup w.losses
      /\ reconciliations' = reconciliations \cup w.reconciliations
      /\ booked' = booked \cup {job[l].event}
      /\ \A n \in w.entries : \A o \in entries : o.source # n.source
  BY DEF Write, Unique
<1>2. WritesAreSound(w) /\ job[l].event \in stored \cup lossEvents
  BY DEF Write, LedgerInv, JobIsSound
<1> HIDE DEF w
<1>3. job' = [job EXCEPT ![l] = Free]
      /\ UNCHANGED <<lossEvents, sessions, sales, stored, prices>>
  BY DEF Write, checkoutVars
<1>4. StoredInv' /\ EventsNameTheSession'
  BY <1>3 DEF LedgerInv, StoredInv, CheckoutTypeOK, EventsNameTheSession
<1>5. EntriesAreSound'
  <2>1. \A n \in entries' : EntryIsSound(n)'
    BY <1>1, <1>2, <1>3, SoundnessGrows DEF LedgerInv, EntriesAreSound, WritesAreSound
  <2>2. \A n, o \in entries' : n.source = o.source => n = o
    BY <1>1, <1>2 DEF LedgerInv, EntriesAreSound, WritesAreSound
  <2>3. IsFiniteSet(w.entries)
    BY <1>2, AtMostOneIsFinite DEF WritesAreSound
  <2>4. IsFiniteSet(entries')
    BY <1>1, <2>3, FS_Union DEF LedgerInv, EntriesAreSound
  <2> QED
    BY <2>1, <2>2, <2>4 DEF EntriesAreSound
<1>6. TablesAreSound'
  <2>1. IsFiniteSet(w.losses)
    BY <1>2, AtMostOneIsFinite DEF WritesAreSound
  <2>2. IsFiniteSet(losses')
    BY <1>1, <2>1, FS_Union DEF LedgerInv, TablesAreSound
  <2>3. daily' \in [Days -> [total: Nat, count: Nat]]
    BY <1>1, <1>2, DailyTyped DEF WritesAreSound
  <2> QED
    BY <1>1, <1>2, <1>3, <2>2, <2>3 DEF LedgerInv, TablesAreSound, WritesAreSound
<1>7. job' = [m \in Accountants |-> job'[m]]
      /\ \A m \in Accountants : job'[m] = job[m] \/ job'[m] = Free
  BY <1>3 DEF LedgerInv
<1>8. \A m \in Accountants : JobIsSound(m)'
  BY <1>1, <1>3, <1>7, JobsStaySound DEF LedgerInv
<1> QED
  BY <1>3, <1>4, <1>5, <1>6, <1>7, <1>8 DEF LedgerInv

\* Steps that write no table of the ledger but products, or none at all.
LEMMA OtherStepsKeepLedger ==
  ASSUME LedgerInv, [CheckoutNext]_checkoutVars,
         UNCHANGED <<entries, daily, losses, reconciliations, booked>>,
         prices' \in [Products -> Prices \cup {0}],
         lossEvents \subseteq lossEvents', lossEvents' \subseteq LossEvent,
         job' = [l \in Accountants |-> job'[l]],
         \A l \in Accountants : job'[l] = job[l] \/ job'[l] = Free
  PROVE  LedgerInv'
<1>1. StoredInv' /\ stored \subseteq stored' /\ EventsNameTheSession'
  BY StoredStep, SessionStep DEF LedgerInv
<1>2. \A n : EntryIsSound(n) => EntryIsSound(n)'
  BY <1>1, SoundnessGrows
<1>3. EntriesAreSound'
  BY <1>2 DEF LedgerInv, EntriesAreSound
<1>4. TablesAreSound'
  BY <1>1 DEF LedgerInv, TablesAreSound
<1>5. \A l \in Accountants : JobIsSound(l)'
  BY <1>1, JobsStaySound DEF LedgerInv
<1> QED
  BY <1>1, <1>3, <1>4, <1>5 DEF LedgerInv

LEMMA LedgerStep ==
  ASSUME LedgerInv, [OpenNext]_vars
  PROVE  LedgerInv'
<1>0. prices \in [Products -> Prices \cup {0}] /\ job = [m \in Accountants |-> job[m]]
      /\ lossEvents \subseteq LossEvent
  BY DEF LedgerInv, TablesAreSound
<1>1. ASSUME NEW l \in Accountants, Take(l) \/ LookUp(l) PROVE LedgerInv'
  BY <1>1, TakeKeepsLedger, LookUpKeepsLedger
<1>2. ASSUME NEW l \in Accountants, Write(l) PROVE LedgerInv'
  BY <1>2, WriteKeepsLedger
<1>3. ASSUME NEW l \in Accountants, Abort(l) PROVE LedgerInv'
  <2>1. /\ job' = [m \in Accountants |-> job'[m]]
        /\ \A m \in Accountants : job'[m] = job[m] \/ job'[m] = Free
    BY <1>0, <1>3 DEF Abort
  <2> QED
    BY <1>0, <1>3, <2>1, OtherStepsKeepLedger DEF Abort
<1>4. ASSUME NEW p \in Products, PriceProduct(p) PROVE LedgerInv'
  <2>1. prices' \in [Products -> Prices \cup {0}]
    BY <1>0, <1>4 DEF PriceProduct
  <2> QED
    BY <1>0, <1>4, <2>1, OtherStepsKeepLedger DEF PriceProduct
<1>5. CASE CheckoutNext /\ UNCHANGED <<ledgerVars, lossEvents>>
  BY <1>0, <1>5, OtherStepsKeepLedger DEF ledgerVars
<1>6. CASE UNCHANGED vars
  BY <1>0, <1>6, OtherStepsKeepLedger DEF vars, ledgerVars
<1>7. CASE LossReported
  BY <1>0, <1>7, OtherStepsKeepLedger DEF LossReported, ledgerVars
<1> QED
  BY <1>1, <1>2, <1>3, <1>4, <1>5, <1>6, <1>7 DEF OpenNext, Next, LedgerNext

\* With one event of a name per sale there stays one.
LEMMA UniqueStep ==
  ASSUME StoredInv, EventsAreUnique, MaxCopies = 1, [OpenNext]_vars
  PROVE  EventsAreUnique'
<1>1. CASE CheckoutNext
  BY <1>1, StoredStep
<1>2. CASE UNCHANGED checkoutVars
  BY <1>2 DEF checkoutVars, EventsAreUnique
<1> QED
  BY <1>1, <1>2 DEF OpenNext, Next, LedgerNext, Take, LookUp, Write, Abort, PriceProduct,
                    LossReported, vars

-----------------------------------------------------------------------------
\* With sound entries the effect of a sale is never "wrong".
LEMMA OneOfEach ==
  ASSUME LedgerInv, EventsAreUnique, NEW x \in Sales
  PROVE  /\ \A n, o \in RevenueOf(x) : n = o
         /\ \A n, o \in ReversalOf(x) : n = o
         /\ ReversalOf(x) # {} => RevenueOf(x) # {}
BY DEF LedgerInv, EventsAreUnique, EntriesAreSound, EntryIsSound, RevenueOf, ReversalOf

LEMMA EffectIs ==
  ASSUME LedgerInv, EventsAreUnique, NEW x \in Sales
  PROVE  /\ RevenueOf(x) = {} => EffectOnLedger(x) = "none"
         /\ RevenueOf(x) # {} /\ ReversalOf(x) = {} => EffectOnLedger(x) = "booked"
<1>1. /\ \A n, o \in RevenueOf(x) : n = o
      /\ ReversalOf(x) # {} => RevenueOf(x) # {}
  BY OneOfEach
<1>2. ASSUME RevenueOf(x) = {} PROVE EffectOnLedger(x) = "none"
  BY <1>1, <1>2 DEF EffectOnLedger
<1>3. ASSUME RevenueOf(x) # {}, ReversalOf(x) = {}
      PROVE  EffectOnLedger(x) = "booked"
  <2>1. \E n \in RevenueOf(x) : RevenueOf(x) = {n}
    BY <1>1, <1>3
  <2> QED
    BY <2>1, <1>3 DEF EffectOnLedger
<1> QED
  BY <1>2, <1>3

\* A commit that adds no entry leaves every effect, and one that adds an entry
\* books or undoes the effect on its sale.
LEMMA WriteIsAStepOfBooks ==
  ASSUME LedgerInv, EventsAreUnique, NEW l \in Accountants, Write(l)
  PROVE  LedgerBooks!BooksNext \/ UNCHANGED LedgerBooks!booksVars
<1>1. /\ entries' = entries \cup job[l].writes.entries
      /\ \A n \in job[l].writes.entries : \A o \in entries : o.source # n.source
      /\ \A n \in job[l].writes.entries : EntryIsSound(n)
      /\ \A n, o \in job[l].writes.entries : n = o
      /\ UNCHANGED checkoutVars
  BY DEF Write, Unique, LedgerInv, JobIsSound, WritesAreSound
<1>2. CASE job[l].writes.entries = {}
  <2>1. entries' = entries
    BY <1>1, <1>2
  <2>2. \A x : EffectOnLedger(x)' = EffectOnLedger(x)
    BY <2>1 DEF EffectOnLedger, RevenueOf, ReversalOf
  <2> QED
    BY <1>1, <2>2 DEF LedgerBooks!booksVars, LedgerBooks!checkoutVars, checkoutVars
<1>3. CASE job[l].writes.entries # {}
  <2>1. PICK n : n \in job[l].writes.entries
    BY <1>3
  <2>2. entries' = entries \cup {n} /\ EntryIsSound(n)
        /\ \A o \in entries : o.source # n.source
    BY <1>1, <2>1
  <2> DEFINE x == n.sale
  <2>3. x \in Sales
    BY <2>2 DEF EntryIsSound, EntryRow
  <2>4. \A y : y # x => EffectOnLedger(y)' = EffectOnLedger(y)
    <3> TAKE y
    <3> HAVE y # x
    <3>1. RevenueOf(y)' = RevenueOf(y) /\ ReversalOf(y)' = ReversalOf(y)
      BY <2>2 DEF RevenueOf, ReversalOf
    <3> QED
      BY <3>1 DEF EffectOnLedger
  <2>5. CASE n.type = "SALE_REVENUE"
    <3>1. RevenueOf(x) = {}
      BY <2>2, <2>5 DEF LedgerInv, EventsAreUnique, EntriesAreSound, EntryIsSound, RevenueOf
    <3>2. ReversalOf(x) = {}
      BY <3>1, <2>3, OneOfEach
    <3>3. RevenueOf(x)' = {n} /\ ReversalOf(x)' = {}
      BY <3>1, <3>2, <2>2, <2>5 DEF RevenueOf, ReversalOf
    <3>4. EffectOnLedger(x) = "none" /\ EffectOnLedger(x)' = "booked"
      <4>1. EffectOnLedger(x) = "none"
        BY <3>1, <2>3, EffectIs
      <4>2. EffectOnLedger(x)' = "booked"
        BY <3>3 DEF EffectOnLedger
      <4> QED
        BY <4>1, <4>2
    <3>5. EventsOn("SaleCompleted", x) # {}
      BY <2>2, <2>5 DEF EntryIsSound, EventsOn
    <3>6. [y \in Sales |-> EffectOnLedger(y)]'
            = [[y \in Sales |-> EffectOnLedger(y)] EXCEPT ![x] = "booked"]
      BY <2>3, <2>4, <3>4
    <3>7. LedgerBooks!Book(x)
      BY <1>1, <2>3, <3>4, <3>5, <3>6
         DEF LedgerBooks!Book, LedgerBooks!EventsOn, EventsOn,
             LedgerBooks!checkoutVars, checkoutVars
    <3> QED
      BY <2>3, <3>7 DEF LedgerBooks!BooksNext
  <2>6. CASE n.type = "SALE_CANCELLATION_REVERSAL"
    <3>1. ReversalOf(x) = {}
      BY <2>2, <2>6 DEF LedgerInv, EventsAreUnique, EntriesAreSound, EntryIsSound, ReversalOf
    <3>2. RevenueOf(x) # {}
      BY <2>2, <2>6 DEF EntryIsSound
    <3>3. RevenueOf(x)' = RevenueOf(x) /\ ReversalOf(x)' = {n}
      BY <3>1, <2>2, <2>6 DEF RevenueOf, ReversalOf
    <3>4. EffectOnLedger(x) = "booked" /\ EffectOnLedger(x)' = "undone"
      <4>1. EffectOnLedger(x) = "booked"
        BY <3>1, <3>2, <2>3, EffectIs
      <4>2. \E o \in RevenueOf(x) : RevenueOf(x) = {o}
        BY <3>2, <2>3, OneOfEach
      <4>3. EffectOnLedger(x)' = "undone"
        BY <3>3, <4>2 DEF EffectOnLedger
      <4> QED
        BY <4>1, <4>3
    <3>5. \E e \in EventsOn("SaleCanceled", x) : e.previous = "COMPLETED"
      BY <2>2, <2>6 DEF EntryIsSound, EventsOn
    <3>6. [y \in Sales |-> EffectOnLedger(y)]'
            = [[y \in Sales |-> EffectOnLedger(y)] EXCEPT ![x] = "undone"]
      BY <2>3, <2>4, <3>4
    <3>7. LedgerBooks!Undo(x)
      BY <1>1, <2>3, <3>4, <3>5, <3>6
         DEF LedgerBooks!Undo, LedgerBooks!EventsOn, EventsOn,
             LedgerBooks!checkoutVars, checkoutVars
    <3> QED
      BY <2>3, <3>7 DEF LedgerBooks!BooksNext
  <2> QED
    BY <2>2, <2>5, <2>6 DEF EntryIsSound, EntryRow
<1> QED
  BY <1>2, <1>3

\* The instance of SaleBooks has the steps of checkout as they are.
LEMMA SameCheckout ==
  /\ CheckoutInit <=> LedgerBooks!CheckoutInit
  /\ CheckoutNext <=> LedgerBooks!CheckoutNext
<1>1. CheckoutInit <=> LedgerBooks!CheckoutInit
  BY DEF CheckoutInit, LedgerBooks!CheckoutInit
<1>2. \A name, a, s, previous :
        Store(name, a, s, previous) <=> LedgerBooks!Store(name, a, s, previous)
  <2>1. \A S : Cardinality(S) = LedgerBooks!Cardinality(S)
    BY DEF Cardinality, LedgerBooks!Cardinality
  <2> QED
    BY <2>1 DEF Store, EventsOn, LedgerBooks!Store, LedgerBooks!EventsOn
<1>3. \A x, status : LoadedIn(x, status) <=> LedgerBooks!LoadedIn(x, status)
  BY DEF LoadedIn, Usable, LedgerBooks!LoadedIn, LedgerBooks!Usable
<1>4. \A x, status : SaveStatus(x, status) <=> LedgerBooks!SaveStatus(x, status)
  BY Zenon DEF SaveStatus, LedgerBooks!SaveStatus
<1>5. \A s : (OpenSession(s) \/ CloseSession(s))
               <=> (LedgerBooks!OpenSession(s) \/ LedgerBooks!CloseSession(s))
  BY <1>2 DEF OpenSession, CloseSession, Usable,
       LedgerBooks!OpenSession, LedgerBooks!CloseSession, LedgerBooks!Usable
<1>6. \A x, s : StartSale(x, s) <=> LedgerBooks!StartSale(x, s)
  BY DEF StartSale, Usable, LedgerBooks!StartSale, LedgerBooks!Usable
<1>7. \A x : (ChangeCart(x) \/ PaySale(x))
               <=> (LedgerBooks!ChangeCart(x) \/ LedgerBooks!PaySale(x))
  BY <1>3, <1>4 DEF ChangeCart, PaySale, LedgerBooks!ChangeCart, LedgerBooks!PaySale
<1>8. \A x : CompleteSale(x) <=> LedgerBooks!CompleteSale(x)
  BY <1>2, <1>3, <1>4 DEF CompleteSale, LedgerBooks!CompleteSale
<1>9. \A x : CancelSale(x) <=> LedgerBooks!CancelSale(x)
  BY <1>2, <1>3, <1>4 DEF CancelSale, EventsOn, LedgerBooks!CancelSale, LedgerBooks!EventsOn
<1> QED
  BY <1>1, <1>5, <1>6, <1>7, <1>8, <1>9 DEF CheckoutNext, LedgerBooks!CheckoutNext

LEMMA LedgerStepIsAStepOfBooks ==
  ASSUME LedgerInv, EventsAreUnique, [OpenNext]_vars
  PROVE  LedgerBooks!BooksNext \/ UNCHANGED LedgerBooks!booksVars
<1>1. ASSUME entries' = entries
      PROVE  [y \in Sales |-> EffectOnLedger(y)]' = [y \in Sales |-> EffectOnLedger(y)]
  BY <1>1 DEF EffectOnLedger, RevenueOf, ReversalOf
<1>2. ASSUME entries' = entries, UNCHANGED checkoutVars
      PROVE  UNCHANGED LedgerBooks!booksVars
  BY <1>1, <1>2 DEF LedgerBooks!booksVars, LedgerBooks!checkoutVars, checkoutVars
<1>3. ASSUME NEW l \in Accountants, Take(l) \/ LookUp(l) \/ Abort(l)
      PROVE  UNCHANGED LedgerBooks!booksVars
  BY <1>2, <1>3 DEF Take, LookUp, Abort
<1>4. ASSUME NEW p \in Products, PriceProduct(p)
      PROVE  UNCHANGED LedgerBooks!booksVars
  BY <1>2, <1>4 DEF PriceProduct
<1>5. CASE CheckoutNext /\ UNCHANGED <<ledgerVars, lossEvents>>
  <2>1. entries' = entries
    BY <1>5 DEF ledgerVars
  <2>2. LedgerBooks!CheckoutNext
    BY <1>5, SameCheckout
  <2> QED
    BY <1>1, <2>1, <2>2 DEF LedgerBooks!BooksNext
<1>6. CASE UNCHANGED vars
  BY <1>2, <1>6 DEF vars, ledgerVars
<1>7. CASE LossReported
  BY <1>2, <1>7 DEF LossReported, ledgerVars
<1> QED
  BY <1>3, <1>4, <1>5, <1>6, <1>7, WriteIsAStepOfBooks DEF OpenNext, Next, LedgerNext

LEMMA LedgerStartsAsBooks == Init => LedgerBooks!BooksInit
<1> SUFFICES ASSUME Init PROVE LedgerBooks!BooksInit
  OBVIOUS
<1>1. LedgerBooks!CheckoutInit
  BY SameCheckout DEF Init
<1>2. \A x \in Sales : EffectOnLedger(x) = "none"
  BY DEF Init, LedgerInit, EffectOnLedger, RevenueOf, ReversalOf
<1> QED
  BY <1>1, <1>2 DEF LedgerBooks!BooksInit

\* With one event of a name for each sale the ledger is right about the sale
\* however many consumer instances run, in which order and how often they are
\* given its events, and whichever of their transactions roll back.
THEOREM LedgerRefinesBooks ==
  ASSUME MaxCopies = 1
  PROVE  Spec => LedgerImplementsBooks
<1>1. Init => LedgerInv /\ EventsAreUnique /\ LedgerBooks!BooksInit
  BY LedgerInitially, StoredInitially, LedgerStartsAsBooks DEF Init
<1>2. LedgerInv /\ EventsAreUnique /\ [Next]_vars => LedgerInv' /\ EventsAreUnique'
  BY LedgerStep, UniqueStep DEF OpenNext, LedgerInv
<1>3. LedgerInv /\ EventsAreUnique /\ [Next]_vars =>
        [LedgerBooks!BooksNext]_(LedgerBooks!booksVars)
  BY LedgerStepIsAStepOfBooks DEF OpenNext
<1> QED
  BY <1>1, <1>2, <1>3, PTL
     DEF Spec, LedgerImplementsBooks, LedgerBooks!BooksSpec

-----------------------------------------------------------------------------
(* One consumer instance and requests that do not overlap: what the ledger *)
(* says of a sale does not depend on the order its events came in.         *)

\* Once its events are handled a sale is on the books exactly if it stands
\* completed.
LedgerIsRight(x) ==
  SalesEvents({x}) \subseteq booked =>
    (EffectOnLedger(x) = "booked" <=> sales[x].status = "COMPLETED")

\* A completion without a revenue entry was overtaken by the cancellation, and
\* a cancellation that found revenue reversed it.
BooksExplained ==
  /\ \A n \in entries : n.source \in booked
  /\ \A e \in booked : e.name = "SaleCompleted" =>
       RevenueOf(e.aggregate) # {} \/ BookedFor("SaleCanceled", e.aggregate)
  /\ \A e \in booked : e.name = "SaleCanceled" =>
       RevenueOf(e.aggregate) = {} \/ ReversalOf(e.aggregate) # {}

\* What the transaction looked up still holds: nobody else writes.
Decided(e, w) ==
  /\ \A n \in w.entries : n.source = e
  /\ e.name = "SaleCompleted" =>
       (w.entries = {} <=> BookedFor("SaleCanceled", e.aggregate))
  /\ e.name = "SaleCanceled" => (w.entries = {} => RevenueOf(e.aggregate) = {})
  /\ \A r \in w.reconciliations :
       r.expected = OpeningFloat[r.session] + SumNetCashMovementBySession(r.session)

JobIsDecided(l) ==
  /\ job[l].pc = "lookup" => job[l].event \notin booked /\ ~IsSkipped(job[l].event)
  /\ job[l].pc = "write" => Decided(job[l].event, job[l].writes)

SettledInv ==
  /\ \A x \in Sales : RowMatchesEvents(x)
  /\ BooksExplained
  /\ \A l \in Accountants : JobIsDecided(l)

LEMMA SettledInitially == Init => SettledInv
<1> SUFFICES ASSUME Init PROVE SettledInv
  OBVIOUS
<1>1. \A x \in Sales : RowMatchesEvents(x)
  BY RowInitially DEF Init
<1>2. \A l \in Accountants : job[l].pc = "free"
  BY DEF Init, LedgerInit, Free
<1> QED
  BY <1>1, <1>2 DEF Init, LedgerInit, SettledInv, BooksExplained, JobIsDecided

\* A cancellation that was not booked is the only one of its sale; if it says
\* that the sale was not completed, the sale has no revenue.
LEMMA CancellationIsNews ==
  ASSUME LedgerInv, EventsAreUnique, SettledInv,
         NEW e \in (stored \cup lossEvents) \ booked, e.name = "SaleCanceled"
  PROVE  /\ ~BookedFor("SaleCanceled", e.aggregate)
         /\ e.previous # "COMPLETED" => RevenueOf(e.aggregate) = {}
<1>0. e \in SaleEvent /\ e \in stored
  BY EventTyped
<1>1. ~BookedFor("SaleCanceled", e.aggregate)
  <2> SUFFICES ASSUME NEW f \in booked, f.name = "SaleCanceled", f.aggregate = e.aggregate
               PROVE  FALSE
    BY DEF BookedFor
  <2>1. f \in stored
    BY EventTyped DEF LedgerInv, TablesAreSound
  <2> QED
    BY <1>0, <2>1 DEF EventsAreUnique
<1>2. e.aggregate \in Sales
  BY <1>0 DEF SaleEvent
<1>3. e.previous # "COMPLETED" => RevenueOf(e.aggregate) = {}
  <2>1. e \in EventsOn("SaleCanceled", e.aggregate)
    BY <1>0 DEF EventsOn
  <2>2. e.previous # "COMPLETED" => EventsOn("SaleCompleted", e.aggregate) = {}
    BY <1>2, <2>1 DEF SettledInv, RowMatchesEvents
  <2> QED
    BY <2>2 DEF LedgerInv, EntriesAreSound, EntryIsSound, RevenueOf, EventsOn
<1> QED
  BY <1>1, <1>3

\* What the lookups decide from the tables they read.
LEMMA SkippedIsRight ==
  ASSUME LedgerInv, EventsAreUnique, SettledInv,
         NEW e \in (stored \cup lossEvents) \ booked, IsSkipped(e)
  PROVE  Decided(e, Nothing)
<1>1. e.name \in {"SaleCompleted", "SaleCanceled", "RegisterClosed",
                  "InventoryLossRegistered"}
  BY EventTyped
<1>2. e.name = "SaleCompleted" => BookedFor("SaleCanceled", e.aggregate)
  BY DEF IsSkipped
<1>3. e.name = "SaleCanceled" => RevenueOf(e.aggregate) = {}
  BY CancellationIsNews DEF IsSkipped
<1> QED
  BY <1>1, <1>2, <1>3 DEF Decided, Nothing

LEMMA DecisionIsRight ==
  ASSUME LedgerInv, NEW e \in stored \cup lossEvents, ~IsSkipped(e), NEW w \in WritesOf(e)
  PROVE  Decided(e, w)
<1>0. e.name \in {"SaleCompleted", "SaleCanceled", "RegisterClosed",
                  "InventoryLossRegistered"}
  BY EventTyped
<1>n. Nothing.entries = {} /\ Nothing.reconciliations = {}
  BY DEF Nothing
<1>1. CASE e.name = "SaleCompleted"
  <2>1. Revenue(e).source = e
    BY DEF Revenue
  <2>2. w = [Nothing EXCEPT !.entries = {Revenue(e)}]
    BY <1>1 DEF WritesOf, ConsolidateCompletedSale
  <2>3. ~BookedFor("SaleCanceled", e.aggregate)
    BY <1>1 DEF IsSkipped
  <2> QED
    BY <1>1, <2>1, <2>2, <2>3 DEF Nothing, Decided
<1>2. CASE e.name = "SaleCanceled"
  <2>1. \A n \in RevenueOf(e.aggregate) : Reversal(e, n).source = e
    BY DEF LedgerInv, EntriesAreSound, EntryIsSound, EntryRow, RevenueOf, Reversal
  <2>2. CASE RevenueOf(e.aggregate) = {}
    <3>1. w = Nothing
      BY <1>2, <2>2 DEF WritesOf, CompensateCanceledSale
    <3> QED
      BY <1>2, <1>n, <2>2, <3>1 DEF Decided
  <2>3. CASE RevenueOf(e.aggregate) # {}
    <3>1. \E n \in RevenueOf(e.aggregate) :
            w = [Nothing EXCEPT !.entries = {Reversal(e, n)}]
      BY <1>2, <2>3 DEF WritesOf, CompensateCanceledSale
    <3> QED
      BY <1>2, <2>1, <3>1 DEF Nothing, Decided
  <2> QED
    BY <2>2, <2>3
<1>3. CASE e.name = "RegisterClosed"
  <2> DEFINE cash == SumNetCashMovementBySession(e.session)
             r == [source |-> e, session |-> e.session,
                   expected |-> OpeningFloat[e.session] + cash]
  <2>1. w = [Nothing EXCEPT !.reconciliations = {r}]
    BY <1>3 DEF WritesOf, ReconcileRegisterClosure
  <2>2. r.session = e.session /\ r.expected = OpeningFloat[e.session] + cash
    OBVIOUS
  <2> HIDE DEF r
  <2> QED
    BY <1>3, <1>n, <2>1, <2>2 DEF Nothing, Decided
<1>4. CASE e.name = "InventoryLossRegistered"
  <2>1. w.entries = {} /\ w.reconciliations = {}
    BY <1>4 DEF WritesOf, CaptureInventoryLoss, Nothing
  <2> QED
    BY <1>4, <2>1 DEF Decided
<1> QED
  BY <1>0, <1>1, <1>2, <1>3, <1>4

\* A step of the one instance that writes no table.
LEMMA JobStepKeepsSettled ==
  ASSUME LedgerInv, SettledInv, NEW l \in Accountants, NEW j, job' = [job EXCEPT ![l] = j],
         \A m \in Accountants : m = l,
         j.pc = "lookup" => j.event \notin booked /\ ~IsSkipped(j.event),
         j.pc = "write" => Decided(j.event, j.writes),
         UNCHANGED <<entries, booked, sessions, sales, stored>>
  PROVE  SettledInv'
<1>1. job'[l] = j
  BY DEF LedgerInv
<1>2. JobIsDecided(l)'
  BY <1>1 DEF JobIsDecided, Decided, IsSkipped, BookedFor, RevenueOf,
              SumNetCashMovementBySession
<1>3. BooksExplained'
  BY DEF SettledInv, BooksExplained, BookedFor, RevenueOf, ReversalOf
<1>4. \A x \in Sales : RowMatchesEvents(x)'
  BY DEF SettledInv, RowMatchesEvents, EventsOn
<1> QED
  BY <1>2, <1>3, <1>4 DEF SettledInv

LEMMA TakeKeepsSettled ==
  ASSUME LedgerInv, EventsAreUnique, SettledInv, NEW l \in Accountants, Take(l),
         \A m \in Accountants : m = l
  PROVE  SettledInv'
<1>1. PICK e \in (stored \cup lossEvents) \ booked :
        job' = [job EXCEPT ![l] =
                  Job(IF IsSkipped(e) THEN "write" ELSE "lookup", e, Nothing)]
  BY DEF Take
<1>2. UNCHANGED <<entries, booked, sessions, sales, stored>>
  BY DEF Take, checkoutVars
<1>3. PICK j : j = Job(IF IsSkipped(e) THEN "write" ELSE "lookup", e, Nothing)
  OBVIOUS
<1>4. /\ j.pc = "lookup" => ~IsSkipped(e)
      /\ j.pc = "write" => IsSkipped(e)
      /\ j.event = e /\ j.writes = Nothing
  BY <1>3 DEF Job
<1> QED
  BY <1>1, <1>2, <1>3, <1>4, SkippedIsRight, JobStepKeepsSettled

LEMMA LookUpKeepsSettled ==
  ASSUME LedgerInv, SettledInv, NEW l \in Accountants, LookUp(l),
         \A m \in Accountants : m = l
  PROVE  SettledInv'
<1>1. PICK e : e = job[l].event
  OBVIOUS
<1>2. e \in stored \cup lossEvents /\ ~IsSkipped(e)
  BY <1>1 DEF LookUp, LedgerInv, JobIsSound, SettledInv, JobIsDecided
<1>3. UNCHANGED <<entries, booked, sessions, sales, stored>>
  BY DEF LookUp, checkoutVars
<1>4. CASE job' = [job EXCEPT ![l] = Free]
  BY <1>3, <1>4, JobStepKeepsSettled DEF Free
<1>5. ASSUME NEW w \in WritesOf(e), job' = [job EXCEPT ![l] = Job("write", e, w)]
      PROVE  SettledInv'
  <2>1. PICK j : j = Job("write", e, w)
    OBVIOUS
  <2>2. j.pc = "write" /\ j.event = e /\ j.writes = w
    BY <2>1 DEF Job
  <2> QED
    BY <1>2, <1>3, <1>5, <2>1, <2>2, DecisionIsRight, JobStepKeepsSettled
<1> QED
  BY <1>1, <1>4, <1>5 DEF LookUp

LEMMA WriteKeepsSettled ==
  ASSUME LedgerInv, EventsAreUnique, SettledInv, NEW l \in Accountants, Write(l),
         \A m \in Accountants : m = l
  PROVE  SettledInv'
<1>a. PICK e : e = job[l].event
  OBVIOUS
<1>b. PICK w : w = job[l].writes.entries
  OBVIOUS
<1>1. /\ \A n \in w : n.source = e /\ EntryIsSound(n)
      /\ e.name = "SaleCompleted" =>
           (w = {} <=> BookedFor("SaleCanceled", e.aggregate))
      /\ e.name = "SaleCanceled" => (w = {} => RevenueOf(e.aggregate) = {})
  BY <1>a, <1>b DEF Write, SettledInv, JobIsDecided, Decided, LedgerInv, JobIsSound,
                   WritesAreSound
<1>2. /\ entries' = entries \cup w
      /\ booked' = booked \cup {e}
      /\ UNCHANGED <<sessions, sales, stored>>
      /\ job'[l] = Free
  BY <1>a, <1>b DEF Write, checkoutVars, LedgerInv
<1>3. JobIsDecided(l)'
  BY <1>2 DEF JobIsDecided, Free
<1>4. \A x \in Sales : RowMatchesEvents(x)'
  BY <1>2 DEF SettledInv, RowMatchesEvents, EventsOn
<1>5. \A n \in entries' : n.source \in booked'
  BY <1>1, <1>2 DEF SettledInv, BooksExplained
<1>6. \A n \in w : /\ n.sale = e.aggregate
                   /\ e.name = "SaleCompleted" => n.type = "SALE_REVENUE"
                   /\ e.name = "SaleCanceled" => n.type = "SALE_CANCELLATION_REVERSAL"
                   /\ n.type = "SALE_REVENUE" => e.name = "SaleCompleted"
  BY <1>1 DEF EntryIsSound, EntryRow
<1>7. \A a : /\ RevenueOf(a) \subseteq RevenueOf(a)'
             /\ ReversalOf(a) \subseteq ReversalOf(a)'
             /\ BookedFor("SaleCanceled", a) => BookedFor("SaleCanceled", a)'
  BY <1>2 DEF RevenueOf, ReversalOf, BookedFor
<1>8. ASSUME NEW f \in booked', f.name = "SaleCompleted"
      PROVE  RevenueOf(f.aggregate)' # {} \/ BookedFor("SaleCanceled", f.aggregate)'
  <2>1. CASE f \in booked
    BY <2>1, <1>7, <1>8 DEF SettledInv, BooksExplained
  <2>2. CASE f = e
    <3>1. CASE w = {}
      BY <3>1, <2>2, <1>1, <1>7, <1>8
    <3>2. CASE w # {}
      <4>1. PICK n \in w : TRUE
        BY <3>2
      <4>2. n \in RevenueOf(e.aggregate)'
        BY <4>1, <1>2, <1>6, <1>8, <2>2 DEF RevenueOf
      <4> QED
        BY <4>2, <2>2
    <3> QED
      BY <3>1, <3>2
  <2> QED
    BY <1>2, <2>1, <2>2
<1>9. ASSUME NEW f \in booked', f.name = "SaleCanceled"
      PROVE  RevenueOf(f.aggregate)' = {} \/ ReversalOf(f.aggregate)' # {}
  <2>1. CASE w = {}
    <3>1. RevenueOf(f.aggregate)' = RevenueOf(f.aggregate)
      BY <2>1, <1>2 DEF RevenueOf
    <3> QED
      BY <3>1, <1>1, <1>2, <1>7, <1>9, <2>1 DEF SettledInv, BooksExplained
  <2>2. CASE w # {} /\ f = e
    <3>1. PICK n \in w : TRUE
      BY <2>2
    <3>2. n \in ReversalOf(e.aggregate)'
      BY <3>1, <1>2, <1>6, <1>9, <2>2 DEF ReversalOf
    <3> QED
      BY <3>2, <2>2
  <2>3. CASE w # {} /\ f # e
    <3>1. f \in booked
      BY <1>2, <2>3
    <3>2. CASE f.aggregate = e.aggregate /\ e.name = "SaleCompleted"
      <4>1. BookedFor("SaleCanceled", e.aggregate)
        BY <3>1, <3>2, <1>9 DEF BookedFor
      <4> QED
        BY <4>1, <1>1, <2>3, <3>2
    <3>3. CASE ~(f.aggregate = e.aggregate /\ e.name = "SaleCompleted")
      <4>1. RevenueOf(f.aggregate)' = RevenueOf(f.aggregate)
        BY <3>3, <1>2, <1>6 DEF RevenueOf
      <4> QED
        BY <4>1, <3>1, <1>7, <1>9 DEF SettledInv, BooksExplained
    <3> QED
      BY <3>2, <3>3
  <2> QED
    BY <2>1, <2>2, <2>3
<1> QED
  BY <1>3, <1>4, <1>5, <1>8, <1>9 DEF SettledInv, BooksExplained

LEMMA OtherStepsKeepSettled ==
  ASSUME LedgerInv, SettledInv, ~Overlaps, [CheckoutNext]_checkoutVars,
         UNCHANGED <<entries, booked>>,
         \A l \in Accountants : job'[l] = job[l] \/ job'[l] = Free
  PROVE  SettledInv'
<1>1. stored \subseteq stored'
  BY StoredStep DEF LedgerInv
<1>2. \A x \in Sales : RowMatchesEvents(x)'
  BY RowStep DEF LedgerInv, SettledInv
<1>3. BooksExplained'
  BY <1>1 DEF SettledInv, BooksExplained, BookedFor, RevenueOf, ReversalOf
<1>4. ASSUME NEW l \in Accountants PROVE JobIsDecided(l)'
  <2>1. CASE job'[l] = Free
    BY <2>1 DEF JobIsDecided, Free
  <2>2. CASE job'[l] = job[l]
    BY <2>2, <1>1 DEF SettledInv, JobIsDecided, Decided, IsSkipped, BookedFor,
                      RevenueOf, SumNetCashMovementBySession
  <2> QED
    BY <2>1, <2>2
<1> QED
  BY <1>2, <1>3, <1>4 DEF SettledInv

LEMMA SettledStep ==
  ASSUME LedgerInv, EventsAreUnique, SettledInv, ~Overlaps, [OpenNext]_vars,
         \A l, m \in Accountants : l = m
  PROVE  SettledInv'
<1>1. ASSUME NEW l \in Accountants, Take(l) \/ LookUp(l) PROVE SettledInv'
  BY <1>1, TakeKeepsSettled, LookUpKeepsSettled
<1>2. ASSUME NEW l \in Accountants, Write(l) PROVE SettledInv'
  BY <1>2, WriteKeepsSettled
<1>3. ASSUME NEW l \in Accountants, Abort(l) PROVE SettledInv'
  <2>1. \A m \in Accountants : job'[m] = job[m] \/ job'[m] = Free
    BY <1>3 DEF Abort, LedgerInv
  <2> QED
    BY <1>3, <2>1, OtherStepsKeepSettled DEF Abort
<1>4. ASSUME NEW p \in Products, PriceProduct(p) PROVE SettledInv'
  BY <1>4, OtherStepsKeepSettled DEF PriceProduct
<1>5. CASE CheckoutNext /\ UNCHANGED <<ledgerVars, lossEvents>>
  BY <1>5, OtherStepsKeepSettled DEF ledgerVars
<1>6. CASE UNCHANGED vars
  BY <1>6, OtherStepsKeepSettled DEF vars, ledgerVars
<1>7. CASE LossReported
  BY <1>7, OtherStepsKeepSettled DEF LossReported, ledgerVars
<1> QED
  BY <1>1, <1>2, <1>3, <1>4, <1>5, <1>6, <1>7 DEF OpenNext, Next, LedgerNext

LEMMA SettledIsRight ==
  ASSUME LedgerInv, EventsAreUnique, SettledInv, NEW x \in Sales,
         EventsOn("SaleCompleted", x) \cup EventsOn("SaleCanceled", x) \subseteq booked
  PROVE  EffectOnLedger(x) = "booked" <=> sales[x].status = "COMPLETED"
<1>1. \A n \in {"SaleCompleted", "SaleCanceled"} : EventsOn(n, x) \subseteq booked
  OBVIOUS
<1>2. RevenueOf(x) # {} => EventsOn("SaleCompleted", x) # {}
  BY DEF LedgerInv, EntriesAreSound, EntryIsSound, RevenueOf, EventsOn
<1>3. ReversalOf(x) # {} => EventsOn("SaleCanceled", x) # {}
  BY DEF LedgerInv, EntriesAreSound, EntryIsSound, ReversalOf, EventsOn
<1>4. EventsOn("SaleCanceled", x) # {} => RevenueOf(x) = {} \/ ReversalOf(x) # {}
  BY <1>1 DEF SettledInv, BooksExplained, EventsOn
<1>5. EventsOn("SaleCompleted", x) # {} =>
        RevenueOf(x) # {} \/ EventsOn("SaleCanceled", x) # {}
  <2>1. \A e \in booked : e.name = "SaleCanceled" => e \in stored
    BY EventTyped DEF LedgerInv, TablesAreSound
  <2> QED
    BY <1>1, <2>1 DEF SettledInv, BooksExplained, EventsOn, BookedFor
<1>6. RowMatchesEvents(x)
  BY DEF SettledInv
<1>7. CASE sales[x].status = "COMPLETED"
  <2>1. RevenueOf(x) # {} /\ ReversalOf(x) = {}
    BY <1>3, <1>5, <1>6, <1>7 DEF RowMatchesEvents
  <2> QED
    BY <2>1, <1>7, EffectIs
<1>8. CASE sales[x].status # "COMPLETED"
  <2>1. RevenueOf(x) = {} \/ ReversalOf(x) # {}
    BY <1>2, <1>4, <1>6, <1>8 DEF RowMatchesEvents
  <2>2. EffectOnLedger(x) # "booked"
    BY <2>1 DEF EffectOnLedger
  <2> QED
    BY <2>2, <1>8
<1> QED
  BY <1>7, <1>8

\* Whatever the order in which the completion and the cancellation of a sale
\* reach the one instance of the consumer, and however often, the revenue of
\* the sale stands in the ledger exactly if the sale is completed.
THEOREM SettledLedgerIsRight ==
  ASSUME MaxCopies = 1, ~Overlaps, \A l, m \in Accountants : l = m
  PROVE  Spec => [](\A x \in Sales : LedgerIsRight(x))
<1>1. Init => LedgerInv /\ EventsAreUnique /\ SettledInv
  BY LedgerInitially, StoredInitially, SettledInitially DEF Init
<1>2. LedgerInv /\ EventsAreUnique /\ SettledInv /\ [Next]_vars =>
        LedgerInv' /\ EventsAreUnique' /\ SettledInv'
  BY LedgerStep, UniqueStep, SettledStep DEF OpenNext, LedgerInv
<1>3. LedgerInv /\ EventsAreUnique /\ SettledInv => \A x \in Sales : LedgerIsRight(x)
  BY SettledIsRight DEF LedgerIsRight, SalesEvents, EventsOn
<1> QED
  BY <1>1, <1>2, <1>3, PTL DEF Spec

-----------------------------------------------------------------------------
(* The tables of the ledger and their types.                               *)

\* Tables keep their types whatever the handlers looked up: no reconciliation
\* expects a negative amount and no loss is worth nothing.
THEOREM LedgerTypesHold == Spec => []LedgerTypeOK
<1>1. LedgerInv /\ [Next]_vars => LedgerInv'
  BY LedgerStep DEF OpenNext
<1>2. LedgerInv => LedgerTypeOK
  BY DEF LedgerInv, TablesAreSound, EntriesAreSound, EntryIsSound, JobIsSound, LedgerTypeOK
<1> QED
  BY <1>1, <1>2, LedgerInitially, PTL DEF Spec

\* A commit adds to the total of a day what it adds to the revenue of the day.
LEMMA WriteConsolidates ==
  ASSUME LedgerInv, ConsolidationMatchesEntries, NEW l \in Accountants, Write(l)
  PROVE  ConsolidationMatchesEntries'
<1> DEFINE new == job[l].writes.entries
           RevenueOn(d, rows) == {n \in rows : n.day = d /\ n.type = "SALE_REVENUE"}
<1>1. /\ entries' = entries \cup new
      /\ daily' = Accumulated(new)
      /\ \A n \in new : \A o \in entries : o.source # n.source
  BY DEF Write, Unique
<1>2. \A n \in new : EntryIsSound(n)
  BY DEF Write, LedgerInv, JobIsSound, WritesAreSound
<1>3. IsFiniteSet(new)
  BY AtMostOneIsFinite DEF Write, LedgerInv, JobIsSound, WritesAreSound
<1>4. IsFiniteSet(entries) /\ entries \subseteq EntryRow /\ new \subseteq EntryRow
  BY <1>2 DEF LedgerInv, EntriesAreSound, EntryIsSound
<1> HIDE DEF new
<1>5. ASSUME NEW d \in Days
      PROVE  daily'[d].total = MapThenSumSet(Signed, RevenueOn(d, entries'))
  <2>1. PICK S : S = RevenueOn(d, entries)
    OBVIOUS
  <2>2. PICK T : T = RevenueOn(d, new)
    OBVIOUS
  <2>3. S \cup T = RevenueOn(d, entries') /\ S \cap T = {}
    BY <1>1, <2>1, <2>2
  <2>4. /\ IsFiniteSet(S) /\ S \subseteq EntryRow
        /\ IsFiniteSet(T) /\ T \subseteq EntryRow
    BY <1>3, <1>4, <2>1, <2>2, FS_Subset
  <2>5. IsFiniteSet(S \cup T) /\ S \cup T \subseteq EntryRow
    BY <2>4, FS_Union
  <2>6. Total(SignedOf, S \cup T) = Total(SignedOf, S) + Total(SignedOf, T)
    BY <2>3, <2>4, SignedTyped, TotalOfUnion
  <2>7. daily'[d].total = daily[d].total + MapThenSumSet(Signed, T)
    BY <1>1, <2>2 DEF Accumulated
  <2>8. daily[d].total = MapThenSumSet(Signed, S)
    BY <2>1 DEF ConsolidationMatchesEntries
  <2> HIDE DEF RevenueOn
  <2> QED
    BY <2>3, <2>4, <2>5, <2>6, <2>7, <2>8, SignedTotal
<1> QED
  BY <1>5 DEF ConsolidationMatchesEntries

LEMMA ConsolidationStep ==
  ASSUME LedgerInv, ConsolidationMatchesEntries, [OpenNext]_vars
  PROVE  ConsolidationMatchesEntries'
<1>1. ASSUME UNCHANGED <<entries, daily>> PROVE ConsolidationMatchesEntries'
  BY <1>1 DEF ConsolidationMatchesEntries
<1>2. ASSUME NEW l \in Accountants, Take(l) \/ LookUp(l) \/ Abort(l)
      PROVE  UNCHANGED <<entries, daily>>
  BY <1>2 DEF Take, LookUp, Abort
<1>3. ASSUME NEW p \in Products, PriceProduct(p)
      PROVE  UNCHANGED <<entries, daily>>
  BY <1>3 DEF PriceProduct
<1>4. CASE UNCHANGED ledgerVars
  BY <1>1, <1>4 DEF ledgerVars
<1> QED
  BY <1>1, <1>2, <1>3, <1>4, WriteConsolidates
     DEF OpenNext, Next, LedgerNext, LossReported, vars

\* The total of a day, added up event by event, is the revenue of the entries
\* of the day, with any number of instances, copies of events and rollbacks:
\* a transaction that finds its entry there does not add to the day either.
THEOREM ConsolidationAddsUp == Spec => []ConsolidationMatchesEntries
<1>1. Init => ConsolidationMatchesEntries
  <2> SUFFICES ASSUME Init, NEW d \in Days
               PROVE  daily[d].total = MapThenSumSet(Signed,
                        {n \in entries : n.day = d /\ n.type = "SALE_REVENUE"})
    BY DEF ConsolidationMatchesEntries
  <2>1. {n \in entries : n.day = d /\ n.type = "SALE_REVENUE"} = {}
    BY DEF Init, LedgerInit
  <2>2. MapThenSumSet(Signed, {}) = 0
    BY FS_EmptySet, SignedTotal, TotalOfNone
  <2>3. daily[d].total = 0
    BY DEF Init, LedgerInit, NoDay
  <2> QED
    BY <2>1, <2>2, <2>3
<1>2. LedgerInv /\ ConsolidationMatchesEntries /\ [Next]_vars =>
        LedgerInv' /\ ConsolidationMatchesEntries'
  BY LedgerStep, ConsolidationStep DEF OpenNext
<1> QED
  BY <1>1, <1>2, LedgerInitially, PTL DEF Spec

-----------------------------------------------------------------------------
(* What the entries of a sale add up to.                                   *)

Stands(x) == RevenueOf(x) # {} /\ ReversalOf(x) = {}

LEMMA StandsIfBooked ==
  ASSUME LedgerInv, EventsAreUnique, NEW x \in Sales
  PROVE  EffectOnLedger(x) = "booked" <=> Stands(x)
<1>1. Stands(x) => EffectOnLedger(x) = "booked"
  BY EffectIs DEF Stands
<1>2. EffectOnLedger(x) = "booked" => Stands(x)
  BY DEF EffectOnLedger, Stands
<1> QED
  BY <1>1, <1>2

LEMMA SaleTotal ==
  ASSUME LedgerInv, EventsAreUnique, NEW x \in Sales,
         NEW S, S = {n \in entries : n.sale = x}
  PROVE  Total(SignedOf, S) = IF Stands(x) THEN Amount[x] ELSE 0
<1>1. S = RevenueOf(x) \cup ReversalOf(x)
  BY DEF LedgerInv, EntriesAreSound, EntryIsSound, EntryRow, RevenueOf, ReversalOf
<1>2. /\ \A n, o \in RevenueOf(x) : n = o
      /\ \A n, o \in ReversalOf(x) : n = o
      /\ ReversalOf(x) # {} => RevenueOf(x) # {}
  BY OneOfEach
<1>3. \A n \in S : n \in EntryRow /\ n.amount = Amount[x]
  BY DEF LedgerInv, EntriesAreSound, EntryIsSound
<1>4. Amount[x] \in Nat
  BY LedgerConstants
<1>5. CASE RevenueOf(x) = {}
  BY <1>1, <1>2, <1>5, TotalOfNone DEF Stands
<1>6. ASSUME NEW n, RevenueOf(x) = {n}
      PROVE  Total(SignedOf, {n}) = Amount[x] /\ n \in S
  <2>1. n \in S /\ n.type = "SALE_REVENUE"
    BY <1>1, <1>6 DEF RevenueOf
  <2>2. SignedOf[n] = Amount[x]
    BY <1>3, <2>1, SignedTyped
  <2> QED
    BY <1>4, <2>1, <2>2, TotalOfOne
<1>7. CASE RevenueOf(x) # {} /\ ReversalOf(x) = {}
  <2>1. PICK n : RevenueOf(x) = {n}
    BY <1>2, <1>7
  <2>2. S = {n}
    BY <1>1, <1>7, <2>1
  <2> QED
    BY <1>6, <1>7, <2>1, <2>2 DEF Stands
<1>8. CASE RevenueOf(x) # {} /\ ReversalOf(x) # {}
  <2>1. PICK n : RevenueOf(x) = {n}
    BY <1>2, <1>8
  <2>2. PICK o : ReversalOf(x) = {o}
    BY <1>2, <1>8
  <2>3. n.type = "SALE_REVENUE" /\ o.type = "SALE_CANCELLATION_REVERSAL" /\ o \in S
    BY <1>1, <2>1, <2>2 DEF RevenueOf, ReversalOf
  <2>4. S = {n} \cup {o} /\ o \notin {n}
    BY <1>1, <2>1, <2>2, <2>3
  <2>5. SignedOf[o] = -Amount[x] /\ SignedOf[n] \in Int
    BY <1>3, <1>6, <2>1, <2>3, SignedTyped
  <2>6. \A y \in {n} \cup {o} : SignedOf[y] \in Int
    BY <1>4, <2>5
  <2>7. Total(SignedOf, {n} \cup {o}) = Total(SignedOf, {n}) + SignedOf[o]
    BY <2>4, <2>6, FS_Singleton, TotalPutIn
  <2>8. Total(SignedOf, {n}) = Amount[x]
    BY <1>6, <2>1
  <2>9. Total(SignedOf, S) = Total(SignedOf, {n}) + SignedOf[o]
    BY <2>4, <2>7
  <2>10. Total(SignedOf, S) = 0
    BY <1>4, <2>5, <2>8, <2>9
  <2> QED
    BY <1>8, <2>10 DEF Stands
<1> QED
  BY <1>5, <1>7, <1>8

\* Entries of whole sales add up to the amounts of the sales that stand.
LEMMA SalesTotal ==
  ASSUME LedgerInv, EventsAreUnique, NEW S \in SUBSET entries,
         \A n \in S, o \in entries : o.sale = n.sale => o \in S,
         NEW C, C = {x \in {n.sale : n \in S} : Stands(x)}
  PROVE  /\ IsFiniteSet(C) /\ C \subseteq Sales
         /\ Total(SignedOf, S) = Total(Amount, C)
         /\ Total(Amount, C) \in Nat
<1>1. PICK K : K = {n.sale : n \in S}
  OBVIOUS
<1>2. PICK key : key = [n \in entries |-> n.sale]
  OBVIOUS
<1>3. PICK h : h = [x \in K |-> IF Stands(x) THEN Amount[x] ELSE 0]
  OBVIOUS
<1>4. IsFiniteSet(S) /\ S \subseteq EntryRow
  BY FS_Subset DEF LedgerInv, EntriesAreSound, EntryIsSound
<1>5. IsFiniteSet(K)
  <2>1. K = {key[n] : n \in S}
    BY <1>1, <1>2
  <2> QED
    BY <1>4, <2>1, ImageIsFinite
<1>6. K \subseteq Sales
  BY <1>1, <1>4 DEF EntryRow
<1>7. PICK part : part = [x \in K |-> {n \in entries : n.sale = x}]
  OBVIOUS
<1>8. /\ \A x \in K : \A n : n \in part[x] <=> n \in S /\ key[n] = x
      /\ \A n \in S : key[n] \in K
  BY <1>1, <1>2, <1>7
<1>9. Total(h, K) = Total(SignedOf, S)
  <2>1. \A n \in S : SignedOf[n] \in Int
    BY <1>4, SignedTyped
  <2>2. ASSUME NEW x \in K PROVE h[x] = Total(SignedOf, part[x])
    BY <1>3, <1>6, <1>7, SaleTotal
  <2>3. \A x \in K : h[x] = Total(SignedOf, part[x])
    BY <2>2
  <2> QED
    BY <1>4, <1>5, <1>8, <2>1, <2>3, TotalOfParts
<1>10. C \in SUBSET K /\ \A x \in K : x \in C <=> Stands(x)
  BY <1>1
<1>11. \A x \in K : Amount[x] \in Nat
  BY <1>6, LedgerConstants
<1>12. Total(h, K) = Total(Amount, C)
  BY <1>3, <1>5, <1>10, <1>11, TotalOfSome
<1>13. IsFiniteSet(C)
  BY <1>5, <1>10, FS_Subset
<1>14. Total(Amount, C) \in Nat
  BY <1>10, <1>11, <1>13, TotalIsNat
<1> QED
  BY <1>6, <1>9, <1>10, <1>12, <1>13, <1>14

\* All entries of a sale are of one day, one session and one method.
LEMMA EntriesOfSaleAgree ==
  ASSUME LedgerInv, NEW n \in entries, NEW o \in entries, o.sale = n.sale
  PROVE  /\ o.day = n.day /\ o.session = n.session /\ o.cash = n.cash
         /\ n.session = sales[n.sale].session /\ n.cash = InCash[n.sale]
         /\ n.day = Day[n.sale]
<1>1. EntryIsSound(n) /\ EntryIsSound(o)
  BY DEF LedgerInv, EntriesAreSound
<1>2. n.type \in {"SALE_REVENUE", "SALE_CANCELLATION_REVERSAL"}
      /\ o.type \in {"SALE_REVENUE", "SALE_CANCELLATION_REVERSAL"}
  BY <1>1 DEF EntryIsSound, EntryRow
<1>3. n.session = sales[n.sale].session /\ o.session = sales[o.sale].session
  BY <1>1, <1>2 DEF EntryIsSound, LedgerInv, EventsNameTheSession
<1> QED
  BY <1>1, <1>3 DEF EntryIsSound

\* With one event of a name per sale no day and no drawer nets below zero,
\* whichever order and however often the consumers are given the events.
THEOREM NoBookNetsBelowZero ==
  ASSUME MaxCopies = 1
  PROVE  Spec => []NothingNetsBelowZero
<1>1. Init => LedgerInv /\ EventsAreUnique
  BY LedgerInitially, StoredInitially DEF Init
<1>2. LedgerInv /\ EventsAreUnique /\ [Next]_vars => LedgerInv' /\ EventsAreUnique'
  BY LedgerStep, UniqueStep DEF OpenNext, LedgerInv
<1>3. ASSUME LedgerInv, EventsAreUnique PROVE NothingNetsBelowZero
  <2>1. ASSUME NEW S \in SUBSET entries,
               \A n \in S, o \in entries : o.sale = n.sale => o \in S
        PROVE  MapThenSumSet(Signed, S) >= 0
    <3>1. PICK C : C = {x \in {n.sale : n \in S} : Stands(x)}
      OBVIOUS
    <3>2. Total(SignedOf, S) \in Nat
      BY <1>3, <2>1, <3>1, SalesTotal
    <3>3. IsFiniteSet(S) /\ S \subseteq EntryRow
      BY <1>3, FS_Subset DEF LedgerInv, EntriesAreSound, EntryIsSound
    <3>4. MapThenSumSet(Signed, S) = Total(SignedOf, S)
      BY <3>3, SignedTotal
    <3> QED
      BY <3>2, <3>4
  <2>2. ASSUME NEW d PROVE RevenueNetTotal(d) >= 0
    <3>1. PICK S : S = {n \in entries : n.day = d}
      OBVIOUS
    <3>2. \A n \in S, o \in entries : o.sale = n.sale => o \in S
      BY <1>3, <3>1, EntriesOfSaleAgree
    <3> QED
      BY <2>1, <3>1, <3>2 DEF RevenueNetTotal
  <2>3. ASSUME NEW s PROVE SumNetCashMovementBySession(s) >= 0
    <3>1. PICK S : S = {n \in entries : n.session = s /\ n.cash}
      OBVIOUS
    <3>2. \A n \in S, o \in entries : o.sale = n.sale => o \in S
      BY <1>3, <3>1, EntriesOfSaleAgree
    <3> QED
      BY <2>1, <3>1, <3>2 DEF SumNetCashMovementBySession
  <2> QED
    BY <2>2, <2>3 DEF NothingNetsBelowZero
<1> QED
  BY <1>1, <1>2, <1>3, PTL DEF Spec

-----------------------------------------------------------------------------
(* The profit and loss report.                                             *)

\* The days of a report.
LEMMA DaysTotal ==
  ASSUME NEW S, IsFiniteSet(S), NEW g, g = [d \in S |-> ProfitAndLossTotal(d)]
  PROVE  MapThenSumSet(ProfitAndLossTotal, S) = Total(g, S)
<1> DEFINE IsIter(h) ==
             h = [s \in SUBSET S |->
                    IF s = {} THEN 0
                    ELSE ProfitAndLossTotal(CHOOSE x \in s : TRUE)
                           + h[s \ {CHOOSE x \in s : TRUE}]]
           iter == CHOOSE h : IsIter(h)
<1>1. ASSUME NEW h PROVE SumsUp(h, g, S) <=> IsIter(h)
  <2> DEFINE a == [s \in SUBSET S |->
                     IF s = {} THEN 0 ELSE g[One(s)] + h[s \ {One(s)}]]
             b == [s \in SUBSET S |->
                     IF s = {} THEN 0 ELSE ProfitAndLossTotal(One(s)) + h[s \ {One(s)}]]
  <2>1. \A s \in SUBSET S : s # {} => g[One(s)] = ProfitAndLossTotal(One(s))
    BY DEF One
  <2>2. \A s \in SUBSET S : a[s] = b[s]
    BY <2>1
  <2>3. a = [s \in SUBSET S |-> a[s]] /\ b = [s \in SUBSET S |-> b[s]]
    OBVIOUS
  <2>4. a = b
    <3> HIDE DEF a, b
    <3> QED
      BY <2>2, <2>3
  <2> QED
    BY <2>4 DEF SumsUp, One
<1>2. PICK f : SumsUp(f, g, S) /\ f[S] = Total(g, S)
  BY TotalSumsUp
<1>3. SumsUp(iter, g, S)
  <2> HIDE DEF IsIter
  <2> QED
    BY <1>1, <1>2
<1>4. MapThenSumSet(ProfitAndLossTotal, S) = iter[S]
  BY DEF MapThenSumSet, MapThenFoldSet
<1> HIDE DEF iter
<1> QED
  BY <1>2, <1>3, <1>4, SumIsUnique

\* No entry and no loss is of a later day than the last of the report.
LEMMA LastDayIsLast ==
  ASSUME LedgerInv
  PROVE  /\ LastDay \in Nat
         /\ \A n \in entries \cup losses : n.day \in 0..LastDay
<1>1. PICK R : R = entries \cup losses
  OBVIOUS
<1>2. PICK day : day = [n \in R |-> n.day]
  OBVIOUS
<1>3. PICK D : D = {n.day : n \in R} \cup {0}
  OBVIOUS
<1>4. IsFiniteSet(R) /\ \A n \in R : n.day \in Nat
  BY <1>1, FS_Union
     DEF LedgerInv, EntriesAreSound, EntryIsSound, EntryRow, TablesAreSound, LossRow
<1>5. IsFiniteSet({n.day : n \in R})
  <2>1. {n.day : n \in R} = {day[n] : n \in R}
    BY <1>2
  <2> QED
    BY <1>4, <2>1, ImageIsFinite
<1>6. IsFiniteSet(D) /\ D \in SUBSET Nat /\ D # {}
  BY <1>3, <1>4, <1>5, FS_AddElement
<1>7. Max(D) \in D /\ \A d \in D : d <= Max(D)
  BY <1>6, MaxOfNats
<1>8. LastDay = Max(D)
  BY <1>1, <1>3 DEF LastDay
<1> QED
  BY <1>1, <1>3, <1>4, <1>6, <1>7, <1>8

\* The days of the report add up to all entries less all losses.
LEMMA ReportIsWhole ==
  ASSUME LedgerInv
  PROVE  Report(0, LastDay) = Total(SignedOf, entries) - Total(LossOf, losses)
<1>1. PICK D : D = 0..LastDay
  OBVIOUS
<1>2. IsFiniteSet(D)
  BY <1>1, LastDayIsLast, FS_Interval
<1>3. /\ IsFiniteSet(entries) /\ entries \subseteq EntryRow
      /\ IsFiniteSet(losses) /\ losses \subseteq LossRow
  BY DEF LedgerInv, EntriesAreSound, EntryIsSound, TablesAreSound
<1>4. PICK net : net = [d \in D |-> RevenueNetTotal(d)]
  OBVIOUS
<1>5. PICK loss : loss = [d \in D |-> InventoryLossTotal(d)]
  OBVIOUS
<1>6. PICK g : g = [d \in D |-> ProfitAndLossTotal(d)]
  OBVIOUS
<1>7. Total(net, D) = Total(SignedOf, entries) /\ \A d \in D : net[d] \in Int
  <2>1. PICK key : key = [n \in entries |-> n.day]
    OBVIOUS
  <2>2. PICK part : part = [d \in D |-> {n \in entries : n.day = d}]
    OBVIOUS
  <2>3. /\ \A n \in entries : key[n] \in D
        /\ \A d \in D : \A n : n \in part[d] <=> n \in entries /\ key[n] = d
    BY <1>1, <2>1, <2>2, LastDayIsLast
  <2>4. \A n \in entries : SignedOf[n] \in Int
    BY <1>3, SignedTyped
  <2>5. ASSUME NEW d \in D
        PROVE  net[d] = Total(SignedOf, part[d]) /\ net[d] \in Int
    <3>1. PICK S : S = part[d]
      OBVIOUS
    <3>2. S \subseteq entries /\ IsFiniteSet(S)
      BY <1>3, <2>2, <3>1, FS_Subset
    <3>3. MapThenSumSet(Signed, S) = Total(SignedOf, S)
      BY <1>3, <3>2, SignedTotal
    <3>4. net[d] = MapThenSumSet(Signed, S)
      BY <1>4, <2>2, <3>1 DEF RevenueNetTotal
    <3>5. Total(SignedOf, S) \in Int
      BY <2>4, <3>2, TotalIsInt
    <3> QED
      BY <3>1, <3>3, <3>4, <3>5
  <2>6. \A d \in D : net[d] = Total(SignedOf, part[d])
    BY <2>5
  <2>7. Total(net, D) = Total(SignedOf, entries)
    BY <1>2, <1>3, <2>3, <2>4, <2>6, TotalOfParts
  <2> QED
    BY <2>5, <2>7
<1>8. Total(loss, D) = Total(LossOf, losses) /\ \A d \in D : loss[d] \in Int
  <2>1. PICK key : key = [n \in losses |-> n.day]
    OBVIOUS
  <2>2. PICK part : part = [d \in D |-> {n \in losses : n.day = d}]
    OBVIOUS
  <2>3. /\ \A n \in losses : key[n] \in D
        /\ \A d \in D : \A n : n \in part[d] <=> n \in losses /\ key[n] = d
    BY <1>1, <2>1, <2>2, LastDayIsLast
  <2>4. \A n \in losses : LossOf[n] \in Int
    BY <1>3 DEF LossOf, AmountOf, LossRow
  <2>5. ASSUME NEW d \in D
        PROVE  loss[d] = Total(LossOf, part[d]) /\ loss[d] \in Int
    <3>1. PICK S : S = part[d]
      OBVIOUS
    <3>2. S \subseteq losses /\ IsFiniteSet(S)
      BY <1>3, <2>2, <3>1, FS_Subset
    <3>3. MapThenSumSet(AmountOf, S) = Total(LossOf, S)
      BY <1>3, <3>2, LossTotal
    <3>4. loss[d] = MapThenSumSet(AmountOf, S)
      BY <1>5, <2>2, <3>1 DEF InventoryLossTotal
    <3>5. Total(LossOf, S) \in Int
      BY <2>4, <3>2, TotalIsInt
    <3> QED
      BY <3>1, <3>3, <3>4, <3>5
  <2>6. \A d \in D : loss[d] = Total(LossOf, part[d])
    BY <2>5
  <2>7. Total(loss, D) = Total(LossOf, losses)
    BY <1>2, <1>3, <2>3, <2>4, <2>6, TotalOfParts
  <2> QED
    BY <2>5, <2>7
<1>9. Total(g, D) = Total(net, D) - Total(loss, D)
  <2>1. \A d \in D : net[d] \in Int /\ loss[d] \in Int /\ g[d] = net[d] - loss[d]
    BY <1>4, <1>5, <1>6, <1>7, <1>8 DEF ProfitAndLossTotal
  <2> QED
    BY <1>2, <2>1, TotalOfDifferences
<1>10. Report(0, LastDay) = MapThenSumSet(ProfitAndLossTotal, D)
  BY <1>1 DEF Report
<1>11. MapThenSumSet(ProfitAndLossTotal, D) = Total(g, D)
  BY <1>2, <1>6, DaysTotal
<1> QED
  BY <1>7, <1>8, <1>9, <1>10, <1>11

\* Where all events are handled, the sales that stand are the completed ones.
LEMMA StandsIfCompleted ==
  ASSUME LedgerInv, EventsAreUnique, SettledInv,
         NEW x \in Sales, SalesEvents({x}) \subseteq booked
  PROVE  Stands(x) <=> sales[x].status = "COMPLETED"
BY SettledIsRight, StandsIfBooked DEF SalesEvents, EventsOn

LEMMA SettledReport ==
  ASSUME LedgerInv, EventsAreUnique, SettledInv
  PROVE  ReportMatchesSales
<1> SUFFICES ASSUME SalesEvents(Sales) \subseteq booked
             PROVE  Report(0, LastDay) = CompletedRevenue - MapThenSumSet(AmountOf, losses)
  BY DEF ReportMatchesSales
<1>1. PICK C : C = {x \in {n.sale : n \in entries} : Stands(x)}
  OBVIOUS
<1>2. PICK E : E = {x \in Sales : sales[x].status = "COMPLETED"}
  OBVIOUS
<1>3. \A x \in Sales : SalesEvents({x}) \subseteq booked
  BY DEF SalesEvents
<1>4. C \subseteq Sales /\ Total(SignedOf, entries) = Total(Amount, C)
  <2>1. \A n \in entries, o \in entries : o.sale = n.sale => o \in entries
    OBVIOUS
  <2>2. entries \in SUBSET entries
    OBVIOUS
  <2> QED
    BY <1>1, <2>1, <2>2, SalesTotal
<1>5. C = E
  <2>1. \A x \in Sales : Stands(x) => x \in {n.sale : n \in entries}
    BY DEF Stands, RevenueOf
  <2>2. \A x \in Sales : Stands(x) <=> sales[x].status = "COMPLETED"
    BY <1>3, StandsIfCompleted
  <2> QED
    BY <1>1, <1>2, <1>4, <2>1, <2>2
<1>6. CompletedRevenue = Total(Amount, E)
  BY <1>2 DEF CompletedRevenue, Total
<1>7. MapThenSumSet(AmountOf, losses) = Total(LossOf, losses)
  BY LossTotal DEF LedgerInv, TablesAreSound
<1> QED
  BY <1>4, <1>5, <1>6, <1>7, ReportIsWhole

\* The report over all days matches the checkout: once the events of the sales
\* are handled, in any order, it is the revenue of the completed sales less the
\* losses, whatever reversals and days are in between.
THEOREM ReportIsRight ==
  ASSUME MaxCopies = 1, ~Overlaps, \A l, m \in Accountants : l = m
  PROVE  Spec => []ReportMatchesSales
<1>1. Init => LedgerInv /\ EventsAreUnique /\ SettledInv
  BY LedgerInitially, StoredInitially, SettledInitially DEF Init
<1>2. LedgerInv /\ EventsAreUnique /\ SettledInv /\ [Next]_vars =>
        LedgerInv' /\ EventsAreUnique' /\ SettledInv'
  BY LedgerStep, UniqueStep, SettledStep DEF OpenNext, LedgerInv
<1>3. LedgerInv /\ EventsAreUnique /\ SettledInv => ReportMatchesSales
  BY SettledReport
<1> QED
  BY <1>1, <1>2, <1>3, PTL DEF Spec

-----------------------------------------------------------------------------
(* Register closures.                                                      *)

\* The drawer holds the cash of the completed sales once they are handled.
LEMMA SettledDrawer ==
  ASSUME LedgerInv, EventsAreUnique, SettledInv, NEW s,
         SalesEvents({x \in Sales : sales[x].session = s}) \subseteq booked
  PROVE  SumNetCashMovementBySession(s) = CashTaken(s)
<1>1. PICK S : S = {n \in entries : n.session = s /\ n.cash}
  OBVIOUS
<1>2. PICK C : C = {x \in {n.sale : n \in S} : Stands(x)}
  OBVIOUS
<1>3. PICK E : E = {x \in Sales : /\ sales[x].session = s /\ InCash[x]
                                  /\ sales[x].status = "COMPLETED"}
  OBVIOUS
<1>4. \A x \in Sales : sales[x].session = s => SalesEvents({x}) \subseteq booked
  BY DEF SalesEvents
<1>5. \A n \in S, o \in entries : o.sale = n.sale => o \in S
  BY <1>1, EntriesOfSaleAgree
<1>6. C \subseteq Sales /\ Total(SignedOf, S) = Total(Amount, C)
  BY <1>1, <1>2, <1>5, SalesTotal
<1>7. C = E
  <2>1. ASSUME NEW x \in C PROVE x \in E
    <3>1. PICK n \in S : n.sale = x /\ Stands(x)
      BY <1>2
    <3>2. sales[x].session = s /\ InCash[x]
      BY <1>1, <3>1, EntriesOfSaleAgree
    <3>3. sales[x].status = "COMPLETED"
      BY <1>4, <1>6, <3>1, <3>2, StandsIfCompleted
    <3> QED
      BY <1>3, <1>6, <3>2, <3>3
  <2>2. ASSUME NEW x \in E PROVE x \in C
    <3>1. Stands(x)
      BY <1>3, <1>4, StandsIfCompleted
    <3>2. PICK n \in entries : n.sale = x
      BY <3>1 DEF Stands, RevenueOf
    <3>3. n \in S
      BY <1>1, <1>3, <3>2, EntriesOfSaleAgree
    <3> QED
      BY <1>2, <3>1, <3>2, <3>3
  <2> QED
    BY <2>1, <2>2
<1>8. CashTaken(s) = Total(Amount, E)
  BY <1>3 DEF CashTaken, Total
<1>9. IsFiniteSet(S) /\ S \subseteq EntryRow
  BY <1>1, FS_Subset DEF LedgerInv, EntriesAreSound, EntryIsSound
<1>10. SumNetCashMovementBySession(s) = Total(SignedOf, S)
  BY <1>1, <1>9, SignedTotal DEF SumNetCashMovementBySession
<1> QED
  BY <1>6, <1>7, <1>8, <1>10

LEMMA ClosureStep ==
  ASSUME LedgerInv, EventsAreUnique, SettledInv, [OpenNext]_vars,
         NEW r \in reconciliations' \ reconciliations,
         SalesEvents({x \in Sales : sales[x].session = r.session}) \subseteq booked
  PROVE  r.expected = OpeningFloat[r.session] + CashTaken(r.session)
<1>1. CASE \E l \in Accountants : Write(l)
  <2>1. PICK l \in Accountants : Write(l)
    BY <1>1
  <2>2. job[l].pc = "write" /\ r \in job[l].writes.reconciliations
    BY <2>1 DEF Write
  <2>3. r.expected = OpeningFloat[r.session] + SumNetCashMovementBySession(r.session)
    BY <2>2 DEF SettledInv, JobIsDecided, Decided
  <2> QED
    BY <2>3, SettledDrawer
<1>2. CASE UNCHANGED reconciliations
  BY <1>2
<1>3. ASSUME NEW l \in Accountants, Take(l) \/ LookUp(l) \/ Abort(l)
      PROVE  UNCHANGED reconciliations
  BY <1>3 DEF Take, LookUp, Abort
<1>4. ASSUME NEW p \in Products, PriceProduct(p)
      PROVE  UNCHANGED reconciliations
  BY <1>4 DEF PriceProduct
<1>5. CASE (CheckoutNext /\ UNCHANGED <<ledgerVars, lossEvents>>) \/ LossReported
             \/ UNCHANGED vars
  BY <1>2, <1>5 DEF ledgerVars, LossReported, vars
<1> QED
  BY <1>1, <1>2, <1>3, <1>4, <1>5 DEF OpenNext, Next, LedgerNext

\* A closure that is handled after the events of the session's sales expects
\* the float and the cash that completed and canceled sales left there.
THEOREM ClosureExpectsTheDrawer ==
  ASSUME MaxCopies = 1, ~Overlaps, \A l, m \in Accountants : l = m
  PROVE  Spec => ClosureAfterSalesIsRight
<1>1. Init => LedgerInv /\ EventsAreUnique /\ SettledInv
  BY LedgerInitially, StoredInitially, SettledInitially DEF Init
<1>2. LedgerInv /\ EventsAreUnique /\ SettledInv /\ [Next]_vars =>
        LedgerInv' /\ EventsAreUnique' /\ SettledInv'
  BY LedgerStep, UniqueStep, SettledStep DEF OpenNext, LedgerInv
<1>3. LedgerInv /\ EventsAreUnique /\ SettledInv /\ [Next]_vars =>
        [\A r \in reconciliations' \ reconciliations :
           SalesEvents({x \in Sales : sales[x].session = r.session}) \subseteq booked
             => r.expected = OpeningFloat[r.session] + CashTaken(r.session)]_vars
  BY ClosureStep DEF OpenNext
<1> QED
  BY <1>1, <1>2, <1>3, PTL DEF Spec, ClosureAfterSalesIsRight
=============================================================================
