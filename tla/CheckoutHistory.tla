--------------------------- MODULE CheckoutHistory ---------------------------
(***************************************************************************)
(* Checkout with two history variables that say which requests lost a      *)
(* race.  A request decides on what it has read: the row of its sale, the  *)
(* row of its session, the count of the session's open sales.  It is stale *)
(* from the moment another request commits a change of that, because the   *)
(* code neither locks what it reads nor checks a version when it writes.   *)
(* A sale or a session is overtaken once a stale request has written it.   *)
(*                                                                         *)
(* What the aggregates check in memory can fail in the tables only for     *)
(* what has been overtaken.  The history variables only record: Track      *)
(* never restricts a step of Checkout.                                     *)
(***************************************************************************)
EXTENDS Checkout

VARIABLES
  stale,     \* operators whose request has read what has changed since
  overtaken  \* sales and sessions a stale request has written

historyVars == <<sessionTable, saleTable, outbox, request, stale, overtaken>>

HistoryInit == Init /\ stale = {} /\ overtaken = {}

-----------------------------------------------------------------------------
\* What a request has read so far and will rely on when it writes.
HasCopy(r)    == r.op \in SaleOps /\ r.pc # "findSale"
HasSession(r) == \/ r.op = "start" /\ r.pc = "write"
                 \/ r.op = "close" /\ r.pc \in {"countSales", "write"}
HasCount(r)   == r.op = "close" /\ r.pc = "write"

\* The step changes something that r has read.
Overtakes(r) ==
  \/ HasCopy(r) /\ saleTable'[r.sale] # saleTable[r.sale]
  \/ HasSession(r) /\ sessionTable'[r.session] # sessionTable[r.session]
  \/ HasCount(r) /\ \E s \in Sessions :
       s = r.session /\ NonTerminal(s)' # NonTerminal(s)

\* The session or the sale that a request writes.
Target(r) == IF r.op \in {"open", "close"} THEN r.session ELSE r.sale

Track ==
  /\ stale' = {c \in Operators : /\ request'[c].pc # "idle"
                                 /\ c \in stale \/ Overtakes(request[c])}
  /\ overtaken' = overtaken \cup {Target(request[c]) : c \in {o \in stale : Write(o)}}

HistoryNext == Next /\ Track

HistorySpec == HistoryInit /\ [][HistoryNext]_historyVars

-----------------------------------------------------------------------------
(* Properties.  None of them asks operators to keep to their own sessions. *)

\* A closed session has no open or paid sale, which could neither be completed
\* nor canceled any more: unless the closing was overtaken (a sale started
\* after the count), or the sale was started or written by a request that was
\* (the session was closed after StartSale had found it open).
ClosedSessionsAreSettled ==
  \A s \in Sessions \ overtaken :
    sessionTable[s].status = "CLOSED" => NonTerminal(s) \subseteq overtaken

\* A sale whose requests did not overtake one another is completed once and
\* canceled once, however often they were repeated; so is a session closed.
EachEventOnce ==
  \A i, j \in DOMAIN outbox :
    /\ outbox[i].name = outbox[j].name
    /\ outbox[i].aggregate = outbox[j].aggregate
    /\ outbox[i].aggregate \notin overtaken
    => i = j

\* What was announced stays true of such a sale: the row of a completed sale
\* keeps the items, totals and payment of its event, a canceled sale stays so.
EventsTellTheTruth ==
  \A i \in DOMAIN outbox :
    LET e == outbox[i]
        row == saleTable[e.aggregate]
    IN  e.aggregate \notin overtaken =>
          /\ e.name = "SaleCompleted" =>
               /\ row.completedAt
               /\ row.items = e.state.items /\ row.total = e.state.total
               /\ row.pay = e.state.pay
          /\ e.name = "SaleCanceled" => row = e.state

\* A sale that no stale request wrote can be loaded, and was paid for what its
\* row says it costs.
SalesStayInOrder ==
  \A x \in Sales \ overtaken : Exists(x) =>
    Consistent(saleTable[x]) /\ PaymentCoversTotal(saleTable[x])

\* Such a sale only moves OPEN, PAID, COMPLETED, or to CANCELED, and its cart
\* and payment are frozen once it has left OPEN.
Forward == {<<"OPEN", "PAID">>, <<"PAID", "COMPLETED">>, <<"OPEN", "CANCELED">>,
            <<"PAID", "CANCELED">>, <<"COMPLETED", "CANCELED">>}

SalesMoveForward ==
  [][\A x \in Sales \ overtaken' : Exists(x) /\ saleTable'[x] # saleTable[x] =>
       LET old == saleTable[x]
           new == saleTable'[x]
       IN  \/ old.status = "OPEN" /\ new.status = "OPEN"
           \/ /\ <<old.status, new.status>> \in Forward
              /\ new.items = old.items /\ new.total = old.total
              /\ old.status # "OPEN" => new.pay = old.pay]_saleTable
=============================================================================
