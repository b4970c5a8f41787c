\* Two cashiers whose requests meet on one session and on its sales.
SPECIFICATION HistorySpec
CONSTANTS
  Sessions = {s1}
  Sales = {x1}
  Registers = {r1}
  Operators = {o1, o2}
  Products = {p1}
  Prices = {1}
  MaxQty = 1
  MaxPaid = 1
  SharedSessions = TRUE
  MaxEvents = 2
  None = None
  MaxCopies = 2
SYMMETRY Symmetry
INVARIANTS
  TypeOK
  StateChangesAreInOutbox
  ReversalFollowsCompletion
  PayloadsAddUp
  ClosedSessionsAreSettled
  EachEventOnce
  EventsTellTheTruth
  SalesStayInOrder
PROPERTIES
  ImplementsSaleEvents
  SalesMoveForward
