\* Two cashiers whose requests meet on one session: SalesCanBeLoaded fails.
SPECIFICATION Spec
CONSTANTS
  Sessions = {s1}
  Sales = {x1}
  Registers = {r1}
  Operators = {o1, o2}
  Products = {p1}
  Prices = {1}
  MaxQty = 2
  MaxPaid = 2
  SharedSessions = TRUE
  MaxEvents = 3
  None = None
  MaxCopies = 3
SYMMETRY Symmetry
INVARIANTS
  SalesCanBeLoaded
