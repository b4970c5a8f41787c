\* Two cashiers, each on the sessions they opened, sharing the register; a cart
\* of two products, two prices and any payment.
SPECIFICATION Spec
CONSTANTS
  Sessions = {s1, s2}
  Sales = {x1}
  Registers = {r1}
  Operators = {o1, o2}
  Products = {p1, p2}
  Prices = {1, 2}
  MaxQty = 2
  MaxPaid = 9
  SharedSessions = FALSE
  MaxEvents = 4
  None = None
  MaxCopies = 1
SYMMETRY Symmetry
INVARIANTS
  OneOpenSessionPerRegister
  SalesAreInOrder
PROPERTY
  ImplementsSaleEvents
