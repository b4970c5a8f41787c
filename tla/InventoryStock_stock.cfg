\* Sales, documents and the alert scan meet on one product.
SPECIFICATION Spec
CONSTANTS
  s1 = s1
  p1 = p1
  p2 = p2
  Sales = {x1}
  Sessions = {s1}
  None = None
  Overlaps = FALSE
  MaxCopies = 1
  Products = {p1}
  Cooldown = 1
  Items <- OneLine
  Consumers = {c1}
  Clerks = {k1, k2}
  Documents <- Papers
  MaxDocuments = 2
  Workers = {v1}
  ByBarcode <- OneProduct
  AlertLimit = 1
CONSTRAINT NoClosures
SYMMETRY Symmetry
INVARIANTS
  TypeOK
  StockMatchesMovements
  InvoiceReceivedOnce
  AverageCostWithinCosts
PROPERTIES
  AlertsRespectCooldown
  ScansMoveNoStock
CHECK_DEADLOCK FALSE
