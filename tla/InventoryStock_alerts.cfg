\* Two products, invoices that lock them in opposite orders, and a scan whose
\* query reads one row.
SPECIFICATION FairSpec
CONSTANTS
  s1 = s1
  p1 = p1
  p2 = p2
  Sales = {}
  Sessions = {}
  None = None
  Overlaps = FALSE
  MaxCopies = 1
  Products = {p1, p2}
  Cooldown = 1
  Items <- TwoLines
  Consumers = {}
  Clerks = {k1, k2}
  Documents <- CrossedPapers
  MaxDocuments = 3
  Workers = {v1}
  ByBarcode <- TwoProducts
  AlertLimit = 1
PROPERTIES
  LowStockIsAnnounced
CHECK_DEADLOCK FALSE
