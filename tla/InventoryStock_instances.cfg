\* Two consumer instances, after a rebalance, work on the events of one sale.
SPECIFICATION Spec
CONSTANTS
  s1 = s1
  p1 = p1
  p2 = p2
  Sales = {x1}
  Sessions = {s1}
  None = None
  Overlaps = FALSE
  MaxCopies = 1
  Products = {p1, p2}
  Cooldown = 1
  Items <- TwoLines
  Consumers = {c1, c2}
  Clerks = {}
  Documents = {}
  MaxDocuments = 0
  Workers = {}
  ByBarcode <- TwoProducts
  AlertLimit = 1
CONSTRAINT NoClosures
INVARIANTS
  ReversionsFindTheirItem
CHECK_DEADLOCK FALSE
