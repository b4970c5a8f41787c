\* One consumer instance in each service, a sale and a loss.
SPECIFICATION FairSpec
CONSTANTS
  x1 = x1
  p1 = p1
  Sales = {x1}
  Sessions = {s1}
  None = None
  Overlaps = FALSE
  MaxCopies = 1
  Products = {p1}
  Cooldown = 1
  Items <- Lines
  Consumers = {c1}
  Clerks = {k1}
  Documents <- OneLoss
  MaxDocuments = 1
  Workers = {}
  ByBarcode <- Barcodes
  AlertLimit = 1
  Accountants = {a1}
  Amount <- Amounts
  InCash <- Methods
  Day <- Dates
  OpeningFloat <- Floats
  Prices = {1}
INVARIANTS
  TypeOK
  BooksAgree
  ReportMatchesSales
PROPERTIES
  StockImplementsBooks
  ClosureAfterSalesIsRight
  EventsAreHandled
CHECK_DEADLOCK FALSE
