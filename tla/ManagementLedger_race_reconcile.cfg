\* RegisterClosed and the sale events come through topics of their own:
\* ReconciliationCountsTheSession fails.
SPECIFICATION Spec
CONSTANTS
  x1 = x1
  Sales = {x1}
  Sessions = {s1}
  None = None
  Overlaps = FALSE
  MaxCopies = 1
  Accountants = {a1}
  Amount <- Amounts
  InCash <- Methods
  Day <- Dates
  OpeningFloat <- Floats
  Products = {p1}
  Prices = {1}
INVARIANTS
  ReconciliationCountsTheSession
CHECK_DEADLOCK FALSE
