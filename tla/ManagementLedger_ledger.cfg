\* Two consumer instances, after a rebalance, work on the events of two sales.
SPECIFICATION Spec
CONSTANTS
  x1 = x1
  Sales = {x1, x2}
  Sessions = {s1, s2}
  None = None
  Overlaps = FALSE
  MaxCopies = 1
  Accountants = {a1, a2}
  Amount <- Amounts
  InCash <- Methods
  Day <- Dates
  OpeningFloat <- Floats
  Products = {p1}
  Prices = {1}
SYMMETRY Symmetry
INVARIANTS
  ConsolidationMatchesEntries
  NothingNetsBelowZero
PROPERTIES
  LedgerImplementsBooks
CHECK_DEADLOCK FALSE
