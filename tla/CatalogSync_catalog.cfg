\* Two requests and one consumer; two ids for one barcode and for one code.
SPECIFICATION FairSpec
CONSTANTS
  Products = {p1, p2}
  Barcodes = {b1}
  Prices = {1, 2}
  Employees = {x1, x2}
  Codes = {k1}
  Managers = {m1, m2}
  MaxTime = 2
  MaxUpdates = 2
  Receivers = {c1}
INVARIANTS
  TypeOK
  KeysAreUnique
PROPERTIES
  ImplementsLatestPrice
  ScansShowTheCurrentPrice
CHECK_DEADLOCK FALSE
