CONSTANTS
  d1 = d1
  d2 = d2
  Dispatches = {d1}
  KeyedIds = {9}
  Amounts = {1, 2}
  Ttls = {1}
  Totals <- SmallTotals
  MaxReservations = 2
  Half = 8
  MaxId = 2
  MaxNow = 1
  DiskMayFail = FALSE
SPECIFICATION Spec
INVARIANTS MissMeansUnknown
