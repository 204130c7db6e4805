CONSTANTS
  r1 = r1
  r2 = r2
  k1 = k1
  k2 = k2
  a = a
  b = b
  Requests = {r1, r2}
  Keys = {k1, k2}
  Derives = {a}
  MaxKeys = 1
  MaxVersion = 2
  MaxFaults = 2
  Trapping = TRUE
  LoadMayFail = TRUE
  Enqueuing = TRUE
SPECIFICATION Spec
SYMMETRY Symmetry
INVARIANTS StaleHasOwner AckedDurable
