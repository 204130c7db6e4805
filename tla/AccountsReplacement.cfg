CONSTANTS
  Requests = {r1, r2}
  ScanLimit = 2
  Attempts = 2
  MaxRequests = 4
SPECIFICATION EpochSpec
INVARIANT ReplacementSurvives
CHECK_DEADLOCK FALSE
