CONSTANTS
  v1 = v1
  v2 = v2
  mark = mark
  Dispatches = {r1, r2}
  RowKeys = {a, b, p}
  Plain = {p}
  Values = {v1, v2}
  MarkOf <- SmallMarks
  Blank = Blank
  Idems = {i1}
  NoIdem = NoIdem
  i1 = i1
  KeysOf <- SmallKeys
  NoValue = NoValue
  UniqueKeys = {n1}
  Owners = {o1, o2}
  Counters = {c1}
  Deltas = {2}
  Low = 0
  High = 1
  MaxWrites = 3
  DiskMayFail = FALSE
  Items <- SmallItems
  HashOf <- SmallHashes
  PerBucket = 2
  Buckets = 3
  Probes = 3
  Weight <- SmallWeights
  Room = 2
  Limit = 2
  MaxChanges = 2
  Requests = {r1, r2}
  ScanLimit = 2
  Attempts = 2
  MaxRequests = 3
  Names = {a, b}
  Emails = {e, f}
  Registrants = {r1, r2}
  IndexTries = 2
  MaxRegistrants = 4
  Handlers = {r1, r2}
  MaxHandlers = 3
  MaxStep = 2
  MaxLives = 2
  MaxAttempts = 2
  Visitors = {v1}
  Anyone = Anyone
  Viewed = {"p", "q"}
  Viewers = {w1, w2}
  MaxStored = 1
  Minutes = {1, 3}
  MaxMinutes = 2
  MaxGuest = 1
  MaxMoment = 3
  Kids = {kid1, kid2}
  Lifetimes = {1, 9}
  MaxLifetime = 2
  Cooldown = 2
  FetchLimit = 1
  MaxSecond = 6
SPECIFICATION BackendSpec
SYMMETRY Symmetry
INVARIANTS WalkExact UniqueHeld AnswersStand ConsumedOnce RevokedStaysOut FactorStands LiveIsReachable SessionsCurrent OnceOnly CachesHold
PROPERTIES FactorProved
CHECK_DEADLOCK FALSE
