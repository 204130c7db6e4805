CONSTANTS
  Pages = {"home", "list"}
  Start = "home"
  Policy <- SmallPolicy
  Runs = {u1}
  MaxEntries = 1
  MaxFetches = 3
  MaxEpoch = 2
  MaxWrites = 1
  Sizes = {1, 2}
  RingSize = 3
  MaxFrame = 1
  MaxStage = 1
  MaxStaged = 3
  MaxSends = 2
  c1 = c1
  c2 = c2
  c3 = c3
  c4 = c4
  c5 = c5
  dev = dev
  shell = shell
  other = other
  Calls = {c1, c2, c3, c4, c5}
  Home <- SmallHome
  NoCall = NoCall
  MaxCrashes = 1
  MaxIoFaults = 1
  Tiers <- SmallTiers
  Rpc = "request"
  Files = {"shared.ts", "main.ts"}
  Watched = {"main.ts"}
  Reads <- SmallReads
  Contents = {0, 1}
  First = 0
  Uncached = {c5}
  Dev = dev
  Releases = {"r1", "r2"}
  Documents <- SmallDocuments
  Assets <- SmallAssets
  MaxEdits = 2
  MaxHands = 1
  BlobCalls = {b1, b2, b3}
  BlobKeys = {k1}
  Absent = Absent
  MaxUploads = 2
  MaxBlobFaults = 1
  Strategies = {"fixed", "sliding", "bucket", "trailing"}
  Rules <- SmallRules
  Milli = 2
  MaxClock = 8
  Recipients = {m1, m2}
  Purposes = {p1}
  Dedup = 2
  Hour = 4
  Minute = 3
  Day = 6
  PerMinute = 2
  PerDay = 3
  PerHour = 1
  MaxMails = 5
  MaxMailClock = 7
  Crons = {"often", "seldom"}
  Intervals = {"poll"}
  Matches <- SmallMatches
  Period <- SmallPeriod
  MinuteMs = 3
  MaxDelay = 7
  Never = Never
  MaxLate = 1
  Busy = {0, 4}
  MaxTime = 10
  MaxLoads = 2
  MaxTurns = 3
  MaxSockets = 3
  Patterns <- SmallPatterns
  Paths <- SmallPaths
  MaxRoutes = 3
SPECIFICATION PartsSpec
INVARIANTS PagesCurrent ConversationKept OneBuilder BuildWhole NoEditForgotten NothingLeft LimitsHold OneSocket RoutesAgree OnSchedule
PROPERTY ImplementsBlobStore
CHECK_DEADLOCK FALSE
