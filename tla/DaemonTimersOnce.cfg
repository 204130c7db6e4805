CONSTANTS
  Crons = {"often", "seldom"}
  Intervals = {"poll"}
  Matches <- SmallMatches
  Period <- SmallPeriod
  MinuteMs = 3
  MaxDelay = 7
  Never = Never
  MaxLate = 1
  Busy = {0, 4}
  MaxTime = 12
  MaxLoads = 2
SPECIFICATION TimersSpec
INVARIANT OncePerMinute
CHECK_DEADLOCK FALSE
