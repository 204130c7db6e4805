CONSTANTS
  d1 = d1
  d2 = d2
  r1 = r1
  r2 = r2
  r3 = r3
  t1 = t1
  t2 = t2
  Dispatches = {d1, d2}
  Records = {r1, r2, r3}
  Tokens = {t1, t2}
  From <- Source
  To <- Target
  Start <- Balances
  MaxFaults = 2
  DiskMayFail = FALSE
SPECIFICATION LiveSpec
INVARIANTS ExactlyOnce AnswersStand
PROPERTIES EachMoves
