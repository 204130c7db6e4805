SPECIFICATION FairSpec
CONSTANTS
  Requests = {}
  EventIds = {e1}
  NumDerives = 2
  Limits = {1}
  Stubborn = {2}
  Continues = TRUE
  MaxCalls = 2
  MaxGen = 4
  MaxFaults = 2
  r1 = r1
  e1 = e1
  e2 = e2
  e3 = e3
PROPERTY EachFolds
INVARIANTS OwedIsQueued
