SPECIFICATION Spec
CONSTANTS
  Requests = {r1}
  EventIds = {e1, e2}
  NumDerives = 1
  Limits = {1}
  Stubborn = {}
  Continues = FALSE
  MaxCalls = 1
  MaxGen = 0
  MaxFaults = 2
  r1 = r1
  e1 = e1
  e2 = e2
  e3 = e3
SYMMETRY Symmetry
INVARIANTS NothingSkipped AnswersHold
