SPECIFICATION FairSpec
CONSTANTS
  Workers = {w1, w2}
  MaxRequests = 1
  MaxClients = 1
  MaxPipe = 2
  MaxDeaths = 1
  w1 = w1
  w2 = w2
PROPERTY CloseEnds
CHECK_DEADLOCK FALSE
INVARIANTS OwnReply CountSettles
