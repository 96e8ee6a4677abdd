SPECIFICATION FairSpec
CONSTANTS
  N = 3
  Pullers = {1, 2}
  MaxRequests = 3
  MaxOverloads = 3
INVARIANTS OneLoop AllVisited
PROPERTY LoopEnds
CHECK_DEADLOCK FALSE
