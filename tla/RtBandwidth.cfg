SPECIFICATION FairSpec
CONSTANTS
  N = 2
  Period = 3
  Runtime = 2
  Settings <- MCSettings
  Hotplug = {1}
  Busy = {1, 2}
  MaxOverrun = 1
  MaxNr = 1
  MaxTime = 3
INVARIANTS NeverLeftWanting RuntimeConserved QueuedUnlessThrottled
PROPERTY ThrottleEnds
