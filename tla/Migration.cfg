SPECIFICATION FairSpec
CONSTANTS
  f = f
  s = s
  Cpus = {1, 2}
  Tasks = {f, s}
  Class <- MCClass
  KThreads = {s}
  Fixed = {s}
  Start <- MCStart
  Affinity <- MCAffinity
  Masks = {{1}, {2}, {1, 2}}
  Hotplug = {2}
  Calls <- MCCalls
  Callers = {1, 2}
  Idle = Idle
  Stop = Stop
INVARIANTS RunsWhereAllowed NoneLeftBehind
PROPERTIES DyingEnds CallsReturn
