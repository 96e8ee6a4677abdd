SPECIFICATION FairSpec
CONSTANTS
  N = 2
  Tasks = {1, 2, 3}
  None = None
  Stopper = Stopper
  Prio <- MCPrio
  Affinity <- MCAnywhere
  Masks = {{1}}
  RT_PUSH_IPI = {TRUE, FALSE}
INVARIANTS PushableExact MostUrgentRun
PROPERTIES MovesSafely Settles
