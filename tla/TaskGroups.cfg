SPECIFICATION Spec
CONSTANTS
  Root = Root
  g1 = g1
  g2 = g2
  Groups = {g1, g2}
  Tasks = {t1}
  Callers = {1, 2}
  BW_UNIT = 4
  WORD = 64
  Writes <- MCWrites
  SysWrites <- MCSysWrites
  Sysctl0 <- MCSysctl0
  Moves = {Root, g1}
  None = None
INVARIANTS WithinGlobal NotStarved
PROPERTY Refines
