SPECIFICATION Spec
CONSTANTS
  N = 2
  Tasks = {t1, t2}
  Idle = idle
  Llc <- MCFar
  Woken = {t1}
  Collected = {t2}
  Signalled = {t2}
  Mortal = {t1}
INVARIANTS OneCpu InOnePlace DroppedOnce NoLostWakeup NoIdleWhileQueued
PROPERTY DeadStaysDead
