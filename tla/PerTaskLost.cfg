CONSTANTS
  Workers = {w1}
  TaskIds = {t1, t2}
  InitialTasks = {t1}
  Inputs = {x1, x2}
  SplitPow = 2
  MaxItems = 3
  MaxPokes = 1
SPECIFICATION Spec
INVARIANT EveryTaskCollected
