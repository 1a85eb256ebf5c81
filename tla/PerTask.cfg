CONSTANTS
  Workers = {w1, w2}
  TaskIds = {t1, t2}
  InitialTasks = {t1}
  Inputs = {x1}
  SplitPow = 2
  MaxItems = 2
  MaxPokes = 1
SPECIFICATION FairSpec
PROPERTIES Termination ResultsAreFinal
