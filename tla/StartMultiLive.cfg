CONSTANTS
  Workers = {w1, w2}
  TaskIds = {t1}
  Inputs = {x1, x2}
  SplitPow = 2
  MaxItems = 2
  MaxPokes = 1
SPECIFICATION FairSpec
PROPERTY Termination
