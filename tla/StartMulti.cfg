CONSTANTS
  Workers = {w1, w2}
  TaskIds = {t1, t2}
  Inputs = {x1, x2}
  SplitPow = 2
  MaxItems = 3
  MaxPokes = 1
SPECIFICATION Spec
INVARIANTS TypeOK PathsPartition NoLostWork IdleIsDrained ProgressConserved CompleteIsCollected
PROPERTY CoversPaths
