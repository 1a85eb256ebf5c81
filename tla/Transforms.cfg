CONSTANT Word = 2
SPECIFICATION Spec
INVARIANTS
  RewritesKeepRuns
  SingleAssignment
  SimplifyKeepsMeaning
  NeededAssumptionsStay
CHECK_DEADLOCK FALSE
