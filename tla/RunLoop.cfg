CONSTANTS
  MaxConsts = 3
  Programs <- MCPrograms
  TraceFunctions <- MCTraceFunctions
  Stops <- MCStops
  Assumptions <- MCAssumptions
  PcLimit = 2
  MaxUnknowns = 1
  Steps <- MCSteps
SPECIFICATION Spec
INVARIANTS SymsAreDeclared PathsSound PathsComplete TreeHasEveryPath
PROPERTY CoversPaths
