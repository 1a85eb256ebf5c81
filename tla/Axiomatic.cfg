CONSTANTS
  Word = 8
  IgnoredRegisters = {"PC"}
  TableBytes = 16
  ByteBits = 1
  AddrBytes = 2
  NumThreads = 2
  Family = "main"
  FootprintTraces <- MCFootprintTraces
SPECIFICATION Spec
INVARIANTS
  VerdictIsSc
  EveryExecutionReported
  DependenciesFound
  CompiledMeaning
  PagesSurvive
CHECK_DEADLOCK FALSE
