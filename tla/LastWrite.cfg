CONSTANTS
  Word = 8
  IgnoredRegisters = {"PC"}
  TableBytes = 16
  ByteBits = 1
  AddrBytes = 2
  NumThreads = 2
  Family = "zero"
  FootprintTraces <- MCFootprintTraces
SPECIFICATION Spec
INVARIANT AllowedIsReachable
CHECK_DEADLOCK FALSE
