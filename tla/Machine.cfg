SPECIFICATION Spec
CONSTANTS
  Fields = {"a", "b"}
  Bits = {0, 1}
  Regs = {"x", "y", "s"}
  Relaxed = {"s"}
  Locs <- MCLocs
  Written <- MCWritten
  FieldsWritten <- MCFieldsWritten
  VectorRegs <- MCVectorRegs
  SharedResets <- MCSharedResets
  TaskResets <- MCTaskResets
  ResetConstraints <- MCResetConstraints
  FunctionAssumptions <- MCFunctionAssumptions
  Interrupts <- MCInterrupts
  PcReg = "x"
  PcLimit = 1
  MaxOps = 4
  MaxRegions = 3
  TopAddr = 16
  Entries = 2
  DescSize = 2
  ByteBase = 2
  AddrBits = 4
INVARIANTS
  RegistersHoldWrites
  LoadedBytesRead
  SymbolicReadsAgree
  AccessesStayInRegions
PROPERTIES
  ResetsHold
  TraceExplainsReads
CHECK_DEADLOCK FALSE
