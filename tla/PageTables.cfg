SPECIFICATION Spec
CONSTANTS
  Entries = 4
  DescSize = 2
  Decls <- MCDecls
  Holds <- MCHolds
  AddrBase = 0
  AddrTop = 64
  S1Base = 1024
  S2Base = 1536
  CodePages <- MCCodePages
  Nestings <- MCNestings
  Constraints <- MCConstraints
  InitialValues <- MCInitialValues
  MaxCommands = 3
INVARIANTS
  TablesAreTree
  CodeIsMapped
PROPERTIES
  CommandsTranslate
CHECK_DEADLOCK FALSE
