SPECIFICATION Spec
CONSTANTS
    Word = 3
    IW = 6
    Byte = 1
    Positions <- MCPositions
    Ints <- MCInts
INVARIANTS
    B64MeetsContract
    B129MeetsContract
    EvalKeepsMeaning
    PrimopsAgree
CHECK_DEADLOCK FALSE
