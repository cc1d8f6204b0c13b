SPECIFICATION Spec
CONSTANTS
    Char = {a}
    Size = 4
    Ask = 1
    EnterLeaves = 2
    KeyLeaves = {0, 5}
    TickLeaves <- MCTickLeaves
    MaxLine = 3
    MaxErase = 2
INVARIANTS
    TypeOK
    LineRead
    CopyBounded
PROPERTIES
    ReadReturns
CHECK_DEADLOCK FALSE
