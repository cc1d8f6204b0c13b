SPECIFICATION Spec
CONSTANTS
    Width = 4
    LastLine = 5
    PageCells = 24
    MaxLine = 16
    MaxErase = 6
    MaxCount = 12
INVARIANTS
    TypeOK
    OnScreen
PROPERTIES
    NoOverprint
CHECK_DEADLOCK FALSE
