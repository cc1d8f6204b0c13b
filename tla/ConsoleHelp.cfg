SPECIFICATION Spec
CONSTANTS
    Width = 4
    LastLine = 5
    PageCells = 24
    MaxLine = 10
    MaxErase = 0
    MaxCount = 12
INVARIANTS
    TextFits
CHECK_DEADLOCK FALSE
