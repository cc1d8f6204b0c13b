SPECIFICATION Spec
CONSTANTS
    PortSets <- MCPortSets
    MaxSlots = 2
    SpinLimit = 2
    Sectors = 3
    PerValue = 2
INVARIANTS
    TypeOK
    ReadBack
PROPERTIES
    TableIntact
    PortStarts
    CommandReturns
CHECK_DEADLOCK FALSE
