SPECIFICATION Spec
CONSTANTS
    IdMax = 10
    LastFrame = 10
    BootFrames = 1
    ForkFrames = 1
    ExecFrames = 1
    UserPage = {20, 30}
    Process = {1, 2, 3}
    Mark = {"a"}
INVARIANTS
    TypeOK
    CowExclusive
    KernelMapped
PROPERTIES
    OthersUnaffected
    IsPrivate
CHECK_DEADLOCK FALSE
