SPECIFICATION Spec
CONSTANTS
    IdMax = 10
    LastFrame = 10
    BootFrames = 1
    ForkFrames = 1
    ExecFrames = 1
    UserPage = {8, 30}
    Process = {1, 2, 3}
    Mark = {"a"}
INVARIANTS
    KernelMapped
CHECK_DEADLOCK FALSE
