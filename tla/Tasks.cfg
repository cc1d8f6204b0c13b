SPECIFICATION Spec
CONSTANTS
    MaxTasks = 6
    MaxPid = 4
    Site = {s1, s2}
    NoSite = NoSite
INVARIANTS
    TypeOK
    ListIntact
    PidsUnique
    WaitedParentExists
    RunningNotWaiting
    SavedContextIntact
PROPERTIES
    NoOvertaking
CHECK_DEADLOCK FALSE
