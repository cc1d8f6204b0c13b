SPECIFICATION FilesSpec
CONSTANTS
    MaxTasks = 4
    MaxPid = 5
    Site = {"prompt", "fork", "wait", "exec", "work", "kill", "exit", "left", "read"}
    NoSite = "start"
    Command = {"util"}
    Block = 4
    Digits = 2
    Archives <- MCArchives
    Lines <- MCLines
    CatBuffer = 6
    HelpBuffer = 8
    Rows = 6
    ArgLimit = 5
INVARIANTS
    EchoPrints
CHECK_DEADLOCK FALSE
