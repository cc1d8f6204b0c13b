SPECIFICATION FilesSpec
CONSTANTS
    MaxTasks = 6
    MaxPid = 5
    Site = {"prompt", "fork", "wait", "exec", "work", "kill", "exit", "left", "read"}
    NoSite = "start"
    Command = {"util"}
    Block = 4
    Digits = 2
    Archives <- MCArchives
    Lines <- MCLines
    CatBuffer = 6
    HelpBuffer = 8
    Rows = 6
    ArgLimit = 5
INVARIANTS
    FilesTypeOK
    CwdIsDirectory
    TableCorrect
    Answered
    LineGoesOn
PROPERTIES
    LineReturns
CHECK_DEADLOCK FALSE
