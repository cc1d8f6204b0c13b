SPECIFICATION ShellSpec
CONSTANTS
    MaxTasks = 11
    MaxPid = 8
    Site = {"prompt", "fork", "wait", "exec", "work", "read", "kill", "exit", "left"}
    NoSite = "start"
    Command = {"util", "kill", "sh", "bare"}
INVARIANTS
    ShellTypeOK
    NeverStuck
    Foreground
PROPERTIES
    PromptReturns
    ShellForkReturns
CHECK_DEADLOCK FALSE
