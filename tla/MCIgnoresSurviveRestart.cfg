CONSTANTS
    a = a  b = b
    Files = {a}
    InitialFiles = {a}
    NoFile = NoFile
    Jobs = 1
    MaxVersion = 2
    MaxTasks = 3
    MaxMessages = 12
SPECIFICATION Spec
INVARIANT
    IgnoresSurviveRestart
CHECK_DEADLOCK FALSE
