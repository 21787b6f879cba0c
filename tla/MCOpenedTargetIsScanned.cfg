CONSTANTS
    a = a  b = b
    Files = {a, b}
    InitialFiles = {a}
    NoFile = NoFile
    Jobs = 1
    MaxVersion = 2
    MaxTasks = 3
    MaxMessages = 6
SPECIFICATION Spec
PROPERTY
    OpenedTargetIsScanned
CHECK_DEADLOCK FALSE
