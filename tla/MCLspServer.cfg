CONSTANTS
    a = a  b = b
    Files = {a, b}
    InitialFiles = {a}
    NoFile = NoFile
    Jobs = 2
    MaxVersion = 2
    MaxTasks = 2
    MaxMessages = 6
SPECIFICATION FairSpec
INVARIANTS
    TypeOK
    CacheIsFresh
    DisplayedIsScanned
    WorkShowsProgress
PROPERTIES
    RepliesEnd
CHECK_DEADLOCK FALSE
