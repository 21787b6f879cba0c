CONSTANTS
    NCalls = 2
    MaxDuration <- MCMaxDuration
    Granularity = 2
    MaxThreads = 1
SPECIFICATION FairSpec
INVARIANTS
    TypeOK
    NoneOnlyAfterLimit
PROPERTIES
    TimersExit
    CallsEnd
    ImplementsLimitedCall
