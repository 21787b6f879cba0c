CONSTANTS
    f1 = f1  f2 = f2  f3 = f3  f4 = f4
    InitialFiles <- MCInitialFiles
    NoSearch = NoSearch
    MaxSearches = 2
    MaxEdits = 2
SPECIFICATION FairSpec
INVARIANTS
    TypeOK
    NoMatchLost
    SentOnce
PROPERTIES
    SearchEnds
CHECK_DEADLOCK FALSE
