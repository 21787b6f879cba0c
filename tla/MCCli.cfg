SPECIFICATION Spec
CONSTANTS
    MaxPieces = 1
    MaxLines = 2
    PipeSize = 1
    Products = {"code", "sca", "secrets"}
    Languages = {"python"}
    LanguagesOf <- MCLanguagesOf
    Big = {}
    Unreadable = {}
    Lockfiles <- MCLockfiles
    Matching <- MCMatching
    DotGit = ".git"
    Sentinel = ".__check__"
    NoStatus = NoStatus
    AnyLanguage = "any"
    Dependencies = "dependencies"
    NoSeverity = NoSeverity
    NoFix = NoFix
    NoValidation = NoValidation
    NoName = NoName
    NoPath = NoPath
    NoRule = NoRule
    NoError = NoError
    Version = 1
    TargetLanguages = {"python"}
    RequirementNames = {"requirements.txt", "requirements"}
    RequirementFiles = {"requirements.txt", "dev.txt"}
    InFiles = {}
    InFor <- MCInFor
    NoFile = NoFile
    Rank <- MCRank
    Nameless <- MCNameless
    MaxTimeouts = 1
    StemOf <- MCStemOf
    FinalOf <- MCFinalOf
    SuffixOf <- MCSuffixOf
    NoInvocation = NoInvocation
    NoResponse = NoResponse
    CaiRules = {}
    IgnoreFile = TRUE
    Attempts = 2
    MaxComplete = 1
    Invocations <- MCInvocations
INVARIANTS
    TypeOK
    ResultIsWhole
    KilledIsNotParsed
    OnlyNewFindings
    ChangedFilesOnly
    BackInTheWorkingTree
    LockfilesAreInOneSubproject
    
    FixesAreShown
    TimeoutsAreTold
    TextIsComplete
    AppHasTheFindings
    BlockingFindingsFail
    FindingsCodeIsForFindings
PROPERTIES
    InvocationEnds
    ScanIsSettledOnce
    BaselineIsSubtracted
    CommandEnds
