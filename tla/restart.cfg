\* The same with one failed API call or one crash, and the restart after it.
SPECIFICATION Spec
CONSTANTS
    None = None
    Empty = Empty
    Res <- TwoRes
    KindOf <- SameKind
    NsOf <- OtherNs
    NameOf <- MCNameOf
    Keys <- ThreeKeys
    v1 = v1
    v2 = v2
    Vals <- TwoVals
    Anns <- MCAnns
    Shapes <- MCShapes
    MaxRev = 2
    Tasks <- TwoTasks
    TaskKind <- CmTasks
    TaskNs <- NsTasks
    KeyOf <- NsAndName
    UrlKeys <- MCUrlKeys
    FileOf <- MCFileOf
    KeyRank <- MCKeyRank
    TargetFolder <- Data
    UniqueFilenames = FALSE
    TaskRank <- MCTaskRank
    Mode = "WATCH"
    ResourceNames = {}
    Hooks = {"script"}
    SkipInit = FALSE
    IgnoreModes = {TRUE, FALSE}
    PageSize = 1
    FaultKinds = {"api", "crash"}
    MaxFaults = 1
INVARIANTS
    CacheOnDisk
    NoOrphans
    SkipIsSafe
    FilesInv
PROPERTIES
    VersionsForward
    ImplementsMirror
