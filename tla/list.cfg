\* METHOD=LIST with RESOURCE_NAME, the container restarted after each pass.
SPECIFICATION FairSpec
CONSTANTS
    None = None
    Empty = Empty
    Res <- TwoRes
    KindOf <- SameKind
    NsOf <- OtherNs
    NameOf <- MCNameOf
    Keys <- ThreeKeys
    v1 = v1
    v2 = v2
    Vals <- TwoVals
    Anns <- MCAnns
    Shapes <- MCShapes
    MaxRev = 2
    Tasks <- TwoTasks
    TaskKind <- CmTasks
    TaskNs <- NsTasks
    KeyOf <- NsAndName
    UrlKeys <- MCUrlKeys
    FileOf <- MCFileOf
    KeyRank <- MCKeyRank
    TargetFolder <- Data
    UniqueFilenames = FALSE
    TaskRank <- MCTaskRank
    Mode = "LIST"
    ResourceNames <- NamedEntries
    Hooks = {"script"}
    SkipInit = FALSE
    IgnoreModes = {TRUE}
    PageSize = 1
    FaultKinds = {}
    MaxFaults = 0
INVARIANTS
    NamedOnly
    NamedInv
PROPERTIES
    EventuallyShown
