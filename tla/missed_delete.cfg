\* An object deleted while no watch is open: its files stay.
SPECIFICATION FairSpec
CONSTANTS
    None = None
    Empty = Empty
    Res <- TwoRes
    KindOf <- SameKind
    NsOf <- OtherNs
    NameOf <- MCNameOf
    Keys <- ThreeKeys
    v1 = v1
    v2 = v2
    Vals <- TwoVals
    Anns <- MCAnns
    Shapes <- OneShape
    MaxRev = 1
    Tasks <- TwoTasks
    TaskKind <- CmTasks
    TaskNs <- NsTasks
    KeyOf <- NsAndName
    UrlKeys <- MCUrlKeys
    FileOf <- MCFileOf
    KeyRank <- MCKeyRank
    TargetFolder <- Data
    UniqueFilenames = FALSE
    TaskRank <- MCTaskRank
    Mode = "WATCH"
    ResourceNames = {}
    Hooks = {"script"}
    SkipInit = FALSE
    IgnoreModes = {TRUE, FALSE}
    PageSize = 1
    FaultKinds = {}
    MaxFaults = 0
PROPERTIES
    EventuallyClean
