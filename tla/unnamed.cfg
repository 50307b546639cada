\* RESOURCE_NAME names only ConfigMaps: labelled Secrets are synced all the same.
SPECIFICATION Spec
CONSTANTS
    None = None
    Empty = Empty
    Res <- TwoRes
    KindOf <- OtherKind
    NsOf <- SameNs
    NameOf <- MCNameOf
    Keys <- ThreeKeys
    v1 = v1
    v2 = v2
    Vals <- TwoVals
    Anns <- MCAnns
    Shapes <- MCShapes
    MaxRev = 3
    Tasks <- TwoTasks
    TaskKind <- KindTasks
    TaskNs <- SameNsTasks
    KeyOf <- NsAndName
    UrlKeys <- MCUrlKeys
    FileOf <- MCFileOf
    KeyRank <- MCKeyRank
    TargetFolder <- Data
    UniqueFilenames = FALSE
    TaskRank <- MCTaskRank
    Mode = "WATCH"
    ResourceNames <- OneEntry
    Hooks = {"script"}
    SkipInit = FALSE
    IgnoreModes = {TRUE, FALSE}
    PageSize = 1
    FaultKinds = {}
    MaxFaults = 0
INVARIANTS
    NamedOnly
