\* METHOD=SLEEP: two namespaces polled, unique file names, one failed page.
SPECIFICATION FairSpec
CONSTANTS
    None = None
    Empty = Empty
    Res <- TwoRes
    KindOf <- SameKind
    NsOf <- OtherNs
    NameOf <- MCNameOf
    Keys <- ThreeKeys
    v1 = v1
    v2 = v2
    Vals <- TwoVals
    Anns <- MCAnns
    Shapes <- PollShapes
    MaxRev = 2
    Tasks <- TwoTasks
    TaskKind <- CmTasks
    TaskNs <- NsTasks
    KeyOf <- NsAndName
    UrlKeys <- MCUrlKeys
    FileOf <- MCFileOf
    KeyRank <- MCKeyRank
    TargetFolder <- Data
    UniqueFilenames = TRUE
    TaskRank <- MCTaskRank
    Mode = "SLEEP"
    ResourceNames = {}
    Hooks = {"script", "request"}
    SkipInit = TRUE
    IgnoreModes = {TRUE, FALSE}
    PageSize = 1
    FaultKinds = {"api"}
    MaxFaults = 1
INVARIANTS
    NoOrphans
    FolderKnown
    FolderInv
PROPERTIES
    ImplementsMirror
    EventuallyExact
    HooksFallSilent
