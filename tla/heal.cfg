\* A ConfigMap and a Secret watcher of all namespaces, two failures of any kind;
\* every object is redelivered on each reconnect (IGNORE_ALREADY_PROCESSED is off).
SPECIFICATION FairSpec
CONSTANTS
    None = None
    Empty = Empty
    Res <- TwoRes
    KindOf <- OtherKind
    NsOf <- SameNs
    NameOf <- MCNameOf
    Keys <- ThreeKeys
    v1 = v1
    v2 = v2
    Vals <- TwoVals
    Anns <- HealAnns
    Shapes <- HealShapes
    MaxRev = 1
    Tasks <- TwoTasks
    TaskKind <- KindTasks
    TaskNs <- AllNs
    KeyOf <- NsAndName
    UrlKeys <- MCUrlKeys
    FileOf <- AliasFileOf
    KeyRank <- MCKeyRank
    TargetFolder <- Data
    UniqueFilenames = FALSE
    TaskRank <- MCTaskRank
    Mode = "WATCH"
    ResourceNames = {}
    Hooks = {"script"}
    SkipInit = FALSE
    IgnoreModes = {FALSE}
    PageSize = 5
    FaultKinds = {"api", "fs", "fetch", "script", "crash"}
    MaxFaults = 2
PROPERTIES
    EventuallyShown
    HooksFallSilent
    DeadWatcherExits
