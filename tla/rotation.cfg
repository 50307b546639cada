\* Rotation on and off, up to three backups, lines shorter and longer than maxBytes.
SPECIFICATION Spec
CONSTANTS
    None = None
    Limits = {0, 2}
    Counts = {0, 1, 3}
    Sizes = {1, 3}
    MaxLines = 7
    MaxCrashes = 2
    MaxFaults = 2
CHECK_DEADLOCK FALSE
INVARIANTS
    TypeOK
    InOrder
    SuffixKept
    Bounded
    BackupsKept
    LogInv
