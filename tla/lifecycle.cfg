\* Two watchers, every value of METHOD.
SPECIFICATION FairSpec
CONSTANTS
    Pairs = {w1, w2}
    Modes = {"WATCH", "SLEEP", "LIST"}
    CallTime = 1
    Rest = 1
    Extra = 1
    Period = 2
    Threshold = 4
    Total = 2
    Width = 2
    Factor = 1
    Cap = 1
    Enable5xx = FALSE
CHECK_DEADLOCK FALSE
INVARIANTS
    TypeOK
    OkIsHonest
    NoFalseAlarm
    MonitorOnTime
    BootOnTime
    LifecycleInv
PROPERTIES
    SigtermEnds
