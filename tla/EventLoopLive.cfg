SPECIFICATION FairSpec
CONSTANTS
    Objects = {q1, q2}
    Items = {i1, i2}
    Threads = {t1}
    LoopThread = LoopThread
    FlagSetters = {t1}
    NoObject = NoObject
    NoItem = NoItem
    Capacity = 1
    Modes <- InLevel
    MaxPending = 1
    MaxTimerRequests = 0
    Rerun = FALSE
INVARIANTS OnlyPendedDropsThreadFlag
PROPERTIES LevelIsServed
