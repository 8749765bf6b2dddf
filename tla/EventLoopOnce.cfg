SPECIFICATION Spec
CONSTANTS
    Objects = {q1}
    Items = {i1, i2}
    Threads = {t1}
    LoopThread = LoopThread
    FlagSetters = {}
    NoObject = NoObject
    NoItem = NoItem
    Capacity = 1
    Modes <- OnceModes
    MaxPending = 0
    MaxTimerRequests = 0
    Rerun = FALSE
INVARIANTS NoUseAfterFree
