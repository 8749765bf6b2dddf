SPECIFICATION Spec
CONSTANTS
    Objects = {q1, q2}
    Items = {i1, i2, i3}
    Threads = {t1}
    LoopThread = LoopThread
    FlagSetters = {}
    NoObject = NoObject
    NoItem = NoItem
    Capacity = 1
    Modes <- PlainModes
    MaxPending = 1
    MaxTimerRequests = 1
    Rerun = FALSE
SYMMETRY Symmetry
INVARIANTS ItemsAccounted NoUseAfterFree NoLostLevel FlagsCoverWork
PROPERTIES PendedAfterTimers
