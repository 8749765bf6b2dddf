SPECIFICATION FairSpec
CONSTANTS
    Timers = {a, b}
    Modulus = 4
    Intervals = {0, 1, 2}
    TickInterval = 1
    MaxLate = 1
INVARIANTS ExpiryOrder WrapSafe NoOversleep
PROPERTIES NeverEarlyNorStopped DueTimersFire
