SPECIFICATION FairSpec
CONSTANTS
    Serials = {usart, lpuart}
    NoSerial = NoSerial
    QueueSize = 3
    MaxReloads = 1
INVARIANTS ChecksHold DisabledIsQuiet TxSemaphoreAlive NeverDeaf
PROPERTIES WorkerFreedAfterExit 
CHECK_DEADLOCK FALSE
