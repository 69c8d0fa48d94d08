SPECIFICATION RestartSpec
CONSTANTS
    Threads = {t1, t2}
    Free = Free
    MaxEvents = 3
    MaxPending = 2
    MaxClock = 1
    MaxCommits = 3
    MaxWalFailures = 1
    MaxBoots = 3
    MaxShortWrites = 1
CHECK_DEADLOCK FALSE
INVARIANTS
    ReturnedIsReadable
    LogIsOneChain
    
PROPERTIES
    ReceiptCoversReturned
