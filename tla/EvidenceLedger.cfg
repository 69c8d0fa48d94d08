SPECIFICATION FairSpec
CONSTANTS
    Threads = {t1, t2, t3}
    Free = Free
    MaxEvents = 3
    MaxPending = 2
    MaxClock = 1
    MaxCommits = 4
    MaxWalFailures = 1
CHECK_DEADLOCK FALSE
INVARIANTS
    MirrorIsPrefix
    ReturnedIsMirrored
    SlotsConserved
    MemoryIsDurable
    RootIsFinal
PROPERTIES
    CommitReturns
    ImplementsAtomicLedger
