SPECIFICATION LockFairSpec
CONSTANTS
    Threads = {t1, t2, t3}
    NOBODY = NOBODY
    MaxDepth <- Depths
CHECK_DEADLOCK FALSE
INVARIANTS
    HolderMayUse
    WaitsForAReason
PROPERTIES
    EveryCallReturns
