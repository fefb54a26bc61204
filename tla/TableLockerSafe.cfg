\* A lease of one and a half seconds, of which one is left, spans a failed heartbeat; database faults, crashes.
SPECIFICATION FairSpec
CONSTANTS
    p1 = p1
    p2 = p2
    g1 = g1
    g2 = g2
    g3 = g3
    Free = Free
    NoOne = NoOne
    Instances <- MCInstances
    Goroutines <- MCGoroutines
    LockerOf <- MCLockerOf
    Second = 2
    LeaseDuration = 3
    HeartbeatInterval = 1
    MaxFailures = 1
    LockRetries = 1
    UnlockRetries = 1
    MayFault = TRUE
    MayCancel = FALSE
    CustomRetryPolicy = TRUE
INVARIANTS TypeOK MutualExclusion HolderIsCovered
PROPERTIES ImplementsMutex LockReturns DeadOwnerIsReplaced
