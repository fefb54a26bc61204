\* Heartbeats that fail longer than the lease, cancelled contexts, crashes.
SPECIFICATION Spec
CONSTANTS
    p1 = p1
    p2 = p2
    g1 = g1
    g2 = g2
    g3 = g3
    Free = Free
    NoOne = NoOne
    Instances <- MCInstances
    Goroutines <- MCGoroutines
    LockerOf <- MCLockerOf
    Second = 1
    LeaseDuration = 1
    HeartbeatInterval = 1
    MaxFailures = 2
    LockRetries = 1
    UnlockRetries = 1
    MayFault = TRUE
    MayCancel = TRUE
    CustomRetryPolicy = TRUE
INVARIANTS MutexDiscipline NoOrphanHeartbeat
PROPERTY LeaseIsRespected
