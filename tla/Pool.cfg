\* Session locker, table locker and no locker on pools that are large enough.
SPECIFICATION FairSpec
CONSTANTS
    p1 = p1
    p2 = p2
    w1 = w1
    w2 = w2
    w3 = w3
    c1 = c1
    c2 = c2
    c3 = c3
    c4 = c4
    c5 = c5
    NoOne = NoOne
    NoConn = NoConn
    Conns <- AllConns
    Processes <- TwoProcesses
    Workers <- Three
    ProcessOf <- Split
    Setups <- Sufficient
    Plans <- MixedPlans
    MaxErrors = 1
    MayFail = TRUE
INVARIANTS AdvisoryIsBounded NothingLeftBehind LossIsReported
PROPERTIES ImplementsMutex CallReturns
