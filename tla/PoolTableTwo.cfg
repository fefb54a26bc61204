\* Table locker, two connections, two goroutines on one Provider.
SPECIFICATION FairSpec
CONSTANTS
    p1 = p1
    p2 = p2
    w1 = w1
    w2 = w2
    w3 = w3
    c1 = c1
    c2 = c2
    c3 = c3
    c4 = c4
    c5 = c5
    NoOne = NoOne
    NoConn = NoConn
    Conns <- AllConns
    Processes <- OneProcess
    Workers <- Two
    ProcessOf <- TwoOnP1
    Setups <- TableLockerOnTwo
    Plans <- MixedPlans
    MaxErrors = 1
    MayFail = FALSE
PROPERTY CallReturns
CHECK_DEADLOCK FALSE
