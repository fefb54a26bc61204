\* Two releases of a service migrate one database under a lock; failures and crashes.
SPECIFICATION FairSpec
CONSTANTS
    p1 = p1
    p2 = p2
    w1 = w1
    w2 = w2
    NoOne = NoOne
    Providers <- MCProviders
    Workers <- MCWorkers
    ProviderOf <- OneEach
    Migrations <- LateMerge
    Kind <- MixedKinds
    Broken = {}
    Ops <- OrderedOps
    MaxVersion = 4
    EnsureRetries = 1
    LockEnabled = TRUE
    AllowMissing = FALSE
    DisableVersioning = FALSE
    IsolateDDL = FALSE
    TableExistsSupported = TRUE
    TransactionalDDL = TRUE
    MayFail = TRUE
    MayCrash = TRUE
INVARIANTS TypeOK InStep ExactlyOnce InOrder CallIsComplete ResultsAreRecorded
PROPERTY CallReturns
