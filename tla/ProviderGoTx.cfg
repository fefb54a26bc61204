\* isolateDDL with a Go migration registered for a transaction.
SPECIFICATION Spec
CONSTANTS
    p1 = p1
    p2 = p2
    w1 = w1
    w2 = w2
    NoOne = NoOne
    Providers <- MCProviders
    Workers <- MCWorkers
    ProviderOf <- OneEach
    Migrations <- SameFiles
    Kind <- GoKinds
    Broken = {}
    Ops <- UpOps
    MaxVersion = 4
    EnsureRetries = 3
    LockEnabled = TRUE
    AllowMissing = FALSE
    DisableVersioning = FALSE
    IsolateDDL = TRUE
    TableExistsSupported = TRUE
    TransactionalDDL = TRUE
    MayFail = FALSE
    MayCrash = FALSE
INVARIANT InStep
