\* Two goroutines share a Provider without a locker; isolateDDL, out-of-order migrations, no TableExists, a migration that does not parse.
SPECIFICATION Spec
CONSTANTS
    p1 = p1
    p2 = p2
    w1 = w1
    w2 = w2
    NoOne = NoOne
    Providers <- MCProviders
    Workers <- MCWorkers
    ProviderOf <- BothOnOne
    Migrations <- OneRelease
    Kind <- SQLKinds
    Broken = {3}
    Ops <- LateOps
    MaxVersion = 4
    EnsureRetries = 1
    LockEnabled = FALSE
    AllowMissing = TRUE
    DisableVersioning = FALSE
    IsolateDDL = TRUE
    TableExistsSupported = FALSE
    TransactionalDDL = TRUE
    MayFail = TRUE
    MayCrash = TRUE
INVARIANTS ExactlyOnce BrokenBlocksAll EnsuredMeansUsable
