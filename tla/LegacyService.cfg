\* Two releases of a service and a tool without versioning, failures and crashes.
SPECIFICATION FairSpec
CONSTANTS
    p1 = p1
    p2 = p2
    p3 = p3
    Processes <- Service
    Files <- Releases
    Kind <- Kinds
    Ops <- ServiceOps
    MaxVersion = 4
    MayFail = TRUE
INVARIANTS InStep RowsAreSound CallKeepsPromise
PROPERTY CallReturns
