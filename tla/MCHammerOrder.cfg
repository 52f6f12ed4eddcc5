CONSTANTS
    Bias <- MCBias
    IsMirror = FALSE
    InvalidChance <- MCNoInvalid
    MMD = 2
    SctCount = 2
    SthCount = 2
    MaxParallelChains = 1
    Operations = 6
    MaxRetryDuration = 1
    DuplicateChance = TRUE
    IgnoreErrors = TRUE
    StrictSTHConsistencySize = FALSE
    MaxCerts = 2
    MaxLogErrors = 1
    MaxTime = 6
SPECIFICATION Spec
INVARIANT PendingOrdered
