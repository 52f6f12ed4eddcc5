CONSTANTS
    Bias <- MCBias
    IsMirror = FALSE
    InvalidChance <- MCInvalidConsistency
    MMD = 2
    SctCount = 2
    SthCount = 2
    MaxParallelChains = 1
    Operations = 6
    MaxRetryDuration = 1
    DuplicateChance = FALSE
    IgnoreErrors = TRUE
    StrictSTHConsistencySize = FALSE
    MaxCerts = 2
    MaxLogErrors = 1
    MaxTime = 3
SPECIFICATION Spec
INVARIANT FailsOnlyAfterRetryDuration
