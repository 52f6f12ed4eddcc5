CONSTANTS
    Bias <- MCBiasAll
    IsMirror = FALSE
    InvalidChance <- MCInvalidAll
    MMD = 2
    SctCount = 2
    SthCount = 2
    MaxParallelChains = 2
    Operations = 4
    MaxRetryDuration = 1
    DuplicateChance = TRUE
    IgnoreErrors = TRUE
    StrictSTHConsistencySize = FALSE
    MaxCerts = 2
    MaxLogErrors = 1
    MaxTime = 4
SPECIFICATION Spec
INVARIANTS
    TypeOK
    NoFalseInclusionAlarm
    ConsistencyRequestsValid
    NextOpBounded
    InvertedConsistencyRejected
