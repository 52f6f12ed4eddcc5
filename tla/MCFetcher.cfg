CONSTANTS
    W1 = W1
    W2 = W2
    Workers <- MCWorkers
    BatchSize = 2
    StartIndex = 1
    EndIndexOpt = 5
    ContinuousOpts = {FALSE, TRUE}
    InitTree = 4
    MaxTree = 6
SPECIFICATION Spec
INVARIANT TypeOK
PROPERTY FetchesRange
INVARIANT RunReturnsAfterDrain
PROPERTY RunTerminates
PROPERTY KeepsUp
PROPERTY RunReturnsAfterStop
