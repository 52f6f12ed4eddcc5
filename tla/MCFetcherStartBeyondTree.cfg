CONSTANTS
    W1 = W1
    W2 = W2
    Workers <- MCWorkers
    BatchSize = 2
    StartIndex = 3
    EndIndexOpt = 0
    ContinuousOpts = {TRUE}
    InitTree = 1
    MaxTree = 4
SPECIFICATION Spec
INVARIANT FetchedWithinRange
