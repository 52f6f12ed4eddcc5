CONSTANTS
    L1 = L1
    I = I
    R = R
    W1 = W1
    W2 = W2
    F1 = F1
    Nil = NilChain
    NilChain = NilChain
    Certs <- MCCerts
    Raw <- MCRaw
    HashSize = 2
    Workers <- MCWorkers
    Chains <- MCChains
    MaxQueue = 2
    FixWorkers <- MCFixWorkers
    Records <- MCRecords
SPECIFICATION Spec
INVARIANTS
    TypeOK
    NoSendOnClosedChannel
    ErrorsStoredBeforeExit
    FixedChainsOffered
PROPERTY
    Terminates
