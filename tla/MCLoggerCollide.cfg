CONSTANTS
    L1 = L1
    L2 = L2
    I = I
    R = R
    W1 = W1
    W2 = W2
    Nil = NilChain
    NilChain = NilChain
    Certs <- MCCerts
    Raw <- MCRawCollide
    HashSize = 2
    Workers <- MCWorkers
    Chains <- MCChains
    MaxQueue = 4
SPECIFICATION Spec
INVARIANT IsPostedMeansAccepted
