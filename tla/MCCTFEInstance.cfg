CONSTANTS
    FakeCA = FakeCA
    BogusCert = BogusCert
    PrivKey = PrivKey
    MissingPrivKey = MissingPrivKey
    WrongPassPrivKey = WrongPassPrivKey
    ServerKey = ServerKey
    OtherKey = OtherKey
    NilKey = NilKey
    NilTime = NilTime
    Start10000 = Start10000
    Limit12000 = Limit12000
    NoKey = NilKey
    Configs <- MCConfigs
    PemFiles <- MCPemFiles
    Readable <- MCReadable
    PrivKeys <- MCPrivKeys
    Keys <- MCKeys
    SignerOf <- MCSignerOf
    KeyTypes <- MCKeyTypes
    IntWidth = 5
SPECIFICATION Spec
INVARIANT TypeOK
INVARIANT SetUpInstanceContract
INVARIANT InstanceAgreesWithTests
INVARIANT ParseOIDsMatchesGrammar
