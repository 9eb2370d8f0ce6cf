SPECIFICATION FairSpec
CONSTANTS
    Client = {k1, k2}
    Addr = {a1, a2}
    NoAddr = NoAddr
    Responses <- CompleteResponses
    PoolSize = 1
    WriterPreference = TRUE
INVARIANTS TypeOK LeasesCounted NoDuplicatePool SelectsFromTable
PROPERTY CallsReturn
