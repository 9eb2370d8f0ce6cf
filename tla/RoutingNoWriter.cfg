SPECIFICATION FairSpec
CONSTANTS
    Client = {k1}
    Addr = {a1, a2}
    NoAddr = NoAddr
    Responses <- ElectionResponses
    PoolSize = 1
    WriterPreference = TRUE
PROPERTY CallsReturn
