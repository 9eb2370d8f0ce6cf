SPECIFICATION Spec
CONSTANTS
    Client = {k1, k2}
    Addr = {a1, a2}
    NoAddr = NoAddr
    Responses <- CompleteResponses
    PoolSize = 1
    WriterPreference = FALSE
INVARIANT ServedBySelected
