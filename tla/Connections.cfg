SPECIFICATION FairSpec
CONSTANTS
    MaxRequests = 6
    MaxOpens = 2
    MaxTimeouts = 1
    MaxStale = 1
INVARIANTS TypeOK AnswersMatch InStep CleanHandover
PROPERTY FetchReturns
