SPECIFICATION FairSpec
CONSTANTS
    MaxRequests = 4
    MaxOpens = 1
    MaxTimeouts = 1
    MaxStale = 1
PROPERTY FailedReceiveIsFinal
