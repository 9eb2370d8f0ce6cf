SPECIFICATION FairSpec
CONSTANTS
    MaxRequests = 4
    MaxOpens = 1
    MaxTimeouts = 0
    MaxStale = 0
PROPERTY DefunctIsFinal
