SPECIFICATION Spec
CONSTANTS
    Versions = {2, 3}
    MaxLeases = 2
    MaxCalls = 4
    MaxParameters = 1
INVARIANTS
    OwnRequests
    ResultsOfRequest
    FailureKnown
CHECK_DEADLOCK FALSE
