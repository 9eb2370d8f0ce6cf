SPECIFICATION Spec
CONSTANTS
    Client = {c1, c2, c3}
    NoClient = NoClient
    MaxSize = 2
    AcquisitionTime = 0
    LifeTimeLimited = TRUE
    Faults <- AllFaults
    MaxNullReleases = 1
INVARIANTS
    ExclusiveLease
    CountMatches
    IdleConnectionsReusable
PROPERTIES
    FullOnlyWhenAllLeased
    HandsOutLive
PROPERTY ImplementsLeasePool
