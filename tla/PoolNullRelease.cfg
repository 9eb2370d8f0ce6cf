SPECIFICATION Spec
CONSTANTS
    Client = {c1, c2}
    NoClient = NoClient
    MaxSize = 1
    AcquisitionTime = 0
    LifeTimeLimited = FALSE
    Faults <- AllFaults
    MaxNullReleases = 1
INVARIANTS InUseExact
