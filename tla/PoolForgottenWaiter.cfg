SPECIFICATION Spec
CONSTANTS
    Client = {c1, c2, c3}
    NoClient = NoClient
    MaxSize = 1
    AcquisitionTime = 1
    LifeTimeLimited = FALSE
    Faults <- AllFaults
    MaxNullReleases = 0
INVARIANTS NoLostWakeup
