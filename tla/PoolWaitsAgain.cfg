SPECIFICATION Spec
CONSTANTS
    Client = {c1, c2}
    NoClient = NoClient
    MaxSize = 1
    AcquisitionTime = 2
    LifeTimeLimited = FALSE
    Faults <- AllFaults
    MaxNullReleases = 0
INVARIANTS WaitBounded
