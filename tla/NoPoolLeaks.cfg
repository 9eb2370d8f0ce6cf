SPECIFICATION Spec
CONSTANTS
    Client = {c1}
    H1 = h1
    H2 = h2
    Nowhere = nowhere
    Resolutions <- OneOrTwo
    Encrypted = FALSE
    Timeout = TRUE
    MaxAcquires = 1
INVARIANT NothingLeft
CHECK_DEADLOCK FALSE
