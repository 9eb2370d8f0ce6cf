SPECIFICATION FairSpec
CONSTANTS
    Client = {c1, c2}
    H1 = h1
    H2 = h2
    Nowhere = nowhere
    Resolutions <- OneOrTwo
    Encrypted = TRUE
    Timeout = TRUE
    MaxAcquires = 1
INVARIANTS Registered Usable TriesEach FirstHostLeavesNothing NoSigpipe
PROPERTIES Returns
CHECK_DEADLOCK FALSE
