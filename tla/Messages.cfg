SPECIFICATION FairSpec
CONSTANTS
    Base = 2
    InitialSize = 3
    Sizes = {3, 4}
    MaxMessages = 3
    MaxFailures = 1
    MaxBad = 0
INVARIANT TypeOK
PROPERTIES RequestsInOrder AnswersInOrder FetchReturns
CHECK_DEADLOCK FALSE
