SPECIFICATION Spec
CONSTANTS
    Base = 2
    InitialSize = 3
    Sizes = {1, 4}
    MaxMessages = 2
    MaxFailures = 1
    MaxBad = 1
PROPERTY AnswersInOrder
CHECK_DEADLOCK FALSE
