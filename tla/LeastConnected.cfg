SPECIFICATION Spec
CONSTANTS
    Selector = {k1, k2}
    Size = 3
    MaxUse = 1
    MaxSelections = 5
INVARIANTS SpreadsEvenly
CHECK_DEADLOCK FALSE
