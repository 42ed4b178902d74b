SPECIFICATION Spec
CONSTANTS
    MaxRows = 3
    Keys = {1, 2, 3}
    PageSize = 1
INVARIANT NothingMissed
CHECK_DEADLOCK FALSE
