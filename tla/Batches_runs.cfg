SPECIFICATION BatchSpec
CONSTANTS
    Keys = {k1, k2, k3}
    MaxRows = 3
    MaxPerJob = 1
    PageSize = 2
INVARIANTS AllRunsArePassed
CHECK_DEADLOCK FALSE
