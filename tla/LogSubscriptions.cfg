SPECIFICATION FairSpec
CONSTANTS
    j1 = j1
    i1 = i1
    Jobs = {j1}
    Initiators = {i1}
    JobOf <- OneOnly
    Replay = 0
    FirstHead = 1
    MaxBlock = 2
    MaxSubs = 2
INVARIANTS
    LogsAreRunOnce
    NoneIsLost
PROPERTIES
    LogsAreRun
CHECK_DEADLOCK FALSE
