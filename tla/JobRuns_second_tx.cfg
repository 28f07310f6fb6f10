SPECIFICATION Spec
CONSTANTS
    Runs = {r1}
    TaskCount = 2
    Kind <- PlainThenTx
    MinConfs <- NoConfs
    MaxHeight = 1
    MaxCancels = 0
    MaxDisconnects = 1
    MaxCrashes = 0
INVARIANTS NoSecondTransaction
CHECK_DEADLOCK FALSE
