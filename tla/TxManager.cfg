SPECIFICATION Spec
CONSTANTS
    Runs = {r1, r2}
    Addresses <- OneAddress
    GasPrice = 20
    BumpPercent = 10
    BumpWei = 5
    MaxGasPrice = 25
    BumpThreshold = 1
    MinConfs = 1
    AttemptLimit = 2
    MaxHeight = 2
    MaxConnects = 2
    MaxTroubles = 1
INVARIANTS NoncesAreKept ConfirmedIsSafe
PROPERTIES RebroadcastLosesNone
SYMMETRY RunsAlike
CHECK_DEADLOCK FALSE
