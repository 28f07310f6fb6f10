SPECIFICATION Spec
CONSTANTS
    Runs = {r1}
    TaskCount = 2
    Kind <- BridgeThenTx
    MinConfs <- TwoConfs
    MaxHeight = 1
    MaxCancels = 1
    MaxDisconnects = 1
    MaxCrashes = 1
INVARIANTS
    InProgressIsQueued
PROPERTIES
    EffectAfterSave
    EffectsAreConfirmed
    CompletedTaskStays
    CallsAreAnswered
CHECK_DEADLOCK FALSE
