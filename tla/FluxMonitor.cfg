SPECIFICATION Spec
CONSTANTS
    Others <- OneOther
    MinAnswers = 1
    Prices <- OnePrice
    Threshold = 1
    HasIdle = TRUE
    MaxRounds = 2
    MaxRuns = 2
    MaxFaults = 1
PROPERTIES
    
    NewRoundIsAnswered
CHECK_DEADLOCK FALSE
