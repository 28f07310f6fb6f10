SPECIFICATION FairSpec
CONSTANTS
    Calls = {c1, c2, c3}
    Runs = {r1, r2}
INVARIANTS
    OneExecution
    NoCallForgotten
PROPERTIES
    ImplementsRunRequests
    
CHECK_DEADLOCK FALSE
