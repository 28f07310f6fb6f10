SPECIFICATION Spec
CONSTANTS
    Addresses = {"a", "b"}
    Listeners = {"l1", "l2"}
    AddressOf <- TwoContracts
    Capacity = 1
    MaxBlock = 1
    MaxLogs = 2
    MaxFaults = 2
INVARIANTS
    ListenersAgree
    
PROPERTIES
    StoppedListenerEnds
CHECK_DEADLOCK FALSE
