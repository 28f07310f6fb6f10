SPECIFICATION FairSpec
CONSTANTS
    MaxHead = 3
    MaxSubs = 5
    MaxStarts = 3
INVARIANTS
    CallbacksAgree
PROPERTIES
    AnnouncedInOrder
    ListenerGoesOn
CHECK_DEADLOCK FALSE
