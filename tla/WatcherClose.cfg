SPECIFICATION Spec
CONSTANTS
    Capacity = 4
    ChanCap = 2
    MaxEvents = 9
CHECK_DEADLOCK FALSE
INVARIANT
    SenderNeverPanics
