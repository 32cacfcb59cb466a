SPECIFICATION FairSpec
CONSTANTS
    Capacity = 4
    ChanCap = 2
    MaxEvents = 9
CHECK_DEADLOCK FALSE
INVARIANTS
    TypeOK
    RingHoldsLatest
    OrderedDelivery
PROPERTY
    EveryEventOvertaken
