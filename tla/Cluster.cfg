SPECIFICATION FairSpec
CONSTANTS
    Master = M
    Slaves = {s1}
    Keys = {k}
    Values = {a}
    None = None
    MaxRetries = 2
    MaxFailures = 3
    MaxWrites = 2
    MaxOwn = 1
    MaxCrashes = 2
    MaxMisses = 1
INVARIANTS TypeOK QuietValue OnlyReplicated PromotedAfterThree
PROPERTIES SyncEnds MasterReplaced
CHECK_DEADLOCK FALSE
