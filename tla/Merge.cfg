SPECIFICATION FairSpec
CONSTANTS
    Keys = {k1, k2}
    Values = {v1}
    NoValue = NoValue
    MaxInt = 4
    Mergers = {m1}
    TTLs = {0, 1}
    SegCap = 2
    CrashIn = {}
    Reopens = {TRUE, FALSE}
    CloseIn = {"idle"}
    MaxMerges = 2
    MaxWrites = 3
    MaxNow = 3
    MaxCrashes = 0
INVARIANTS
    TypeOK
    NothingLost
PROPERTY MergeReturns
