SPECIFICATION FairSpec
CONSTANTS
    Keys = {k1, k2}
    Values = {v1}
    NoValue = NoValue
    MaxInt = 4
    Mergers = {m1, m2}
    TTLs = {0}
    SegCap = 2
    CrashIn = {"idle", "merging"}
    Reopens = {FALSE}
    CloseIn = {}
    MaxMerges = 2
    MaxWrites = 3
    MaxNow = 2
    MaxCrashes = 1
INVARIANTS
    NothingLost
    MergeDirOwned
PROPERTY
    OpensAgain
CHECK_DEADLOCK FALSE
