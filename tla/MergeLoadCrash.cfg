SPECIFICATION Spec
CONSTANTS
    Keys = {k1, k2}
    Values = {v1}
    NoValue = NoValue
    MaxInt = 4
    Mergers = {m1}
    TTLs = {0}
    SegCap = 2
    CrashIn = {"loading"}
    Reopens = {FALSE}
    CloseIn = {"idle"}
    MaxMerges = 1
    MaxWrites = 2
    MaxNow = 2
    MaxCrashes = 1
SYMMETRY Symmetry
INVARIANT
    NothingLost
