SPECIFICATION Spec
CONSTANTS
    Keys = {k1, k2}
    Values = {v1}
    NoValue = NoValue
    MaxInt = 4
    Mergers = {m1}
    TTLs = {0}
    SegCap = 2
    CrashIn = {}
    Reopens = {TRUE}
    CloseIn = {"merging"}
    MaxMerges = 1
    MaxWrites = 2
    MaxNow = 2
    MaxCrashes = 0
SYMMETRY Symmetry
INVARIANT
    FilesUnderLock
CHECK_DEADLOCK FALSE
