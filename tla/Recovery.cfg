SPECIFICATION RSpec
CONSTANTS
    k1 = k1
    k2 = k2
    Keys = {k1, k2}
    Values = {v1}
    NoValue = NoValue
    EmptyKey = EmptyKey
    MaxInt = 8
    Batches = {b1}
    TTLs = {2}
    HashVals = {0}
    Hash <- MCHash
    SyncOpts = {TRUE, FALSE}
    DBSync = FALSE
    MaxNow = 5
    MaxLog = 5
    TornExpiring = FALSE
SYMMETRY Symmetry
INVARIANTS
    RTypeOK
    IndexMatchesLog
    PromisesKept
