SPECIFICATION Spec
CONSTANTS
    k1 = k1
    k2 = k2
    Keys = {k1, k2}
    Values = {v1}
    NoValue = NoValue
    EmptyKey = EmptyKey
    MaxInt = 4
    Batches = {b1, b2}
    TTLs <- MCTTLs
    HashVals <- MCHashVals
    Hash <- MCHash
    SyncOpts = {TRUE}
    DBSync = FALSE
    MaxNow = 3
    MaxLog = 4
SYMMETRY Symmetry
INVARIANTS
    TypeOK
    IndexSound
    NeverPanics
    PendingConsistent
    WriterAlone
PROPERTY
    RefinesKVStore
