SPECIFICATION FairSpec
CONSTANTS
    n1 = n1
    n2 = n2
    n3 = n3
    k1 = k1
    k2 = k2
    plain = plain
    padded = padded
    blank = blank
    None = None
    Nodes = {n1, n2, n3}
    Replicas = 1
    HashSize = 4
    VHash <- MCVHash
    Keys = {k1, k2}
    KHash <- MCKHash
    Values = {plain, padded, blank}
    Transfer <- MCTransfer
    Parts <- MCParts
    Initial <- MCInitial
    Joining = {n2, n3}
    MaxAdds = 2
    MaxWrites = 2
    MaxPending = 1
    MaxFaults = 1
INVARIANTS TypeOK NoKeyLost SingleCopy
PROPERTY ReachableAgain
CHECK_DEADLOCK FALSE
