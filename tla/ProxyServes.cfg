SPECIFICATION Spec
CONSTANTS
    n1 = n1
    n2 = n2
    n3 = n3
    k1 = k1
    k2 = k2
    plain = plain
    padded = padded
    blank = blank
    None = None
    Nodes = {n1, n2, n3}
    Replicas = 1
    HashSize = 4
    VHash <- MCVHash
    Keys = {k1, k2}
    KHash <- MCKHash
    Values = {plain, padded, blank}
    Transfer <- MCTransfer
    Parts <- MCParts
    Initial <- MCInitial
    Joining = {n2}
    MaxAdds = 1
    MaxWrites = 1
    MaxPending = 1
    MaxFaults = 0
INVARIANT ServedThroughout
CHECK_DEADLOCK FALSE
