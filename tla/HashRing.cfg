SPECIFICATION Spec
SYMMETRY Symmetry
CONSTANTS
    Nodes = {n1, n2, n3}
    Replicas = 2
    HashSize = 4
    None = None
    VHashes <- MCVHashes
    MaxCopies = 2
INVARIANTS TypeOK RoutesToMembers FirstClockwise
PROPERTY MovesOnlyItsKeys
