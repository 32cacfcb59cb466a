SPECIFICATION Spec
SYMMETRY Symmetry
CONSTANTS
    Nodes = {n1, n2}
    Replicas = 2
    HashSize = 4
    None = None
    VHashes <- MCApart
    MaxCopies = 2
INVARIANT AlwaysRoutes
