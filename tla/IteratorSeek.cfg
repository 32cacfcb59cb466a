SPECIFICATION Spec
CONSTANTS
    Keys <- MCKeys
    Matches <- MCMatches
    Actors = {"iterator"}
    Expiries = {0, 1}
    BatchSize = 2
    MaxClock = 1
    MaxWrites = 1
    MaxMerges = 0
    MaxErrors = 0
    MaxSweeps = 0
PROPERTY SeekPositions
CHECK_DEADLOCK FALSE
