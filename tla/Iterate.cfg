SPECIFICATION Spec
CONSTANTS
    Keys <- MCKeys
    Matches <- MCMatches
    Actors = {"iterator", "scan", "sweep"}
    Expiries = {0, 1}
    BatchSize = 2
    MaxClock = 1
    MaxWrites = 1
    MaxMerges = 1
    MaxErrors = 1
    MaxSweeps = 2
INVARIANTS TypeOK ItemWritten IteratorFaithful ScanComplete
PROPERTIES SweepSafe SweepThorough SweepEndsAtExpired
CHECK_DEADLOCK FALSE
