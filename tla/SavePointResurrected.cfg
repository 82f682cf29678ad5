SPECIFICATION Spec
CONSTANTS
    short = short
    long = long
    NoData = NoData
    Data <- MCData
    Length <- MCLength
    Capacities <- MCCapacities
    SeqMod = 8
INVARIANTS
    FailedSaveLeavesReadableOrNew
