SPECIFICATION FoldSpec
CONSTANTS
    a = a
    b = b
    v1 = v1
    v2 = v2
    Ids = {a, b}
    Capsules = {v1, v2}
    NoCapsule = NoCapsule
    Garbage = Garbage
    SealThreshold = 2
    AutoCompactRuns = 2
    InitialBases <- Bases
    MaxSlots = 4
    MaxExecutedEpoch = 4
INVARIANTS FoldTypeOK FoldIsReplay RecoveredAnswersAlike
