SPECIFICATION Spec
CONSTANTS
    a = a
    b = b
    v1 = v1
    v2 = v2
    Ids = {a, b}
    Capsules = {v1, v2}
    NoCapsule = NoCapsule
    SealThreshold = 2
    AutoCompactRuns = 3
    InitialBases <- DisjointBases
    MaxEpoch = 6
INVARIANTS TypeOK QuerySeesLiveSet RecencyIsEpochOrder BoundsKept
PROPERTIES ImplementsLiveMap Contract
