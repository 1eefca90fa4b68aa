SPECIFICATION FairSpec
CONSTANTS
    a = a
    b = b
    v1 = v1
    v2 = v2
    Ids = {a}
    Capsules = {v1, v2}
    NoCapsule = NoCapsule
    Garbage = Garbage
    NoOp = NoOp
    SealThreshold = 2
    AutoCompactRuns = 2
    ConfigBase <- NoBase
    Unreplayable = {v2}
    Misplaced = {v2}
    Dimension <- SameDimension
    WritePrefixes <- AllPrefixes
    PartialFiles = TRUE
    SameSecond = TRUE
    MaxWal = 2
    MaxCheckpoints = 2
    MaxCrashes = 2
    MaxEpoch = 4
INVARIANTS AckedWritesOnDisk RefusesOnlyHarmed
PROPERTIES ComesBack
\* The bounds end every behaviour.
CHECK_DEADLOCK FALSE
