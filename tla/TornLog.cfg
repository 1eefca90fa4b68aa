SPECIFICATION Spec
CONSTANTS
    a = a
    b = b
    v1 = v1
    v2 = v2
    Ids = {a, b}
    Capsules = {v1}
    NoCapsule = NoCapsule
    Garbage = Garbage
    NoOp = NoOp
    SealThreshold = 2
    AutoCompactRuns = 2
    ConfigBase <- NoBase
    Unreplayable = {}
    Misplaced = {}
    Dimension <- SameDimension
    WritePrefixes <- AllPrefixes
    PartialFiles = FALSE
    SameSecond = FALSE
    MaxWal = 2
    MaxCheckpoints = 1
    MaxCrashes = 2
    MaxEpoch = 3
INVARIANTS AckedWritesReadable
\* The bounds end every behaviour.
CHECK_DEADLOCK FALSE
