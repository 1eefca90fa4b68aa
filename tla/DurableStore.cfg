SPECIFICATION Spec
CONSTANTS
    a = a
    b = b
    v1 = v1
    v2 = v2
    Ids = {a, b}
    Capsules = {v1, v2}
    NoCapsule = NoCapsule
    Garbage = Garbage
    NoOp = NoOp
    SealThreshold = 2
    AutoCompactRuns = 2
    ConfigBase <- NoBase
    Unreplayable = {}
    Misplaced = {}
    Dimension <- OwnDimension
    WritePrefixes <- AllPrefixes
    PartialFiles = TRUE
    SameSecond = TRUE
    MaxWal = 3
    MaxCheckpoints = 1
    MaxCrashes = 1
    MaxEpoch = 3
INVARIANTS TypeOK AckedWritesSurvive AckedWritesOnDisk
PROPERTIES CheckpointInvisible LogDroppedOnlyBehindCheckpoint
SYMMETRY Symmetry
\* The bounds end every behaviour.
CHECK_DEADLOCK FALSE
