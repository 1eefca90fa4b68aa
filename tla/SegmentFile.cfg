SPECIFICATION Spec
CONSTANTS
    ShortWords = {0, 1}
    FeatureBits <- Bits
    FeatureWeight <- Weight
    ResidualLanes = {0, 1}
    MaxResidual = 3
    None = None
    Unreadable = Unreadable
    TooBig = TooBig
    Inf = Inf
    Null = Null
    Malformed = Malformed
    BandWidth = 2
    LshBands = 4
    SigBands = 2
    Draw <- Sign
    WordBits = 2
    HammingThreshold = 1
    MaxI64 = 99
    Magic = Magic
    IndexMark = IndexMark
    Inserts <- AllInserts
    Documents <- AllDocuments
    Exports <- AllExports
    StableId <- Id
    SealMagic = SealMagic
    Nonce = Nonce
    Keys = {k1, k2}
    SealKey = k1
    Garbage = Garbage
    NoFile = NoFile
    MaxLog = 2
INVARIANTS FileOutcome DamageRefused LogReplays IndexExact
CHECK_DEADLOCK FALSE
