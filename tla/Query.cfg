SPECIFICATION Spec
CONSTANTS
    NoCapsule = NoCapsule
    NoEnd = NoEnd
    Ids = {1, 2, 3}
    Capsules <- AllContents
    Writes <- AllWrites
    Probes <- AllProbes
    Modes <- AllModes
    SealThreshold = 2
    AutoCompactRuns = 0
    MaxScored = 3
    AnnThreshold = 1
    SupportBonus = 1
    MaxEpoch = 3
INVARIANTS AnswersPassGates OneAnswerPerId ConflictsAuthorized UpdatesResolveToFreshest FindsSomething OneTierIsExact
