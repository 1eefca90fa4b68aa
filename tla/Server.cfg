SPECIFICATION Spec
CONSTANTS
    Requests = {r1, r2}
    Tenants = {1, 2, 9}
    Cost = 2
    Burst = 3
    MaxClock = 3
    None = None
    BadNumber = BadNumber
    BucketBounds <- Bounds
    MaxTracked = 1
    Other = 9
    Environments <- MCEnvironments
    Calls <- MCCalls
    Loaded <- MCLoaded
    Replays <- MCReplays
    KeySets <- MCKeySets
    Unusable = Unusable
    Absent = Absent
    Latencies = {1, 4}
    MaxVersions = 3
    MaxArrivals = 3
INVARIANTS TypeOK AdmissionBounded Metered DecidesByCurrentKeys
PROPERTY RefusedOnlyWhenSpent
SYMMETRY Alike
CHECK_DEADLOCK FALSE
