SPECIFICATION Spec
CONSTANTS
    Environments <- MCEnvironments
    Remembers <- MCRemembers
    Recalls <- MCRecalls
    None = None
    BadNumber = BadNumber
    Suffixes = 2
    Second = 2
    MaxTrust = 10
    MaxResults = 2
    MaxI64 = 99
    MaxClock = 4
    MaxMemories = 3
    MaxStarts = 2
INVARIANTS MemoriesKept
\* The bounds end every behaviour.
CHECK_DEADLOCK FALSE
