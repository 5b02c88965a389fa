CONSTANTS
    Calls = {c1, c2}
    Names = {n1, n2}
    None = None
    MaxTries = 2
    MaxWatchFailures = 2
    MaxFaults = 3
SPECIFICATION MCFairSpec
INVARIANTS
    SecretWhileNeeded
PROPERTIES
    EndSeen
    FinishedCollected
CHECK_DEADLOCK FALSE
