SPECIFICATION SourcesSpec
CONSTANTS
    Rows = {s1, s2}
    Bs = {b1}
    Users = {u1, u2}
    Reconcilers = {rec}
    None = None
    MaxGen = 2
    MaxOps = 4
    MaxFaults = 1
INVARIANTS
    BaseIntact
PROPERTIES
    SeedingEnds
    OrphansGo
CHECK_DEADLOCK FALSE
