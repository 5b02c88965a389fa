CONSTANTS
    Replicas = {a, b}
    a = a
    Muts = {m1}
    Nobody = Nobody
    MaxTerm = 2
    MaxMishaps = 1
SPECIFICATION MCSpec
INVARIANTS
    GateFollowsLease
    DrainedMeansIdle
PROPERTIES
    LabelsConverge
    DeposedStops
    ShutdownEnds
\* Every replica may shut down.
CHECK_DEADLOCK FALSE
