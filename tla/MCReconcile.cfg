\* A caller and a reconciler; two operations, or one and two faults; docker.
CONSTANTS
    None = None
    r1 = r1
    p = p
    k1 = k1
    r2 = r2
    c = c
    k2 = k2
    l1 = l1
    l2 = l2
    RowIds = {r1, r2, r3, r4}
    LayerIds = {l1, l2}
    Names = {p, c}
    Cids = {k1, k2, k3, k4, k5, k6, k7}
    MaxGen = 3
    KeepJournal = FALSE
    Procs = {a, z}
    Reconcilers = {z}
    Ops = {"create", "from", "destroy", "reap", "retry", "failstuck", "lost", "orphan", "gclayer", "gcvolume"}
    Budgets <- MCEither
    Docker = TRUE
    MaxLayerDepth = 3
    TimelyHeartbeats = TRUE
SPECIFICATION MCFairSpec
INVARIANTS
    OwnDataIntact
    StackIntact
PROPERTIES
    SparesServing
    Converges
\* The budgets run out: every behaviour ends with all processes idle.
CHECK_DEADLOCK FALSE
