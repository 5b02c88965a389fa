\* A freeze cut short by a crash, its child destroyed, then reconcile.
CONSTANTS
    None = None
    r1 = r1
    p = p
    k1 = k1
    r2 = r2
    c = c
    k2 = k2
    l1 = l1
    l2 = l2
    RowIds = {r1, r2}
    LayerIds = {l1}
    Names = {p, c}
    Cids = {k1, k2, k3, k4, k5}
    MaxGen = 2
    KeepJournal = FALSE
    Procs = {a, z}
    Reconcilers = {z}
    Ops = {"from", "destroy", "failstuck"}
    Budgets <- MCOneFault
    Docker = TRUE
    MaxLayerDepth = 3
    TimelyHeartbeats = TRUE
SPECIFICATION MCSpec
INVARIANTS
    ParentKeepsVolume
\* The budgets run out: every behaviour ends with all processes idle.
CHECK_DEADLOCK FALSE
