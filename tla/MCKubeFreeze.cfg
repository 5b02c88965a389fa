\* Two children of one parent at once, no fault; kube driver with hostPath.
CONSTANTS
    None = None
    r1 = r1
    p = p
    k1 = p
    r2 = r2
    c = c
    k2 = k2
    l1 = l1
    l2 = l2
    RowIds = {r1, r2, r3}
    LayerIds = {l1, l2}
    Names = {p, c, d}
    Cids = {p, c, d}
    MaxGen = 3
    KeepJournal = FALSE
    Procs = {a, b}
    Reconcilers = {}
    Ops = {"from"}
    Budgets <- MCNoFault
    Docker = FALSE
    MaxLayerDepth = 3
    TimelyHeartbeats = TRUE
SPECIFICATION MCSpec
PROPERTIES
    FreezeKeepsData
\* The budgets run out: every behaviour ends with all processes idle.
CHECK_DEADLOCK FALSE
