\* Two callers, every saga, one fault; docker.
CONSTANTS
    None = None
    r1 = r1
    p = p
    k1 = k1
    r2 = r2
    c = c
    k2 = k2
    l1 = l1
    l2 = l2
    RowIds = {r1, r2, r3}
    LayerIds = {l1, l2}
    Names = {p, c, d}
    Cids = {k1, k2, k3, k4, k5, k6, k7}
    MaxGen = 3
    KeepJournal = TRUE
    Procs = {a, b}
    Reconcilers = {}
    Ops = {"create", "from", "destroy", "reset", "recover"}
    Budgets <- MCOneFault
    Docker = TRUE
    MaxLayerDepth = 3
    TimelyHeartbeats = TRUE
SPECIFICATION MCDeepSpec
INVARIANTS
    OwnDataIntact
    ServesOwnStack
    JournalIsHistory
    UniqueLiveNames
    ChainsLive
PROPERTIES
    ImplementsBranching
\* The budgets run out: every behaviour ends with all processes idle.
CHECK_DEADLOCK FALSE
