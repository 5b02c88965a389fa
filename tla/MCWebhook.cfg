SPECIFICATION WebhookSpec
CONSTANTS
    PRs = {p1}
    None = None
    Workers = {w1, w2}
    ResetOnPush = TRUE
    CacheSize = 1
    Budgets <- MCBudgets
INVARIANTS
    OneAtATime
    WaitMeansIdle
    OneComment
PROPERTIES
    OpenHasBranch
    ClosedLosesBranch
CHECK_DEADLOCK FALSE
