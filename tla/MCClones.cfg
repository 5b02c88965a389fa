SPECIFICATION MCSpec
CONSTANTS
    p = p
    c = c
    tw = tw
    None = None
    Source = Source
    Names <- MCNames
    TwName = tw
    RowCount = 3
    MaxGen = 2
    Procs = {1, 2, 3}
    Reconcilers = {3}
    Budgets <- MCBudgets
INVARIANTS
    CloneIntact
PROPERTIES
    DataKept
\* The budgets run out: every behaviour ends with all processes idle.
CHECK_DEADLOCK FALSE
