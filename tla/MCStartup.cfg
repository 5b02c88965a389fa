CONSTANTS
    Daemons = {d1, d2}
    Clis = {c1}
    OldBuilds = {c1}
    Rows = {b1}
    OpKeys = {k1, k2}
    Tokens = {t1, t2}
    None = None
    Latest = 3
    MaxMint = 2
    MaxOps = 2
    MaxFaults = 1
SYMMETRY Symmetry
SPECIFICATION MCSpec
INVARIANTS
    MigratedInOrder
    OneIdentity
    PasswordsUsable
