SPECIFICATION FairSpec
CONSTANTS
    p1 = p1
    p2 = p2
    p3 = p3
    g1 = g1
    g2 = g2
    None = None
    Procs = {p1, p2, p3}
    Ghosts = {g1, g2}
    MaxLeases = 2
INVARIANTS
    TypeOK
    MutualExclusion
    OneRecoverer
PROPERTIES
    LiveOwnerKept
    DeadOwnerCleared
CHECK_DEADLOCK FALSE
