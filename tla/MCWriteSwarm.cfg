SPECIFICATION Spec
CONSTANTS
    None = None
    j1 = j1
    j2 = j2
    s1 = s1
    s2 = s2
    Jobs = {j1, j2}
    Setups = {s1, s2}
    Swarms = {j1, j2}
    Forced = {j2}
    Budget = 1
    Margin = 1
INVARIANTS
    WorkCaptured
PROPERTIES
    RunningKeepsDir
    LiveWorktreeKept
    SetupRepairsPaths
    OrphansReaped
SYMMETRY SetupSymmetry
CHECK_DEADLOCK FALSE
