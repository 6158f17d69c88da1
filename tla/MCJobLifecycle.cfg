SPECIFICATION Spec
CONSTANTS
    Job = {j1, j2}
    Command <- TwoCommands
    Canceller = {c1}
    Watcher = {}
    ModelType = {"ask", "rescue", "review"}
    NoPid = NoPid
    NoSession = NoSession
    NoMark = NoMark
    NoTarget = NoTarget
    MaxCrashes = 0
SYMMETRY Symmetric
INVARIANTS
    TypeOK
    OneCallAtATime
PROPERTIES
    ImplementsStore
CHECK_DEADLOCK FALSE
