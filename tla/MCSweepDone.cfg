SPECIFICATION Spec
CONSTANTS
    Job = {j1}
    Command <- ForegroundOnly
    Canceller = {}
    Watcher = {w1}
    ModelType = {"ask", "rescue", "review"}
    NoPid = NoPid
    NoSession = NoSession
    NoMark = NoMark
    NoTarget = NoTarget
    MaxCrashes = 0
INVARIANT CompletedHasResult
CHECK_DEADLOCK FALSE
