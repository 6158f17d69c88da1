SPECIFICATION Spec
CONSTANTS
    Job = {j1}
    Command <- BackgroundOnly
    Canceller = {c1}
    Watcher = {}
    ModelType = {"ask", "rescue", "review"}
    NoPid = NoPid
    NoSession = NoSession
    NoMark = NoMark
    NoTarget = NoTarget
    MaxCrashes = 0
INVARIANT CancelledRowHasNoCall
CHECK_DEADLOCK FALSE
