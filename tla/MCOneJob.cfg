SPECIFICATION FairSpec
CONSTANTS
    Job = {j1}
    Command <- AllCommands
    Canceller = {c1}
    Watcher = {w1}
    ModelType = {"ask", "rescue", "review"}
    NoPid = NoPid
    NoSession = NoSession
    NoMark = NoMark
    NoTarget = NoTarget
    MaxCrashes = 1
INVARIANTS
    CallOnRunningRow
    EndedRowHasNoCall
    CancelSparesResult
PROPERTIES
    RunningRowEnds
CHECK_DEADLOCK FALSE
