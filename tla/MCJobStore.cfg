SPECIFICATION Spec
CONSTANTS
    Job = {j1, j2, j3}
    Pid = {p1, p2}
    Session = {s1}
    NoPid = NoPid
    NoSession = NoSession
    ModelType = {"ask", "review"}
SYMMETRY Symmetric
INVARIANTS
    TypeOK
    AdmittedAlone
    OneRunningJobPerSession
    BlockingRowHasOwner
PROPERTIES
    EndedRowsAreFrozen
    ImplementsSlot
CHECK_DEADLOCK FALSE
