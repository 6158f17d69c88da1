SPECIFICATION FairSpec
CONSTANTS
    Descendant = {d1}
    MaxItems = 2
INVARIANTS
    TypeOK
    OutputIsProven
    AbortIsReported
    CapturedTreeIsGone
PROPERTIES
    NothingAfterMismatch
    ImplementsCall
    CallEnds
CHECK_DEADLOCK FALSE
