SPECIFICATION Spec
CONSTANTS
    Descendant = {d1}
    MaxItems = 1
INVARIANT TeardownIsBarrier
CHECK_DEADLOCK FALSE
