SPECIFICATION FairSpec
CONSTANTS
    Descendant = {d1}
    MaxItems = 1
PROPERTY BudgetEndsCall
CHECK_DEADLOCK FALSE
