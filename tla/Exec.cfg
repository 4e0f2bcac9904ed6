SPECIFICATION FairSpec
CONSTANTS
    Capacity = 2
    Limit = 2
    MaxWrites = 5
INVARIANTS
    ResultIsComplete
    LimitIsExact
PROPERTIES
    ChildIsNeverStuck
    CallEnds
CHECK_DEADLOCK FALSE
