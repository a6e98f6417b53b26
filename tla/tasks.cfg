SPECIFICATION FairSpec
CONSTANTS
    MaxTasks = 1
    Retained = 0
    MaxChanges = 1
    MaxAppWrites = 1
    MaxFaults = 2
    Disturbances = {"missing", "api", "registry", "sync"}
INVARIANT
    TypeOK
    SucceededIsReal
PROPERTY
    StartsOnce
    TerminateEnds
    LabelFollowsID
CHECK_DEADLOCK FALSE
