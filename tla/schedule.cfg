SPECIFICATION FairSpec
CONSTANTS
    Scheduled = {1, 3, 5, 7, 9}
    MaxTime = 5
    MaxChanges = 1
    MaxFaults = 2
    Disturbances = {"api", "space", "schedule"}
INVARIANT
    TypeOK
    OnlyScheduledTimes
    RespectsPolicy
PROPERTY
    CatchesUp
CHECK_DEADLOCK FALSE
