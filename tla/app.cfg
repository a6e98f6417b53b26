SPECIFICATION FairSpec
CONSTANTS
    Retained = 0
    Scripts <- MCScripts
    MaxFaults = 1
    Failing = {"builder"}
INVARIANT
    TypeOK
    ReadyIsReal
    NewPodsHaveServices
PROPERTY
    BuildsOnce
    PushCompletes
CHECK_DEADLOCK FALSE
