SPECIFICATION FairSpec
CONSTANTS
    SpaceNames = {"s1", "s2"}
    MaxWorkers = 2
    Parts <- MCParts
    Scripts <- MCScripts
INVARIANT
    TypeOK
    ReadyIsReal
PROPERTY
    PolicyConverges
    SpacesConverge
CHECK_DEADLOCK FALSE
