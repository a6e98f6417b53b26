SPECIFICATION FairSpec
CONSTANTS
    Apps = {a1}
    RouteNames = {r1}
    MaxLag = 1
    MaxEvents = 2
    Track = TRUE
    Disturbances = {"api", "vs"}
INVARIANT
    TypeOK
PROPERTY
    RoutesConverge
CHECK_DEADLOCK FALSE
