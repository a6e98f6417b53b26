SPECIFICATION Spec
CONSTANTS
    Hosts = {1}
    Paths <- MCPaths
    Apps = {1, 2, 3}
    Services = {s1}
    MaxWeight = 2
    MaxRoutes = 2
    MaxBindings = 3
    MaxServices = 1
INVARIANTS
    TypeOK
    DispatchesMostSpecific
    SplitIsFair
CHECK_DEADLOCK FALSE
