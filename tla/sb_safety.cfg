SPECIFICATION Spec
CONSTANTS
    MaxUnbindRequests = 1
    MaxLag = 1
    Disturbances = {"api", "crash", "timeout", "namespace", "instance"}
INVARIANTS
    TypeOK
    BoundIsReal
PROPERTIES
    NeverRebound
    ImplementsExternalResource
CHECK_DEADLOCK FALSE
