SPECIFICATION Spec
CONSTANTS
    MaxDeleteRequests = 2
    MaxLag = 2
    Disturbances = {"api", "crash", "client", "timeout", "space"}
INVARIANTS
    TypeOK
    NoOrphan
PROPERTIES
    NeverReprovisioned
    ImplementsExternalResource
CHECK_DEADLOCK FALSE
