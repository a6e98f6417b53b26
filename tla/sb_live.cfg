SPECIFICATION FairSpec
CONSTANTS
    MaxUnbindRequests = 1
    MaxLag = 1
    Disturbances = {"timeout", "client"}
PROPERTIES
    CredentialsArrive
    UnbindCompletes
CHECK_DEADLOCK FALSE
