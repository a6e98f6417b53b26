SPECIFICATION FairSpec
CONSTANTS
    MaxDeleteRequests = 1
    MaxLag = 1
    Disturbances = {"timeout", "bindings"}
PROPERTIES
    DeletionCompletes
    ProvisioningResolves
CHECK_DEADLOCK FALSE
