SPECIFICATION FairSpec
CONSTANTS
    Instances = {i1}
    MaxLag = 2
    MaxChanges = 3
    MaxFaults = 2
    Disturbances = {"api", "catalog", "crash"}
INVARIANT
    TypeOK
    CatalogIsFresh
    InUseStays
PROPERTY
    BrokerDeletionCompletes
    CatalogConverges
CHECK_DEADLOCK FALSE
