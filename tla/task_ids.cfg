SPECIFICATION Spec
CONSTANTS
    MaxTasks = 2
    Retained = 2
    MaxChanges = 0
    MaxAppWrites = 1
    MaxFaults = 0
    Disturbances = {}
INVARIANT
    UniqueIDs
CHECK_DEADLOCK FALSE
