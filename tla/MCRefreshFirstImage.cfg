SPECIFICATION Spec
CONSTANTS
    Machine = {m1, m2}
    MaxImage = 1
    FirstImage = 0
    MaxEdits = 1
    MaxFaults = 0
PROPERTIES
    ChangesReachAll
CHECK_DEADLOCK FALSE
