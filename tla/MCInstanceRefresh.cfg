SPECIFICATION Spec
CONSTANTS
    Machine = {m1, m2}
    MaxImage = 3
    FirstImage = 1
    MaxEdits = 2
    MaxFaults = 2
INVARIANTS
    TypeOK
    TagIsReached
    OneRefreshPerImage
    OnlyChangesRefresh
PROPERTIES
    RollsOut
CHECK_DEADLOCK FALSE
