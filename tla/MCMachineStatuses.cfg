SPECIFICATION Spec
CONSTANTS
    Machine = {m1, m2}
    Report = {r1}
    Pruning = TRUE
    MaxNow = 1
    MaxFaults = 2
INVARIANTS
    TypeOK
PROPERTIES
    AddedByOwner
    LostOnlyToNullPatch
    Registers
CHECK_DEADLOCK FALSE
