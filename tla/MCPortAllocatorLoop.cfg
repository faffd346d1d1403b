SPECIFICATION Spec
CONSTANTS
    UID = {1, 2, 3}
    NameOf <- MCNameOf
    MaxInt32 = 3
    PortValue = {1, 2, 3}
    PortRanges <- MCPortRanges
INVARIANTS
    TypeOK
    AllocatesFromRange
    NoSharedPort
    KeepsExisting
    AgreesWithDefinition
    FixedPoint
PROPERTIES
    Terminates
CHECK_DEADLOCK FALSE
