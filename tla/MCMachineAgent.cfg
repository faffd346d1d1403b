SPECIFICATION Spec
CONSTANTS
    Groups <- AllGroups
    FirstGroup <- First
    DefaultImage <- Latest
    MaxEdits = 2
    MaxFails = 3
INVARIANTS
    TypeOK
    LastIsServed
PROPERTIES
    NeverOlder
    Settles
CHECK_DEADLOCK FALSE
