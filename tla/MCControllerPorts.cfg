SPECIFICATION Spec
CONSTANTS
    UID = {1, 2, 3, 4, 5}
    NameOf <- MCNameOf
    PortUID = {1, 2, 5}
    LinkUID = {3, 4}
    Machine = {}
    Specs <- AwsSpecs
    InitialSpec <- Base
    Targets = {t1}
    Pins = {0, 1}
    MaxMachinePortsPerGroup = 2
    InitialPorts = {1}
    InitialLinks = {3}
    MaxEdits = 2
    MaxFails = 0
    StaleAfter = 1
    MaxNow = 0
INVARIANTS
    TypeOK
    HandedDistinct
    ResolvedDistinct
PROPERTIES
    CurrentReadKeeps
CHECK_DEADLOCK FALSE
