SPECIFICATION Spec
CONSTANTS
    UID = {1, 2, 3, 4, 5}
    NameOf <- MCNameOf
    PortUID = {1, 2}
    LinkUID = {}
    Machine = {}
    Specs <- NoopSpecs
    InitialSpec <- Noop
    Targets = {t1}
    Pins = {0}
    MaxMachinePortsPerGroup = 2
    InitialPorts = {1}
    InitialLinks = {}
    MaxEdits = 1
    MaxFails = 0
    StaleAfter = 1
    MaxNow = 0
PROPERTIES
    AllocationsStable
CHECK_DEADLOCK FALSE
