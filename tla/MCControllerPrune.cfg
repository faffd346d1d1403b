SPECIFICATION Spec
CONSTANTS
    UID = {1}
    NameOf <- MCOneName
    PortUID = {1}
    LinkUID = {}
    Machine = {m1}
    Specs <- NoopSpecs
    InitialSpec <- Noop
    Targets = {t1}
    Pins = {0}
    MaxMachinePortsPerGroup = 2
    InitialPorts = {1}
    InitialLinks = {}
    MaxEdits = 1
    MaxFails = 0
    StaleAfter = 1
    MaxNow = 2
PROPERTIES
    PrunedAreGone
CHECK_DEADLOCK FALSE
