SPECIFICATION Spec
CONSTANTS
    UID = {1}
    NameOf <- MCOneName
    PortUID = {1}
    LinkUID = {}
    Machine = {m1}
    Specs <- AwsInvalidSpecs
    InitialSpec <- Base
    Targets = {t1}
    Pins = {0}
    MaxMachinePortsPerGroup = 2
    InitialPorts = {}
    InitialLinks = {}
    MaxEdits = 2
    MaxFails = 2
    StaleAfter = 1
    MaxNow = 1
INVARIANTS
    MachinesGuarded
    ReadyIsEnsured
PROPERTIES
    FollowsLifecycle
    Converges
    DeletionCompletes
CHECK_DEADLOCK FALSE
