------------------------- MODULE MCMachineStatuses -------------------------
EXTENDS MachineStatuses
=============================================================================
