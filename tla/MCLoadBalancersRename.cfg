SPECIFICATION Spec
CONSTANTS
    Exposures <- FewExposures
    PortSets = {{1}}
    FirstExposures <- FirstOnes
    FirstPorts = {{1}}
    AwsResourceName <- InLowerCase
    MaxEdits = 1
    MaxFails = 0
INVARIANTS
    EveryEntryHasBalancer
CHECK_DEADLOCK FALSE
