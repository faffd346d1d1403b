SPECIFICATION Spec
CONSTANTS
    Exposures <- SomeExposures
    PortSets = {{1}, {1, 2}}
    FirstExposures <- FirstOnes
    FirstPorts = {{1, 2}}
    AwsResourceName <- InLowerCase
    MaxEdits = 2
    MaxFails = 1
INVARIANTS
    TypeOK
    EnsuredMeansExposed
    DeletedMeansGone
PROPERTIES
    KeepsServing
    ExposureConverges
CHECK_DEADLOCK FALSE
