SPECIFICATION Spec
CONSTANTS
    Missing = Missing
    Broken = Broken
    NoConfig = NoConfig
    EndpointName <- MCEndpointName
    Configs <- MCConfigs
    Disks <- MCDisks
INVARIANT
    PrintConfigDoesNotStart
CHECK_DEADLOCK FALSE
