SPECIFICATION Spec
CONSTANTS
    Missing = Missing
    Broken = Broken
    NoConfig = NoConfig
    EndpointName <- MCEndpointName
    Configs <- MCConfigs
    Disks <- MCDisks
INVARIANT
    RootsAgree
CHECK_DEADLOCK FALSE
