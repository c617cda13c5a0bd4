SPECIFICATION FairSpec
CONSTANTS
    Missing = Missing
    Broken = Broken
    NoConfig = NoConfig
    EndpointName <- MCEndpointName
    Configs <- MCConfigs
    Disks <- MCDisks
INVARIANTS
    TypeOK
    SuccessMeansChecked
    NothingOutlivesMain
    ServesTheConfiguredFile
    ApprovedConfigStarts
PROPERTIES
    OneForAll
    CollisionIsFatal
CHECK_DEADLOCK FALSE
