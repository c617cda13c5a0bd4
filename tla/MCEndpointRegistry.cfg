SPECIFICATION RegistrySpec
CONSTANTS
    NumEndpoints = 3
    MaxCopies = 2
    m1 = m1
    m2 = m2
    NoRoute = NoRoute
    Model <- MCModel
    Tenant <- MCTenant
    UrlSlug <- MCUrlSlug
    Include <- MCInclude
    Exclude <- MCExclude
INVARIANTS
    RegistryTypeOK
    RoutesSound
    LastAdvertiserWins
    ModelIndexSound
