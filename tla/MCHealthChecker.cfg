SPECIFICATION FairHealthCheckerSpec
CONSTANTS
    NumEndpoints = 3
    MaxCopies = 1
    m1 = m1
    m2 = m2
    NoRoute = NoRoute
    Nobody = Nobody
    Checker = Checker
    ImmediateShutdown = FALSE
    Task <- MCTask
    Model <- MCModel
    Tenant <- MCTenant
    UrlSlug <- MCUrlSlug
    Include <- MCInclude
    Exclude <- MCExclude
INVARIANTS
    RoutesHealthy
    SelectionAgreesWithLookup
PROPERTIES
    RefreshedForever
    StopsOnShutdown
CHECK_DEADLOCK FALSE
