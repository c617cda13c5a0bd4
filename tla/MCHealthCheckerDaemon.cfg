SPECIFICATION HealthCheckerSpec
CONSTANTS
    NumEndpoints = 3
    MaxCopies = 1
    m1 = m1
    m2 = m2
    NoRoute = NoRoute
    Nobody = Nobody
    Checker = Checker
    ImmediateShutdown = TRUE
    Task <- MCTask
    Model <- MCModel
    Tenant <- MCTenant
    UrlSlug <- MCUrlSlug
    Include <- MCInclude
    Exclude <- MCExclude
INVARIANT
    CheckerOutlivesServers
CHECK_DEADLOCK FALSE
