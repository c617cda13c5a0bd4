SPECIFICATION FairProxySpec
CONSTANTS
    NumEndpoints = 2
    MaxCopies = 1
    m1 = m1
    m2 = m2
    c1 = c1
    c2 = c2
    NoRoute = NoRoute
    NoRequest = NoRequest
    ListRequest = ListRequest
    Unresolved = Unresolved
    Nobody = Nobody
    Checker = Checker
    ImmediateShutdown = TRUE
    Task <- MCTask
    Client <- MCClient
    Model <- MCModel
    Tenant <- MCTenant
    UrlSlug <- MCUrlSlug
    Include <- MCInclude
    Exclude <- MCExclude
INVARIANTS
    ProxyTypeOK
    PassExclusive
    MetricsMatchResponses
    QueueMatchesTasks
PROPERTIES
    ResolutionSound
    ImplementsRoutingTable
    LockServed
