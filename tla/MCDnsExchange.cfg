\* The full configuration: main, fallback, fallback domain filter, policy
\* and an IP filter, two concurrent callers and a two-entry LRU; fair
\* scheduling for termination, hence no symmetry reduction.
CONSTANTS
    r1 = r1
    r2 = r2
    np = np
    nf = nf
    na = na
    ipClean = ipClean
    ipFiltered = ipFiltered
    NoIP = NoIP
    NoResult = NoResult
    Failed = Failed
    InvalidQuery = InvalidQuery
    Requests <- MCRequests
    Names <- MCNames
    QTypes = {"A", "TXT"}
    QCounts = {0, 1}
    AcmeNames <- MCAcmeNames
    PolicyDomains <- MCPolicyDomains
    FallbackDomains <- MCFallbackDomains
    FallbackServers = TRUE
    FallbackDomainFilter = TRUE
    IPs <- MCIPs
    FilteredIPs <- MCFilteredIPs
    CacheCapacity = 2
SPECIFICATION FairSpec
INVARIANT TypeOK
INVARIANT AnswerFitsQuestion
INVARIANT IpFallbackRespected
INVARIANT RoutedToConfiguredPool
PROPERTY ImplementsAbstract
PROPERTY ExchangeTerminates
