\* The full configuration: is a main answer without A/AAAA kept (spec 4.H step 4)?
CONSTANTS
    r1 = r1
    r2 = r2
    np = np
    nf = nf
    na = na
    ipClean = ipClean
    ipFiltered = ipFiltered
    NoIP = NoIP
    NoResult = NoResult
    Failed = Failed
    InvalidQuery = InvalidQuery
    Requests <- MCRequests
    Names <- MCNames
    QTypes = {"A", "TXT"}
    QCounts = {0, 1}
    AcmeNames <- MCAcmeNames
    PolicyDomains <- MCPolicyDomains
    FallbackDomains <- MCFallbackDomains
    FallbackServers = TRUE
    FallbackDomainFilter = TRUE
    IPs <- MCIPs
    FilteredIPs <- MCFilteredIPs
    CacheCapacity = 2
SYMMETRY MCSymmetry
SPECIFICATION Spec
INVARIANT MainNoDataReturned
