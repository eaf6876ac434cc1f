\* No hosts entries, no fake-IP: can an upstream answer make resolve panic?
CONSTANTS
    t1 = t1
    t2 = t2
    hV4 = hV4
    hV6 = hV6
    hLit4 = hLit4
    hLit6 = hLit6
    hDom = hDom
    hSkip = hSkip
    NoTask = NoTask
    Tasks <- MCTasks
    Hosts <- MCHosts
    HostsTable <- MCHostsTableEmpty
    Literal <- MCLiteral
    FakeSkip <- MCFakeSkip
    FakeEnabled = FALSE
    Ipv6Init = TRUE
    UpstreamMixed = TRUE
SPECIFICATION Spec
SYMMETRY MCTaskSymmetry
INVARIANT NoPanic
