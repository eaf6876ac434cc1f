\* A hosts entry of one family only, resolved with enhanced lookups.
CONSTANTS
    t1 = t1
    t2 = t2
    hV4 = hV4
    hV6 = hV6
    hLit4 = hLit4
    hLit6 = hLit6
    hDom = hDom
    hSkip = hSkip
    NoTask = NoTask
    Tasks <- MCTasks
    Hosts <- MCHosts
    HostsTable <- MCHostsTableV4Only
    Literal <- MCLiteral
    FakeSkip <- MCFakeSkip
    FakeEnabled = TRUE
    Ipv6Init = TRUE
    UpstreamMixed = FALSE
SPECIFICATION Spec
SYMMETRY MCTaskSymmetry
INVARIANT NoPanic
