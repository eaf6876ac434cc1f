\* Spec 4.H step 3: fake-IP answers enhanced resolves.
CONSTANTS
    t1 = t1
    t2 = t2
    hV4 = hV4
    hV6 = hV6
    hLit4 = hLit4
    hLit6 = hLit6
    hDom = hDom
    hSkip = hSkip
    NoTask = NoTask
    Tasks <- MCTasks
    Hosts <- MCHosts
    HostsTable <- MCHostsTable
    Literal <- MCLiteral
    FakeSkip <- MCFakeSkip
    FakeEnabled = TRUE
    Ipv6Init = TRUE
    UpstreamMixed = FALSE
SPECIFICATION Spec
SYMMETRY MCTaskSymmetry
INVARIANT FakeIpHonoured
