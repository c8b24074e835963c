SPECIFICATION DiscoverySpec
CONSTANTS
    Insts = {i1}
    Hosts = {h1}
    Ports = {p1}
    Addrs = {a1}
    Txts = {}
    None = None
    MaxInstances = 1
    MaxEntries = 3
    TtlHost = 3
    TtlShared = 6
    Requeries = 2
    GoodbyeGrace = 1
    QueryIntervalMax = 4
    AnnounceCount = 2
    MaxStarts = 2
    MaxLosses = 2
INVARIANTS
    GoneIsForgotten
    FoundWithinInterval
PROPERTIES
    RenewedWhileUp
