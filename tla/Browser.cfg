SPECIFICATION Spec
CONSTANTS
    Insts = {i1, i2, i3}
    Hosts = {h1, h2}
    Ports = {p1}
    Addrs = {a1, a2}
    Txts = {}
    None = None
    MaxInstances = 2
    MaxEntries = 5
SYMMETRY Symmetry
INVARIANTS
    DerivedFromCache
    MembersMatch
    WithinCaps
    NoneLeftWaiting
    ConsumerKnowsEndpoint
PROPERTIES
    KeepsContract
\* A closed browse has nothing left to do.
CHECK_DEADLOCK FALSE
