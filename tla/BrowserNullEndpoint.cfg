SPECIFICATION Spec
CONSTANTS
    Insts = {i1}
    Hosts = {h1}
    Ports = {p1}
    Addrs = {a1}
    Txts = {t1}
    None = None
    MaxInstances = 1
    MaxEntries = 4
INVARIANTS
    NonNullEndpoint
CHECK_DEADLOCK FALSE
