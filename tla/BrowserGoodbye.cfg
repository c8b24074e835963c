SPECIFICATION FairSpec
CONSTANTS
    Insts = {i1}
    Hosts = {h1}
    Ports = {p1}
    Addrs = {a1}
    Txts = {t1, t2}
    None = None
    MaxInstances = 1
    MaxEntries = 4
PROPERTIES
    GoodbyeTakesEffect
\* A closed browse has nothing left to do.
CHECK_DEADLOCK FALSE
