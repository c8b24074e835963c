SPECIFICATION Spec
CONSTANTS
    NodeHost = n
    DenoHost = d
    Hosts = {n, d}
    Data = {x, y}
    n = n
    d = d
    x = x
    y = y
    Null = Null
    Undefined = Undefined
    MaxSends = 2
    Ttl = 1
    MaxEntries = 1
INVARIANTS
    OwnEchoesHaveCredit
    NoLostWakeup
PROPERTIES
    InOrder
\* A closed transport with nothing on its way has nothing left to do.
CHECK_DEADLOCK FALSE
