SPECIFICATION Spec
CONSTANTS
    Insts = {i1, i2}
    Versions = {v, w}
    i1 = i1
    i2 = i2
    v = v
    w = w
    Absent = Absent
    MaxCallbacks = 3
    MaxChanges = 4
    NoCallback = 0
    MaxResolvers = 3
    Endpoints = {e1, Nowhere}
    e1 = e1
    Nowhere = Nowhere
    NoResolver = 0
INVARIANTS
    AgreesWithSystem

    
\* A stopped browse has nothing left to do.
CHECK_DEADLOCK FALSE
