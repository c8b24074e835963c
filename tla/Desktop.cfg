SPECIFICATION Spec
CONSTANTS
    Browse = {b1, b2}
    Advert = {a1}
    Types = {t1, t2}
    MaxDaemons = 2
    b1 = b1
    b2 = b2
    a1 = a1
    t1 = t1
    t2 = t2
SYMMETRY Symmetry
INVARIANTS
    DaemonLifetime
    NoSilentSession
    StopIsToldOnce
    NoStrayListener
\* A plug-in without a session, its daemons used up, has nothing left to do.
CHECK_DEADLOCK FALSE
