SPECIFICATION FairSpec
CONSTANTS
    MaxEvents = 3
    Event = Event
    END = END
    FAIL = FAIL
INVARIANTS
    StopsOnce
PROPERTIES
    StopsEverything
\* A stream that has ended needs nothing more.
CHECK_DEADLOCK FALSE
