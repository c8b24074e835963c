SPECIFICATION FairSpec
CONSTANTS
    Hwm = 1
    MaxItems = 8
    END = END
    FAIL = FAIL
    Undefined = Undefined
INVARIANTS
    NoLostWakeup
PROPERTIES
    ImplementsFifo
    Ends
\* A queue whose consumer has finished needs nothing more.
CHECK_DEADLOCK FALSE
