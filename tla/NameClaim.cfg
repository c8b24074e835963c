SPECIFICATION ClaimSpec
CONSTANTS
    MaxRename = 3
    ProbeCount = 3
    AnnounceCount = 2
    OurHost = 0
    Addrs = {1}
    OurData = 1
    PeerData = {2}
    RivalData = 2
    RivalHost = 0
    SameMachine = TRUE
    MaxLosses = 2
INVARIANTS
    NeverBothHold
    OneKeepsTheName
PROPERTIES
    SharedNameIsGivenUp
\* Two settled responders have nothing left to do.
CHECK_DEADLOCK FALSE
