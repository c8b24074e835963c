SPECIFICATION FairSpec
CONSTANTS
    MaxRename = 2
    ProbeCount = 3
    AnnounceCount = 2
    OurHost = 0
    Addrs = {1}
    OurData = 1
    PeerData = {0, 1, 2}
INVARIANTS
    WindowHasTimer
    PendingAnswersAreCurrent
    OneChain
    SilentUntilReady
    ContestedIsGivenUp
    StopWithdrawsLastName
PROPERTIES
    ClaimsAreUncontested
    ReadySettles
\* A stopped, given-up or closed responder has nothing left to do.
CHECK_DEADLOCK FALSE
