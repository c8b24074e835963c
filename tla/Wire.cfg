SPECIFICATION Spec
CONSTANTS
    Datagrams <- MCDatagrams
    Messages <- MCMessages
    MaxPointerJumps = 2
    MaxNameLength = 16
    MaxLabelLength = 2
    MaxPointerOffset = 20
    MaxTxtEntry = 5
    Groups = 8
    True = True
    Null = Null
    NoMessage = NoMessage
    Tcp <- MCTcp
    Udp <- MCUdp
    Sub <- MCSub
    Services <- MCServices
    DnsSd <- MCDnsSd
    Local <- MCLocal
    NoName = NoName
    Specs <- MCSpecs
    Browses <- MCBrowses
    NoSpec = NoSpec
INVARIANTS
    StaysInside
    RoundTrips
    ServiceIsReadBack
    DamagedIsRejected
PROPERTIES
    MakesProgress
\* A message that has been read has nothing left to do.
CHECK_DEADLOCK FALSE
