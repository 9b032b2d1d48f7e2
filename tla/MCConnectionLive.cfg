\* Each end sends up to one message; two breaks, at both ends or at one.
CONSTANTS
    MessagesOf <- OneKindEach
    MaxSends <- OneAndOne
    MaxBreaks = 2
SPECIFICATION FairSpec
PROPERTIES
    HandshakeResolves
    PeerCloseNoticed
    EventuallyDelivered
CHECK_DEADLOCK FALSE
