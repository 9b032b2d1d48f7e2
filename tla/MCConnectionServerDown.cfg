\* A client that sends at most one message.
CONSTANTS
    MessagesOf <- OneKindEach
    MaxSends <- OneAndNone
    MaxBreaks = 0
SPECIFICATION FairSpec
PROPERTY
    ServerDownSeen
CHECK_DEADLOCK FALSE
