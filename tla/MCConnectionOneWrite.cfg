\* A client that sends at most one message.
CONSTANTS
    MessagesOf <- OneKindEach
    MaxSends <- OneAndNone
    MaxBreaks = 0
SPECIFICATION Spec
INVARIANT
    OneWriteAtATime
CHECK_DEADLOCK FALSE
