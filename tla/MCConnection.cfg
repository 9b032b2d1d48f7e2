\* The client sends up to two messages of all kinds, the server one; one break.
CONSTANTS
    MessagesOf <- ThreeKindsAndOne
    MaxSends <- TwoAndOne
    MaxBreaks = 1
SPECIFICATION Spec
INVARIANTS
    OneOfEach
    FramingInSync
PROPERTY
    ImplementsChannel
CHECK_DEADLOCK FALSE
