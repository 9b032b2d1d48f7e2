\* Two clients with two ids; onClientDisconnect is overridden, as in exampleServer.cpp.
CONSTANTS
    Clients = {a, b}
    Ids = {i1, i2}
    Null = Null
    HookErases = FALSE
    MaxPosted = 1
    MaxQueue = 1
SPECIFICATION FairSpec
INVARIANTS
    IdsIdentify
    NoNullAtRest
    ReportedIffRemoved
PROPERTIES
    GoneIsRemoved
CHECK_DEADLOCK FALSE
