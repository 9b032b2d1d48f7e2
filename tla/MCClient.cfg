\* Up to three connects, two posted handlers besides the close.
CONSTANTS
    MaxConnects = 3
    MaxPosted = 2
SPECIFICATION FairSpec
INVARIANTS
    HandlersOwned
    QuietAfterDisconnect
PROPERTY
    DisconnectReturns
CHECK_DEADLOCK FALSE
