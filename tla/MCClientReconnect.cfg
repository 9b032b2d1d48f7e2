\* Up to three connects, two posted handlers besides the close.
CONSTANTS
    MaxConnects = 3
    MaxPosted = 2
SPECIFICATION Spec
PROPERTY
    RestartBeforeRun
CHECK_DEADLOCK FALSE
