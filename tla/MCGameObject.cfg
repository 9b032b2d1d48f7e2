\* Three objects, two scripts, any five calls.
CONSTANTS
    N = 3
    Scripts = {s1, s2}
    MaxCalls = 5
SPECIFICATION FairSpec
INVARIANTS
    ReadyAtRest
    EachUpdatedOnce
    ParentHolds
PROPERTIES
    NothingAfterDestroy
    UpdateAfterStart
    CallsReturn
CHECK_DEADLOCK FALSE
