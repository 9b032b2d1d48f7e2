\* Six ticks between updates in range, twelve out of it; a frame takes four or seven.
CONSTANTS
    Roots = {1, 2}
    Inner = {3}
    RootOf <- OneBelow
    Simulated = 6
    Emulated = 12
    FrameTime = 5
    Second = 60
    Deltas = {4, 7}
    MaxFrames = 4
    MaxChanges = 1
    MaxEmulated = 4
    Keys = {Space}
    Buttons = {LeftButton}
    Unknown = Unknown
    Left = LeftButton
    ToggleOn = 3
    MaxPolls = 1
SPECIFICATION FrameSpec
INVARIANTS
    DeltaIsElapsed
    CollisionsOnFreshTree
    ListsAndFlags
    ServedInTime
    ReleaseSafe
    PressIsFresh
    EventsReachAll
    OneFlipPerClick
CHECK_DEADLOCK FALSE
