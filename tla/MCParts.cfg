\* Three bodies and a wall; a key and two buttons; values of one and two bytes.
CONSTANTS
    Circles = {a, b}
    Polys = {box, wall}
    Bodies = {a, b, box}
    Radius <- MCRadius
    HalfWidth <- MCHalfWidth
    Places <- MCPlaces
    One = 64
    Keys = {k1}
    Buttons = {left, right}
    Unknown = Unknown
    Values = {byte, word, other}
    SizeOf <- MCSizeOf
    Paths = {p}
    Mixed = Mixed
    MaxBytes = 4
SPECIFICATION PartsSpec
INVARIANTS
    FlagsOfThisPass
    StaticsStay
    CentreStays
    LonePairParts
    TapsVisible
    DiskIsPrefix
PROPERTIES
    RoundTrip
CHECK_DEADLOCK FALSE
