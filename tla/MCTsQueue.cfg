\* Two producers and one consumer, two distinct items, pushes onto a queue of
\* up to two items.
CONSTANTS
    Producers = {p1, p2}
    Consumers = {c1}
    Items = {a, b}
    NoItem = NoItem
    NoThread = NoThread
    MaxLen = 2
SPECIFICATION FairSpec
INVARIANTS
    NoPopOnEmpty
    NoLockCycle
    AsleepOnItemsOnlyIfMissed
PROPERTIES
    WokenByNextPush
    PushReturns
    ImplementsDeque
