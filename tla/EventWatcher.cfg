SPECIFICATION FairWatcherSpec
CONSTANTS
    Published <- MCPublished
    FixedStart = 0
    PageLimit = 1
    Slots = {a, b}
    PerLedger = 2
    MaxLedger = 3
    MaxEvents = 3
INVARIANTS
    WatcherTypeOK
    NothingSkipped
PROPERTIES
    FirstSeenInOrder
    EventsArrive
