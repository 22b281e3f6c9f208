SPECIFICATION IndexerSpec
CONSTANTS
    Published <- MCPublished
    FixedStart = 0
    PageLimit = 2
    Slots = {a, b}
    PerLedger = 1
    MaxLedger = 4
    MaxEvents = 3
    Persistent = TRUE
    Amount = 1
    MaxTimeline = 3
SYMMETRY SlotSymmetry
CHECK_DEADLOCK FALSE
INVARIANTS
    RowTellsTimeline
    TimelineIsLog
