SPECIFICATION MCSpec
CONSTANTS
    Requests = {r1, r2}
    Timeout = 1
    Retries = 1
    MaxTime = 2
    MaxSequence = 2
    Keys = {k1, k2, k3}
    MaxEntries = 2
    Ttls = {1}
    NoEntry = NoEntry
    MaxLoad = 1
    MaxLoads = 2
    MaxUses = 5
    MaxClock = 3
    Addresses = {a1, a2, a3, a4}
    Unset = Unset
    MaxDrafts = 2
    Actors = {p1, p2, p3}
    Digests = {h1, h2}
    Splits = {x1, x2}
    Undefined = Undefined
    Refused = Refused
    Escrows = {e1, e2, e3}
    DemoEscrow = e1
    Mine = {e1, e2}
    States = {"Active", "Completed"}
    PageSize = 1
    MaxWrites = 5
    Demo <- MCDemo
    NoMilestone = NoMilestone
    MaxWorks = 3
    Accounts = {g1, g2, g3}
    NoAccount = NoAccount
    NotAnAccount = NotAnAccount
    MaxMoves = 2
    MaxMounts = 2
CHECK_DEADLOCK FALSE
INVARIANTS
    PartsTypeOK
    NoDoubleInclusion
    
    ServedIsRecent
    RecentlyUsedIsKept
    
    SettlementIsWhole
    UntouchedIsSeen
    AssembledIsDistinct
PROPERTIES
    RequestsEnd
    ReleasedStays
