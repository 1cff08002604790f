SPECIFICATION DagsSpec
CONSTANTS
    Server = {"s", "t"}
    Default = "default"
    ReplayEvent <- MCReplayEvent
    Size <- MCSize
    MaxServers = 2
    MaxPending = 2
    Budget = 2
    Guard = 3
    StoreEvent <- MCStoreEvent
    PageLimit = 2
    RowLimit = 3
    Envelope = 2
    Author = {"a", "b"}
    Honest = {"a"}
    Event <- MCEvent
    MaxDeps = 2
    MaxEntries = 3
    PerAuthorCap = 4
    MaxAge = 0
    MaxArrivals = 4
    MaxTime = 0
INVARIANT DefaultConnects
CHECK_DEADLOCK FALSE
