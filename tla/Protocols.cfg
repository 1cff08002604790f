SPECIFICATION ProtocolSpec
CONSTANTS
    Derive <- Selector
    Capacity = 3
    Ordered = TRUE
    MaxMutations = 3
    Actor = {"p", "q"}
    Caller = {"c"}
    Nobody = "nobody"
    Downstream <- MCDownstream
    MailboxCapacity = 1
    SystemCapacity = 2
    MaxSends = 1
    Chains <- MCChains
    Owner = "o"
    Provider = {"o", "w"}
    Grant <- MCGrant
    BatchSize = 2
    MaxGeneration = 2
    MaxLost = 2
    MaxInFlight = 1
    Link = {"l"}
    ServerOf <- MCServerOf
    JoinServer = {"a", "b"}
    MaxUses = 1
    Joiner = {"x"}
    TokenOf <- MCTokenOf
    MaxLosses = 1
    MaxRestarts = 1
INVARIANTS
    
    NoLostWakeup
    
PROPERTIES
    HistoryArrives
    CompletionIsAnnounced
    
    ViewSettles
    ShutdownReturns
    AsksEnd
CHECK_DEADLOCK FALSE
